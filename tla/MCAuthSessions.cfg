\* One account, a browser that names itself and one that does not, and two
\* requests in flight; a token lives two of the three seconds.
SPECIFICATION Spec
CONSTANTS
    User = {u}
    Device = {phone}
    Req = {p, q}
    MaxClosures = 1
    None = None
    MaxSessions = 1
    TokenTTL = 2
    Retention = 1
    MaxTime = 2
    MaxTokens = 2
    MaxFailures = 1
SYMMETRY Symmetry
INVARIANTS
    RotationMintsAtMostOne
    NoSessionAuthorisedAfterClosing
    SessionsBounded
