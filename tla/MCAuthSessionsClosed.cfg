\* A closed account has no open session: false while a request is in flight.
SPECIFICATION Spec
CONSTANTS
    User = {u}
    Device = {phone}
    Req = {p, q}
    MaxClosures = 1
    None = None
    MaxSessions = 1
    TokenTTL = 2
    Retention = 1
    MaxTime = 3
    MaxTokens = 2
    MaxFailures = 1
INVARIANT ClosedAccountHasNoSessions
CHECK_DEADLOCK FALSE
