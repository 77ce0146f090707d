---------------------------- MODULE AuthSessions ----------------------------
(***************************************************************************)
(* AuthService's sessions: login, refresh-token rotation, logout, the      *)
(* session list's revocations and AuthCleanupService, interleaved with the *)
(* account transitions of AccountStatus.  One step per await.              *)
(*                                                                         *)
(* A refresh token is a JWT that carries the account and the second it was *)
(* signed in (iat) and nothing else that varies, and its hash is unique in *)
(* the table: two tokens of one account signed in the same second are the  *)
(* same token.  now counts those seconds; TokenTTL of them stand for the   *)
(* seven days a token lives.                                               *)
(***************************************************************************)
EXTENDS AccountStatus

CONSTANTS
    MaxSessions,    \* the limit passed to limitActiveTokens
    TokenTTL,       \* life of a refresh token
    Retention,      \* how long the daily job keeps a revoked token
    MaxTime,        \* bound on now
    MaxTokens,      \* bound: no request for a token starts after these
    MaxFailures     \* bound: failures of limitActiveTokens per account

ASSUME SessionConstants ==
    /\ MaxSessions \in Nat \ {0}
    /\ {TokenTTL, Retention, MaxTime, MaxTokens, MaxFailures} \subseteq Nat

ASSUME RequestsAreFinite == IsFiniteSet(Req)

VARIABLES
    now,
    created,        \* tokens created so far: the newest row's id
    unlimited       \* history: times limitActiveTokens failed for each account

clock == <<now, created, unlimited>>
vars == <<userVars, tokens, req, closures, clock>>

\* parent (history) is the token a rotation replaced, 0 for a login's; auth
\* (history) is the one of the request that created the row.
Token == [id : Nat, user : User, device : Device \cup {None}, iat : Nat,
          expires : Nat, createdAt : Nat, revoked : BOOLEAN,
          parent : Nat, auth : Nat]

JwtExpired(t) == now >= t.iat + TokenTTL
Active(u) == {t \in tokens : t.user = u /\ Live(t) /\ t.expires > now}
Newest(S, n) == {t \in S : Cardinality({s \in S : s.id > t.id}) < n}

Init ==
    /\ status = [u \in User |-> "active"]
    /\ graceOver = [u \in User |-> FALSE]
    /\ anonymized = [u \in User |-> FALSE]
    /\ dormant = [u \in User |-> FALSE]
    /\ tokens = {}
    /\ req = [p \in Req |-> Idle]
    /\ closures = [u \in User |-> 0]
    /\ now = 0
    /\ created = 0
    /\ unlimited = [u \in User |-> 0]

-----------------------------------------------------------------------------
(* login and loginWithGoogle. *)

\* The account is found by its email until the purge takes it; assertCanLogIn
\* decides on the status just read.
Login(p, u, d) ==
    /\ ~InFlight(p)
    /\ ~anonymized[u]
    /\ created < MaxTokens
    /\ status[u] \in {"active", "inactive"}
    /\ req' = [req EXCEPT ![p] =
                 [Idle EXCEPT !.op = "login", !.user = u, !.device = d,
                              !.pc = IF status[u] = "active" THEN "seen" ELSE "reactivate",
                              !.auth = closures[u]]]
    /\ UNCHANGED <<userVars, tokens, closures, clock>>

\* reactivateOnLogin reads the row again, and does not look at its status.
ReactivateOnLogin(p) ==
    /\ At(p, "reactivate")
    /\ ApplyTransition(p)
    /\ req' = [req EXCEPT ![p].pc = "seen", ![p].auth = closures[req[p].user]]
    /\ UNCHANGED clock

UpdateLastLogin(p) ==
    /\ At(p, "seen")
    /\ dormant' = [dormant EXCEPT ![req[p].user] = FALSE]
    /\ Continue(p, "replace")
    /\ UNCHANGED <<status, graceOver, anonymized, tokens, closures, clock>>

\* Mutant of ReplaceDeviceSession: the device's session is left open.
KeepDeviceSession(p) ==
    /\ At(p, "replace")
    /\ Continue(p, "sign")
    /\ UNCHANGED <<userVars, tokens, closures, clock>>

\* A login takes the place of the same device's session, if it names a device.
ReplaceDeviceSession(p) ==
    /\ At(p, "replace")
    /\ IF req[p].device = None THEN UNCHANGED tokens
       ELSE RevokeWhere(LAMBDA t : t.user = req[p].user /\ t.device = req[p].device)
    /\ Continue(p, "sign")
    /\ UNCHANGED <<userVars, closures, clock>>

-----------------------------------------------------------------------------
(* refreshToken. *)

Refresh(p, t) ==
    /\ ~InFlight(p)
    /\ created < MaxTokens
    /\ ~JwtExpired(t)
    /\ req' = [req EXCEPT ![p] =
                 [Idle EXCEPT !.op = "refresh", !.user = t.user, !.device = t.device,
                              !.token = t.id,
                              !.pc = IF t.revoked THEN "revokeAll" ELSE "ownerCheck"]]
    /\ UNCHANGED <<userVars, tokens, closures, clock>>

\* Mutant of CheckOwner: it trusts the token about the account's status.
TrustToken(p) ==
    /\ At(p, "ownerCheck")
    /\ req' = [req EXCEPT ![p].pc = "rotate", ![p].auth = closures[req[p].user]]
    /\ UNCHANGED <<userVars, tokens, closures, clock>>

CheckOwner(p) ==
    /\ At(p, "ownerCheck")
    /\ LET u == req[p].user IN
       req' = [req EXCEPT ![p].pc = IF status[u] = "active" THEN "rotate" ELSE "revokeAll",
                          ![p].auth = closures[u]]
    /\ UNCHANGED <<userVars, tokens, closures, clock>>

\* Mutant of Rotate: the update without its isRevoked guard.
RotateUnguarded(p) ==
    /\ At(p, "rotate")
    /\ RevokeWhere(LAMBDA t : t.id = req[p].token)
    /\ Continue(p, "sign")
    /\ UNCHANGED <<userVars, closures, clock>>

\* The guarded update: of two refreshes of one token, one flips the row.
Rotate(p) ==
    /\ At(p, "rotate")
    /\ LET flips == {t \in tokens : t.id = req[p].token /\ Live(t)} IN
       /\ RevokeWhere(LAMBDA t : t \in flips)
       /\ IF flips # {} THEN Continue(p, "sign") ELSE End(p)
    /\ UNCHANGED <<userVars, closures, clock>>

\* revokeAllUserTokens logs an error of its own and swallows it.
RevokeAll(p) ==
    /\ At(p, "revokeAll")
    /\ \/ RevokeWhere(LAMBDA t : t.user = req[p].user)
       \/ UNCHANGED tokens
    /\ End(p)
    /\ UNCHANGED <<userVars, closures, clock>>

-----------------------------------------------------------------------------
(* generateTokens, the common end of a login and a rotation. *)

\* The service's own cleanupExpiredTokens: a revoked row stays until the daily
\* job takes it, for a second use of its token to be noticed.
DropExpired(u) == tokens' = {t \in tokens : t.user = u => t.expires >= now}

\* Signs the JWT, then deletes the account's expired rows; if that fails, the
\* error is swallowed.
SignToken(p) ==
    /\ At(p, "sign")
    /\ DropExpired(req[p].user) \/ UNCHANGED tokens
    /\ req' = [req EXCEPT ![p].pc = "limit", ![p].iat = now]
    /\ UNCHANGED <<userVars, closures, clock>>

\* limitActiveTokens swallows its errors, in the read and in the update:
\* nothing is revoked, and the token is inserted all the same.
LimitFails(p) ==
    /\ req[p].pc \in {"limit", "evict"}
    /\ unlimited[req[p].user] < MaxFailures
    /\ unlimited' = [unlimited EXCEPT ![req[p].user] = @ + 1]
    /\ req' = [req EXCEPT ![p].evicted = {}, ![p].pc = "create"]
    /\ UNCHANGED <<userVars, tokens, closures, now, created>>

\* limitActiveTokens reads the sessions...
ReadSessions(p) ==
    /\ At(p, "limit")
    /\ LET sessions == Active(req[p].user)
           evicted == IF Cardinality(sessions) < MaxSessions THEN {}
                      ELSE sessions \ Newest(sessions, MaxSessions - 1)
       IN  req' = [req EXCEPT ![p].evicted = {t.id : t \in evicted},
                              ![p].pc = IF evicted = {} THEN "create" ELSE "evict"]
    /\ UNCHANGED <<userVars, tokens, closures, clock>>

\* ...and then revokes the ones it read.
EvictOldest(p) ==
    /\ At(p, "evict")
    /\ RevokeWhere(LAMBDA t : t.id \in req[p].evicted)
    /\ Continue(p, "create")
    /\ UNCHANGED <<userVars, closures, clock>>

\* The insert fails on a hash that is already there, and the request with it.
SameHash(p) == \E t \in tokens : t.user = req[p].user /\ t.iat = req[p].iat

CreateToken(p) ==
    /\ At(p, "create")
    /\ IF SameHash(p) THEN UNCHANGED <<tokens, created, dormant>>
       ELSE /\ created' = created + 1
            /\ tokens' = tokens \cup
                 {[id |-> created + 1, user |-> req[p].user, device |-> req[p].device,
                   iat |-> req[p].iat, expires |-> now + TokenTTL, createdAt |-> now,
                   revoked |-> FALSE, parent |-> req[p].token, auth |-> req[p].auth]}
            /\ dormant' = [dormant EXCEPT ![req[p].user] = FALSE]
    /\ End(p)
    /\ UNCHANGED <<status, graceOver, anonymized, closures, now, unlimited>>

\* An error of any call that does not swallow it ends the request where it is:
\* what it has revoked stays revoked.
RequestFails(p) ==
    /\ InFlight(p)
    /\ req[p].pc \notin {"revokeAll", "sign", "limit", "evict"}
    /\ End(p)
    /\ UNCHANGED <<userVars, tokens, closures, clock>>

-----------------------------------------------------------------------------
(* One-statement requests, and the daily job. *)

\* Its earlier read only finds the row's owner.
RevokeSession(t) ==
    /\ Live(t)
    /\ RevokeWhere(LAMBDA s : s.id = t.id)
    /\ UNCHANGED <<userVars, req, closures, clock>>

\* The session of the cookie, which may have been rotated or revoked already.
Logout(t) ==
    /\ RevokeWhere(LAMBDA s : s.id = t.id)
    /\ UNCHANGED <<userVars, req, closures, clock>>

\* keep is the current session's id, or 0 when the request carries no cookie.
RevokeAllOtherSessions(u, keep) ==
    /\ \E t \in tokens : t.user = u /\ Live(t) /\ t.id # keep
    /\ RevokeWhere(LAMBDA t : t.user = u /\ t.id # keep)
    /\ UNCHANGED <<userVars, req, closures, clock>>

\* An administrator's: a second revocation of one session finds nothing.
RevokeUserSession(u, t) ==
    /\ t.user = u /\ Live(t)
    /\ RevokeWhere(LAMBDA s : s.id = t.id /\ s.user = u)
    /\ UNCHANGED <<userVars, req, closures, clock>>

RevokeAllUserSessions(u) ==
    /\ RevokeWhere(LAMBDA t : t.user = u)
    /\ UNCHANGED <<userVars, req, closures, clock>>

CleanupExpiredTokens ==
    /\ tokens' = {t \in tokens : /\ t.expires >= now
                                 /\ t.revoked => t.createdAt + Retention >= now}
    /\ UNCHANGED <<userVars, req, closures, clock>>

Tick ==
    /\ now < MaxTime
    /\ now' = now + 1
    /\ UNCHANGED <<userVars, tokens, req, closures, created, unlimited>>

-----------------------------------------------------------------------------
SessionStep(p) ==
    \/ ReactivateOnLogin(p)
    \/ UpdateLastLogin(p)
    \/ ReplaceDeviceSession(p)
    \/ CheckOwner(p)
    \/ Rotate(p)
    \/ RevokeAll(p)
    \/ SignToken(p)
    \/ ReadSessions(p)
    \/ EvictOldest(p)
    \/ LimitFails(p)
    \/ CreateToken(p)
    \/ RequestFails(p)

Next ==
    \/ StatusNext /\ UNCHANGED clock
    \/ \E p \in Req, u \in User, d \in Device \cup {None} : Login(p, u, d)
    \/ \E p \in Req, t \in tokens : Refresh(p, t)
    \/ \E p \in Req : SessionStep(p)
    \/ \E t \in tokens : RevokeSession(t) \/ Logout(t)
    \/ \E u \in User, t \in tokens : RevokeUserSession(u, t)
    \/ \E u \in User : RevokeAllUserSessions(u)
    \/ \E u \in User, keep \in 0 .. created : RevokeAllOtherSessions(u, keep)
    \/ CleanupExpiredTokens
    \/ Tick

Spec == Init /\ [][Next]_vars
-----------------------------------------------------------------------------
\* The requests of account u that are certain to try to insert a token for
\* device d: they have already revoked what it replaces.
Minting(p) == req[p].pc \in {"sign", "limit", "evict", "create"}

\* refreshToken's guard: a token that two requests present at once, or that is
\* presented again later, is rotated into one new token at most.
RotationMintsAtMostOne ==
    \A k \in 1 .. created :
        LET children == {t \in tokens : t.parent = k}
            pending  == {p \in Req : Minting(p) /\ req[p].token = k}
        IN  /\ Cardinality(children) + Cardinality(pending) <= 1
            /\ children \cup pending # {} => \A t \in tokens : t.id = k => t.revoked

\* Whatever the races between a login or a refresh and the closing of its
\* account, a live session of a closed account was authorised before the
\* account was last closed: no request that read the closed status has one.
NoSessionAuthorisedAfterClosing ==
    \A t \in tokens : Live(t) /\ status[t.user] # "active" => t.auth < closures[t.user]

\* The sessions that an account may have: its limit, one for each request that
\* races with another, and one for each failure of the limit itself.
Bound(u) == MaxSessions - 1 + Cardinality(Req) + unlimited[u]

WithinLimit == \A u \in User : Cardinality(Active(u)) <= Bound(u)
OnePerDevice ==
    \A u \in User, d \in Device :
        Cardinality({t \in tokens : t.user = u /\ t.device = d /\ Live(t)})
          + Cardinality({p \in Req : Minting(p) /\ req[p].user = u /\ req[p].device = d})
        <= Cardinality(Req)

\* limitActiveTokens counts before it inserts, and a session is revoked before
\* the one of the same device that replaces it is inserted: an account exceeds
\* its limit by the logins and rotations that raced and by the times that
\* limitActiveTokens failed and was passed over, a device its one session by
\* those that raced, and neither ever by more.
SessionsBounded == WithinLimit /\ OnePerDevice

-----------------------------------------------------------------------------
(* What comments and documents say, and concurrent requests can break. *)

\* applyTransition's comment: status and sessions change in one transaction
\* "para que no exista un instante con la cuenta cerrada y sesiones abiertas".
ClosedAccountHasNoSessions ==
    \A u \in User : status[u] # "active" => Active(u) = {}
=============================================================================
