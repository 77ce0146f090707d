--------------------------- MODULE AccountStatus ---------------------------
(***************************************************************************)
(* AccountStatusService and AccountLifecycleService: the only writers of   *)
(* User.status, and of everything that closing or reopening an account     *)
(* entails.  Every transition is two steps, as in the code: a read with    *)
(* its guards, and a transaction that does not look at the row again.      *)
(* Requests and the daily sweep interleave between the two.                *)
(*                                                                         *)
(* AuthSessions extends this module with logins and token rotation, which  *)
(* work on the same rows.                                                  *)
(***************************************************************************)
EXTENDS Integers, FiniteSetsExt

CONSTANTS
    User,
    Device,         \* values of RefreshToken.userAgent
    Req,            \* requests (or cron ticks) in flight at the same time
    MaxClosures,    \* bound: closing transitions per account
    None

ASSUME NoneIsNothing == None \notin User \cup Device

VARIABLES
    status,         \* User.status
    graceOver,      \* User.deletedAt is more than PURGE_GRACE_DAYS old
    anonymized,     \* User.anonymizedAt is set
    dormant,        \* no login and no new session for INACTIVITY_MONTHS
    tokens,         \* the rows of RefreshToken
    req,            \* the requests in flight
    closures        \* history: how many times each account was closed

userVars == <<status, graceOver, anonymized, dormant>>

Status == {"active", "banned", "inactive", "deleted"}

(***************************************************************************)
(* A request in flight: the operation, the step it will do next, and what  *)
(* it read on the way.  auth is history: the number of closings of the     *)
(* account at the moment its status was checked.                           *)
(***************************************************************************)
Idle == [op |-> "none", pc |-> "idle", user |-> None, device |-> None,
         token |-> 0, iat |-> 0, evicted |-> {}, auth |-> 0]

InFlight(p) == req[p].op # "none"

Start(p, op, pc, u) ==
    /\ ~InFlight(p)
    /\ req' = [req EXCEPT ![p] = [Idle EXCEPT !.op = op, !.pc = pc, !.user = u]]

At(p, pc) == req[p].pc = pc
Continue(p, pc) == req' = [req EXCEPT ![p].pc = pc]
End(p) == req' = [req EXCEPT ![p] = Idle]

\* The status an operation writes.
Target(op) ==
    CASE op \in {"activate", "restore", "login"} -> "active"
      [] op = "ban"                              -> "banned"
      [] op \in {"deactivate", "sweep"}          -> "inactive"
      [] op = "softDelete"                       -> "deleted"

Live(t) == ~t.revoked
RevokeWhere(doomed(_)) ==
    tokens' = {IF doomed(t) THEN [t EXCEPT !.revoked = TRUE] ELSE t : t \in tokens}

-----------------------------------------------------------------------------
(* The read and its guards. *)

MayClose(u) == closures[u] < MaxClosures

SetStatus(p, u, op) ==
    /\ op \in {"activate", "ban", "deactivate"}
    /\ status[u] # "deleted"
    /\ status[u] # Target(op)
    /\ op # "activate" => MayClose(u)
    /\ Start(p, op, "apply", u)
    /\ UNCHANGED <<userVars, tokens, closures>>

SoftDelete(p, u) ==
    /\ status[u] # "deleted"
    /\ MayClose(u)
    /\ Start(p, "softDelete", "apply", u)
    /\ UNCHANGED <<userVars, tokens, closures>>

Restore(p, u) ==
    /\ status[u] = "deleted"
    /\ ~anonymized[u]
    /\ Start(p, "restore", "apply", u)
    /\ UNCHANGED <<userVars, tokens, closures>>

\* The sweep's query decides; deactivateForInactivity reads the row again but
\* only to audit it.
PickInactive(p, u) ==
    /\ status[u] = "active"
    /\ dormant[u]
    /\ MayClose(u)
    /\ Start(p, "sweep", "apply", u)
    /\ UNCHANGED <<userVars, tokens, closures>>

(* The transaction. *)

WriteStatus(u, next) ==
    /\ status' = [status EXCEPT ![u] = next]
    /\ graceOver' = [graceOver EXCEPT ![u] = FALSE]
    /\ closures' = [closures EXCEPT ![u] = @ + IF next = "active" THEN 0 ELSE 1]
    /\ UNCHANGED <<anonymized, dormant>>

\* Reopening an account leaves its old sessions closed; any other status
\* closes them all.
ApplyTransition(p) ==
    LET u == req[p].user
        next == Target(req[p].op)
    IN  /\ WriteStatus(u, next)
        /\ IF next = "active" THEN UNCHANGED tokens
           ELSE RevokeWhere(LAMBDA t : t.user = u)

FinishTransition(p) ==
    /\ At(p, "apply")
    /\ ApplyTransition(p)
    /\ End(p)

-----------------------------------------------------------------------------
(* The purge of the accounts that were deleted PURGE_GRACE_DAYS ago. *)

PickForPurge(p, u) ==
    /\ status[u] = "deleted"
    /\ ~anonymized[u]
    /\ graceOver[u]
    /\ Start(p, "purge", "checkPurge", u)
    /\ UNCHANGED <<userVars, tokens, closures>>

\* anonymize's own read: it does not ask again how old the deletion is.
CheckPurge(p) ==
    /\ At(p, "checkPurge")
    /\ LET u == req[p].user IN
       IF status[u] = "deleted" /\ ~anonymized[u] THEN Continue(p, "purge") ELSE End(p)
    /\ UNCHANGED <<userVars, tokens, closures>>

Anonymize(p) ==
    /\ At(p, "purge")
    /\ anonymized' = [anonymized EXCEPT ![req[p].user] = TRUE]
    /\ tokens' = {t \in tokens : t.user # req[p].user}
    /\ End(p)
    /\ UNCHANGED <<status, graceOver, dormant, closures>>

-----------------------------------------------------------------------------
(* Time, as the sweeps see it: days and months, which no request lasts. *)

NothingInFlight(u) == \A p \in Req : req[p].user # u

GraceElapses(u) ==
    /\ status[u] = "deleted"
    /\ ~graceOver[u]
    /\ NothingInFlight(u)
    /\ graceOver' = [graceOver EXCEPT ![u] = TRUE]
    /\ UNCHANGED <<status, anonymized, dormant, tokens, req, closures>>

\* Months without a login or a rotation: every session has expired and the
\* daily job has removed its row.
BecomeDormant(u) ==
    /\ ~dormant[u]
    /\ \A t \in tokens : t.user # u
    /\ NothingInFlight(u)
    /\ dormant' = [dormant EXCEPT ![u] = TRUE]
    /\ UNCHANGED <<status, graceOver, anonymized, tokens, req, closures>>

StatusNext ==
    \/ \E p \in Req, u \in User :
        \/ \E op \in {"activate", "ban", "deactivate"} : SetStatus(p, u, op)
        \/ SoftDelete(p, u)
        \/ Restore(p, u)
        \/ PickInactive(p, u)
        \/ PickForPurge(p, u)
    \/ \E p \in Req : FinishTransition(p)
    \/ \E p \in Req : CheckPurge(p)
    \/ \E p \in Req : Anonymize(p)
    \/ \E u \in User : GraceElapses(u)
    \/ \E u \in User : BecomeDormant(u)
=============================================================================
