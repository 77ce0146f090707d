------------------------------ MODULE SyncRuns ------------------------------
(***************************************************************************)
(* The long runs that copy from Shopify, and what keeps them apart: a lock *)
(* in Redis (external) with a time to live for the syncs of products, a    *)
(* flag in the process's memory for the backfills of orders.  Each run has *)
(* its SyncLog row.  What a run copies is the matter of Catalogue and of   *)
(* Orders.                                                                 *)
(***************************************************************************)
EXTENDS Naturals

CONSTANTS
    Run,            \* the runs that may be asked for, each once
    MaxRestarts     \* bound: restarts of the process

ASSUME SyncConstants == MaxRestarts \in Nat

VARIABLES
    run,        \* where each run is
    log,        \* the status of its SyncLog row
    lock,       \* whether shopify:sync:lock is set
    flag,       \* OrdersSyncService.syncLocked
    restarts,   \* how many there were
    lapsed,     \* history: the lock expired under a sync at work
    unnoticed   \* history: two backfills passed the flag before one set it

syncVars == <<run, log, lock, flag, restarts, lapsed, unnoticed>>

-----------------------------------------------------------------------------
Kind == {"sync", "backfill"}
Working == {"work", "report", "report failure", "release"}
Place == {"none", "log", "over", "silent", "killed"} \cup Working
NotAsked == [kind |-> "none", at |-> "none"]

SyncInit ==
    /\ run = [r \in Run |-> NotAsked]
    /\ log = [r \in Run |-> "none"]
    /\ lock = FALSE /\ flag = FALSE
    /\ restarts = 0 /\ lapsed = FALSE /\ unnoticed = FALSE

RunsAt(kind, places) == {r \in Run : run[r].kind = kind /\ run[r].at \in places}
Goto(r, at) == run' = [run EXCEPT ![r].at = at]
Begin(r, kind, at) == run[r] = NotAsked /\ run' = [run EXCEPT ![r] = [kind |-> kind, at |-> at]]
History == <<restarts, lapsed, unnoticed>>

-----------------------------------------------------------------------------
\* Mutant of AcquireMutex: it sets the key whether or not it is there.
AcquireAlways(r) ==
    /\ Begin(r, "sync", "log") /\ lock' = TRUE
    /\ UNCHANGED <<log, flag, History>>

\* SET NX PX, of the cron or of an administrator: refused, or skipped, when
\* it is set.
AcquireMutex(r) ==
    /\ IF lock THEN Begin(r, "sync", "over") /\ UNCHANGED lock
       ELSE Begin(r, "sync", "log") /\ lock' = TRUE
    /\ UNCHANGED <<log, flag, History>>

Expire ==
    /\ lock /\ lock' = FALSE
    /\ lapsed' = (lapsed \/ RunsAt("sync", Working \cup {"log"}) # {})
    /\ UNCHANGED <<run, log, flag, restarts, unnoticed>>

\* triggerBackfill reads the flag, awaits the insertion of the log row, and
\* runBackfill sets the flag.
TriggerBackfill(r) ==
    /\ Begin(r, "backfill", IF flag THEN "over" ELSE "log")
    /\ unnoticed' = (unnoticed \/ (~flag /\ RunsAt("backfill", {"log"}) # {}))
    /\ UNCHANGED <<log, lock, flag, restarts, lapsed>>

FlagOnStart(r) == flag \/ run[r].kind = "backfill"

\* The SyncLog row is created; if that fails the run ends, and of a sync the
\* lock stays.
CreateSyncLog(r) ==
    /\ run[r].at = "log"
    /\ \/ /\ log' = [log EXCEPT ![r] = "running"]
          /\ flag' = FlagOnStart(r)
          /\ Goto(r, "work")
       \/ Goto(r, "over") /\ UNCHANGED <<log, flag>>
    /\ UNCHANGED <<lock, History>>

-----------------------------------------------------------------------------
\* The run copies what it fetched, or throws; with errors of single items it
\* ends all the same.
Work(r) ==
    /\ run[r].at = "work"
    /\ Goto(r, "report") \/ Goto(r, "report failure")
    /\ UNCHANGED <<log, lock, flag, History>>

\* Mutant of Report: an update that fails is let be.
ReportOnce(r) ==
    /\ run[r].at = "report"
    /\ \/ \E status \in {"completed", "failed"} : log' = [log EXCEPT ![r] = status]
       \/ UNCHANGED log
    /\ Goto(r, "release")
    /\ UNCHANGED <<lock, flag, History>>

\* An update that fails inside the try is reported as a failure of the run.
Report(r) ==
    /\ run[r].at = "report"
    /\ \/ /\ \E status \in {"completed", "failed"} : log' = [log EXCEPT ![r] = status]
          /\ Goto(r, "release")
       \/ Goto(r, "report failure") /\ UNCHANGED log
    /\ UNCHANGED <<lock, flag, History>>

\* A run that could not write its failure leaves its row running.
ReportFailure(r) ==
    /\ run[r].at = "report failure"
    /\ log' = [log EXCEPT ![r] = "failed"]
    /\ Goto(r, "release")
    /\ UNCHANGED <<lock, flag, History>>

\* finally: the release comes whether or not the failure could be written.
\* releaseMutex deletes the key, whoever set it; if Redis does not answer it
\* stays.
Release(r) ==
    /\ run[r].at \in {"release", "report failure"}
    /\ Goto(r, IF run[r].at = "release" THEN "over" ELSE "silent")
    /\ \/ run[r].kind = "backfill" /\ flag' = FALSE /\ UNCHANGED lock
       \/ run[r].kind = "sync" /\ lock' \in {FALSE, lock} /\ UNCHANGED flag
    /\ UNCHANGED <<log, History>>

\* The process restarts: its runs and its memory are lost, Redis is not.
Restart ==
    /\ restarts < MaxRestarts
    /\ restarts' = restarts + 1
    /\ run' = [r \in Run |-> IF run[r].at \in Working \cup {"log"}
                             THEN [run[r] EXCEPT !.at = "killed"] ELSE run[r]]
    /\ flag' = FALSE
    /\ UNCHANGED <<log, lock, lapsed, unnoticed>>

Advance(r) == CreateSyncLog(r) \/ Work(r) \/ Report(r) \/ ReportFailure(r) \/ Release(r)

SyncNext ==
    \/ \E r \in Run : AcquireMutex(r) \/ TriggerBackfill(r) \/ Advance(r)
    \/ Expire \/ Restart

\* A run that started goes on, and Redis forgets a key when its time is up.
SyncFairness == (\A r \in Run : WF_syncVars(Advance(r))) /\ WF_syncVars(Expire)

SyncSpec == SyncInit /\ [][SyncNext]_syncVars /\ SyncFairness

-----------------------------------------------------------------------------
OneOf(runs) == \A r, s \in runs : r = s
SyncsApart == lapsed \/ OneOf(RunsAt("sync", Working))
BackfillsApart ==
    /\ unnoticed \/ OneOf(RunsAt("backfill", Working))
    /\ flag => RunsAt("backfill", Working) # {}

\* Two syncs of products are at work at once only after the lock expired
\* under one of them: then the one deletes the lock of the other, and so on.
\* Two backfills are, only after two passed the flag while neither had set it
\* yet; and a flag that is set is that of a backfill at work (acquireMutex,
\* triggerBackfill).
RunsApart == SyncsApart /\ BackfillsApart

LockIsFreed == lock ~> ~lock
LogsSettle ==
    \A r \in Run : log[r] = "running" ~>
        log[r] \in {"completed", "failed"} \/ run[r].at \in {"killed", "silent"}

\* Whatever fails and whatever is killed, the lock is freed again, though the
\* run that took it could not create its log row or reach Redis at its end;
\* and a log row that says "running" settles, unless its run was killed or
\* could not write that it failed (the finally of runFullSync and runBackfill).
RunsSettle == LockIsFreed /\ LogsSettle
=============================================================================
