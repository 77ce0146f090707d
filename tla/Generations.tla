---------------------------- MODULE Generations ----------------------------
(***************************************************************************)
(* The life of an image generation: the HTTP handlers that create, delete  *)
(* and (by webhook) update it, the BullMQ job that carries it, and the     *)
(* worker that runs ImageGenerationProcessor.process.  Each action is what *)
(* the code does between two awaits: handlers, workers and BullMQ's stall  *)
(* checker interleave at that grain.                                       *)
(*                                                                         *)
(* The credit movements are CreditLedger's operations on the same tables.  *)
(* The order items a generation is linked to (syncLinkedOrderItems) and    *)
(* the expense row of a finished one are other components' state.          *)
(***************************************************************************)
EXTENDS CreditLedger

CONSTANTS
    Admin,          \* accounts with role admin: they generate for free
    Gen,            \* generation ids
    Worker,         \* BullMQ workers: one per running process
    AdminCall,      \* POST /admin/credits/grant requests
    SignupBonus,    \* AuthService.SIGNUP_BONUS_CREDITS
    GrantAmount,    \* the amount of an admin grant
    MaxIncidents,   \* bound: crashes and lost locks per generation
    None

ASSUME GenerationConstants ==
    /\ Admin \subseteq User
    /\ User \cup Gen \cup AdminCall \subseteq Ref
    /\ {SignupBonus, GrantAmount} \subseteq Amount
    /\ MaxIncidents \in Nat
    /\ None \notin User \cup Gen \cup Worker

VARIABLES
    status,         \* Generation.status, or whether the row exists
    owner,          \* Generation.userId
    adminTest,      \* the rows with Generation.isAdminTest
    hasResult,      \* Generation.resultUrl is set
    styleImages,    \* StyleImage rows that a test generation left
    unqueued,       \* handlers between the commit and imageQueue.add
    job,            \* the BullMQ job's state
    lock,           \* the worker that holds the job's lock
    stalls,         \* the job's stalled counter
    pc, task,       \* what each worker is doing, and for which generation
    incidents,      \* history: crashes and lock losses while running it
    dbFaults,       \* history: generations whose job met a database error that
                    \* no code recovers from
    notified        \* history: generations a webhook wrote to

genVars == <<status, owner, adminTest, hasResult, styleImages>>
jobVars == <<job, lock, stalls>>
runVars == <<pc, task>>
histVars == <<incidents, dbFaults, notified>>
vars == <<ledgerVars, genVars, unqueued, jobVars, runVars, histVars>>

Status  == {"absent", "pending", "processing", "completed", "failed", "deleted"}
Job     == {"none", "waiting", "active", "completed", "failed"}
Step    == {"idle", "start", "execute", "save", "publish", "done",
            "fail", "refund", "failed"}

Exists(g) == status[g] \notin {"absent", "deleted"}
Registered(u) == Posted("signup_bonus", u)
Spent(g) == Posted("generation_spend", g)
Refunded(g) == Posted("generation_refund", g)

\* Mutant of MaxStalledCount: the first stall already fails the job.
NoStallTolerated == 0

\* BullMQ's default: a job that stalls a second time is failed, not run.
MaxStalledCount == 1

Init ==
    /\ LedgerInit
    /\ status = [g \in Gen |-> "absent"]
    /\ owner = [g \in Gen |-> None]
    /\ adminTest = {}
    /\ hasResult = [g \in Gen |-> FALSE]
    /\ styleImages = [g \in Gen |-> 0]
    /\ unqueued = {}
    /\ job = [g \in Gen |-> "none"]
    /\ lock = [g \in Gen |-> None]
    /\ stalls = [g \in Gen |-> 0]
    /\ pc = [w \in Worker |-> "idle"]
    /\ task = [w \in Worker |-> None]
    /\ incidents = [g \in Gen |-> 0]
    /\ dbFaults = {}
    /\ notified = {}

-----------------------------------------------------------------------------
(* Accounts and credits, as far as generations see them. *)

Register(u) ==
    /\ ~Registered(u)
    /\ Grant(u, SignupBonus, "signup_bonus", u)
    /\ UNCHANGED <<genVars, unqueued, jobVars, runVars, histVars>>

AdminGrant(u, call) ==
    /\ Registered(u)
    /\ ~Posted("admin_grant", call)
    /\ Grant(u, GrantAmount, "admin_grant", call)
    /\ UNCHANGED <<genVars, unqueued, jobVars, runVars, histVars>>

-----------------------------------------------------------------------------
(* HTTP handlers. *)

\* Mutants of CreateImageGeneration: the 402 is caught and the row created
\* anyway; the spend commits even if the row does not; and the spend is written
\* by hand, without CreditsService's condition.
CreateOnCredit(u, g) ==
    /\ Registered(u)
    /\ status[g] = "absent"
    /\ IF u \in Admin \/ balance[u] < 1 THEN UNCHANGED ledgerVars ELSE SpendForGeneration(u, g)
    /\ status' = [status EXCEPT ![g] = "pending"]
    /\ owner' = [owner EXCEPT ![g] = u]
    /\ unqueued' = unqueued \cup {g}
    /\ UNCHANGED <<adminTest, hasResult, styleImages, jobVars, runVars, histVars>>

CreateAfterSpending(u, g) ==
    /\ Registered(u)
    /\ status[g] = "absent"
    /\ IF u \in Admin THEN UNCHANGED ledgerVars ELSE SpendForGeneration(u, g)
    /\ \/ /\ status' = [status EXCEPT ![g] = "pending"]
          /\ owner' = [owner EXCEPT ![g] = u]
          /\ unqueued' = unqueued \cup {g}
       \/ UNCHANGED <<status, owner, unqueued>>
    /\ UNCHANGED <<adminTest, hasResult, styleImages, jobVars, runVars, histVars>>

CreateWithOwnSpend(u, g) ==
    /\ Registered(u)
    /\ status[g] = "absent"
    /\ IF u \in Admin THEN UNCHANGED ledgerVars ELSE Post(u, -1, "generation_spend", g)
    /\ status' = [status EXCEPT ![g] = "pending"]
    /\ owner' = [owner EXCEPT ![g] = u]
    /\ unqueued' = unqueued \cup {g}
    /\ UNCHANGED <<adminTest, hasResult, styleImages, jobVars, runVars, histVars>>

\* The row and the spend commit together; only then is the job added.
CreateImageGeneration(u, g) ==
    /\ Registered(u)
    /\ status[g] = "absent"
    /\ IF u \in Admin THEN UNCHANGED ledgerVars ELSE SpendForGeneration(u, g)
    /\ status' = [status EXCEPT ![g] = "pending"]
    /\ owner' = [owner EXCEPT ![g] = u]
    /\ unqueued' = unqueued \cup {g}
    /\ UNCHANGED <<adminTest, hasResult, styleImages, jobVars, runVars, histVars>>

RunAdminTestGeneration(u, g) ==
    /\ Registered(u)
    /\ u \in Admin
    /\ status[g] = "absent"
    /\ status' = [status EXCEPT ![g] = "pending"]
    /\ owner' = [owner EXCEPT ![g] = u]
    /\ adminTest' = adminTest \cup {g}
    /\ unqueued' = unqueued \cup {g}
    /\ UNCHANGED <<ledgerVars, hasResult, styleImages, jobVars, runVars, histVars>>

Enqueue(g) ==
    /\ g \in unqueued
    /\ unqueued' = unqueued \ {g}
    /\ job' = [job EXCEPT ![g] = "waiting"]
    /\ UNCHANGED <<ledgerVars, genVars, lock, stalls, runVars, histVars>>

\* Redis refuses the job or the process dies: the transaction stays committed.
LoseEnqueue(g) ==
    /\ g \in unqueued
    /\ unqueued' = unqueued \ {g}
    /\ UNCHANGED <<ledgerVars, genVars, jobVars, runVars, histVars>>

\* Any state may be deleted; the queued job and the credit stay as they are.
DeleteGeneration(g) ==
    /\ Exists(g)
    /\ status' = [status EXCEPT ![g] = "deleted"]
    /\ UNCHANGED <<ledgerVars, owner, adminTest, hasResult, styleImages, unqueued,
                   jobVars, runVars, histVars>>

\* The webhook overwrites whatever status the row has, and never refunds.
\* Bound: one webhook per generation.
HandleGenerationComplete(g, s, withResult) ==
    /\ Exists(g)
    /\ g \notin notified
    /\ status' = [status EXCEPT ![g] = s]
    /\ hasResult' = [hasResult EXCEPT ![g] = @ \/ withResult]
    /\ notified' = notified \cup {g}
    /\ UNCHANGED <<ledgerVars, owner, adminTest, styleImages, unqueued, jobVars, runVars,
                   incidents, dbFaults>>

-----------------------------------------------------------------------------
(* The worker: ImageGenerationProcessor.process. *)

Take(w, g) ==
    /\ pc[w] = "idle"
    /\ job[g] = "waiting"
    /\ job' = [job EXCEPT ![g] = "active"]
    /\ lock' = [lock EXCEPT ![g] = w]
    /\ pc' = [pc EXCEPT ![w] = "start"]
    /\ task' = [task EXCEPT ![w] = g]
    /\ UNCHANGED <<ledgerVars, genVars, unqueued, stalls, histVars>>

Goto(w, step) == pc' = [pc EXCEPT ![w] = step] /\ UNCHANGED task

\* BullMQ records the outcome only for the worker that still holds the lock.
EndJob(w, outcome) ==
    LET g == task[w] IN
    /\ IF lock[g] = w
       THEN /\ job' = [job EXCEPT ![g] = outcome]
            /\ lock' = [lock EXCEPT ![g] = None]
       ELSE UNCHANGED <<job, lock>>
    /\ pc' = [pc EXCEPT ![w] = "idle"]
    /\ task' = [task EXCEPT ![w] = None]
    /\ UNCHANGED stalls

\* A database error where nothing recovers from it.  Bound: one per generation.
DatabaseFails(g) ==
    /\ g \notin dbFaults
    /\ dbFaults' = dbFaults \cup {g}

\* findForProcessing and the write of 'processing' stand outside the try: for
\* a deleted generation, and after a database error in either, the job fails
\* and nothing else is written or refunded.
BeginProcessing(w) ==
    /\ pc[w] = "start"
    /\ LET g == task[w] IN
       \/ /\ Exists(g)
          /\ status' = [status EXCEPT ![g] = "processing"]
          /\ Goto(w, "execute")
          /\ UNCHANGED <<jobVars, dbFaults>>
       \/ /\ ~Exists(g)
          /\ EndJob(w, "failed")
          /\ UNCHANGED <<status, dbFaults>>
       \/ /\ DatabaseFails(g)
          /\ EndJob(w, "failed")
          /\ UNCHANGED status
    /\ UNCHANGED <<ledgerVars, owner, adminTest, hasResult, styleImages, unqueued,
                   incidents, notified>>

\* The vision model, the image model and the upload, or an error from any.
ExecuteStrategy(w) ==
    /\ pc[w] = "execute"
    /\ \E next \in {"save", "fail"} : Goto(w, next)
    /\ UNCHANGED <<ledgerVars, genVars, unqueued, jobVars, histVars>>

\* Mutant of MarkCompleted: what follows the update may still throw, for a
\* customer's generation too.
MarkCompletedThenThrow(w) ==
    /\ pc[w] = "save"
    /\ LET g == task[w] IN
       IF Exists(g)
       THEN /\ status' = [status EXCEPT ![g] = "completed"]
            /\ hasResult' = [hasResult EXCEPT ![g] = TRUE]
            /\ \E next \in {"publish", "fail"} : Goto(w, next)
       ELSE Goto(w, "fail") /\ UNCHANGED <<status, hasResult>>
    /\ UNCHANGED <<ledgerVars, owner, adminTest, styleImages, unqueued, jobVars, histVars>>

\* The update throws if the row is gone or the database fails, and the catch
\* block takes over.
MarkCompleted(w) ==
    /\ pc[w] = "save"
    /\ LET g == task[w] IN
       \/ /\ Exists(g)
          /\ status' = [status EXCEPT ![g] = "completed"]
          /\ hasResult' = [hasResult EXCEPT ![g] = TRUE]
          /\ Goto(w, IF g \in adminTest THEN "publish" ELSE "done")
       \/ Goto(w, "fail") /\ UNCHANGED <<status, hasResult>>
    /\ UNCHANGED <<ledgerVars, owner, adminTest, styleImages, unqueued, jobVars, histVars>>

\* Still inside the try: if the StyleImage is not stored, the catch block
\* marks a completed generation as failed.
PublishStyleImage(w) ==
    /\ pc[w] = "publish"
    /\ \/ /\ styleImages' = [styleImages EXCEPT ![task[w]] = @ + 1]
          /\ Goto(w, "done")
       \/ UNCHANGED styleImages /\ Goto(w, "fail")
    /\ UNCHANGED <<ledgerVars, status, owner, adminTest, hasResult, unqueued, jobVars, histVars>>

\* markFailed's update.  If the row is gone or the database fails, it throws
\* out of the catch block, before the refund.
MarkFailed(w) ==
    /\ pc[w] = "fail"
    /\ LET g == task[w] IN
       \/ /\ Exists(g)
          /\ status' = [status EXCEPT ![g] = "failed"]
          /\ Goto(w, "refund")
          /\ UNCHANGED <<jobVars, dbFaults>>
       \/ /\ ~Exists(g)
          /\ EndJob(w, "failed")
          /\ UNCHANGED <<status, dbFaults>>
       \/ /\ DatabaseFails(g)
          /\ EndJob(w, "failed")
          /\ UNCHANGED status
    /\ UNCHANGED <<ledgerVars, owner, adminTest, hasResult, styleImages, unqueued,
                   incidents, notified>>

\* Mutant of RefundFailed: nothing is returned.
RefundForgotten(w) ==
    /\ pc[w] = "refund"
    /\ Goto(w, "failed")
    /\ UNCHANGED <<ledgerVars, genVars, unqueued, jobVars, histVars>>

\* markFailed's refund; an error there is logged and swallowed.
RefundFailed(w) ==
    /\ pc[w] = "refund"
    /\ \/ RefundGeneration(task[w]) /\ UNCHANGED dbFaults
       \/ DatabaseFails(task[w]) /\ UNCHANGED ledgerVars
    /\ Goto(w, "failed")
    /\ UNCHANGED <<genVars, unqueued, jobVars, incidents, notified>>

\* Mutant of Finish: the queue retries a failed job, as the orders queue does.
FinishWithRetries(w) ==
    /\ pc[w] \in {"done", "failed"}
    /\ EndJob(w, IF pc[w] = "done" THEN "completed" ELSE "waiting")
    /\ UNCHANGED <<ledgerVars, genVars, unqueued, histVars>>

\* process returns, or rethrows; the queue has no retries (attempts: 1).
Finish(w) ==
    /\ pc[w] \in {"done", "failed"}
    /\ EndJob(w, IF pc[w] = "done" THEN "completed" ELSE "failed")
    /\ UNCHANGED <<ledgerVars, genVars, unqueued, histVars>>

-----------------------------------------------------------------------------
(* Faults of the worker and BullMQ's recovery from them. *)

Unlock(w) ==
    LET g == task[w] IN
    /\ incidents[g] < MaxIncidents
    /\ incidents' = [incidents EXCEPT ![g] = @ + 1]
    /\ lock' = [lock EXCEPT ![g] = IF @ = w THEN None ELSE @]
    /\ UNCHANGED <<job, stalls, dbFaults, notified>>

Crash(w) ==
    /\ pc[w] # "idle"
    /\ Unlock(w)
    /\ pc' = [pc EXCEPT ![w] = "idle"]
    /\ task' = [task EXCEPT ![w] = None]
    /\ UNCHANGED <<ledgerVars, genVars, unqueued>>

\* The worker is late renewing its lock but goes on running the handler.
LoseLock(w) ==
    /\ pc[w] # "idle"
    /\ lock[task[w]] = w
    /\ Unlock(w)
    /\ UNCHANGED <<ledgerVars, genVars, unqueued, runVars>>

RecoverStalled(g) ==
    /\ job[g] = "active"
    /\ lock[g] = None
    /\ stalls' = [stalls EXCEPT ![g] = @ + 1]
    /\ job' = [job EXCEPT ![g] = IF stalls[g] < MaxStalledCount
                                 THEN "waiting" ELSE "failed"]
    /\ UNCHANGED <<ledgerVars, genVars, unqueued, lock, runVars, histVars>>

-----------------------------------------------------------------------------
Requests ==
    \/ \E u \in User : Register(u)
    \/ \E u \in User, call \in AdminCall : AdminGrant(u, call)
    \/ \E u \in User, g \in Gen : CreateImageGeneration(u, g)
    \/ \E u \in User, g \in Gen : RunAdminTestGeneration(u, g)
    \/ \E g \in Gen : Enqueue(g)
    \/ \E g \in Gen : LoseEnqueue(g)
    \/ \E g \in Gen : DeleteGeneration(g)
    \/ \E g \in Gen, s \in {"completed", "failed"}, withResult \in BOOLEAN :
            HandleGenerationComplete(g, s, withResult)

Process(w) ==
    \/ BeginProcessing(w)
    \/ ExecuteStrategy(w)
    \/ MarkCompleted(w)
    \/ PublishStyleImage(w)
    \/ MarkFailed(w)
    \/ RefundFailed(w)
    \/ Finish(w)

Next ==
    \/ Requests
    \/ \E w \in Worker, g \in Gen : Take(w, g)
    \/ \E w \in Worker : Process(w)
    \/ \E w \in Worker : Crash(w)
    \/ \E w \in Worker : LoseLock(w)
    \/ \E g \in Gen : RecoverStalled(g)

Spec == Init /\ [][Next]_vars

\* A started handler goes on, a live worker takes jobs and runs them to the
\* end, and BullMQ's stall checker runs.  Clients and faults owe nothing.
Fairness ==
    /\ \A g \in Gen : WF_vars(Enqueue(g) \/ LoseEnqueue(g))
    /\ \A g \in Gen : WF_vars(\E w \in Worker : Take(w, g))
    /\ \A w \in Worker : WF_vars(Process(w))
    /\ \A g \in Gen : WF_vars(RecoverStalled(g))

FairSpec == Spec /\ Fairness
-----------------------------------------------------------------------------
TypeOK ==
    /\ LedgerTypeOK
    /\ status \in [Gen -> Status]
    /\ owner \in [Gen -> User \cup {None}]
    /\ adminTest \in SUBSET Gen
    /\ hasResult \in [Gen -> BOOLEAN]
    /\ styleImages \in [Gen -> Nat]
    /\ unqueued \in SUBSET Gen
    /\ job \in [Gen -> Job]
    /\ lock \in [Gen -> Worker \cup {None}]
    /\ stalls \in [Gen -> Nat]
    /\ pc \in [Worker -> Step]
    /\ task \in [Worker -> Gen \cup {None}]
    /\ incidents \in [Gen -> 0 .. MaxIncidents]
    /\ dbFaults \in SUBSET Gen
    /\ notified \in SUBSET Gen

Running(g) == \E w \in Worker : task[w] = g

\* createImageGeneration: no request, however it races another for the last
\* credit, leaves a customer's generation that was not paid for by its owner.
\* A refund pays it back once at most, so this also bounds what a user can make.
NoFreeGeneration ==
    \A g \in Gen \ adminTest :
        status[g] # "absent" /\ owner[g] \notin Admin =>
            \E r \in ledger : /\ r.reason = "generation_spend"
                              /\ r.ref = g
                              /\ r.user = owner[g]

\* The other side of it: every credit spent belongs to a generation that was
\* created, so a rolled-back request never costs anything.
EverySpendHasItsGeneration ==
    \A r \in ledger : r.reason = "generation_spend" =>
        /\ r.ref \in Gen \ adminTest
        /\ status[r.ref] # "absent"
        /\ owner[r.ref] = r.user

\* While no worker was lost and no webhook interfered, a delivered image stays
\* charged: markFailed and its refund never follow markCompleted.
DeliveredIsCharged ==
    \A g \in Gen \ adminTest :
        /\ status[g] = "completed"
        /\ incidents[g] = 0
        /\ g \notin notified
        => ~Refunded(g)

\* The pipeline absorbs one crash or one lost lock per generation: when its job
\* has ended and no worker is on it, the row is final, and a failed one has
\* its credit back.  A second incident, a webhook, or a database error before the
\* try, in the update of markFailed or in its refund (logged and forgotten) are
\* outside what the code recovers from; one of markCompleted is not.
FinishedJobIsSettled ==
    \A g \in Gen :
        /\ job[g] \in {"completed", "failed"}
        /\ ~Running(g)
        /\ Exists(g)
        /\ incidents[g] <= 1
        /\ g \notin notified \cup dbFaults
        => \/ status[g] = "completed" /\ hasResult[g]
           \/ status[g] = "failed" /\ (Spent(g) => Refunded(g))

\* Without a lost worker or a webhook, a customer's image that was delivered is
\* never taken back: it stays completed until its owner deletes it.
CompletedIsFinal ==
    [][ \A g \in Gen \ adminTest :
            /\ status[g] = "completed"
            /\ status'[g] \notin {"completed", "deleted"}
            => incidents[g] > 0 \/ g \in notified' ]_vars

\* What may keep a paid generation from ever being settled: it was deleted
\* first, its job was never queued, it met a second incident, a webhook wrote
\* its status, or the database failed where nothing recovers: before the try,
\* so that the row stays pending or processing, in the update of markFailed,
\* before the refund, or in the refund.
LeftUnsettled(g) ==
    \/ status[g] = "deleted"
    \/ job[g] = "none" /\ g \notin unqueued
    \/ incidents[g] > 1
    \/ g \in notified \cup dbFaults

\* Every other paid generation ends with the image or with the credit back,
\* across crashes, lost locks and reruns.
PaidGenerationSettles ==
    \A g \in Gen :
        Spent(g) ~> \/ status[g] = "completed"
                    \/ status[g] = "failed" /\ Refunded(g)
                    \/ LeftUnsettled(g)
=============================================================================
