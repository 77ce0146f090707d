------------------------- MODULE GenerationsProofs -------------------------
(***************************************************************************)
(* The generation pipeline, for every set of accounts, generations,        *)
(* workers and incidents: its types, that it implements the credit ledger, *)
(* that generations and spends match one to one, and what becomes of an    *)
(* undisturbed generation: delivered it stays charged, and when the queue  *)
(* is done with it, it has its result or its credit is back.               *)
(***************************************************************************)
EXTENDS Generations, CreditLedgerProofs

\* A worker has a task while it is not idle.
WorkersHaveTasks == \A w \in Worker : pc[w] = "idle" <=> task[w] = None

\* The types of everything but the ledger.
PipelineTypeOK ==
    /\ status \in [Gen -> Status]
    /\ owner \in [Gen -> User \cup {None}]
    /\ adminTest \in SUBSET Gen
    /\ hasResult \in [Gen -> BOOLEAN]
    /\ styleImages \in [Gen -> Nat]
    /\ unqueued \in SUBSET Gen
    /\ job \in [Gen -> Job]
    /\ lock \in [Gen -> Worker \cup {None}]
    /\ stalls \in [Gen -> Nat]
    /\ pc \in [Worker -> Step]
    /\ task \in [Worker -> Gen \cup {None}]
    /\ incidents \in [Gen -> 0 .. MaxIncidents]
    /\ dbFaults \in SUBSET Gen
    /\ notified \in SUBSET Gen
    /\ WorkersHaveTasks

\* Every step of the pipeline is a ledger operation of CreditsService with
\* known accounts and references, or leaves both tables alone.
LEMMA StepIsLedgerStep ==
    ASSUME PipelineTypeOK, [Next]_vars
    PROVE  [LedgerNext]_ledgerVars
<1> USE GenerationConstants
<1>1. CASE UNCHANGED vars
  BY <1>1 DEF vars
<1>2. ASSUME NEW u \in User, Register(u)
      PROVE  LedgerNext
  BY <1>2 DEF Register, LedgerNext, GrantReason
<1>3. ASSUME NEW u \in User, NEW call \in AdminCall, AdminGrant(u, call)
      PROVE  LedgerNext
  BY <1>3 DEF AdminGrant, LedgerNext, GrantReason
<1>4. ASSUME NEW u \in User, NEW g \in Gen, CreateImageGeneration(u, g)
      PROVE  [LedgerNext]_ledgerVars
  BY <1>4 DEF CreateImageGeneration, LedgerNext
<1>5. ASSUME NEW w \in Worker, RefundFailed(w)
      PROVE  [LedgerNext]_ledgerVars
  <2>1. task[w] \in Ref
    BY <1>5 DEF PipelineTypeOK, WorkersHaveTasks, RefundFailed
  <2> QED  BY <1>5, <2>1 DEF RefundFailed, LedgerNext
<1>6. CASE Requests
  BY <1>2, <1>3, <1>4, <1>6 DEF Requests, RunAdminTestGeneration, Enqueue, LoseEnqueue,
     DeleteGeneration, HandleGenerationComplete
<1>7. CASE \E w \in Worker : Process(w)
  BY <1>5, <1>7 DEF Process, BeginProcessing, ExecuteStrategy, MarkCompleted,
     PublishStyleImage, MarkFailed, Finish
<1>8. CASE \/ \E w \in Worker, g \in Gen : Take(w, g)
           \/ \E w \in Worker : Crash(w)
           \/ \E w \in Worker : LoseLock(w)
           \/ \E g \in Gen : RecoverStalled(g)
  BY <1>8 DEF Take, Crash, LoseLock, RecoverStalled
<1> QED  BY <1>1, <1>6, <1>7, <1>8 DEF Next

\* Requests keep the types and start no worker.
LEMMA RequestsKeepTypes ==
    ASSUME PipelineTypeOK, Requests
    PROVE  PipelineTypeOK'
<1> USE DEF PipelineTypeOK, WorkersHaveTasks, Status, Job, genVars, jobVars, runVars, histVars
<1>1. ASSUME NEW u \in User, Register(u) PROVE PipelineTypeOK'
  BY <1>1 DEF Register
<1>2. ASSUME NEW u \in User, NEW call \in AdminCall, AdminGrant(u, call)
      PROVE  PipelineTypeOK'
  BY <1>2 DEF AdminGrant
<1>3. ASSUME NEW u \in User, NEW g \in Gen, CreateImageGeneration(u, g)
      PROVE  PipelineTypeOK'
  BY <1>3 DEF CreateImageGeneration
<1>4. ASSUME NEW u \in User, NEW g \in Gen, RunAdminTestGeneration(u, g)
      PROVE  PipelineTypeOK'
  BY <1>4 DEF RunAdminTestGeneration
<1>5. ASSUME NEW g \in Gen, Enqueue(g) PROVE PipelineTypeOK'
  BY <1>5 DEF Enqueue
<1>6. ASSUME NEW g \in Gen, LoseEnqueue(g) PROVE PipelineTypeOK'
  BY <1>6 DEF LoseEnqueue
<1>7. ASSUME NEW g \in Gen, DeleteGeneration(g) PROVE PipelineTypeOK'
  BY <1>7 DEF DeleteGeneration
<1>8. ASSUME NEW g \in Gen, NEW s \in {"completed", "failed"}, NEW withResult \in BOOLEAN,
             HandleGenerationComplete(g, s, withResult)
      PROVE  PipelineTypeOK'
  <2>1. hasResult' \in [Gen -> BOOLEAN]  BY <1>8, Zenon DEF HandleGenerationComplete
  <2>2. status' \in [Gen -> Status]  BY <1>8 DEF HandleGenerationComplete
  <2> QED  BY <1>8, <2>1, <2>2 DEF HandleGenerationComplete
<1> QED  BY <1>1, <1>2, <1>3, <1>4, <1>5, <1>6, <1>7, <1>8 DEF Requests

\* A step of a worker keeps them, and an idle worker is left without a task.
LEMMA ProcessKeepsTypes ==
    ASSUME PipelineTypeOK, NEW w \in Worker, Process(w)
    PROVE  PipelineTypeOK'
<1> USE DEF PipelineTypeOK, WorkersHaveTasks, Status, Job, Step, Goto,
            genVars, jobVars, runVars, histVars
<1>1. task[w] \in Gen
  BY DEF Process, BeginProcessing, ExecuteStrategy, MarkCompleted, PublishStyleImage,
         MarkFailed, RefundFailed, Finish
<1>2. CASE BeginProcessing(w)
  <2>1. dbFaults' \subseteq Gen
    BY <1>1, <1>2 DEF BeginProcessing, DatabaseFails
  <2> QED  BY <1>1, <1>2, <2>1 DEF BeginProcessing, EndJob
<1>3. CASE ExecuteStrategy(w)
  BY <1>1, <1>3 DEF ExecuteStrategy
<1>4. CASE MarkCompleted(w)
  <2>1. /\ status' = status \/ status' = [status EXCEPT ![task[w]] = "completed"]
        /\ hasResult' = hasResult \/ hasResult' = [hasResult EXCEPT ![task[w]] = TRUE]
    BY <1>4, Zenon DEF MarkCompleted
  <2>2. status' \in [Gen -> Status]
    BY <1>1, <2>1
  <2>3. hasResult' \in [Gen -> BOOLEAN]
    BY <2>1, Zenon
  <2>4. PICK step \in Step : step # "idle" /\ Goto(w, step)
    BY <1>4 DEF MarkCompleted
  <2> QED  BY <1>1, <1>4, <2>2, <2>3, <2>4 DEF MarkCompleted
<1>5. CASE PublishStyleImage(w)
  BY <1>1, <1>5 DEF PublishStyleImage
<1>6. CASE MarkFailed(w)
  <2>1. dbFaults' \subseteq Gen
    BY <1>1, <1>6 DEF MarkFailed, DatabaseFails
  <2> QED  BY <1>1, <1>6, <2>1 DEF MarkFailed, EndJob
<1>7. CASE RefundFailed(w)
  BY <1>1, <1>7 DEF RefundFailed, DatabaseFails
<1>8. CASE Finish(w)
  BY <1>1, <1>8 DEF Finish, EndJob
<1> QED  BY <1>2, <1>3, <1>4, <1>5, <1>6, <1>7, <1>8 DEF Process

\* So does every step.
LEMMA PipelineTypesStep == PipelineTypeOK /\ [Next]_vars => PipelineTypeOK'
<1> SUFFICES ASSUME PipelineTypeOK, [Next]_vars
             PROVE  PipelineTypeOK'
  OBVIOUS
<1> USE DEF PipelineTypeOK, WorkersHaveTasks, Status, Job, Step,
            genVars, jobVars, runVars, histVars
<1>1. CASE UNCHANGED vars
  BY <1>1 DEF vars
<1>2. CASE Requests
  BY <1>2, RequestsKeepTypes
<1>3. CASE \E w \in Worker : Process(w)
  BY <1>3, ProcessKeepsTypes
<1>4. ASSUME NEW w \in Worker, NEW g \in Gen, Take(w, g) PROVE PipelineTypeOK'
  BY <1>4, GenerationConstants DEF Take
<1>5. ASSUME NEW w \in Worker, Crash(w) PROVE PipelineTypeOK'
  <2>1. task[w] \in Gen  BY <1>5 DEF Crash
  <2>2. incidents' \in [Gen -> 0 .. MaxIncidents]
    BY <1>5, <2>1, GenerationConstants DEF Crash, Unlock
  <2> QED  BY <1>5, <2>1, <2>2 DEF Crash, Unlock
<1>6. ASSUME NEW w \in Worker, LoseLock(w) PROVE PipelineTypeOK'
  <2>1. task[w] \in Gen  BY <1>6 DEF LoseLock
  <2>2. incidents' \in [Gen -> 0 .. MaxIncidents]
    BY <1>6, <2>1, GenerationConstants DEF LoseLock, Unlock
  <2> QED  BY <1>6, <2>1, <2>2 DEF LoseLock, Unlock
<1>7. ASSUME NEW g \in Gen, RecoverStalled(g) PROVE PipelineTypeOK'
  BY <1>7 DEF RecoverStalled
<1> QED  BY <1>1, <1>2, <1>3, <1>4, <1>5, <1>6, <1>7 DEF Next

-----------------------------------------------------------------------------
(* Generations and spends. *)

\* What a step does to the rows of Generation: only the two creating handlers
\* bring one into being, and nothing changes its owner or its kind.
RowsAreKept ==
    /\ UNCHANGED <<owner, adminTest>>
    /\ \A g \in Gen : status'[g] = "absent" <=> status[g] = "absent"

\* What it does to the ledger: no row goes, and no spend comes.
NoNewSpend ==
    /\ ledger \subseteq ledger'
    /\ \A r \in ledger' \ ledger : r.reason # "generation_spend"

\* A grant adds a row that is not a spend.
LEMMA GrantAddsNoSpend ==
    ASSUME NEW u, NEW n, NEW reason, NEW ref, reason # "generation_spend",
           Grant(u, n, reason, ref)
    PROVE  NoNewSpend
BY DEF Grant, Post, NoNewSpend, ledgerVars

\* So does a refund.
LEMMA RefundAddsNoSpend ==
    ASSUME NEW g, RefundGeneration(g)
    PROVE  NoNewSpend
BY DEF RefundGeneration, Post, NoNewSpend, ledgerVars

\* Every step but the two creating handlers keeps the rows and spends nothing.
LEMMA OnlyCreationSpends ==
    ASSUME PipelineTypeOK, [Next]_vars,
           ~\E u \in User, g \in Gen : CreateImageGeneration(u, g),
           ~\E u \in User, g \in Gen : RunAdminTestGeneration(u, g)
    PROVE  RowsAreKept /\ NoNewSpend
<1> USE DEF PipelineTypeOK, RowsAreKept, genVars, jobVars, runVars, histVars, ledgerVars
<1>1. CASE UNCHANGED vars
  BY <1>1 DEF vars, NoNewSpend
<1>2. ASSUME NEW u \in User, Register(u) PROVE RowsAreKept /\ NoNewSpend
  BY <1>2, GrantAddsNoSpend DEF Register
<1>3. ASSUME NEW u \in User, NEW call \in AdminCall, AdminGrant(u, call)
      PROVE  RowsAreKept /\ NoNewSpend
  BY <1>3, GrantAddsNoSpend DEF AdminGrant
<1>4. CASE \/ \E g \in Gen : Enqueue(g)
           \/ \E g \in Gen : LoseEnqueue(g)
  BY <1>4 DEF Enqueue, LoseEnqueue, NoNewSpend
<1>5. ASSUME NEW g \in Gen, DeleteGeneration(g) PROVE RowsAreKept /\ NoNewSpend
  BY <1>5 DEF DeleteGeneration, Exists, NoNewSpend
<1>6. ASSUME NEW g \in Gen, NEW s \in {"completed", "failed"}, NEW withResult \in BOOLEAN,
             HandleGenerationComplete(g, s, withResult)
      PROVE  RowsAreKept /\ NoNewSpend
  BY <1>6 DEF HandleGenerationComplete, Exists, NoNewSpend
<1>7. ASSUME NEW w \in Worker, Process(w) PROVE RowsAreKept /\ NoNewSpend
  <2>1. CASE RefundFailed(w)
    BY <2>1, RefundAddsNoSpend DEF RefundFailed, NoNewSpend
  <2>2. CASE ~RefundFailed(w)
    BY <1>7, <2>2 DEF Process, BeginProcessing, ExecuteStrategy, MarkCompleted,
       PublishStyleImage, MarkFailed, Finish, Exists, NoNewSpend
  <2> QED  BY <2>1, <2>2
<1>8. CASE \/ \E w \in Worker, g \in Gen : Take(w, g)
           \/ \E w \in Worker : Crash(w)
           \/ \E w \in Worker : LoseLock(w)
           \/ \E g \in Gen : RecoverStalled(g)
  BY <1>8 DEF Take, Crash, LoseLock, RecoverStalled, NoNewSpend
<1> QED  BY <1>1, <1>2, <1>3, <1>4, <1>5, <1>6, <1>7, <1>8 DEF Next, Requests

TestsExist == \A g \in adminTest : status[g] # "absent"

\* The inductive invariant of the accounting.  A generation is created under an
\* id that no test has, and a refund is typed by the spend it mirrors: hence
\* TestsExist and the ledger's own invariant in it.
AccountingInv ==
    /\ LedgerInv
    /\ PipelineTypeOK
    /\ NoFreeGeneration
    /\ EverySpendHasItsGeneration
    /\ TestsExist

\* The invariant holds before the first request.
LEMMA AccountingInit == Init => AccountingInv
<1> SUFFICES ASSUME Init PROVE AccountingInv
  OBVIOUS
<1>1. LedgerInv
  BY LedgerInvInit DEF Init
<1>2. PipelineTypeOK
  BY GenerationConstants DEF Init, PipelineTypeOK, WorkersHaveTasks, Status, Job, Step
<1>3. NoFreeGeneration /\ EverySpendHasItsGeneration /\ TestsExist
  BY DEF Init, LedgerInit, NoFreeGeneration, EverySpendHasItsGeneration, TestsExist
<1> QED  BY <1>1, <1>2, <1>3 DEF AccountingInv

\* A new customer's generation is paid for by the row that its transaction
\* adds, and that row is the only new spend.
LEMMA CreationIsAccounted ==
    ASSUME AccountingInv, NEW u \in User, NEW g \in Gen, CreateImageGeneration(u, g)
    PROVE  NoFreeGeneration' /\ EverySpendHasItsGeneration'
<1> USE DEF AccountingInv, PipelineTypeOK
<1> DEFINE spend == [user |-> u, amount |-> -1, reason |-> "generation_spend", ref |-> g]
<1>1. /\ status' = [status EXCEPT ![g] = "pending"]
      /\ owner' = [owner EXCEPT ![g] = u]
      /\ status[g] = "absent"
      /\ UNCHANGED adminTest
  BY DEF CreateImageGeneration, genVars
<1>2. IF u \in Admin THEN ledger' = ledger ELSE ledger' = ledger \cup {spend}
  BY DEF CreateImageGeneration, SpendForGeneration, Post, ledgerVars
<1>3. NoFreeGeneration'
  <2>1. SUFFICES ASSUME NEW h \in Gen \ adminTest, status'[h] # "absent", owner'[h] \notin Admin
                 PROVE  \E r \in ledger' : /\ r.reason = "generation_spend"
                                           /\ r.ref = h
                                           /\ r.user = owner'[h]
    BY <1>1 DEF NoFreeGeneration
  <2>2. CASE h = g
    <3>1. owner'[h] = u  BY <1>1, <2>2
    <3>2. spend \in ledger'  BY <1>2, <2>1, <3>1
    <3> QED  BY <2>2, <3>1, <3>2
  <2>3. CASE h # g
    BY <1>1, <1>2, <2>1, <2>3 DEF NoFreeGeneration
  <2> QED  BY <2>2, <2>3
<1>4. EverySpendHasItsGeneration'
  <2>1. SUFFICES ASSUME NEW r \in ledger', r.reason = "generation_spend"
                 PROVE  /\ r.ref \in Gen \ adminTest'
                        /\ status'[r.ref] # "absent"
                        /\ owner'[r.ref] = r.user
    BY DEF EverySpendHasItsGeneration
  <2>2. CASE r \in ledger
    <3>1. r.ref \in Gen \ adminTest /\ status[r.ref] # "absent" /\ owner[r.ref] = r.user
      BY <2>1, <2>2 DEF EverySpendHasItsGeneration
    <3> QED  BY <1>1, <3>1
  <2>3. CASE u \notin Admin /\ r = spend
    BY <1>1, <2>3 DEF TestsExist
  <2> QED  BY <1>2, <2>1, <2>2, <2>3
<1> QED  BY <1>3, <1>4

\* A test costs nothing, and its id was not in use.
LEMMA TestIsAccounted ==
    ASSUME AccountingInv, NEW u \in User, NEW g \in Gen, RunAdminTestGeneration(u, g)
    PROVE  NoFreeGeneration' /\ EverySpendHasItsGeneration'
<1> USE DEF AccountingInv, PipelineTypeOK
<1>1. /\ status' = [status EXCEPT ![g] = "pending"]
      /\ owner' = [owner EXCEPT ![g] = u]
      /\ adminTest' = adminTest \cup {g}
      /\ status[g] = "absent"
      /\ UNCHANGED ledger
  BY DEF RunAdminTestGeneration, ledgerVars
<1>2. NoFreeGeneration'
  BY <1>1 DEF NoFreeGeneration
<1>3. EverySpendHasItsGeneration'
  <2>1. SUFFICES ASSUME NEW r \in ledger, r.reason = "generation_spend"
                 PROVE  /\ r.ref \in Gen \ adminTest'
                        /\ status'[r.ref] # "absent"
                        /\ owner'[r.ref] = r.user
    BY <1>1 DEF EverySpendHasItsGeneration
  <2>2. r.ref \in Gen \ adminTest /\ status[r.ref] # "absent" /\ owner[r.ref] = r.user
    BY <2>1 DEF EverySpendHasItsGeneration
  <2> QED  BY <1>1, <2>2
<1> QED  BY <1>2, <1>3

\* Every step preserves the invariant.
LEMMA AccountingStep == AccountingInv /\ [Next]_vars => AccountingInv'
<1> SUFFICES ASSUME AccountingInv, [Next]_vars
             PROVE  AccountingInv'
  OBVIOUS
<1>1. LedgerInv'
  BY StepIsLedgerStep, LedgerInvStep DEF AccountingInv
<1>2. PipelineTypeOK'
  BY PipelineTypesStep DEF AccountingInv
<1>3. NoFreeGeneration' /\ EverySpendHasItsGeneration' /\ TestsExist'
  <2>1. ASSUME NEW u \in User, NEW g \in Gen, CreateImageGeneration(u, g)
        PROVE  TestsExist'
    BY <2>1 DEF AccountingInv, TestsExist, PipelineTypeOK, CreateImageGeneration
  <2>2. ASSUME NEW u \in User, NEW g \in Gen, RunAdminTestGeneration(u, g)
        PROVE  TestsExist'
    BY <2>2 DEF AccountingInv, TestsExist, PipelineTypeOK, RunAdminTestGeneration
  <2>3. CASE RowsAreKept /\ NoNewSpend
    <3>1. NoFreeGeneration'
      BY <2>3 DEF AccountingInv, NoFreeGeneration, RowsAreKept, NoNewSpend
    <3>2. EverySpendHasItsGeneration'
      BY <2>3 DEF AccountingInv, EverySpendHasItsGeneration, RowsAreKept, NoNewSpend
    <3>3. TestsExist'
      BY <2>3 DEF AccountingInv, TestsExist, RowsAreKept, PipelineTypeOK
    <3> QED  BY <3>1, <3>2, <3>3
  <2> QED  BY <2>1, <2>2, <2>3, CreationIsAccounted, TestIsAccounted, OnlyCreationSpends
           DEF AccountingInv
<1> QED  BY <1>1, <1>2, <1>3 DEF AccountingInv

\* So it holds always.
LEMMA AccountingInvariant == Spec => []AccountingInv
BY AccountingInit, AccountingStep, PTL DEF Spec

\* The rows of Generation, the jobs and the workers keep their types.
THEOREM GenerationsTypeCorrect == Spec => []TypeOK
<1>1. AccountingInv => TypeOK
  BY DEF AccountingInv, LedgerInv, PipelineTypeOK, TypeOK
<1> QED  BY <1>1, AccountingInvariant, PTL

\* createImageGeneration: its transaction leaves no customer's generation
\* without the credit it costs, however requests interleave.
THEOREM GenerationsArePaid == Spec => []NoFreeGeneration
BY AccountingInvariant, PTL DEF AccountingInv

\* And no credit is spent but on a generation of the account that paid it.
THEOREM SpendsAreForGenerations == Spec => []EverySpendHasItsGeneration
BY AccountingInvariant, PTL DEF AccountingInv

\* The handlers and the worker use the ledger only as CreditsService allows:
\* the pipeline implements the ledger's specification.
THEOREM PipelineImplementsLedger == Spec => LedgerSpec
<1>1. Init => LedgerInit
  BY DEF Init
<1>2. AccountingInv /\ [Next]_vars => [LedgerNext]_ledgerVars
  BY StepIsLedgerStep DEF AccountingInv
<1> QED  BY <1>1, <1>2, AccountingInvariant, PTL DEF Spec, LedgerSpec

\* So what was proved of the ledger holds of the whole pipeline.
COROLLARY PipelineNeverOverdraws == Spec => []OverdraftOnlyByReversal
BY PipelineImplementsLedger, NoOverdraftBySpending, PTL

\* So the cached balances hold their sums under any interleaving of requests,
\* workers, webhooks, failures and sweeps.
THEOREM PipelineKeepsBalances == Spec => []BalanceIsLedgerSum
BY PipelineImplementsLedger, BalanceIsAlwaysTheSum, PTL

-----------------------------------------------------------------------------
(***************************************************************************)
(* What happens to a customer's generation that no crash, lost lock or     *)
(* webhook disturbs: one worker runs it, its row follows that worker, and  *)
(* the image that was delivered stays delivered and charged.  And when the *)
(* queue is done with one that met at most one incident, it has its result *)
(* or its credit is back.                                                  *)
(***************************************************************************)

\* While no worker of a generation was lost, its job is run by the worker that
\* holds the lock, and by no other.
Exclusive(g) ==
    /\ job[g] = "active" => lock[g] # None
    /\ \A w \in Worker : task[w] = g => job[g] = "active" /\ lock[g] = w

\* Where the row of a customer's generation stands at each step of that worker.
Stage(g) ==
    /\ Refunded(g) => status[g] \in {"failed", "deleted"}
    /\ job[g] \in {"none", "waiting"} =>
            status[g] \in {"absent", "pending", "deleted"} /\ ~Refunded(g)
    /\ \A w \in Worker : task[w] = g =>
            /\ pc[w] # "publish"
            /\ pc[w] # "failed" => ~Refunded(g)
            /\ pc[w] = "start" => status[g] \in {"absent", "pending", "deleted"}
            /\ pc[w] \in {"execute", "save", "fail"} => status[g] \in {"processing", "deleted"}
            /\ pc[w] \in {"refund", "failed"} => status[g] \in {"failed", "deleted"}

\* The inductive invariant of an undisturbed generation.
StageInv ==
    \A g \in Gen :
        /\ status[g] = "absent" => g \notin unqueued
        /\ status[g] = "absent" \/ g \in unqueued => job[g] = "none"
        /\ job[g] = "none" => \A w \in Worker : task[w] # g
        /\ incidents[g] = 0 => Exclusive(g)
        /\ incidents[g] = 0 /\ g \notin adminTest \cup notified => Stage(g)

\* Only the worker that failed a generation refunds it: no other operation of
\* the ledger, and no refund of another generation, changes who was refunded.
RefundsKept == \A g \in Gen : Refunded(g)' <=> Refunded(g)

\* A refund is of one generation.
LEMMA OthersRefundsKept ==
    ASSUME PipelineTypeOK, NEW h \in Gen, RefundGeneration(h)
    PROVE  \A g \in Gen \ {h} : Refunded(g)' <=> Refunded(g)
BY DEF RefundGeneration, Post, ledgerVars, Refunded, Posted

\* A grant is no refund.
LEMMA GrantKeepsRefunds ==
    ASSUME NEW u, NEW n, NEW reason, NEW ref, reason # "generation_refund",
           Grant(u, n, reason, ref)
    PROVE  RefundsKept
BY DEF Grant, Post, ledgerVars, Refunded, Posted, RefundsKept

\* Nor is a spend.
LEMMA SpendKeepsRefunds ==
    ASSUME NEW u, NEW h, SpendForGeneration(u, h)
    PROVE  RefundsKept
BY DEF SpendForGeneration, Post, Refunded, Posted, RefundsKept

\* Nor is a step that leaves the tables alone.
LEMMA LedgerKeepsRefunds ==
    ASSUME UNCHANGED ledgerVars
    PROVE  RefundsKept
BY DEF ledgerVars, Refunded, Posted, RefundsKept

-----------------------------------------------------------------------------
\* Requests: a new generation has no job, a job that is added has not run, and
\* a deletion or a webhook leaves the stages of the others alone.
LEMMA RequestsKeepStages ==
    ASSUME PipelineTypeOK, StageInv, Requests
    PROVE  StageInv'
<1> USE DEF PipelineTypeOK, genVars, jobVars, runVars, histVars
<1>1. RefundsKept
  BY GrantKeepsRefunds, SpendKeepsRefunds, LedgerKeepsRefunds
  DEF Requests, Register, AdminGrant, CreateImageGeneration, RunAdminTestGeneration,
      Enqueue, LoseEnqueue, DeleteGeneration, HandleGenerationComplete
<1> USE DEF RefundsKept, StageInv, Exclusive, Stage
<1>2. CASE \/ \E u \in User : Register(u)
           \/ \E u \in User, call \in AdminCall : AdminGrant(u, call)
  BY <1>1, <1>2 DEF Register, AdminGrant
<1>3. ASSUME NEW u \in User, NEW g \in Gen, CreateImageGeneration(u, g)
      PROVE  StageInv'
  BY <1>1, <1>3 DEF CreateImageGeneration
<1>4. ASSUME NEW u \in User, NEW g \in Gen, RunAdminTestGeneration(u, g)
      PROVE  StageInv'
  BY <1>1, <1>4 DEF RunAdminTestGeneration
<1>5. ASSUME NEW g \in Gen, Enqueue(g)
      PROVE  StageInv'
  BY <1>1, <1>5 DEF Enqueue
<1>6. ASSUME NEW g \in Gen, LoseEnqueue(g)
      PROVE  StageInv'
  BY <1>1, <1>6 DEF LoseEnqueue
<1>7. ASSUME NEW g \in Gen, DeleteGeneration(g)
      PROVE  StageInv'
  BY <1>1, <1>7 DEF DeleteGeneration, Exists
<1>8. ASSUME NEW g \in Gen, NEW s \in {"completed", "failed"}, NEW withResult \in BOOLEAN,
             HandleGenerationComplete(g, s, withResult)
      PROVE  StageInv'
  BY <1>1, <1>8 DEF HandleGenerationComplete, Exists
<1> QED  BY <1>2, <1>3, <1>4, <1>5, <1>6, <1>7, <1>8 DEF Requests

\* Ending a job takes the only worker off its generation, at a stage that a
\* finished job may have.
LEMMA EndJobKeepsStages ==
    ASSUME PipelineTypeOK, StageInv, RefundsKept,
           NEW w \in Worker, NEW outcome \in {"completed", "failed"},
           pc[w] # "idle", EndJob(w, outcome),
           UNCHANGED <<status, adminTest, unqueued, incidents, notified>>
    PROVE  StageInv'
<1> USE GenerationConstants DEF PipelineTypeOK, WorkersHaveTasks
<1>1. /\ task' = [task EXCEPT ![w] = None]
      /\ pc' = [pc EXCEPT ![w] = "idle"]
      /\ task[w] \in Gen
  BY DEF EndJob
<1>2. \A g \in Gen : \/ UNCHANGED <<job[g], lock[g]>>
                     \/ /\ g = task[w]
                        /\ lock[g] = w
                        /\ job'[g] = outcome
  BY <1>1 DEF EndJob
<1>3. SUFFICES ASSUME NEW g \in Gen
               PROVE  /\ status[g] = "absent" => g \notin unqueued
                      /\ status[g] = "absent" \/ g \in unqueued => job'[g] = "none"
                      /\ job'[g] = "none" => \A v \in Worker : task'[v] # g
                      /\ incidents[g] = 0 => Exclusive(g)'
                      /\ incidents[g] = 0 /\ g \notin adminTest \cup notified => Stage(g)'
  BY DEF StageInv
<1>4. /\ status[g] = "absent" => g \notin unqueued
      /\ status[g] = "absent" \/ g \in unqueued => job[g] = "none"
      /\ job[g] = "none" => \A v \in Worker : task[v] # g
      /\ incidents[g] = 0 => Exclusive(g)
      /\ incidents[g] = 0 /\ g \notin adminTest \cup notified => Stage(g)
  BY DEF StageInv
<1>5. CASE UNCHANGED <<job[g], lock[g]>>
  BY <1>1, <1>4, <1>5 DEF Exclusive, Stage, RefundsKept
<1>6. CASE g = task[w] /\ lock[g] = w /\ job'[g] = outcome
  BY <1>1, <1>4, <1>6 DEF Exclusive, Stage, RefundsKept
<1> QED  BY <1>2, <1>5, <1>6

\* The worker: it is alone on its generation, and each step takes the row to
\* the next stage.
LEMMA ProcessKeepsStages ==
    ASSUME PipelineTypeOK, StageInv, NEW w \in Worker, Process(w)
    PROVE  StageInv'
<1> USE GenerationConstants DEF PipelineTypeOK, WorkersHaveTasks, Goto, Exists,
        genVars, jobVars, runVars, histVars
<1>1. task[w] \in Gen
  BY DEF Process, BeginProcessing, ExecuteStrategy, MarkCompleted, PublishStyleImage,
         MarkFailed, RefundFailed, Finish
<1>2. ~RefundFailed(w) => RefundsKept
  BY LedgerKeepsRefunds DEF Process, BeginProcessing, ExecuteStrategy, MarkCompleted,
     PublishStyleImage, MarkFailed, Finish
<1> USE DEF RefundsKept, StageInv, Exclusive, Stage
<1>3. CASE BeginProcessing(w)
  <2>1. CASE EndJob(w, "failed") /\ UNCHANGED status
    BY <1>1, <1>2, <1>3, <2>1, EndJobKeepsStages DEF BeginProcessing, RefundFailed
  <2>2. CASE Exists(task[w]) /\ Goto(w, "execute")
    BY <1>1, <1>2, <1>3, <2>2 DEF BeginProcessing, RefundFailed, EndJob
  <2> QED  BY <1>3, <2>1, <2>2 DEF BeginProcessing
<1>4. CASE ExecuteStrategy(w)
  BY <1>1, <1>2, <1>4 DEF ExecuteStrategy, RefundFailed
<1>5. CASE MarkCompleted(w)
  BY <1>1, <1>2, <1>5 DEF MarkCompleted, RefundFailed
<1>6. CASE PublishStyleImage(w)
  BY <1>1, <1>2, <1>6 DEF PublishStyleImage, RefundFailed
<1>7. CASE MarkFailed(w)
  <2>1. CASE EndJob(w, "failed") /\ UNCHANGED status
    BY <1>1, <1>2, <1>7, <2>1, EndJobKeepsStages DEF MarkFailed, RefundFailed
  <2>2. CASE Exists(task[w]) /\ Goto(w, "refund")
    BY <1>1, <1>2, <1>7, <2>2 DEF MarkFailed, RefundFailed, EndJob
  <2> QED  BY <1>7, <2>1, <2>2 DEF MarkFailed
<1>8. CASE RefundFailed(w)
  BY <1>1, <1>8, OthersRefundsKept, LedgerKeepsRefunds DEF RefundFailed
<1>9. CASE Finish(w)
  BY <1>1, <1>2, <1>9, EndJobKeepsStages DEF Finish, RefundFailed
<1> QED  BY <1>3, <1>4, <1>5, <1>6, <1>7, <1>8, <1>9 DEF Process

\* BullMQ: a job is taken by one worker at a time, and only an incident makes
\* it stall.
LEMMA QueueKeepsStages ==
    ASSUME PipelineTypeOK, StageInv,
           \/ \E w \in Worker, g \in Gen : Take(w, g)
           \/ \E w \in Worker : Crash(w)
           \/ \E w \in Worker : LoseLock(w)
           \/ \E g \in Gen : RecoverStalled(g)
    PROVE  StageInv'
<1> USE GenerationConstants DEF PipelineTypeOK, WorkersHaveTasks,
        genVars, jobVars, runVars, histVars
<1>1. RefundsKept
  BY LedgerKeepsRefunds DEF Take, Crash, LoseLock, RecoverStalled
<1> USE DEF RefundsKept, StageInv, Exclusive, Stage
<1>2. ASSUME NEW w \in Worker, NEW g \in Gen, Take(w, g)
      PROVE  StageInv'
  BY <1>1, <1>2 DEF Take
<1>3. ASSUME NEW w \in Worker, Crash(w)
      PROVE  StageInv'
  BY <1>1, <1>3 DEF Crash, Unlock
<1>4. ASSUME NEW w \in Worker, LoseLock(w)
      PROVE  StageInv'
  BY <1>1, <1>4 DEF LoseLock, Unlock
<1>5. ASSUME NEW g \in Gen, RecoverStalled(g)
      PROVE  StageInv'
  BY <1>1, <1>5 DEF RecoverStalled
<1> QED  BY <1>2, <1>3, <1>4, <1>5

\* The stages hold always.
LEMMA StageInvariant == Spec => [](PipelineTypeOK /\ StageInv)
<1>1. Init => PipelineTypeOK /\ StageInv
  BY AccountingInit, GenerationConstants
  DEF AccountingInv, Init, LedgerInit, StageInv, Exclusive, Stage, Refunded, Posted
<1>2. PipelineTypeOK /\ StageInv /\ [Next]_vars => (PipelineTypeOK /\ StageInv)'
  <2> SUFFICES ASSUME PipelineTypeOK, StageInv, [Next]_vars
               PROVE  PipelineTypeOK' /\ StageInv'
    OBVIOUS
  <2>1. PipelineTypeOK'
    BY PipelineTypesStep
  <2>2. CASE UNCHANGED vars
    BY <2>1, <2>2 DEF vars, ledgerVars, genVars, jobVars, runVars, histVars,
       StageInv, Exclusive, Stage, Refunded, Posted
  <2>3. CASE Next
    BY <2>1, <2>3, RequestsKeepStages, ProcessKeepsStages, QueueKeepsStages DEF Next
  <2> QED  BY <2>1, <2>2, <2>3
<1> QED  BY <1>1, <1>2, PTL DEF Spec

\* markFailed never follows markCompleted: while nothing disturbed it, the
\* credit of a delivered image is not returned.
THEOREM DeliveredStaysCharged == Spec => []DeliveredIsCharged
<1>1. PipelineTypeOK /\ StageInv => DeliveredIsCharged
  BY DEF PipelineTypeOK, StageInv, Stage, DeliveredIsCharged
<1> QED  BY <1>1, StageInvariant, PTL

\* And its row stays completed: only its owner's deletion, a lost worker or a
\* webhook takes it out of that state.
THEOREM CompletedStays == Spec => CompletedIsFinal
<1>1. ASSUME PipelineTypeOK, StageInv, [Next]_vars,
             NEW g \in Gen \ adminTest,
             status[g] = "completed",
             status'[g] \notin {"completed", "deleted"},
             incidents[g] = 0,
             g \notin notified'
      PROVE  FALSE
  <2> USE <1>1 DEF PipelineTypeOK, genVars, jobVars, runVars, histVars
  <2>1. g \notin notified => Stage(g)
    BY DEF StageInv
  <2>2. CASE UNCHANGED vars
    BY <2>2 DEF vars
  <2>3. CASE Requests
    BY <2>3 DEF Requests, Register, AdminGrant, CreateImageGeneration,
       RunAdminTestGeneration, Enqueue, LoseEnqueue, DeleteGeneration,
       HandleGenerationComplete
  <2>4. ASSUME NEW w \in Worker, Process(w)
        PROVE  FALSE
    BY <2>1, <2>4 DEF Process, BeginProcessing, ExecuteStrategy, MarkCompleted,
       PublishStyleImage, MarkFailed, RefundFailed, Finish, Stage
  <2>5. CASE \/ \E w \in Worker, h \in Gen : Take(w, h)
             \/ \E w \in Worker : Crash(w)
             \/ \E w \in Worker : LoseLock(w)
             \/ \E h \in Gen : RecoverStalled(h)
    BY <2>5 DEF Take, Crash, LoseLock, RecoverStalled
  <2> QED  BY <2>2, <2>3, <2>4, <2>5 DEF Next
<1>2. ASSUME PipelineTypeOK, StageInv, [Next]_vars
      PROVE  \A g \in Gen \ adminTest :
                /\ status[g] = "completed"
                /\ status'[g] \notin {"completed", "deleted"}
                => incidents[g] > 0 \/ g \in notified'
  BY <1>1, <1>2, GenerationConstants DEF PipelineTypeOK
<1> QED  BY <1>2, StageInvariant, PTL DEF Spec, CompletedIsFinal

-----------------------------------------------------------------------------
(***************************************************************************)
(* Generations that one crash or one lost lock did disturb.  Two workers   *)
(* may then run one generation, the one that lost the lock and the one     *)
(* that the stalled job was given to, and each overwrites what the other   *)
(* wrote.  The row still ends final: until it is, there is a job that will *)
(* be run (again), or a worker that has yet to write the outcome or to     *)
(* return the credit.                                                      *)
(***************************************************************************)
Settled(g) ==
    \/ ~Exists(g)
    \/ status[g] = "completed" /\ hasResult[g]
    \/ status[g] = "failed" /\ (Spent(g) => Refunded(g))

\* What worker w has yet to do for the generation it runs.
WillSettle(w) ==
    \/ pc[w] \in {"start", "execute", "save", "fail"}
    \/ pc[w] = "refund" /\ status[task[w]] = "failed"

Pledged(g) ==
    \/ job[g] \in {"none", "waiting"}
    \/ job[g] = "active" /\ lock[g] = None
    \/ \E w \in Worker : task[w] = g /\ WillSettle(w)

\* The first incident of a generation finds its stalled counter at zero, so that
\* its job is run again.
StallsCounted(g) ==
    /\ lock[g] # None => job[g] = "active"
    /\ stalls[g] <= incidents[g]
    /\ job[g] = "active" /\ lock[g] = None => stalls[g] < incidents[g]

Absorbed(g) == incidents[g] <= 1 /\ g \notin notified \cup dbFaults

SettleInv ==
    \A g \in Gen : StallsCounted(g) /\ (Absorbed(g) => Settled(g) \/ Pledged(g))

\* What the ledger still says after a step that spends nothing.
EntriesKept == \A g \in Gen : (Spent(g)' => Spent(g)) /\ (Refunded(g) => Refunded(g)')

LEMMA NoNewSpendKeepsEntries == NoNewSpend => EntriesKept
BY DEF NoNewSpend, EntriesKept, Spent, Refunded, Posted

\* The refund of a spend is there after the call, whoever made it first.
LEMMA RefundReturns ==
    ASSUME NEW g, RefundGeneration(g)
    PROVE  Spent(g)' => Refunded(g)'
<1>1. CASE Spent(g) /\ ~Refunded(g)
  <2>1. PICK spend \in ledger : Post(spend.user, 1, "generation_refund", g)
    BY <1>1 DEF RefundGeneration, Spent, Refunded
  <2> DEFINE row == [user |-> spend.user, amount |-> 1,
                     reason |-> "generation_refund", ref |-> g]
  <2>2. row \in ledger'
    BY <2>1 DEF Post
  <2>3. row.reason = "generation_refund" /\ row.ref = g
    OBVIOUS
  <2> QED  BY <2>2, <2>3 DEF Refunded, Posted
<1>2. CASE ~(Spent(g) /\ ~Refunded(g))
  <2>1. ledger' = ledger
    BY <1>2 DEF RefundGeneration, Spent, Refunded, ledgerVars
  <2> QED  BY <1>2, <2>1 DEF Spent, Refunded, Posted
<1> QED  BY <1>1, <1>2

\* Requests: a new generation has no job yet, and a deleted one is settled.
LEMMA RequestsKeepSettled ==
    ASSUME PipelineTypeOK, StageInv, SettleInv, Requests
    PROVE  SettleInv'
<1> USE GenerationConstants DEF PipelineTypeOK, genVars, jobVars, runVars, histVars
<1>1. ASSUME NEW u \in User, NEW g \in Gen, CreateImageGeneration(u, g)
      PROVE  SettleInv'
  <2>1. \A h \in Gen \ {g} : (Spent(h)' => Spent(h)) /\ (Refunded(h) => Refunded(h)')
    BY <1>1 DEF CreateImageGeneration, SpendForGeneration, Post, ledgerVars, Spent,
                Refunded, Posted
  <2>2. job[g] = "none"
    BY <1>1 DEF CreateImageGeneration, StageInv
  <2> QED
    BY <1>1, <2>1, <2>2 DEF CreateImageGeneration, SettleInv, StallsCounted, Absorbed,
       Settled, Pledged, WillSettle, Exists
<1>2. ASSUME NEW u \in User, NEW g \in Gen, RunAdminTestGeneration(u, g)
      PROVE  SettleInv'
  <2>1. job[g] = "none" /\ EntriesKept
    BY <1>2 DEF RunAdminTestGeneration, StageInv, ledgerVars, EntriesKept, Spent, Refunded,
                Posted
  <2> QED
    BY <1>2, <2>1 DEF RunAdminTestGeneration, EntriesKept, SettleInv, StallsCounted,
       Absorbed, Settled, Pledged, WillSettle, Exists
<1>3. CASE ~ \E u \in User, g \in Gen : CreateImageGeneration(u, g) \/ RunAdminTestGeneration(u, g)
  <2>1. EntriesKept
    BY <1>3, OnlyCreationSpends, NoNewSpendKeepsEntries DEF Next
  <2> USE DEF EntriesKept, SettleInv, StallsCounted, Absorbed, Settled, Pledged, WillSettle,
              Exists
  <2>2. CASE \/ \E u \in User : Register(u)
             \/ \E u \in User, call \in AdminCall : AdminGrant(u, call)
    BY <2>1, <2>2 DEF Register, AdminGrant
  <2>3. ASSUME NEW g \in Gen, Enqueue(g) PROVE SettleInv'
    <3>1. job[g] = "none"
      BY <2>3 DEF Enqueue, StageInv
    <3> QED  BY <2>1, <2>3, <3>1 DEF Enqueue
  <2>4. ASSUME NEW g \in Gen, LoseEnqueue(g) PROVE SettleInv'
    BY <2>1, <2>4 DEF LoseEnqueue
  <2>5. ASSUME NEW g \in Gen, DeleteGeneration(g) PROVE SettleInv'
    BY <2>1, <2>5 DEF DeleteGeneration
  <2>6. ASSUME NEW g \in Gen, NEW s \in {"completed", "failed"}, NEW withResult \in BOOLEAN,
               HandleGenerationComplete(g, s, withResult)
        PROVE  SettleInv'
    BY <2>1, <2>6 DEF HandleGenerationComplete
  <2> QED  BY <1>3, <2>2, <2>3, <2>4, <2>5, <2>6 DEF Requests
<1> QED  BY <1>1, <1>2, <1>3

\* A worker that ends its job had nothing left to do for it, finds it gone, or
\* meets a database error that nothing recovers from.
LEMMA EndJobKeepsSettled ==
    ASSUME PipelineTypeOK, SettleInv, EntriesKept,
           NEW w \in Worker, NEW outcome \in {"completed", "failed"},
           \/ pc[w] \in {"done", "failed"}
           \/ ~Exists(task[w])
           \/ task[w] \in dbFaults',
           pc[w] # "idle", EndJob(w, outcome), dbFaults \subseteq dbFaults',
           UNCHANGED <<status, hasResult, incidents, notified>>
    PROVE  SettleInv'
<1> USE GenerationConstants DEF PipelineTypeOK, WorkersHaveTasks
<1>1. /\ task' = [task EXCEPT ![w] = None]
      /\ pc' = [pc EXCEPT ![w] = "idle"]
      /\ task[w] \in Gen /\ UNCHANGED stalls
  BY DEF EndJob
<1>2. \A g \in Gen : \/ UNCHANGED <<job[g], lock[g]>>
                     \/ /\ g = task[w] /\ lock[g] = w
                        /\ job'[g] = outcome /\ lock'[g] = None
  BY <1>1 DEF EndJob
<1>3. SUFFICES ASSUME NEW g \in Gen
               PROVE  StallsCounted(g)' /\ (Absorbed(g)' => Settled(g)' \/ Pledged(g)')
  BY DEF SettleInv
<1>4. StallsCounted(g) /\ (Absorbed(g) => Settled(g) \/ Pledged(g))
  BY DEF SettleInv
<1>5. StallsCounted(g)'
  BY <1>1, <1>2, <1>4 DEF StallsCounted
<1>6. (Absorbed(g)' => Absorbed(g)) /\ (Settled(g) => Settled(g)')
  BY DEF Absorbed, Settled, Exists, EntriesKept
<1>7. Absorbed(g)' /\ ~Settled(g) /\ Pledged(g) => Pledged(g)'
  <2> SUFFICES ASSUME Absorbed(g)', ~Settled(g), Pledged(g) PROVE Pledged(g)'
    OBVIOUS
  <2>1. CASE \E v \in Worker : task[v] = g /\ WillSettle(v)
    <3>1. PICK v \in Worker : task[v] = g /\ WillSettle(v)
      BY <2>1
    <3>2. v # w
      BY <3>1 DEF WillSettle, Settled, Absorbed
    <3> QED  BY <1>1, <3>1, <3>2 DEF Pledged, WillSettle
  <2>2. CASE job[g] \in {"none", "waiting"} \/ (job[g] = "active" /\ lock[g] = None)
    BY <1>2, <1>4, <2>2 DEF StallsCounted, Pledged
  <2> QED  BY <2>1, <2>2 DEF Pledged
<1> QED  BY <1>4, <1>5, <1>6, <1>7

\* The worker: whatever it overwrites, it has yet to write the outcome.
LEMMA ProcessKeepsSettled ==
    ASSUME PipelineTypeOK, SettleInv, NEW w \in Worker, Process(w)
    PROVE  SettleInv'
<1> USE GenerationConstants DEF PipelineTypeOK, WorkersHaveTasks, Goto,
        genVars, jobVars, runVars, histVars
<1>1. task[w] \in Gen
  BY DEF Process, BeginProcessing, ExecuteStrategy, MarkCompleted, PublishStyleImage,
         MarkFailed, RefundFailed, Finish
<1>2. EntriesKept
  <2>1. CASE RefundFailed(w)
    BY <2>1, RefundAddsNoSpend, NoNewSpendKeepsEntries DEF RefundFailed, NoNewSpend, ledgerVars
  <2>2. CASE ~RefundFailed(w)
    BY <2>2, NoNewSpendKeepsEntries DEF Process, BeginProcessing, ExecuteStrategy,
       MarkCompleted, PublishStyleImage, MarkFailed, Finish, NoNewSpend, ledgerVars
  <2> QED  BY <2>1, <2>2
<1>3. CASE BeginProcessing(w) /\ EndJob(w, "failed") /\ UNCHANGED status
  <2>1. /\ dbFaults \subseteq dbFaults'
        /\ ~Exists(task[w]) \/ task[w] \in dbFaults'
    BY <1>1, <1>3 DEF BeginProcessing, DatabaseFails, EndJob
  <2> QED  BY <1>2, <1>3, <2>1, EndJobKeepsSettled DEF BeginProcessing
<1>4. CASE MarkFailed(w) /\ EndJob(w, "failed") /\ UNCHANGED status
  <2>1. /\ dbFaults \subseteq dbFaults'
        /\ ~Exists(task[w]) \/ task[w] \in dbFaults'
    BY <1>1, <1>4 DEF MarkFailed, DatabaseFails, EndJob
  <2> QED  BY <1>2, <1>4, <2>1, EndJobKeepsSettled DEF MarkFailed
<1>5. CASE Finish(w)
  BY <1>2, <1>5, EndJobKeepsSettled DEF Finish
<1> USE DEF EntriesKept, SettleInv, StallsCounted, Absorbed, Settled, Pledged, WillSettle,
            Exists
<1>6. CASE BeginProcessing(w) /\ Exists(task[w]) /\ Goto(w, "execute")
  BY <1>1, <1>2, <1>6 DEF BeginProcessing, EndJob
<1>7. CASE ExecuteStrategy(w)
  BY <1>1, <1>2, <1>7 DEF ExecuteStrategy
<1>8. CASE MarkCompleted(w)
  BY <1>1, <1>2, <1>8 DEF MarkCompleted
<1>9. CASE PublishStyleImage(w)
  BY <1>1, <1>2, <1>9 DEF PublishStyleImage
<1>10. CASE MarkFailed(w) /\ Exists(task[w]) /\ Goto(w, "refund")
  BY <1>1, <1>2, <1>10 DEF MarkFailed, EndJob
<1>11. CASE RefundFailed(w)
  BY <1>1, <1>2, <1>11, RefundReturns DEF RefundFailed, DatabaseFails
<1>12. BeginProcessing(w) => \/ EndJob(w, "failed") /\ UNCHANGED status
                             \/ Exists(task[w]) /\ Goto(w, "execute")
  BY DEF BeginProcessing
<1>13. MarkFailed(w) => \/ EndJob(w, "failed") /\ UNCHANGED status
                        \/ Exists(task[w]) /\ Goto(w, "refund")
  BY DEF MarkFailed
<1> QED
  BY <1>3, <1>4, <1>5, <1>6, <1>7, <1>8, <1>9, <1>10, <1>11, <1>12, <1>13 DEF Process

\* BullMQ: the first incident leaves a job that stalls once, and is run again.
LEMMA QueueKeepsSettled ==
    ASSUME PipelineTypeOK, StageInv, SettleInv,
           \/ \E w \in Worker, g \in Gen : Take(w, g)
           \/ \E w \in Worker : Crash(w)
           \/ \E w \in Worker : LoseLock(w)
           \/ \E g \in Gen : RecoverStalled(g)
    PROVE  SettleInv'
<1> USE GenerationConstants DEF PipelineTypeOK, WorkersHaveTasks,
        genVars, jobVars, runVars, histVars
<1>1. EntriesKept
  BY NoNewSpendKeepsEntries DEF Take, Crash, LoseLock, RecoverStalled, NoNewSpend, ledgerVars
<1>2. ASSUME NEW w \in Worker, Crash(w) PROVE SettleInv'
  <2>1. task[w] \in Gen
    BY <1>2 DEF Crash
  <2>2. incidents[task[w]] = 0 => job[task[w]] = "active" /\ lock[task[w]] = w
    BY <2>1 DEF StageInv, Exclusive
  <2>3. SUFFICES ASSUME NEW g \in Gen
                 PROVE  StallsCounted(g)' /\ (Absorbed(g)' => Settled(g)' \/ Pledged(g)')
    BY DEF SettleInv
  <2>4. /\ UNCHANGED <<status, hasResult, job, stalls, notified, dbFaults>>
        /\ pc' = [pc EXCEPT ![w] = "idle"]
        /\ task' = [task EXCEPT ![w] = None]
        /\ incidents' = [incidents EXCEPT ![task[w]] = @ + 1]
        /\ lock' = [lock EXCEPT ![task[w]] = IF @ = w THEN None ELSE @]
    BY <1>2 DEF Crash, Unlock
  <2>5. StallsCounted(g) /\ (Absorbed(g) => Settled(g) \/ Pledged(g))
    BY DEF SettleInv
  <2>6. StallsCounted(g)'
    BY <2>1, <2>4, <2>5 DEF StallsCounted
  <2>7. Settled(g) => Settled(g)'
    BY <1>1, <2>4 DEF Settled, EntriesKept, Exists
  <2>8. CASE g = task[w]
    <3>1. ASSUME incidents[g] = 0 PROVE Pledged(g)'
      BY <2>1, <2>2, <2>4, <2>8, <3>1 DEF Pledged
    <3>2. ASSUME incidents[g] # 0 PROVE ~Absorbed(g)'
      BY <2>1, <2>4, <2>8, <3>2 DEF Absorbed
    <3> QED  BY <2>6, <3>1, <3>2
  <2>9. CASE g # task[w]
    <3>1. Absorbed(g)' => Absorbed(g)
      BY <2>1, <2>4, <2>9 DEF Absorbed
    <3>2. UNCHANGED <<job[g], lock[g]>>
      BY <2>1, <2>4, <2>9
    <3>3. ASSUME NEW v \in Worker, task[v] = g, WillSettle(v)
          PROVE  Pledged(g)'
      <4>1. v # w
        BY <2>9, <3>3
      <4> QED  BY <2>4, <3>3, <4>1 DEF Pledged, WillSettle
    <3>4. Pledged(g) => Pledged(g)'
      BY <3>2, <3>3 DEF Pledged
    <3> QED  BY <2>5, <2>6, <2>7, <3>1, <3>4
  <2> QED  BY <2>8, <2>9
<1> USE DEF EntriesKept, SettleInv, StallsCounted, Absorbed, Settled, Pledged, WillSettle,
            Exists
<1>3. ASSUME NEW w \in Worker, NEW g \in Gen, Take(w, g) PROVE SettleInv'
  BY <1>1, <1>3 DEF Take
<1>4. ASSUME NEW w \in Worker, LoseLock(w) PROVE SettleInv'
  <2>1. task[w] \in Gen
    BY <1>4 DEF LoseLock
  <2> QED  BY <1>1, <1>4, <2>1 DEF LoseLock, Unlock
<1>5. ASSUME NEW g \in Gen, RecoverStalled(g) PROVE SettleInv'
  BY <1>1, <1>5 DEF RecoverStalled, MaxStalledCount
<1> QED  BY <1>2, <1>3, <1>4, <1>5

\* Until a generation is settled, something has yet to settle it.
LEMMA SettleInvariant == Spec => []SettleInv
<1>1. Init => SettleInv
  BY GenerationConstants
  DEF Init, SettleInv, StallsCounted, Absorbed, Settled, Exists
<1>2. PipelineTypeOK /\ StageInv /\ SettleInv /\ [Next]_vars => SettleInv'
  <2> SUFFICES ASSUME PipelineTypeOK, StageInv, SettleInv, [Next]_vars
               PROVE  SettleInv'
    OBVIOUS
  <2>1. CASE UNCHANGED vars
    BY <2>1 DEF vars, ledgerVars, genVars, jobVars, runVars, histVars, SettleInv,
       StallsCounted, Absorbed, Settled, Pledged, WillSettle, Exists, Spent, Refunded, Posted
  <2>2. CASE Next
    BY <2>2, RequestsKeepSettled, ProcessKeepsSettled, QueueKeepsSettled DEF Next
  <2> QED  BY <2>1, <2>2
<1> QED  BY <1>1, <1>2, StageInvariant, PTL DEF Spec

\* The pipeline absorbs one crash or one lost lock: when a generation's job has
\* ended and no worker is on it, its image is there or its credit is back.
THEOREM FinishedGenerationsAreSettled == Spec => []FinishedJobIsSettled
<1>1. SettleInv => FinishedJobIsSettled
  <2> SUFFICES ASSUME SettleInv, NEW g \in Gen,
                      job[g] \in {"completed", "failed"}, ~Running(g), Absorbed(g), Exists(g)
               PROVE  \/ status[g] = "completed" /\ hasResult[g]
                      \/ status[g] = "failed" /\ (Spent(g) => Refunded(g))
    BY DEF FinishedJobIsSettled, Absorbed
  <2>1. ~Pledged(g)
    BY DEF Pledged, Running
  <2> QED  BY <2>1 DEF SettleInv, Settled
<1> QED  BY <1>1, SettleInvariant, PTL

=============================================================================
