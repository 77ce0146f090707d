------------------------------ MODULE Expenses ------------------------------
(***************************************************************************)
(* ExpensesService and ProviderRateService: what the shop paid for         *)
(* generations, upscales and the production of one order.                  *)
(*                                                                         *)
(* Most costs are recorded beside the handler that causes them: nobody     *)
(* awaits the promise, its failure is logged, and two of them finish in    *)
(* any order.  Each is a recording in a slot of Slot, cut at its awaits.   *)
(*                                                                         *)
(* The conversion to the base currency is a delay here: what it yields     *)
(* goes with the amount and nothing depends on it.                         *)
(***************************************************************************)
EXTENDS Integers

CONSTANTS
    Slot,           \* recordings that can be under way at once
    Gen,            \* generations
    Model,          \* the providers' models
    ModelOf,        \* the image model of each generation
    UpscaleModel,   \* UPSCALE_MODEL
    Seeded,         \* the models of the seed
    Price,          \* the rates and the costs by hand that may be entered
    CostValue,      \* the production costs that may be entered
    None,           \* null
    MaxEntries,     \* bound: rows of the book
    MaxIncidents    \* bound: restarts, lost recordings and failed deletions

ASSUME ExpenseConstants ==
    /\ ModelOf \in [Gen -> Model]
    /\ UpscaleModel \in Model /\ Seeded \subseteq Model
    /\ Price \subseteq Nat /\ CostValue \subseteq Nat
    /\ None \notin Nat /\ MaxEntries \in Nat /\ MaxIncidents \in Nat

VARIABLES
    rates,      \* ProviderRate.amount of each model, or None
    expenses,   \* the Expense rows
    cost,       \* Order.productionCost
    orderGone,  \* whether the order was deleted
    deleting,   \* whether its deletion is under way
    listed,     \* the rows of the order that the deletion has read
    gens,       \* what became of each generation
    recording,  \* the recordings under way
    incidents   \* how many incidents there were

deletion == <<orderGone, deleting, listed>>
orderVars == <<cost, deletion>>
expenseVars == <<rates, expenses, orderVars, gens, recording, incidents>>

-----------------------------------------------------------------------------
Pod == <<"pod">>
GenKey(g) == <<"gen", g>>
Cost == {Pod} \cup {GenKey(g) : g \in Gen}

ASSUME NoneIsNoCost == None \notin Cost

VisionCost == 1     \* visionAnalysis.usage.cost
DefaultRate == 1    \* the amounts of the seed

\* A recording: what it is for, the model whose rate it takes, the step it
\* is at, the amount once it has one, and whether it names the order.
Amount == Nat \cup {None}
Key == Cost \cup {None}
Recording ==
    [key : Key, model : Model, at : {"rate", "ensure"}, amount : {None}, order : BOOLEAN]
        \cup [key : Key, model : Model \cup {None}, at : {"write"}, amount : Nat, order : BOOLEAN]
Entry == [id : 1..MaxEntries, key : Key, amount : Nat, order : BOOLEAN]
Priced(key, amount) ==
    [key |-> key, model |-> None, at |-> "write", amount |-> amount, order |-> TRUE]
Unpriced(key, model) ==
    [key |-> key, model |-> model, at |-> "rate", amount |-> None, order |-> key = None]

ExpenseInit ==
    /\ rates = [m \in Model |-> IF m \in Seeded THEN DefaultRate ELSE None]
    /\ expenses = {}
    /\ cost = None
    /\ orderGone = FALSE /\ deleting = FALSE /\ listed = {}
    /\ gens = [g \in Gen |-> "processing"]
    /\ recording = [s \in Slot |-> None]
    /\ incidents = 0

-----------------------------------------------------------------------------
(***************************************************************************)
(* What starts a recording.                                                *)
(***************************************************************************)
Begin(r) ==
    \E s \in Slot :
        /\ recording[s] = None
        /\ recording' = [recording EXCEPT ![s] = r]

\* markCompleted, and backfillGenerationCosts for what it left unrecorded
\* or what has another price by now.
CompleteGeneration(g) ==
    /\ gens[g] = "processing"
    /\ gens' = [gens EXCEPT ![g] = "completed"]
    /\ Begin(Unpriced(GenKey(g), ModelOf[g]))
    /\ UNCHANGED <<rates, expenses, orderVars, incidents>>

BackfillGenerationCosts(g) ==
    /\ gens[g] = "completed"
    /\ Begin(Unpriced(GenKey(g), ModelOf[g]))
    /\ UNCHANGED <<rates, expenses, orderVars, gens, incidents>>

\* A deleted generation leaves its expense, without the reference.
ForgetGeneration(g) ==
    /\ gens[g] = "completed"
    /\ gens' = [gens EXCEPT ![g] = "deleted"]
    /\ UNCHANGED <<rates, expenses, orderVars, recording, incidents>>

RecordUpscaleCost ==
    /\ ~orderGone
    /\ Begin(Unpriced(None, UpscaleModel))

RecordManual(a) ==
    /\ ~orderGone
    /\ Begin(Priced(None, a))
    /\ UNCHANGED <<rates, expenses, orderVars, gens, incidents>>

UpdateProductionCost(value) ==
    /\ ~orderGone
    /\ cost' = value
    /\ IF value = None THEN UNCHANGED recording ELSE Begin(Priced(Pod, value))
    /\ UNCHANGED <<rates, expenses, deletion, gens, incidents>>

\* Reading an order records its production cost again.
GetOrderDetail ==
    /\ ~orderGone /\ cost # None
    /\ Begin(Priced(Pod, cost))
    /\ UNCHANGED <<rates, expenses, orderVars, gens, incidents>>

(***************************************************************************)
(* deleteShopifyOrder lists the rows of the order, and in one transaction  *)
(* takes the order out of those it listed and deletes it: the cascade of   *)
(* the foreign key takes a row that was written in between.  A listed row  *)
(* that an administrator has deleted fails the transaction.                *)
(***************************************************************************)
ListExpenses ==
    /\ ~orderGone /\ ~deleting
    /\ deleting' = TRUE
    /\ listed' = {e.id : e \in {f \in expenses : f.order}}
    /\ UNCHANGED <<rates, expenses, cost, orderGone, gens, recording, incidents>>

Detached(e) == [e EXCEPT !.order = FALSE]

\* Mutant of DeleteOrder: the rows go with the order that they name.
DeleteWithCascade ==
    /\ deleting
    /\ orderGone' = TRUE /\ deleting' = FALSE /\ listed' = {}
    /\ expenses' = {e \in expenses : ~e.order}
    /\ UNCHANGED <<rates, cost, gens, recording, incidents>>

DeleteOrder ==
    /\ deleting
    /\ orderGone' = TRUE /\ deleting' = FALSE /\ listed' = {}
    /\ expenses' = {Detached(e) : e \in {f \in expenses : f.order => f.id \in listed}}
    /\ UNCHANGED <<rates, cost, gens, recording, incidents>>

\* The deletion fails, and nothing of its transaction is kept.
DeletionFails ==
    /\ deleting
    /\ deleting' = FALSE /\ listed' = {}

DeleteExpense(e) ==
    /\ expenses' = expenses \ {e}
    /\ IF e.id \in listed THEN DeletionFails ELSE UNCHANGED <<deleting, listed>>
    /\ UNCHANGED <<rates, cost, orderGone, gens, recording, incidents>>

-----------------------------------------------------------------------------
(***************************************************************************)
(* The rates: an administrator adds and changes them, the use of a model   *)
(* without one adds it at zero.                                            *)
(***************************************************************************)
CreateRate(m, a) ==
    /\ rates[m] = None
    /\ rates' = [rates EXCEPT ![m] = a]
    /\ UNCHANGED <<expenses, orderVars, gens, recording, incidents>>

UpdateRate(m, a) ==
    /\ rates[m] # None
    /\ rates' = [rates EXCEPT ![m] = a]
    /\ UNCHANGED <<expenses, orderVars, gens, recording, incidents>>

\* Whether a recording names the order.  That of a generation does so if it
\* finds an item of the order with it, which may not have been ingested yet
\* and goes with the order.
Links(r) == IF r.order THEN {TRUE} ELSE IF orderGone THEN {FALSE} ELSE BOOLEAN

\* What the rate amounts to for one recording.
PricedAt(r, rate) ==
    [r EXCEPT !.at = "write", !.amount = rate + (IF r.key \in Cost THEN VisionCost ELSE 0)]

GetRate(s) ==
    /\ recording[s] # None /\ recording[s].at = "rate"
    /\ \E link \in Links(recording[s]) :
        LET r == [recording[s] EXCEPT !.order = link]
            missing == \E g \in Gen : r.key = GenKey(g) /\ gens[g] = "deleted"
            rate == rates[r.model]
        IN  recording' = [recording EXCEPT ![s] =
                             IF missing THEN None
                             ELSE IF rate = None THEN [r EXCEPT !.at = "ensure"]
                                  ELSE PricedAt(r, rate)]
    /\ UNCHANGED <<rates, expenses, orderVars, gens, incidents>>

\* Mutant of EnsureRate: the upsert writes the default also over a rate.
EnsureRateAtZero(s) ==
    /\ recording[s] # None /\ recording[s].at = "ensure"
    /\ LET m == recording[s].model
       IN  /\ rates' = [rates EXCEPT ![m] = 0]
           /\ recording' = [recording EXCEPT ![s] = PricedAt(@, rates'[m])]
    /\ UNCHANGED <<expenses, orderVars, gens, incidents>>

EnsureRate(s) ==
    /\ recording[s] # None /\ recording[s].at = "ensure"
    /\ LET m == recording[s].model
       IN  /\ rates' = [rates EXCEPT ![m] = IF @ = None THEN 0 ELSE @]
           /\ recording' = [recording EXCEPT ![s] = PricedAt(@, rates'[m])]
    /\ UNCHANGED <<expenses, orderVars, gens, incidents>>

-----------------------------------------------------------------------------
(***************************************************************************)
(* record, its write: an upsert by the cost's name or, without one, a new  *)
(* row.  A new row must find the order and the generation it names; one    *)
(* that is there keeps them, or their absence.                             *)
(***************************************************************************)
Free(i) == \A e \in expenses : e.id # i
Same(r) == {e \in expenses : e.key = r.key /\ r.key \in Cost}
Dangling(r) ==
    \/ r.order /\ orderGone
    \/ \E g \in Gen : r.key = GenKey(g) /\ gens[g] = "deleted"

Insert(r) ==
    /\ ~Dangling(r)
    /\ \E i \in 1..MaxEntries :
        /\ Free(i) /\ \A j \in 1..(i - 1) : ~Free(j)
        /\ expenses' = expenses \cup {[id |-> i, key |-> r.key, amount |-> r.amount, order |-> r.order]}

\* Mutant of WriteExpense: the upsert leaves the row that it finds.
WriteFirstOnly(s) ==
    /\ recording[s] # None /\ recording[s].at = "write"
    /\ LET r == recording[s]
       IN  IF Same(r) # {} THEN UNCHANGED expenses ELSE Insert(r)
    /\ recording' = [recording EXCEPT ![s] = None]
    /\ UNCHANGED <<rates, orderVars, gens, incidents>>

WriteExpense(s) ==
    /\ recording[s] # None /\ recording[s].at = "write"
    /\ LET r == recording[s]
       IN  \/ /\ Same(r) # {}
              /\ expenses' = (expenses \ Same(r)) \cup
                                {[e EXCEPT !.amount = r.amount] : e \in Same(r)}
           \/ Same(r) = {} /\ Insert(r)
    /\ recording' = [recording EXCEPT ![s] = None]
    /\ UNCHANGED <<rates, orderVars, gens, incidents>>

\* The write of a row that refers to nothing throws; its error is logged.
RejectExpense(s) ==
    /\ recording[s] # None /\ recording[s].at = "write"
    /\ Dangling(recording[s]) /\ Same(recording[s]) = {}
    /\ recording' = [recording EXCEPT ![s] = None]
    /\ UNCHANGED <<rates, expenses, orderVars, gens, incidents>>

(***************************************************************************)
(* A query fails, and the recording is lost with a line in the log; or the *)
(* process restarts: the recordings and a deletion are gone, and the seed  *)
(* adds its models to the rates.                                           *)
(***************************************************************************)
LoseRecording(s) ==
    /\ incidents < MaxIncidents
    /\ recording[s] # None
    /\ recording' = [recording EXCEPT ![s] = None]
    /\ incidents' = incidents + 1
    /\ UNCHANGED <<rates, expenses, orderVars, gens>>

LoseDeletion ==
    /\ incidents < MaxIncidents
    /\ DeletionFails
    /\ incidents' = incidents + 1
    /\ UNCHANGED <<rates, expenses, cost, orderGone, gens, recording>>

Seed == rates' = [m \in Model |-> IF m \in Seeded /\ rates[m] = None THEN DefaultRate ELSE rates[m]]

Restart ==
    /\ incidents < MaxIncidents
    /\ incidents' = incidents + 1
    /\ recording' = [s \in Slot |-> None]
    /\ deleting' = FALSE /\ listed' = {}
    /\ Seed
    /\ UNCHANGED <<expenses, cost, orderGone, gens>>

-----------------------------------------------------------------------------
Progress(s) ==
    GetRate(s) \/ EnsureRate(s) \/ WriteExpense(s) \/ RejectExpense(s)

ExpenseNext ==
    \/ \E s \in Slot : Progress(s) \/ LoseRecording(s)
    \/ \E g \in Gen : CompleteGeneration(g) \/ BackfillGenerationCosts(g) \/ ForgetGeneration(g)
    \/ \E m \in Model, a \in Price : CreateRate(m, a) \/ UpdateRate(m, a)
    \/ \E a \in Price : RecordManual(a)
    \/ RecordUpscaleCost /\ UNCHANGED <<rates, expenses, orderVars, gens, incidents>>
    \/ \E value \in CostValue \cup {None} : UpdateProductionCost(value)
    \/ GetOrderDetail \/ ListExpenses \/ DeleteOrder \/ LoseDeletion \/ Restart
    \/ \E e \in expenses : DeleteExpense(e)

\* A promise that is under way goes on by itself.
ExpenseSpec ==
    /\ ExpenseInit /\ [][ExpenseNext]_expenseVars
    /\ \A s \in Slot : WF_expenseVars(Progress(s))

-----------------------------------------------------------------------------
\* The rows and the recordings are what their tables and types allow.
ExpenseTypeOK ==
    /\ rates \in [Model -> Amount]
    /\ expenses \subseteq Entry
    /\ cost \in CostValue \cup {None} /\ orderGone \in BOOLEAN
    /\ deleting \in BOOLEAN /\ listed \subseteq 1..MaxEntries
    /\ gens \in [Gen -> {"processing", "completed", "deleted"}]
    /\ recording \in [Slot -> Recording \cup {None}]
    /\ incidents \in 0..MaxIncidents

(***************************************************************************)
(* The book of expenses, as its readers see it.                            *)
(***************************************************************************)
Book == INSTANCE CostBook
            WITH Unnamed <- None,
                 book <- expenses,
                 late <- {e.id : e \in {f \in expenses : deleting /\ f.order /\ f.id \notin listed}}

\* Recordings that race, are repeated by a backfill or by reading the order,
\* or fail half way never enter one named cost twice, never change what they
\* are not about and never take an entry away; and the deletion of the order
\* keeps what was spent on it, all but the entries that were made while it
\* ran: ExpensesService.record and deleteShopifyOrder implement the book.
BookSpec == Book!BookSpec

\* A rate that exists changes only when an administrator changes it: neither
\* its use, nor a request that found it missing a moment before, nor the seed
\* of a restart writes over it (ProviderRateService).
RatesAreTheAdmins ==
    [][\A m \in Model : rates[m] # None /\ rates'[m] # rates[m] =>
            \E a \in Price : UpdateRate(m, a)]_expenseVars

Settled == cost = None \/ orderGone \/ \E e \in expenses : e.key = Pod /\ e.amount = cost

\* If administrators stop changing the production cost and striking expenses,
\* and keep opening the order, the book ends up with that cost, whatever older
\* recordings were still under way or got lost (getOrderDetail).
CostSettles ==
    (<>[][cost' = cost /\ \A e \in expenses : ~DeleteExpense(e)]_expenseVars
        /\ []<><<GetOrderDetail>>_expenseVars)
    => <>[]Settled
=============================================================================
