--------------------------- MODULE ExpensesProofs ---------------------------
(***************************************************************************)
(* Proofs about the book of expenses, for any number of recordings under   *)
(* way: the tables keep their types, the rates are the administrators',    *)
(* and the recordings implement the abstract book.                         *)
(***************************************************************************)
EXTENDS Expenses, TLAPS

\* The rows of the book are told apart by their ids, and a named cost has one
\* row: what the upsert by dedupeKey relies on.
OneRowEach ==
    \A e, f \in expenses :
        e.id = f.id \/ (e.key = f.key /\ e.key \in Cost) => e = f

BookInv == ExpenseTypeOK /\ OneRowEach

-----------------------------------------------------------------------------
LEMMA PricedIsRecording ==
    ASSUME NEW key \in Key, NEW amount \in Nat
    PROVE  Priced(key, amount) \in Recording
  BY DEF Priced, Recording

LEMMA UnpricedIsRecording ==
    ASSUME NEW key \in Key, NEW model \in Model
    PROVE  Unpriced(key, model) \in Recording
  BY DEF Unpriced, Recording

\* A recording that waits for its rate has an amount once the rate is known.
LEMMA PricedAtIsRecording ==
    ASSUME NEW r \in Recording, r.at \in {"rate", "ensure"}, NEW rate \in Nat
    PROVE  PricedAt(r, rate) \in Recording
  <1>1. r \in [key : Key, model : Model, at : {"rate", "ensure"}, amount : {None},
               order : BOOLEAN]
    BY DEF Recording
  <1>2. rate + (IF r.key \in Cost THEN VisionCost ELSE 0) \in Nat
    BY DEF VisionCost
  <1> QED  BY <1>1, <1>2 DEF PricedAt, Recording

\* Starting a recording disturbs nothing but its slot.
LEMMA BeginKeepsType ==
    ASSUME recording \in [Slot -> Recording \cup {None}],
           NEW r \in Recording, Begin(r)
    PROVE  recording' \in [Slot -> Recording \cup {None}]
  BY DEF Begin

-----------------------------------------------------------------------------
\* Initially the book is empty and the rates are the seed's.
LEMMA InitHasType == ExpenseInit => ExpenseTypeOK
  <1> SUFFICES ASSUME ExpenseInit PROVE ExpenseTypeOK
    OBVIOUS
  <1>1. rates \in [Model -> Amount]
    BY DEF ExpenseInit, DefaultRate, Amount
  <1>2. gens \in [Gen -> {"processing", "completed", "deleted"}]
    BY DEF ExpenseInit
  <1>3. recording \in [Slot -> Recording \cup {None}]
    BY DEF ExpenseInit
  <1>4. incidents \in 0..MaxIncidents
    BY ExpenseConstants DEF ExpenseInit
  <1>5. /\ expenses \subseteq Entry /\ cost \in CostValue \cup {None} /\ orderGone \in BOOLEAN
        /\ deleting \in BOOLEAN /\ listed \subseteq 1..MaxEntries
    BY DEF ExpenseInit
  <1> QED  BY <1>1, <1>2, <1>3, <1>4, <1>5 DEF ExpenseTypeOK

\* The rows of the book stay entries.
LEMMA WriteKeepsEntries ==
    ASSUME ExpenseTypeOK, NEW s \in Slot, WriteExpense(s)
    PROVE  expenses' \subseteq Entry
  <1> DEFINE r == recording[s]
  <1>1. r \in Recording /\ r.at = "write"
    BY DEF ExpenseTypeOK, WriteExpense
  <1>2. r.key \in Key /\ r.amount \in Nat /\ r.order \in BOOLEAN
    BY <1>1 DEF Recording
  <1>3. CASE expenses' = (expenses \ Same(r)) \cup
                            {[e EXCEPT !.amount = r.amount] : e \in Same(r)}
    BY <1>2, <1>3 DEF ExpenseTypeOK, Entry, Same
  <1>4. CASE Insert(r)
    BY <1>2, <1>4 DEF ExpenseTypeOK, Insert, Entry
  <1> QED  BY <1>3, <1>4 DEF WriteExpense

LEMMA ProgressKeepsType ==
    ASSUME ExpenseTypeOK, NEW s \in Slot, Progress(s)
    PROVE  ExpenseTypeOK'
  <1> USE ExpenseConstants
  <1>1. CASE GetRate(s)
    <2>0. PICK link \in Links(recording[s]) :
            LET r == [recording[s] EXCEPT !.order = link]
                missing == \E g \in Gen : r.key = GenKey(g) /\ gens[g] = "deleted"
                rate == rates[r.model]
            IN  recording' = [recording EXCEPT ![s] =
                                 IF missing THEN None
                                 ELSE IF rate = None THEN [r EXCEPT !.at = "ensure"]
                                      ELSE PricedAt(r, rate)]
      BY <1>1 DEF GetRate
    <2> DEFINE r == [recording[s] EXCEPT !.order = link]
    <2>1. r \in Recording /\ r.at = "rate" /\ r.model \in Model
      <3>1. recording[s] \in Recording /\ recording[s].at = "rate"
        BY <1>1 DEF GetRate, ExpenseTypeOK
      <3>2. recording[s] \in [key : Key, model : Model, at : {"rate", "ensure"},
                               amount : {None}, order : BOOLEAN]
        BY <3>1 DEF Recording
      <3>3. link \in BOOLEAN
        BY <2>0 DEF Links
      <3> HIDE DEF r
      <3>4. r = [recording[s] EXCEPT !.order = link]
        BY DEF r
      <3> QED  BY <3>1, <3>2, <3>3, <3>4 DEF Recording
    <2>2. rates[r.model] # None => PricedAt(r, rates[r.model]) \in Recording
      BY <2>1, PricedAtIsRecording DEF ExpenseTypeOK, Amount
    <2>3. [r EXCEPT !.at = "ensure"] \in Recording
      BY <2>1 DEF Recording
    <2>4. recording' \in [Slot -> Recording \cup {None}]
      BY <2>0, <2>2, <2>3 DEF ExpenseTypeOK
    <2> QED  BY <1>1, <2>4 DEF GetRate, ExpenseTypeOK, orderVars, deletion
  <1>2. CASE EnsureRate(s)
    <2> DEFINE r == recording[s]
    <2>1. r \in Recording /\ r.at = "ensure" /\ r.model \in Model
      BY <1>2 DEF EnsureRate, ExpenseTypeOK, Recording
    <2>2. rates' \in [Model -> Amount] /\ rates'[r.model] \in Nat
      BY <1>2, <2>1 DEF EnsureRate, ExpenseTypeOK, Amount
    <2>3. PricedAt(r, rates'[r.model]) \in Recording
      BY <2>1, <2>2, PricedAtIsRecording
    <2>4. recording' \in [Slot -> Recording \cup {None}]
      BY <1>2, <2>3 DEF EnsureRate, ExpenseTypeOK
    <2> QED  BY <1>2, <2>2, <2>4 DEF EnsureRate, ExpenseTypeOK, orderVars, deletion
  <1>3. CASE WriteExpense(s)
    BY <1>3, WriteKeepsEntries DEF WriteExpense, ExpenseTypeOK, orderVars, deletion
  <1>4. CASE RejectExpense(s)
    BY <1>4 DEF RejectExpense, ExpenseTypeOK, orderVars, deletion
  <1> QED  BY <1>1, <1>2, <1>3, <1>4 DEF Progress

\* What starts a recording.
Beginning ==
    \/ \E g \in Gen : CompleteGeneration(g) \/ BackfillGenerationCosts(g)
    \/ \E a \in Price : RecordManual(a)
    \/ RecordUpscaleCost /\ UNCHANGED <<rates, expenses, orderVars, gens, incidents>>
    \/ \E value \in CostValue \cup {None} : UpdateProductionCost(value)
    \/ GetOrderDetail

LEMMA BeginningKeepsType ==
    ASSUME ExpenseTypeOK, Beginning
    PROVE  ExpenseTypeOK'
  <1> USE ExpenseConstants
  <1>0. recording \in [Slot -> Recording \cup {None}]
    BY DEF ExpenseTypeOK
  <1>1. ASSUME NEW g \in Gen, CompleteGeneration(g) \/ BackfillGenerationCosts(g)
        PROVE  ExpenseTypeOK'
    <2>1. Unpriced(GenKey(g), ModelOf[g]) \in Recording
      BY UnpricedIsRecording DEF Key, Cost
    <2>2. recording' \in [Slot -> Recording \cup {None}]
      BY <1>0, <1>1, <2>1, BeginKeepsType DEF CompleteGeneration, BackfillGenerationCosts
    <2> QED  BY <1>1, <2>2
             DEF CompleteGeneration, BackfillGenerationCosts, ExpenseTypeOK, orderVars, deletion
  <1>2. ASSUME NEW a \in Price, RecordManual(a)
        PROVE  ExpenseTypeOK'
    <2>1. Priced(None, a) \in Recording
      BY PricedIsRecording DEF Key
    <2>2. recording' \in [Slot -> Recording \cup {None}]
      BY <1>0, <1>2, <2>1, BeginKeepsType DEF RecordManual
    <2> QED  BY <1>2, <2>2 DEF RecordManual, ExpenseTypeOK, orderVars, deletion
  <1>3. ASSUME RecordUpscaleCost, UNCHANGED <<rates, expenses, orderVars, gens, incidents>>
        PROVE  ExpenseTypeOK'
    <2>1. Unpriced(None, UpscaleModel) \in Recording
      BY UnpricedIsRecording DEF Key
    <2>2. recording' \in [Slot -> Recording \cup {None}]
      BY <1>0, <1>3, <2>1, BeginKeepsType DEF RecordUpscaleCost
    <2> QED  BY <1>3, <2>2 DEF ExpenseTypeOK, orderVars, deletion
  <1>4. ASSUME NEW value \in CostValue, Begin(Priced(Pod, value))
        PROVE  recording' \in [Slot -> Recording \cup {None}]
    <2>1. Priced(Pod, value) \in Recording
      BY PricedIsRecording DEF Key, Cost
    <2> QED  BY <1>0, <1>4, <2>1, BeginKeepsType
  <1>5. ASSUME NEW value \in CostValue \cup {None}, UpdateProductionCost(value)
        PROVE  ExpenseTypeOK'
    <2>1. recording' \in [Slot -> Recording \cup {None}]
      BY <1>0, <1>4, <1>5 DEF UpdateProductionCost
    <2> QED  BY <1>5, <2>1 DEF UpdateProductionCost, ExpenseTypeOK, deletion
  <1>6. ASSUME GetOrderDetail
        PROVE  ExpenseTypeOK'
    <2>1. recording' \in [Slot -> Recording \cup {None}]
      BY <1>4, <1>6 DEF GetOrderDetail, ExpenseTypeOK
    <2> QED  BY <1>6, <2>1 DEF GetOrderDetail, ExpenseTypeOK, orderVars, deletion
  <1> QED  BY <1>1, <1>2, <1>3, <1>5, <1>6 DEF Beginning

\* What else may happen.
Happening ==
    \/ \E s \in Slot : LoseRecording(s)
    \/ \E g \in Gen : ForgetGeneration(g)
    \/ \E m \in Model, a \in Price : CreateRate(m, a) \/ UpdateRate(m, a)
    \/ ListExpenses \/ DeleteOrder \/ LoseDeletion \/ Restart
    \/ \E e \in expenses : DeleteExpense(e)

LEMMA OneMoreIncident ==
    ASSUME ExpenseTypeOK, incidents < MaxIncidents, incidents' = incidents + 1
    PROVE  incidents' \in 0..MaxIncidents
  BY ExpenseConstants DEF ExpenseTypeOK

LEMMA HappeningKeepsType ==
    ASSUME ExpenseTypeOK, Happening
    PROVE  ExpenseTypeOK'
  <1> USE ExpenseConstants
  <1>1. ASSUME NEW s \in Slot, LoseRecording(s)
        PROVE  ExpenseTypeOK'
    BY <1>1 DEF LoseRecording, ExpenseTypeOK, orderVars, deletion
  <1>2. ASSUME NEW g \in Gen, ForgetGeneration(g)
        PROVE  ExpenseTypeOK'
    BY <1>2 DEF ForgetGeneration, ExpenseTypeOK, orderVars, deletion
  <1>3. ASSUME NEW m \in Model, NEW a \in Price, CreateRate(m, a) \/ UpdateRate(m, a)
        PROVE  ExpenseTypeOK'
    BY <1>3 DEF CreateRate, UpdateRate, ExpenseTypeOK, Amount, orderVars, deletion
  <1>4. CASE DeleteOrder
    <2>1. expenses' \subseteq Entry
      BY <1>4 DEF DeleteOrder, Detached, ExpenseTypeOK, Entry
    <2> QED  BY <1>4, <2>1 DEF DeleteOrder, ExpenseTypeOK
  <1>5. CASE Restart
    <2>1. incidents' \in 0..MaxIncidents
      BY <1>5, OneMoreIncident DEF Restart
    <2>2. rates' \in [Model -> Amount]
      BY <1>5 DEF Restart, Seed, DefaultRate, ExpenseTypeOK, Amount
    <2>3. deleting' \in BOOLEAN /\ listed' \subseteq 1..MaxEntries
      BY <1>5 DEF Restart
    <2>4. recording' \in [Slot -> Recording \cup {None}]
      BY <1>5 DEF Restart
    <2> QED  BY <1>5, <2>1, <2>2, <2>3, <2>4 DEF Restart, ExpenseTypeOK
  <1>6. ASSUME NEW e \in expenses, DeleteExpense(e)
        PROVE  ExpenseTypeOK'
    BY <1>6 DEF DeleteExpense, DeletionFails, ExpenseTypeOK
  <1>7. CASE ListExpenses
    BY <1>7 DEF ListExpenses, ExpenseTypeOK, Entry
  <1>8. CASE LoseDeletion
    <2>1. incidents' \in 0..MaxIncidents
      BY <1>8, OneMoreIncident DEF LoseDeletion
    <2>2. deleting' \in BOOLEAN /\ listed' \subseteq 1..MaxEntries
      BY <1>8 DEF LoseDeletion, DeletionFails
    <2> QED  BY <1>8, <2>1, <2>2 DEF LoseDeletion, ExpenseTypeOK
  <1> QED  BY <1>1, <1>2, <1>3, <1>4, <1>5, <1>6, <1>7, <1>8 DEF Happening

LEMMA NextIsOneOfThree ==
    ExpenseNext <=> (\E s \in Slot : Progress(s)) \/ Beginning \/ Happening
  BY DEF ExpenseNext, Beginning, Happening

\* The rates, the book, the production cost, the generations and the
\* recordings keep their types: a recording that reaches its write has an
\* amount.
THEOREM ExpensesTypeCorrect == ExpenseSpec => []ExpenseTypeOK
  <1>1. ExpenseTypeOK /\ [ExpenseNext]_expenseVars => ExpenseTypeOK'
    <2>1. CASE UNCHANGED expenseVars
      BY <2>1 DEF expenseVars, orderVars, deletion, ExpenseTypeOK
    <2>2. ExpenseTypeOK /\ ExpenseNext => ExpenseTypeOK'
      BY NextIsOneOfThree, ProgressKeepsType, BeginningKeepsType, HappeningKeepsType
    <2> QED  BY <2>1, <2>2
  <1> QED  BY <1>1, InitHasType, PTL DEF ExpenseSpec

-----------------------------------------------------------------------------
\* Only the write of a recording, a deleted order and a struck expense touch
\* the book.
Late == {e.id : e \in {f \in expenses : deleting /\ f.order /\ f.id \notin listed}}

LEMMA BookIsLeftAlone ==
    ASSUME [ExpenseNext]_expenseVars
    PROVE  \/ \E s \in Slot : WriteExpense(s)
           \/ DeleteOrder
           \/ \E e \in expenses : DeleteExpense(e)
           \/ ListExpenses
           \/ expenses' = expenses /\ deleting' = FALSE
           \/ UNCHANGED <<expenses, deleting, listed>>
  <1> USE DEF orderVars, deletion
  <1>1. CASE UNCHANGED expenseVars
    BY <1>1 DEF expenseVars
  <1>2. ASSUME NEW s \in Slot, Progress(s), ~WriteExpense(s)
        PROVE  UNCHANGED <<expenses, deleting, listed>>
    BY <1>2 DEF Progress, GetRate, EnsureRate, RejectExpense
  <1>3. ASSUME Beginning
        PROVE  UNCHANGED <<expenses, deleting, listed>>
    BY <1>3 DEF Beginning, CompleteGeneration, BackfillGenerationCosts, RecordManual,
       UpdateProductionCost, GetOrderDetail
  <1>4. CASE Happening
    BY <1>4 DEF Happening, LoseRecording, ForgetGeneration, CreateRate, UpdateRate,
       LoseDeletion, DeletionFails, Restart
  <1> QED  BY <1>1, <1>2, <1>3, <1>4, NextIsOneOfThree

\* A write prices the one row of its cost again, or adds a row whose id and,
\* if it has one, name are new.
Repriced(r, old, new) ==
    /\ old \in expenses /\ old.key = r.key /\ r.key \in Cost
    /\ new = [old EXCEPT !.amount = r.amount]
    /\ expenses' = (expenses \ {old}) \cup {new}

Entered(r, new) ==
    /\ new.key = r.key
    /\ r.key \in Cost => \A e \in expenses : e.key # r.key
    /\ Free(new.id)
    /\ expenses' = expenses \cup {new}

LEMMA WriteIsOneOfTwo ==
    ASSUME BookInv, NEW s \in Slot, WriteExpense(s)
    PROVE  \/ \E old \in Entry, new \in Entry : Repriced(recording[s], old, new)
           \/ \E new \in Entry : Entered(recording[s], new)
  <1> DEFINE r == recording[s]
             same == Same(r)
  <1> USE DEF Same
  <1>1. r \in Recording /\ r.at = "write"
    BY DEF BookInv, ExpenseTypeOK, WriteExpense
  <1>2. r.key \in Key /\ r.amount \in Nat /\ r.order \in BOOLEAN
    BY <1>1 DEF Recording
  <1>3. expenses \subseteq Entry
    BY DEF BookInv, ExpenseTypeOK
  <1>4. CASE /\ same # {}
             /\ expenses' = (expenses \ same) \cup {[e EXCEPT !.amount = r.amount] : e \in same}
    <2>1. PICK old \in same : TRUE
      BY <1>4
    <2>2. same = {old}
      BY <2>1 DEF BookInv, OneRowEach
    <2> DEFINE new == [old EXCEPT !.amount = r.amount]
    <2>3. expenses' = (expenses \ {old}) \cup {new}
      BY <1>4, <2>2
    <2>4. old \in Entry /\ new \in Entry
      BY <1>2, <1>3, <2>1 DEF Entry
    <2>5. Repriced(r, old, new)
      BY <2>1, <2>3 DEF Repriced
    <2> QED  BY <2>4, <2>5
  <1>5. CASE same = {} /\ Insert(r)
    <2>1. PICK i \in 1..MaxEntries :
            /\ Free(i)
            /\ expenses' = expenses \cup
                  {[id |-> i, key |-> r.key, amount |-> r.amount, order |-> r.order]}
      BY <1>5 DEF Insert
    <2> DEFINE new == [id |-> i, key |-> r.key, amount |-> r.amount, order |-> r.order]
    <2>2. new \in Entry
      BY <1>2 DEF Entry
    <2>3. r.key \in Cost => \A e \in expenses : e.key # r.key
      BY <1>5
    <2>4. Entered(r, new)
      BY <2>1, <2>3 DEF Entered
    <2> QED  BY <2>2, <2>4
  <1> QED  BY <1>4, <1>5 DEF WriteExpense

\* Each cost keeps its one row.
LEMMA OneRowEachIsKept ==
    ASSUME BookInv, [ExpenseNext]_expenseVars
    PROVE  OneRowEach'
  <1>1. CASE expenses' \subseteq expenses
    BY <1>1 DEF BookInv, OneRowEach
  <1>3. CASE DeleteOrder
    <2>1. \A e \in expenses : Detached(e).id = e.id /\ Detached(e).key = e.key
      BY DEF BookInv, ExpenseTypeOK, Entry, Detached
    <2>2. \A e \in expenses' : \E f \in expenses : e = Detached(f)
      BY <1>3 DEF DeleteOrder
    <2> QED  BY <2>1, <2>2 DEF BookInv, OneRowEach
  <1>2. ASSUME NEW s \in Slot, WriteExpense(s)
        PROVE  OneRowEach'
    <2>1. ASSUME NEW old \in Entry, NEW new \in Entry, Repriced(recording[s], old, new)
          PROVE  OneRowEach'
      <3>1. new.id = old.id /\ new.key = old.key
        BY <2>1 DEF Repriced, Entry
      <3>2. \A e \in expenses \ {old} : e.id # new.id /\ (e.key = new.key => e.key \notin Cost)
        BY <2>1, <3>1 DEF BookInv, OneRowEach, Repriced
      <3> QED  BY <2>1, <3>2 DEF BookInv, OneRowEach, Repriced
    <2>2. ASSUME NEW new \in Entry, Entered(recording[s], new)
          PROVE  OneRowEach'
      BY <2>2 DEF BookInv, OneRowEach, Entered, Free
    <2> QED  BY <1>2, <2>1, <2>2, WriteIsOneOfTwo
  <1> QED  BY <1>1, <1>2, <1>3, BookIsLeftAlone DEF DeleteExpense, ListExpenses

\* A cost with a name never has two entries, whichever recordings of it race,
\* not even once the order that it named is deleted and the entries stay.
THEOREM OneEntryEach == ExpenseSpec => []BookInv
  <1>1. ExpenseInit => OneRowEach
    BY DEF ExpenseInit, OneRowEach
  <1>2. OneRowEach /\ ExpenseTypeOK /\ [ExpenseNext]_expenseVars => OneRowEach'
    BY OneRowEachIsKept DEF BookInv
  <1> QED  BY <1>1, <1>2, ExpensesTypeCorrect, PTL DEF ExpenseSpec, BookInv

\* The late entries through a step: none once no deletion runs, the new one
\* if there is one, and otherwise the same.
LEMMA NoneLate == ASSUME ~deleting PROVE Late = {}
  BY DEF Late

LEMMA WriteIsOfTheBook ==
    ASSUME BookInv, NEW s \in Slot, WriteExpense(s)
    PROVE  Book!Enter \/ Book!Reprice
  <1>0. UNCHANGED <<deleting, listed>>
    BY DEF WriteExpense, orderVars, deletion
  <1>1. recording[s].key \in Key
    BY DEF BookInv, ExpenseTypeOK, WriteExpense, Recording
  <1>2. ASSUME NEW old \in Entry, NEW new \in Entry, Repriced(recording[s], old, new)
        PROVE  Book!Reprice
    <2>1. /\ new \in expenses' /\ old.key \in Cost /\ old \in expenses
          /\ new.id = old.id /\ new.key = old.key /\ new.order = old.order
      BY <1>2 DEF Repriced, Entry
    <2>2. expenses' = (expenses \ {old}) \cup {new}
      BY <1>2 DEF Repriced
    <2>3. Late' = Late
      BY <1>0, <2>1, <2>2 DEF Late
    <2> QED  BY <1>0, <2>1, <2>2, <2>3 DEF Late, Book!Reprice
  <1>3. ASSUME NEW new \in Entry, Entered(recording[s], new)
        PROVE  Book!Enter
    <2>1. new \in expenses' /\ (new.key = None \/ new.key \in Cost)
      BY <1>1, <1>3 DEF Entered, Key
    <2>2. expenses' = expenses \cup {new}
      BY <1>3 DEF Entered
    <2>3. Late' \in {Late, IF deleting THEN Late \cup {new.id} ELSE Late}
      BY <1>0, <2>2 DEF Late
    <2> QED  BY <1>0, <1>3, <2>1, <2>2, <2>3 DEF Late, Entered, Free, Book!Enter
  <1> QED  BY <1>2, <1>3, WriteIsOneOfTwo

LEMMA StrikeIsOfTheBook ==
    ASSUME BookInv, NEW e \in expenses, DeleteExpense(e)
    PROVE  Book!Strike
  <1>1. CASE deleting' = FALSE /\ e.id \in listed
    BY <1>1 DEF DeleteExpense, Book!Strike, Book!NothingLate
  <1>2. CASE e.id \notin listed
    <2>1. UNCHANGED <<deleting, listed>> /\ expenses' = expenses \ {e}
      BY <1>2 DEF DeleteExpense
    <2>2. \A f \in expenses : f.id = e.id => f = e
      BY DEF BookInv, OneRowEach
    <2>3. Late' = Late \ {e.id}
      BY <2>1, <2>2 DEF Late
    <2> QED  BY <2>1, <2>3 DEF Late, Book!Strike
  <1> QED  BY <1>1, <1>2 DEF DeleteExpense, DeletionFails

LEMMA DeletionIsOfTheBook ==
    ASSUME BookInv, DeleteOrder
    PROVE  Book!Delete
  <1>1. deleting /\ ~deleting' /\ Late' = {}
    BY NoneLate DEF DeleteOrder, Late
  <1>2. \A f \in expenses : (f.order => f.id \in listed) <=> f.id \notin Late
    BY <1>1 DEF Late, BookInv, OneRowEach
  <1>3. {f \in expenses : f.order => f.id \in listed} = {f \in expenses : f.id \notin Late}
    BY <1>2
  <1>4. expenses' = {[e EXCEPT !.order = FALSE] : e \in {f \in expenses : f.id \notin Late}}
    BY <1>3 DEF DeleteOrder, Detached
  <1> QED  BY <1>1, <1>4 DEF Late, Book!Delete, Book!NothingLate

\* Every write enters or reprices, a deleted order keeps all but the late
\* entries, everything else strikes or leaves the book alone: the recordings
\* and the deletion implement the abstract book.
THEOREM ExpensesImplementBook == ExpenseSpec => BookSpec
  <1>1. ExpenseInit => expenses = {} /\ ~deleting /\ Late = {}
    BY DEF ExpenseInit, Late
  <1>2. ASSUME BookInv, [ExpenseNext]_expenseVars
        PROVE  [Book!BookNext]_<<expenses, deleting, Late>>
    <2>1. CASE ListExpenses
      BY <2>1 DEF ListExpenses, Late, Book!BeginDeletion, Book!BookNext
    <2>2. CASE expenses' = expenses /\ deleting' = FALSE
      BY <2>2 DEF Late, Book!GiveUp, Book!NothingLate, Book!BookNext
    <2>3. CASE UNCHANGED <<expenses, deleting, listed>>
      BY <2>3 DEF Late
    <2> QED  BY <1>2, <2>1, <2>2, <2>3, WriteIsOfTheBook, StrikeIsOfTheBook,
                DeletionIsOfTheBook, BookIsLeftAlone DEF Book!BookNext
  <1> QED  BY <1>1, <1>2, OneEntryEach, PTL DEF ExpenseSpec, BookSpec, Book!BookSpec, Late

-----------------------------------------------------------------------------
\* No use of a model, no recording that found its rate missing and no seed
\* writes over a rate that is there.
THEOREM RatesStayTheAdmins == ExpenseSpec => RatesAreTheAdmins
  <1> DEFINE Kept ==
        \A m \in Model : rates[m] # None /\ rates'[m] # rates[m] =>
            \E a \in Price : UpdateRate(m, a)
  <1>1. ASSUME ExpenseTypeOK, [ExpenseNext]_expenseVars
        PROVE  [Kept]_expenseVars
    <2>1. CASE UNCHANGED expenseVars
      BY <2>1
    <2>2. ASSUME NEW s \in Slot, Progress(s)
          PROVE  Kept
      <3>1. CASE EnsureRate(s)
        BY <1>1, <3>1 DEF EnsureRate, ExpenseTypeOK
      <3>2. CASE ~EnsureRate(s)
        BY <2>2, <3>2 DEF Progress, GetRate, WriteExpense, RejectExpense
      <3> QED  BY <3>1, <3>2
    <2>3. CASE Beginning
      BY <2>3 DEF Beginning, CompleteGeneration, BackfillGenerationCosts, RecordManual,
         UpdateProductionCost, GetOrderDetail
    <2>4. ASSUME NEW n \in Model, NEW a \in Price, CreateRate(n, a)
          PROVE  Kept
      BY <1>1, <2>4 DEF CreateRate, ExpenseTypeOK
    <2>5. ASSUME NEW n \in Model, NEW a \in Price, UpdateRate(n, a)
          PROVE  Kept
      <3>1. ASSUME NEW m \in Model, rates'[m] # rates[m]
            PROVE  m = n
        BY <1>1, <2>5, <3>1 DEF UpdateRate, ExpenseTypeOK
      <3> QED  BY <2>5, <3>1
    <2>6. CASE Restart
      BY <1>1, <2>6 DEF Restart, Seed
    <2>7. ASSUME Happening,
                 ~Restart,
                 \A n \in Model, a \in Price : ~CreateRate(n, a) /\ ~UpdateRate(n, a)
          PROVE  Kept
      BY <2>7 DEF Happening, LoseRecording, ForgetGeneration, ListExpenses, DeleteOrder,
         LoseDeletion, DeleteExpense
    <2> QED  BY <1>1, <2>1, <2>2, <2>3, <2>4, <2>5, <2>6, <2>7, NextIsOneOfThree DEF Happening
  <1> QED  BY <1>1, ExpensesTypeCorrect, PTL DEF ExpenseSpec, RatesAreTheAdmins
=============================================================================
