---------------------------- MODULE OrdersProofs ----------------------------
(***************************************************************************)
(* Proofs about an order of any number of lines, of any kinds, ingested,   *)
(* linked, cancelled, deleted and reversed by any number of handlers.      *)
(*                                                                         *)
(* A handler decides on what it read and writes several steps later, so    *)
(* the invariant says of every handler under way what is still true of     *)
(* what it carries.  It carries nothing that a later step can make false:  *)
(* statuses that were reported, grants that were posted and cancellations  *)
(* in Shopify stay, whatever becomes of the catalogue meanwhile, and so    *)
(* does what a line was once taken for.                                    *)
(***************************************************************************)
EXTENDS Orders, CreditLedgerProofs

-----------------------------------------------------------------------------
(* The types. *)

OrderRow == [row : 0..MaxRows, user : User \cup {NoOne}, financial : Financial,
             cancelled : BOOLEAN]

CatalogueTypeOK ==
    /\ catalogue \in [Line -> {"art", "accessory", "digital", "unknown"}]
    /\ packs \subseteq Line /\ mapped \subseteq Line
    /\ asPack \subseteq Line /\ asGoods \subseteq Line

\* The tables and the handlers are what the schema and the code allow.
OrdersTypeOK ==
    /\ shop \in Payload /\ shop \in sent /\ sent \subseteq Payload
    /\ order \in OrderRow
    /\ rows \in 0..MaxRows
    /\ items \in [Line -> Status \cup {Absent}]
    /\ linked \subseteq Line /\ refs \subseteq Line
    /\ CatalogueTypeOK
    /\ job \in [Proc -> Job \cup {Idle}]

-----------------------------------------------------------------------------
(* What a handler under way carries, given the statuses that Shopify ever  *)
(* reported, what may be written to which line, the rows of the ledger,    *)
(* and whether Shopify has the order as cancelled.                         *)

\* What the lines may be set to, after what was reported and read.
Permitted ==
    {w \in Line \X (Status \cup {Keep}) :
        /\ w[1] \notin asGoods => w[2] \in Terminal \cup {Keep}
        /\ ~TakenAsPaid => \/ w[2] \in Clawback \cup {"pending", Keep}
                           \/ w[2] = "delivered" /\ w[1] \in asPack}

Granted(entries, reason, row, u) ==
    \E g \in entries : g.reason = reason /\ g.ref = OrderRef(row) /\ g.user = u

\* The grant that a reversal of line l takes its part of.
Reversible(j, l, entries) ==
    IF l \in j.packs THEN Granted(entries, "pack_purchase", j.row, j.packTo)
                     ELSE Granted(entries, "order_bonus", j.row, j.bonusTo)

JobOK(j, reported, permitted, entries, cancelled) ==
    /\ j.op # "sync" => j.row # 0
    /\ j.pay.financial \in reported \cup {"pending"}
    /\ j.at \in {"count", "bonus", "pack"} =>
            j.op \in {"ingest", "link"} /\ j.user \in User /\ "paid" \in reported
    /\ j.op = "link" => j.user \in User
    /\ j.at = "mark_all" => cancelled
    /\ j.at \in {"claw", "revoke"} => j.op # "sync"
    /\ j.at = "revoke" => j.todo # {} /\ \A l \in j.todo : Reversible(j, l, entries)
    /\ j.op = "ingest" /\ j.at \in {"read", "write"} => j.todo # {}
    /\ j.op = "ingest" /\ j.at = "write" => <<Min(j.todo), j.next>> \in permitted
    /\ j.op = "transition" /\ j.at = "write" =>
            \E l \in Line : j.todo = {l} /\ j.next # Keep /\ <<l, j.next>> \in permitted
    /\ j.op = "sync" /\ j.at = "write" =>
            j.todo # {} /\ j.next # Keep /\ \A l \in j.todo : <<l, j.next>> \in permitted

Sound(j, reported, permitted, entries, cancelled) ==
    j = Idle \/ (j \in Job /\ JobOK(j, reported, permitted, entries, cancelled))

OrdersInv ==
    /\ OrdersTypeOK
    /\ LedgerInv
    /\ \A p \in Proc : Sound(job[p], Reported, Permitted, ledger, shop.cancelled)
    /\ order.financial \in Reported \cup {"pending"}
    /\ \A pay \in sent : pay.cancelled => shop.cancelled
    /\ NothingBeforePayment
    /\ ReversalFollowsGrant
    /\ PacksAreNotProduced
    /\ CancelledInShopifyFirst

-----------------------------------------------------------------------------
(* The first line of a handler's list. *)

\* A set of numbers that is not empty has a least member, which Min is.
LEMMA MinIsMember ==
    ASSUME NEW S, S \subseteq Nat, S # {}
    PROVE  Min(S) \in S
  BY LeastNumber DEF Min

\* A transition is about one line.
LEMMA MinOfOne ==
    ASSUME NEW l \in Nat
    PROVE  Min({l}) = l
  <1>1. {l} \subseteq Nat /\ {l} # {}
    OBVIOUS
  <1>2. Min({l}) \in {l}
    BY <1>1, MinIsMember
  <1> QED  BY <1>2

-----------------------------------------------------------------------------
(* What becomes of a handler.  None of its facts is lost when payments are *)
(* reported, grants are posted, and the order is cancelled in Shopify.     *)

LEMMA SoundStays ==
    ASSUME NEW j, NEW reported, NEW permitted, NEW entries, NEW cancelled \in BOOLEAN,
           Sound(j, reported, permitted, entries, cancelled),
           NEW reported2, reported \subseteq reported2,
           NEW permitted2, permitted \subseteq permitted2,
           NEW entries2, entries \subseteq entries2,
           NEW cancelled2 \in BOOLEAN, cancelled => cancelled2
    PROVE  Sound(j, reported2, permitted2, entries2, cancelled2)
  <1> SUFFICES ASSUME j # Idle PROVE Sound(j, reported2, permitted2, entries2, cancelled2)
    BY DEF Sound
  <1>1. j \in Job /\ JobOK(j, reported, permitted, entries, cancelled)
    BY DEF Sound
  <1>2. \A l : Reversible(j, l, entries) => Reversible(j, l, entries2)
    BY DEF Reversible, Granted
  <1> QED  BY <1>1, <1>2 DEF JobOK, Sound

LEMMA NoPayloadType == NoPayload \in Payload /\ NoPayload.financial = "pending"
  BY DEF NoPayload, Payload, Financial

\* A handler that starts is about the order that is there.
LEMMA StartType ==
    ASSUME OrdersTypeOK, NEW op \in Op, NEW at \in Stage, NEW todo \in SUBSET Line
    PROVE  LET j == Start(op, at, todo) IN
           /\ j \in Job /\ j.op = op /\ j.at = at /\ j.todo = todo
           /\ j.row = order.row /\ j.pay = NoPayload /\ j.next = Keep /\ j.user = NoOne
           /\ j # Idle
  <1>1. order.row \in 0..MaxRows
    BY DEF OrdersTypeOK, OrderRow
  <1> QED  BY <1>1, NoPayloadType DEF Start, Job, Op, Idle

\* The reversal of some lines starts with nothing to keep true.
LEMMA ClawIsSound ==
    ASSUME OrdersTypeOK, NEW j \in Job, j.row # 0, NEW S \in SUBSET Line,
           NEW reported, NEW permitted, NEW entries, NEW cancelled
    PROVE  Sound(Claw(j, S), reported, permitted, entries, cancelled)
  <1> DEFINE s == Start("reverse", "claw", S)
             c == [s EXCEPT !.row = j.row]
  <1>1. s \in Job /\ s.op = "reverse" /\ s.at = "claw" /\ s.todo = S /\ s.pay = NoPayload
    BY StartType DEF Op, Stage
  <1> HIDE DEF s
  <1>2. c \in Job /\ c.op = "reverse" /\ c.at = "claw" /\ c.pay = NoPayload /\ c.row = j.row
    BY <1>1 DEF Job
  <1>3. JobOK(c, reported, permitted, entries, cancelled)
    BY <1>2, NoPayloadType DEF JobOK
  <1> QED  BY <1>2, <1>3 DEF Sound, Claw, s

\* What follows the grants, and what follows a reversal.
LEMMA AfterGrantsIsSound ==
    ASSUME OrdersTypeOK, NEW j \in Job, j.op \in {"ingest", "link"}, j.row # 0,
           NEW reported, NEW permitted, NEW entries, NEW cancelled, j.pay.financial \in reported \cup {"pending"},
           j.op = "link" => j.user \in User
    PROVE  Sound(AfterGrants(j), reported, permitted, entries, cancelled)
  <1>1. CASE j.op = "link"
    <2> DEFINE d == [j EXCEPT !.at = "dead"]
    <2>1. d \in Job /\ d.op = "link" /\ d.at = "dead" /\ d.pay = j.pay /\ d.row = j.row
          /\ d.user = j.user
      BY <1>1 DEF Job, Stage
    <2>2. JobOK(d, reported, permitted, entries, cancelled)
      BY <1>1, <2>1 DEF JobOK
    <2> QED  BY <1>1, <2>1, <2>2 DEF AfterGrants, Sound
  <1>2. CASE j.op = "ingest"
    <2>1. DeadLines(j.pay) \in SUBSET Line
      BY DEF DeadLines, Job, Payload
    <2> QED  BY <1>2, <2>1, ClawIsSound DEF AfterGrants, Sound
  <1> QED  BY <1>1, <1>2

LEMMA AfterClawbackIsSound ==
    ASSUME NEW j \in Job, j.row # 0, NEW reported, NEW permitted, NEW entries, NEW cancelled,
           j.pay.financial \in reported \cup {"pending"}
    PROVE  Sound(AfterClawback(j), reported, permitted, entries, cancelled)
  <1>1. CASE j.op = "delete"
    <2> DEFINE d == [j EXCEPT !.at = "remove"]
    <2>1. d \in Job /\ d.op = "delete" /\ d.at = "remove" /\ d.pay = j.pay /\ d.row = j.row
      BY <1>1 DEF Job, Stage
    <2>2. JobOK(d, reported, permitted, entries, cancelled)
      BY <1>1, <2>1 DEF JobOK
    <2> QED  BY <1>1, <2>1, <2>2 DEF AfterClawback, Sound
  <1> QED  BY <1>1 DEF AfterClawback, Sound

\* What the invariant says of the handler that takes the next step.
LEMMA JobFacts ==
    ASSUME OrdersInv, NEW p \in Proc, job[p] # Idle
    PROVE  /\ job[p] \in Job /\ JobOK(job[p], Reported, Permitted, ledger, shop.cancelled)
           /\ OrdersTypeOK
  BY DEF OrdersInv, Sound

-----------------------------------------------------------------------------
(* The statuses that the code decides on. *)

LEMMA AutoEarlyFacts ==
    ASSUME NEW financial \in Financial, NEW artStatus, NEW isAccessory \in BOOLEAN
    PROVE  LET auto == AutoEarly(financial, artStatus, isAccessory) IN
           /\ auto \in Status
           /\ financial \notin {"paid"} \cup Unclear => auto \in {"refunded", "cancelled", "pending"}
  BY DEF AutoEarly, Financial, Unclear, Status, EarlyAuto, Clawback

\* What a report makes of a line, by what the catalogue says that it is.
LEMMA InitialStatusFacts ==
    ASSUME NEW pay \in Payload, NEW l
    PROVE  LET initial == InitialStatus(pay, l) IN
           /\ initial \in Status
           /\ l \in packs => initial \in Undo \cup {"delivered"}
           /\ l \notin packs /\ pay.financial \notin {"paid"} \cup Unclear =>
                    initial \in Undo \cup {"pending"}
  <1> DEFINE artStatus == IF l \in Carries THEN art ELSE "none"
             auto == AutoEarly(pay.financial, artStatus, catalogue[l] = "accessory")
  <1>1. pay.financial \in Financial
    BY DEF Payload
  <1>2. /\ auto \in Status
        /\ pay.financial \notin {"paid"} \cup Unclear => auto \in {"refunded", "cancelled", "pending"}
    BY <1>1, AutoEarlyFacts
  <1>3. InitialStatus(pay, l) = IF l \in packs /\ auto \notin {"cancelled", "refunded"}
                                THEN "delivered" ELSE auto
    BY DEF InitialStatus
  <1> HIDE DEF auto
  <1> QED  BY <1>2, <1>3 DEF Undo, Status, Advanced

\* What is written on a report of a status that was never taken for a payment
\* is what an unpaid order may be set to.
LEMMA NotTakenAsPaid ==
    ASSUME NEW financial \in Reported \cup {"pending"}, ~TakenAsPaid
    PROVE  financial \notin {"paid"} \cup Unclear
  BY DEF TakenAsPaid, Unclear

\* A manual transition leads from what a line may be set to to another such.
LEMMA TransitionAllowed ==
    ASSUME NEW l \in Line, NEW status \in Status, <<l, status>> \in Permitted,
           NEW isAccessory \in BOOLEAN, NEW to \in Status \cap TransitionsFor(status, isAccessory)
    PROVE  <<l, to>> \in Permitted
  <1>1. /\ Transitions["pending"] = Undo
        /\ Transitions["delivered"] = {"refunded", "restocked"}
        /\ \A s \in Clawback : Transitions[s] = {}
    BY DEF Transitions, Clawback
  <1>2. \A s \in Clawback \cup {"pending", "delivered"} : AccessoryTransitions[s] = Transitions[s]
    BY DEF AccessoryTransitions, Clawback, Status, EarlyAuto, Advanced
  <1>3. status \in Clawback \cup {"pending", "delivered"} => to \in Clawback
    BY <1>1, <1>2 DEF TransitionsFor, Undo, Clawback
  <1>4. status \in Terminal => to \in Clawback
    BY <1>3 DEF Terminal
  <1>5. status # Keep
    BY DEF Keep, Status, EarlyAuto, Advanced, Clawback
  <1> QED  BY <1>3, <1>4, <1>5 DEF Permitted, Terminal
-----------------------------------------------------------------------------
(* Steps that change neither Shopify nor the ledger.                       *)

\* What a step may write to the items without harm.
ItemsAllowed ==
    /\ items' \in [Line -> Status \cup {Absent}]
    /\ \A l \in Line : items'[l] \in {items[l], Absent} \/ <<l, items'[l]>> \in Permitted

\* What may be written can always be written, when more was reported or read.
LEMMA PermittedGrows ==
    ASSUME Reported \subseteq Reported', asPack \subseteq asPack', asGoods \subseteq asGoods'
    PROVE  Permitted \subseteq Permitted'
  <1>1. TakenAsPaid => TakenAsPaid'
    BY DEF TakenAsPaid, Unclear
  <1> QED  BY <1>1 DEF Permitted

LEMMA HandlersKeep ==
    ASSUME OrdersInv, Reported \subseteq Reported', Permitted \subseteq Permitted',
           ledger \subseteq ledger',
           shop' \in Payload, shop.cancelled => shop'.cancelled,
           \/ job' = job
           \/ \E p \in Proc : \E j : /\ job' = [job EXCEPT ![p] = j]
                                     /\ Sound(j, Reported', Permitted', ledger', shop'.cancelled)
    PROVE  /\ job' \in [Proc -> Job \cup {Idle}]
           /\ \A q \in Proc : Sound(job'[q], Reported', Permitted', ledger', shop'.cancelled)
  <1>1. job \in [Proc -> Job \cup {Idle}] /\ shop.cancelled \in BOOLEAN /\ shop'.cancelled \in BOOLEAN
    BY DEF OrdersInv, OrdersTypeOK, Payload
  <1>2. \A q \in Proc : Sound(job[q], Reported', Permitted', ledger', shop'.cancelled)
    BY <1>1, SoundStays DEF OrdersInv
  <1>3. CASE job' = job
    BY <1>1, <1>2, <1>3
  <1>4. ASSUME NEW p \in Proc, NEW j, job' = [job EXCEPT ![p] = j],
               Sound(j, Reported', Permitted', ledger', shop'.cancelled)
        PROVE  /\ job' \in [Proc -> Job \cup {Idle}]
               /\ \A q \in Proc : Sound(job'[q], Reported', Permitted', ledger', shop'.cancelled)
    <2>1. j \in Job \cup {Idle}
      BY <1>4 DEF Sound
    <2>2. \A q \in Proc : job'[q] = IF q = p THEN j ELSE job[q]
      BY <1>1, <1>4
    <2> QED  BY <1>1, <1>2, <1>4, <2>1, <2>2
  <1> QED  BY <1>3, <1>4

\* The lines that satisfy what the two properties say of them go on doing so.
LEMMA ItemsStayAllowed ==
    ASSUME OrdersInv, Reported \subseteq Reported', asPack \subseteq asPack',
           asGoods \subseteq asGoods', ItemsAllowed,
           WasPaid => WasPaid', ~WasPaid' =>
                \A r \in ledger' : r.reason \notin {"order_bonus", "pack_purchase"}
    PROVE  NothingBeforePayment' /\ PacksAreNotProduced'
  <1>1. \A l \in Line : items'[l] # Keep
    BY DEF ItemsAllowed, Keep, Status, EarlyAuto, Advanced, Clawback, Absent
  <1>2. TakenAsPaid => TakenAsPaid'
    BY DEF TakenAsPaid, Unclear
  <1>3. PacksAreNotProduced'
    BY <1>1 DEF OrdersInv, PacksAreNotProduced, ItemsAllowed, Permitted
  <1>4. ASSUME ~TakenAsPaid', NEW l \in Line
        PROVE  \/ items'[l] \in Clawback \cup {"pending", Absent}
               \/ items'[l] = "delivered" /\ l \in asPack'
    BY <1>1, <1>2, <1>4 DEF OrdersInv, NothingBeforePayment, ItemsAllowed, Permitted
  <1> QED  BY <1>3, <1>4 DEF NothingBeforePayment

\* Steps of the catalogue, and an ingestion's reading of it.
LEMMA CatalogueStepKeepsInv ==
    ASSUME OrdersInv, UNCHANGED <<shop, sent, ledgerVars, order, rows, items, linked>>,
           refs' \subseteq Line, CatalogueTypeOK',
           asPack \subseteq asPack', asGoods \subseteq asGoods',
           \/ job' = job
           \/ \E p \in Proc : \E j : /\ Become(p, j)
                                     /\ Sound(j, Reported, Permitted', ledger, shop.cancelled)
    PROVE  OrdersInv'
  <1>1. Reported' = Reported /\ WasPaid' = WasPaid
    BY DEF Reported, WasPaid
  <1>2. ledger' = ledger /\ shop' = shop /\ sent' = sent /\ balance' = balance
    BY DEF ledgerVars
  <1>3. shop \in Payload /\ Permitted \subseteq Permitted'
    BY <1>1, PermittedGrows DEF OrdersInv, OrdersTypeOK
  <1>4. \/ job' = job
        \/ \E p \in Proc : \E j : /\ job' = [job EXCEPT ![p] = j]
                                  /\ Sound(j, Reported', Permitted', ledger', shop'.cancelled)
    BY <1>1, <1>2 DEF Become
  <1>5. /\ job' \in [Proc -> Job \cup {Idle}]
        /\ \A q \in Proc : Sound(job'[q], Reported', Permitted', ledger', shop'.cancelled)
    BY <1>1, <1>2, <1>3, <1>4, HandlersKeep
  <1>6. OrdersTypeOK'
    BY <1>2, <1>5 DEF OrdersInv, OrdersTypeOK
  <1>7. LedgerInv'
    BY <1>2, LedgerInvStep DEF OrdersInv, ledgerVars
  <1>8. NothingBeforePayment' /\ PacksAreNotProduced'
    <2>1. ItemsAllowed
      BY DEF OrdersInv, OrdersTypeOK, ItemsAllowed
    <2> QED  BY <1>1, <1>2, <2>1, ItemsStayAllowed DEF OrdersInv, NothingBeforePayment
  <1>9. ReversalFollowsGrant' /\ CancelledInShopifyFirst'
    BY <1>2 DEF OrdersInv, ReversalFollowsGrant, CancelledInShopifyFirst
  <1> QED  BY <1>1, <1>2, <1>5, <1>6, <1>7, <1>8, <1>9 DEF OrdersInv

LEMMA QuietKeepsInv ==
    ASSUME OrdersInv, UNCHANGED <<shop, sent, ledgerVars, catalogueVars>>,
           order' \in OrderRow, order'.financial \in Reported \cup {"pending"},
           order'.cancelled => shop.cancelled,
           rows' \in 0..MaxRows, linked' \subseteq Line, refs' \subseteq Line, ItemsAllowed,
           \/ job' = job
           \/ \E p \in Proc : \E j : /\ Become(p, j)
                                     /\ Sound(j, Reported, Permitted, ledger, shop.cancelled)
    PROVE  OrdersInv'
  <1>1. Reported' = Reported /\ WasPaid' = WasPaid
    BY DEF Reported, WasPaid
  <1>2. ledger' = ledger /\ shop' = shop /\ sent' = sent /\ balance' = balance
        /\ asPack' = asPack /\ asGoods' = asGoods
    BY DEF ledgerVars, catalogueVars
  <1>3. shop \in Payload /\ Permitted' = Permitted
    BY <1>1, <1>2 DEF OrdersInv, OrdersTypeOK, Permitted, TakenAsPaid
  <1>4. \/ job' = job
        \/ \E p \in Proc : \E j : /\ job' = [job EXCEPT ![p] = j]
                                  /\ Sound(j, Reported', Permitted', ledger', shop'.cancelled)
    BY <1>1, <1>2, <1>3 DEF Become
  <1>5. /\ job' \in [Proc -> Job \cup {Idle}]
        /\ \A q \in Proc : Sound(job'[q], Reported', Permitted', ledger', shop'.cancelled)
    BY <1>1, <1>2, <1>3, <1>4, HandlersKeep
  <1>6. OrdersTypeOK'
    BY <1>2, <1>5 DEF OrdersInv, OrdersTypeOK, CatalogueTypeOK, catalogueVars, ItemsAllowed
  <1>7. LedgerInv'
    BY <1>2, LedgerInvStep DEF OrdersInv, ledgerVars
  <1>8. NothingBeforePayment' /\ PacksAreNotProduced'
    BY <1>1, <1>2, ItemsStayAllowed DEF OrdersInv, NothingBeforePayment
  <1>9. ReversalFollowsGrant'
    BY <1>2 DEF OrdersInv, ReversalFollowsGrant
  <1>10. CancelledInShopifyFirst'
    BY <1>2 DEF CancelledInShopifyFirst
  <1> QED  BY <1>1, <1>2, <1>5, <1>6, <1>7, <1>8, <1>9, <1>10 DEF OrdersInv

\* ...and steps that write to no table at all.
LEMMA ThinkingKeepsInv ==
    ASSUME OrdersInv, UNCHANGED <<shopVars, dbVars, catalogueVars, ledgerVars>>,
           \/ job' = job
           \/ \E p \in Proc : \E j : /\ Become(p, j)
                                     /\ Sound(j, Reported, Permitted, ledger, shop.cancelled)
    PROVE  OrdersInv'
  <1>1. UNCHANGED <<shop, sent, order, rows, items, linked, refs>>
    BY DEF shopVars, dbVars
  <1>2. /\ order' \in OrderRow /\ rows' \in 0..MaxRows /\ linked' \subseteq Line
        /\ refs' \subseteq Line /\ ItemsAllowed
    BY <1>1 DEF OrdersInv, OrdersTypeOK, ItemsAllowed
  <1>3. order'.financial \in Reported \cup {"pending"} /\ (order'.cancelled => shop.cancelled)
    BY <1>1 DEF OrdersInv, CancelledInShopifyFirst
  <1> QED  BY <1>1, <1>2, <1>3, QuietKeepsInv

-----------------------------------------------------------------------------
(* Ingestion.                                                              *)

LEMMA IngestOrderKeepsInv ==
    ASSUME OrdersInv, NEW p \in Proc, NEW pay \in sent, NEW u \in {Buyer, NoOne},
           IngestOrder(p, pay, u)
    PROVE  OrdersInv'
  <1> DEFINE s == Start("ingest", "read", Line)
             j == [s EXCEPT !.row = order'.row, !.user = order'.user, !.pay = pay]
  <1>1. /\ OrdersTypeOK /\ pay \in Payload /\ order \in OrderRow /\ rows \in 0..MaxRows
        /\ u \in User \cup {NoOne} /\ items \in [Line -> Status \cup {Absent}]
        /\ linked \subseteq Line /\ refs \subseteq Line
    BY AccountsOfOrders DEF OrdersInv, OrdersTypeOK
  <1>2. pay.financial \in Reported /\ order.financial \in Reported \cup {"pending"}
    BY DEF Reported, OrdersInv
  <1>3. (pay.cancelled => shop.cancelled) /\ (order.cancelled => shop.cancelled)
    BY DEF OrdersInv, CancelledInShopifyFirst
  <1>4. /\ order' \in OrderRow /\ rows' \in 0..MaxRows /\ order'.row # 0
        /\ order'.financial \in {pay.financial, order.financial}
        /\ order'.cancelled => shop.cancelled
    <2>1. CASE /\ order.row = 0 /\ rows < MaxRows
               /\ rows' = rows + 1
               /\ order' = [row |-> rows + 1, user |-> u, financial |-> pay.financial,
                            cancelled |-> pay.cancelled]
      BY <1>1, <1>3, <2>1, OrderBounds DEF OrderRow, Payload
    <2>2. CASE /\ order.row # 0
               /\ rows' = rows
               /\ order' = [order EXCEPT !.user = IF u = NoOne THEN @ ELSE u,
                                         !.financial = IF pay.financial = "none" THEN @
                                                       ELSE pay.financial,
                                         !.cancelled = @ \/ pay.cancelled]
      <3>1. (order.cancelled \/ pay.cancelled) \in BOOLEAN
            /\ (IF pay.financial = "none" THEN order.financial ELSE pay.financial) \in Financial
            /\ (IF u = NoOne THEN order.user ELSE u) \in User \cup {NoOne}
        BY <1>1 DEF OrderRow, Payload
      <3> QED  BY <1>1, <1>3, <2>2, <3>1 DEF OrderRow
    <2> QED  BY <2>1, <2>2 DEF IngestOrder
  <1>5. s \in Job /\ s.op = "ingest" /\ s.at = "read" /\ s.todo = Line
    BY <1>1, StartType DEF Op, Stage
  <1> HIDE DEF s
  <1>6. j \in Job /\ j.op = "ingest" /\ j.at = "read" /\ j.row = order'.row /\ j.pay = pay
        /\ j.todo = Line
    BY <1>1, <1>4, <1>5 DEF Job, OrderRow
  <1>7. UNCHANGED <<shop, sent, ledgerVars, items, linked, refs, catalogueVars>> /\ Become(p, j)
    BY DEF IngestOrder, shopVars, s
  <1> HIDE DEF j
  <1>8. Sound(j, Reported, Permitted, ledger, shop.cancelled)
    BY <1>2, <1>4, <1>6, LinesAreNumbered DEF JobOK, Sound
  <1>9. ItemsAllowed
    BY <1>1, <1>7 DEF ItemsAllowed
  <1>10. order'.financial \in Reported \cup {"pending"} /\ linked' \subseteq Line /\ refs' \subseteq Line
    BY <1>1, <1>2, <1>4, <1>7
  <1> QED  BY <1>4, <1>7, <1>8, <1>9, <1>10, QuietKeepsInv

\* What a report makes of a line that is read now may be written to it later:
\* the history says from now on what the line was taken for.
LEMMA ReadingAllows ==
    ASSUME OrdersInv, NEW pay \in Payload, pay.financial \in Reported \cup {"pending"},
           NEW l \in Line, UNCHANGED sent,
           asPack' = asPack \cup ({l} \cap packs), asGoods' = asGoods \cup ({l} \ packs)
    PROVE  <<l, InitialStatus(pay, l)>> \in Permitted'
  <1> DEFINE initial == InitialStatus(pay, l)
  <1>1. /\ initial \in Status
        /\ l \in packs => initial \in Undo \cup {"delivered"}
        /\ l \notin packs /\ pay.financial \notin {"paid"} \cup Unclear =>
                initial \in Undo \cup {"pending"}
    BY InitialStatusFacts
  <1> HIDE DEF initial
  <1>2. TakenAsPaid' = TakenAsPaid
    BY DEF TakenAsPaid, Reported
  <1>3. ~TakenAsPaid => pay.financial \notin {"paid"} \cup Unclear
    BY NotTakenAsPaid
  <1>4. l \notin asGoods' => initial \in Terminal
    BY <1>1 DEF Undo, Terminal, Clawback
  <1>5. ~TakenAsPaid => initial \in Clawback \cup {"pending"} \/ (initial = "delivered" /\ l \in asPack')
    BY <1>1, <1>3 DEF Undo, Clawback
  <1> QED  BY <1>1, <1>2, <1>4, <1>5 DEF Permitted, initial

LEMMA ReadLineKeepsInv ==
    ASSUME OrdersInv, NEW p \in Proc, ReadLine(p)
    PROVE  OrdersInv'
  <1> DEFINE l == Current(p)
             initial == InitialStatus(job[p].pay, l)
  <1>1. job[p].op = "ingest" /\ job[p].at = "read" /\ job[p] # Idle
    BY DEF ReadLine, At, Idle
  <1>2. job[p] \in Job /\ JobOK(job[p], Reported, Permitted, ledger, shop.cancelled) /\ OrdersTypeOK
    BY <1>1, JobFacts
  <1>3. PICK next \in {initial, Keep}, new \in BOOLEAN, known \in BOOLEAN :
            Become(p, [job[p] EXCEPT !.at = "write", !.next = next, !.new = new, !.known = known])
    BY DEF ReadLine
  <1> DEFINE j == [job[p] EXCEPT !.at = "write", !.next = next, !.new = new, !.known = known]
  <1>4. /\ job[p].todo # {} /\ job[p].todo \subseteq Line /\ job[p].pay \in Payload
        /\ job[p].pay.financial \in Reported \cup {"pending"} /\ job[p].row # 0
    BY <1>1, <1>2 DEF JobOK, Job
  <1>5. l \in Line /\ l = Min(job[p].todo)
    BY <1>4, MinIsMember, LinesAreNumbered DEF Current
  <1>6. /\ asPack' = asPack \cup ({l} \cap packs) /\ asGoods' = asGoods \cup ({l} \ packs)
        /\ UNCHANGED <<shop, sent, ledgerVars, order, rows, items, linked, refs,
                       catalogue, packs, mapped>>
    BY DEF ReadLine, shopVars, dbVars
  <1>7. <<l, initial>> \in Permitted'
    BY <1>4, <1>5, <1>6, ReadingAllows
  <1>8. initial \in Status
    BY <1>4, InitialStatusFacts
  <1> HIDE DEF initial, l
  <1>9. next \in Status \cup {Keep} /\ <<l, next>> \in Permitted'
    BY <1>3, <1>5, <1>7, <1>8 DEF Permitted
  <1>10. j \in Job /\ j.op = "ingest" /\ j.at = "write" /\ j.next = next /\ j.pay = job[p].pay
         /\ j.row = job[p].row /\ j.todo = job[p].todo
    BY <1>1, <1>2, <1>3, <1>9 DEF Job, Stage
  <1> HIDE DEF j
  <1>11. Sound(j, Reported, Permitted', ledger, shop.cancelled)
    BY <1>4, <1>5, <1>9, <1>10 DEF JobOK, Sound
  <1>12. Become(p, j)
    BY <1>3 DEF j
  <1>13. refs' \subseteq Line /\ CatalogueTypeOK'
    BY <1>2, <1>5, <1>6 DEF OrdersTypeOK, CatalogueTypeOK
  <1> QED  BY <1>6, <1>11, <1>12, <1>13, CatalogueStepKeepsInv

LEMMA WriteLineKeepsInv ==
    ASSUME OrdersInv, NEW p \in Proc, WriteLine(p)
    PROVE  OrdersInv'
  <1> DEFINE l == Current(p)
             j == [job[p] EXCEPT !.todo = @ \ {l}, !.next = Keep, !.new = FALSE, !.known = FALSE]
             read == [j EXCEPT !.at = "read"]
             count == [j EXCEPT !.at = "count"]
             after == IF j.todo = {} THEN AfterItems(j) ELSE read
  <1>1. job[p].op = "ingest" /\ job[p].at = "write" /\ job[p] # Idle
    BY DEF WriteLine, At, Idle
  <1>2. job[p] \in Job /\ JobOK(job[p], Reported, Permitted, ledger, shop.cancelled) /\ OrdersTypeOK
    BY <1>1, JobFacts
  <1>3. /\ job[p].row # 0 /\ job[p].pay.financial \in Reported \cup {"pending"}
        /\ <<l, job[p].next>> \in Permitted
    BY <1>1, <1>2 DEF JobOK, Current
  <1>4. j \in Job /\ j.op = "ingest" /\ j.row = job[p].row /\ j.pay = job[p].pay
        /\ j.user = job[p].user /\ j.todo \subseteq Line
    BY <1>1, <1>2 DEF Job
  <1>5. UNCHANGED <<shop, sent, ledgerVars, order, rows, catalogueVars>>
        /\ items' = (IF job[p].next = Keep THEN items ELSE [items EXCEPT ![l] = job[p].next])
        /\ linked' = (IF l \in Carries THEN linked \cup {l} ELSE linked)
        /\ refs' \in {refs, refs \cup {l}}
        /\ Become(p, after)
    BY DEF WriteLine, shopVars
  <1> HIDE DEF j, l
  <1>6. j.todo # {} => Sound(read, Reported, Permitted, ledger, shop.cancelled)
    <2> SUFFICES ASSUME j.todo # {} PROVE Sound(read, Reported, Permitted, ledger, shop.cancelled)
      OBVIOUS
    <2>1. read \in Job /\ read.op = "ingest" /\ read.at = "read" /\ read.row = j.row
          /\ read.pay = j.pay /\ read.todo = j.todo
      BY <1>4 DEF Job, Stage
    <2>2. JobOK(read, Reported, Permitted, ledger, shop.cancelled)
      BY <1>3, <1>4, <2>1 DEF JobOK
    <2> QED  BY <2>1, <2>2 DEF Sound
  <1>7. Sound(AfterItems(j), Reported, Permitted, ledger, shop.cancelled)
    <2>1. CASE j.pay.financial = "paid" /\ j.user # NoOne
      <3>1. count \in Job /\ count.op = "ingest" /\ count.at = "count" /\ count.row = j.row
            /\ count.pay = j.pay /\ count.user = j.user /\ j.user \in User
        BY <1>4, <2>1 DEF Job, Stage
      <3>2. JobOK(count, Reported, Permitted, ledger, shop.cancelled)
        BY <1>3, <1>4, <2>1, <3>1 DEF JobOK
      <3> QED  BY <2>1, <3>1, <3>2 DEF Sound, AfterItems
    <2>2. CASE ~(j.pay.financial = "paid" /\ j.user # NoOne)
      BY <1>2, <1>3, <1>4, <2>2, AfterGrantsIsSound DEF AfterItems
    <2> QED  BY <2>1, <2>2
  <1>8. Sound(after, Reported, Permitted, ledger, shop.cancelled)
    BY <1>6, <1>7
  <1>9. ItemsAllowed
    <2>1. job[p].next \in Status \cup {Keep}
      BY <1>2 DEF Job
    <2> QED  BY <1>2, <1>3, <1>5, <2>1 DEF ItemsAllowed, OrdersTypeOK
  <1>11. l \in Line
    BY <1>3 DEF Permitted
  <1>10. /\ order' \in OrderRow /\ rows' \in 0..MaxRows /\ linked' \subseteq Line /\ refs' \subseteq Line
         /\ order'.financial \in Reported \cup {"pending"} /\ (order'.cancelled => shop.cancelled)
    BY <1>2, <1>5, <1>11, AccountsOfOrders DEF OrdersInv, OrdersTypeOK, CancelledInShopifyFirst
  <1> QED  BY <1>5, <1>8, <1>9, <1>10, QuietKeepsInv

-----------------------------------------------------------------------------
(* The credits: the only steps that post to the ledger.                    *)

\* What a reversal needs to have been granted.
GrantOf(r, entries) ==
    \E g \in entries :
        /\ g.reason = IF r.reason = "pack_purchase_reversal" THEN "pack_purchase"
                                                             ELSE "order_bonus"
        /\ g.ref = OrderRef(Head(r.ref))
        /\ g.user = r.user

LEMMA GrantAdds ==
    ASSUME NEW u, NEW n, NEW reason, NEW ref, Grant(u, n, reason, ref)
    PROVE  /\ ledger \subseteq ledger'
           /\ \A r \in ledger' \ ledger : r.reason = reason /\ r.ref = ref /\ r.user = u
  BY DEF Grant, Post, ledgerVars

LEMMA RevokeAdds ==
    ASSUME NEW u, NEW n, NEW reason, NEW ref, Revoke(u, n, reason, ref)
    PROVE  /\ ledger \subseteq ledger'
           /\ \A r \in ledger' \ ledger : r.reason = reason /\ r.ref = ref /\ r.user = u
  BY DEF Revoke, Post, ledgerVars

LEMMA PostingKeepsInv ==
    ASSUME OrdersInv, NEW p \in Proc, NEW j, UNCHANGED <<shopVars, dbVars, catalogueVars>>,
           [LedgerNext]_ledgerVars, ledger \subseteq ledger',
           Become(p, j), Sound(j, Reported, Permitted, ledger, shop.cancelled),
           \A r \in ledger' \ ledger :
                /\ r.reason \in {"order_bonus", "pack_purchase"} => WasPaid
                /\ r.reason \in ReversalReason => GrantOf(r, ledger)
    PROVE  OrdersInv'
  <1>1. UNCHANGED <<shop, sent, order, rows, items, linked, refs, catalogueVars>>
    BY DEF shopVars, dbVars
  <1>2. Reported' = Reported /\ Permitted' = Permitted /\ WasPaid' = WasPaid
    BY <1>1 DEF WasPaid, Reported, TakenAsPaid, Permitted, catalogueVars
  <1>3. OrdersTypeOK /\ shop \in Payload /\ shop.cancelled \in BOOLEAN
    BY DEF OrdersInv, OrdersTypeOK, Payload
  <1>4. Sound(j, Reported', Permitted', ledger', shop'.cancelled)
    BY <1>1, <1>2, <1>3, SoundStays
  <1>5. /\ job' \in [Proc -> Job \cup {Idle}]
        /\ \A q \in Proc : Sound(job'[q], Reported', Permitted', ledger', shop'.cancelled)
    BY <1>1, <1>2, <1>3, <1>4, HandlersKeep DEF Become
  <1>6. OrdersTypeOK'
    BY <1>1, <1>3, <1>5 DEF OrdersTypeOK, CatalogueTypeOK, catalogueVars
  <1>7. LedgerInv'
    BY LedgerInvStep DEF OrdersInv
  <1>8. NothingBeforePayment'
    BY <1>1, <1>2 DEF OrdersInv, NothingBeforePayment, TakenAsPaid, catalogueVars
  <1>9. ReversalFollowsGrant'
    BY DEF OrdersInv, ReversalFollowsGrant, GrantOf
  <1>10. PacksAreNotProduced' /\ CancelledInShopifyFirst'
    BY <1>1 DEF OrdersInv, PacksAreNotProduced, CancelledInShopifyFirst, catalogueVars
  <1> QED  BY <1>1, <1>2, <1>5, <1>6, <1>7, <1>8, <1>9, <1>10 DEF OrdersInv

LEMMA CountUnitsKeepsInv ==
    ASSUME OrdersInv, NEW p \in Proc, CountUnits(p)
    PROVE  OrdersInv'
  <1> DEFINE there == {l \in Line : ItemOf(p, l) # Absent}
             units == {l \in there \ mapped : ~Digital(l)}
             j == [job[p] EXCEPT !.at = "bonus", !.packs = there \cap mapped, !.todo = units]
             after == IF there = {} THEN AfterGrants(job[p]) ELSE j
  <1>1. job[p].at = "count" /\ job[p] # Idle /\ Become(p, after)
    BY DEF CountUnits, Idle
  <1>2. job[p] \in Job /\ JobOK(job[p], Reported, Permitted, ledger, shop.cancelled) /\ OrdersTypeOK
    BY <1>1, JobFacts
  <1>3. /\ job[p].op \in {"ingest", "link"} /\ job[p].user \in User /\ WasPaid
        /\ job[p].row # 0 /\ job[p].pay.financial \in Reported \cup {"pending"}
    BY <1>1, <1>2 DEF JobOK, WasPaid
  <1>4. j \in Job /\ j.op = job[p].op /\ j.at = "bonus" /\ j.user = job[p].user
        /\ j.pay = job[p].pay /\ j.row = job[p].row
    BY <1>2 DEF Job, Stage
  <1> HIDE DEF j
  <1>5. Sound(j, Reported, Permitted, ledger, shop.cancelled)
    BY <1>2, <1>3, <1>4 DEF JobOK, Sound, WasPaid
  <1>6. Sound(AfterGrants(job[p]), Reported, Permitted, ledger, shop.cancelled)
    BY <1>2, <1>3, AfterGrantsIsSound
  <1> QED  BY <1>1, <1>5, <1>6, ThinkingKeepsInv DEF CountUnits

\* An order's grants refer to it, and their amounts are those of some lines.
LEMMA OrderGrants ==
    ASSUME OrdersInv, NEW p \in Proc, job[p] # Idle, job[p].at \in {"bonus", "pack"}
    PROVE  /\ job[p] \in Job /\ JobOK(job[p], Reported, Permitted, ledger, shop.cancelled) /\ OrdersTypeOK
           /\ job[p].op \in {"ingest", "link"} /\ job[p].user \in User /\ WasPaid
           /\ job[p].row # 0 /\ job[p].pay.financial \in Reported \cup {"pending"}
           /\ OrderRef(job[p].row) \in Ref
  <1>1. job[p] \in Job /\ JobOK(job[p], Reported, Permitted, ledger, shop.cancelled) /\ OrdersTypeOK
    BY JobFacts
  <1>2. job[p].op \in {"ingest", "link"} /\ job[p].user \in User /\ WasPaid /\ job[p].row # 0
        /\ job[p].pay.financial \in Reported \cup {"pending"}
    BY <1>1 DEF JobOK, WasPaid
  <1>3. job[p].row \in 1..MaxRows
    BY <1>1, <1>2, OrderBounds DEF Job
  <1> QED  BY <1>1, <1>2, <1>3, OrderEntries

LEMMA GrantBonusPosts ==
    ASSUME OrdersInv, NEW p \in Proc, GrantBonus(p)
    PROVE  OrdersInv' /\ [LedgerNext]_ledgerVars
  <1> DEFINE units == job[p].todo
             n == CreditsPerUnit * Cardinality(units)
             j == [job[p] EXCEPT !.at = "pack"]
  <1>1. job[p].at = "bonus" /\ job[p] # Idle /\ Become(p, j)
    BY DEF GrantBonus, Idle
  <1>2. /\ job[p] \in Job /\ JobOK(job[p], Reported, Permitted, ledger, shop.cancelled) /\ OrdersTypeOK
        /\ job[p].op \in {"ingest", "link"} /\ job[p].user \in User /\ WasPaid
        /\ job[p].row # 0 /\ job[p].pay.financial \in Reported \cup {"pending"}
        /\ OrderRef(job[p].row) \in Ref
    BY <1>1, OrderGrants
  <1>3. j \in Job /\ j.op = job[p].op /\ j.at = "pack" /\ j.user = job[p].user
        /\ j.pay = job[p].pay /\ j.row = job[p].row
    BY <1>2 DEF Job, Stage
  <1> HIDE DEF j
  <1>4. Sound(j, Reported, Permitted, ledger, shop.cancelled)
    BY <1>2, <1>3 DEF JobOK, Sound, WasPaid
  <1>5. CASE units # {} /\ Grant(job[p].user, n, "order_bonus", OrderRef(job[p].row))
    <2>1. units \in SUBSET Line
      BY <1>2 DEF Job
    <2>2. n \in Amount
      BY <1>5, <2>1, OrderEntries
    <2> HIDE DEF n
    <2>3. LedgerNext
      BY <1>2, <1>5, <2>2 DEF LedgerNext, GrantReason
    <2>4. /\ ledger \subseteq ledger'
          /\ \A r \in ledger' \ ledger : r.reason = "order_bonus"
      BY <1>5, GrantAdds
    <2>5. "order_bonus" \notin ReversalReason
      BY DEF ReversalReason
    <2>6. UNCHANGED <<shopVars, dbVars, catalogueVars>>
      BY DEF GrantBonus
    <2> QED  BY <1>1, <1>2, <1>4, <2>3, <2>4, <2>5, <2>6, PostingKeepsInv
  <1>6. CASE UNCHANGED ledgerVars
    BY <1>1, <1>4, <1>6, ThinkingKeepsInv DEF GrantBonus
  <1> QED  BY <1>5, <1>6 DEF GrantBonus

LEMMA GrantPackPosts ==
    ASSUME OrdersInv, NEW p \in Proc, GrantPack(p)
    PROVE  OrdersInv' /\ [LedgerNext]_ledgerVars
  <1> DEFINE S == job[p].packs
             n == CreditsPerPack * Cardinality(S)
  <1>1. job[p].at = "pack" /\ job[p] # Idle /\ Become(p, AfterGrants(job[p]))
    BY DEF GrantPack, Idle
  <1>2. /\ job[p] \in Job /\ JobOK(job[p], Reported, Permitted, ledger, shop.cancelled) /\ OrdersTypeOK
        /\ job[p].op \in {"ingest", "link"} /\ job[p].user \in User /\ WasPaid
        /\ job[p].row # 0 /\ job[p].pay.financial \in Reported \cup {"pending"}
        /\ OrderRef(job[p].row) \in Ref
    BY <1>1, OrderGrants
  <1>3. Sound(AfterGrants(job[p]), Reported, Permitted, ledger, shop.cancelled)
    BY <1>2, AfterGrantsIsSound
  <1>4. CASE S # {} /\ Grant(job[p].user, n, "pack_purchase", OrderRef(job[p].row))
    <2>1. S \in SUBSET Line
      BY <1>2 DEF Job
    <2>2. n \in Amount
      BY <1>4, <2>1, OrderEntries
    <2> HIDE DEF n
    <2>3. LedgerNext
      BY <1>2, <1>4, <2>2 DEF LedgerNext, GrantReason
    <2>4. /\ ledger \subseteq ledger'
          /\ \A r \in ledger' \ ledger : r.reason = "pack_purchase"
      BY <1>4, GrantAdds
    <2>5. "pack_purchase" \notin ReversalReason
      BY DEF ReversalReason
    <2>6. UNCHANGED <<shopVars, dbVars, catalogueVars>>
      BY DEF GrantPack
    <2> QED  BY <1>1, <1>2, <1>3, <2>3, <2>4, <2>5, <2>6, PostingKeepsInv
  <1>5. CASE UNCHANGED ledgerVars
    BY <1>1, <1>3, <1>5, ThinkingKeepsInv DEF GrantPack
  <1> QED  BY <1>4, <1>5 DEF GrantPack

\* The account that a grant went to, read from the grant's own row.
LEMMA GranteeFacts ==
    ASSUME LedgerTypeOK, NEW reason, NEW row
    PROVE  /\ Grantee(reason, row) \in User \cup {NoOne}
           /\ Grantee(reason, row) # NoOne =>
                Granted(ledger, reason, row, Grantee(reason, row))
  <1> DEFINE g == CHOOSE r \in ledger : r.reason = reason /\ r.ref = OrderRef(row)
  <1>1. CASE Posted(reason, OrderRef(row))
    <2>1. g \in ledger /\ g.reason = reason /\ g.ref = OrderRef(row)
      BY <1>1 DEF Posted
    <2> HIDE DEF g
    <2>2. g.user \in User
      BY <2>1 DEF LedgerTypeOK, Row
    <2>3. Grantee(reason, row) = g.user
      BY <1>1 DEF Grantee, g
    <2> QED  BY <2>1, <2>2, <2>3 DEF Granted
  <1>2. CASE ~Posted(reason, OrderRef(row))
    BY <1>2 DEF Grantee
  <1> QED  BY <1>1, <1>2

LEMMA ReadGrantsKeepsInv ==
    ASSUME OrdersInv, NEW p \in Proc, ReadGrants(p)
    PROVE  OrdersInv'
  <1> DEFINE bonus == Grantee("order_bonus", job[p].row)
             pack == Grantee("pack_purchase", job[p].row)
             there == {l \in job[p].todo :
                         /\ ItemOf(p, l) # Absent
                         /\ IF l \in mapped THEN pack # NoOne ELSE bonus # NoOne /\ ~Digital(l)}
             j == [job[p] EXCEPT !.at = "revoke", !.todo = there,
                                 !.packs = there \cap mapped, !.bonusTo = bonus, !.packTo = pack]
             after == IF there = {} THEN AfterClawback(job[p]) ELSE j
  <1>1. job[p].at = "claw" /\ job[p] # Idle /\ Become(p, after)
    BY DEF ReadGrants, Idle
  <1>2. job[p] \in Job /\ JobOK(job[p], Reported, Permitted, ledger, shop.cancelled) /\ OrdersTypeOK
    BY <1>1, JobFacts
  <1>3. job[p].op # "sync" /\ job[p].row # 0 /\ job[p].pay.financial \in Reported \cup {"pending"}
        /\ (job[p].op = "link" => job[p].user \in User)
    BY <1>1, <1>2 DEF JobOK
  <1>4. LedgerTypeOK
    BY DEF OrdersInv, LedgerInv
  <1>5. /\ bonus \in User \cup {NoOne} /\ pack \in User \cup {NoOne}
        /\ bonus # NoOne => Granted(ledger, "order_bonus", job[p].row, bonus)
        /\ pack # NoOne => Granted(ledger, "pack_purchase", job[p].row, pack)
    BY <1>4, GranteeFacts
  <1>6. there \subseteq Line
        /\ \A l \in there : IF l \in mapped THEN pack # NoOne ELSE bonus # NoOne
    BY <1>2 DEF Job
  <1> HIDE DEF there, bonus, pack
  <1>7. j \in Job /\ j.op = job[p].op /\ j.at = "revoke" /\ j.todo = there /\ j.row = job[p].row
        /\ j.pay = job[p].pay /\ j.bonusTo = bonus /\ j.packTo = pack /\ j.user = job[p].user
        /\ j.packs = there \cap mapped
    BY <1>2, <1>5, <1>6 DEF Job, Stage
  <1> HIDE DEF j
  <1>8. \A l \in there : Reversible(j, l, ledger)
    BY <1>5, <1>6, <1>7 DEF Reversible
  <1>9. there # {} => Sound(j, Reported, Permitted, ledger, shop.cancelled)
    BY <1>3, <1>7, <1>8 DEF JobOK, Sound
  <1>10. Sound(AfterClawback(job[p]), Reported, Permitted, ledger, shop.cancelled)
    BY <1>2, <1>3, AfterClawbackIsSound
  <1>11. Sound(after, Reported, Permitted, ledger, shop.cancelled)
    BY <1>9, <1>10
  <1> QED  BY <1>1, <1>11, ThinkingKeepsInv DEF ReadGrants

LEMMA ReverseItemPosts ==
    ASSUME OrdersInv, NEW p \in Proc, ReverseItem(p)
    PROVE  OrdersInv' /\ [LedgerNext]_ledgerVars
  <1> DEFINE l == Current(p)
             j == [job[p] EXCEPT !.todo = @ \ {l}]
             after == IF j.todo = {} THEN AfterClawback(j) ELSE j
  <1>1. job[p].at = "revoke" /\ job[p] # Idle /\ Become(p, after)
        /\ UNCHANGED <<shopVars, dbVars, catalogueVars>>
    BY DEF ReverseItem, Idle
  <1>2. job[p] \in Job /\ JobOK(job[p], Reported, Permitted, ledger, shop.cancelled) /\ OrdersTypeOK
    BY <1>1, JobFacts
  <1>3. /\ job[p].op # "sync" /\ job[p].row # 0 /\ job[p].pay.financial \in Reported \cup {"pending"}
        /\ (job[p].op = "link" => job[p].user \in User)
        /\ job[p].todo # {} /\ \A k \in job[p].todo : Reversible(job[p], k, ledger)
    BY <1>1, <1>2 DEF JobOK
  <1>4. l \in job[p].todo /\ l \in Line
    BY <1>2, <1>3, MinIsMember, LinesAreNumbered DEF Current, Job
  <1>5. j \in Job /\ j.op = job[p].op /\ j.at = "revoke" /\ j.todo = job[p].todo \ {l}
        /\ j.row = job[p].row /\ j.pay = job[p].pay /\ j.user = job[p].user
        /\ j.bonusTo = job[p].bonusTo /\ j.packTo = job[p].packTo /\ j.packs = job[p].packs
    BY <1>1, <1>2 DEF Job
  <1>6. \/ /\ l \in j.packs
           /\ Revoke(j.packTo, CreditsPerPack, "pack_purchase_reversal", ItemRef(j.row, l))
        \/ /\ l \notin j.packs
           /\ Revoke(j.bonusTo, CreditsPerUnit, "order_bonus_reversal", ItemRef(j.row, l))
        \/ UNCHANGED ledgerVars
    BY DEF ReverseItem
  <1> HIDE DEF j, l
  <1>7. Sound(after, Reported, Permitted, ledger, shop.cancelled)
    <2>1. CASE j.todo = {}
      BY <1>3, <1>5, <2>1, AfterClawbackIsSound
    <2>2. CASE j.todo # {}
      <3>1. \A k \in j.todo : Reversible(j, k, ledger)
        BY <1>3, <1>5 DEF Reversible
      <3> QED  BY <1>3, <1>5, <2>2, <3>1 DEF JobOK, Sound
    <2> QED  BY <2>1, <2>2
  <1>8. j.row \in 1..MaxRows
    BY <1>3, <1>5, OrderBounds DEF Job
  <1>9. ItemRef(j.row, l) \in Ref /\ OrderRef(Head(ItemRef(j.row, l))) = OrderRef(j.row)
    BY <1>4, <1>8, OrderEntries DEF ItemRef
  <1>10. LedgerTypeOK
    BY DEF OrdersInv, LedgerInv
  <1>11. CASE /\ l \in j.packs
              /\ Revoke(j.packTo, CreditsPerPack, "pack_purchase_reversal", ItemRef(j.row, l))
    <2>1. PICK g \in ledger : /\ g.reason = "pack_purchase" /\ g.ref = OrderRef(j.row)
                              /\ g.user = j.packTo
      BY <1>3, <1>4, <1>5, <1>11 DEF Reversible, Granted
    <2>2. j.packTo \in User
      BY <1>10, <2>1 DEF LedgerTypeOK, Row
    <2>3. LedgerNext
      BY <1>9, <1>11, <2>2, OrderEntries DEF LedgerNext, ReversalReason
    <2>4. /\ ledger \subseteq ledger'
          /\ \A r \in ledger' \ ledger : /\ r.reason = "pack_purchase_reversal"
                                         /\ r.ref = ItemRef(j.row, l) /\ r.user = j.packTo
      BY <1>11, RevokeAdds
    <2>5. \A r \in ledger' \ ledger : GrantOf(r, ledger)
      BY <1>9, <2>1, <2>4 DEF GrantOf
    <2> QED  BY <1>1, <1>7, <2>3, <2>4, <2>5, PostingKeepsInv
  <1>12. CASE /\ l \notin j.packs
              /\ Revoke(j.bonusTo, CreditsPerUnit, "order_bonus_reversal", ItemRef(j.row, l))
    <2>1. PICK g \in ledger : /\ g.reason = "order_bonus" /\ g.ref = OrderRef(j.row)
                              /\ g.user = j.bonusTo
      BY <1>3, <1>4, <1>5, <1>12 DEF Reversible, Granted
    <2>2. j.bonusTo \in User
      BY <1>10, <2>1 DEF LedgerTypeOK, Row
    <2>3. LedgerNext
      BY <1>9, <1>12, <2>2, OrderEntries DEF LedgerNext, ReversalReason
    <2>4. /\ ledger \subseteq ledger'
          /\ \A r \in ledger' \ ledger : /\ r.reason = "order_bonus_reversal"
                                         /\ r.ref = ItemRef(j.row, l) /\ r.user = j.bonusTo
      BY <1>12, RevokeAdds
    <2>5. \A r \in ledger' \ ledger : GrantOf(r, ledger)
      BY <1>9, <2>1, <2>4 DEF GrantOf
    <2> QED  BY <1>1, <1>7, <2>3, <2>4, <2>5, PostingKeepsInv
  <1>13. CASE UNCHANGED ledgerVars
    BY <1>1, <1>7, <1>13, ThinkingKeepsInv
  <1> QED  BY <1>6, <1>11, <1>12, <1>13

-----------------------------------------------------------------------------
(* Shopify: its changes of the order, and those that the code asks for.    *)

LEMMA NotifyKeepsInv ==
    ASSUME OrdersInv, NEW s \in Payload, Notify(s), shop.cancelled => s.cancelled,
           UNCHANGED <<dbVars, catalogueVars, ledgerVars>>,
           \/ job' = job
           \/ \E p \in Proc : \E j : /\ Become(p, j)
                                     /\ Sound(j, Reported, Permitted, ledger, s.cancelled)
    PROVE  OrdersInv'
  <1>1. /\ shop' = s /\ sent' = sent \cup {s} /\ UNCHANGED <<order, rows, items, linked, refs>>
        /\ ledger' = ledger /\ UNCHANGED <<catalogue, packs, mapped, asPack, asGoods>>
    BY DEF Notify, dbVars, ledgerVars, catalogueVars
  <1>2. OrdersTypeOK /\ s.cancelled \in BOOLEAN
    BY DEF OrdersInv, Payload
  <1>3. Reported \subseteq Reported' /\ (WasPaid => WasPaid')
    BY <1>1 DEF Reported, WasPaid
  <1>4. Permitted \subseteq Permitted'
    BY <1>1, <1>3, PermittedGrows
  <1>5. \A j : Sound(j, Reported, Permitted, ledger, s.cancelled) =>
                Sound(j, Reported', Permitted', ledger', shop'.cancelled)
    BY <1>1, <1>2, <1>3, <1>4, SoundStays
  <1>6. \/ job' = job
        \/ \E p \in Proc : \E j : /\ job' = [job EXCEPT ![p] = j]
                                  /\ Sound(j, Reported', Permitted', ledger', shop'.cancelled)
    BY <1>5 DEF Become
  <1>7. /\ job' \in [Proc -> Job \cup {Idle}]
        /\ \A q \in Proc : Sound(job'[q], Reported', Permitted', ledger', shop'.cancelled)
    BY <1>1, <1>3, <1>4, <1>6, HandlersKeep
  <1>8. OrdersTypeOK'
    BY <1>1, <1>2, <1>7 DEF OrdersTypeOK, CatalogueTypeOK
  <1>9. LedgerInv'
    BY LedgerInvStep DEF OrdersInv
  <1>10. \A pay \in sent' : pay.cancelled => shop'.cancelled
    BY <1>1 DEF OrdersInv
  <1>11. NothingBeforePayment' /\ PacksAreNotProduced'
    <2>1. ItemsAllowed
      BY <1>1 DEF OrdersInv, OrdersTypeOK, ItemsAllowed
    <2> QED  BY <1>1, <1>3, <2>1, ItemsStayAllowed DEF OrdersInv, NothingBeforePayment
  <1>12. ReversalFollowsGrant' /\ CancelledInShopifyFirst'
    BY <1>1 DEF OrdersInv, ReversalFollowsGrant, CancelledInShopifyFirst
  <1>13. order'.financial \in Reported' \cup {"pending"}
    BY <1>1, <1>3 DEF OrdersInv
  <1> QED  BY <1>7, <1>8, <1>9, <1>10, <1>11, <1>12, <1>13 DEF OrdersInv

\* What Shopify makes of a refund and of a cancellation.
LEMMA ShopTypes ==
    ASSUME shop \in Payload
    PROVE  /\ \A S \in SUBSET Line : /\ Refunded(S) \in Payload
                                     /\ Refunded(S).cancelled = shop.cancelled
           /\ \A refund \in BOOLEAN : /\ CancelledShop(refund) \in Payload
                                      /\ CancelledShop(refund).cancelled
           /\ \A f \in {"paid", "expired"} : /\ [shop EXCEPT !.financial = f] \in Payload
                                            /\ [shop EXCEPT !.financial = f].cancelled = shop.cancelled
  <1>1. shop.financial \in Financial /\ shop.refunded \in SUBSET Line
    BY DEF Payload
  <1>2. ASSUME NEW S \in SUBSET Line
        PROVE  Refunded(S) \in Payload /\ Refunded(S).cancelled = shop.cancelled
    <2>1. (IF shop.financial \notin {"paid", "partially_refunded"} THEN shop.financial
           ELSE IF shop.refunded \cup S = Line THEN "refunded" ELSE "partially_refunded")
          \in Financial
      BY <1>1 DEF Financial
    <2>2. shop.refunded \cup S \in SUBSET Line
      BY <1>1
    <2> QED  BY <2>1, <2>2 DEF Refunded, Payload
  <1>3. ASSUME NEW refund \in BOOLEAN
        PROVE  CancelledShop(refund) \in Payload /\ CancelledShop(refund).cancelled
    <2> DEFINE paid == shop.financial \in {"paid", "partially_refunded"}
               financial == CASE shop.financial = "pending" -> "voided"
                              [] paid /\ refund -> "refunded"
                              [] OTHER -> shop.financial
               refunded == IF paid /\ refund THEN Line ELSE shop.refunded
    <2>1. financial \in Financial /\ refunded \in SUBSET Line
      BY <1>1 DEF Financial
    <2>2. CancelledShop(refund) = [shop EXCEPT !.cancelled = TRUE, !.financial = financial,
                                               !.refunded = refunded]
      BY DEF CancelledShop
    <2> HIDE DEF financial, refunded
    <2> QED  BY <2>1, <2>2 DEF Payload
  <1> QED  BY <1>2, <1>3 DEF Payload, Financial, Unclear

LEMMA ShopChangesKeepsInv ==
    ASSUME OrdersInv, ShopChanges
    PROVE  OrdersInv'
  <1>1. shop \in Payload
    BY DEF OrdersInv, OrdersTypeOK
  <1>2. UNCHANGED <<dbVars, catalogueVars, ledgerVars>> /\ job' = job
    BY DEF ShopChanges
  <1>3. PICK s \in Payload : Notify(s) /\ (shop.cancelled => s.cancelled)
    BY <1>1, ShopTypes DEF ShopChanges
  <1> QED  BY <1>2, <1>3, NotifyKeepsInv

LEMMA CallShopifyKeepsInv ==
    ASSUME OrdersInv, NEW p \in Proc, CallShopify(p)
    PROVE  OrdersInv'
  <1>1. job[p].op = "cancel" /\ job[p] # Idle
    BY DEF CallShopify, At, Idle
  <1>2. job[p] \in Job /\ JobOK(job[p], Reported, Permitted, ledger, shop.cancelled) /\ OrdersTypeOK
    BY <1>1, JobFacts
  <1>3. shop \in Payload /\ UNCHANGED <<dbVars, catalogueVars, ledgerVars>> /\ job[p].todo \in SUBSET Line
    BY <1>2 DEF OrdersTypeOK, CallShopify, Job
  <1>4. ASSUME NEW at \in {"mark", "mark_all"}, NEW cancelled, at = "mark_all" => cancelled
        PROVE  Sound([job[p] EXCEPT !.at = at], Reported, Permitted, ledger, cancelled)
    <2> DEFINE j == [job[p] EXCEPT !.at = at]
    <2>1. j \in Job /\ j.op = "cancel" /\ j.at = at /\ j.row = job[p].row /\ j.pay = job[p].pay
      BY <1>1, <1>2 DEF Job, Stage
    <2> HIDE DEF j
    <2>2. JobOK(j, Reported, Permitted, ledger, cancelled)
      BY <1>1, <1>2, <1>4, <2>1 DEF JobOK
    <2> QED  BY <2>1, <2>2 DEF Sound, j
  <1>5. CASE \E refund \in BOOLEAN : CancelOrder(refund)
                /\ Become(p, [job[p] EXCEPT !.at = "mark_all"])
    <2>1. PICK refund \in BOOLEAN : Notify(CancelledShop(refund))
      BY <1>5 DEF CancelOrder
    <2>2. CancelledShop(refund) \in Payload /\ CancelledShop(refund).cancelled
      BY <1>3, ShopTypes
    <2> QED  BY <1>3, <1>4, <1>5, <2>1, <2>2, NotifyKeepsInv
  <1>6. CASE /\ RefundLineItems(job[p].todo)
             /\ Become(p, [job[p] EXCEPT !.at = "mark"])
    <2>1. /\ Refunded(job[p].todo) \in Payload
          /\ Refunded(job[p].todo).cancelled = shop.cancelled
      BY <1>3, ShopTypes
    <2> QED  BY <1>3, <1>4, <1>6, <2>1, NotifyKeepsInv DEF RefundLineItems
  <1> QED  BY <1>5, <1>6 DEF CallShopify

-----------------------------------------------------------------------------
(* The administrators' requests and the deletion.                          *)

\* A handler that starts by reading, and keeps nothing yet.
LEMMA StartIsSound ==
    ASSUME OrdersTypeOK, NEW op \in Op \ {"link"}, order.row # 0 \/ op = "sync",
           NEW at \in {"shopify", "shopify_all", "remove", "claw", "gather"},
           at = "claw" => op # "sync",
           NEW todo \in SUBSET Line, NEW reported, NEW permitted, NEW entries, NEW cancelled
    PROVE  Sound(Start(op, at, todo), reported, permitted, entries, cancelled)
  <1> DEFINE s == Start(op, at, todo)
  <1>1. at \in Stage
    BY DEF Stage
  <1>2. s \in Job /\ s.op = op /\ s.at = at /\ s.row = order.row /\ s.pay = NoPayload
    BY <1>1, StartType
  <1> HIDE DEF s
  <1>3. JobOK(s, reported, permitted, entries, cancelled)
    BY <1>2, NoPayloadType DEF JobOK
  <1> QED  BY <1>2, <1>3 DEF Sound, s

LEMMA CancelKeepsInv ==
    ASSUME OrdersInv, NEW p \in Proc, NEW S \in SUBSET Line, Cancel(p, S)
    PROVE  OrdersInv'
  <1>1. PICK at \in {"shopify", "shopify_all"} : Become(p, Start("cancel", at, S))
    BY DEF Cancel
  <1>2. Sound(Start("cancel", at, S), Reported, Permitted, ledger, shop.cancelled)
    BY StartIsSound DEF OrdersInv, Cancel, Request, Op
  <1> QED  BY <1>1, <1>2, ThinkingKeepsInv DEF Cancel

LEMMA DeleteOrderKeepsInv ==
    ASSUME OrdersInv, NEW p \in Proc, DeleteOrder(p)
    PROVE  OrdersInv'
  <1>1. PICK at \in {"remove", "claw"} : Become(p, Start("delete", at, Present))
    BY DEF DeleteOrder
  <1>2. Sound(Start("delete", at, Present), Reported, Permitted, ledger, shop.cancelled)
    BY StartIsSound DEF OrdersInv, DeleteOrder, Op, Present
  <1> QED  BY <1>1, <1>2, ThinkingKeepsInv DEF DeleteOrder

LEMMA RemoveOrderKeepsInv ==
    ASSUME OrdersInv, NEW p \in Proc, RemoveOrder(p)
    PROVE  OrdersInv'
  <1>1. UNCHANGED <<shop, sent, ledgerVars, rows, catalogueVars>> /\ order' = NoOrder
        /\ items' = [l \in Line |-> Absent] /\ linked' = {} /\ refs' = {} /\ Become(p, Idle)
    BY DEF RemoveOrder, shopVars
  <1>2. order' \in OrderRow /\ order'.financial = "pending" /\ ~order'.cancelled
    BY <1>1, OrderBounds DEF NoOrder, OrderRow, Financial
  <1>3. rows' \in 0..MaxRows /\ linked' \subseteq Line /\ refs' \subseteq Line /\ ItemsAllowed
    BY <1>1 DEF OrdersInv, OrdersTypeOK, ItemsAllowed
  <1>4. Sound(Idle, Reported, Permitted, ledger, shop.cancelled)
    BY DEF Sound
  <1> QED  BY <1>1, <1>2, <1>3, <1>4, QuietKeepsInv

LEMMA TransitionKeepsInv ==
    ASSUME OrdersInv, NEW p \in Proc, NEW l \in Line, NEW to \in Status, Transition(p, l, to)
    PROVE  OrdersInv'
  <1> DEFINE s == Start("transition", "write", {l})
             j == [s EXCEPT !.next = to]
  <1>1. OrdersTypeOK /\ items[l] \in Status /\ order.row # 0
        /\ to \in TransitionsFor(items[l], SoldAsAccessory(l)) /\ SoldAsAccessory(l) \in BOOLEAN
    BY DEF OrdersInv, OrdersTypeOK, Transition, Request, SoldAsAccessory
  <1>2. <<l, items[l]>> \in Permitted
    BY <1>1 DEF OrdersInv, PacksAreNotProduced, NothingBeforePayment, Permitted, Transition
  <1>3. <<l, to>> \in Permitted
    BY <1>1, <1>2, TransitionAllowed
  <1>4. s \in Job /\ s.op = "transition" /\ s.at = "write" /\ s.todo = {l} /\ s.pay = NoPayload
        /\ s.row = order.row
    BY <1>1, StartType DEF Op, Stage
  <1> HIDE DEF s
  <1>5. j \in Job /\ j.op = "transition" /\ j.at = "write" /\ j.todo = {l} /\ j.pay = NoPayload
        /\ j.row = order.row /\ j.next = to
    BY <1>4 DEF Job
  <1>6. Become(p, j)
    BY DEF Transition, s
  <1> HIDE DEF j
  <1>7. to # Keep
    BY DEF Keep, Status, EarlyAuto, Advanced, Clawback
  <1>8. Sound(j, Reported, Permitted, ledger, shop.cancelled)
    BY <1>1, <1>3, <1>5, <1>7, NoPayloadType DEF JobOK, Sound
  <1> QED  BY <1>6, <1>8, ThinkingKeepsInv DEF Transition

LEMMA WriteTransitionKeepsInv ==
    ASSUME OrdersInv, NEW p \in Proc, WriteTransition(p)
    PROVE  OrdersInv'
  <1>1. job[p].op = "transition" /\ job[p].at = "write" /\ job[p] # Idle
    BY DEF WriteTransition, At, Idle
  <1>2. job[p] \in Job /\ JobOK(job[p], Reported, Permitted, ledger, shop.cancelled) /\ OrdersTypeOK
    BY <1>1, JobFacts
  <1>3. job[p].row # 0 /\ job[p].todo \in SUBSET Line /\ job[p].next \in Status \cup {Keep}
    BY <1>1, <1>2 DEF JobOK, Job
  <1>4. PICK l \in Line : job[p].todo = {l} /\ job[p].next # Keep
                          /\ <<l, job[p].next>> \in Permitted
    BY <1>1, <1>2 DEF JobOK
  <1>5. Current(p) = l
    BY <1>4, MinOfOne, LinesAreNumbered DEF Current
  <1>6. PICK j \in {Claw(job[p], job[p].todo), Idle} : Become(p, j)
    BY DEF WriteTransition
  <1>7. Sound(j, Reported, Permitted, ledger, shop.cancelled)
    BY <1>2, <1>3, <1>6, ClawIsSound DEF Sound
  <1>8. UNCHANGED <<shop, sent, ledgerVars, order, rows, linked, refs, catalogueVars>>
        /\ items' = [items EXCEPT ![l] = job[p].next]
    BY <1>5 DEF WriteTransition, shopVars
  <1>9. ItemsAllowed
    BY <1>2, <1>3, <1>4, <1>8 DEF ItemsAllowed, OrdersTypeOK
  <1>10. /\ order' \in OrderRow /\ rows' \in 0..MaxRows /\ linked' \subseteq Line /\ refs' \subseteq Line
         /\ order'.financial \in Reported \cup {"pending"} /\ (order'.cancelled => shop.cancelled)
    BY <1>2, <1>8 DEF OrdersInv, OrdersTypeOK, CancelledInShopifyFirst
  <1> QED  BY <1>6, <1>7, <1>8, <1>9, <1>10, QuietKeepsInv

LEMMA MarkCancelledKeepsInv ==
    ASSUME OrdersInv, NEW p \in Proc, MarkCancelled(p)
    PROVE  OrdersInv'
  <1>1. job[p].op = "cancel" /\ job[p].at \in {"mark", "mark_all"} /\ job[p] # Idle
    BY DEF MarkCancelled, At, Idle
  <1>2. job[p] \in Job /\ JobOK(job[p], Reported, Permitted, ledger, shop.cancelled) /\ OrdersTypeOK
    BY <1>1, JobFacts
  <1>3. job[p].row # 0 /\ job[p].todo \in SUBSET Line
        /\ (job[p].at = "mark_all" => shop.cancelled)
    BY <1>1, <1>2 DEF JobOK, Job
  <1>4. UNCHANGED <<shop, sent, ledgerVars, rows, linked, refs, catalogueVars>>
        /\ items' = [l \in Line |-> IF l \in job[p].todo THEN "cancelled" ELSE items[l]]
        /\ order' = [order EXCEPT !.cancelled = @ \/ job[p].at = "mark_all"]
        /\ Become(p, Claw(job[p], job[p].todo))
    BY DEF MarkCancelled, shopVars
  <1>5. Sound(Claw(job[p], job[p].todo), Reported, Permitted, ledger, shop.cancelled)
    BY <1>2, <1>3, ClawIsSound
  <1>6. \A l \in Line : <<l, "cancelled">> \in Permitted
    BY DEF Permitted, Terminal, Clawback, Status
  <1>7. ItemsAllowed
    BY <1>2, <1>4, <1>6 DEF ItemsAllowed, OrdersTypeOK, Status, Clawback
  <1>8. order \in OrderRow /\ (order.cancelled \/ job[p].at = "mark_all") \in BOOLEAN
    BY <1>2 DEF OrdersTypeOK, OrderRow
  <1>9. /\ order' \in OrderRow /\ order'.financial = order.financial
        /\ (order'.cancelled => order.cancelled \/ job[p].at = "mark_all")
    BY <1>4, <1>8 DEF OrderRow
  <1>10. /\ rows' \in 0..MaxRows /\ linked' \subseteq Line /\ refs' \subseteq Line
         /\ order'.financial \in Reported \cup {"pending"} /\ (order'.cancelled => shop.cancelled)
    BY <1>2, <1>3, <1>4, <1>9 DEF OrdersInv, OrdersTypeOK, CancelledInShopifyFirst
  <1> QED  BY <1>4, <1>5, <1>7, <1>9, <1>10, QuietKeepsInv

LEMMA LinkUserKeepsInv ==
    ASSUME OrdersInv, NEW p \in Proc, NEW u \in User, LinkUser(p, u)
    PROVE  OrdersInv'
  <1> DEFINE s == Start("link", "write", {})
             read == [NoPayload EXCEPT !.financial = order.financial]
             j == [s EXCEPT !.user = u, !.pay = read]
  <1>1. OrdersTypeOK /\ order.row # 0 /\ order.financial \in Financial
    BY DEF OrdersInv, OrdersTypeOK, OrderRow, LinkUser, Request
  <1>2. read \in Payload /\ read.financial = order.financial
    BY <1>1 DEF NoPayload, Payload
  <1> HIDE DEF read
  <1>3. s \in Job /\ s.op = "link" /\ s.at = "write" /\ s.row = order.row
    BY <1>1, StartType DEF Op, Stage
  <1> HIDE DEF s
  <1>4. j \in Job /\ j.op = "link" /\ j.at = "write" /\ j.row = order.row /\ j.user = u
        /\ j.pay = read
    BY <1>2, <1>3 DEF Job
  <1>5. Become(p, j)
    BY DEF LinkUser, s, read
  <1> HIDE DEF j
  <1>6. Sound(j, Reported, Permitted, ledger, shop.cancelled)
    BY <1>1, <1>2, <1>4 DEF OrdersInv, JobOK, Sound
  <1> QED  BY <1>5, <1>6, ThinkingKeepsInv DEF LinkUser

LEMMA WriteUserKeepsInv ==
    ASSUME OrdersInv, NEW p \in Proc, WriteUser(p)
    PROVE  OrdersInv'
  <1> DEFINE j == [job[p] EXCEPT !.at = "count"]
             after == IF job[p].pay.financial = "paid" THEN j ELSE Idle
  <1>1. job[p].op = "link" /\ job[p] # Idle
    BY DEF WriteUser, At, Idle
  <1>2. job[p] \in Job /\ JobOK(job[p], Reported, Permitted, ledger, shop.cancelled) /\ OrdersTypeOK
    BY <1>1, JobFacts
  <1>3. job[p].user \in User /\ job[p].row # 0 /\ job[p].pay.financial \in Reported \cup {"pending"}
    BY <1>1, <1>2 DEF JobOK
  <1>4. j \in Job /\ j.op = "link" /\ j.at = "count" /\ j.row = job[p].row
        /\ j.user = job[p].user /\ j.pay = job[p].pay
    BY <1>1, <1>2 DEF Job, Stage
  <1>5. UNCHANGED <<shop, sent, ledgerVars, rows, items, linked, refs, catalogueVars>>
        /\ order' = [order EXCEPT !.user = job[p].user] /\ Become(p, after)
    BY DEF WriteUser, shopVars
  <1> HIDE DEF j
  <1>6. Sound(after, Reported, Permitted, ledger, shop.cancelled)
    BY <1>3, <1>4 DEF JobOK, Sound
  <1>7. /\ order' \in OrderRow /\ order'.financial = order.financial
        /\ order'.cancelled = order.cancelled
    BY <1>2, <1>3, <1>5 DEF OrdersTypeOK, OrderRow
  <1>8. /\ rows' \in 0..MaxRows /\ linked' \subseteq Line /\ refs' \subseteq Line /\ ItemsAllowed
        /\ order'.financial \in Reported \cup {"pending"} /\ (order'.cancelled => shop.cancelled)
    BY <1>2, <1>5, <1>7
    DEF OrdersInv, OrdersTypeOK, ItemsAllowed, CancelledInShopifyFirst
  <1> QED  BY <1>5, <1>6, <1>7, <1>8, QuietKeepsInv

LEMMA ReadDeadKeepsInv ==
    ASSUME OrdersInv, NEW p \in Proc, ReadDead(p)
    PROVE  OrdersInv'
  <1> DEFINE undone == {l \in Line : ItemOf(p, l) \in Clawback}
  <1>1. job[p].op = "link" /\ job[p] # Idle
    BY DEF ReadDead, At, Idle
  <1>2. job[p] \in Job /\ JobOK(job[p], Reported, Permitted, ledger, shop.cancelled) /\ OrdersTypeOK
    BY <1>1, JobFacts
  <1>3. job[p].row # 0 /\ undone \in SUBSET Line
    BY <1>1, <1>2 DEF JobOK
  <1>4. PICK j \in {Claw(job[p], undone), Idle} : Become(p, j)
    BY DEF ReadDead
  <1>5. Sound(j, Reported, Permitted, ledger, shop.cancelled)
    BY <1>2, <1>3, <1>4, ClawIsSound DEF Sound
  <1> QED  BY <1>4, <1>5, ThinkingKeepsInv DEF ReadDead

\* A generation is linked to an item, or no longer.
LEMMA LinkGenerationKeepsInv ==
    ASSUME OrdersInv, NEW p \in Proc, NEW l \in Line,
           LinkGeneration(p, l) \/ UnlinkGeneration(p, l)
    PROVE  OrdersInv'
  <1>1. UNCHANGED <<shop, sent, ledgerVars, order, rows, items, refs, catalogueVars>> /\ job' = job
        /\ (linked' = linked \cup {l} \/ linked' = linked \ {l})
    BY DEF LinkGeneration, UnlinkGeneration, shopVars
  <1>2. /\ order' \in OrderRow /\ rows' \in 0..MaxRows /\ linked' \subseteq Line /\ refs' \subseteq Line /\ ItemsAllowed
        /\ order'.financial \in Reported \cup {"pending"} /\ (order'.cancelled => shop.cancelled)
    BY <1>1 DEF OrdersInv, OrdersTypeOK, ItemsAllowed, CancelledInShopifyFirst
  <1> QED  BY <1>1, <1>2, QuietKeepsInv

-----------------------------------------------------------------------------
(* The generation's status, carried over to the items.                     *)

LEMMA GenerationEndsKeepsInv ==
    ASSUME OrdersInv, NEW p \in Proc, NEW status, GenerationEnds(p, status)
    PROVE  OrdersInv'
  <1>1. Become(p, Start("sync", "gather", {}))
    BY DEF GenerationEnds
  <1>2. Sound(Start("sync", "gather", {}), Reported, Permitted, ledger, shop.cancelled)
    BY StartIsSound DEF OrdersInv, Op
  <1> QED  BY <1>1, <1>2, ThinkingKeepsInv DEF GenerationEnds

LEMMA GatherLinkedKeepsInv ==
    ASSUME OrdersInv, NEW p \in Proc, GatherLinked(p)
    PROVE  OrdersInv'
  <1> DEFINE next == AutoEarly(order.financial, art, FALSE)
             stale == {l \in linked : items[l] \in EarlyAuto \ {next}}
             s == Start("sync", "write", stale)
             j == [s EXCEPT !.next = next]
  <1>1. OrdersTypeOK /\ order.financial \in Financial
    BY DEF OrdersInv, OrdersTypeOK, OrderRow
  <1>2. /\ next \in Status
        /\ order.financial \notin {"paid"} \cup Unclear => next \in {"refunded", "cancelled", "pending"}
    BY <1>1, AutoEarlyFacts
  <1>3. stale \in SUBSET Line /\ \A l \in stale : items[l] \in EarlyAuto
    BY <1>1 DEF OrdersTypeOK
  <1>4. Become(p, IF stale = {} THEN Idle ELSE j)
    BY DEF GatherLinked
  <1> HIDE DEF next, stale
  <1>5. s \in Job /\ s.op = "sync" /\ s.at = "write" /\ s.todo = stale /\ s.pay = NoPayload
    BY <1>1, <1>3, StartType DEF Op, Stage
  <1> HIDE DEF s
  <1>6. j \in Job /\ j.op = "sync" /\ j.at = "write" /\ j.todo = stale /\ j.pay = NoPayload
        /\ j.next = next
    BY <1>2, <1>5 DEF Job
  <1> HIDE DEF j
  <1>7. \A l \in stale : l \in asGoods
    <2>1. \A status \in EarlyAuto : status \notin Terminal \cup {Absent}
      BY DEF EarlyAuto, Terminal, Clawback, Absent
    <2> QED  BY <1>3, <2>1 DEF OrdersInv, PacksAreNotProduced
  <1>8. ~TakenAsPaid => next \in Clawback \cup {"pending"}
    BY <1>2, NotTakenAsPaid DEF OrdersInv, Clawback
  <1>9. \A l \in stale : <<l, next>> \in Permitted
    BY <1>2, <1>3, <1>7, <1>8 DEF Permitted
  <1>10. next # Keep
    BY <1>2 DEF Keep, Status, EarlyAuto, Advanced, Clawback
  <1>11. stale # {} => Sound(j, Reported, Permitted, ledger, shop.cancelled)
    BY <1>6, <1>9, <1>10, NoPayloadType DEF JobOK, Sound
  <1>12. Sound(IF stale = {} THEN Idle ELSE j, Reported, Permitted, ledger, shop.cancelled)
    BY <1>11 DEF Sound
  <1> QED  BY <1>4, <1>12, ThinkingKeepsInv DEF GatherLinked

LEMMA SyncLineKeepsInv ==
    ASSUME OrdersInv, NEW p \in Proc, SyncLine(p)
    PROVE  OrdersInv'
  <1> DEFINE l == Current(p)
             left == job[p].todo \ {l}
             j == [job[p] EXCEPT !.todo = left]
             after == IF left = {} THEN Idle ELSE j
  <1>1. job[p].op = "sync" /\ job[p].at = "write" /\ job[p] # Idle
    BY DEF SyncLine, At, Idle
  <1>2. job[p] \in Job /\ JobOK(job[p], Reported, Permitted, ledger, shop.cancelled) /\ OrdersTypeOK
    BY <1>1, JobFacts
  <1>3. /\ job[p].todo # {} /\ job[p].todo \in SUBSET Line
        /\ job[p].next # Keep /\ job[p].next \in Status \cup {Keep}
        /\ \A k \in job[p].todo : <<k, job[p].next>> \in Permitted
        /\ job[p].pay.financial \in Reported \cup {"pending"}
    BY <1>1, <1>2 DEF JobOK, Job
  <1>4. l \in job[p].todo /\ l \in Line
    BY <1>3, MinIsMember, LinesAreNumbered DEF Current
  <1>5. j \in Job /\ j.op = "sync" /\ j.at = "write" /\ j.todo = left /\ j.next = job[p].next
        /\ j.pay = job[p].pay
    BY <1>1, <1>2 DEF Job
  <1>6. UNCHANGED <<shop, sent, ledgerVars, order, rows, linked, refs, catalogueVars>>
        /\ items' = [items EXCEPT ![l] = job[p].next] /\ Become(p, after)
    BY DEF SyncLine, shopVars
  <1> HIDE DEF j, l
  <1>7. Sound(after, Reported, Permitted, ledger, shop.cancelled)
    BY <1>3, <1>5 DEF JobOK, Sound
  <1>8. ItemsAllowed
    BY <1>2, <1>3, <1>4, <1>6 DEF ItemsAllowed, OrdersTypeOK
  <1>9. /\ order' \in OrderRow /\ rows' \in 0..MaxRows /\ linked' \subseteq Line /\ refs' \subseteq Line
        /\ order'.financial \in Reported \cup {"pending"} /\ (order'.cancelled => shop.cancelled)
    BY <1>2, <1>6 DEF OrdersInv, OrdersTypeOK, CancelledInShopifyFirst
  <1> QED  BY <1>6, <1>7, <1>8, <1>9, QuietKeepsInv

-----------------------------------------------------------------------------
(* Every step.                                                             *)

LEMMA OrdersInvInit == Init => OrdersInv
  <1> SUFFICES ASSUME Init PROVE OrdersInv
    OBVIOUS
  <1>1. shop \in Payload /\ ~shop.cancelled
    BY DEF Init, NoPayload, Payload, Financial, Unclear
  <1>2. order = NoOrder /\ ledger = {} /\ sent = {shop} /\ items = [l \in Line |-> Absent]
        /\ job = [p \in Proc |-> Idle] /\ rows = 0 /\ linked = {} /\ refs = {}
    BY DEF Init, LedgerInit
  <1>3. NoOrder \in OrderRow /\ NoOrder.financial = "pending" /\ ~NoOrder.cancelled
    BY OrderBounds DEF NoOrder, OrderRow, Financial
  <1>4. OrdersTypeOK
    <2>1. CatalogueTypeOK
      BY KindsOfLines DEF CatalogueTypeOK, Init
    <2> QED  BY <1>1, <1>2, <1>3, <2>1, OrderBounds DEF OrdersTypeOK
  <1>5. LedgerInv
    BY LedgerInvInit DEF Init
  <1>6. \A p \in Proc : Sound(job[p], Reported, Permitted, ledger, shop.cancelled)
    BY <1>2 DEF Sound
  <1>7. NothingBeforePayment /\ ReversalFollowsGrant /\ PacksAreNotProduced
    BY <1>2 DEF NothingBeforePayment, ReversalFollowsGrant, PacksAreNotProduced
  <1> QED
    BY <1>1, <1>2, <1>3, <1>4, <1>5, <1>6, <1>7 DEF OrdersInv, CancelledInShopifyFirst

LEMMA ShopDeletesKeepsInv ==
    ASSUME OrdersInv, ShopDeletes
    PROVE  OrdersInv'
  <1>1. UNCHANGED <<shop, sent, order, rows, items, linked, ledgerVars, job, refs, catalogueVars>>
    BY DEF ShopDeletes, dbVars
  <1>2. /\ order' \in OrderRow /\ rows' \in 0..MaxRows /\ linked' \subseteq Line /\ refs' \subseteq Line /\ ItemsAllowed
        /\ order'.financial \in Reported \cup {"pending"} /\ (order'.cancelled => shop.cancelled)
    BY <1>1 DEF OrdersInv, OrdersTypeOK, ItemsAllowed, CancelledInShopifyFirst
  <1> QED  BY <1>1, <1>2, QuietKeepsInv

\* The catalogue may change in any way: nothing a handler carries depends on it.
LEMMA RegistrationKeepsInv ==
    ASSUME OrdersInv, Registration
    PROVE  OrdersInv' /\ UNCHANGED ledgerVars
  <1>1. CatalogueTypeOK /\ refs \subseteq Line
    BY DEF OrdersInv, OrdersTypeOK
  <1>2. /\ UNCHANGED <<shopVars, order, rows, items, linked, asPack, asGoods, job, ledgerVars>>
        /\ refs' \subseteq Line /\ CatalogueTypeOK'
    <2>1. ASSUME NEW l \in Line, NEW kind \in Kinds[l], UpsertProduct(l, kind)
          PROVE  <1>2!1 /\ <1>2!2
      <3>1. kind \in {"art", "accessory", "digital", "unknown"}
        BY KindsOfLines
      <3> QED  BY <1>1, <2>1, <3>1 DEF UpsertProduct, CatalogueTypeOK, dbVars
    <2>2. ASSUME NEW S \in SUBSET Line, SetCreditPackProduct(S)
          PROVE  <1>2!1 /\ <1>2!2
      BY <1>1, <2>2 DEF SetCreditPackProduct, CatalogueTypeOK, dbVars
    <2>3. ASSUME NEW l \in Line, SetCreditPackVariants(l)
          PROVE  <1>2!1 /\ <1>2!2
      BY <1>1, <2>3 DEF SetCreditPackVariants, CatalogueTypeOK, dbVars
    <2>4. ASSUME NEW l \in Line, DeleteProduct(l)
          PROVE  <1>2!1 /\ <1>2!2
      BY <1>1, <2>4 DEF DeleteProduct, CatalogueTypeOK
    <2> QED  BY <2>1, <2>2, <2>3, <2>4 DEF Registration
  <1>3. UNCHANGED <<shop, sent, ledgerVars, order, rows, items, linked>> /\ job' = job
        /\ asPack \subseteq asPack' /\ asGoods \subseteq asGoods'
    BY <1>2 DEF shopVars
  <1> QED  BY <1>2, <1>3, CatalogueStepKeepsInv

LEMMA FailKeepsInv ==
    ASSUME OrdersInv, NEW p \in Proc, Fail(p)
    PROVE  OrdersInv'
  <1>1. Sound(Idle, Reported, Permitted, ledger, shop.cancelled)
    BY DEF Sound
  <1> QED  BY <1>1, ThinkingKeepsInv DEF Fail

LEMMA IngestionStep ==
    ASSUME OrdersInv, NEW p \in Proc, Ingestion(p)
    PROVE  OrdersInv' /\ UNCHANGED ledgerVars
  <1>1. CASE \E pay \in sent, u \in {Buyer, NoOne} : IngestOrder(p, pay, u)
    BY <1>1, IngestOrderKeepsInv DEF IngestOrder
  <1>2. CASE \E u \in {Buyer, NoOne} : Resync(p, u) \/ Backfill(p, u)
    <2>1. FetchOrderById \subseteq sent /\ FetchAllOrders \subseteq sent
      BY DEF FetchOrderById, FetchAllOrders, OrdersInv, OrdersTypeOK
    <2>2. \E pay \in sent, u \in {Buyer, NoOne} : IngestOrder(p, pay, u)
      BY <1>2, <2>1 DEF Resync, Backfill
    <2> QED  BY <2>2, IngestOrderKeepsInv DEF IngestOrder
  <1>3. CASE ReadLine(p)
    BY <1>3, ReadLineKeepsInv DEF ReadLine
  <1>4. CASE WriteLine(p)
    BY <1>4, WriteLineKeepsInv DEF WriteLine
  <1> QED  BY <1>1, <1>2, <1>3, <1>4 DEF Ingestion

LEMMA CreditsStep ==
    ASSUME OrdersInv, NEW p \in Proc, Credits(p)
    PROVE  OrdersInv' /\ [LedgerNext]_ledgerVars
  <1>1. CASE CountUnits(p)
    BY <1>1, CountUnitsKeepsInv DEF CountUnits
  <1>2. CASE GrantBonus(p)
    BY <1>2, GrantBonusPosts
  <1>3. CASE GrantPack(p)
    BY <1>3, GrantPackPosts
  <1>4. CASE ReadGrants(p)
    BY <1>4, ReadGrantsKeepsInv DEF ReadGrants
  <1>5. CASE ReverseItem(p)
    BY <1>5, ReverseItemPosts
  <1> QED  BY <1>1, <1>2, <1>3, <1>4, <1>5 DEF Credits

LEMMA AdministrationStep ==
    ASSUME OrdersInv, NEW p \in Proc, Administration(p)
    PROVE  OrdersInv' /\ UNCHANGED ledgerVars
  <1>1. CASE \E l \in Line, to \in Status : Transition(p, l, to)
    BY <1>1, TransitionKeepsInv DEF Transition
  <1>2. CASE WriteTransition(p)
    BY <1>2, WriteTransitionKeepsInv DEF WriteTransition
  <1>3. CASE \E S \in SUBSET Line : Cancel(p, S)
    BY <1>3, CancelKeepsInv DEF Cancel
  <1>4. CASE CallShopify(p)
    BY <1>4, CallShopifyKeepsInv DEF CallShopify
  <1>5. CASE MarkCancelled(p)
    BY <1>5, MarkCancelledKeepsInv DEF MarkCancelled
  <1>6. CASE \E u \in User : LinkUser(p, u)
    BY <1>6, LinkUserKeepsInv DEF LinkUser
  <1>7. CASE WriteUser(p)
    BY <1>7, WriteUserKeepsInv DEF WriteUser
  <1>8. CASE ReadDead(p)
    BY <1>8, ReadDeadKeepsInv DEF ReadDead
  <1>9. CASE \E l \in Line : LinkGeneration(p, l) \/ UnlinkGeneration(p, l)
    BY <1>9, LinkGenerationKeepsInv DEF LinkGeneration, UnlinkGeneration
  <1> QED  BY <1>1, <1>2, <1>3, <1>4, <1>5, <1>6, <1>7, <1>8, <1>9 DEF Administration

LEMMA OrdersInvNext ==
    ASSUME OrdersInv, [Next]_vars
    PROVE  OrdersInv' /\ [LedgerNext]_ledgerVars
  <1>1. CASE ShopChanges
    BY <1>1, ShopChangesKeepsInv DEF ShopChanges
  <1>2. CASE ShopDeletes
    BY <1>2, ShopDeletesKeepsInv DEF ShopDeletes
  <1>11. CASE Registration
    BY <1>11, RegistrationKeepsInv
  <1>3. ASSUME NEW p \in Proc, Ingestion(p) \/ Credits(p) \/ Administration(p)
        PROVE  OrdersInv' /\ [LedgerNext]_ledgerVars
    BY <1>3, IngestionStep, CreditsStep, AdministrationStep
  <1>4. ASSUME NEW p \in Proc, DeleteOrder(p)
        PROVE  OrdersInv' /\ [LedgerNext]_ledgerVars
    BY <1>4, DeleteOrderKeepsInv DEF DeleteOrder
  <1>5. ASSUME NEW p \in Proc, RemoveOrder(p)
        PROVE  OrdersInv' /\ [LedgerNext]_ledgerVars
    BY <1>5, RemoveOrderKeepsInv DEF RemoveOrder
  <1>6. ASSUME NEW p \in Proc, NEW status \in Outcomes, GenerationEnds(p, status)
        PROVE  OrdersInv' /\ [LedgerNext]_ledgerVars
    BY <1>6, GenerationEndsKeepsInv DEF GenerationEnds
  <1>7. ASSUME NEW p \in Proc, GatherLinked(p)
        PROVE  OrdersInv' /\ [LedgerNext]_ledgerVars
    BY <1>7, GatherLinkedKeepsInv DEF GatherLinked
  <1>8. ASSUME NEW p \in Proc, SyncLine(p)
        PROVE  OrdersInv' /\ [LedgerNext]_ledgerVars
    BY <1>8, SyncLineKeepsInv DEF SyncLine
  <1>9. ASSUME NEW p \in Proc, Fail(p)
        PROVE  OrdersInv' /\ [LedgerNext]_ledgerVars
    BY <1>9, FailKeepsInv DEF Fail
  <1>10. CASE UNCHANGED vars
    <2>1. UNCHANGED <<shopVars, dbVars, catalogueVars, ledgerVars>> /\ job' = job
      BY <1>10 DEF vars, shopVars, dbVars, catalogueVars, ledgerVars
    <2> QED  BY <2>1, ThinkingKeepsInv
  <1> QED  BY <1>1, <1>2, <1>3, <1>4, <1>5, <1>6, <1>7, <1>8, <1>9, <1>10, <1>11 DEF Next

LEMMA OrdersInvariant == Spec => []OrdersInv
  <1>1. OrdersInv /\ [Next]_vars => OrdersInv'
    BY OrdersInvNext
  <1> QED  BY OrdersInvInit, <1>1, PTL DEF Spec

-----------------------------------------------------------------------------
\* The schema and the handlers: the order, its items, the payloads, and what a
\* handler carries from one step to the next keep their types.
THEOREM OrdersTypeCorrect == Spec => []OrdersTypeOK
  BY OrdersInvariant, PTL DEF OrdersInv

\* ingestShopifyOrder, grantOrderCredits, transitionItemStatus and
\* syncLinkedOrderItems: until Shopify has reported a payment nothing is granted
\* and no item leaves `pending', whatever handlers overlap, in any order.
THEOREM NothingComesBeforePayment == Spec => []NothingBeforePayment
  BY OrdersInvariant, PTL DEF OrdersInv

\* reverseCreditsForItems takes back from the account that was granted, however
\* often the order is linked to another between the grant and the reversal.
THEOREM ReversalsFollowGrants == Spec => []ReversalFollowsGrant
  BY OrdersInvariant, PTL DEF OrdersInv

\* ingestLineItem and VALID_TRANSITIONS: a credit pack is delivered or undone,
\* whatever transitions and generations it is asked to follow.
THEOREM PacksAreNeverProduced == Spec => []PacksAreNotProduced
  BY OrdersInvariant, PTL DEF OrdersInv

\* cancelOrderItems: the database never has an order as cancelled that is not
\* cancelled in Shopify, wherever the handler stops and whatever payload is late.
THEOREM ShopifyCancelsFirst == Spec => []CancelledInShopifyFirst
  BY OrdersInvariant, PTL DEF OrdersInv

\* The orders use the ledger only as CreditsService allows: every step of any
\* handler is one call of the service, or leaves its two tables alone.
THEOREM OrdersImplementLedger == Spec => LedgerSpec
  <1>1. Init => LedgerInit
    BY DEF Init
  <1>2. OrdersInv /\ [Next]_vars => [LedgerNext]_ledgerVars
    BY OrdersInvNext
  <1> QED  BY <1>1, <1>2, OrdersInvariant, PTL DEF Spec, LedgerSpec

\* So what the ledger promises holds of the orders: a webhook, a retry, a
\* backfill and a link that all pay for one order leave one row for its bonus
\* and one for its packs, and every balance is the sum of its account's rows.
THEOREM OrdersKeepTheLedger == Spec => [](OneRowPerReference /\ BalanceIsLedgerSum)
  BY OrdersImplementLedger, LedgerIdempotent, BalanceIsAlwaysTheSum, PTL
=============================================================================
