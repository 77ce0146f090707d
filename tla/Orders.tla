------------------------------- MODULE Orders -------------------------------
(***************************************************************************)
(* One Shopify order as OrdersService keeps it: the Order row, the status  *)
(* of its items, and the credits that paying for it grants and undoing it  *)
(* takes back.                                                             *)
(*                                                                         *)
(* Shopify is external.  Every change of the order there sends a webhook   *)
(* with the whole order as it then is; webhooks arrive late, twice or out  *)
(* of order, a failed job is tried again and a backfill ingests the same   *)
(* payloads, so an ingestion may take any payload ever sent.               *)
(*                                                                         *)
(* A process of Proc is one execution of a handler: a job of the queue, a  *)
(* backfill's turn, an administrator's request or the end of a generation. *)
(* Its actions are cut where the code awaits and reads or writes again.    *)
(*                                                                         *)
(* A line is one unit of a product of its own, the lines are those of the  *)
(* payload, and `art' is the status of the one generation that may be      *)
(* linked to them.  What a line sells is read from the catalogue, which    *)
(* the syncs and the administrators change meanwhile.                      *)
(***************************************************************************)
EXTENDS CreditLedger, Sequences

CONSTANTS
    Line,           \* the line items, numbered as in the payload
    Kinds,          \* what each line's product may be registered as
    Catalogues,     \* what they are registered as when the order is placed
    PackLines,      \* those whose products are then marked as credit packs
    Carries,        \* the lines whose properties name the generation
    Buyer,          \* the owner of the generation and of the checkout's e-mail
    NoOne,          \* no account
    Outcomes,       \* the statuses the generation may end in
    Proc,           \* the executions that can be under way at once
    CreditsPerPack, \* CreditPackVariant.creditAmount
    MaxRows,        \* bound: times the Order row may be created
    MaxJobs,        \* bound: handlers started, of any kind, and changes of the catalogue
    MaxShopEvents   \* bound: changes of the order in Shopify

ASSUME LinesAreNumbered == Line \subseteq Nat \ {0} /\ IsFiniteSet(Line) /\ Line # {}
ASSUME KindsOfLines ==
    /\ Kinds \in [Line -> SUBSET {"art", "accessory", "digital"}]
    /\ Catalogues \subseteq [Line -> {"art", "accessory", "digital", "unknown"}]
    /\ \A c \in Catalogues, l \in Line : c[l] \in Kinds[l] \cup {"unknown"}
    /\ PackLines \subseteq Line
ASSUME AccountsOfOrders == Buyer \in User /\ NoOne \notin User /\ Carries \subseteq Line
ASSUME OutcomesOfArt == Outcomes \subseteq {"completed", "failed"}
ASSUME PackGrants == CreditsPerPack \in Nat \ {0}
ASSUME OrderBounds == MaxRows \in Nat

CreditsPerUnit == 3

\* The references of the ledger: OrderItem ids and Order ids.
ItemRef(row, l) == <<row, l>>
OrderRef(row) == <<row>>

\* What the ledger is given: the amounts of some of the lines, and the ids.
ASSUME OrderEntries ==
    /\ \A S \in SUBSET Line : S # {} =>
            {CreditsPerUnit * Cardinality(S), CreditsPerPack * Cardinality(S)} \subseteq Amount
    /\ {CreditsPerUnit, CreditsPerPack} \subseteq Amount
    /\ \A row \in 1..MaxRows :
            OrderRef(row) \in Ref /\ \A l \in Line : ItemRef(row, l) \in Ref

VARIABLES
    shop,       \* the order in Shopify
    gone,       \* whether Shopify deleted it
    sent,       \* the payloads of the webhooks sent so far
    order,      \* the Order row; row 0 is none
    rows,       \* how many Order rows there have been
    items,      \* OrderItem.productionStatus of each line, or Absent
    linked,     \* the lines whose generationId is set
    refs,       \* the lines whose productRefId is set
    catalogue,  \* what each line's ProductReference says it is, or "unknown"
    packs,      \* the lines whose product is marked isCreditPack
    mapped,     \* the lines whose variant has a CreditPackVariant
    asPack,     \* history: lines ingested while their product was marked so
    asGoods,    \* history: lines ingested while it was not, or was unknown
    art,        \* Generation.status of that generation
    job,        \* what each process is doing
    started     \* how many handlers were started, for the bound only

shopVars == <<shop, gone, sent>>
dbVars == <<order, rows, items, linked, refs>>
catalogueVars == <<catalogue, packs, mapped, asPack, asGoods>>
vars == <<shop, gone, sent, order, rows, items, linked, refs, catalogue, packs, mapped,
          asPack, asGoods, art, job, started, balance, ledger>>

-----------------------------------------------------------------------------
Absent == "absent"
EarlyAuto == {"pending", "generating", "art_failed", "draft"}
Advanced == {"pre_production", "in_production", "printed", "on_hold", "shipped", "delivered"}
Clawback == {"cancelled", "refunded", "restocked"}
Terminal == {"delivered"} \cup Clawback
Cancellable == EarlyAuto \cup {"pre_production", "in_production", "printed"}
Status == EarlyAuto \cup Advanced \cup Clawback

\* financial_status: none of the statuses that the code names, or absent.
Unclear == {"expired", "none"}
Financial == {"pending", "paid", "partially_refunded", "refunded", "voided"} \cup Unclear
Payload == [financial : Financial, cancelled : BOOLEAN, refunded : SUBSET Line]

(***************************************************************************)
(* computeAutoEarlyStatus.  Only the payment and the art count: nothing    *)
(* here looks at cancelled_at, and what is not known to be unpaid is paid. *)
(***************************************************************************)
AutoEarly(financial, artStatus, isAccessory) ==
    CASE financial \in {"refunded", "partially_refunded"} -> "refunded"
      [] financial = "voided" -> "cancelled"
      [] financial = "pending" -> "pending"
      [] financial \in {"paid"} \cup Unclear ->
            CASE ~isAccessory /\ artStatus = "failed" -> "art_failed"
              [] ~isAccessory /\ artStatus = "processing" -> "generating"
              [] OTHER -> "draft"

\* Mutant of InitialStatus: a credit pack is a product like any other.
InitialStatusOfGoods(pay, l) ==
    AutoEarly(pay.financial, IF l \in Carries THEN art ELSE "none", catalogue[l] = "accessory")

\* The status a payload gives to a line, as ingestLineItem computes it from
\* what it finds in the catalogue: a product it does not find is neither an
\* accessory nor a pack.
InitialStatus(pay, l) ==
    LET auto == AutoEarly(pay.financial, IF l \in Carries THEN art ELSE "none",
                          catalogue[l] = "accessory")
    IN  IF l \in packs /\ auto \notin {"cancelled", "refunded"}
        THEN "delivered" ELSE auto

\* VALID_TRANSITIONS, and ACCESSORY_VALID_TRANSITIONS where it differs.
Undo == {"cancelled", "refunded"}
Transitions ==
    [pending        |-> Undo,
     generating     |-> Undo,
     art_failed     |-> Undo,
     draft          |-> Undo \cup {"pre_production", "on_hold"},
     pre_production |-> Undo \cup {"in_production", "on_hold"},
     in_production  |-> Undo \cup {"printed", "on_hold"},
     printed        |-> Undo \cup {"shipped", "on_hold"},
     shipped        |-> {"delivered", "refunded"},
     delivered      |-> {"refunded", "restocked"},
     on_hold        |-> Undo \cup {"pre_production", "in_production"},
     cancelled      |-> {},
     refunded       |-> {},
     restocked      |-> {}]
AccessoryTransitions ==
    [status \in Status |->
        CASE status \in {"draft", "pre_production", "in_production", "printed"} ->
                Undo \cup {"shipped", "on_hold"}
          [] status = "on_hold" -> Undo \cup {"draft"}
          [] OTHER -> Transitions[status]]

\* orderItemKind is "accessory", whatever else it may be.
SoldAsAccessory(l) == l \in refs \ packs /\ catalogue[l] = "accessory"
TransitionsFor(status, isAccessory) ==
    IF isAccessory THEN AccessoryTransitions[status] ELSE Transitions[status]

\* isDigitalTemplate: the line earns no bonus.
Digital(l) == l \in refs /\ catalogue[l] = "digital"

Present == {l \in Line : items[l] # Absent}
DeadLines(pay) ==
    IF pay.cancelled \/ pay.financial \in {"refunded", "voided"}
    THEN Line ELSE pay.refunded

-----------------------------------------------------------------------------
(***************************************************************************)
(* A job: the handler, the step it is at, and what it carries from the     *)
(* steps before.  `row' is the Order it read, `todo' the lines its current *)
(* loop has left, `next' the status it decided to write (or Keep), `new'   *)
(* whether it found no item, `known' whether it found the product, `packs' *)
(* the lines it found in the table of variants, `bonusTo' and `packTo' the *)
(* accounts that got the order's grants.                                   *)
(***************************************************************************)
Keep == "keep"
Idle == [op |-> "idle", at |-> "idle"]
Op == {"ingest", "delete", "transition", "cancel", "link", "sync", "reverse"}
Stage == {"read", "write", "count", "bonus", "pack", "dead", "claw", "revoke",
          "remove", "shopify", "shopify_all", "mark", "mark_all", "gather"}
NoPayload == [financial |-> "pending", cancelled |-> FALSE, refunded |-> {}]
Job == [op : Op, at : Stage, row : 0..MaxRows, pay : Payload, user : User \cup {NoOne},
        todo : SUBSET Line, next : Status \cup {Keep}, new : BOOLEAN, known : BOOLEAN,
        packs : SUBSET Line, bonusTo : User \cup {NoOne}, packTo : User \cup {NoOne}]
Start(op, at, todo) ==
    [op |-> op, at |-> at, row |-> order.row, pay |-> NoPayload, user |-> NoOne, todo |-> todo,
     next |-> Keep, new |-> FALSE, known |-> FALSE, packs |-> {},
     bonusTo |-> NoOne, packTo |-> NoOne]

\* Somebody asks for something, and a free process takes it up.
Ask ==
    /\ started < MaxJobs
    /\ started' = started + 1

Dispatch(p) ==
    /\ job[p] = Idle
    /\ Ask

Become(p, j) == job' = [job EXCEPT ![p] = j]
At(p, op, at) == job[p].op = op /\ job[p].at = at
Current(p) == Min(job[p].todo)
\* The process's rows are still there: the order was not deleted since.
Alive(p) == job[p].row = order.row
ItemOf(p, l) == IF Alive(p) THEN items[l] ELSE Absent

NoOrder == [row |-> 0, user |-> NoOne, financial |-> "pending", cancelled |-> FALSE]

Init ==
    /\ LedgerInit
    /\ shop \in {[NoPayload EXCEPT !.financial = f] : f \in {"pending", "paid"} \cup Unclear}
    /\ gone = FALSE
    /\ sent = {shop}
    /\ order = NoOrder
    /\ rows = 0
    /\ items = [l \in Line |-> Absent]
    /\ linked = {}
    /\ refs = {}
    /\ catalogue \in Catalogues
    /\ packs = {l \in PackLines : catalogue[l] # "unknown"}
    /\ mapped = packs
    /\ asPack = {}
    /\ asGoods = {}
    /\ art = "processing"
    /\ job = [p \in Proc |-> Idle]
    /\ started = 0

-----------------------------------------------------------------------------
(***************************************************************************)
(* Shopify: the payment or its expiry, refunds of some lines,              *)
(* cancellations with or without a refund.  `refunded' are the lines in    *)
(* its refunds[].                                                          *)
(***************************************************************************)
Notify(s) ==
    /\ ~gone
    /\ shop' = s
    /\ sent' = sent \cup {s}
    /\ UNCHANGED gone

Refunded(S) ==
    LET all == shop.refunded \cup S
    IN  [shop EXCEPT !.refunded = all,
                     !.financial = IF @ \notin {"paid", "partially_refunded"} THEN @
                                   ELSE IF all = Line THEN "refunded" ELSE "partially_refunded"]

CancelledShop(refund) ==
    LET paid == shop.financial \in {"paid", "partially_refunded"}
    IN  [shop EXCEPT !.cancelled = TRUE,
                     !.financial = CASE @ = "pending" -> "voided"
                                     [] paid /\ refund -> "refunded"
                                     [] OTHER -> @,
                     !.refunded = IF paid /\ refund THEN Line ELSE @]

\* The client's two writes; the second creates the refund that a first call
\* calculated, which changes nothing.
CancelOrder(refund) == Notify(CancelledShop(refund))
RefundLineItems(S) == Notify(Refunded(S))

\* Its reads: the order as it is now, and, for a backfill that works through
\* what it fetched, as it was at any moment.
FetchOrderById == IF gone THEN {} ELSE {shop}
FetchAllOrders == sent

ShopChanges ==
    /\ Cardinality(sent) <= MaxShopEvents
    /\ \/ /\ shop.financial \in {"pending"} \cup Unclear /\ ~shop.cancelled
          /\ Notify([shop EXCEPT !.financial = "paid"])
       \/ /\ shop.financial = "pending" /\ ~shop.cancelled
          /\ Notify([shop EXCEPT !.financial = "expired"])
       \/ \E S \in SUBSET (Line \ shop.refunded) :
            /\ S # {} /\ shop.financial \in {"paid", "partially_refunded"}
            /\ Notify(Refunded(S))
       \/ \E refund \in BOOLEAN :
            /\ ~shop.cancelled
            /\ Notify(CancelledShop(refund))
    /\ UNCHANGED <<dbVars, catalogueVars, art, job, started, ledgerVars>>

\* Shopify lets an order be deleted once it is over.
ShopDeletes ==
    /\ ~gone
    /\ shop.cancelled \/ shop.financial = "refunded"
    /\ gone' = TRUE
    /\ UNCHANGED <<shop, sent, dbVars, catalogueVars, art, job, started, ledgerVars>>

-----------------------------------------------------------------------------
(***************************************************************************)
(* What a handler goes on to do.                                           *)
(***************************************************************************)
\* The reversal is the last thing that a handler does, except a deletion.
Claw(j, S) == [Start("reverse", "claw", S) EXCEPT !.row = j.row]

AfterGrants(j) ==
    CASE j.op = "link" -> [j EXCEPT !.at = "dead"]
      [] j.op = "ingest" ->
            IF DeadLines(j.pay) = {} THEN Idle ELSE Claw(j, DeadLines(j.pay))

AfterClawback(j) == IF j.op = "delete" THEN [j EXCEPT !.at = "remove"] ELSE Idle

AfterItems(j) ==
    IF j.pay.financial = "paid" /\ j.user # NoOne THEN [j EXCEPT !.at = "count"]
                                                  ELSE AfterGrants(j)

(***************************************************************************)
(* ingestShopifyOrder, the upsert: the row takes whatever the payload      *)
(* says, however old it is; the account stays if none was resolved, and    *)
(* the payment and cancelledAt if the payload has none.  Which account is  *)
(* resolved depends on those there are by then: the buyer's, or none.      *)
(***************************************************************************)
IngestOrder(p, pay, u) ==
    /\ Dispatch(p)
    /\ \/ /\ order.row = 0 /\ rows < MaxRows
          /\ rows' = rows + 1
          /\ order' = [row |-> rows + 1, user |-> u, financial |-> pay.financial,
                       cancelled |-> pay.cancelled]
       \/ /\ order.row # 0
          /\ rows' = rows
          /\ order' = [order EXCEPT !.user = IF u = NoOne THEN @ ELSE u,
                                    !.financial = IF pay.financial = "none" THEN @
                                                  ELSE pay.financial,
                                    !.cancelled = @ \/ pay.cancelled]
    /\ Become(p, [Start("ingest", "read", Line)
                    EXCEPT !.row = order'.row, !.user = order'.user, !.pay = pay])
    /\ UNCHANGED <<shopVars, items, linked, refs, catalogueVars, art, ledgerVars>>

\* An administrator asks for one order again; a backfill goes over them all.
Resync(p, u) == order.row # 0 /\ \E pay \in FetchOrderById : IngestOrder(p, pay, u)
Backfill(p, u) == \E pay \in FetchAllOrders : IngestOrder(p, pay, u)

(***************************************************************************)
(* ingestLineItem: the reads, with the status they lead to, then the       *)
(* write, which throws (Fail) if the item came or went in between, or the  *)
(* product went.                                                           *)
(***************************************************************************)
ReadLine(p) ==
    /\ At(p, "ingest", "read")
    /\ LET l == Current(p)
           initial == InitialStatus(job[p].pay, l)
           existing == ItemOf(p, l)
           recompute == existing \in EarlyAuto \cup {Absent} \/ initial \in Undo
       IN  Become(p, [job[p] EXCEPT !.at = "write",
                                    !.next = IF recompute THEN initial ELSE Keep,
                                    !.new = existing = Absent,
                                    !.known = catalogue[l] # "unknown"])
    /\ asPack' = asPack \cup ({Current(p)} \cap packs)
    /\ asGoods' = asGoods \cup ({Current(p)} \ packs)
    /\ UNCHANGED <<shopVars, dbVars, catalogue, packs, mapped, art, started, ledgerVars>>

WriteLine(p) ==
    /\ At(p, "ingest", "write")
    /\ Alive(p)
    /\ LET l == Current(p)
           j == [job[p] EXCEPT !.todo = @ \ {l}, !.next = Keep, !.new = FALSE, !.known = FALSE]
       IN  /\ job[p].new <=> items[l] = Absent
           /\ job[p].known => catalogue[l] # "unknown"
           /\ refs' = IF job[p].known THEN refs \cup {l} ELSE refs
           /\ items' = IF job[p].next = Keep THEN items ELSE [items EXCEPT ![l] = job[p].next]
           /\ linked' = IF l \in Carries THEN linked \cup {l} ELSE linked
           /\ Become(p, IF j.todo = {} THEN AfterItems(j) ELSE [j EXCEPT !.at = "read"])
    /\ UNCHANGED <<shopVars, order, rows, catalogueVars, art, started, ledgerVars>>

(***************************************************************************)
(* grantOrderCredits: the items that are there are sorted once, by the     *)
(* table of variants and the template, then the two grants are posted,     *)
(* each in a transaction of its own whose failure is only logged.          *)
(***************************************************************************)
CountUnits(p) ==
    /\ job[p].at = "count"
    /\ LET there == {l \in Line : ItemOf(p, l) # Absent}
       IN  Become(p, IF there = {} THEN AfterGrants(job[p])
                     ELSE [job[p] EXCEPT !.at = "bonus", !.packs = there \cap mapped,
                                         !.todo = {l \in there \ mapped : ~Digital(l)}])
    /\ UNCHANGED <<shopVars, dbVars, catalogueVars, art, started, ledgerVars>>

GrantBonus(p) ==
    /\ job[p].at = "bonus"
    /\ \/ /\ job[p].todo # {}
          /\ Grant(job[p].user, CreditsPerUnit * Cardinality(job[p].todo), "order_bonus",
                   OrderRef(job[p].row))
       \/ UNCHANGED ledgerVars
    /\ Become(p, [job[p] EXCEPT !.at = "pack"])
    /\ UNCHANGED <<shopVars, dbVars, catalogueVars, art, started>>

GrantPack(p) ==
    /\ job[p].at = "pack"
    /\ \/ /\ job[p].packs # {}
          /\ Grant(job[p].user, CreditsPerPack * Cardinality(job[p].packs), "pack_purchase",
                   OrderRef(job[p].row))
       \/ UNCHANGED ledgerVars
    /\ Become(p, AfterGrants(job[p]))
    /\ UNCHANGED <<shopVars, dbVars, catalogueVars, art, started>>

(***************************************************************************)
(* reverseCreditsForItems: the grants and the items are read, then each    *)
(* item's part is taken back from the account that got the grant.          *)
(***************************************************************************)
\* Mutant of Grantee: the account that the order is linked to now.
OwnerNow(reason, row) == IF Posted(reason, OrderRef(row)) THEN order.user ELSE NoOne

Grantee(reason, row) ==
    IF Posted(reason, OrderRef(row))
    THEN (CHOOSE r \in ledger : r.reason = reason /\ r.ref = OrderRef(row)).user
    ELSE NoOne

ReadGrants(p) ==
    /\ job[p].at = "claw"
    /\ LET bonus == Grantee("order_bonus", job[p].row)
           pack == Grantee("pack_purchase", job[p].row)
           there == {l \in job[p].todo :
                        /\ ItemOf(p, l) # Absent
                        /\ IF l \in mapped THEN pack # NoOne ELSE bonus # NoOne /\ ~Digital(l)}
       IN  Become(p, IF there = {} THEN AfterClawback(job[p])
                     ELSE [job[p] EXCEPT !.at = "revoke", !.todo = there,
                                         !.packs = there \cap mapped, !.bonusTo = bonus, !.packTo = pack])
    /\ UNCHANGED <<shopVars, dbVars, catalogueVars, art, started, ledgerVars>>

ReverseItem(p) ==
    /\ job[p].at = "revoke"
    /\ LET l == Current(p)
           j == [job[p] EXCEPT !.todo = @ \ {l}]
       IN  /\ \/ /\ l \in j.packs
                 /\ Revoke(j.packTo, CreditsPerPack, "pack_purchase_reversal", ItemRef(j.row, l))
              \/ /\ l \notin j.packs
                 /\ Revoke(j.bonusTo, CreditsPerUnit, "order_bonus_reversal", ItemRef(j.row, l))
              \/ UNCHANGED ledgerVars
           /\ Become(p, IF j.todo = {} THEN AfterClawback(j) ELSE j)
    /\ UNCHANGED <<shopVars, dbVars, catalogueVars, art, started>>

(***************************************************************************)
(* deleteShopifyOrder.                                                     *)
(***************************************************************************)
DeleteOrder(p) ==
    /\ Dispatch(p)
    /\ gone
    /\ order.row # 0
    /\ Become(p, Start("delete", IF Present = {} THEN "remove" ELSE "claw", Present))
    /\ UNCHANGED <<shopVars, dbVars, catalogueVars, art, ledgerVars>>

RemoveOrder(p) ==
    /\ At(p, "delete", "remove")
    /\ Alive(p)
    /\ order' = NoOrder
    /\ items' = [l \in Line |-> Absent]
    /\ linked' = {}
    /\ refs' = {}
    /\ Become(p, Idle)
    /\ UNCHANGED <<shopVars, rows, catalogueVars, art, started, ledgerVars>>

-----------------------------------------------------------------------------
(***************************************************************************)
(* The administrators' requests.                                           *)
(***************************************************************************)
Request(p) ==
    /\ Dispatch(p)
    /\ order.row # 0

\* transitionItemStatus: the guard looks at the status it read, the update
\* writes by id.
Transition(p, l, to) ==
    /\ Request(p)
    /\ items[l] # Absent
    /\ to \in TransitionsFor(items[l], SoldAsAccessory(l))
    /\ Become(p, [Start("transition", "write", {l}) EXCEPT !.next = to])
    /\ UNCHANGED <<shopVars, dbVars, catalogueVars, art, ledgerVars>>

WriteTransition(p) ==
    /\ At(p, "transition", "write")
    /\ Alive(p)
    /\ items' = [items EXCEPT ![Current(p)] = job[p].next]
    /\ Become(p, IF job[p].next \in Clawback THEN Claw(job[p], job[p].todo) ELSE Idle)
    /\ UNCHANGED <<shopVars, order, rows, linked, refs, catalogueVars, art, started, ledgerVars>>

\* Mutant of Cancel: the database is written before Shopify has agreed.
CancelWithoutShopify(p, S) ==
    /\ Request(p)
    /\ S # {}
    /\ \A l \in S : items[l] \in Cancellable
    /\ LET whole == \A l \in Present \ S : items[l] \in Terminal
       IN  Become(p, Start("cancel", IF whole THEN "mark_all" ELSE "mark", S))
    /\ UNCHANGED <<shopVars, dbVars, catalogueVars, art, ledgerVars>>

(***************************************************************************)
(* cancelOrderItems: Shopify first, then the database, then the credits.   *)
(* If no other item is active the whole order is cancelled.                *)
(***************************************************************************)
Cancel(p, S) ==
    /\ Request(p)
    /\ S # {}
    /\ \A l \in S : items[l] \in Cancellable
    /\ LET whole == \A l \in Present \ S : items[l] \in Terminal
       IN  Become(p, Start("cancel", IF whole THEN "shopify_all" ELSE "shopify", S))
    /\ UNCHANGED <<shopVars, dbVars, catalogueVars, art, ledgerVars>>

CallShopify(p) ==
    /\ \/ /\ At(p, "cancel", "shopify_all")
          /\ ~shop.cancelled
          /\ \E refund \in BOOLEAN : CancelOrder(refund)
          /\ Become(p, [job[p] EXCEPT !.at = "mark_all"])
       \/ /\ At(p, "cancel", "shopify")
          /\ job[p].todo \cap shop.refunded = {}
          /\ RefundLineItems(job[p].todo)
          /\ Become(p, [job[p] EXCEPT !.at = "mark"])
    /\ UNCHANGED <<dbVars, catalogueVars, art, started, ledgerVars>>

MarkCancelled(p) ==
    /\ At(p, "cancel", "mark") \/ At(p, "cancel", "mark_all")
    /\ Alive(p)
    /\ items' = [l \in Line |-> IF l \in job[p].todo THEN "cancelled" ELSE items[l]]
    /\ order' = [order EXCEPT !.cancelled = @ \/ job[p].at = "mark_all"]
    /\ Become(p, Claw(job[p], job[p].todo))
    /\ UNCHANGED <<shopVars, rows, linked, refs, catalogueVars, art, started, ledgerVars>>

(***************************************************************************)
(* linkUserToOrder: whether the order was paid is read before the update;  *)
(* the grants are posted, and the items undone by now are reversed.        *)
(***************************************************************************)
LinkUser(p, u) ==
    /\ Request(p)
    /\ Become(p, [Start("link", "write", {}) EXCEPT
                    !.user = u, !.pay = [NoPayload EXCEPT !.financial = order.financial]])
    /\ UNCHANGED <<shopVars, dbVars, catalogueVars, art, ledgerVars>>

\* Mutant of WriteUser: the grants do not wait for the payment.
WriteUserAndGrant(p) ==
    /\ At(p, "link", "write")
    /\ Alive(p)
    /\ order' = [order EXCEPT !.user = job[p].user]
    /\ Become(p, [job[p] EXCEPT !.at = "count"])
    /\ UNCHANGED <<shopVars, rows, items, linked, refs, catalogueVars, art, started, ledgerVars>>

WriteUser(p) ==
    /\ At(p, "link", "write")
    /\ Alive(p)
    /\ order' = [order EXCEPT !.user = job[p].user]
    /\ Become(p, IF job[p].pay.financial = "paid" THEN [job[p] EXCEPT !.at = "count"] ELSE Idle)
    /\ UNCHANGED <<shopVars, rows, items, linked, refs, catalogueVars, art, started, ledgerVars>>

ReadDead(p) ==
    /\ At(p, "link", "dead")
    /\ LET undone == {l \in Line : ItemOf(p, l) \in Clawback}
       IN  Become(p, IF undone = {} THEN Idle
                     ELSE Claw(job[p], undone))
    /\ UNCHANGED <<shopVars, dbVars, catalogueVars, art, started, ledgerVars>>

\* linkGenerationToItem and unlinkGenerationFromItem; the generation must
\* belong to the order's account, if it has one.
LinkGeneration(p, l) ==
    /\ Request(p)
    /\ items[l] # Absent
    /\ order.user \in {Buyer, NoOne}
    /\ linked' = linked \cup {l}
    /\ UNCHANGED <<shopVars, order, rows, items, refs, catalogueVars, art, job, ledgerVars>>

UnlinkGeneration(p, l) ==
    /\ Request(p)
    /\ items[l] # Absent
    /\ linked' = linked \ {l}
    /\ UNCHANGED <<shopVars, order, rows, items, refs, catalogueVars, art, job, ledgerVars>>

(***************************************************************************)
(* The generation ends, and syncLinkedOrderItems carries its status over   *)
(* to the items that read as early; isAccessory is not passed.             *)
(***************************************************************************)
GenerationEnds(p, status) ==
    /\ Dispatch(p)
    /\ art = "processing"
    /\ art' = status
    /\ Become(p, Start("sync", "gather", {}))
    /\ UNCHANGED <<shopVars, dbVars, catalogueVars, ledgerVars>>

GatherLinked(p) ==
    /\ At(p, "sync", "gather")
    /\ LET next == AutoEarly(order.financial, art, FALSE)
           stale == {l \in linked : items[l] \in EarlyAuto \ {next}}
       IN  Become(p, IF stale = {} THEN Idle
                     ELSE [Start("sync", "write", stale) EXCEPT !.next = next])
    /\ UNCHANGED <<shopVars, dbVars, catalogueVars, art, started, ledgerVars>>

SyncLine(p) ==
    /\ At(p, "sync", "write")
    /\ Alive(p)
    /\ items' = [items EXCEPT ![Current(p)] = job[p].next]
    /\ LET left == job[p].todo \ {Current(p)}
       IN  Become(p, IF left = {} THEN Idle ELSE [job[p] EXCEPT !.todo = left])
    /\ UNCHANGED <<shopVars, order, rows, linked, refs, catalogueVars, art, started, ledgerVars>>

-----------------------------------------------------------------------------
(***************************************************************************)
(* The catalogue, which nobody locks while orders are ingested.  Nothing   *)
(* here depends on how many products are marked as packs.                  *)
(***************************************************************************)
\* A sync or an administrator registers a product, or writes its kind anew.
UpsertProduct(l, kind) ==
    /\ Ask
    /\ catalogue[l] # kind
    /\ catalogue' = [catalogue EXCEPT ![l] = kind]
    /\ UNCHANGED <<shopVars, dbVars, packs, mapped, asPack, asGoods, art, job, ledgerVars>>

\* setCreditPackProduct marks one product or none; the mappings stay.
SetCreditPackProduct(S) ==
    /\ Ask
    /\ Cardinality(S) <= 1 /\ \A l \in S : catalogue[l] # "unknown"
    /\ packs' = S
    /\ UNCHANGED <<shopVars, dbVars, catalogue, mapped, asPack, asGoods, art, job, ledgerVars>>

\* setCreditPackVariants maps a variant of a marked product, or no longer.
SetCreditPackVariants(l) ==
    /\ Ask
    /\ l \in packs
    /\ mapped' = IF l \in mapped THEN mapped \ {l} ELSE mapped \cup {l}
    /\ UNCHANGED <<shopVars, dbVars, catalogue, packs, asPack, asGoods, art, job, ledgerVars>>

\* hardDelete; the mappings go with the product, the items lose theirs.
DeleteProduct(l) ==
    /\ Ask
    /\ catalogue[l] # "unknown"
    /\ catalogue' = [catalogue EXCEPT ![l] = "unknown"]
    /\ packs' = packs \ {l}
    /\ mapped' = mapped \ {l}
    /\ refs' = refs \ {l}
    /\ UNCHANGED <<shopVars, order, rows, items, linked, asPack, asGoods, art, job, ledgerVars>>

\* A read or a write throws, Shopify refuses, or the process dies.  A job of
\* the queue is then tried again from its start: another ingestion.
Fail(p) ==
    /\ job[p] # Idle
    /\ Become(p, Idle)
    /\ UNCHANGED <<shopVars, dbVars, catalogueVars, art, started, ledgerVars>>

-----------------------------------------------------------------------------
Ingestion(p) ==
    \/ \E pay \in sent, u \in {Buyer, NoOne} : IngestOrder(p, pay, u)
    \/ \E u \in {Buyer, NoOne} : Resync(p, u) \/ Backfill(p, u)
    \/ ReadLine(p)
    \/ WriteLine(p)

Credits(p) ==
    \/ CountUnits(p)
    \/ GrantBonus(p)
    \/ GrantPack(p)
    \/ ReadGrants(p)
    \/ ReverseItem(p)

Administration(p) ==
    \/ \E l \in Line, to \in Status : Transition(p, l, to)
    \/ WriteTransition(p)
    \/ \E S \in SUBSET Line : Cancel(p, S)
    \/ CallShopify(p)
    \/ MarkCancelled(p)
    \/ \E u \in User : LinkUser(p, u)
    \/ WriteUser(p)
    \/ ReadDead(p)
    \/ \E l \in Line : LinkGeneration(p, l) \/ UnlinkGeneration(p, l)

Registration ==
    \/ \E l \in Line : \E kind \in Kinds[l] : UpsertProduct(l, kind)
    \/ \E S \in SUBSET Line : SetCreditPackProduct(S)
    \/ \E l \in Line : SetCreditPackVariants(l) \/ DeleteProduct(l)

Next ==
    \/ ShopChanges
    \/ ShopDeletes
    \/ Registration
    \/ \E p \in Proc :
        \/ Ingestion(p)
        \/ Credits(p)
        \/ Administration(p)
        \/ DeleteOrder(p)
        \/ RemoveOrder(p)
        \/ \E status \in Outcomes : GenerationEnds(p, status)
        \/ GatherLinked(p)
        \/ SyncLine(p)
        \/ Fail(p)

Spec == Init /\ [][Next]_vars

-----------------------------------------------------------------------------
Reported == {pay.financial : pay \in sent}
WasPaid == "paid" \in Reported
\* Shopify reported a status that the code takes for a payment.
TakenAsPaid == Reported \cap ({"paid"} \cup Unclear) # {}

\* Nothing is granted for an order that Shopify never reported as paid, in
\* whatever order its reports, the links and the ends of generations are
\* processed; and as long as every report names an unpaid status, no line
\* reaches the artist's or the workshop's queue (a credit pack is "delivered"
\* at once, without its credits).
NothingBeforePayment ==
    /\ ~WasPaid => \A r \in ledger : r.reason \notin {"order_bonus", "pack_purchase"}
    /\ ~TakenAsPaid =>
            \A l \in Line : \/ items[l] \in Clawback \cup {"pending", Absent}
                            \/ items[l] = "delivered" /\ l \in asPack

\* Credits are taken back from the account that was granted them, and only
\* from it, though the order may be linked to another one in between.
ReversalFollowsGrant ==
    \A r \in ledger : r.reason \in ReversalReason =>
        \E g \in ledger :
            /\ g.reason = IF r.reason = "pack_purchase_reversal" THEN "pack_purchase"
                                                                 ELSE "order_bonus"
            /\ g.ref = OrderRef(Head(r.ref))
            /\ g.user = r.user

\* "Los credit packs son digitales: no entran a la cola de produccion": no
\* webhook, transition, cancellation or generation brings one there, even after
\* its product is no longer marked or is gone, unless it was not marked, or not
\* registered, when an ingestion read it.
PacksAreNotProduced ==
    \A l \in Line \ asGoods : items[l] \in Terminal \cup {Absent}

\* "Shopify FIRST": an order that the database has as cancelled is cancelled
\* in Shopify, though the process may die between the two.
CancelledInShopifyFirst == order.cancelled => shop.cancelled

-----------------------------------------------------------------------------
\* What a comment of ingestLineItem says: a cancellation in Shopify always
\* wins.  The code looks for it in the payment alone.
CancellationWins ==
    [][\A p \in Proc : WriteLine(p) /\ job[p].pay.cancelled =>
            items'[Current(p)] \in Undo]_vars
=============================================================================
