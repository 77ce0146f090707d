----------------------------- MODULE Fulfilment -----------------------------
(***************************************************************************)
(* The badge of one recent order: the state of its fulfilment that the     *)
(* customer sees, derived from the FulfillmentOrders that Shopify          *)
(* (external) holds for it.  Webhooks of the order carry its simple        *)
(* status, webhooks of FulfillmentOrders only say that something changed;  *)
(* any may be late, out of order or lost.  Every ten minutes a reconciler  *)
(* refreshes the orders whose badge is not terminal: here the order is     *)
(* among the 250 it takes, and not older than its fourteen days.           *)
(***************************************************************************)
EXTENDS Naturals, FiniteSets

CONSTANTS
    FO,             \* the FulfillmentOrders the order may have
    MaxShopSteps,   \* bound: changes in Shopify
    MaxOutages      \* bound: calls to Shopify that fail

ASSUME FulfilmentConstants == MaxShopSteps \in Nat /\ MaxOutages \in Nat

VARIABLES
    fo,         \* the status of each FulfillmentOrder in Shopify
    order,      \* the Order row: its simple status and its badge
    queue,      \* the webhook jobs in the queue
    doing,      \* what the worker and the reconciler are doing
    shopSteps, outages

badgeVars == <<fo, order, queue, doing, shopSteps, outages>>

-----------------------------------------------------------------------------
Doer == {"worker", "reconciler"}
FOStatus == {"none", "open", "in_progress", "on_hold", "scheduled", "closed", "cancelled"}
Simple == {"none", "partial", "fulfilled", "restocked"}
Badge == {"unfulfilled", "in_progress", "on_hold", "scheduled",
          "partially_fulfilled", "fulfilled", "restocked"}
Terminal == {"fulfilled", "restocked"}
NoOrder == [exists |-> FALSE, simple |-> "none", badge |-> "unfulfilled"]
Rest == [at |-> "rest"]

\* Without FulfillmentOrders the simple status decides.
BySimple == [simple \in Simple |->
    CASE simple = "partial" -> "partially_fulfilled"
      [] simple = "none" -> "unfulfilled"
      [] simple \in Terminal -> simple]

Statuses == {fo[f] : f \in FO} \ {"none"}

\* The order's fulfillment_status in Shopify.
ShopStatus ==
    CASE Statuses = {"closed"} -> "fulfilled"
      [] "closed" \in Statuses /\ Statuses # {"closed"} -> "partial"
      [] Statuses = {"cancelled"} -> "restocked"
      [] OTHER -> "none"

\* deriveFulfillmentDisplayStatus, from the statuses that were found: what
\* is held or scheduled first, then what is done.
Derive(statuses, simple) ==
    LET active == statuses \ {"cancelled", "incomplete"} IN
    IF statuses = {} THEN BySimple[simple]
    ELSE IF "on_hold" \in active THEN "on_hold"
    ELSE IF "scheduled" \in active THEN "scheduled"
    ELSE IF active = {"closed"} THEN "fulfilled"
    ELSE IF "closed" \in active THEN "partially_fulfilled"
    ELSE IF "in_progress" \in active THEN "in_progress"
    ELSE "unfulfilled"

\* getFulfillmentDisplayStatus: a failed call leaves the simple status.
Display(statuses, simple) ==
    IF simple = "restocked" THEN "restocked" ELSE Derive(statuses, simple)

FulfilmentInit ==
    /\ \E status \in {"none", "open"} : fo = [f \in FO |-> status]
    /\ order = NoOrder /\ queue = {}
    /\ doing = [d \in Doer |-> Rest]
    /\ shopSteps = 0 /\ outages = 0

-----------------------------------------------------------------------------
\* Shopify: a FulfillmentOrder is added, moves or ends.
Moves(status) ==
    CASE status = "none" -> {"open", "scheduled"}
      [] status \in {"open", "scheduled"} -> {"open", "in_progress", "on_hold", "cancelled"} \ {status}
      [] status = "on_hold" -> {"open", "cancelled"}
      [] status = "in_progress" -> {"closed", "open"}
      [] status \in {"closed", "cancelled"} -> {}

\* What it tells this application of it, if anything.
ShopMoves(f) ==
    /\ shopSteps < MaxShopSteps /\ shopSteps' = shopSteps + 1
    /\ \E status \in Moves(fo[f]) : fo' = [fo EXCEPT ![f] = status]
    /\ \/ UNCHANGED queue
       \/ queue' = queue \cup {[type |-> "refresh"]}
       \/ queue' = queue \cup {[type |-> "ingest", simple |-> ShopStatus']}
    /\ UNCHANGED <<order, doing, outages>>

-----------------------------------------------------------------------------
(***************************************************************************)
(* refreshFulfillmentDisplayStatus and, in ingestShopifyOrder, the part    *)
(* about the badge: what is known of the order, the call, the write.       *)
(***************************************************************************)
Look(d, simple, badge, kind) ==
    doing' = [doing EXCEPT ![d] =
        [at |-> "call", kind |-> kind, simple |-> simple, seen |-> badge, display |-> badge]]

\* The worker takes a job: a refresh of an order that is not there is left.
TakeJob(h) ==
    /\ h \in queue /\ doing["worker"] = Rest
    /\ \/ h.type = "ingest" /\ Look("worker", h.simple, "unfulfilled", "ingest")
       \/ /\ h.type = "refresh" /\ order.exists
          /\ Look("worker", order.simple, order.badge, "refresh")
       \/ h.type = "refresh" /\ ~order.exists /\ UNCHANGED doing
    /\ queue' = queue \ {h}
    /\ UNCHANGED <<fo, order, shopSteps, outages>>

\* Mutant of Unsettled: only orders in progress are looked at.
UnsettledInProgress(badge) == badge \in {"in_progress", "on_hold"}

\* The orders that the reconciler looks for.
Unsettled(badge) == badge \notin Terminal

Reconcile ==
    /\ doing["reconciler"] = Rest /\ order.exists /\ Unsettled(order.badge)
    /\ Look("reconciler", order.simple, order.badge, "refresh")
    /\ UNCHANGED <<fo, order, queue, shopSteps, outages>>

Call(d) ==
    /\ doing[d] # Rest /\ doing[d].at = "call"
    /\ \E failed \in BOOLEAN :
        /\ failed => outages < MaxOutages
        /\ outages' = outages + (IF failed THEN 1 ELSE 0)
        /\ doing' = [doing EXCEPT ![d].at = "write",
              ![d].display = Display(IF failed THEN {} ELSE Statuses, doing[d].simple)]
    /\ UNCHANGED <<fo, order, queue, shopSteps>>

\* A refresh writes the badge if it differs from the one it read; an
\* ingestion writes it and, unless the payload has none, the simple status.
WriteBadge(d) ==
    LET j == doing[d] IN
    /\ j # Rest /\ j.at = "write"
    /\ order' =
        CASE j.kind = "refresh" ->
                IF j.display = j.seen THEN order ELSE [order EXCEPT !.badge = j.display]
          [] j.kind = "ingest" ->
                [exists |-> TRUE, badge |-> j.display,
                 simple |-> IF j.simple = "none" /\ order.exists THEN order.simple
                            ELSE j.simple]
    /\ doing' = [doing EXCEPT ![d] = Rest]
    /\ UNCHANGED <<fo, queue, shopSteps, outages>>

FulfilmentNext ==
    \/ \E f \in FO : ShopMoves(f)
    \/ \E h \in queue : TakeJob(h)
    \/ Reconcile
    \/ \E d \in Doer : Call(d) \/ WriteBadge(d)

\* The reconciler comes again every ten minutes, the worker takes jobs while
\* there are any, and a call returns or fails.
FulfilmentFairness ==
    /\ WF_badgeVars(\E h \in queue : TakeJob(h))
    /\ WF_badgeVars(Reconcile)
    /\ \A d \in Doer : WF_badgeVars(Call(d) \/ WriteBadge(d))

FulfilmentSpec == FulfilmentInit /\ [][FulfilmentNext]_badgeVars /\ FulfilmentFairness

-----------------------------------------------------------------------------
\* What the badge should be, by what is known of the order here.
Due == Display(Statuses, order.simple)

\* The reconciler is the "guaranteed safety net" of the badge: whatever
\* webhooks were lost, late or out of order and whatever calls failed, the
\* badge comes to be the one that is due and stays so, unless a terminal one
\* was written: that one is never looked at again
\* (orders-sync.service.ts:59-66).
BadgeCatchesUp ==
    order.exists ~> [](order.badge \in Terminal \cup {Due})
=============================================================================
