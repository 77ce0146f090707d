------------------------------- MODULE MCSync -------------------------------
(***************************************************************************)
(* Model checking of the copying from Shopify: the runs and what keeps     *)
(* them apart, or the badge of one order.  A behaviour is of one of them;  *)
(* the other stays in its initial state, where nothing of it is enabled    *)
(* that its fairness would ask for.                                        *)
(***************************************************************************)
EXTENDS SyncRuns, Fulfilment, TLC

VARIABLE about

Init ==
    /\ SyncInit /\ FulfilmentInit
    /\ about \in {"runs", "badge"}

Next ==
    /\ UNCHANGED about
    /\ \/ about = "runs" /\ SyncNext /\ UNCHANGED badgeVars
       \/ about = "badge" /\ FulfilmentNext /\ UNCHANGED syncVars

Spec ==
    /\ Init /\ [][Next]_<<about, syncVars, badgeVars>>
    /\ SyncFairness /\ FulfilmentFairness
=============================================================================
