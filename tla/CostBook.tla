------------------------------ MODULE CostBook ------------------------------
(***************************************************************************)
(* What the book of expenses promises to those who read it: a cost with a  *)
(* name of its own has one entry, which keeps its identity however often   *)
(* the cost is recorded again; any other cost is entered once and stays as *)
(* it was entered; an entry goes only by being struck, and outlives the    *)
(* order that it names, unless it was made while the order was deleted.    *)
(***************************************************************************)
CONSTANTS
    Cost,       \* the costs that have a name: a dedupeKey
    Unnamed     \* the name of all others: null

VARIABLES
    book,       \* the entries: [id, key, amount, order]
    deleting,   \* whether the order is being deleted
    late        \* the entries for the order that were made since

Enter ==
    \E new \in book' :
        /\ book' = book \cup {new}
        /\ \A e \in book : e.id # new.id
        /\ \/ new.key = Unnamed
           \/ new.key \in Cost /\ \A e \in book : e.key # new.key
        /\ late' \in {late, IF deleting THEN late \cup {new.id} ELSE late}
        /\ UNCHANGED deleting

Reprice ==
    \E old \in book, new \in book' :
        /\ book' = (book \ {old}) \cup {new}
        /\ old.key \in Cost
        /\ new.id = old.id /\ new.key = old.key /\ new.order = old.order
        /\ UNCHANGED <<deleting, late>>

NothingLate == ~deleting' /\ late' = {}

Strike ==
    \E e \in book :
        /\ book' = book \ {e}
        /\ (UNCHANGED deleting /\ late' = late \ {e.id}) \/ NothingLate

BeginDeletion ==
    /\ ~deleting
    /\ deleting' = TRUE
    /\ UNCHANGED <<book, late>>

GiveUp == NothingLate /\ UNCHANGED book

Delete ==
    /\ deleting /\ NothingLate
    /\ book' = {[e EXCEPT !.order = FALSE] : e \in {f \in book : f.id \notin late}}

BookNext == Enter \/ Reprice \/ Strike \/ BeginDeletion \/ GiveUp \/ Delete

BookSpec ==
    /\ book = {} /\ ~deleting /\ late = {}
    /\ [][BookNext]_<<book, deleting, late>>
=============================================================================
