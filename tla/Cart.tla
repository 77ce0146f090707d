-------------------------------- MODULE Cart --------------------------------
(***************************************************************************)
(* CartService: the cart of one user, whose requests come from several     *)
(* tabs.  A line is told by its variant and its style (which stands for    *)
(* style and size); nothing in the database keeps two lines from having    *)
(* the same ones.  The art a line shows is not part of that: the second of *)
(* two arts in the same variant and style only adds to the first's line.   *)
(* Its image, which updateImage sets, is left out.                         *)
(***************************************************************************)
EXTENDS Requests, Integers, FiniteSetsExt, Sequences

CONSTANTS
    CartVariant, Style,     \* what is on sale
    Delta,                  \* the changes of quantity
    MaxLines                \* bound: lines ever inserted

ASSUME CartConstants == Delta \subseteq Int /\ MaxLines \in Nat \ {0}

VARIABLES
    hasCart,        \* whether the Cart row exists
    lines,          \* the CartItem rows
    lineIds,        \* how many there ever were
    asked,          \* history: what was added of each product in all
    additionsMet    \* history: two additions were under way at once

cartVars == <<hasCart, lines, lineIds, asked, additionsMet, job, started>>

-----------------------------------------------------------------------------
Goods == CartVariant \X Style
LineId == 1..MaxLines
CartLine == [id : LineId, product : Goods, quantity : Int]
Of(variant) == {l \in lines : l.product[1] = variant}

\* A handler: the products it has yet to add (merge adds several), or the
\* change it makes to a variant, and the lines it read.
CartJob ==
    [op : {"add", "quantity", "remove", "clear"},
     at : {"cart", "create", "read", "write"}, rest : Seq(Goods),
     variant : CartVariant \cup {0}, delta : Delta \cup {0}, seen : SUBSET CartLine]
Request(op, rest, variant, delta) ==
    [op |-> op, at |-> "cart", rest |-> rest, variant |-> variant, delta |-> delta,
     seen |-> {}]

Adds(j) == j # Idle /\ j.op = "add"

CartInit ==
    /\ RequestsInit
    /\ hasCart \in BOOLEAN
    /\ lines = {} /\ lineIds = 0
    /\ asked = [x \in Goods |-> 0]
    /\ additionsMet = FALSE

Arrive(p, j) ==
    /\ Dispatch(p, j)
    /\ additionsMet' = (additionsMet \/ (Adds(j) /\ \E q \in Proc : Adds(job[q])))
    /\ UNCHANGED <<hasCart, lines, lineIds, asked>>

\* addItem of one product, or merge of the guest's.
AddItems(p, products) == Arrive(p, Request("add", products, 0, 0))
UpdateQuantity(p, v, d) == Arrive(p, Request("quantity", <<>>, v, d))
RemoveItem(p, v) == Arrive(p, Request("remove", <<>>, v, 0))
Clear(p) == Arrive(p, Request("clear", <<>>, 0, 0))

-----------------------------------------------------------------------------
Onward(p, at) == Become(p, [job[p] EXCEPT !.at = at])
Unhistoried == <<asked, additionsMet>>

\* findOrCreateCart; of two that create it the second violates its key.
FindCart(p) ==
    /\ job[p].at = "cart"
    /\ Onward(p, IF hasCart THEN "read" ELSE "create")
    /\ UNCHANGED <<hasCart, lines, lineIds, Unhistoried>>

CreateCart(p) ==
    /\ job[p].at = "create" /\ ~hasCart
    /\ hasCart' = TRUE
    /\ Onward(p, "read")
    /\ UNCHANGED <<lines, lineIds, Unhistoried>>

\* Mutant of FirstOf: it takes a line of any style.
FirstOfVariant(x) ==
    IF Of(x[1]) = {} THEN {{}} ELSE {{l} : l \in Of(x[1])}

\* findFirst: one line of the product, if there is any.
FirstOf(x) ==
    LET same == {l \in lines : l.product = x} IN
    IF same = {} THEN {{}} ELSE {{l} : l \in same}

ReadLines(p) ==
    /\ job[p].at = "read" /\ job[p].op \in {"add", "quantity"}
    /\ \E seen \in IF Adds(job[p]) THEN FirstOf(Head(job[p].rest)) ELSE {Of(job[p].variant)} :
          Become(p, [job[p] EXCEPT !.at = "write", !.seen = seen])
    /\ UNCHANGED <<hasCart, lines, lineIds, Unhistoried>>

\* Rows are updated by their ids, with the quantities computed from what was
\* read; one that is gone makes the statement, or the transaction, fail.
Update(changed) ==
    LET touched == {l.id : l \in changed} IN
    /\ touched \subseteq {l.id : l \in lines}
    /\ lines' = {l \in lines : l.id \notin touched} \cup changed

\* addItem updates the line it read, or inserts one.
Increase(p) ==
    /\ job[p].seen # {}
    /\ Update({[l EXCEPT !.quantity = @ + 1] : l \in job[p].seen})
    /\ UNCHANGED lineIds

Insert(p) ==
    /\ job[p].seen = {} /\ lineIds < MaxLines
    /\ lineIds' = lineIds + 1
    /\ lines' = lines \cup
          {[id |-> lineIds', product |-> Head(job[p].rest), quantity |-> 1]}

AddItem(p) ==
    LET x == Head(job[p].rest) IN
    /\ At(p, "add", "write")
    /\ Increase(p) \/ Insert(p)
    /\ asked' = [asked EXCEPT ![x] = @ + 1]
    /\ Become(p, IF Len(job[p].rest) = 1 THEN Idle
                 ELSE [job[p] EXCEPT !.at = "cart", !.rest = Tail(@), !.seen = {}])
    /\ UNCHANGED <<hasCart, additionsMet>>

\* One transaction over every line of the variant.
ChangeQuantities(p) ==
    LET j == job[p] IN
    /\ At(p, "quantity", "write")
    /\ Update({[l EXCEPT !.quantity = Max({1, @ + j.delta})] : l \in j.seen})
    /\ asked' = [x \in Goods |->
          asked[x] + Max({0, j.delta}) * Cardinality({l \in j.seen : l.product = x})]
    /\ Become(p, Idle)
    /\ UNCHANGED <<hasCart, lineIds, additionsMet>>

\* removeItem and clear: one deleteMany.
DeleteLines(p) ==
    /\ job[p].at = "read" /\ job[p].op \in {"remove", "clear"}
    /\ lines' = IF job[p].op = "clear" THEN {} ELSE lines \ Of(job[p].variant)
    /\ Become(p, Idle)
    /\ UNCHANGED <<hasCart, lineIds, Unhistoried>>

\* An await throws: what a merge added before stays.
CartFails(p) ==
    /\ job[p] # Idle
    /\ Become(p, Idle)
    /\ UNCHANGED <<hasCart, lines, lineIds, Unhistoried>>

CartNext ==
    \E p \in Proc :
        \/ \E x \in Goods : AddItems(p, <<x>>) \/ \E y \in Goods : AddItems(p, <<x, y>>)
        \/ \E v \in CartVariant : RemoveItem(p, v) \/ \E d \in Delta : UpdateQuantity(p, v, d)
        \/ Clear(p) \/ FindCart(p) \/ CreateCart(p) \/ ReadLines(p) \/ AddItem(p)
        \/ ChangeQuantities(p) \/ DeleteLines(p) \/ CartFails(p)

CartSpec == CartInit /\ [][CartNext]_cartVars

-----------------------------------------------------------------------------
NeverMoreThanAsked ==
    /\ \A l \in lines : l.quantity >= 1
    /\ \A x \in Goods :
        MapThenSumSet(LAMBDA l : l.quantity, {l \in lines : l.product = x}) <= asked[x]

OneLineEach ==
    additionsMet \/ \A l, m \in lines : l.product = m.product => l = m

\* Requests that read and then write may lose an addition to one another and
\* never conjure one: the lines of a product hold at least one each and in
\* all no more than was ever asked for, and it has two lines only after two
\* additions met, each of which read that it had none (addItem).
CartAddsUp == NeverMoreThanAsked /\ OneLineEach
=============================================================================
