----------------------------- MODULE Catalogue -----------------------------
(***************************************************************************)
(* The catalogue that ProductSyncService copies from Shopify (external):   *)
(* by webhooks, which wait in a queue and carry the product as it was, and *)
(* by a full sync, which reads all products and then writes one after      *)
(* another.  ProductsService changes the same rows for an administrator.   *)
(* That full syncs exclude one another is the matter of SyncRuns.          *)
(***************************************************************************)
EXTENDS Requests, FiniteSets

CONSTANTS
    Product, Variant,   \* products of the shop, and the variants of each
    Formatted,          \* the variants whose size has an active format
    PrintArt,           \* a value of custom.art_kind
    NoKind,              \* a metafield that is not there, or null
    Unknown,            \* what a failed lookup of it yields
    MaxChanges          \* bound: changes in Shopify

ASSUME CatalogueConstants ==
    /\ Formatted \subseteq Variant /\ MaxChanges \in Nat
    /\ Cardinality({PrintArt, NoKind, Unknown}) = 3

VARIABLES
    shop,       \* the products in Shopify
    products,   \* the ProductReference rows, with their variants
    hooks,      \* the webhook jobs in the queue
    changes,    \* how many changes Shopify had
    kindsHad,   \* history: the values the metafield of each product had
    mirror,     \* history: is a sync, or was the last, undisturbed
    flagRaced   \* history: two choices of the product of the kit met

catalogueVars == <<shop, products, hooks, changes, kindsHad, mirror, flagRaced, job, started>>

-----------------------------------------------------------------------------
Absent == [listed |-> FALSE]
Listed == [listed : {TRUE}, active : BOOLEAN, variants : SUBSET Variant, kind : {PrintArt, NoKind}]
NoRow == [row |-> FALSE]
Row == [row : {TRUE}, active : BOOLEAN, kind : {PrintArt, NoKind},
        on : SUBSET Variant, off : SUBSET Variant, pbn : BOOLEAN]
NewRow(active, kind) ==
    [row |-> TRUE, active |-> active, kind |-> kind, on |-> {}, off |-> {}, pbn |-> FALSE]

InShop == {x \in Product : shop[x].listed}
InRows == {x \in Product : products[x].row}
ShopKind(x) == IF x \in InShop THEN shop[x].kind ELSE NoKind

Hook == [type : {"upsert", "delete"}, of : Product, as : Listed \cup {Absent}]

\* A handler: the products as it knows them and their kinds, those it has
\* yet to write and the one it is writing; of a choice, whom it cleared.
CatalogueJob ==
    [op : {"sync", "hook", "pbn"},
     at : {"kinds", "next", "upsert", "variants", "absent", "orphans", "choose"},
     known : [Product -> Listed \cup {Absent}],
     kinds : [Product -> {PrintArt, NoKind, Unknown}],
     left : SUBSET Product, now : SUBSET Product, cleared : SUBSET Product]
Task(op, at, known, left) ==
    [op |-> op, at |-> at, known |-> known, kinds |-> [x \in Product |-> Unknown],
     left |-> left, now |-> {}, cleared |-> {}]

CatalogueInit ==
    /\ RequestsInit
    /\ shop = [x \in Product |-> [listed |-> TRUE, active |-> TRUE,
                                  variants |-> Variant, kind |-> PrintArt]]
    /\ \/ products = [x \in Product |-> NoRow]
       \/ products = [x \in Product |-> [NewRow(TRUE, PrintArt) EXCEPT !.on = Formatted]]
    /\ hooks = {} /\ changes = 0
    /\ kindsHad = [x \in Product |-> {PrintArt}]
    /\ mirror = "no" /\ flagRaced = FALSE

Underway(op) == \E p \in Proc : job[p] # Idle /\ job[p].op = op
External == <<shop, changes, kindsHad>>

\* A step that is not of the full sync disturbs it.
Disturb == mirror' = "no"
Going(p) == IF job[p].op = "sync" THEN UNCHANGED mirror ELSE Disturb

-----------------------------------------------------------------------------
(***************************************************************************)
(* Shopify: the merchant changes or deletes a product, and a webhook of it *)
(* is delivered or lost.                                                   *)
(***************************************************************************)
Edited(x) ==
    {Absent, [shop[x] EXCEPT !.active = ~@], [shop[x] EXCEPT !.kind = NoKind]}
      \cup {[shop[x] EXCEPT !.variants = @ \ {v}] : v \in shop[x].variants}

ShopChanges(x, new) ==
    /\ changes < MaxChanges /\ shop[x] # new
    /\ shop' = [shop EXCEPT ![x] = new]
    /\ changes' = changes + 1
    /\ kindsHad' = [kindsHad EXCEPT ![x] = @ \cup {IF new.listed THEN new.kind ELSE NoKind}]
    /\ \/ UNCHANGED hooks
       \/ hooks' = hooks \cup
            {[type |-> IF new.listed THEN "upsert" ELSE "delete", of |-> x, as |-> new]}
    /\ Disturb
    /\ UNCHANGED <<products, flagRaced, job, started>>

-----------------------------------------------------------------------------
(***************************************************************************)
(* How a handler writes one product: upsertProduct, then syncVariants.     *)
(***************************************************************************)
\* Mutant of NewKind: a lookup that failed blanks the column.
NewKindBlanked(old, found) == IF found = Unknown THEN NoKind ELSE found

\* undefined leaves the column as it is, null clears it.
NewKind(old, found) == IF found = Unknown THEN old ELSE found

UpsertProduct(p) ==
    /\ job[p].at = "upsert"
    /\ \E x \in job[p].now :
        LET active == job[p].known[x].active
            found == job[p].kinds[x] IN
        products' = [products EXCEPT ![x] =
            IF x \in InRows
            THEN [products[x] EXCEPT !.active = active, !.kind = NewKind(@, found)]
            ELSE NewRow(active, NewKind(NoKind, found))]
    /\ Become(p, [job[p] EXCEPT !.at = "variants"])
    /\ Going(p)
    /\ UNCHANGED <<External, hooks, flagRaced>>

\* The variants with a format are upserted.
SyncVariants(p) ==
    /\ job[p].at = "variants" /\ job[p].now \subseteq InRows
    /\ \E x \in job[p].now :
        LET synced == job[p].known[x].variants \cap Formatted IN
        products' = [products EXCEPT ![x].on = @ \cup synced, ![x].off = @ \ synced]
    /\ Become(p, [job[p] EXCEPT !.at = "absent"])
    /\ Going(p)
    /\ UNCHANGED <<External, hooks, flagRaced>>

\* Mutant of Gone: a variant is gone only with its format.
GoneUnformatted(row, incoming) == row.on \ (incoming \cup Formatted)

\* The active variants that are no longer in Shopify.
Gone(row, incoming) == row.on \ incoming

Proceed(p) ==
    Become(p, IF job[p].op = "hook" THEN Idle
              ELSE [job[p] EXCEPT !.at = "next", !.now = {}])

DeactivateAbsent(p) ==
    /\ job[p].at = "absent"
    /\ \E x \in job[p].now :
        LET gone == Gone(products[x], job[p].known[x].variants) IN
        products' = IF x \in InRows
                    THEN [products EXCEPT ![x].on = @ \ gone, ![x].off = @ \cup gone]
                    ELSE products
    /\ Proceed(p)
    /\ Going(p)
    /\ UNCHANGED <<External, hooks, flagRaced>>

\* softDeleteProduct: an active product goes, in one transaction, with its
\* variants.
SoftDeleted(row) ==
    IF row.row /\ row.active
    THEN [row EXCEPT !.active = FALSE, !.on = {}, !.off = row.on \cup row.off] ELSE row

-----------------------------------------------------------------------------
(***************************************************************************)
(* The worker takes the jobs one at a time and in no certain order: one    *)
(* that failed waits while later ones go ahead.                            *)
(***************************************************************************)
ProcessUpsert(p, h) ==
    /\ h \in hooks /\ h.type = "upsert" /\ ~Underway("hook")
    /\ \E found \in {ShopKind(h.of), Unknown} :
        Dispatch(p, [Task("hook", "upsert", [x \in Product |-> h.as], {})
                       EXCEPT !.now = {h.of}, !.kinds = [x \in Product |-> found]])
    /\ \/ hooks' = hooks \ {h}
       \/ UNCHANGED hooks
    /\ Disturb
    /\ UNCHANGED <<External, products, flagRaced>>

ProcessDelete(h) ==
    /\ h \in hooks /\ h.type = "delete" /\ ~Underway("hook")
    /\ products' = [products EXCEPT ![h.of] = SoftDeleted(@)]
    /\ hooks' = hooks \ {h}
    /\ Once /\ Disturb
    /\ UNCHANGED <<External, flagRaced>>

-----------------------------------------------------------------------------
(***************************************************************************)
(* runFullSync.                                                            *)
(***************************************************************************)
FetchAllProducts(p) ==
    /\ ~Underway("sync")
    /\ Dispatch(p, Task("sync", "kinds", shop, InShop))
    /\ mirror' = IF AllIdle THEN "syncing" ELSE "no"
    /\ UNCHANGED <<External, products, hooks, flagRaced>>

\* Its failure is an error of the sync that does not end it.
FetchArtKindMap(p) ==
    /\ At(p, "sync", "kinds")
    /\ \E found \in {[x \in Product |-> ShopKind(x)], [x \in Product |-> Unknown]} :
        Become(p, [job[p] EXCEPT !.at = "next", !.kinds = found])
    /\ UNCHANGED <<External, products, hooks, mirror, flagRaced>>

NextProduct(p) ==
    /\ At(p, "sync", "next")
    /\ \E x \in job[p].left :
        Become(p, [job[p] EXCEPT !.at = "upsert", !.left = @ \ {x}, !.now = {x}])
    /\ UNCHANGED <<External, products, hooks, mirror, flagRaced>>

Orphans(known) ==
    {x \in InRows : products[x].active} \ {x \in Product : known[x].listed}

DetectOrphans(p) ==
    /\ At(p, "sync", "next") /\ job[p].left = {}
    /\ Become(p, [job[p] EXCEPT !.at = "orphans", !.left = Orphans(job[p].known)])
    /\ UNCHANGED <<External, products, hooks, mirror, flagRaced>>

SoftDeleteOrphan(p) ==
    /\ At(p, "sync", "orphans")
    /\ \E x \in job[p].left :
        /\ products' = [products EXCEPT ![x] = SoftDeleted(@)]
        /\ Become(p, [job[p] EXCEPT !.left = @ \ {x}])
    /\ UNCHANGED <<External, hooks, mirror, flagRaced>>

EndSync(p) ==
    /\ At(p, "sync", "orphans") /\ job[p].left = {}
    /\ Become(p, Idle)
    /\ mirror' = IF mirror = "syncing" THEN "yes" ELSE mirror
    /\ UNCHANGED <<External, products, hooks, flagRaced>>

\* An await throws.  The full sync goes on with the next product; a webhook
\* job may be lost with it.
CatalogueFails(p) ==
    /\ job[p] # Idle
    /\ IF job[p].op = "sync" /\ job[p].now # {} THEN Proceed(p) ELSE Become(p, Idle)
    /\ Disturb
    /\ UNCHANGED <<External, products, hooks, flagRaced>>

-----------------------------------------------------------------------------
(***************************************************************************)
(* ProductsService, for the administrator: each call but one is a check    *)
(* that the row exists and one write to it.                                *)
(***************************************************************************)
ByAdmin(x, row) ==
    /\ products' = [products EXCEPT ![x] = row]
    /\ Once /\ Disturb
    /\ UNCHANGED <<External, hooks, flagRaced>>

CreateProduct(x) == x \notin InRows /\ ByAdmin(x, NewRow(TRUE, NoKind))
SoftDelete(x) == x \in InRows /\ ByAdmin(x, [products[x] EXCEPT !.active = FALSE])
HardDelete(x) == x \in InRows /\ ByAdmin(x, NoRow)

\* linkVariant, whatever variant the administrator names.
LinkVariant(x, v) ==
    /\ x \in InRows
    /\ ByAdmin(x, [products[x] EXCEPT !.on = @ \cup {v}, !.off = @ \ {v}])

\* updateVariantLink, with isActive false.
UpdateVariantLink(x, v) ==
    /\ x \in InRows /\ v \in products[x].on
    /\ ByAdmin(x, [products[x] EXCEPT !.on = @ \ {v}, !.off = @ \cup {v}])

Flagged == {x \in InRows : products[x].pbn}

\* Mutant of SetPbnProduct: it unmarks nobody.
SetPbnProductOnly(p, chosen) ==
    /\ chosen \subseteq InRows
    /\ Dispatch(p, [Task("pbn", "choose", shop, {}) EXCEPT !.now = chosen])
    /\ flagRaced' = (flagRaced \/ Underway("pbn"))
    /\ UNCHANGED <<External, products, hooks, mirror>>

\* setPbnProduct and, over another flag, setCreditPackProduct: a transaction
\* that unmarks the other products and marks the chosen one, or none.  Its
\* first statement finds the rows that are committed as marked by then; the
\* transactions of the database wait for one another only over such rows.
SetPbnProduct(p, chosen) ==
    /\ chosen \subseteq InRows
    /\ Dispatch(p, [Task("pbn", "choose", shop, {})
                      EXCEPT !.now = chosen, !.cleared = Flagged \ chosen])
    /\ flagRaced' = (flagRaced \/ Underway("pbn"))
    /\ UNCHANGED <<External, products, hooks, mirror>>

CommitPbnProduct(p) ==
    /\ At(p, "pbn", "choose") /\ job[p].now \subseteq InRows
    /\ products' = [x \in Product |->
          IF x \in InRows THEN [products[x] EXCEPT !.pbn =
              (@ /\ x \notin job[p].cleared) \/ x \in job[p].now]
          ELSE NoRow]
    /\ Become(p, Idle)
    /\ UNCHANGED <<External, hooks, mirror, flagRaced>>

Admin(p) ==
    \/ \E x \in Product :
        \/ CreateProduct(x) \/ SoftDelete(x) \/ HardDelete(x)
        \/ \E v \in Variant : LinkVariant(x, v) \/ UpdateVariantLink(x, v)
        \/ SetPbnProduct(p, {x})
    \/ SetPbnProduct(p, {})
    \/ CommitPbnProduct(p)

CatalogueNext ==
    \/ \E x \in InShop : \E new \in Edited(x) : ShopChanges(x, new)
    \/ \E h \in hooks : ProcessDelete(h)
    \/ \E p \in Proc :
        \/ UpsertProduct(p) \/ SyncVariants(p) \/ DeactivateAbsent(p)
        \/ \E h \in hooks : ProcessUpsert(p, h)
        \/ FetchAllProducts(p) \/ FetchArtKindMap(p) \/ NextProduct(p)
        \/ DetectOrphans(p) \/ SoftDeleteOrphan(p) \/ EndSync(p)
        \/ CatalogueFails(p) \/ Admin(p)

CatalogueSpec == CatalogueInit /\ [][CatalogueNext]_catalogueVars

-----------------------------------------------------------------------------
\* After a full sync in which nothing else happened and nothing failed, what
\* the shop shows is what Shopify has: the active products, each with the
\* variants that have a format and none that Shopify does not have.  Stale
\* webhooks, deletions and links by hand from before leave no trace in it.
SyncMirrorsShopify ==
    mirror = "yes" => \A x \in Product :
        IF x \in InShop /\ shop[x].active
        THEN /\ x \in InRows /\ products[x].active
             /\ products[x].on \subseteq shop[x].variants
             /\ shop[x].variants \cap Formatted \subseteq products[x].on
        ELSE x \in InRows => ~products[x].active

\* "If this auxiliary call fails we do not pass null": a product's kind only
\* changes to one that its metafield had in Shopify
\* (sync.service.ts:160-164).
KindsComeFromShopify ==
    [][\A x \in InRows : products'[x].row /\ products'[x].kind # products[x].kind =>
            products'[x].kind \in kindsHad[x]]_catalogueVars

\* Two products are marked as that of the kit only after two choices met:
\* each transaction unmarks what it finds committed, which does not yet
\* include what the other marks.
OnePbnProduct ==
    flagRaced \/ Cardinality(Flagged) <= 1
=============================================================================
