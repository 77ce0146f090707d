----------------------------- MODULE Economics -----------------------------
(***************************************************************************)
(* FxRateService, the part of ExpensesService.record that converts a cost  *)
(* with it, and the readers of the converted costs: the summaries of       *)
(* ExpensesService and CreditEconomicsService.                             *)
(*                                                                         *)
(* Days are the unit of time: the provider (external) publishes a rate a   *)
(* day, and an answer that is under way brings the rate of its own day.    *)
(* Amounts and rates are whole, an average is the pair <<sum, count>>.     *)
(***************************************************************************)
EXTENDS Requests, Integers, FiniteSets, FiniteSetsExt

CONSTANTS
    Generation, Customer,
    OwnerOf,        \* the customer of each generation
    AdminTests,     \* the generations of the panel, isAdminTest
    Production,     \* the cost of producing an order, which may be a guest's
    ImageCost,      \* the costs of an image, by the rates of its model
    RateOn,         \* the rate that is published on each day
    MaxDays,        \* bound: the last day
    TTL,            \* days that a cached rate is used without asking
    Missing         \* null

ASSUME EconomicsConstants ==
    /\ OwnerOf \in [Generation -> Customer] /\ IsFiniteSet(Customer) /\ Missing \notin Customer
    /\ AdminTests \subseteq Generation /\ Production \notin Generation
    /\ ImageCost \subseteq Nat /\ Missing \notin Nat
    /\ MaxDays \in Nat /\ TTL \in Nat \ {0} /\ RateOn \in [0..MaxDays -> Nat \ {0}]

VARIABLES
    today,
    cache,          \* the pair's entry in FxRateService.cache
    costs,          \* the Expense rows
    overlapped      \* history: two fetches were under way at once

economicsVars == <<today, cache, costs, overlapped, job, started>>

-----------------------------------------------------------------------------
Cached == [rate : Nat, date : 0..MaxDays, fetchedAt : 0..MaxDays]
ASSUME MissingIsNoRate == Missing \notin Cached

Currency == {"USD", "CAD"}
BaseCurrency == "CAD"
VisionCost == 1

\* A conversion under way: the cost it is for, the entry it found at first,
\* and the rate it will convert with.
Conversion ==
    [op : {"record"}, at : {"fetch", "answer", "write"},
     cost : Generation \cup {Production}, user : Customer \cup {Missing},
     currency : Currency, image : ImageCost,
     seen : Cached \cup {Missing}, got : Cached \cup {Missing}]

Amount(j) == j.image + VisionCost

EconomicsInit ==
    /\ RequestsInit
    /\ today = 0 /\ cache = Missing /\ costs = {} /\ overlapped = FALSE

Fetching == {p \in Proc : job[p] # Idle /\ job[p].at \in {"fetch", "answer"}}

-----------------------------------------------------------------------------
(***************************************************************************)
(* convert and getRate: nothing to convert, a cached rate that is recent,  *)
(* or a fetch, whose failure leaves the rate that was found at first.      *)
(***************************************************************************)
Recent == cache # Missing /\ today - cache.fetchedAt < TTL

Convert(p, c, u, currency, image) ==
    LET j == [op |-> "record", at |-> "write", cost |-> c, user |-> u, currency |-> currency,
              image |-> image, seen |-> cache, got |-> Missing]
        fetches == currency # BaseCurrency /\ ~Recent
    IN  /\ Dispatch(p, CASE currency = BaseCurrency -> j
                         [] currency # BaseCurrency /\ Recent -> [j EXCEPT !.got = cache]
                         [] fetches -> [j EXCEPT !.at = "fetch"])
        /\ overlapped' = (overlapped \/ (fetches /\ Fetching # {}))
        /\ UNCHANGED <<today, cache, costs>>

\* The provider answers, with the rate of the day.
Answer(p) ==
    /\ At(p, "record", "fetch")
    /\ Become(p, [job[p] EXCEPT !.at = "answer",
                     !.got = [rate |-> RateOn[today], date |-> today, fetchedAt |-> today]])
    /\ UNCHANGED <<today, cache, costs, overlapped>>

CacheRate(p) ==
    /\ At(p, "record", "answer")
    /\ cache' = [job[p].got EXCEPT !.fetchedAt = today]
    /\ Become(p, [job[p] EXCEPT !.at = "write"])
    /\ UNCHANGED <<today, costs, overlapped>>

\* Mutant of Fallback: without a rate the conversion is given up.
NoFallback(j) == Missing

Fallback(j) == j.seen

FetchFails(p) ==
    /\ job[p] # Idle /\ job[p].at \in {"fetch", "answer"}
    /\ Become(p, [job[p] EXCEPT !.at = "write", !.got = Fallback(job[p])])
    /\ UNCHANGED <<today, cache, costs, overlapped>>

-----------------------------------------------------------------------------
(***************************************************************************)
(* record: a new row, or the one of the same cost with all that depends on *)
(* the amount written anew.  A row keeps the user it was created with: the *)
(* order of a guest has none, and may be linked to an account later.       *)
(***************************************************************************)
BaseOf(j) ==
    CASE j.got # Missing -> Amount(j) * j.got.rate
      [] j.got = Missing /\ j.currency = BaseCurrency -> Amount(j)
      [] j.got = Missing /\ j.currency # BaseCurrency -> Missing
FxOf(j) == IF j.got = Missing THEN Missing ELSE j.got.rate

Created(j) ==
    [cost |-> j.cost, user |-> j.user, amount |-> Amount(j), base |-> BaseOf(j), fx |-> FxOf(j),
     vision |-> VisionCost, image |-> j.image, day |-> today]

\* Mutant of Updated: the rate of the row is not written again.
UpdatedButRate(old, j) ==
    [Created(j) EXCEPT !.user = old.user, !.day = old.day, !.fx = old.fx]

Updated(old, j) == [Created(j) EXCEPT !.user = old.user, !.day = old.day]

Record(p) ==
    /\ At(p, "record", "write")
    /\ LET j == job[p]
           old == {e \in costs : e.cost = j.cost}
       IN  costs' = (costs \ old) \cup
                    (IF old = {} THEN {Created(j)} ELSE {Updated(e, j) : e \in old})
    /\ Become(p, Idle)
    /\ UNCHANGED <<today, cache, overlapped>>

\* A restart takes the cache and what is under way.
LoseCache ==
    /\ cache # Missing \/ ~AllIdle
    /\ cache' = Missing
    /\ job' = [p \in Proc |-> Idle]
    /\ UNCHANGED <<started, today, costs, overlapped>>

NextDay ==
    /\ today < MaxDays
    /\ today' = today + 1
    /\ UNCHANGED <<cache, costs, overlapped, job, started>>

EconomicsNext ==
    \/ \E p \in Proc :
        \/ \E g \in Generation, image \in ImageCost : Convert(p, g, OwnerOf[g], "USD", image)
        \/ \E u \in Customer \cup {Missing}, image \in ImageCost, currency \in Currency :
            Convert(p, Production, u, currency, image)
        \/ Answer(p) \/ CacheRate(p) \/ FetchFails(p) \/ Record(p)
    \/ LoseCache \/ NextDay

EconomicsSpec == EconomicsInit /\ [][EconomicsNext]_economicsVars

-----------------------------------------------------------------------------
(***************************************************************************)
(* The readers.  An unconverted row counts with its own amount.            *)
(***************************************************************************)
Worth(e) == IF e.base # Missing THEN e.base ELSE e.amount
Total(rows) == MapThenSumSet(Worth, rows)
OfCategory(rows, category) ==
    {e \in rows : (e.cost = Production) <=> (category = "pod_production")}
Category == {"pod_production", "image_generation"}
ByCategory(rows) == [category \in Category |-> Total(OfCategory(rows, category))]

ListForOrder(rows) == [summary |-> ByCategory(rows), grandTotal |-> Total(rows)]

CustomerSummary(u) ==
    LET rows == {e \in costs : e.user = u}
    IN  [byCategory |-> ByCategory(rows), grandTotal |-> Total(rows)]

\* _sum of the database leaves the unconverted rows out.
GlobalSummary(since) ==
    MapThenSumSet(LAMBDA e : e.base, {e \in costs : e.day >= since /\ e.base # Missing})

SampleUnitCost(since) ==
    LET rows == {e \in costs : e.cost \in Generation \ AdminTests /\ e.day >= since}
        Fx(e) == IF e.fx = Missing THEN 1 ELSE e.fx
    IN  [count |-> Cardinality(rows), total |-> Total(rows),
         vision |-> MapThenSumSet(LAMBDA e : e.vision * Fx(e), rows),
         image |-> MapThenSumSet(LAMBDA e : e.image * Fx(e), rows)]

\* A period without a sample takes that of all time.
GlobalEconomics(since, balances) ==
    LET sample == SampleUnitCost(since)
        cost == IF sample.count = 0 THEN SampleUnitCost(0) ELSE sample
        outstanding == MapThenSumSet(LAMBDA u : balances[u], {u \in Customer : balances[u] > 0})
    IN  [unitCost |-> cost, creditsOutstanding |-> outstanding,
         outstandingLiability |-> outstanding * cost.total]

UserEconomics(u, balances) ==
    LET unit == GlobalEconomics(0, balances).unitCost
    IN  [generationCost |-> Total(OfCategory({e \in costs : e.user = u}, "image_generation")),
         outstandingLiability |-> (IF balances[u] > 0 THEN balances[u] ELSE 0) * unit.total]

-----------------------------------------------------------------------------
TakesNoOlderRate(j) ==
    j.seen # Missing => j.got # Missing /\ j.got.date >= j.seen.date

\* A conversion takes no rate older than the one that was cached when it
\* began, and is given up only if none was: a provider that does not answer
\* costs the currency nothing once it has answered.  And the cached rate goes
\* back to an older one only after two fetches met, whose answers came in the
\* wrong order (getRate).
ConversionsKeepUp ==
    [][ /\ \A p \in Proc :
            At(p, "record", "write") /\ job[p].currency # BaseCurrency => TakesNoOlderRate(job[p])
        /\ ~overlapped /\ Missing \notin {cache, cache'} => cache'.date >= cache.date
      ]_economicsVars

BreakdownAddsUp ==
    \A since \in 0..MaxDays :
        LET sample == SampleUnitCost(since) IN sample.vision + sample.image = sample.total

LiabilitiesAddUp ==
    \A balances \in [Customer -> -1..1] :
        GlobalEconomics(0, balances).outstandingLiability =
            MapThenSumSet(LAMBDA u : UserEconomics(u, balances).outstandingLiability, Customer)

SummariesAddUp ==
    /\ MapThenSumSet(LAMBDA u : CustomerSummary(u).grandTotal, Customer)
            + Total({e \in costs : e.user = Missing})
        = GlobalSummary(0) + Total({e \in costs : e.base = Missing})
    /\ ListForOrder(costs).grandTotal =
        MapThenSumSet(LAMBDA c : ListForOrder(costs).summary[c], Category)

\* The figures that the panel shows side by side agree, whatever rates the
\* costs were converted at, converted again, or not at all: the parts of the
\* unit cost add up to it, the customers' liabilities to the shop's, and their
\* costs with those of guests, which no customer's summary has, to the shop's
\* with what no rate was found for, which the shop's total leaves out
\* (CreditEconomicsService, globalSummary and customerSummary).
ReadersAgree ==
    costs # {} => BreakdownAddsUp /\ LiabilitiesAddUp /\ SummariesAddUp
=============================================================================
