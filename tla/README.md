# A formal model of the Claw & Soul backend

TLA+ modules for the NestJS backend in `src/`: the credits and the image
generation pipeline, the accounts and their sessions, the orders that Shopify
reports with their print images and fulfilment badge, the copying of the
catalogue from Shopify, the styles, carts, pets and paintings, and the book of
expenses. TLC checks them on small instances; TLAPS proves all the
safety properties that TLC finds true, for all instances. `PROJECT.json` ties every definition to
the lines it models (`map`), every property to a change of the code that would
break it (`mutants`), and every known hazard to the properties that watch it
(`hazards`).

Paths below are relative to `src/`; "the database" is PostgreSQL behind Prisma,
at its default isolation (read committed), so that one statement or one
`$transaction` is one step, and two awaits are two.

## 1. The system

### Components

| Component | State | Operations | What makes it correct |
|---|---|---|---|
| Credit ledger (`src/credits`) | `User.generationCredits`, `CreditTransaction` | grant, revoke, spendForGeneration, refundGeneration | one row per (reason, reference); the balance is the sum of the rows; spending never overdraws; a refund mirrors a spend |
| Generation pipeline (`src/generations`) | `Generation`, the BullMQ job, `StyleImage` of tests | create, enqueue, take, run, complete, fail and refund, delete | no generation without its credit, no credit without its generation, a delivered image stays charged, a paid one ends delivered or refunded |
| Generation webhooks (`src/webhooks`) | `Generation.status` | handleGenerationComplete | see the pipeline: it is a second writer of its rows |
| Authentication (`src/auth`) | `RefreshToken` | login, Google login, refresh, logout, session list, daily cleanup | a token is rotated once; a limit on sessions; none survives the closing of its account |
| Account status and lifecycle (`src/users`) | `User.status`, `isActive`, `deletedAt`, `anonymizedAt` | ban, deactivate, delete, restore, inactivity and purge sweeps, reactivation by login | status and sessions change together; only an administrator reopens a banned account |
| Orders (`src/orders`) | `Order`, `OrderItem`, credit rows of an order | ingest (webhook, backfill, resync), delete, status transitions, cancel, link account or generation | nothing before payment; cancellation and refund win; grants and reversals mirror each other |
| Fulfilment badge, backfill (`src/orders`) | `Order.fulfillmentDisplayStatus`, `SyncLog`, an in-process flag | refresh, reconcile (cron), backfill | one backfill at a time; the badge ends up as Shopify's |
| Print images (`src/orders/image-enhancement.service.ts`) | print fields of `OrderItem` | preview, apply, revert | the image printed belongs to the item's current source |
| Shopify synchronisation (`src/shopify-sync`) | products, variants, `SyncLog`, a Redis lock | manual and cron sync, product webhooks | one sync at a time; no product is lost between sync and webhook |
| Catalogue (`src/products`, `formats`, `compat`, `style-compat`) | products, variants, their formats | CRUD, pairings, the PBN product | what Shopify lists is what is listed; one PBN product, unless two choices of it meet |
| Styles and pipeline configurations (`src/styles`, `vision-configs`, `image-gen-configs`) | `Style`, `StyleImage`, reference image, configurations | CRUD, images, test generations | every row has its file; nothing in use is deleted unforced |
| Paint by numbers (`src/paint-by-numbers`) | `PaintByNumbers`, its stored files | create, replace, delete | the save limit; a bought painting is never changed |
| Cart (`src/cart`) | `Cart`, `CartItem` | add, change quantity, remove | no lost or doubled line |
| Pets (`src/pets`) | `Pet`, `PetPhoto` | CRUD, photos | the photo limit; one primary photo |
| Expenses, provider rates, economics (`src/expenses`, `src/credits`) | `Expense`, rates | record (idempotent), strike, set a rate, report | a cost is recorded once and outlives its order; a rate is the administrator's; the reports agree |
| Exchange rates (`src/fx`) | an in-process cache | convert | a stale rate is served only when the source fails; no conversion is given up once a rate is known |
| Gallery, statistics, storage, health, configuration | none of their own | reading, input and output | not modelled |

### How they interact

* Every credit movement, by whatever component, is one call of `CreditsService`
  in the caller's transaction or in its own. Its idempotence key (reason,
  reference) is what the others rely on when they repeat themselves.
* Creating a generation commits the row and the spend, *then* adds a job to
  Redis. A worker runs the job; it and the webhook endpoint both write the row.
  Its completion or failure also recomputes the linked order items.
* Shopify calls the order webhooks, which only add jobs to a second queue
  (three attempts); the backfill and a resync run the same ingestion outside it.
  Administrators write to the same items by HTTP, and some of those requests
  call Shopify, which answers with webhooks.
* Guards check the account's status at the beginning of a request; everything
  after works with what was read then.

### What is hard

Nothing in the code holds a row lock: correctness rests on conditional updates
(`spendForGeneration`, `rotate`), unique keys (ledger, token hash, line items)
and small transactions. Everywhere else a handler reads, awaits and writes by id.
The hazards are therefore interleavings of two handlers, work repeated by the
queues after a crash or a lost lock, payloads out of order, and the gap between
a commit and a call to another system. `PROJECT.json` lists each at its line.

## 2. The modules

| Module | Models | Extends |
|---|---|---|
| `CreditLedger` | the credit service; `LedgerSpec` is also the abstract specification of what it promises | |
| `Generations` | HTTP handlers, queue, workers, webhook of the pipeline | `CreditLedger` |
| `AccountStatus` | transitions, sweeps and purge of accounts | |
| `AuthSessions` | logins, rotation, limits, revocations, cleanup, on the same rows and requests | `AccountStatus` |
| `Orders` | one order: ingestion, production status, cancellation, credits | `CreditLedger` |
| `CostBook` | abstract: what the book of expenses promises its readers | |
| `Expenses` | costs recorded beside the handlers that cause them; rates | `CostBook` by INSTANCE |
| `Economics` | conversion with a cached rate; the summaries of the costs | `Requests` |
| `Requests` | the handlers under way, shared by the modules below | |
| `PrintImages` | the print images of one item: enhance, revert, upload, replace | `Requests` |
| `PrintGeometry` | resolution, upscale factor, fit and crop, as operators | |
| `SyncRuns` | syncs and backfills: lock, flag, log rows, restarts | |
| `Fulfilment` | the fulfilment badge of one order: webhooks, queue, reconciliation | |
| `Catalogue` | products: full sync, webhooks, administrators | `Requests` |
| `Cart`, `Pets`, `Paintings`, `Styles` | one cart, the photos of one pet, a customer's saved paintings, one style with its pipeline | `Requests` |
| `MC*` | symmetry, small sets, and the choice of a component, for TLC | the modules they check |
| `SetLemmas` | facts about finite sets, extrema and sums, for the proofs | |
| `CreditLedgerProofs`, `GenerationsProofs`, `OrdersProofs`, `ExpensesProofs`, `AuthSessionsProofs` | theorems | the module they are about |
| `StudioProofs` | theorems about `Pets`, `Paintings`, `PrintImages` and `PrintGeometry` | these, `SetLemmas` |
| `ShopProofs` | theorems about `SyncRuns`, `Catalogue`, `Styles`, `Economics` and `Cart` | these, `SetLemmas` |

**CreditLedger.** `balance` is `User.generationCredits`, `ledger` the set of
`CreditTransaction` rows. Each operation is one transaction in the code and one
action here; the unique key is `Posted`.

**Generations.** An action is what the code does between two awaits: a worker's
`pc` names the await it is at. Creation with its spend is one transaction; adding
the job is a second step that may be lost. BullMQ is external and modelled as the
code configures it: one attempt, a lock per job that a live worker can lose
(so that two workers run one job), one tolerated stall. The providers are a single
step that succeeds or throws. `DatabaseFails` is an error of the database where nothing recovers
from it: in the two calls before the `try` of `process`, in `markFailed`'s own update or in
its refund. A call that throws is taken to have written nothing.

**AccountStatus and AuthSessions.** A request in flight is a record: operation,
next step, what it read. A transition is a read with its guards and then a
transaction that does not look again, as in the code. `now` counts seconds, as
finely as a JWT does. `auth` and `closures` are history: they say which closing of the
account a token was authorised before. A call that throws ends the request where it is
(`RequestFails`), but for those whose errors the code swallows: when limiting the sessions
fails (`LimitFails`), the new one is inserted all the same, and `unlimited` counts how often.

**Orders.** One order with two lines; a process of `Proc` is one execution of a
handler, whose `at` names the await it is at. Shopify is external: its order
changes, and every payload ever sent may be ingested at any time, which covers
late, repeated and reordered webhooks, retried jobs, backfills and resyncs. A handler may
fail at every step (`Fail`), and grants and reversals may fail alone, as their
errors are only logged. Units per line are one, and the one generation of the order
is reduced to its status.

What a line sells is not given: the ingestion looks for its product in the catalogue and may not
find it (`catalogue`, "unknown"), and the mark of a credit pack (`packs`) and the mapping of its
variant to credits (`mapped`) are set apart from one another. Syncs and administrators change all
three at any moment (`UpsertProduct`, `SetCreditPackProduct`, `SetCreditPackVariants`,
`DeleteProduct`), and each step of a handler that reads them reads them as they are then: the status
of a line, its transitions, the bonus, the packs' credits and their reversal. `asPack` and `asGoods`
are history: what a line was taken for each time it was read. `Unclear` stands for a
`financial_status` that is absent or that the code does not name. A product that is
deleted and synced again is taken for the same one.

**Requests and the modules that use it.** A process takes up a handler
(`Dispatch`), goes from await to await (`Become`) with what it read in `job[p]`,
and drops out wherever an await throws (`PaintingFails`, `StyleFails`, `Fail`, ...). One
statement is one step (`Once`); so is a `$transaction`. Storage is a set of
keys: an upload adds a new one, a deletion removes one, throws, or has its error
swallowed, as the call in the code does.

* `PrintImages`: `Item` is the print columns of `OrderItem`; `Written` says which of them
  each handler sets. Which image an enhancement starts from is `ResolveOriginal` and `Input`.
* `PrintGeometry`: `Ask` picks a size of source, a format and an option; the operators
  round as the code does, in hundredths of a factor and in whole pixels.
* `Catalogue`: `shop` is what Shopify lists, `products` the rows. A sync fetches the
  list, then the metafields, which may fail, then writes product by product.
* `SyncRuns`: a run takes the Redis key or passes the flag, creates its log row,
  works, reports and frees. `Expire` is the five minutes of the key, `Restart` loses the
  flag and kills the runs. `lapsed` and `unnoticed` are history: the key expired
  under a run; two backfills passed the flag.
* `Fulfilment`: `Derive` computes the badge from FulfillmentOrders that are read
  one call after the order was; every call may fail, every webhook may be lost.
* `Expenses`: a slot of `recording` is one promise that records a cost; nobody awaits
  it. A deletion of the order lists the rows that name it, then detaches those it listed and deletes the
  order in one transaction, which takes along a row recorded in between. `Book` is the refinement
  mapping: the rows are the entries of `CostBook`, and `late` those the deletion did not list.
* `Economics`: one pair of currencies. A conversion keeps the entry it found (`seen`) beside
  what it fetched (`got`). A cost has the user that its row was created with, or none (`Missing`) if its
  order was a guest's. `GlobalSummary`, `CustomerSummary`, `ListForOrder`, `SampleUnitCost`,
  `GlobalEconomics` and `UserEconomics` are the readers, as operators.
* `Styles`: an image is known by its storage key, so that the image of a test and the
  result of the test's generation are one file in two rows, as they are in the code.

Definitions headed "Mutant of" are never part of a specification. Each is a
plausible slip in the definition after it, used to show that a property notices.

## 3. What is checked

| Run | Shows | Bounds |
|---|---|---|
| `credit_ledger` | `LedgerSpec` itself, all operations in any order | 2 accounts, 2 references, 4 rows: enough for grant, spend, refund and reversal of one account in any order |
| `generations` | the accounting, the order of delivery and refund, and that the pipeline implements `LedgerSpec` | 1 customer with 1-2 credits, 2 generations, 2 workers, 1 incident each: the last credit is raced for, and one job runs on both workers |
| `generations_liveness` | one generation through two incidents settles, under fairness | 1 generation, 2 workers, customer or administrator, 1 database error |
| `accounts` | what holds of one account in spite of all races | 2 requests at a time, 1 closing, limit of 1 session, 3 seconds of which a token lives 2, 1 failure to limit the sessions (`MaxFailures`), any request failing anywhere. No row is old enough to be deleted for its date alone, only revoked ones and those of a purge are; the theorems are for any time |
| `orders` | what holds of one order in spite of all races | art and a pack, the pack synced or not when the order comes, 2 processes, 3 handlers or changes of the catalogue, 1 change in Shopify beside the ones the backend asks for |
| `expenses` | the book of expenses is implemented, rates stay the administrators', the production cost settles under fairness | 1 order with 1 generation, 2 recordings at a time, 2 production costs, 2 entries, 1 lost recording, failed deletion or restart, a model that is seeded and one that is not. The rates are all of the seed's amount, which hides a seed that would overwrite one; the theorem `RatesStayTheAdmins` is for all amounts |
| `studio` | the rows of an item point to files that exist, originals survive, what is printed is the source or its base; upscales stay within the limits | 2 administrators, 4 requests, 7 files; 9 sizes of source by 2 formats by every target and factor |
| `shop` | one of six components at a time: cart, pets, paintings, catalogue, a style, the converted costs (see below) | 2 requests at a time, 3 in all (4 about a style), each failing at any await |
| `sync` | runs exclude one another save for the two gaps, the lock is freed and logs settle, the badge catches up | 3 runs of either kind and 1 restart; 2 FulfillmentOrders, 3 changes in Shopify, 1 failed call |

In `shop` a behaviour is of one component, chosen by `about`; the components share
nothing, so nothing is lost by not interleaving them. Of the cart: the quantities add up but for additions that met. Of
the pets: the photo limit and the primary photo are exceeded by the requests that met and no more,
and a row has its file. Of paintings: files, limit, and the design of a bought painting
(`OrderedDesignKept`). Of the catalogue: a sync that nothing disturbs leaves the
mirror of Shopify, kinds are never blanked by a failed call, there is one PBN product unless two choices of it
met. Of a style: its rows
have their files, and nothing in use goes unless forced. Of the costs: a conversion never
takes an older rate than it found, unless two fetches overlapped, and the figures made of the costs agree,
with the costs of guests apart.

A pair of handlers is where each of these races shows: every one of the
read-then-write windows is opened by one handler and used by one other, and the third
makes what they race about. The
counters (`MaxIncidents`, `MaxClosures`, `MaxTokens`, `MaxTime`, `MaxJobs`,
`MaxRows`, `MaxShopEvents`, `MaxShopSteps`, `MaxOutages`, `MaxRestarts`, `MaxEntries`, `MaxKeys`, `MaxUploads`,
`MaxArtifacts`, `MaxFiles`, `MaxDays`, `MaxFailures`, ...; database errors, one per generation) stop the search, not the code, so these
runs do not check for deadlock unless some action always remains.

**Fairness.** Only what runs by itself is fair; requests, webhooks, deletions, failures and
restarts never are.

* `generations_liveness`: a started HTTP handler goes on, some live
  worker takes a waiting job, a worker goes on with the handler it runs, and BullMQ's
  stall checker runs on its timer. `PaidGenerationSettles` lists the exits that the code does not recover from
  (`LeftUnsettled`): deleted, never queued, a second incident, a webhook's own status, a database
  error before the `try` (`image-generation.processor.ts:57-63`) or in `markFailed`
  (`generations.service.ts:464`), a refund whose error was logged.
* `expenses`: a promise under way goes on. `CostSettles` further assumes that an administrator keeps
  opening the order, which records its cost again.
* `sync`: a run that started goes on, a Redis key expires when its time is up; a queued badge job is taken,
  the ten-minute sweep runs, a handler goes on.

### Disagreements

Runs that TLC must find violated, each against words in the repository:

| Run | The words | The program |
|---|---|---|
| `accounts_closed_sessions` | no instant with the account closed and sessions open | a request authorised before inserts its session after |
| `orders_cancelled` | a cancellation in Shopify always wins | an order cancelled without a refund keeps its items in the production queue |
| `print_source` | an upload is both the print image and the source of enhancements | the enhanced base of the old art stays, and a later adjustment prints it |

Other behaviours met while modelling, which surprise or contradict a comment, and for which
there is no run of their own. The models reach them, but for the trace of a deleted order and the
map of kinds, whose data they leave out:

* an order whose `financial_status` is absent or none that the code names counts as paid: its items go to
  production, and only the credits wait for "paid" (the default branch of
  `production-status.util.ts:146-172`; `NothingBeforePayment` states both);
* a credit pack whose product is not synced yet (`orders.service.ts:609-613`), or no longer marked
  (`products.service.ts:267-284`), goes to production against the comment at `orders.service.ts:664-665`
  (`PacksAreNotProduced` excepts such readings); a pack whose variant is not mapped earns the bonus of
  goods, and so does a digital product that is not synced, against `orders.service.ts:43-45`;
* a database error at `image-generation.processor.ts:57-63` or in `markFailed`'s update leaves a paid
  generation pending or processing, or failed and not refunded, for ever: its job has one attempt;
* an error of `limitActiveTokens` is logged and the session inserted beyond the limit
  (`auth.service.ts:657-659`; its comment says that the oldest are revoked if the limit is exceeded, 624-627);
* a cost recorded between the listing and the deletion of its order goes with the order, against
  `orders.service.ts:287-289`; and a cost that is recorded again after it loses the trace of the deleted order,
  which the update of the upsert overwrites (`expenses.service.ts:100`);
* the costs of guests' orders are in no customer's total (`expenses.service.ts:329-332`), against
  `admin-orders.service.ts:397-401`, which says that every aggregation by user must count them;
* two choices of the PBN product that meet leave two marked, against `products.service.ts:142-143` and
  `240-242`; so do two of the credit pack's (`263-266`);
* a sync takes a product that is not in the map of kinds for one without a kind and blanks it
  (`sync.service.ts:182`), against `shopify-api.service.ts:134-135`, which tells the two apart;
* a login that read `inactive` overwrites a ban (`auth.service.ts:46-47` says it never does);
* a refresh within one second of signing collides with its own hash and the session is gone (`docs/1. TOKEN_ROTATION.md:9-11`);
* an ingestion that read an item before writes over the administrator's progress (`orders.service.ts:712-713`);
* an order linked while half ingested gets part of the bonus and gives back all of it (`orders.service.ts:454`);
* `docs/FLUJOS.md:236` says generations are free, and each costs a credit;
* the shop's total of expenses leaves out the rows for which no rate was found, the
  customers' totals count them with their own amount (`ReadersAgree` states the difference);
* the permanent deletion of a style leaves its reference image in the storage; removing the image of a test
  deletes the file of its generation's result, and a deactivated style still takes generations by its id.

## 4. What is proved

For every number of accounts, requests, devices, generations, workers, order lines, recordings,
runs, products and handlers, from the named assumptions on the constants only. Each is stated where
its constants are declared. They say that a set of processes or lines is finite where something is
counted (`SomeProcesses`, `RequestsAreFinite`, `LinesAreNumbered`), that bounds, amounts and limits
are natural numbers (`AmountIsPositive`, `PackGrants`, `OrderBounds`, `SyncConstants`,
`PetConstants`, `PaintingConstants`, `PrintConstants`, `CartConstants`, `EconomicsConstants`, ...),
that the marks for "nothing" are none of the things they stand beside (`NoneIsNothing`,
`NoneIsNoCost`, `MissingIsNoRate`), and what values an option or a column takes (`KindsOfLines`,
`AccountsOfOrders`, `OrderEntries`, `StyleConstants`, `CatalogueConstants`; the ranges of the DTO in
`GeometryConstants`, with sizes in whole inches and hundreds of pixels). TLC evaluates them in every run.

**How the proofs go.** An invariant that TLC found true is seldom inductive, because between a read
and the write that follows from it a handler carries what it read. The strengthening says
of each handler under way what is still true of what it carries. A lemma for each
action (`...KeepsInv`) proves that a step keeps the invariant; where many actions do the same to
the tables (age the rows, move one handler on), one lemma covers them all. The theorem
combines them by temporal logic.

* **Sets and sums** (`SetLemmas`). The library folds a set in an order of its own
  (`CHOOSE`). `SumOf` is that sum for a function, and the lemmas say that a new element adds
  its value, that a union adds up, that sums may be taken group by group (`SumOfGroups`) and
  what a change of one value changes. Induction over a finite set has an operator for its
  parameter, which the provers cannot instantiate; `SetInduction` takes instead the set of
  subsets for which the fact holds.
* **The ledger** (`CreditLedgerProofs`): `LedgerTypeCorrect`, `LedgerIdempotent`,
  `RefundsMirrorSpends`, `NoOverdraftBySpending`, `BalanceMovesWithLedger`, and
  `BalanceIsAlwaysTheSum`. The invariant is `LedgerInv`: `OverdraftOnlyByReversal` is not
  inductive without the guard's meaning, and `RefundMirrorsSpend` needs `OneRowPerReference` and
  that every spend is of one credit, so the four are proved together. `SumInv` adds that the
  ledger is finite. The lemmas say what each operation does for any caller (nothing, or one
  new row), which is how the pipeline and the orders reuse them.
* **The pipeline** (`GenerationsProofs`): `GenerationsTypeCorrect`, `GenerationsArePaid` and
  `SpendsAreForGenerations`, by `AccountingInv`: the ledger's invariant, the types, the two
  accounting statements, which support each other (a spend's reference tells which generation it
  paid), and that tests exist. `PipelineImplementsLedger` is the refinement `Spec => LedgerSpec`: each
  action is one ledger operation or leaves both tables alone; `PipelineKeepsBalances` follows.
  `DeliveredStaysCharged` and `CompletedStays` speak of the end of a long chain of steps, so
  `StageInv` says, for a generation without an incident, that at most one worker is on it, and which
  status, job state and refund go with that worker's step. `FinishedGenerationsAreSettled` allows one
  incident: `SettleInv` says that an unsettled generation is `Pledged`, to a job that will run or
  to a worker that has its refund or its result still before it, and that one stall is not
  yet one too many. A database error that nothing recovers from is excused by name (`dbFaults`).
* **Orders** (`OrdersProofs`): `OrdersTypeCorrect`, `NothingComesBeforePayment`,
  `ReversalsFollowGrants`, `PacksAreNeverProduced`, `ShopifyCancelsFirst`, by `OrdersInv`. It says of
  every handler (`JobOK`) that what it is about to write is `Permitted`, that what it is about to
  reverse is `Reversible`, and so on, in terms of facts that never become false again: statuses
  reported, rows posted, cancellations in Shopify, what a line was taken for (`asPack`, `asGoods`). So the
  catalogue may change as it likes in between (`RegistrationKeepsInv`). `OrdersImplementLedger` is the second
  refinement of `LedgerSpec`, and `OrdersKeepTheLedger` its consequence.
* **Sessions** (`AuthSessionsProofs`): `SessionsTypeCorrect`, `RotationMintsOnce` and
  `ClosedStayUnauthorised`, by `SessionInv`. A login or a refresh carries the authority it read through
  several steps, so `ClosingInv` says of the requests in flight what the property says of the rows.
  `RotationInv` says, for each token, that one row or one request at most descends from it and that
  it was revoked before. It needs the ids to be unique, or the revocation might have met another
  row. `SessionsStayBounded` is a counting argument (`LimitInv`): for each number n from the
  limit on, the requests about to insert beside n other live sessions or more are at most as many as
  the bound leaves above n (`CrowdInv`); a limiting that failed raises the bound by one (`unlimited`).
* **The book of expenses** (`ExpensesProofs`): `ExpensesTypeCorrect`, `OneEntryEach`,
  `ExpensesImplementBook` (the refinement `ExpenseSpec => BookSpec`) and
  `RatesStayTheAdmins`, by `BookInv`: the types, and that no two rows have one id or one
  name. Without the latter, writing over *the* row of a name could take away two entries of
  the book. A deletion of the order maps to `Delete` of the book, which keeps every entry but the late ones.
* **Files** (`StudioProofs`, `ShopProofs`). `PetPhotosHaveFiles` and `PetPhotosStayBounded` by `PetInv`,
  `PaintingsStayInOrder` and `BoughtDesignIsKept` by `PbnInv`, `SourcesSurviveEnhancement`,
  `PrintedFilesAreThere` and `PrintsComeFromSource` by `PrintInv`, `StylesHaveTheirFiles` and `UsesAreNotLost`
  by `StyleInv`. They share a shape: a key is held by one row or one handler (`KeysApart`, `ArtifactsApart`,
  `PrintKeysApart`, `KindsApart`), and a stored file is a row's, or a handler's that will write it to a
  row or is about to delete it. The limits count what handlers that passed the check will insert
  (`WithinReach`, `SavedWithinReach`). Where a property is about handlers that came one by one,
  the invariant says what the lone one has done so far (`OneByOne`, `RowsInOrder`).
* **Sizes** (`StudioProofs`): `UpscalesFit` and `AdjustmentsKeepResolution` are arithmetic, for every size
  and format. Reducing to 300 dots per inch and then to fewer rounds twice; `RoundedTwice` bounds what
  that can cost by one pixel, and `SameSide` says that the side that touches the format is the same
  at every resolution.
* **Synchronisation and the catalogue** (`ShopProofs`): `RunsKeepApart`, by `SyncInv`: a sync past its start holds the
  lock unless the lock lapsed, a backfill at work has the flag set unless two passed it unnoticed,
  and the flag is up only while one is at work. `CatalogueMirrorsShopify`, `OneProductOfTheKit` and
  `KindsAreShopifys`, by `CatalogueInv`: `Progress` says how far a sync at each of its steps has copied the
  shop, as long as nothing disturbs it, and every kind that a handler carries was told by Shopify.
* **Costs** (`ShopProofs`): `RatesKeepUp`, by `ConversionInv`, whose `OneFetch` says that without an overlap
  no fetch is behind the cache; and `FiguresAgree`, by `CostsInv`: each row adds up (`RowAddsUp`), the rest
  is that sums agree in whatever order and in whatever groups they are taken, guests being a group of their own.
* **The cart** (`ShopProofs`): `CartAlwaysAddsUp`, by `CartInv`. A handler may write an old quantity back, so no bound on the rows
  alone is kept by a step. `PeakInv` gives each line id the largest quantity it ever could have,
  which bounds what the row *and* every reader hold, and whose sum is what was asked for.

### Only model-checked

* Liveness and everything under fairness: `PaidGenerationSettles`, `CostSettles`, `RunsSettle`, `BadgeCatchesUp`.
  TLAPS 1.4 has no rules for `ENABLED`, on which fairness rests.
  The last is all that is said of `Fulfilment`.
* The three disagreements: a run shows a behaviour, which needs no proof.

### Not modelled

Prompts, the drawing of images and colour adjustments (data the properties do not tell
apart); the linking of Google accounts; the fields of pets and of profiles; formats and
compatibility rows, each written by one statement; the amounts that each variant of a pack is mapped to (one
amount for all); reading endpoints, the gallery and the statistics;
paging, parsing and signatures of Shopify's API; wiring and health. See `components` in `PROJECT.json`
for each part and the reason.

## 5. The plan

1. *Done*: all modules of the table above with their runs; proofs of the ledger, the pipeline, the orders,
   the expenses, the sessions, the studio and the shop.
2. Next: for `AccountStatus`, what a transition may never do to a status decided since it read, as a property of its
   own; the types of `Fulfilment`, and what its badge was derived from.
3. A specification of the limits that `AuthSessions`, `Pets` and `Paintings` share (a check, then a write that
   does not check again, exceeds a limit by the writers under way), which the three would implement.
