----------------------------- MODULE ShopProofs -----------------------------
(***************************************************************************)
(* Proofs about the shop: the runs that copy from Shopify and the          *)
(* catalogue that they write, the styles, the costs and the cart, for any  *)
(* number of runs and of handlers that meet at every await.                *)
(*                                                                         *)
(* What a handler read is old when it writes.  Each invariant says what is *)
(* still true of it: that Shopify told of a kind at some time, that a file *)
(* that was stored is there until its row is, that a rate was cached, that *)
(* a quantity was once asked for.                                          *)
(***************************************************************************)
EXTENDS SyncRuns, Cart, Catalogue, Styles, Economics, SetLemmas, SequenceTheorems

-----------------------------------------------------------------------------
(* The runs: the lock and the flag keep them apart as far as RunsApart says, *)
(* for any number of runs, restarts and expirations.                         *)

Asked == [kind : Kind, at : Place \ {"none"}]

SyncTypeOK ==
    /\ run \in [Run -> Asked \cup {NotAsked}]
    /\ lock \in BOOLEAN /\ flag \in BOOLEAN
    /\ lapsed \in BOOLEAN /\ unnoticed \in BOOLEAN

(***************************************************************************)
(* A run is to be kept apart from the moment it got past the lock or the   *)
(* flag, before its log row: unless the lock lapsed, a sync past it holds  *)
(* it; unless a backfill passed unnoticed, one that works has the flag set. *)
(***************************************************************************)
Past(kind) == RunsAt(kind, Working \cup {"log"})

LockInv == lapsed \/ (OneOf(Past("sync")) /\ (Past("sync") # {} => lock))

FlagInv ==
    /\ unnoticed \/ (OneOf(Past("backfill")) /\ (RunsAt("backfill", Working) # {} => flag))
    /\ flag => RunsAt("backfill", Working) # {}

SyncInv == SyncTypeOK /\ LockInv /\ FlagInv

-----------------------------------------------------------------------------
LEMMA SyncInitHolds == SyncInit => SyncInv
  <1>1. SyncInit => SyncTypeOK
    BY DEF SyncInit, SyncTypeOK
  <1>2. SyncInit => \A kind \in Kind : Past(kind) = {} /\ RunsAt(kind, Working) = {}
    BY DEF SyncInit, Past, RunsAt, NotAsked, Kind
  <1>3. SyncInit => LockInv /\ FlagInv
    BY <1>2 DEF SyncInit, LockInv, FlagInv, OneOf, Kind
  <1> QED  BY <1>1, <1>2, <1>3 DEF SyncInv

LEMMA NotAskedIsNowhere == NotAsked.kind \notin Kind /\ NotAsked.at \notin Working \cup {"log"}
  BY DEF NotAsked, Kind, Working

\* Who is where after a run began or went on.
LEMMA GotoMoves ==
    ASSUME SyncTypeOK, NEW r \in Run, run[r] # NotAsked,
           NEW at \in Place \ {"none"}, Goto(r, at)
    PROVE  /\ run' \in [Run -> Asked \cup {NotAsked}]
           /\ \A q \in Run : /\ run'[q].kind = run[q].kind
                            /\ run'[q].at = IF q = r THEN at ELSE run[q].at
  <1>1. run[r] \in Asked
    BY DEF SyncTypeOK
  <1>2. \A q \in Run : run'[q] = IF q = r THEN [kind |-> run[r].kind, at |-> at] ELSE run[q]
    BY <1>1 DEF Goto, SyncTypeOK, Asked
  <1>3. run' \in [Run -> Asked \cup {NotAsked}]
    BY <1>1, <1>2 DEF Goto, SyncTypeOK, Asked
  <1> QED  BY <1>1, <1>2, <1>3

LEMMA BeginAdds ==
    ASSUME SyncTypeOK, NEW r \in Run, NEW new \in Kind,
           NEW at \in Place \ {"none"}, Begin(r, new, at)
    PROVE  /\ run' \in [Run -> Asked \cup {NotAsked}]
           /\ run[r].kind \notin Kind
           /\ \A q \in Run : /\ run'[q].kind = IF q = r THEN new ELSE run[q].kind
                            /\ run'[q].at = IF q = r THEN at ELSE run[q].at
  <1>1. \A q \in Run : run'[q] = IF q = r THEN [kind |-> new, at |-> at] ELSE run[q]
    BY DEF Begin, SyncTypeOK
  <1>2. run' \in [Run -> Asked \cup {NotAsked}]
    BY <1>1 DEF Begin, SyncTypeOK, Asked
  <1>3. run[r].kind \notin Kind
    BY NotAskedIsNowhere DEF Begin
  <1> QED  BY <1>1, <1>2, <1>3

\* A restart leaves nobody at work.
LEMMA RestartKillsAll ==
    ASSUME SyncTypeOK, Restart
    PROVE  /\ run' \in [Run -> Asked \cup {NotAsked}]
           /\ \A kind \in Kind : Past(kind)' = {} /\ RunsAt(kind, Working)' = {}
  <1>1. \A r \in Run : run[r].at \in Working \cup {"log"} => run[r] # NotAsked
    BY NotAskedIsNowhere
  <1>2. \A r \in Run : run[r] # NotAsked => [run[r] EXCEPT !.at = "killed"] \in Asked
    BY DEF SyncTypeOK, Asked, Place
  <1>3. run' \in [Run -> Asked \cup {NotAsked}]
    BY <1>1, <1>2 DEF Restart, SyncTypeOK
  <1>4. \A r \in Run : run'[r].at \notin Working \cup {"log"}
    <2> SUFFICES ASSUME NEW r \in Run PROVE run'[r].at \notin Working \cup {"log"}
      OBVIOUS
    <2>1. CASE run[r].at \in Working \cup {"log"}
      BY <1>1, <2>1 DEF Restart, SyncTypeOK, Asked, Working
    <2>2. CASE run[r].at \notin Working \cup {"log"}
      BY <2>2 DEF Restart
    <2> QED  BY <2>1, <2>2
  <1> QED  BY <1>3, <1>4 DEF Past, RunsAt

-----------------------------------------------------------------------------
\* A run that goes on: where it goes and what it does to the lock and the
\* flag.
LEMMA AdvanceDoes ==
    ASSUME SyncTypeOK, NEW r \in Run, Advance(r)
    PROVE  /\ run[r] # NotAsked
           /\ UNCHANGED History
           /\ \/ /\ run[r].at = "log" /\ Goto(r, "work")
                 /\ flag' = (flag \/ run[r].kind = "backfill") /\ UNCHANGED lock
              \/ run[r].at = "log" /\ Goto(r, "over") /\ UNCHANGED <<lock, flag>>
              \/ /\ run[r].at \in Working /\ UNCHANGED <<lock, flag>>
                 /\ \E at \in Working : Goto(r, at)
              \/ /\ run[r].at \in Working
                 /\ Goto(r, "over") \/ Goto(r, "silent")
                 /\ \/ run[r].kind = "backfill" /\ flag' = FALSE /\ UNCHANGED lock
                    \/ run[r].kind = "sync" /\ lock' \in {FALSE, lock} /\ UNCHANGED flag
  <1>1. run[r].at \in Working \cup {"log"}
    BY DEF Advance, CreateSyncLog, Work, Report, ReportFailure, Release, Working
  <1> USE <1>1, NotAskedIsNowhere
  <1>2. CASE CreateSyncLog(r)
    BY <1>2 DEF CreateSyncLog, FlagOnStart
  <1>3. CASE Work(r) \/ Report(r) \/ ReportFailure(r)
    BY <1>3 DEF Work, Report, ReportFailure, Working, History
  <1>4. CASE Release(r)
    BY <1>4 DEF Release, Working, History
  <1> QED  BY <1>2, <1>3, <1>4 DEF Advance

\* Who is past and who works, before the step and after it.
LEMMA WhoIsPast ==
    ASSUME SyncTypeOK, NEW kind \in Kind
    PROVE  /\ RunsAt(kind, Working) \subseteq Past(kind)
           /\ \A r \in Run : run[r].kind = kind =>
                /\ r \in RunsAt(kind, Working) <=> run[r].at \in Working
                /\ r \in Past(kind) <=> run[r].at \in Working \cup {"log"}
  BY DEF Past, RunsAt

LEMMA PastMoves ==
    ASSUME SyncTypeOK, NEW r \in Run, run[r] # NotAsked,
           NEW at \in Place \ {"none"}, Goto(r, at), NEW kind \in Kind
    PROVE  /\ Past(kind)' = IF run[r].kind = kind /\ at \in Working \cup {"log"}
                            THEN Past(kind) \cup {r} ELSE Past(kind) \ {r}
           /\ RunsAt(kind, Working)' = IF run[r].kind = kind /\ at \in Working
                                       THEN RunsAt(kind, Working) \cup {r} ELSE RunsAt(kind, Working) \ {r}
  BY GotoMoves DEF Past, RunsAt

LEMMA PastBegins ==
    ASSUME SyncTypeOK, NEW r \in Run, NEW new \in Kind,
           NEW at \in Place \ {"none"}, Begin(r, new, at), NEW kind \in Kind
    PROVE  /\ Past(kind)' = IF new = kind /\ at \in Working \cup {"log"}
                            THEN Past(kind) \cup {r} ELSE Past(kind)
           /\ RunsAt(kind, Working)' = IF new = kind /\ at \in Working
                                       THEN RunsAt(kind, Working) \cup {r} ELSE RunsAt(kind, Working)
  BY BeginAdds DEF Past, RunsAt

-----------------------------------------------------------------------------
\* A run past the lock or the flag goes on; it leaves by itself, and then
\* nobody else was there.
LEMMA AdvanceKeepsInv ==
    ASSUME SyncInv, NEW r \in Run, Advance(r)
    PROVE  SyncInv'
  <1>1. SyncTypeOK /\ LockInv /\ FlagInv
    BY DEF SyncInv
  <1>2. run[r] # NotAsked /\ run[r].kind \in Kind /\ UNCHANGED <<lapsed, unnoticed>>
    BY <1>1, AdvanceDoes DEF SyncTypeOK, Asked, History
  <1>3. {"work", "over", "silent"} \cup Working \subseteq Place \ {"none"}
    BY DEF Place, Working
  <1>4. SyncTypeOK'
    BY <1>1, <1>2, <1>3, AdvanceDoes, GotoMoves DEF SyncTypeOK
  <1>5. "sync" \in Kind /\ "backfill" \in Kind /\ "sync" # "backfill"
    BY DEF Kind
  <1>6. ASSUME NEW at \in Working, Goto(r, at), run[r].at \in Working \cup {"log"},
               lock' = lock,
               \/ run[r].at \in Working /\ flag' = flag
               \/ flag' = (flag \/ run[r].kind = "backfill")
        PROVE  LockInv' /\ FlagInv'
    <2>1. Past("sync")' \subseteq Past("sync")
      BY <1>1, <1>2, <1>3, <1>5, <1>6, PastMoves, WhoIsPast
    <2>2. Past("backfill")' \subseteq Past("backfill")
      BY <1>1, <1>2, <1>3, <1>5, <1>6, PastMoves, WhoIsPast
    <2>3. RunsAt("backfill", Working)' =
            IF run[r].kind = "backfill" THEN RunsAt("backfill", Working) \cup {r}
            ELSE RunsAt("backfill", Working) \ {r}
      BY <1>1, <1>2, <1>3, <1>5, <1>6, PastMoves
    <2>4. run[r].kind # "backfill" => r \notin RunsAt("backfill", Working)
      BY DEF RunsAt
    <2>5. run[r].kind = "backfill" /\ run[r].at \in Working => r \in RunsAt("backfill", Working)
      BY DEF RunsAt
    <2>6. LockInv'
      BY <1>1, <1>2, <1>6, <2>1 DEF LockInv, OneOf
    <2>7. FlagInv'
      BY <1>1, <1>2, <1>4, <1>6, <2>2, <2>3, <2>4, <2>5 DEF FlagInv, OneOf, SyncTypeOK
    <2> QED  BY <2>6, <2>7
  <1>7. ASSUME NEW at \in {"over", "silent"}, Goto(r, at), run[r].at \in Working \cup {"log"},
               \/ run[r].at = "log" /\ UNCHANGED <<lock, flag>>
               \/ run[r].kind = "backfill" /\ flag' = FALSE /\ UNCHANGED lock
               \/ run[r].kind = "sync" /\ lock' \in {FALSE, lock} /\ UNCHANGED flag
        PROVE  LockInv' /\ FlagInv'
    <2>1. at \notin Working \cup {"log"}
      BY <1>7 DEF Working
    <2>2. /\ Past("sync")' = Past("sync") \ {r}
          /\ Past("backfill")' = Past("backfill") \ {r}
          /\ RunsAt("backfill", Working)' = RunsAt("backfill", Working) \ {r}
      BY <1>1, <1>2, <1>3, <1>5, <1>7, <2>1, PastMoves
    <2>3. /\ run[r].kind = "sync" => r \in Past("sync") /\ r \notin RunsAt("backfill", Working)
          /\ run[r].kind = "backfill" => r \in Past("backfill") /\ r \notin Past("sync")
          /\ run[r].kind \in {"sync", "backfill"}
          /\ run[r].at = "log" => r \notin RunsAt("backfill", Working)
          /\ RunsAt("backfill", Working) \subseteq Past("backfill")
      BY <1>2, <1>5, <1>7 DEF Past, RunsAt, Working, Kind
    <2>4. LockInv'
      <3>1. CASE lapsed
        BY <1>2, <3>1 DEF LockInv
      <3>2. CASE ~lapsed /\ run[r].kind = "sync"
        <4>1. Past("sync")' = {}
          BY <1>1, <2>2, <2>3, <3>2 DEF LockInv, OneOf
        <4> QED  BY <4>1 DEF LockInv, OneOf
      <3>3. CASE ~lapsed /\ run[r].kind # "sync"
        <4>1. lock' = lock
          BY <1>7, <3>3
        <4> QED  BY <1>1, <1>2, <2>2, <3>3, <4>1 DEF LockInv, OneOf
      <3> QED  BY <3>1, <3>2, <3>3
    <2>5. FlagInv'
      <3>1. CASE run[r].kind = "backfill" /\ flag' = FALSE
        <4>1. unnoticed \/ Past("backfill")' = {}
          BY <1>1, <2>2, <2>3, <3>1 DEF FlagInv, OneOf
        <4>2. Past("backfill")' = {} => RunsAt("backfill", Working)' = {}
          BY <2>2, <2>3
        <4> QED  BY <1>2, <3>1, <4>1, <4>2 DEF FlagInv, OneOf
      <3>2. CASE flag' = flag /\ r \notin RunsAt("backfill", Working)
        <4>1. RunsAt("backfill", Working)' = RunsAt("backfill", Working)
          BY <2>2, <3>2
        <4> QED  BY <1>1, <1>2, <2>2, <3>2, <4>1 DEF FlagInv, OneOf
      <3> QED  BY <1>5, <1>7, <2>3, <3>1, <3>2
    <2> QED  BY <2>4, <2>5
  <1>8. "work" \in Working
    BY DEF Working
  <1>9. LockInv' /\ FlagInv'
    BY <1>6, <1>7, <1>8, AdvanceDoes, <1>1
  <1> QED  BY <1>4, <1>9 DEF SyncInv

LEMMA BeginKeepsInv ==
    ASSUME SyncInv, NEW r \in Run, AcquireMutex(r) \/ TriggerBackfill(r)
    PROVE  SyncInv'
  <1>1. SyncTypeOK /\ LockInv /\ FlagInv
    BY DEF SyncInv
  <1>2. "sync" \in Kind /\ "backfill" \in Kind /\ "sync" # "backfill"
    BY DEF Kind
  <1>3. {"log", "over"} \subseteq Place \ {"none"} /\ "log" \notin Working /\ "over" \notin Working
    BY DEF Place, Working
  <1>4. CASE AcquireMutex(r)
    <2>1. PICK at \in {"log", "over"} :
            /\ Begin(r, "sync", at)
            /\ IF lock THEN at = "over" /\ UNCHANGED lock ELSE at = "log" /\ lock' = TRUE
      BY <1>4 DEF AcquireMutex
    <2>2. UNCHANGED <<flag, lapsed, unnoticed>>
      BY <1>4 DEF AcquireMutex, History
    <2>3. /\ Past("sync")' = IF at = "log" THEN Past("sync") \cup {r} ELSE Past("sync")
          /\ Past("backfill")' = Past("backfill")
          /\ RunsAt("backfill", Working)' = RunsAt("backfill", Working)
      BY <1>1, <1>2, <1>3, <2>1, PastBegins
    <2>4. SyncTypeOK'
      BY <1>1, <1>2, <1>3, <2>1, <2>2, BeginAdds DEF SyncTypeOK
    <2>5. LockInv' /\ FlagInv'
      BY <1>1, <2>1, <2>2, <2>3 DEF LockInv, FlagInv, OneOf
    <2> QED  BY <2>4, <2>5 DEF SyncInv
  <1>5. CASE TriggerBackfill(r)
    <2>1. PICK at \in {"log", "over"} :
            Begin(r, "backfill", at) /\ at = IF flag THEN "over" ELSE "log"
      BY <1>5 DEF TriggerBackfill
    <2>2. /\ UNCHANGED <<lock, flag, lapsed>>
          /\ unnoticed' = (unnoticed \/ (~flag /\ RunsAt("backfill", {"log"}) # {}))
      BY <1>5 DEF TriggerBackfill
    <2>3. /\ Past("backfill")' = IF at = "log" THEN Past("backfill") \cup {r} ELSE Past("backfill")
          /\ Past("sync")' = Past("sync")
          /\ RunsAt("backfill", Working)' = RunsAt("backfill", Working)
      BY <1>1, <1>2, <1>3, <2>1, PastBegins
    <2>4. SyncTypeOK'
      BY <1>1, <1>2, <1>3, <2>1, <2>2, BeginAdds DEF SyncTypeOK
    <2>5. Past("backfill") = RunsAt("backfill", Working) \cup RunsAt("backfill", {"log"})
      BY DEF Past, RunsAt
    <2>6. LockInv' /\ FlagInv'
      BY <1>1, <2>1, <2>2, <2>3, <2>5 DEF LockInv, FlagInv, OneOf
    <2> QED  BY <2>4, <2>6 DEF SyncInv
  <1> QED  BY <1>4, <1>5

LEMMA SyncInvIsKept ==
    ASSUME SyncInv, [SyncNext]_syncVars
    PROVE  SyncInv'
  <1>1. SyncTypeOK /\ LockInv /\ FlagInv
    BY DEF SyncInv
  <1>2. CASE UNCHANGED syncVars
    BY <1>2 DEF syncVars, SyncInv, SyncTypeOK, LockInv, FlagInv, Past, RunsAt
  <1>3. CASE Expire
    <2>1. /\ UNCHANGED <<run, flag, unnoticed>> /\ lock' = FALSE
          /\ lapsed' = (lapsed \/ Past("sync") # {})
      BY <1>3 DEF Expire, Past
    <2>2. /\ Past("sync")' = Past("sync") /\ Past("backfill")' = Past("backfill")
          /\ RunsAt("backfill", Working)' = RunsAt("backfill", Working)
      BY <2>1 DEF Past, RunsAt
    <2> QED  BY <1>1, <2>1, <2>2 DEF SyncInv, SyncTypeOK, LockInv, FlagInv, OneOf
  <1>4. CASE Restart
    <2>1. "sync" \in Kind /\ "backfill" \in Kind
      BY DEF Kind
    <2>2. UNCHANGED <<lock, lapsed, unnoticed>> /\ flag' = FALSE
      BY <1>4 DEF Restart
    <2> QED  BY <1>1, <1>4, <2>1, <2>2, RestartKillsAll
             DEF SyncInv, SyncTypeOK, LockInv, FlagInv, OneOf
  <1> QED  BY <1>2, <1>3, <1>4, AdvanceKeepsInv, BeginKeepsInv DEF SyncNext

\* Two syncs are at work at once only after the lock lapsed under one, two
\* backfills only after both passed the flag before one set it, whatever
\* fails, restarts or expires.
THEOREM RunsKeepApart == SyncSpec => []RunsApart
  <1>1. SyncInv /\ [SyncNext]_syncVars => SyncInv'
    BY SyncInvIsKept
  <1>2. SyncInv => RunsApart
    BY DEF SyncInv, LockInv, FlagInv, RunsApart, SyncsApart, BackfillsApart, Past, RunsAt, OneOf
  <1> QED  BY <1>1, <1>2, SyncInitHolds, PTL DEF SyncSpec

-----------------------------------------------------------------------------
(* The catalogue that is copied from Shopify.                              *)

\* Which handler is at which of its steps.
CatalogueSteps ==
    [sync |-> {"kinds", "next", "upsert", "variants", "absent", "orphans"},
     hook |-> {"upsert", "variants", "absent"}, pbn |-> {"choose"}]
Writing(j) == j.at \in {"upsert", "variants", "absent"}

CatalogueJobOK(j) ==
    /\ j.at \in CatalogueSteps[j.op]
    /\ Writing(j) => \E x \in Product : j.now = {x} /\ j.known[x] \in Listed
    /\ j.op = "sync" /\ ~Writing(j) => j.now = {}
    /\ j.op = "sync" /\ j.at # "orphans" => \A x \in j.left : j.known[x] \in Listed
    /\ j.op = "pbn" => \A x, y \in j.now : x = y

CatalogueTypeOK ==
    /\ shop \in [Product -> Listed \cup {Absent}]
    /\ products \in [Product -> Row \cup {NoRow}]
    /\ hooks \subseteq Hook
    /\ \A h \in hooks : h.type = "upsert" => h.as \in Listed
    /\ kindsHad \in [Product -> SUBSET {PrintArt, NoKind}]
    /\ mirror \in {"no", "syncing", "yes"} /\ flagRaced \in BOOLEAN
    /\ job \in [Proc -> CatalogueJob \cup {Idle}]
    /\ \A p \in Proc : job[p] # Idle => CatalogueJobOK(job[p])

\* The kinds that a handler was told are ones that Shopify had.
KindsTold ==
    /\ \A x \in Product : ShopKind(x) \in kindsHad[x]
    /\ \A p \in Proc : job[p] # Idle => \A x \in Product :
          job[p].op = "sync" \/ x \in job[p].now => job[p].kinds[x] \in kindsHad[x] \cup {Unknown}

\* Until two choices meet, the one under way knows all that is marked.
Choosing(j) == j # Idle /\ j.op = "pbn"
ChoicesApart ==
    ~flagRaced =>
        /\ \A x, y \in Flagged : x = y
        /\ \A p, q \in Proc : Choosing(job[p]) /\ Choosing(job[q]) => p = q
        /\ \A p \in Proc : Choosing(job[p]) => Flagged \subseteq job[p].cleared \cup job[p].now

\* How far an undisturbed sync has come.
Copied(x) ==
    /\ products[x].row /\ products[x].active = shop[x].active
    /\ products[x].on \subseteq shop[x].variants
    /\ shop[x].variants \cap Formatted \subseteq products[x].on
Progress(j) ==
    /\ j.known = shop
    /\ j.at # "orphans" => \A x \in InShop \ (j.left \cup j.now) : Copied(x)
    /\ j.at \in {"variants", "absent"} => \A x \in j.now :
          products[x].row /\ products[x].active = shop[x].active
    /\ j.at = "absent" => \A x \in j.now : shop[x].variants \cap Formatted \subseteq products[x].on
    /\ j.at = "orphans" => \A x \in Product :
          IF x \in InShop THEN Copied(x) /\ x \notin j.left
          ELSE products[x].row /\ products[x].active => x \in j.left
Mirroring(j) == j # Idle /\ j.op = "sync"
MirrorKept ==
    /\ mirror = "yes" => \A p \in Proc : job[p] = Idle \/ Choosing(job[p])
    /\ mirror = "syncing" =>
          /\ \E p \in Proc : Mirroring(job[p])
          /\ \A p \in Proc : job[p] = Idle \/ Choosing(job[p]) \/ Mirroring(job[p])
          /\ \A p, q \in Proc : Mirroring(job[p]) /\ Mirroring(job[q]) => p = q
          /\ \A p \in Proc : Mirroring(job[p]) => Progress(job[p])

CatalogueInv ==
    /\ CatalogueTypeOK /\ KindsTold /\ ChoicesApart /\ MirrorKept /\ SyncMirrorsShopify
LEMMA CatalogueAtWork ==
    ASSUME CatalogueInv, NEW p \in Proc, job[p].at # "idle"
    PROVE  /\ CatalogueTypeOK /\ job[p] # Idle /\ job[p] \in CatalogueJob /\ CatalogueJobOK(job[p])
           /\ \A x \in Product : job[p].op = "sync" \/ x \in job[p].now =>
                  job[p].kinds[x] \in kindsHad[x] \cup {Unknown}
  BY DEF CatalogueInv, CatalogueTypeOK, KindsTold, Idle

\* A handler that goes on, and marks no product.
LEMMA CatalogueQuiet ==
    ASSUME CatalogueInv, NEW p \in Proc, NEW j \in CatalogueJob \cup {Idle},
           job' = [job EXCEPT ![p] = j],
           UNCHANGED <<shop, kindsHad, flagRaced>>, hooks' \subseteq hooks,
           mirror' \in {"no", "syncing", "yes"},
           products' \in [Product -> Row \cup {NoRow}], Flagged' \subseteq Flagged,
           j # Idle => CatalogueJobOK(j), ~Choosing(j),
           j # Idle => \A x \in Product : j.op = "sync" \/ x \in j.now =>
               j.kinds[x] \in kindsHad[x] \cup {Unknown}
    PROVE  CatalogueTypeOK' /\ KindsTold' /\ ChoicesApart'
  <1>1. CatalogueTypeOK /\ job'[p] = j /\ \A q \in Proc \ {p} : job'[q] = job[q]
    BY DEF CatalogueInv, CatalogueTypeOK
  <1>2. CatalogueTypeOK'
    BY <1>1 DEF CatalogueTypeOK
  <1>3. KindsTold'
    BY <1>1 DEF CatalogueInv, KindsTold, ShopKind, InShop
  <1>4. ChoicesApart'
    BY <1>1 DEF CatalogueInv, ChoicesApart
  <1> QED  BY <1>2, <1>3, <1>4

LEMMA CatalogueDisturbed ==
    ASSUME mirror' = "no"
    PROVE  MirrorKept' /\ SyncMirrorsShopify'
  BY DEF MirrorKept, SyncMirrorsShopify

\* The full sync goes on.
LEMMA CatalogueUndisturbed ==
    ASSUME CatalogueInv, NEW p \in Proc, NEW j,
           job' = [job EXCEPT ![p] = j], UNCHANGED mirror,
           Mirroring(job[p]), Mirroring(j),
           mirror = "syncing" /\ Progress(job[p]) => Progress(j)'
    PROVE  MirrorKept' /\ SyncMirrorsShopify'
  <1>1. CatalogueTypeOK /\ job'[p] = j /\ \A q \in Proc \ {p} : job'[q] = job[q]
    BY DEF CatalogueInv, CatalogueTypeOK
  <1>2. mirror # "yes"
    BY DEF CatalogueInv, MirrorKept, Mirroring, Choosing
  <1>3. SyncMirrorsShopify'
    BY <1>2 DEF SyncMirrorsShopify
  <1>4. ASSUME mirror = "syncing" PROVE MirrorKept'
    <2>1. \A q \in Proc \ {p} : ~Mirroring(job[q]) /\ (job[q] = Idle \/ Choosing(job[q]))
      BY <1>4 DEF CatalogueInv, MirrorKept
    <2>2. Progress(j)'
      BY <1>4 DEF CatalogueInv, MirrorKept
    <2> QED  BY <1>1, <1>2, <2>1, <2>2 DEF MirrorKept
  <1> QED  BY <1>2, <1>3, <1>4 DEF MirrorKept

\* The rows of the products: what is written to one keeps its mark, if it had one.
LEMMA CatalogueRowWritten ==
    ASSUME CatalogueInv, NEW x \in Product, NEW row \in Row \cup {NoRow},
           products' = [products EXCEPT ![x] = row],
           row.row /\ row.pbn => products[x].row /\ products[x].pbn
    PROVE  /\ products' \in [Product -> Row \cup {NoRow}] /\ Flagged' \subseteq Flagged
           /\ products'[x] = row /\ \A y \in Product \ {x} : products'[y] = products[y]
  <1>1. products \in [Product -> Row \cup {NoRow}]
    BY DEF CatalogueInv, CatalogueTypeOK
  <1>2. products'[x] = row /\ \A y \in Product \ {x} : products'[y] = products[y]
    BY <1>1
  <1>3. Flagged' \subseteq Flagged
    BY <1>2 DEF Flagged, InRows
  <1> QED  BY <1>1, <1>2, <1>3

LEMMA ShopChangesKeepsInv ==
    ASSUME CatalogueInv, NEW x \in InShop, NEW new \in Edited(x), ShopChanges(x, new)
    PROVE  CatalogueInv'
  <1>1. CatalogueTypeOK /\ x \in Product /\ shop[x] \in Listed
    BY DEF CatalogueInv, CatalogueTypeOK, InShop, Absent
  <1>2. new \in Listed \cup {Absent} /\ (new.listed => new \in Listed)
    <2>1. CASE new = Absent
      BY <2>1 DEF Absent
    <2>2. CASE new = [shop[x] EXCEPT !.active = ~@] \/ new = [shop[x] EXCEPT !.kind = NoKind]
      BY <1>1, <2>2 DEF Listed
    <2>3. ASSUME NEW v \in shop[x].variants, new = [shop[x] EXCEPT !.variants = @ \ {v}]
          PROVE  new \in Listed
      BY <1>1, <2>3 DEF Listed
    <2> QED  BY <2>1, <2>2, <2>3 DEF Edited
  <1>3. /\ shop' = [shop EXCEPT ![x] = new]
        /\ kindsHad' = [kindsHad EXCEPT ![x] = @ \cup {IF new.listed THEN new.kind ELSE NoKind}]
        /\ UNCHANGED <<products, flagRaced, job>> /\ mirror' = "no"
        /\ \/ hooks' = hooks
           \/ hooks' = hooks \cup
                {[type |-> IF new.listed THEN "upsert" ELSE "delete", of |-> x, as |-> new]}
    BY DEF ShopChanges, Disturb
  <1>4. hooks' \subseteq Hook /\ \A h \in hooks' : h.type = "upsert" => h.as \in Listed
    BY <1>1, <1>2, <1>3 DEF CatalogueTypeOK, Hook
  <1>5. (IF new.listed THEN new.kind ELSE NoKind) \in {PrintArt, NoKind}
    BY <1>2 DEF Listed
  <1>6. CatalogueTypeOK'
    BY <1>1, <1>2, <1>3, <1>4, <1>5 DEF CatalogueTypeOK
  <1>7. \A y \in Product : kindsHad[y] \subseteq kindsHad'[y]
    BY <1>1, <1>3 DEF CatalogueTypeOK
  <1>8. \A y \in Product : ShopKind(y)' \in kindsHad'[y]
    <2>1. ASSUME NEW y \in Product, y # x PROVE ShopKind(y)' \in kindsHad'[y]
      <3>1. ShopKind(y)' = ShopKind(y)
        BY <1>1, <1>3, <2>1 DEF ShopKind, InShop, CatalogueTypeOK
      <3> QED  BY <1>7, <3>1 DEF CatalogueInv, KindsTold
    <2>2. ShopKind(x)' \in kindsHad'[x]
      BY <1>1, <1>3 DEF ShopKind, InShop, CatalogueTypeOK
    <2> QED  BY <2>1, <2>2
  <1>9. KindsTold'
    BY <1>3, <1>7, <1>8 DEF CatalogueInv, KindsTold
  <1>10. ChoicesApart'
    <2>1. Flagged' = Flagged
      BY <1>3 DEF Flagged, InRows
    <2> QED  BY <1>3, <2>1 DEF CatalogueInv, ChoicesApart
  <1> QED  BY <1>3, <1>6, <1>9, <1>10, CatalogueDisturbed DEF CatalogueInv

\* A row is written by nobody's handler.
LEMMA CatalogueRowKeepsInv ==
    ASSUME CatalogueInv, NEW x \in Product, NEW row \in Row \cup {NoRow},
           products' = [products EXCEPT ![x] = row],
           row.row /\ row.pbn => products[x].row /\ products[x].pbn,
           mirror' = "no", UNCHANGED <<shop, kindsHad, flagRaced, job>>, hooks' \subseteq hooks
    PROVE  CatalogueInv'
  <1>1. products' \in [Product -> Row \cup {NoRow}] /\ Flagged' \subseteq Flagged
    BY CatalogueRowWritten
  <1>2. CatalogueTypeOK'
    BY <1>1 DEF CatalogueInv, CatalogueTypeOK
  <1>3. KindsTold'
    BY DEF CatalogueInv, KindsTold, ShopKind, InShop
  <1>4. ChoicesApart'
    BY <1>1 DEF CatalogueInv, ChoicesApart
  <1> QED  BY <1>2, <1>3, <1>4, CatalogueDisturbed DEF CatalogueInv

LEMMA SoftDeletedRow ==
    ASSUME NEW row \in Row \cup {NoRow}
    PROVE  /\ SoftDeleted(row) \in Row \cup {NoRow}
           /\ SoftDeleted(row).row = row.row
           /\ (row.row => SoftDeleted(row).pbn = row.pbn /\ SoftDeleted(row).kind = row.kind
                       /\ SoftDeleted(row).active = FALSE)
  <1>1. CASE row = NoRow
    BY <1>1 DEF SoftDeleted, NoRow
  <1>2. CASE row \in Row
    BY <1>2 DEF SoftDeleted, Row
  <1> QED  BY <1>1, <1>2

LEMMA CatalogueRowsKeepInv ==
    ASSUME CatalogueInv, NEW x \in Product,
           \/ CreateProduct(x) \/ SoftDelete(x) \/ HardDelete(x)
           \/ \E v \in Variant : LinkVariant(x, v) \/ UpdateVariantLink(x, v)
    PROVE  CatalogueInv'
  <1>1. \A row : ByAdmin(x, row) => /\ products' = [products EXCEPT ![x] = row]
                                    /\ mirror' = "no" /\ UNCHANGED <<shop, kindsHad, flagRaced, job, hooks>>
    BY DEF ByAdmin, Once, Disturb, External
  <1>2. /\ products[x] \in Row \cup {NoRow} /\ (x \in InRows => products[x] \in Row /\ products[x].row)
    BY DEF CatalogueInv, CatalogueTypeOK, InRows, NoRow
  <1>3. CASE CreateProduct(x)
    <2>1. ByAdmin(x, NewRow(TRUE, NoKind)) /\ NewRow(TRUE, NoKind) \in Row /\ ~NewRow(TRUE, NoKind).pbn
      BY <1>3 DEF CreateProduct, NewRow, Row
    <2> QED  BY <1>1, <2>1, CatalogueRowKeepsInv
  <1>4. CASE SoftDelete(x)
    <2>1. PICK row : row = [products[x] EXCEPT !.active = FALSE]
      OBVIOUS
    <2>2. ByAdmin(x, row) /\ row \in Row /\ row.pbn = products[x].pbn /\ products[x].row
      BY <1>2, <1>4, <2>1 DEF SoftDelete, Row
    <2> QED  BY <1>1, <2>2, CatalogueRowKeepsInv
  <1>5. CASE HardDelete(x)
    <2>1. ByAdmin(x, NoRow) /\ ~NoRow.row
      BY <1>5 DEF HardDelete, NoRow
    <2> QED  BY <1>1, <2>1, CatalogueRowKeepsInv
  <1>6. ASSUME NEW v \in Variant, LinkVariant(x, v)
        PROVE  CatalogueInv'
    <2>1. PICK row : row = [products[x] EXCEPT !.on = @ \cup {v}, !.off = @ \ {v}]
      OBVIOUS
    <2>2. ByAdmin(x, row) /\ row \in Row /\ row.pbn = products[x].pbn /\ products[x].row
      BY <1>2, <1>6, <2>1 DEF LinkVariant, Row
    <2> QED  BY <1>1, <2>2, CatalogueRowKeepsInv
  <1>7. ASSUME NEW v \in Variant, UpdateVariantLink(x, v)
        PROVE  CatalogueInv'
    <2>1. PICK row : row = [products[x] EXCEPT !.on = @ \ {v}, !.off = @ \cup {v}]
      OBVIOUS
    <2>2. ByAdmin(x, row) /\ row \in Row /\ row.pbn = products[x].pbn /\ products[x].row
      BY <1>2, <1>7, <2>1 DEF UpdateVariantLink, Row
    <2> QED  BY <1>1, <2>2, CatalogueRowKeepsInv
  <1> QED  BY <1>3, <1>4, <1>5, <1>6, <1>7

LEMMA ProcessDeleteKeepsInv ==
    ASSUME CatalogueInv, NEW h \in hooks, ProcessDelete(h)
    PROVE  CatalogueInv'
  <1>1. h.of \in Product /\ products[h.of] \in Row \cup {NoRow}
    BY DEF CatalogueInv, CatalogueTypeOK, Hook
  <1>2. /\ products' = [products EXCEPT ![h.of] = SoftDeleted(products[h.of])]
        /\ mirror' = "no" /\ UNCHANGED <<shop, kindsHad, flagRaced, job>> /\ hooks' \subseteq hooks
    BY DEF ProcessDelete, Disturb, Once, External
  <1> QED  BY <1>1, <1>2, SoftDeletedRow, CatalogueRowKeepsInv

LEMMA ProcessUpsertKeepsInv ==
    ASSUME CatalogueInv, NEW p \in Proc, NEW h \in hooks, ProcessUpsert(p, h)
    PROVE  CatalogueInv'
  <1>1. PICK found \in {ShopKind(h.of), Unknown} :
            Dispatch(p, [Task("hook", "upsert", [x \in Product |-> h.as], {})
                           EXCEPT !.now = {h.of}, !.kinds = [x \in Product |-> found]])
    BY DEF ProcessUpsert
  <1>2. PICK j : j = [Task("hook", "upsert", [x \in Product |-> h.as], {})
                        EXCEPT !.now = {h.of}, !.kinds = [x \in Product |-> found]]
    OBVIOUS
  <1>3. CatalogueTypeOK /\ h.of \in Product /\ h.as \in Listed
    BY DEF ProcessUpsert, CatalogueInv, CatalogueTypeOK, Hook
  <1>4. found \in {PrintArt, NoKind, Unknown} /\ found \in kindsHad[h.of] \cup {Unknown}
    BY <1>1, <1>3 DEF CatalogueInv, KindsTold, CatalogueTypeOK
  <1>5. /\ j \in CatalogueJob /\ j # Idle /\ j.op = "hook" /\ j.at = "upsert" /\ j.now = {h.of}
        /\ j.known = [x \in Product |-> h.as] /\ j.kinds = [x \in Product |-> found] /\ j.left = {}
    BY <1>2, <1>3, <1>4 DEF Task, CatalogueJob, Idle
  <1>6. CatalogueJobOK(j)
    BY <1>3, <1>5 DEF CatalogueJobOK, CatalogueSteps, Writing
  <1>7. /\ job' = [job EXCEPT ![p] = j] /\ hooks' \subseteq hooks /\ mirror' = "no"
        /\ UNCHANGED <<shop, kindsHad, flagRaced, products>>
    BY <1>1, <1>2 DEF ProcessUpsert, Dispatch, Disturb, External
  <1>8. Flagged' = Flagged /\ ~Choosing(j)
    BY <1>5, <1>7 DEF Flagged, InRows, Choosing
  <1> QED  BY <1>3, <1>4, <1>5, <1>6, <1>7, <1>8, CatalogueQuiet, CatalogueDisturbed
              DEF CatalogueInv, CatalogueTypeOK

\* A handler writes the row of a product and goes on.
LEMMA CatalogueWriteKeepsInv ==
    ASSUME CatalogueInv, NEW p \in Proc, NEW y \in Product, NEW row \in Row \cup {NoRow},
           products' = [products EXCEPT ![y] = row],
           row.row /\ row.pbn => products[y].row /\ products[y].pbn,
           NEW j \in CatalogueJob \cup {Idle}, job' = [job EXCEPT ![p] = j],
           job[p].at # "idle", j # Idle => CatalogueJobOK(j), ~Choosing(j),
           j # Idle => /\ j.kinds = job[p].kinds /\ j.op = job[p].op
                       /\ j.op = "sync" \/ j.now = job[p].now,
           UNCHANGED <<shop, kindsHad, hooks, flagRaced>>,
           \/ mirror' = "no"
           \/ /\ mirror' = mirror /\ Mirroring(job[p]) /\ Mirroring(j)
              /\ Progress(job[p]) => Progress(j)'
    PROVE  CatalogueInv'
  <1>1. products' \in [Product -> Row \cup {NoRow}] /\ Flagged' \subseteq Flagged
    BY CatalogueRowWritten
  <1>2. CatalogueTypeOK' /\ KindsTold' /\ ChoicesApart'
    BY <1>1, CatalogueAtWork, CatalogueQuiet DEF CatalogueInv, CatalogueTypeOK
  <1>3. MirrorKept' /\ SyncMirrorsShopify'
    BY CatalogueDisturbed, CatalogueUndisturbed
  <1> QED  BY <1>2, <1>3 DEF CatalogueInv

\* The one product that a handler is writing.
LEMMA CatalogueWrites ==
    ASSUME CatalogueInv, NEW p \in Proc, Writing(job[p])
    PROVE  \E y \in Product :
               /\ job[p].now = {y} /\ job[p].known[y] \in Listed
               /\ job[p].kinds[y] \in {PrintArt, NoKind, Unknown}
               /\ products[y] \in Row \cup {NoRow} /\ (products[y].row => products[y] \in Row)
               /\ job[p].op \in {"sync", "hook"} /\ job[p] \in CatalogueJob /\ job[p] # Idle
               /\ CatalogueJobOK(job[p]) /\ job[p].at # "idle"
  <1>1. /\ CatalogueTypeOK /\ job[p] # Idle /\ job[p] \in CatalogueJob /\ CatalogueJobOK(job[p])
        /\ job[p].at # "idle"
    BY CatalogueAtWork DEF Writing
  <1>2. PICK y \in Product : job[p].now = {y} /\ job[p].known[y] \in Listed
    BY <1>1 DEF CatalogueJobOK
  <1>3. job[p].op \in {"sync", "hook"}
    BY <1>1 DEF CatalogueJobOK, CatalogueSteps, Writing, CatalogueJob
  <1>4. job[p].kinds[y] \in {PrintArt, NoKind, Unknown}
    BY <1>1 DEF CatalogueJob
  <1>5. products[y] \in Row \cup {NoRow} /\ (products[y].row => products[y] \in Row)
    BY <1>1 DEF CatalogueTypeOK, NoRow
  <1> QED  BY <1>1, <1>2, <1>3, <1>4, <1>5

LEMMA UpsertProductKeepsInv ==
    ASSUME CatalogueInv, NEW p \in Proc, UpsertProduct(p)
    PROVE  CatalogueInv'
  <1>1. job[p].at = "upsert" /\ Writing(job[p])
    BY DEF UpsertProduct, Writing
  <1>2. PICK y \in Product :
               /\ job[p].now = {y} /\ job[p].known[y] \in Listed
               /\ job[p].kinds[y] \in {PrintArt, NoKind, Unknown}
               /\ products[y] \in Row \cup {NoRow} /\ (products[y].row => products[y] \in Row)
               /\ job[p].op \in {"sync", "hook"} /\ job[p] \in CatalogueJob /\ job[p] # Idle
               /\ CatalogueJobOK(job[p]) /\ job[p].at # "idle"
    BY <1>1, CatalogueWrites
  <1>3. PICK row : row = IF products[y].row
                         THEN [products[y] EXCEPT !.active = job[p].known[y].active,
                                                  !.kind = NewKind(@, job[p].kinds[y])]
                         ELSE NewRow(job[p].known[y].active, NewKind(NoKind, job[p].kinds[y]))
    OBVIOUS
  <1>4. products' = [products EXCEPT ![y] = row]
    BY <1>2, <1>3 DEF UpsertProduct, InRows
  <1>5. /\ row \in Row /\ row.row /\ row.active = job[p].known[y].active
        /\ (row.pbn => products[y].row /\ products[y].pbn)
    <2>1. job[p].known[y].active \in BOOLEAN
      BY <1>2 DEF Listed
    <2>2. CASE products[y].row
      <3>1. NewKind(products[y].kind, job[p].kinds[y]) \in {PrintArt, NoKind}
        BY <1>2, <2>2 DEF NewKind, Row
      <3> QED  BY <1>2, <1>3, <2>1, <2>2, <3>1 DEF Row
    <2>3. CASE ~products[y].row
      <3>1. NewKind(NoKind, job[p].kinds[y]) \in {PrintArt, NoKind}
        BY <1>2 DEF NewKind
      <3> QED  BY <1>3, <2>1, <2>3, <3>1 DEF Row, NewRow
    <2> QED  BY <2>2, <2>3
  <1>6. PICK j : j = [job[p] EXCEPT !.at = "variants"]
    OBVIOUS
  <1>7. /\ j \in CatalogueJob /\ j # Idle /\ j.op = job[p].op /\ j.at = "variants" /\ j.now = job[p].now
        /\ j.kinds = job[p].kinds /\ j.known = job[p].known /\ j.left = job[p].left
    BY <1>2, <1>6 DEF CatalogueJob, Idle
  <1>8. CatalogueJobOK(j) /\ ~Choosing(j)
    BY <1>1, <1>2, <1>7 DEF CatalogueJobOK, CatalogueSteps, Writing, Choosing
  <1>9. /\ job' = [job EXCEPT ![p] = j] /\ UNCHANGED <<shop, kindsHad, hooks, flagRaced>>
        /\ mirror' = IF job[p].op = "sync" THEN mirror ELSE "no"
    BY <1>6 DEF UpsertProduct, Become, External, Going, Disturb
  <1>10. \A x \in Product \ {y} : products'[x] = products[x]
    BY <1>2, <1>4 DEF CatalogueInv, CatalogueTypeOK
  <1>11. products'[y] = row
    BY <1>2, <1>4 DEF CatalogueInv, CatalogueTypeOK
  <1>12. Progress(job[p]) => Progress(j)'
    <2> SUFFICES ASSUME Progress(job[p]) PROVE Progress(j)'
      OBVIOUS
    <2>1. j.known = shop /\ \A x \in InShop \ (j.left \cup {y}) : Copied(x)
      BY <1>1, <1>2, <1>7 DEF Progress
    <2>2. InShop' = InShop
      BY <1>9 DEF InShop
    <2>3. \A x \in InShop \ (j.left \cup {y}) : Copied(x)'
      BY <1>9, <1>10, <2>1 DEF Copied, InShop
    <2> QED  BY <1>2, <1>5, <1>7, <1>9, <1>11, <2>1, <2>2, <2>3 DEF Progress
  <1>13. \/ mirror' = "no"
         \/ mirror' = mirror /\ Mirroring(job[p]) /\ Mirroring(j)
    BY <1>2, <1>7, <1>9 DEF Mirroring
  <1> QED  BY <1>2, <1>4, <1>5, <1>7, <1>8, <1>9, <1>12, <1>13, CatalogueWriteKeepsInv

LEMMA SyncVariantsKeepsInv ==
    ASSUME CatalogueInv, NEW p \in Proc, SyncVariants(p)
    PROVE  CatalogueInv'
  <1>1. job[p].at = "variants" /\ Writing(job[p])
    BY DEF SyncVariants, Writing
  <1>2. PICK y \in Product :
               /\ job[p].now = {y} /\ job[p].known[y] \in Listed
               /\ job[p].kinds[y] \in {PrintArt, NoKind, Unknown}
               /\ products[y] \in Row \cup {NoRow} /\ (products[y].row => products[y] \in Row)
               /\ job[p].op \in {"sync", "hook"} /\ job[p] \in CatalogueJob /\ job[p] # Idle
               /\ CatalogueJobOK(job[p]) /\ job[p].at # "idle"
    BY <1>1, CatalogueWrites
  <1>3. products[y].row /\ products[y] \in Row
    BY <1>2 DEF SyncVariants, InRows
  <1>4. PICK synced : synced = job[p].known[y].variants \cap Formatted
    OBVIOUS
  <1>5. PICK row : row = [products[y] EXCEPT !.on = @ \cup synced, !.off = @ \ synced]
    OBVIOUS
  <1>6. products' = [products EXCEPT ![y].on = @ \cup synced, ![y].off = @ \ synced]
    BY <1>2, <1>4 DEF SyncVariants
  <1>7. products' = [products EXCEPT ![y] = row]
    BY <1>2, <1>3, <1>5, <1>6 DEF CatalogueInv, CatalogueTypeOK, Row
  <1>8. /\ row \in Row /\ row.row /\ row.active = products[y].active /\ row.pbn = products[y].pbn
        /\ row.on = products[y].on \cup synced
    <2>1. synced \subseteq Variant
      BY <1>2, <1>4 DEF Listed
    <2> QED  BY <1>3, <1>5, <2>1 DEF Row
  <1>9. PICK j : j = [job[p] EXCEPT !.at = "absent"]
    OBVIOUS
  <1>10. /\ j \in CatalogueJob /\ j # Idle /\ j.op = job[p].op /\ j.at = "absent" /\ j.now = job[p].now
         /\ j.kinds = job[p].kinds /\ j.known = job[p].known /\ j.left = job[p].left
    BY <1>2, <1>9 DEF CatalogueJob, Idle
  <1>11. CatalogueJobOK(j) /\ ~Choosing(j)
    BY <1>1, <1>2, <1>10 DEF CatalogueJobOK, CatalogueSteps, Writing, Choosing
  <1>12. /\ job' = [job EXCEPT ![p] = j] /\ UNCHANGED <<shop, kindsHad, hooks, flagRaced>>
         /\ mirror' = IF job[p].op = "sync" THEN mirror ELSE "no"
    BY <1>9 DEF SyncVariants, Become, External, Going, Disturb
  <1>13. products'[y] = row /\ \A x \in Product \ {y} : products'[x] = products[x]
    BY <1>2, <1>7 DEF CatalogueInv, CatalogueTypeOK
  <1>14. Progress(job[p]) => Progress(j)'
    <2> SUFFICES ASSUME Progress(job[p]) PROVE Progress(j)'
      OBVIOUS
    <2>1. /\ j.known = shop /\ \A x \in InShop \ (j.left \cup {y}) : Copied(x)
          /\ products[y].active = shop[y].active
      BY <1>1, <1>2, <1>10 DEF Progress
    <2>2. InShop' = InShop
      BY <1>12 DEF InShop
    <2>3. \A x \in InShop \ (j.left \cup {y}) : Copied(x)'
      BY <1>12, <1>13, <2>1 DEF Copied, InShop
    <2>4. shop[y].variants \cap Formatted \subseteq row.on
      BY <1>4, <1>8, <1>10, <2>1
    <2> QED  BY <1>2, <1>8, <1>10, <1>12, <1>13, <2>1, <2>2, <2>3, <2>4 DEF Progress
  <1>15. \/ mirror' = "no"
         \/ mirror' = mirror /\ Mirroring(job[p]) /\ Mirroring(j)
    BY <1>2, <1>10, <1>12 DEF Mirroring
  <1> QED  BY <1>2, <1>3, <1>7, <1>8, <1>10, <1>11, <1>12, <1>14, <1>15, CatalogueWriteKeepsInv

\* What is left of a full sync when a product is done with, or was let be.
LEMMA CatalogueProceeds ==
    ASSUME CatalogueInv, NEW p \in Proc, Writing(job[p]), Proceed(p)
    PROVE  \E j \in CatalogueJob \cup {Idle} :
               /\ job' = [job EXCEPT ![p] = j] /\ (j # Idle => CatalogueJobOK(j)) /\ ~Choosing(j)
               /\ (j = Idle <=> job[p].op = "hook")
               /\ j # Idle => /\ j.op = "sync" /\ j.at = "next" /\ j.now = {} /\ j.left = job[p].left
                              /\ j.kinds = job[p].kinds /\ j.known = job[p].known /\ j.op = job[p].op
  <1>1. PICK j : j = IF job[p].op = "hook" THEN Idle ELSE [job[p] EXCEPT !.at = "next", !.now = {}]
    OBVIOUS
  <1>2. /\ job[p].op \in {"sync", "hook"} /\ job[p] \in CatalogueJob /\ CatalogueJobOK(job[p])
    BY CatalogueWrites
  <1>3. job' = [job EXCEPT ![p] = j]
    BY <1>1 DEF Proceed, Become
  <1>4. CASE job[p].op = "hook"
    BY <1>1, <1>3, <1>4 DEF Choosing
  <1>5. CASE job[p].op # "hook"
    <2>1. /\ j \in CatalogueJob /\ j # Idle /\ j.op = "sync" /\ j.at = "next" /\ j.now = {}
          /\ j.left = job[p].left /\ j.kinds = job[p].kinds /\ j.known = job[p].known
          /\ job[p].op = "sync"
      BY <1>1, <1>2, <1>5 DEF CatalogueJob, Idle
    <2>2. CatalogueJobOK(j)
      BY <1>2, <2>1 DEF CatalogueJobOK, CatalogueSteps, Writing
    <2> QED  BY <1>3, <1>5, <2>1, <2>2 DEF Choosing
  <1> QED  BY <1>4, <1>5

LEMMA DeactivateAbsentKeepsInv ==
    ASSUME CatalogueInv, NEW p \in Proc, DeactivateAbsent(p)
    PROVE  CatalogueInv'
  <1>1. job[p].at = "absent" /\ Writing(job[p]) /\ Proceed(p)
    BY DEF DeactivateAbsent, Writing
  <1>2. PICK y \in Product :
               /\ job[p].now = {y} /\ job[p].known[y] \in Listed
               /\ job[p].kinds[y] \in {PrintArt, NoKind, Unknown}
               /\ products[y] \in Row \cup {NoRow} /\ (products[y].row => products[y] \in Row)
               /\ job[p].op \in {"sync", "hook"} /\ job[p] \in CatalogueJob /\ job[p] # Idle
               /\ CatalogueJobOK(job[p]) /\ job[p].at # "idle"
    BY <1>1, CatalogueWrites
  <1>3. PICK gone : gone = Gone(products[y], job[p].known[y].variants)
    OBVIOUS
  <1>4. PICK row : row = IF products[y].row
                         THEN [products[y] EXCEPT !.on = @ \ gone, !.off = @ \cup gone]
                         ELSE products[y]
    OBVIOUS
  <1>5. products' = [products EXCEPT ![y] = row]
    <2>1. products' = IF products[y].row
                      THEN [products EXCEPT ![y].on = @ \ gone, ![y].off = @ \cup gone]
                      ELSE products
      BY <1>2, <1>3 DEF DeactivateAbsent, InRows
    <2>2. products \in [Product -> Row \cup {NoRow}]
      BY DEF CatalogueInv, CatalogueTypeOK
    <2>3. CASE products[y].row
      BY <1>2, <1>4, <2>1, <2>2, <2>3 DEF Row
    <2>4. CASE ~products[y].row
      BY <1>4, <2>1, <2>2, <2>4
    <2> QED  BY <2>3, <2>4
  <1>6. /\ row \in Row \cup {NoRow} /\ row.row = products[y].row
        /\ row.row => /\ row.active = products[y].active /\ row.pbn = products[y].pbn
                      /\ row.on = products[y].on \cap job[p].known[y].variants
    <2>1. CASE products[y].row
      <3>1. gone = products[y].on \ job[p].known[y].variants
        BY <1>3 DEF Gone
      <3> QED  BY <1>2, <1>4, <2>1, <3>1 DEF Row
    <2>2. CASE ~products[y].row
      BY <1>2, <1>4, <2>2
    <2> QED  BY <2>1, <2>2
  <1>7. PICK j \in CatalogueJob \cup {Idle} :
               /\ job' = [job EXCEPT ![p] = j] /\ (j # Idle => CatalogueJobOK(j)) /\ ~Choosing(j)
               /\ (j = Idle <=> job[p].op = "hook")
               /\ j # Idle => /\ j.op = "sync" /\ j.at = "next" /\ j.now = {} /\ j.left = job[p].left
                              /\ j.kinds = job[p].kinds /\ j.known = job[p].known /\ j.op = job[p].op
    BY <1>1, CatalogueProceeds
  <1>8. /\ UNCHANGED <<shop, kindsHad, hooks, flagRaced>>
        /\ mirror' = IF job[p].op = "sync" THEN mirror ELSE "no"
    BY DEF DeactivateAbsent, External, Going, Disturb
  <1>9. products'[y] = row /\ \A x \in Product \ {y} : products'[x] = products[x]
    BY <1>2, <1>5 DEF CatalogueInv, CatalogueTypeOK
  <1>10. job[p].op = "sync" /\ Progress(job[p]) => Progress(j)'
    <2> SUFFICES ASSUME job[p].op = "sync", Progress(job[p]) PROVE Progress(j)'
      OBVIOUS
    <2>1. j # Idle
      BY <1>7
    <2>2. /\ j.known = shop /\ \A x \in InShop \ (j.left \cup {y}) : Copied(x)
          /\ products[y].row /\ products[y].active = shop[y].active
          /\ shop[y].variants \cap Formatted \subseteq products[y].on
      BY <1>1, <1>2, <1>7, <2>1 DEF Progress
    <2>3. InShop' = InShop
      BY <1>8 DEF InShop
    <2>4. \A x \in InShop \ (j.left \cup {y}) : Copied(x)'
      BY <1>8, <1>9, <2>2 DEF Copied, InShop
    <2>5. row.on = products[y].on \cap shop[y].variants
      BY <1>6, <1>7, <2>1, <2>2
    <2>6. Copied(y)'
      BY <1>6, <1>8, <1>9, <2>2, <2>5 DEF Copied
    <2>7. \A x \in InShop' \ (j.left \cup j.now) : Copied(x)'
      BY <1>7, <2>1, <2>3, <2>4, <2>6
    <2> QED  BY <1>7, <1>8, <2>1, <2>2, <2>7 DEF Progress
  <1>11. \/ mirror' = "no"
         \/ mirror' = mirror /\ Mirroring(job[p]) /\ Mirroring(j) /\ job[p].op = "sync"
    BY <1>2, <1>7, <1>8 DEF Mirroring
  <1>12. row.row /\ row.pbn => products[y].row /\ products[y].pbn
    BY <1>6
  <1> QED  BY <1>2, <1>5, <1>6, <1>7, <1>8, <1>10, <1>11, <1>12, CatalogueWriteKeepsInv

LEMMA TaskFields ==
    ASSUME NEW op \in {"sync", "pbn"}, NEW at \in {"kinds", "choose"},
           NEW known \in [Product -> Listed \cup {Absent}], NEW left \in SUBSET Product
    PROVE  \E j \in CatalogueJob :
               /\ j = Task(op, at, known, left) /\ j # Idle /\ j.op = op /\ j.at = at /\ j.known = known
               /\ j.kinds = [x \in Product |-> Unknown] /\ j.left = left /\ j.now = {} /\ j.cleared = {}
  <1>1. PICK j : j = Task(op, at, known, left)
    OBVIOUS
  <1>2. /\ j.op = op /\ j.at = at /\ j.known = known /\ j.kinds = [x \in Product |-> Unknown]
        /\ j.left = left /\ j.now = {} /\ j.cleared = {} /\ j # Idle
    BY <1>1 DEF Task, Idle
  <1>3. [x \in Product |-> Unknown] \in [Product -> {PrintArt, NoKind, Unknown}]
    OBVIOUS
  <1>4. j \in CatalogueJob
    BY <1>1, <1>3 DEF Task, CatalogueJob
  <1> QED  BY <1>1, <1>2, <1>4

LEMMA FetchAllProductsKeepsInv ==
    ASSUME CatalogueInv, NEW p \in Proc, FetchAllProducts(p)
    PROVE  CatalogueInv'
  <1>1. CatalogueTypeOK /\ InShop \subseteq Product /\ \A x \in InShop : shop[x] \in Listed
    BY DEF CatalogueInv, CatalogueTypeOK, InShop, Absent
  <1>2. PICK j \in CatalogueJob :
            /\ j = Task("sync", "kinds", shop, InShop) /\ j # Idle /\ j.op = "sync" /\ j.at = "kinds"
            /\ j.known = shop /\ j.kinds = [x \in Product |-> Unknown] /\ j.left = InShop /\ j.now = {}
    BY <1>1, TaskFields DEF CatalogueTypeOK
  <1>3. /\ job' = [job EXCEPT ![p] = j] /\ job[p] = Idle
        /\ mirror' = IF AllIdle THEN "syncing" ELSE "no"
        /\ UNCHANGED <<shop, kindsHad, products, hooks, flagRaced>>
    BY <1>2 DEF FetchAllProducts, Dispatch, External
  <1>4. CatalogueJobOK(j) /\ ~Choosing(j) /\ Mirroring(j)
    BY <1>1, <1>2 DEF CatalogueJobOK, CatalogueSteps, Writing, Choosing, Mirroring
  <1>5. Flagged' = Flagged /\ InShop' = InShop
    BY <1>3 DEF Flagged, InRows, InShop
  <1>6. \A x \in Product : j.kinds[x] = Unknown
    BY <1>2
  <1>7. CatalogueTypeOK' /\ KindsTold' /\ ChoicesApart'
    <2>1. mirror' \in {"no", "syncing", "yes"} /\ products' \in [Product -> Row \cup {NoRow}]
      BY <1>1, <1>3 DEF CatalogueTypeOK
    <2> QED  BY <1>2, <1>3, <1>4, <1>5, <1>6, <2>1, CatalogueQuiet
  <1>8. MirrorKept' /\ SyncMirrorsShopify'
    <2>1. CASE ~AllIdle
      BY <1>3, <2>1, CatalogueDisturbed
    <2>2. CASE AllIdle
      <3>1. mirror' = "syncing" /\ job'[p] = j /\ \A q \in Proc \ {p} : job'[q] = Idle
        BY <1>1, <1>3, <2>2 DEF AllIdle, CatalogueTypeOK
      <3>2. Progress(j)'
        BY <1>2, <1>3, <1>5 DEF Progress
      <3>3. \A q \in Proc : Mirroring(job'[q]) => q = p
        BY <3>1 DEF Mirroring
      <3> QED  BY <1>4, <3>1, <3>2, <3>3 DEF MirrorKept, SyncMirrorsShopify
    <2> QED  BY <2>1, <2>2
  <1> QED  BY <1>7, <1>8 DEF CatalogueInv

\* The full sync goes on and writes nothing.
LEMMA SyncGoesOn ==
    ASSUME CatalogueInv, NEW p \in Proc, NEW j \in CatalogueJob,
           job' = [job EXCEPT ![p] = j], j # Idle, CatalogueJobOK(j), Mirroring(job[p]), j.op = "sync",
           \A x \in Product : j.kinds[x] \in kindsHad[x] \cup {Unknown},
           UNCHANGED <<shop, kindsHad, products, hooks, mirror, flagRaced>>,
           Progress(job[p]) => Progress(j)
    PROVE  CatalogueInv'
  <1>1. ~Choosing(j) /\ Mirroring(j) /\ Flagged' = Flagged
    BY DEF Choosing, Mirroring, Flagged, InRows
  <1>2. CatalogueTypeOK' /\ KindsTold' /\ ChoicesApart'
    BY <1>1, CatalogueQuiet DEF CatalogueInv, CatalogueTypeOK
  <1>3. Progress(j)' <=> Progress(j)
    BY DEF Progress, Copied, InShop
  <1>4. MirrorKept' /\ SyncMirrorsShopify'
    BY <1>1, <1>3, CatalogueUndisturbed
  <1> QED  BY <1>2, <1>4 DEF CatalogueInv

LEMMA SyncStepsKeepInv ==
    ASSUME CatalogueInv, NEW p \in Proc,
           FetchArtKindMap(p) \/ NextProduct(p) \/ DetectOrphans(p)
    PROVE  CatalogueInv'
  <1>1. /\ job[p].op = "sync" /\ job[p].at \in {"kinds", "next"}
        /\ UNCHANGED <<shop, kindsHad, products, hooks, mirror, flagRaced>>
    BY DEF FetchArtKindMap, NextProduct, DetectOrphans, At, External
  <1>2. /\ CatalogueTypeOK /\ job[p] # Idle /\ job[p] \in CatalogueJob /\ CatalogueJobOK(job[p])
        /\ \A x \in Product : job[p].kinds[x] \in kindsHad[x] \cup {Unknown}
    BY <1>1, CatalogueAtWork
  <1>3. /\ Mirroring(job[p]) /\ job[p].now = {} /\ \A x \in job[p].left : job[p].known[x] \in Listed
        /\ job[p].left \subseteq Product
    BY <1>1, <1>2 DEF Mirroring, CatalogueJobOK, Writing, CatalogueJob
  <1>4. CASE FetchArtKindMap(p)
    <2>1. PICK found \in {[x \in Product |-> ShopKind(x)], [x \in Product |-> Unknown]} :
              Become(p, [job[p] EXCEPT !.at = "next", !.kinds = found])
      BY <1>4 DEF FetchArtKindMap
    <2>2. /\ found \in [Product -> {PrintArt, NoKind, Unknown}]
          /\ \A x \in Product : found[x] \in kindsHad[x] \cup {Unknown}
      <3>1. \A x \in Product : ShopKind(x) \in kindsHad[x] /\ ShopKind(x) \in {PrintArt, NoKind}
        BY <1>2 DEF CatalogueInv, KindsTold, CatalogueTypeOK
      <3> QED  BY <2>1, <3>1
    <2>3. PICK j : j = [job[p] EXCEPT !.at = "next", !.kinds = found]
      OBVIOUS
    <2>4. /\ j \in CatalogueJob /\ j # Idle /\ j.op = "sync" /\ j.at = "next" /\ j.now = {}
          /\ j.kinds = found /\ j.left = job[p].left /\ j.known = job[p].known
      BY <1>1, <1>2, <1>3, <2>2, <2>3 DEF CatalogueJob, Idle
    <2>5. CatalogueJobOK(j)
      BY <1>3, <2>4 DEF CatalogueJobOK, CatalogueSteps, Writing
    <2>6. Progress(job[p]) => Progress(j)
      BY <1>1, <1>3, <2>4 DEF Progress
    <2> QED  BY <1>1, <1>3, <2>1, <2>2, <2>3, <2>4, <2>5, <2>6, SyncGoesOn DEF Become
  <1>5. CASE NextProduct(p)
    <2>1. PICK x \in job[p].left :
              Become(p, [job[p] EXCEPT !.at = "upsert", !.left = @ \ {x}, !.now = {x}])
      BY <1>5 DEF NextProduct
    <2>2. PICK j : j = [job[p] EXCEPT !.at = "upsert", !.left = @ \ {x}, !.now = {x}]
      OBVIOUS
    <2>3. /\ j \in CatalogueJob /\ j # Idle /\ j.op = "sync" /\ j.at = "upsert" /\ j.now = {x}
          /\ j.kinds = job[p].kinds /\ j.left = job[p].left \ {x} /\ j.known = job[p].known
      BY <1>1, <1>2, <1>3, <2>1, <2>2 DEF CatalogueJob, Idle
    <2>4. CatalogueJobOK(j)
      BY <1>3, <2>1, <2>3 DEF CatalogueJobOK, CatalogueSteps, Writing
    <2>5. Progress(job[p]) => Progress(j)
      BY <1>1, <1>3, <1>5, <2>3 DEF Progress, NextProduct, At
    <2> QED  BY <1>1, <1>2, <1>3, <2>1, <2>2, <2>3, <2>4, <2>5, SyncGoesOn DEF Become
  <1>6. CASE DetectOrphans(p)
    <2>1. PICK j : j = [job[p] EXCEPT !.at = "orphans", !.left = Orphans(job[p].known)]
      OBVIOUS
    <2>2. Orphans(job[p].known) \subseteq Product
      BY DEF Orphans, InRows
    <2>3. /\ j \in CatalogueJob /\ j # Idle /\ j.op = "sync" /\ j.at = "orphans" /\ j.now = {}
          /\ j.kinds = job[p].kinds /\ j.left = Orphans(job[p].known) /\ j.known = job[p].known
      BY <1>1, <1>2, <1>3, <2>1, <2>2 DEF CatalogueJob, Idle
    <2>4. CatalogueJobOK(j)
      BY <2>3 DEF CatalogueJobOK, CatalogueSteps, Writing
    <2>5. job[p].left = {} /\ job' = [job EXCEPT ![p] = j]
      BY <1>6, <2>1 DEF DetectOrphans, Become
    <2>6. Progress(job[p]) => Progress(j)
      <3> SUFFICES ASSUME Progress(job[p]) PROVE Progress(j)
        OBVIOUS
      <3>1. j.known = shop /\ \A x \in InShop : Copied(x)
        BY <1>1, <1>3, <2>3, <2>5 DEF Progress
      <3>2. j.left = {x \in InRows : products[x].active} \ InShop
        BY <2>3, <3>1 DEF Orphans, InShop
      <3> QED  BY <2>3, <3>1, <3>2 DEF Progress, InRows
    <2> QED  BY <1>1, <1>2, <1>3, <2>3, <2>4, <2>5, <2>6, SyncGoesOn
  <1> QED  BY <1>4, <1>5, <1>6

LEMMA SoftDeleteOrphanKeepsInv ==
    ASSUME CatalogueInv, NEW p \in Proc, SoftDeleteOrphan(p)
    PROVE  CatalogueInv'
  <1>1. PICK y \in job[p].left :
            /\ products' = [products EXCEPT ![y] = SoftDeleted(@)]
            /\ Become(p, [job[p] EXCEPT !.left = @ \ {y}])
    BY DEF SoftDeleteOrphan
  <1>2. /\ job[p].op = "sync" /\ job[p].at = "orphans"
        /\ UNCHANGED <<shop, kindsHad, hooks, mirror, flagRaced>>
    BY DEF SoftDeleteOrphan, At, External
  <1>3. CatalogueTypeOK /\ job[p] # Idle /\ job[p] \in CatalogueJob /\ CatalogueJobOK(job[p])
    BY <1>2, CatalogueAtWork
  <1>4. y \in Product /\ products[y] \in Row \cup {NoRow} /\ job[p].now = {} /\ Mirroring(job[p])
    BY <1>1, <1>2, <1>3 DEF CatalogueJob, CatalogueTypeOK, CatalogueJobOK, Writing, Mirroring
  <1>5. PICK row : row = SoftDeleted(products[y])
    OBVIOUS
  <1>6. products' = [products EXCEPT ![y] = row] /\ row \in Row \cup {NoRow}
        /\ row.row = products[y].row /\ (row.row => row.pbn = products[y].pbn /\ row.active = FALSE)
    BY <1>1, <1>4, <1>5, SoftDeletedRow
  <1>7. PICK j : j = [job[p] EXCEPT !.left = @ \ {y}]
    OBVIOUS
  <1>8. /\ j \in CatalogueJob /\ j # Idle /\ j.op = "sync" /\ j.at = "orphans" /\ j.now = {}
        /\ j.kinds = job[p].kinds /\ j.left = job[p].left \ {y} /\ j.known = job[p].known
        /\ job' = [job EXCEPT ![p] = j]
    BY <1>1, <1>2, <1>3, <1>4, <1>7 DEF CatalogueJob, Idle, Become
  <1>9. CatalogueJobOK(j) /\ ~Choosing(j) /\ Mirroring(j)
    BY <1>8 DEF CatalogueJobOK, CatalogueSteps, Writing, Choosing, Mirroring
  <1>10. products'[y] = row /\ \A x \in Product \ {y} : products'[x] = products[x]
    BY <1>3, <1>4, <1>6 DEF CatalogueTypeOK
  <1>11. Progress(job[p]) => Progress(j)'
    <2> SUFFICES ASSUME Progress(job[p]) PROVE Progress(j)'
      OBVIOUS
    <2>1. j.known = shop /\ y \notin InShop
      BY <1>1, <1>2, <1>4, <1>8 DEF Progress
    <2>2. \A x \in Product : IF x \in InShop THEN Copied(x) /\ x \notin job[p].left
                             ELSE products[x].row /\ products[x].active => x \in job[p].left
      BY <1>2 DEF Progress
    <2>3. InShop' = InShop
      BY <1>2 DEF InShop
    <2>4. \A x \in InShop : Copied(x)' /\ x \notin j.left
      BY <1>2, <1>8, <1>10, <2>1, <2>2 DEF Copied, InShop
    <2>5. \A x \in Product \ InShop : products'[x].row /\ products'[x].active => x \in j.left
      BY <1>6, <1>8, <1>10, <2>2
    <2> QED  BY <1>2, <1>8, <2>1, <2>3, <2>4, <2>5 DEF Progress
  <1> QED  BY <1>2, <1>3, <1>4, <1>6, <1>8, <1>9, <1>11, CatalogueWriteKeepsInv

LEMMA EndSyncKeepsInv ==
    ASSUME CatalogueInv, NEW p \in Proc, EndSync(p)
    PROVE  CatalogueInv'
  <1>1. /\ job[p].op = "sync" /\ job[p].at = "orphans" /\ job[p].left = {}
        /\ job' = [job EXCEPT ![p] = Idle]
        /\ mirror' = (IF mirror = "syncing" THEN "yes" ELSE mirror)
        /\ UNCHANGED <<shop, kindsHad, products, hooks, flagRaced>>
    BY DEF EndSync, At, Become, External
  <1>2. CatalogueTypeOK /\ job[p] # Idle /\ Mirroring(job[p])
    BY <1>1, CatalogueAtWork DEF Mirroring
  <1>3. Flagged' = Flagged /\ ~Choosing(Idle)
    BY <1>1 DEF Flagged, InRows, Choosing
  <1>4. CatalogueTypeOK' /\ KindsTold' /\ ChoicesApart'
    <2>1. mirror' \in {"no", "syncing", "yes"} /\ products' \in [Product -> Row \cup {NoRow}]
      BY <1>1, <1>2 DEF CatalogueTypeOK
    <2> QED  BY <1>1, <1>3, <2>1, CatalogueQuiet
  <1>5. mirror # "yes"
    BY <1>2 DEF CatalogueInv, MirrorKept, Mirroring, Choosing
  <1>6. CASE mirror = "no"
    BY <1>1, <1>4, <1>6, CatalogueDisturbed DEF CatalogueInv
  <1>7. CASE mirror = "syncing"
    <2>1. Progress(job[p]) /\ \A q \in Proc \ {p} : job[q] = Idle \/ Choosing(job[q])
      BY <1>2, <1>7 DEF CatalogueInv, MirrorKept
    <2>2. MirrorKept'
      BY <1>1, <1>2, <1>7, <2>1 DEF MirrorKept, CatalogueTypeOK
    <2>3. \A x \in Product : IF x \in InShop THEN Copied(x)
                             ELSE ~(products[x].row /\ products[x].active)
      BY <1>1, <2>1 DEF Progress
    <2>4. SyncMirrorsShopify'
      <3> SUFFICES ASSUME NEW x \in Product
                   PROVE  IF x \in InShop /\ shop[x].active
                          THEN /\ x \in InRows /\ products[x].active
                               /\ products[x].on \subseteq shop[x].variants
                               /\ shop[x].variants \cap Formatted \subseteq products[x].on
                          ELSE x \in InRows => ~products[x].active
        BY <1>1 DEF SyncMirrorsShopify, InShop, InRows
      <3> QED  BY <2>3 DEF Copied, InRows
    <2> QED  BY <1>4, <2>2, <2>4 DEF CatalogueInv
  <1> QED  BY <1>2, <1>5, <1>6, <1>7 DEF CatalogueTypeOK

LEMMA CatalogueFailsKeepsInv ==
    ASSUME CatalogueInv, NEW p \in Proc, CatalogueFails(p)
    PROVE  CatalogueInv'
  <1>1. /\ job[p] # Idle /\ mirror' = "no" /\ UNCHANGED <<shop, kindsHad, products, hooks, flagRaced>>
        /\ IF job[p].op = "sync" /\ job[p].now # {} THEN Proceed(p) ELSE Become(p, Idle)
    BY DEF CatalogueFails, Disturb, External
  <1>2. CatalogueTypeOK /\ job[p] \in CatalogueJob /\ CatalogueJobOK(job[p]) /\ Flagged' = Flagged
    BY <1>1 DEF CatalogueInv, CatalogueTypeOK, Flagged, InRows
  <1>3. ASSUME NEW j \in CatalogueJob \cup {Idle}, job' = [job EXCEPT ![p] = j], ~Choosing(j),
               j # Idle => CatalogueJobOK(j) /\ job[p].op = "sync" /\ j.kinds = job[p].kinds
        PROVE  CatalogueInv'
    <2>1. j # Idle => \A x \in Product : j.kinds[x] \in kindsHad[x] \cup {Unknown}
      BY <1>1, <1>3 DEF CatalogueInv, KindsTold
    <2>2. mirror' \in {"no", "syncing", "yes"} /\ products' \in [Product -> Row \cup {NoRow}]
      BY <1>1, <1>2 DEF CatalogueTypeOK
    <2> QED  BY <1>1, <1>2, <1>3, <2>1, <2>2, CatalogueQuiet, CatalogueDisturbed DEF CatalogueInv
  <1>4. CASE job[p].op = "sync" /\ job[p].now # {}
    <2>1. Writing(job[p])
      BY <1>2, <1>4 DEF CatalogueJobOK
    <2> QED  BY <1>1, <1>3, <1>4, <2>1, CatalogueProceeds
  <1>5. CASE ~(job[p].op = "sync" /\ job[p].now # {})
    BY <1>1, <1>3, <1>5 DEF Become, Choosing
  <1> QED  BY <1>4, <1>5

\* A choice neither writes to the rows what a sync does nor is one.
LEMMA ChoicesLeaveMirror ==
    ASSUME CatalogueInv, NEW p \in Proc, NEW j, job' = [job EXCEPT ![p] = j],
           ~Mirroring(job[p]), j = Idle \/ Choosing(j), UNCHANGED <<shop, mirror>>,
           \A x \in Product : /\ products'[x].row = products[x].row
                              /\ products[x].row => /\ products'[x].active = products[x].active
                                                    /\ products'[x].on = products[x].on
    PROVE  MirrorKept' /\ SyncMirrorsShopify'
  <1>1. CatalogueTypeOK /\ job'[p] = j /\ \A q \in Proc \ {p} : job'[q] = job[q]
    BY DEF CatalogueInv, CatalogueTypeOK
  <1>2. InShop' = InShop /\ InShop \subseteq Product /\ ~Mirroring(j)
    BY DEF InShop, Mirroring, Choosing
  <1>3. \A x \in Product : Copied(x) => Copied(x)'
    BY DEF Copied
  <1>4. ASSUME NEW q \in Proc, Progress(job[q]), CatalogueJobOK(job[q]), Mirroring(job[q])
        PROVE  Progress(job[q])' \/ q = p
    <2> SUFFICES ASSUME q # p PROVE Progress(job[q])'
      OBVIOUS
    <2>1. job'[q] = job[q] /\ job[q].now \subseteq Product
      BY <1>1, <1>4 DEF CatalogueTypeOK, CatalogueJob, Mirroring
    <2>2. job[q].at # "orphans" => \A x \in InShop \ (job[q].left \cup job[q].now) : Copied(x)'
      BY <1>2, <1>3, <1>4 DEF Progress
    <2>3. job[q].at \in {"variants", "absent"} => \A x \in job[q].now :
              products'[x].row /\ products'[x].active = shop[x].active
      BY <1>4, <2>1 DEF Progress
    <2>4. job[q].at = "absent" => \A x \in job[q].now : shop[x].variants \cap Formatted \subseteq products'[x].on
      BY <1>4, <2>1 DEF Progress
    <2>5. job[q].at = "orphans" => \A x \in Product :
              IF x \in InShop THEN Copied(x)' /\ x \notin job[q].left
              ELSE products'[x].row /\ products'[x].active => x \in job[q].left
      BY <1>3, <1>4 DEF Progress
    <2>6. job[q].known = shop
      BY <1>4 DEF Progress
    <2> QED  BY <1>2, <2>1, <2>2, <2>3, <2>4, <2>5, <2>6 DEF Progress
  <1>5. MirrorKept'
    <2>1. mirror = "yes" => \A q \in Proc : job'[q] = Idle \/ Choosing(job'[q])
      BY <1>1 DEF CatalogueInv, MirrorKept
    <2>2. ASSUME mirror = "syncing"
          PROVE  /\ \E q \in Proc : Mirroring(job'[q])
                 /\ \A q \in Proc : job'[q] = Idle \/ Choosing(job'[q]) \/ Mirroring(job'[q])
                 /\ \A q, r \in Proc : Mirroring(job'[q]) /\ Mirroring(job'[r]) => q = r
      BY <1>1, <1>2, <2>2 DEF CatalogueInv, MirrorKept
    <2>3. ASSUME mirror = "syncing", NEW q \in Proc, Mirroring(job'[q])
          PROVE  Progress(job[q])'
      <3>1. q # p /\ job'[q] = job[q] /\ Mirroring(job[q])
        BY <1>1, <1>2, <2>3
      <3>2. Progress(job[q]) /\ CatalogueJobOK(job[q])
        BY <1>1, <2>3, <3>1 DEF CatalogueInv, MirrorKept, CatalogueTypeOK, Mirroring
      <3> QED  BY <1>4, <3>1, <3>2
    <2> QED  BY <2>1, <2>2, <2>3 DEF MirrorKept
  <1>6. SyncMirrorsShopify'
    <2> SUFFICES ASSUME mirror = "yes", NEW x \in Product
                 PROVE  IF x \in InShop /\ shop[x].active
                        THEN /\ products'[x].row /\ products'[x].active
                             /\ products'[x].on \subseteq shop[x].variants
                             /\ shop[x].variants \cap Formatted \subseteq products'[x].on
                        ELSE products'[x].row => ~products'[x].active
      BY <1>2 DEF SyncMirrorsShopify, InRows
    <2> QED  BY DEF CatalogueInv, SyncMirrorsShopify, InRows
  <1> QED  BY <1>5, <1>6

LEMMA SetPbnProductKeepsInv ==
    ASSUME CatalogueInv, NEW p \in Proc, NEW chosen \in SUBSET Product,
           \A x, y \in chosen : x = y, SetPbnProduct(p, chosen)
    PROVE  CatalogueInv'
  <1>1. PICK j : j = [Task("pbn", "choose", shop, {}) EXCEPT !.now = chosen, !.cleared = Flagged \ chosen]
    OBVIOUS
  <1>2. /\ job[p] = Idle /\ job' = [job EXCEPT ![p] = j] /\ flagRaced' = (flagRaced \/ Underway("pbn"))
        /\ UNCHANGED <<shop, kindsHad, products, hooks, mirror>>
    BY <1>1 DEF SetPbnProduct, Dispatch, External
  <1>3. CatalogueTypeOK /\ Flagged \subseteq Product
    BY DEF CatalogueInv, Flagged, InRows
  <1>4. PICK t \in CatalogueJob :
            /\ t = Task("pbn", "choose", shop, {}) /\ t.op = "pbn" /\ t.at = "choose" /\ t.known = shop
            /\ t.kinds = [x \in Product |-> Unknown] /\ t.left = {} /\ t.now = {} /\ t.cleared = {}
    BY <1>3, TaskFields DEF CatalogueTypeOK
  <1>5. /\ j \in CatalogueJob /\ j # Idle /\ j.op = "pbn" /\ j.at = "choose" /\ j.now = chosen
        /\ j.cleared = Flagged \ chosen /\ \A x \in Product : j.kinds[x] = Unknown
    <2>1. j = [t EXCEPT !.now = chosen, !.cleared = Flagged \ chosen]
      BY <1>1, <1>4
    <2> QED  BY <1>3, <1>4, <2>1 DEF CatalogueJob, Idle
  <1>6. CatalogueJobOK(j) /\ Choosing(j) /\ ~Mirroring(job[p])
    BY <1>2, <1>5 DEF CatalogueJobOK, CatalogueSteps, Writing, Choosing, Mirroring
  <1>7. job'[p] = j /\ (\A q \in Proc \ {p} : job'[q] = job[q]) /\ Flagged' = Flagged
    BY <1>2, <1>3 DEF CatalogueTypeOK, Flagged, InRows
  <1>8. CatalogueTypeOK'
    <2>1. flagRaced' \in BOOLEAN
      BY <1>2 DEF Underway
    <2>2. job' \in [Proc -> CatalogueJob \cup {Idle}] /\ \A q \in Proc : job'[q] # Idle => CatalogueJobOK(job'[q])
      BY <1>2, <1>3, <1>5, <1>6, <1>7 DEF CatalogueTypeOK
    <2> QED  BY <1>2, <1>3, <2>1, <2>2 DEF CatalogueTypeOK
  <1>9. KindsTold'
    BY <1>2, <1>5, <1>7 DEF CatalogueInv, KindsTold, ShopKind, InShop
  <1>10. ChoicesApart'
    <2> SUFFICES ASSUME ~flagRaced' PROVE ChoicesApart'
      BY DEF ChoicesApart
    <2>1. ~flagRaced /\ \A q \in Proc : ~Choosing(job[q])
      BY <1>2 DEF Underway, Choosing
    <2>2. \A q \in Proc : Choosing(job'[q]) => q = p
      BY <1>7, <2>1
    <2>3. Flagged \subseteq j.cleared \cup j.now
      BY <1>5
    <2>4. \A x, y \in Flagged : x = y
      BY <2>1 DEF CatalogueInv, ChoicesApart
    <2> QED  BY <1>7, <2>2, <2>3, <2>4 DEF ChoicesApart
  <1>11. MirrorKept' /\ SyncMirrorsShopify'
    BY <1>2, <1>6, ChoicesLeaveMirror
  <1> QED  BY <1>8, <1>9, <1>10, <1>11 DEF CatalogueInv

LEMMA CommitPbnProductKeepsInv ==
    ASSUME CatalogueInv, NEW p \in Proc, CommitPbnProduct(p)
    PROVE  CatalogueInv'
  <1>1. /\ job[p].op = "pbn" /\ job[p].at = "choose" /\ job' = [job EXCEPT ![p] = Idle]
        /\ products' = [x \in Product |->
              IF x \in InRows THEN [products[x] EXCEPT !.pbn =
                  (@ /\ x \notin job[p].cleared) \/ x \in job[p].now]
              ELSE NoRow]
        /\ UNCHANGED <<shop, kindsHad, hooks, mirror, flagRaced>>
    BY DEF CommitPbnProduct, At, Become, External
  <1>2. CatalogueTypeOK /\ job[p] # Idle /\ CatalogueJobOK(job[p]) /\ Choosing(job[p])
    BY <1>1, CatalogueAtWork DEF Choosing
  <1>3. \A x \in Product : /\ products[x] \in Row \cup {NoRow} /\ (x \in InRows => products[x] \in Row)
                           /\ (x \in InRows <=> products[x].row)
    BY <1>2 DEF CatalogueTypeOK, InRows, NoRow
  <1>4. ASSUME NEW x \in Product
        PROVE  /\ products'[x] \in Row \cup {NoRow} /\ products'[x].row = products[x].row
               /\ products[x].row => /\ products'[x].active = products[x].active
                                     /\ products'[x].on = products[x].on
                                     /\ products'[x].pbn => (products[x].pbn /\ x \notin job[p].cleared)
                                                              \/ x \in job[p].now
    <2>1. CASE x \in InRows
      <3>1. PICK b \in BOOLEAN : b = ((products[x].pbn /\ x \notin job[p].cleared) \/ x \in job[p].now)
        OBVIOUS
      <3>2. products'[x] = [products[x] EXCEPT !.pbn = b]
        BY <1>1, <2>1, <3>1
      <3>3. /\ products'[x] \in Row /\ products'[x].row = products[x].row
            /\ products'[x].active = products[x].active /\ products'[x].on = products[x].on
            /\ products'[x].pbn = b
        BY <1>3, <2>1, <3>2 DEF Row
      <3> QED  BY <3>1, <3>3
    <2>2. CASE x \notin InRows
      <3>1. products[x] = NoRow /\ products'[x] = NoRow
        BY <1>1, <1>3, <2>2 DEF Row
      <3> QED  BY <3>1 DEF NoRow
    <2> QED  BY <2>1, <2>2
  <1>5. CatalogueTypeOK'
    BY <1>1, <1>2, <1>4 DEF CatalogueTypeOK
  <1>6. job'[p] = Idle /\ \A q \in Proc \ {p} : job'[q] = job[q]
    BY <1>1, <1>2 DEF CatalogueTypeOK
  <1>7. KindsTold'
    BY <1>1, <1>6 DEF CatalogueInv, KindsTold, ShopKind, InShop
  <1>8. ChoicesApart'
    <2> SUFFICES ASSUME ~flagRaced PROVE ChoicesApart'
      BY <1>1 DEF ChoicesApart
    <2>1. \A q \in Proc : Choosing(job[q]) => q = p
      BY <1>2 DEF CatalogueInv, ChoicesApart
    <2>2. \A q \in Proc : ~Choosing(job'[q])
      BY <1>6, <2>1 DEF Choosing
    <2>3. Flagged \subseteq job[p].cleared \cup job[p].now
      BY <1>2 DEF CatalogueInv, ChoicesApart
    <2>4. Flagged' \subseteq job[p].now
      <3> SUFFICES ASSUME NEW x \in Product, products'[x].row, products'[x].pbn PROVE x \in job[p].now
        BY DEF Flagged, InRows
      <3>1. products[x].row /\ ((products[x].pbn /\ x \notin job[p].cleared) \/ x \in job[p].now)
        BY <1>4
      <3> QED  BY <2>3, <3>1 DEF Flagged, InRows
    <2>5. \A x, y \in job[p].now : x = y
      BY <1>1, <1>2 DEF CatalogueJobOK
    <2> QED  BY <2>2, <2>4, <2>5 DEF ChoicesApart
  <1>9. MirrorKept' /\ SyncMirrorsShopify'
    BY <1>1, <1>2, <1>4, ChoicesLeaveMirror DEF Mirroring, Choosing
  <1> QED  BY <1>5, <1>7, <1>8, <1>9 DEF CatalogueInv

LEMMA CatalogueStartsWithInv ==
    ASSUME CatalogueInit
    PROVE  CatalogueInv
  <1>1. /\ shop = [x \in Product |-> [listed |-> TRUE, active |-> TRUE,
                                      variants |-> Variant, kind |-> PrintArt]]
        /\ hooks = {} /\ kindsHad = [x \in Product |-> {PrintArt}] /\ mirror = "no" /\ flagRaced = FALSE
        /\ job = [p \in Proc |-> Idle]
    BY DEF CatalogueInit, RequestsInit
  <1>2. products \in [Product -> Row \cup {NoRow}] /\ Flagged = {}
    <2>1. CASE products = [x \in Product |-> NoRow]
      BY <2>1 DEF Flagged, InRows, NoRow
    <2>2. CASE products = [x \in Product |-> [NewRow(TRUE, PrintArt) EXCEPT !.on = Formatted]]
      <3>1. PICK row : row = [NewRow(TRUE, PrintArt) EXCEPT !.on = Formatted]
        OBVIOUS
      <3>2. row \in Row /\ row.pbn = FALSE
        BY <3>1, CatalogueConstants DEF NewRow, Row
      <3> QED  BY <2>2, <3>1, <3>2 DEF Flagged, InRows
    <2> QED  BY <2>1, <2>2 DEF CatalogueInit
  <1>3. CatalogueTypeOK
    BY <1>1, <1>2 DEF CatalogueTypeOK, Listed
  <1>4. KindsTold
    BY <1>1 DEF KindsTold, ShopKind, InShop
  <1>5. ChoicesApart
    BY <1>1, <1>2 DEF ChoicesApart, Choosing
  <1>6. MirrorKept /\ SyncMirrorsShopify
    BY <1>1 DEF MirrorKept, SyncMirrorsShopify
  <1> QED  BY <1>3, <1>4, <1>5, <1>6 DEF CatalogueInv

LEMMA CatalogueStepsKeepInv ==
    ASSUME CatalogueInv, [CatalogueNext]_catalogueVars
    PROVE  CatalogueInv'
  <1>1. ASSUME UNCHANGED catalogueVars
        PROVE  CatalogueInv'
    <2>1. UNCHANGED <<shop, products, hooks, kindsHad, mirror, flagRaced, job>>
      BY <1>1 DEF catalogueVars
    <2>2. CatalogueTypeOK' /\ KindsTold' /\ ChoicesApart'
      BY <2>1 DEF CatalogueInv, CatalogueTypeOK, KindsTold, ShopKind, InShop, ChoicesApart, Flagged, InRows
    <2>3. \A j : Progress(j) <=> Progress(j)'
      BY <2>1 DEF Progress, Copied, InShop
    <2>4. MirrorKept' /\ SyncMirrorsShopify'
      BY <2>1, <2>3 DEF CatalogueInv, MirrorKept, SyncMirrorsShopify, InShop, InRows
    <2> QED  BY <2>2, <2>4 DEF CatalogueInv
  <1>2. ASSUME NEW p \in Proc, Admin(p)
        PROVE  CatalogueInv'
    <2>1. ASSUME NEW x \in Product, CreateProduct(x) \/ SoftDelete(x) \/ HardDelete(x)
          PROVE  CatalogueInv'
      BY <2>1, CatalogueRowsKeepInv
    <2>2. ASSUME NEW x \in Product, NEW v \in Variant, LinkVariant(x, v) \/ UpdateVariantLink(x, v)
          PROVE  CatalogueInv'
      BY <2>2, CatalogueRowsKeepInv
    <2>3. ASSUME NEW chosen, chosen = {} \/ (\E x \in Product : chosen = {x}), SetPbnProduct(p, chosen)
          PROVE  CatalogueInv'
      <3>1. chosen \in SUBSET Product /\ \A x, y \in chosen : x = y
        BY <2>3
      <3> QED  BY <2>3, <3>1, SetPbnProductKeepsInv
    <2> QED  BY <1>2, <2>1, <2>2, <2>3, CommitPbnProductKeepsInv DEF Admin
  <1>3. ASSUME NEW p \in Proc,
               \/ UpsertProduct(p) \/ SyncVariants(p) \/ DeactivateAbsent(p)
               \/ \E h \in hooks : ProcessUpsert(p, h)
               \/ FetchAllProducts(p) \/ FetchArtKindMap(p) \/ NextProduct(p)
               \/ DetectOrphans(p) \/ SoftDeleteOrphan(p) \/ EndSync(p)
               \/ CatalogueFails(p)
        PROVE  CatalogueInv'
    BY <1>3, UpsertProductKeepsInv, SyncVariantsKeepsInv, DeactivateAbsentKeepsInv,
       ProcessUpsertKeepsInv, FetchAllProductsKeepsInv, SyncStepsKeepInv, SoftDeleteOrphanKeepsInv,
       EndSyncKeepsInv, CatalogueFailsKeepsInv
  <1>4. ASSUME \E x \in InShop : \E new \in Edited(x) : ShopChanges(x, new)
        PROVE  CatalogueInv'
    BY <1>4, ShopChangesKeepsInv
  <1>5. ASSUME \E h \in hooks : ProcessDelete(h)
        PROVE  CatalogueInv'
    BY <1>5, ProcessDeleteKeepsInv
  <1> QED  BY <1>1, <1>2, <1>3, <1>4, <1>5 DEF CatalogueNext

\* After a full sync that nothing disturbed, what the shop shows is what
\* Shopify has (sync.service.ts, runFullSync).
THEOREM CatalogueMirrorsShopify == CatalogueSpec => []SyncMirrorsShopify
  <1>1. CatalogueInv => SyncMirrorsShopify
    BY DEF CatalogueInv
  <1> QED  BY <1>1, CatalogueStartsWithInv, CatalogueStepsKeepInv, PTL DEF CatalogueSpec

\* One product at most is marked as that of the kit, until two choices meet
\* (products.service.ts, setPbnProduct).
THEOREM OneProductOfTheKit == CatalogueSpec => []OnePbnProduct
  <1>1. CatalogueInv => OnePbnProduct
    <2> SUFFICES ASSUME CatalogueInv, ~flagRaced PROVE Cardinality(Flagged) <= 1
      BY DEF OnePbnProduct
    <2>1. \A x, y \in Flagged : x = y
      BY DEF CatalogueInv, ChoicesApart
    <2>2. CASE Flagged = {}
      BY <2>2, FS_EmptySet
    <2>3. CASE Flagged # {}
      <3>1. PICK x \in Flagged : TRUE
        BY <2>3
      <3>2. Flagged = {x}
        BY <2>1, <3>1
      <3>3. Cardinality(Flagged) = 1
        BY <3>2, FS_Singleton
      <3> QED  BY <3>3
    <2> QED  BY <2>2, <2>3
  <1> QED  BY <1>1, CatalogueStartsWithInv, CatalogueStepsKeepInv, PTL DEF CatalogueSpec

\* The kind of a product changes only to one that its metafield had in
\* Shopify, whatever lookups fail (sync.service.ts:160-164).
THEOREM KindsAreShopifys == CatalogueSpec => KindsComeFromShopify
  <1> DEFINE Told == \A x \in InRows : products'[x].row /\ products'[x].kind # products[x].kind =>
                        products'[x].kind \in kindsHad[x]
  <1>1. ASSUME CatalogueInv, [CatalogueNext]_catalogueVars
        PROVE  [Told]_catalogueVars
    <2> SUFFICES ASSUME CatalogueNext, NEW x \in InRows, products'[x].row, products'[x].kind # products[x].kind
                 PROVE  products'[x].kind \in kindsHad[x]
      BY <1>1
    <2>1. /\ CatalogueTypeOK /\ x \in Product /\ products[x] \in Row /\ products' # products
          /\ products \in [Product -> Row \cup {NoRow}]
      BY <1>1 DEF CatalogueInv, CatalogueTypeOK, InRows, NoRow
    <2>2. CASE \E p \in Proc : UpsertProduct(p)
      <3>1. PICK p \in Proc : UpsertProduct(p)
        BY <2>2
      <3>2. PICK y \in job[p].now : products' = [products EXCEPT ![y] =
                IF y \in InRows
                THEN [products[y] EXCEPT !.active = job[p].known[y].active,
                                         !.kind = NewKind(@, job[p].kinds[y])]
                ELSE NewRow(job[p].known[y].active, NewKind(NoKind, job[p].kinds[y]))]
        BY <3>1 DEF UpsertProduct
      <3>3. y = x
        BY <2>1, <3>2
      <3>4. products'[x].kind = NewKind(products[x].kind, job[p].kinds[x])
        BY <2>1, <3>2, <3>3 DEF Row
      <3>5. job[p].kinds[x] \in kindsHad[x]
        <4>1. job[p].at = "upsert"
          BY <3>1 DEF UpsertProduct
        <4>2. job[p].kinds[x] \in kindsHad[x] \cup {Unknown}
          BY <1>1, <2>1, <3>2, <3>3, <4>1, CatalogueAtWork
        <4> QED  BY <3>4, <4>2 DEF NewKind
      <3> QED  BY <3>4, <3>5 DEF NewKind
    <2>3. ASSUME NEW y \in Product, NEW row, products' = [products EXCEPT ![y] = row],
                 y = x /\ row.row => row.kind = products[x].kind
          PROVE  FALSE
      BY <2>1, <2>3
    <2>4. ASSUME NEW y \in Product, NEW row, ByAdmin(y, row),
                 row.row => row.kind = products[y].kind \/ y \notin InRows
          PROVE  FALSE
      BY <2>1, <2>3, <2>4 DEF ByAdmin
    <2>5. ASSUME NEW y \in Product, CreateProduct(y) \/ SoftDelete(y) \/ HardDelete(y)
          PROVE  FALSE
      <3>1. y \in InRows => products[y] \in Row
        BY <2>1 DEF InRows, NoRow
      <3>2. CASE CreateProduct(y)
        BY <2>4, <3>2 DEF CreateProduct
      <3>3. CASE SoftDelete(y)
        <4>1. [products[y] EXCEPT !.active = FALSE].kind = products[y].kind
          BY <3>1, <3>3 DEF SoftDelete, Row
        <4> QED  BY <2>4, <3>3, <4>1 DEF SoftDelete
      <3>4. CASE HardDelete(y)
        BY <2>4, <3>4 DEF HardDelete, NoRow
      <3> QED  BY <2>5, <3>2, <3>3, <3>4
    <2>6. ASSUME NEW y \in Product, NEW v \in Variant, LinkVariant(y, v) \/ UpdateVariantLink(y, v)
          PROVE  FALSE
      <3>1. y \in InRows /\ products[y] \in Row
        BY <2>1, <2>6 DEF InRows, NoRow, LinkVariant, UpdateVariantLink
      <3>2. CASE LinkVariant(y, v)
        <4>1. [products[y] EXCEPT !.on = @ \cup {v}, !.off = @ \ {v}].kind = products[y].kind
          BY <3>1 DEF Row
        <4> QED  BY <2>4, <3>2, <4>1 DEF LinkVariant
      <3>3. CASE UpdateVariantLink(y, v)
        <4>1. [products[y] EXCEPT !.on = @ \ {v}, !.off = @ \cup {v}].kind = products[y].kind
          BY <3>1 DEF Row
        <4> QED  BY <2>4, <3>3, <4>1 DEF UpdateVariantLink
      <3> QED  BY <2>6, <3>2, <3>3
    <2>7. ASSUME NEW y \in Product, products' = [products EXCEPT ![y] = SoftDeleted(@)]
          PROVE  FALSE
      <3>1. products[y] \in Row \cup {NoRow} /\ SoftDeleted(products[y]).row = products[y].row
            /\ (products[y].row => SoftDeleted(products[y]).kind = products[y].kind)
        BY <2>1, SoftDeletedRow
      <3> QED  BY <2>3, <2>7, <3>1
    <2>8. ASSUME NEW p \in Proc, NEW y \in Product, NEW on, NEW off,
                 products' = [products EXCEPT ![y].on = on, ![y].off = off]
          PROVE  FALSE
      <3>1. products'[x].kind = products[x].kind
        BY <2>1, <2>8 DEF Row
      <3> QED  BY <3>1
    <2>9. ASSUME NEW p \in Proc, SyncVariants(p) \/ DeactivateAbsent(p)
          PROVE  FALSE
      <3>1. job[p].now \subseteq Product
        <4>1. job[p].at # "idle"
          BY <2>9 DEF SyncVariants, DeactivateAbsent
        <4> QED  BY <1>1, <4>1, CatalogueAtWork DEF CatalogueJob
      <3>2. CASE SyncVariants(p)
        <4>1. PICK y \in job[p].now :
                 LET synced == job[p].known[y].variants \cap Formatted IN
                 products' = [products EXCEPT ![y].on = @ \cup synced, ![y].off = @ \ synced]
          BY <3>2 DEF SyncVariants
        <4>2. products'[x].kind = products[x].kind
          BY <2>1, <3>1, <4>1 DEF Row
        <4> QED  BY <2>3, <4>2
      <3>3. CASE DeactivateAbsent(p)
        <4>1. PICK y \in job[p].now : \E on, off : products' = [products EXCEPT ![y].on = on, ![y].off = off]
          BY <2>1, <3>3 DEF DeactivateAbsent
        <4> QED  BY <2>8, <3>1, <4>1
      <3> QED  BY <2>9, <3>2, <3>3
    <2>10. ASSUME NEW p \in Proc, CommitPbnProduct(p)
          PROVE  FALSE
      <3>1. products'[x] = [products[x] EXCEPT !.pbn = (@ /\ x \notin job[p].cleared) \/ x \in job[p].now]
        BY <2>1, <2>10 DEF CommitPbnProduct
      <3>2. products'[x].kind = products[x].kind
        BY <2>1, <3>1 DEF Row
      <3> QED  BY <3>2
    <2>11. ASSUME NEW p \in Proc, SoftDeleteOrphan(p)
          PROVE  FALSE
      <3>1. job[p].at # "idle" /\ \E y \in job[p].left : products' = [products EXCEPT ![y] = SoftDeleted(@)]
        BY <2>11 DEF SoftDeleteOrphan, At
      <3>2. job[p].left \subseteq Product
        BY <1>1, <3>1, CatalogueAtWork DEF CatalogueJob
      <3> QED  BY <2>7, <3>1, <3>2
    <2>12. ASSUME NEW h \in hooks, ProcessDelete(h)
          PROVE  FALSE
      BY <2>1, <2>7, <2>12 DEF ProcessDelete, CatalogueTypeOK, Hook
    <2>13. \E p \in Proc : \/ UpsertProduct(p) \/ SyncVariants(p) \/ DeactivateAbsent(p)
                           \/ SoftDeleteOrphan(p) \/ CommitPbnProduct(p)
                           \/ \E y \in Product : \/ CreateProduct(y) \/ SoftDelete(y) \/ HardDelete(y)
                                                 \/ \E v \in Variant : LinkVariant(y, v) \/ UpdateVariantLink(y, v)
      <3>1. \/ \E y \in InShop : \E new \in Edited(y) : ShopChanges(y, new)
            \/ \E p \in Proc : \/ \E h \in hooks : ProcessUpsert(p, h)
                               \/ FetchAllProducts(p) \/ FetchArtKindMap(p) \/ NextProduct(p)
                               \/ DetectOrphans(p) \/ EndSync(p) \/ CatalogueFails(p)
                               \/ \E chosen : SetPbnProduct(p, chosen)
            => products' = products
        BY DEF ShopChanges, ProcessUpsert, FetchAllProducts, FetchArtKindMap, NextProduct,
           DetectOrphans, EndSync, CatalogueFails, SetPbnProduct
      <3> QED  BY <2>1, <2>12, <3>1 DEF CatalogueNext, Admin
    <2> QED  BY <2>2, <2>5, <2>6, <2>9, <2>10, <2>11, <2>13
  <1>2. CatalogueSpec => [][Told]_catalogueVars
    BY <1>1, CatalogueStartsWithInv, CatalogueStepsKeepInv, PTL DEF CatalogueSpec
  <1> QED  BY <1>2 DEF KindsComeFromShopify

-----------------------------------------------------------------------------
(* A style and its files.                                                  *)

\* Which handler is at which of its steps.
StyleSteps ==
    [update |-> {"write"}, hardDelete |-> {"files", "rows"},
     addImage |-> {"upload", "insert"}, publish |-> {"insert"},
     updateImage |-> {"unset", "write"}, removeImage |-> {"file", "row"},
     uploadReference |-> {"old", "upload", "write"}, removeReference |-> {"old", "write"},
     removeConfig |-> {"delete"}, test |-> {"insert"}]

StyleJob ==
    [op : {"update", "hardDelete", "addImage", "publish", "updateImage", "removeImage",
           "uploadReference", "removeReference", "removeConfig", "test"},
     at : {"write", "files", "rows", "upload", "insert", "unset", "file", "row", "old", "delete"},
     key : FileKey \cup {0}, doomed : SUBSET FileKey, isPrimary : BOOLEAN,
     force : BOOLEAN, used : BOOLEAN, config : SUBSET Config]

\* The handlers that have the file of a row they will insert, of a reference
\* they will write, and those that delete files.
Comes(j) == j.op \in {"addImage", "publish"} /\ j.at = "insert"
Arrives(j) == j.op = "uploadReference" /\ j.at = "write"
Removes(j) == j.op = "removeImage"
Replaces(j) == j.op \in {"uploadReference", "removeReference"}
Erases(j) == j.op = "hardDelete"

\* What deletes uses was told to, or found none.
StyleJobOK(j) ==
    /\ j.at \in StyleSteps[j.op]
    /\ j.op \in {"hardDelete", "removeConfig"} => (j.used => j.force)

StyleTypeOK ==
    /\ style \in {"active", "inactive", "gone"}
    /\ pipeline \subseteq Config /\ configs \subseteq Config
    /\ images \subseteq Image /\ reference \in FileKey \cup {0}
    /\ generations \subseteq GenerationRow
    /\ made \in 0..MaxFiles /\ styleFiles \subseteq 1..made
    /\ unharmed \in BOOLEAN
    /\ job \in [Proc -> StyleJob \cup {Idle}]
    /\ \A p \in Proc : job[p] # Idle => StyleJobOK(job[p])
    /\ ~Exists => images = {} /\ generations = {} /\ reference = 0

\* The files are of three kinds, and stay of the kind that they are.
Shots == {i.key : i \in images}
Tests == {g.result : g \in {h \in generations : h.isAdminTest}}
Results == {g.result : g \in {h \in generations : ~h.isAdminTest}}
Pictures ==
    Shots \cup Tests \cup {job[p].key : p \in {q \in Proc : Comes(job[q]) \/ Removes(job[q])}}
References ==
    {reference} \cup {job[p].key : p \in {q \in Proc : Arrives(job[q])}}
                \cup UNION {job[p].doomed : p \in {q \in Proc : Replaces(job[q])}}
Dooms == UNION {job[p].doomed : p \in {q \in Proc : Erases(job[q])}}

KindsApart ==
    /\ Pictures \cup References \cup Results \cup Dooms \subseteq 0..made
    /\ Pictures \cap References \subseteq {0} /\ Pictures \cap Results \subseteq {0}
    /\ References \cap Results \subseteq {0} /\ (References \cup {0}) \cap Dooms = {}

\* A file that no row has yet is of one handler, and none deletes it as what
\* it will be.
FilesToCome ==
    /\ \A i, i2 \in images : i.key = i2.key => i = i2
    /\ \A p \in Proc : Comes(job[p]) \/ Arrives(job[p]) => job[p].key # 0
    /\ \A p \in Proc : Comes(job[p]) =>
          /\ job[p].key \notin Shots
          /\ \A q \in Proc : Removes(job[q]) \/ (Comes(job[q]) /\ q # p) =>
                job[q].key # job[p].key
    /\ \A p \in Proc : Arrives(job[p]) =>
          /\ job[p].key # reference
          /\ \A q \in Proc : /\ Replaces(job[q]) => job[p].key \notin job[q].doomed
                             /\ Arrives(job[q]) /\ q # p => job[q].key # job[p].key

\* A file that a row has and that is gone: who deleted it is still to write.
EraseOf(j, k) == Erases(j) /\ j.at = "rows" /\ k \in j.doomed
RemoveOf(j, k) == Removes(j) /\ j.at = "row" /\ k = j.key
ReplaceOf(j, k) == Replaces(j) /\ j.at # "old" /\ k \in j.doomed
Erasing(k) == \E p \in Proc : EraseOf(job[p], k)
Removing(k) == \E p \in Proc : RemoveOf(job[p], k)
Replacing(k) == \E p \in Proc : ReplaceOf(job[p], k)

FilesThere ==
    unharmed /\ Exists =>
        /\ \A k \in Shots : k \in styleFiles \/ Removing(k) \/ Erasing(k)
        /\ \A p \in Proc : Comes(job[p]) => job[p].key \in styleFiles \/ Erasing(job[p].key)
        /\ \A p \in Proc : Arrives(job[p]) => job[p].key \in styleFiles
        /\ reference # 0 => reference \in styleFiles \/ Replacing(reference)
        /\ \A k \in Results \ {0} : k \in styleFiles \/ Erasing(k)

StyleInv == StyleTypeOK /\ KindsApart /\ FilesToCome /\ FilesThere

LEMMA StyleAtWork ==
    ASSUME StyleTypeOK, NEW p \in Proc, job[p].op # "idle"
    PROVE  job[p] # Idle /\ job[p] \in StyleJob /\ StyleJobOK(job[p])
  BY DEF StyleTypeOK, Idle

LEMMA IdleStyleJob ==
    /\ ~Comes(Idle) /\ ~Arrives(Idle) /\ ~Removes(Idle) /\ ~Replaces(Idle) /\ ~Erases(Idle)
    /\ \A k : ~EraseOf(Idle, k) /\ ~RemoveOf(Idle, k) /\ ~ReplaceOf(Idle, k)
  BY DEF Comes, Arrives, Removes, Replaces, Erases, EraseOf, RemoveOf, ReplaceOf, Idle

\* A handler starts, goes on or ends, and stores nothing.
LEMMA StyleMove ==
    ASSUME StyleInv, NEW p \in Proc, NEW j \in StyleJob \cup {Idle},
           job' = [job EXCEPT ![p] = j], j # Idle => StyleJobOK(j),
           /\ style' \in {"active", "inactive", "gone"}
           /\ pipeline' \subseteq Config /\ configs' \subseteq Config
           /\ images' \subseteq Image /\ reference' \in FileKey \cup {0}
           /\ generations' \subseteq GenerationRow
           /\ made' = made /\ styleFiles' \subseteq styleFiles /\ unharmed' \in BOOLEAN
           /\ ~Exists' => images' = {} /\ generations' = {} /\ reference' = 0,
           \A i, i2 \in images' : i.key = i2.key => i = i2,
           Tests' \subseteq Tests \cup {0}, Results' \subseteq Results \cup {0},
           \A k \in Shots' : k \in Shots \/ (Comes(job[p]) /\ ~Comes(j) /\ k = job[p].key),
           \/ reference' \in {reference, 0}
           \/ Arrives(job[p]) /\ ~Arrives(j) /\ reference' = job[p].key,
           Comes(j) \/ Arrives(j) => j = job[p],
           Removes(j) => j.key \in Shots \/ (Removes(job[p]) /\ j.key = job[p].key),
           Replaces(j) => \/ j.doomed \subseteq {reference} \ {0}
                          \/ Replaces(job[p]) /\ j.doomed = job[p].doomed,
           Erases(j) => \/ j.doomed \subseteq (Shots \cup Tests \cup Results) \ {0}
                        \/ Erases(job[p]) /\ j.doomed = job[p].doomed
    PROVE  StyleTypeOK' /\ KindsApart' /\ FilesToCome'
  <1>1. job'[p] = j /\ \A q \in Proc \ {p} : job'[q] = job[q]
    BY DEF StyleInv, StyleTypeOK
  <1>2. StyleTypeOK'
    <2>1. job' \in [Proc -> StyleJob \cup {Idle}]
      BY DEF StyleInv, StyleTypeOK
    <2>2. \A q \in Proc : job'[q] # Idle => StyleJobOK(job'[q])
      BY <1>1 DEF StyleInv, StyleTypeOK
    <2>3. made' \in 0..MaxFiles /\ styleFiles' \subseteq 1..made'
      BY DEF StyleInv, StyleTypeOK
    <2>4. \A q \in Proc : job'[q] # Idle => StyleJobOK(job[q])'
      BY <2>2 DEF StyleJobOK
    <2> QED  BY <2>1, <2>3, <2>4 DEF StyleTypeOK
  <1>3. Pictures' \subseteq Pictures \cup {0}
    <2> SUFFICES ASSUME NEW k \in Pictures' PROVE k \in Pictures \cup {0}
      OBVIOUS
    <2>1. CASE k \in Shots'
      BY <2>1 DEF Pictures
    <2>2. CASE k \in Tests'
      BY <2>2 DEF Pictures
    <2>3. ASSUME NEW q \in Proc, Comes(job'[q]) \/ Removes(job'[q]), k = job'[q].key
          PROVE  k \in Pictures
      BY <1>1, <2>3 DEF Pictures
    <2>4. k \in Shots' \/ k \in Tests'
          \/ \E q \in Proc : (Comes(job'[q]) \/ Removes(job'[q])) /\ k = job'[q].key
      BY DEF Pictures, Comes, Removes
    <2> QED  BY <2>1, <2>2, <2>3, <2>4
  <1>4. References' \subseteq References \cup {0}
    <2> SUFFICES ASSUME NEW k \in References' PROVE k \in References \cup {0}
      OBVIOUS
    <2>1. CASE k = reference'
      BY <2>1 DEF References
    <2>2. ASSUME NEW q \in Proc, Arrives(job'[q]), k = job'[q].key
          PROVE  k \in References
      BY <1>1, <2>2 DEF References
    <2>3. ASSUME NEW q \in Proc, Replaces(job'[q]), k \in job'[q].doomed
          PROVE  k \in References
      BY <1>1, <2>3 DEF References
    <2>4. \/ k = reference'
          \/ \E q \in Proc : Arrives(job'[q]) /\ k = job'[q].key
          \/ \E q \in Proc : Replaces(job'[q]) /\ k \in job'[q].doomed
      BY DEF References, Arrives, Replaces
    <2> QED  BY <2>1, <2>2, <2>3, <2>4
  <1>5. Dooms' \subseteq Dooms \cup ((Pictures \cup Results) \ {0})
    <2> SUFFICES ASSUME NEW q \in Proc, Erases(job'[q]), NEW k \in job'[q].doomed
                 PROVE  k \in Dooms \cup ((Pictures \cup Results) \ {0})
      BY DEF Dooms, Erases
    <2> QED  BY <1>1 DEF Dooms, Pictures
  <1>6. KindsApart'
    <2>1. made \in Nat
      BY DEF StyleInv, StyleTypeOK
    <2> QED  BY <1>3, <1>4, <1>5, <2>1 DEF StyleInv, KindsApart
  <1>7. FilesToCome'
    <2>1. \A q \in Proc : Comes(job'[q]) \/ Arrives(job'[q]) => job'[q] = job[q]
      BY <1>1
    <2>2. \A q \in Proc : Comes(job'[q]) \/ Arrives(job'[q]) => job'[q].key # 0
      BY <2>1 DEF StyleInv, FilesToCome
    <2>3. ASSUME NEW q \in Proc, Comes(job'[q])
          PROVE  /\ job'[q].key \notin Shots'
                 /\ \A r \in Proc : Removes(job'[r]) \/ (Comes(job'[r]) /\ r # q) =>
                        job'[r].key # job'[q].key
      <3>1. job'[q] = job[q] /\ Comes(job[q])
        BY <2>1, <2>3
      <3>2. /\ job[q].key \notin Shots
            /\ \A r \in Proc : Removes(job[r]) \/ (Comes(job[r]) /\ r # q) => job[r].key # job[q].key
        BY <3>1 DEF StyleInv, FilesToCome
      <3> QED  BY <1>1, <2>1, <2>3, <3>1, <3>2
    <2>4. ASSUME NEW q \in Proc, Arrives(job'[q])
          PROVE  /\ job'[q].key # reference'
                 /\ \A r \in Proc : /\ Replaces(job'[r]) => job'[q].key \notin job'[r].doomed
                                    /\ Arrives(job'[r]) /\ r # q => job'[r].key # job'[q].key
      <3>1. job'[q] = job[q] /\ Arrives(job[q]) /\ job[q].key # 0
        BY <2>1, <2>2, <2>4
      <3>2. /\ job[q].key # reference
            /\ \A r \in Proc : /\ Replaces(job[r]) => job[q].key \notin job[r].doomed
                               /\ Arrives(job[r]) /\ r # q => job[r].key # job[q].key
        BY <3>1 DEF StyleInv, FilesToCome
      <3> QED  BY <1>1, <2>1, <2>4, <3>1, <3>2
    <2> QED  BY <2>2, <2>3, <2>4 DEF FilesToCome, Comes, Arrives, Removes, Replaces
  <1> QED  BY <1>2, <1>6, <1>7

\* A handler that takes no file away, and none of what accounts for one.
LEMMA StyleKeeps ==
    ASSUME StyleInv, NEW p \in Proc, NEW j, job' = [job EXCEPT ![p] = j],
           styleFiles \subseteq styleFiles', unharmed' => unharmed, Exists' => Exists,
           \A k \in Shots' : k \in Shots \/ (Comes(job[p]) /\ k = job[p].key),
           \A k \in Results' : k \in Results \cup {0} \cup styleFiles',
           reference' \in {reference, 0} \cup styleFiles',
           Comes(j) \/ Arrives(j) => j = job[p] \/ j.key \in styleFiles',
           \A k : /\ EraseOf(job[p], k) => EraseOf(j, k)
                  /\ RemoveOf(job[p], k) => RemoveOf(j, k)
                  /\ ReplaceOf(job[p], k) => ReplaceOf(j, k)
    PROVE  FilesThere'
  <1>1. job'[p] = j /\ \A q \in Proc \ {p} : job'[q] = job[q]
    BY DEF StyleInv, StyleTypeOK
  <1>2. SUFFICES ASSUME unharmed', Exists'
                 PROVE  /\ \A k \in Shots' : k \in styleFiles' \/ Removing(k)' \/ Erasing(k)'
                        /\ \A q \in Proc : Comes(job'[q]) =>
                                job'[q].key \in styleFiles' \/ Erasing(job[q].key)'
                        /\ \A q \in Proc : Arrives(job'[q]) => job'[q].key \in styleFiles'
                        /\ reference' # 0 => reference' \in styleFiles' \/ Replacing(reference)'
                        /\ \A k \in Results' \ {0} : k \in styleFiles' \/ Erasing(k)'
    BY DEF FilesThere, Comes, Arrives
  <1>3. \A k : /\ Erasing(k) => Erasing(k)'
               /\ Removing(k) => Removing(k)'
               /\ Replacing(k) => Replacing(k)'
    <2>2. \A k : \A q \in Proc : /\ EraseOf(job[q], k) => EraseOf(job'[q], k)
                                 /\ RemoveOf(job[q], k) => RemoveOf(job'[q], k)
                                 /\ ReplaceOf(job[q], k) => ReplaceOf(job'[q], k)
      BY <1>1
    <2>3. \A k : /\ Erasing(k)' <=> \E q \in Proc : EraseOf(job'[q], k)
                 /\ Removing(k)' <=> \E q \in Proc : RemoveOf(job'[q], k)
                 /\ Replacing(k)' <=> \E q \in Proc : ReplaceOf(job'[q], k)
      BY DEF Erasing, Removing, Replacing, EraseOf, RemoveOf, ReplaceOf, Erases, Removes, Replaces
    <2> QED  BY <2>2, <2>3 DEF Erasing, Removing, Replacing
  <1>4. /\ \A k \in Shots : k \in styleFiles \/ Removing(k) \/ Erasing(k)
        /\ \A q \in Proc : Comes(job[q]) => job[q].key \in styleFiles \/ Erasing(job[q].key)
        /\ \A q \in Proc : Arrives(job[q]) => job[q].key \in styleFiles
        /\ reference # 0 => reference \in styleFiles \/ Replacing(reference)
        /\ \A k \in Results \ {0} : k \in styleFiles \/ Erasing(k)
    BY <1>2 DEF StyleInv, FilesThere
  <1>5. \A k \in Shots' : k \in styleFiles' \/ Removing(k)' \/ Erasing(k)'
    BY <1>3, <1>4
  <1>6. ASSUME NEW q \in Proc, Comes(job'[q])
        PROVE  job'[q].key \in styleFiles' \/ Erasing(job[q].key)'
    <2>1. CASE job'[q].key \in styleFiles'
      BY <2>1
    <2>2. CASE job'[q] = job[q]
      <3>1. job[q].key \in styleFiles \/ Erasing(job[q].key)
        BY <1>4, <1>6, <2>2
      <3>2. PICK k : k = job[q].key
        OBVIOUS
      <3>3. k \in styleFiles' \/ Erasing(k)'
        BY <1>3, <3>1, <3>2
      <3> QED  BY <2>2, <3>2, <3>3 DEF Erasing
    <2> QED  BY <1>1, <1>6, <2>1, <2>2
  <1>7. \A q \in Proc : Arrives(job'[q]) => job'[q].key \in styleFiles'
    BY <1>1, <1>4
  <1>8. reference' # 0 => reference' \in styleFiles' \/ Replacing(reference)'
    <2>1. PICK k : k = reference
      OBVIOUS
    <2>2. Replacing(k) => Replacing(k)'
      BY <1>3
    <2> QED  BY <1>4, <2>1, <2>2 DEF Replacing
  <1>9. \A k \in Results' \ {0} : k \in styleFiles' \/ Erasing(k)'
    BY <1>3, <1>4
  <1> QED  BY <1>5, <1>6, <1>7, <1>8, <1>9

\* A handler that writes no image, no reference and no generation.
LEMMA StyleQuiet ==
    ASSUME StyleInv, NEW p \in Proc, NEW j \in StyleJob \cup {Idle},
           job' = [job EXCEPT ![p] = j], j # Idle => StyleJobOK(j),
           UNCHANGED <<images, reference, generations, styleFiles, made>>,
           style' \in {"active", "inactive", "gone"}, Exists' <=> Exists,
           pipeline' \subseteq Config, configs' \subseteq Config,
           unharmed' \in BOOLEAN, unharmed' => unharmed,
           Comes(j) \/ Arrives(j) => j = job[p],
           Removes(j) => j.key \in Shots \/ (Removes(job[p]) /\ j.key = job[p].key),
           Replaces(j) => \/ j.doomed \subseteq {reference} \ {0}
                          \/ Replaces(job[p]) /\ j.doomed = job[p].doomed,
           Erases(j) => \/ j.doomed \subseteq (Shots \cup Tests \cup Results) \ {0}
                        \/ Erases(job[p]) /\ j.doomed = job[p].doomed,
           unharmed' => \A k : /\ EraseOf(job[p], k) => EraseOf(j, k)
                               /\ RemoveOf(job[p], k) => RemoveOf(j, k)
                               /\ ReplaceOf(job[p], k) => ReplaceOf(j, k)
    PROVE  StyleInv'
  <1>1. Shots' = Shots /\ Tests' = Tests /\ Results' = Results
    BY DEF Shots, Tests, Results
  <1>2. StyleTypeOK' /\ KindsApart' /\ FilesToCome'
    <2>1. /\ images' \subseteq Image /\ reference' \in FileKey \cup {0}
          /\ generations' \subseteq GenerationRow
          /\ ~Exists' => images' = {} /\ generations' = {} /\ reference' = 0
          /\ \A i, i2 \in images' : i.key = i2.key => i = i2
      BY DEF StyleInv, StyleTypeOK, FilesToCome
    <2> QED  BY <1>1, <2>1, StyleMove
  <1>3. FilesThere'
    <2>1. CASE ~unharmed'
      BY <2>1 DEF FilesThere
    <2>2. CASE unharmed'
      BY <1>1, <2>2, StyleKeeps
    <2> QED  BY <2>1, <2>2
  <1> QED  BY <1>2, <1>3 DEF StyleInv

LEMMA StyleInitInv == StyleInit => StyleInv
  <1> SUFFICES ASSUME StyleInit PROVE StyleInv
    OBVIOUS
  <1>1. /\ job = [p \in Proc |-> Idle] /\ style = "active" /\ images = {} /\ reference = 0
        /\ generations = {} /\ styleFiles = {} /\ made = 0 /\ unharmed = TRUE
    BY DEF StyleInit, RequestsInit
  <1>2. \A p \in Proc : job[p] = Idle
    BY <1>1
  <1>3. StyleTypeOK
    BY <1>1, <1>2, StyleConstants DEF StyleInit, StyleTypeOK
  <1>4. Shots = {} /\ Tests = {} /\ Results = {}
    BY <1>1 DEF Shots, Tests, Results
  <1>5. Pictures = {} /\ References \subseteq {0} /\ Dooms = {}
    BY <1>1, <1>2, <1>4, IdleStyleJob DEF Pictures, References, Dooms
  <1>6. KindsApart
    BY <1>1, <1>4, <1>5 DEF KindsApart
  <1>7. FilesToCome
    BY <1>1, <1>2, IdleStyleJob DEF FilesToCome
  <1>8. FilesThere
    BY <1>1, <1>2, <1>4, IdleStyleJob DEF FilesThere
  <1> QED  BY <1>3, <1>6, <1>7, <1>8 DEF StyleInv

LEMMA StyleStartsKeepInv ==
    ASSUME StyleInv, NEW p \in Proc,
           \/ UpdateStyle(p) \/ AddImage(p) \/ StartTest(p)
           \/ \E force \in BOOLEAN : HardDeleteStyle(p, force)
                                     \/ \E c \in Config : RemoveConfig(p, c, force)
           \/ \E i \in images :
                RemoveImage(p, i) \/ \E isPrimary \in BOOLEAN : UpdateImage(p, i, isPrimary)
           \/ \E op \in {"uploadReference", "removeReference"} : FindReferenceStorageKey(p, op)
    PROVE  StyleInv'
  <1>1. job[p] = Idle /\ StyleTypeOK
    BY DEF UpdateStyle, AddImage, StartTest, HardDeleteStyle, RemoveConfig, RemoveImage,
           UpdateImage, FindReferenceStorageKey, Dispatch, StyleInv
  <1>2. \A k : ~EraseOf(job[p], k) /\ ~RemoveOf(job[p], k) /\ ~ReplaceOf(job[p], k)
    BY <1>1, IdleStyleJob
  <1>3. ASSUME NEW j \in StyleJob, job' = [job EXCEPT ![p] = j], StyleJobOK(j), ~Comes(j), ~Arrives(j),
               UNCHANGED <<StyleRows, StyleStorage, unharmed>>,
               Removes(j) => j.key \in Shots,
               Replaces(j) => j.doomed \subseteq {reference} \ {0},
               Erases(j) => j.doomed \subseteq (Shots \cup Tests \cup Results) \ {0}
        PROVE  StyleInv'
    BY <1>1, <1>2, <1>3, StyleQuiet DEF StyleTypeOK, StyleRows, StyleStorage, Exists
  <1>4. CASE UpdateStyle(p)
    <2>1. PICK j : /\ \E link \in SUBSET Config : j = [StyleTask("update", "write") EXCEPT !.config = link]
                   /\ job' = [job EXCEPT ![p] = j]
      BY <1>4 DEF UpdateStyle, Dispatch
    <2>2. j \in StyleJob /\ j.op = "update" /\ j.at = "write"
      BY <2>1 DEF StyleTask, NoTask, StyleJob
    <2>10. /\ StyleJobOK(j) /\ ~Comes(j) /\ ~Arrives(j)
           /\ Removes(j) => j.key \in Shots
           /\ Replaces(j) => j.doomed \subseteq {reference} \ {0}
           /\ Erases(j) => j.doomed \subseteq (Shots \cup Tests \cup Results) \ {0}
      BY <1>4, <2>1, <2>2 DEF Comes, Arrives, Removes, Replaces, Erases, StyleJobOK, StyleSteps
    <2> QED  BY <1>3, <1>4, <2>1, <2>2, <2>10 DEF UpdateStyle
  <1>5. CASE AddImage(p) \/ StartTest(p)
    <2>1. PICK j : /\ j \in {StyleTask("addImage", "upload"), StyleTask("test", "insert")}
                   /\ job' = [job EXCEPT ![p] = j]
      BY <1>5 DEF AddImage, StartTest, Dispatch
    <2>2. j \in StyleJob /\ <<j.op, j.at>> \in {<<"addImage", "upload">>, <<"test", "insert">>}
      BY <2>1 DEF StyleTask, NoTask, StyleJob
    <2>3. /\ StyleJobOK(j) /\ ~Comes(j) /\ ~Arrives(j)
          /\ ~Removes(j) /\ ~Replaces(j) /\ ~Erases(j)
      BY <2>2 DEF Comes, Arrives, Removes, Replaces, Erases, StyleJobOK, StyleSteps
    <2> QED  BY <1>3, <1>5, <2>1, <2>2, <2>3 DEF AddImage, StartTest
  <1>6. ASSUME NEW force \in BOOLEAN, HardDeleteStyle(p, force)
        PROVE  StyleInv'
    <2>1. PICK doomed : doomed = ({i.key : i \in images} \cup {g.result : g \in generations}) \ {0}
      OBVIOUS
    <2>2. doomed \subseteq (Shots \cup Tests \cup Results) \ {0} /\ doomed \subseteq FileKey
      <3>1. \A g \in generations : g.result \in Tests \cup Results /\ g.result \in FileKey \cup {0}
        BY <1>1 DEF StyleTypeOK, GenerationRow, Tests, Results
      <3>2. Shots \subseteq FileKey
        BY <1>1 DEF StyleTypeOK, Image, Shots
      <3> QED  BY <2>1, <3>1, <3>2 DEF Shots
    <2>3. PICK j : /\ j = [StyleTask("hardDelete", "files") EXCEPT
                              !.force = force, !.used = generations # {}, !.doomed = doomed]
                   /\ job' = [job EXCEPT ![p] = j]
      BY <1>6, <2>1 DEF HardDeleteStyle, Dispatch
    <2>4. j \in StyleJob /\ j.op = "hardDelete" /\ j.at = "files" /\ j.doomed = doomed
          /\ j.used = (generations # {}) /\ j.force = force
      BY <2>2, <2>3 DEF StyleTask, NoTask, StyleJob
    <2>5. j.used => j.force
      BY <1>6, <2>4 DEF HardDeleteStyle
    <2>10. /\ StyleJobOK(j) /\ ~Comes(j) /\ ~Arrives(j)
           /\ Removes(j) => j.key \in Shots
           /\ Replaces(j) => j.doomed \subseteq {reference} \ {0}
           /\ Erases(j) => j.doomed \subseteq (Shots \cup Tests \cup Results) \ {0}
      BY <1>6, <2>2, <2>3, <2>4, <2>5 DEF Comes, Arrives, Removes, Replaces, Erases, StyleJobOK, StyleSteps
    <2> QED  BY <1>3, <1>6, <2>2, <2>3, <2>4, <2>5, <2>10 DEF HardDeleteStyle
  <1>7. ASSUME NEW force \in BOOLEAN, NEW c \in Config, RemoveConfig(p, c, force)
        PROVE  StyleInv'
    <2>0. PICK used \in BOOLEAN : used = (c \in pipeline)
      <3>1. CASE c \in pipeline
        <4>1. TRUE = (c \in pipeline)
          BY <3>1
        <4> QED  BY <4>1
      <3>2. CASE c \notin pipeline
        <4>1. FALSE = (c \in pipeline)
          BY <3>2
        <4> QED  BY <4>1
      <3> QED  BY <3>1, <3>2
    <2>1. PICK j : /\ j = [StyleTask("removeConfig", "delete") EXCEPT
                              !.config = {c}, !.force = force, !.used = used]
                   /\ job' = [job EXCEPT ![p] = j]
      BY <1>7, <2>0 DEF RemoveConfig, Dispatch
    <2>2. j \in StyleJob /\ j.op = "removeConfig" /\ j.at = "delete"
          /\ j.used = used /\ j.force = force
      BY <2>1 DEF StyleTask, NoTask, StyleJob
    <2>3. j.used => j.force
      BY <1>7, <2>0, <2>2 DEF RemoveConfig, FindUsages
    <2>10. /\ StyleJobOK(j) /\ ~Comes(j) /\ ~Arrives(j)
           /\ Removes(j) => j.key \in Shots
           /\ Replaces(j) => j.doomed \subseteq {reference} \ {0}
           /\ Erases(j) => j.doomed \subseteq (Shots \cup Tests \cup Results) \ {0}
      BY <1>7, <2>1, <2>2, <2>3 DEF Comes, Arrives, Removes, Replaces, Erases, StyleJobOK, StyleSteps
    <2> QED  BY <1>3, <1>7, <2>1, <2>2, <2>3, <2>10 DEF RemoveConfig
  <1>8. ASSUME NEW i \in images, RemoveImage(p, i) \/ \E isPrimary \in BOOLEAN : UpdateImage(p, i, isPrimary)
        PROVE  StyleInv'
    <2>1. i.key \in FileKey /\ i.key \in Shots
      BY <1>1 DEF StyleTypeOK, Image, Shots
    <2>2. CASE RemoveImage(p, i)
      <3>1. PICK j : /\ j = [StyleTask("removeImage", "file") EXCEPT !.key = i.key]
                     /\ job' = [job EXCEPT ![p] = j]
        BY <2>2 DEF RemoveImage, Dispatch
      <3>2. j \in StyleJob /\ j.op = "removeImage" /\ j.at = "file" /\ j.key = i.key
        BY <2>1, <3>1 DEF StyleTask, NoTask, StyleJob
      <3>10. /\ StyleJobOK(j) /\ ~Comes(j) /\ ~Arrives(j)
             /\ Removes(j) => j.key \in Shots
             /\ Replaces(j) => j.doomed \subseteq {reference} \ {0}
             /\ Erases(j) => j.doomed \subseteq (Shots \cup Tests \cup Results) \ {0}
        BY <2>1, <2>2, <3>1, <3>2 DEF Comes, Arrives, Removes, Replaces, Erases, StyleJobOK, StyleSteps
      <3> QED  BY <1>3, <2>1, <2>2, <3>1, <3>2, <3>10 DEF RemoveImage
    <2>3. ASSUME NEW isPrimary \in BOOLEAN, UpdateImage(p, i, isPrimary)
          PROVE  StyleInv'
      <3>1. PICK j : /\ j = [StyleTask("updateImage", IF isPrimary THEN "unset" ELSE "write")
                                EXCEPT !.key = i.key, !.isPrimary = isPrimary]
                     /\ job' = [job EXCEPT ![p] = j]
        BY <2>3 DEF UpdateImage, Dispatch
      <3>2. j \in StyleJob /\ j.op = "updateImage" /\ j.at \in {"unset", "write"}
        BY <2>1, <3>1 DEF StyleTask, NoTask, StyleJob
      <3>10. /\ StyleJobOK(j) /\ ~Comes(j) /\ ~Arrives(j)
             /\ Removes(j) => j.key \in Shots
             /\ Replaces(j) => j.doomed \subseteq {reference} \ {0}
             /\ Erases(j) => j.doomed \subseteq (Shots \cup Tests \cup Results) \ {0}
        BY <2>3, <3>1, <3>2 DEF Comes, Arrives, Removes, Replaces, Erases, StyleJobOK, StyleSteps
      <3> QED  BY <1>3, <2>3, <3>1, <3>2, <3>10 DEF UpdateImage
    <2> QED  BY <1>8, <2>2, <2>3
  <1>9. ASSUME NEW op \in {"uploadReference", "removeReference"}, FindReferenceStorageKey(p, op)
        PROVE  StyleInv'
    <2>1. PICK doomed : doomed = {reference} \ {0}
      OBVIOUS
    <2>2. PICK j : /\ j = [StyleTask(op, "old") EXCEPT !.doomed = doomed]
                   /\ job' = [job EXCEPT ![p] = j]
      BY <1>9, <2>1 DEF FindReferenceStorageKey, Dispatch
    <2>3. doomed \subseteq FileKey
      BY <1>1, <2>1 DEF StyleTypeOK
    <2>4. j \in StyleJob /\ j.op = op /\ j.at = "old" /\ j.doomed = doomed
      BY <2>2, <2>3 DEF StyleTask, NoTask, StyleJob
    <2>10. /\ StyleJobOK(j) /\ ~Comes(j) /\ ~Arrives(j)
           /\ Removes(j) => j.key \in Shots
           /\ Replaces(j) => j.doomed \subseteq {reference} \ {0}
           /\ Erases(j) => j.doomed \subseteq (Shots \cup Tests \cup Results) \ {0}
      BY <1>9, <2>1, <2>2, <2>4 DEF Comes, Arrives, Removes, Replaces, Erases, StyleJobOK, StyleSteps
    <2> QED  BY <1>3, <1>9, <2>1, <2>2, <2>4, <2>10 DEF FindReferenceStorageKey
  <1> QED  BY <1>4, <1>5, <1>6, <1>7, <1>8, <1>9

\* A file is stored, of which a handler or the row of a generation has the key.
LEMMA StyleStores ==
    ASSUME StyleInv, NEW p \in Proc, NEW j \in StyleJob \cup {Idle},
           job' = [job EXCEPT ![p] = j], j # Idle => StyleJobOK(j),
           made < MaxFiles, made' = made + 1, styleFiles' = styleFiles \cup {made'},
           UNCHANGED <<style, pipeline, configs, images, reference, unharmed>>,
           generations' \subseteq GenerationRow, ~Exists => generations' = {},
           Comes(j) \/ Arrives(j) => j = job[p] \/ j.key = made',
           Removes(j) \/ Erases(j) => j = job[p],
           Replaces(j) => Replaces(job[p]) /\ j.doomed = job[p].doomed,
           \A k \in Tests' : k \in Tests \/ (Comes(j) /\ j.key = made' /\ k = made'),
           \A k \in Results' : k \in Results \/ (j = job[p] /\ k = made'),
           \A k : /\ EraseOf(job[p], k) => EraseOf(j, k)
                  /\ RemoveOf(job[p], k) => RemoveOf(j, k)
                  /\ ReplaceOf(job[p], k) => ReplaceOf(j, k)
    PROVE  StyleInv'
  <1>1. job'[p] = j /\ \A q \in Proc \ {p} : job'[q] = job[q]
    BY DEF StyleInv, StyleTypeOK
  <1>2. made \in Nat /\ made' \in 1..MaxFiles /\ made' \notin 0..made /\ 0..made \subseteq 0..made' /\ made' # 0
    BY StyleConstants DEF StyleInv, StyleTypeOK
  <1>3. Shots' = Shots
    BY DEF Shots
  <1>4. StyleTypeOK'
    <2>1. job' \in [Proc -> StyleJob \cup {Idle}]
      BY DEF StyleInv, StyleTypeOK
    <2>2. \A q \in Proc : job'[q] # Idle => StyleJobOK(job'[q])
      BY <1>1 DEF StyleInv, StyleTypeOK
    <2>3. made' \in 0..MaxFiles /\ styleFiles' \subseteq 1..made'
      BY <1>2 DEF StyleInv, StyleTypeOK
    <2>4. \A q \in Proc : job'[q] # Idle => StyleJobOK(job[q])'
      BY <2>2 DEF StyleJobOK
    <2> QED  BY <2>1, <2>3, <2>4 DEF StyleInv, StyleTypeOK, Exists
  <1>5. /\ Pictures \cup References \cup Results \cup Dooms \subseteq 0..made
        /\ \A q \in Proc : /\ Comes(job[q]) \/ Removes(job[q]) => job[q].key \in 0..made
                           /\ Arrives(job[q]) => job[q].key \in 0..made
                           /\ Replaces(job[q]) => job[q].doomed \subseteq 0..made
        /\ Shots \subseteq 0..made /\ reference \in 0..made
    BY DEF StyleInv, KindsApart, Pictures, References
  <1>6. \A k \in Pictures' : k \in Pictures \/ (k = made' /\ Comes(j) /\ j.key = made')
    <2> SUFFICES ASSUME NEW k \in Pictures' PROVE k \in Pictures \/ (k = made' /\ Comes(j) /\ j.key = made')
      OBVIOUS
    <2>1. CASE k \in Shots' \/ k \in Tests'
      BY <1>3, <2>1 DEF Pictures
    <2>2. ASSUME NEW q \in Proc, Comes(job'[q]) \/ Removes(job'[q]), k = job'[q].key
          PROVE  k \in Pictures \/ (k = made' /\ Comes(j) /\ j.key = made')
      <3>1. CASE job'[q] = job[q]
        BY <2>2, <3>1 DEF Pictures
      <3>2. CASE job'[q] # job[q]
        BY <1>1, <2>2, <3>2
      <3> QED  BY <3>1, <3>2
    <2>3. k \in Shots' \/ k \in Tests'
          \/ \E q \in Proc : (Comes(job'[q]) \/ Removes(job'[q])) /\ k = job'[q].key
      BY DEF Pictures, Comes, Removes
    <2> QED  BY <2>1, <2>2, <2>3
  <1>7. \A k \in References' : k \in References \/ (k = made' /\ Arrives(j) /\ j.key = made')
    <2> SUFFICES ASSUME NEW k \in References' PROVE k \in References \/ (k = made' /\ Arrives(j) /\ j.key = made')
      OBVIOUS
    <2>1. CASE k = reference'
      BY <2>1 DEF References
    <2>2. ASSUME NEW q \in Proc, Arrives(job'[q]), k = job'[q].key
          PROVE  k \in References \/ (k = made' /\ Arrives(j) /\ j.key = made')
      <3>1. CASE job'[q] = job[q]
        BY <2>2, <3>1 DEF References
      <3>2. CASE job'[q] # job[q]
        BY <1>1, <2>2, <3>2
      <3> QED  BY <3>1, <3>2
    <2>3. ASSUME NEW q \in Proc, Replaces(job'[q]), k \in job'[q].doomed
          PROVE  k \in References
      BY <1>1, <2>3 DEF References
    <2>4. \/ k = reference'
          \/ \E q \in Proc : Arrives(job'[q]) /\ k = job'[q].key
          \/ \E q \in Proc : Replaces(job'[q]) /\ k \in job'[q].doomed
      BY DEF References, Arrives, Replaces
    <2> QED  BY <2>1, <2>2, <2>3, <2>4
  <1>8. Dooms' \subseteq Dooms
    <2> SUFFICES ASSUME NEW q \in Proc, Erases(job'[q]), NEW k \in job'[q].doomed PROVE k \in Dooms
      BY DEF Dooms, Erases
    <2> QED  BY <1>1 DEF Dooms
  <1>9. /\ ~(Comes(j) /\ Arrives(j))
        /\ Comes(j) \/ Arrives(j) => j.key # made' \/ j # job[p]
    <2>1. ~(Comes(j) /\ Arrives(j))
      BY DEF Comes, Arrives
    <2> QED  BY <1>2, <1>5, <2>1
  <1>10. KindsApart'
    <2>1. /\ Pictures \cap References \subseteq {0} /\ Pictures \cap Results \subseteq {0}
          /\ References \cap Results \subseteq {0} /\ (References \cup {0}) \cap Dooms = {}
      BY DEF StyleInv, KindsApart
    <2>2. (Pictures \cup References \cup Results \cup Dooms)' \subseteq 0..made'
      BY <1>2, <1>5, <1>6, <1>7, <1>8
    <2>3. Pictures' \cap References' \subseteq {0} /\ Pictures' \cap Results' \subseteq {0}
      BY <1>2, <1>5, <1>6, <1>7, <1>9, <2>1
    <2>4. References' \cap Results' \subseteq {0} /\ (References' \cup {0}) \cap Dooms' = {}
      BY <1>2, <1>5, <1>7, <1>8, <1>9, <2>1
    <2> QED  BY <2>2, <2>3, <2>4 DEF KindsApart
  <1>11. FilesToCome'
    <2>1. \A q \in Proc : Comes(job'[q]) \/ Arrives(job'[q]) =>
                job'[q] = job[q] \/ (q = p /\ job'[q].key = made')
      BY <1>1
    <2>2. \A q \in Proc : Comes(job'[q]) \/ Arrives(job'[q]) => job'[q].key # 0
      BY <1>2, <2>1 DEF StyleInv, FilesToCome
    <2>3. ASSUME NEW q \in Proc, Comes(job'[q])
          PROVE  /\ job'[q].key \notin Shots'
                 /\ \A r \in Proc : Removes(job'[r]) \/ (Comes(job'[r]) /\ r # q) =>
                        job'[r].key # job'[q].key
      <3>1. CASE job'[q] = job[q]
        <4>1. /\ job[q].key \notin Shots
              /\ \A r \in Proc : Removes(job[r]) \/ (Comes(job[r]) /\ r # q) => job[r].key # job[q].key
          BY <2>3, <3>1 DEF StyleInv, FilesToCome
        <4>2. job[q].key # made'
          BY <1>2, <1>5, <2>3, <3>1
        <4> QED  BY <1>1, <1>3, <2>1, <2>3, <3>1, <4>1, <4>2
      <3>2. CASE q = p /\ job'[q].key = made'
        <4>1. \A r \in Proc \ {p} : Removes(job'[r]) \/ Comes(job'[r]) => job'[r].key \in 0..made
          BY <1>1, <1>5
        <4>2. ~Removes(job'[p])
          BY <2>3, <3>2 DEF Comes, Removes
        <4> QED  BY <1>2, <1>3, <1>5, <3>2, <4>1, <4>2
      <3> QED  BY <2>1, <2>3, <3>1, <3>2
    <2>4. ASSUME NEW q \in Proc, Arrives(job'[q])
          PROVE  /\ job'[q].key # reference'
                 /\ \A r \in Proc : /\ Replaces(job'[r]) => job'[q].key \notin job'[r].doomed
                                    /\ Arrives(job'[r]) /\ r # q => job'[r].key # job'[q].key
      <3>1. CASE job'[q] = job[q]
        <4>1. /\ job[q].key # reference
              /\ \A r \in Proc : /\ Replaces(job[r]) => job[q].key \notin job[r].doomed
                                 /\ Arrives(job[r]) /\ r # q => job[r].key # job[q].key
          BY <2>4, <3>1 DEF StyleInv, FilesToCome
        <4>2. job[q].key # made'
          BY <1>2, <1>5, <2>4, <3>1
        <4> QED  BY <1>1, <2>1, <2>4, <3>1, <4>1, <4>2
      <3>2. CASE q = p /\ job'[q].key = made'
        <4>1. \A r \in Proc \ {p} : /\ Arrives(job'[r]) => job'[r].key \in 0..made
                                    /\ Replaces(job'[r]) => job'[r].doomed \subseteq 0..made
          BY <1>1, <1>5
        <4>2. Replaces(job'[p]) => job'[p].doomed \subseteq 0..made
          BY <1>1, <1>5
        <4> QED  BY <1>2, <1>5, <3>2, <4>1, <4>2
      <3> QED  BY <2>1, <2>4, <3>1, <3>2
    <2>5. \A i, i2 \in images' : i.key = i2.key => i = i2
      BY DEF StyleInv, FilesToCome
    <2> QED  BY <2>2, <2>3, <2>4, <2>5 DEF FilesToCome, Comes, Arrives, Removes, Replaces
  <1>12. FilesThere'
    <2>1. Exists' => Exists
      BY DEF Exists
    <2> QED  BY <1>3, <2>1, StyleKeeps
  <1> QED  BY <1>4, <1>10, <1>11, <1>12 DEF StyleInv

\* A step of no handler, as that of one that stays where it is.
LEMMA StyleStill ==
    ASSUME StyleTypeOK, UNCHANGED job
    PROVE  \E p \in Proc : /\ job' = [job EXCEPT ![p] = job[p]]
                           /\ job[p] \in StyleJob \cup {Idle}
                           /\ job[p] # Idle => StyleJobOK(job[p])
  <1>1. PICK p \in Proc : TRUE
    BY SomeProcesses
  <1>2. job = [job EXCEPT ![p] = job[p]]
    BY <1>1 DEF StyleTypeOK
  <1> QED  BY <1>1, <1>2 DEF StyleTypeOK

LEMMA StyleUploadsKeepInv ==
    ASSUME StyleInv, NEW p \in Proc, UploadImage(p) \/ UploadReferenceImage(p)
    PROVE  StyleInv'
  <1>1. PICK at : /\ \/ at = "insert" /\ At(p, "addImage", "upload")
                     \/ at = "write" /\ At(p, "uploadReference", "upload")
                  /\ Upload(p, at)
    BY DEF UploadImage, UploadReferenceImage
  <1>2. StyleTypeOK /\ job[p] # Idle /\ job[p] \in StyleJob /\ made \in 0..MaxFiles
    <2>1. job[p].op # "idle"
      BY <1>1 DEF At
    <2> QED  BY <2>1, StyleAtWork DEF StyleInv, StyleTypeOK
  <1>3. PICK j : j = [job[p] EXCEPT !.at = at, !.key = made + 1]
    OBVIOUS
  <1>4. made < MaxFiles /\ made' = made + 1 /\ styleFiles' = styleFiles \cup {made'}
        /\ job' = [job EXCEPT ![p] = j] /\ UNCHANGED <<StyleRows, unharmed>>
    BY <1>1, <1>3 DEF Upload, Become
  <1>5. /\ j \in StyleJob /\ j.op = job[p].op /\ j.at = at /\ j.key = made' /\ j.doomed = job[p].doomed
    <2>1. made + 1 \in FileKey
      BY <1>2, <1>4, StyleConstants DEF FileKey
    <2> QED  BY <1>1, <1>2, <1>3, <1>4, <2>1 DEF StyleJob
  <1>6. StyleJobOK(j) /\ ~Removes(j) /\ ~Erases(j)
        /\ (Replaces(j) => Replaces(job[p]) /\ j.doomed = job[p].doomed)
    BY <1>1, <1>5 DEF At, StyleJobOK, StyleSteps, Removes, Erases, Replaces
  <1>7. \A k : /\ EraseOf(job[p], k) => EraseOf(j, k)
               /\ RemoveOf(job[p], k) => RemoveOf(j, k)
               /\ ReplaceOf(job[p], k) => ReplaceOf(j, k)
    BY <1>1, <1>5 DEF At, EraseOf, RemoveOf, ReplaceOf, Removes, Erases, Replaces
  <1>8. Tests' = Tests /\ Results' = Results /\ generations' \subseteq GenerationRow
        /\ (~Exists => generations' = {})
    BY <1>2, <1>4 DEF Tests, Results, StyleRows, StyleTypeOK
  <1> QED  BY <1>4, <1>5, <1>6, <1>7, <1>8, StyleStores DEF StyleRows

LEMMA CompleteGenerationKeepsInv ==
    ASSUME StyleInv, NEW p \in Proc, NEW g \in generations, CompleteGeneration(p, g)
    PROVE  StyleInv'
  <1>1. /\ StyleTypeOK /\ made < MaxFiles /\ made' = made + 1 /\ made \in Nat
        /\ styleFiles' = styleFiles \cup {made'}
        /\ generations' = (generations \ {g}) \cup {[g EXCEPT !.result = made']}
        /\ UNCHANGED <<style, pipeline, configs, images, reference, unharmed>>
    BY DEF CompleteGeneration, StyleInv, StyleTypeOK
  <1>2. made' \in FileKey /\ g \in GenerationRow /\ Exists
    BY <1>1, StyleConstants DEF FileKey, StyleTypeOK
  <1>3. PICK g2 : /\ g2 = [g EXCEPT !.result = made']
                  /\ g2 \in GenerationRow /\ g2.result = made' /\ g2.isAdminTest = g.isAdminTest
    <2>1. PICK k \in FileKey : k = made'
      BY <1>2
    <2>2. PICK g2 : g2 = [g EXCEPT !.result = k]
      OBVIOUS
    <2>3. g2 \in GenerationRow /\ g2.result = k /\ g2.isAdminTest = g.isAdminTest
      BY <1>2, <2>2 DEF GenerationRow
    <2> QED  BY <2>1, <2>2, <2>3
  <1>4. generations' \subseteq GenerationRow /\ (~Exists => generations' = {})
    BY <1>1, <1>2, <1>3 DEF StyleTypeOK
  <1>5. \A k \in Tests' : k \in Tests \/ (g.isAdminTest /\ k = made')
    BY <1>1, <1>3 DEF Tests
  <1>6. \A k \in Results' : k \in Results \/ (~g.isAdminTest /\ k = made')
    BY <1>1, <1>3 DEF Results
  <1>7. CASE ~g.isAdminTest
    <2>1. UNCHANGED job
      BY <1>7 DEF CompleteGeneration, Once
    <2>2. PICK q \in Proc : /\ job' = [job EXCEPT ![q] = job[q]]
                            /\ job[q] \in StyleJob \cup {Idle}
                            /\ job[q] # Idle => StyleJobOK(job[q])
      BY <1>1, <2>1, StyleStill
    <2> QED  BY <1>1, <1>4, <1>5, <1>6, <1>7, <2>2, StyleStores
  <1>8. CASE g.isAdminTest
    <2>1. PICK j : j = [StyleTask("publish", "insert") EXCEPT !.key = made']
      OBVIOUS
    <2>2. job[p] = Idle /\ job' = [job EXCEPT ![p] = j]
      BY <1>8, <2>1 DEF CompleteGeneration, Dispatch
    <2>3. j \in StyleJob /\ j.op = "publish" /\ j.at = "insert" /\ j.key = made'
      BY <1>2, <2>1 DEF StyleTask, NoTask, StyleJob
    <2>4. StyleJobOK(j) /\ Comes(j) /\ ~Removes(j) /\ ~Erases(j) /\ ~Replaces(j)
      BY <2>3 DEF StyleJobOK, StyleSteps, Comes, Removes, Erases, Replaces
    <2> QED  BY <1>1, <1>4, <1>5, <1>6, <1>8, <2>2, <2>3, <2>4, IdleStyleJob, StyleStores
  <1> QED  BY <1>7, <1>8

LEMMA StyleLinksKeepInv ==
    ASSUME StyleInv,
           \/ DeactivateStyle \/ \E c \in Config : CreateConfig(c)
           \/ \E p \in Proc : WriteUpdate(p) \/ DeleteConfig(p) \/ StyleFails(p)
    PROVE  StyleInv'
  <1>1. StyleTypeOK
    BY DEF StyleInv
  <1>2. ASSUME DeactivateStyle \/ \E c \in Config : CreateConfig(c)
        PROVE  StyleInv'
    <2>1. /\ UNCHANGED <<job, images, reference, generations, styleFiles, made, unharmed>>
          /\ style' \in {"active", "inactive", "gone"} /\ (Exists' <=> Exists)
          /\ pipeline' \subseteq Config /\ configs' \subseteq Config
      BY <1>1, <1>2 DEF DeactivateStyle, CreateConfig, Once, StyleStorage, StyleTypeOK, Exists
    <2>2. PICK q \in Proc : /\ job' = [job EXCEPT ![q] = job[q]]
                            /\ job[q] \in StyleJob \cup {Idle}
                            /\ job[q] # Idle => StyleJobOK(job[q])
      BY <1>1, <2>1, StyleStill
    <2>3. unharmed' \in BOOLEAN
      BY <1>1, <2>1 DEF StyleTypeOK
    <2> QED  BY <2>1, <2>2, <2>3, StyleQuiet
  <1>3. ASSUME NEW p \in Proc, WriteUpdate(p) \/ DeleteConfig(p) \/ StyleFails(p)
        PROVE  StyleInv'
    <2>1. /\ UNCHANGED <<images, reference, generations, styleFiles, made>>
          /\ job' = [job EXCEPT ![p] = Idle]
      BY <1>3 DEF WriteUpdate, DeleteConfig, StyleFails, Become, StyleRows, StyleStorage
    <2>2. /\ style' \in {"active", "inactive", "gone"} /\ (Exists' <=> Exists)
          /\ configs' \subseteq Config /\ unharmed' \in BOOLEAN /\ (unharmed' => unharmed)
      <3>1. CASE WriteUpdate(p)
        BY <1>1, <3>1 DEF WriteUpdate, StyleStorage, StyleTypeOK, Exists
      <3>2. CASE DeleteConfig(p)
        BY <1>1, <3>2 DEF DeleteConfig, StyleStorage, StyleTypeOK, Exists
      <3>3. CASE StyleFails(p)
        BY <1>1, <3>3 DEF StyleFails, StyleRows, StyleTypeOK, Exists
      <3> QED  BY <1>3, <3>1, <3>2, <3>3
    <2>3. pipeline' \subseteq Config
      BY <1>1, <1>3 DEF WriteUpdate, DeleteConfig, StyleFails, StyleRows, StyleTypeOK
    <2>4. unharmed' => \A k : ~EraseOf(job[p], k) /\ ~RemoveOf(job[p], k) /\ ~ReplaceOf(job[p], k)
      BY <1>3 DEF WriteUpdate, DeleteConfig, StyleFails, At, EraseOf, RemoveOf, ReplaceOf,
                  Erases, Removes, Replaces
    <2> QED  BY <2>1, <2>2, <2>3, <2>4, IdleStyleJob, StyleQuiet
  <1> QED  BY <1>2, <1>3

\* The generations of a style come with no result.
LEMMA StyleInsertsKeepInv ==
    ASSUME StyleInv, CreateGeneration \/ \E p \in Proc : InsertTest(p)
    PROVE  StyleInv'
  <1>1. StyleTypeOK
    BY DEF StyleInv
  <1>2. PICK isAdminTest \in BOOLEAN : InsertGeneration(isAdminTest)
    BY DEF CreateGeneration, InsertTest
  <1>3. PICK id \in 1..MaxGenerations : generations' = generations \cup
                {[id |-> id, isAdminTest |-> isAdminTest, result |-> 0]}
    BY <1>2 DEF InsertGeneration
  <1>4. Exists /\ UNCHANGED <<style, pipeline, configs, images, reference, styleFiles, made, unharmed>>
    BY <1>2 DEF InsertGeneration, StyleStorage
  <1>5. Tests' \subseteq Tests \cup {0} /\ Results' \subseteq Results \cup {0} /\ Shots' = Shots
    BY <1>3, <1>4 DEF Tests, Results, Shots
  <1>6. generations' \subseteq GenerationRow
    BY <1>1, <1>3 DEF StyleTypeOK, GenerationRow
  <1>7. PICK q \in Proc, j \in StyleJob \cup {Idle} :
            /\ job' = [job EXCEPT ![q] = j] /\ (j # Idle => StyleJobOK(j))
            /\ j = job[q] \/ (j = Idle /\ At(q, "test", "insert"))
    <2>1. CASE CreateGeneration
      BY <1>1, <2>1, StyleStill DEF CreateGeneration, Once
    <2>2. CASE \E p \in Proc : InsertTest(p)
      BY <2>2 DEF InsertTest, Become
    <2> QED  BY <2>1, <2>2
  <1>8. Comes(j) \/ Arrives(j) \/ Removes(j) \/ Replaces(j) \/ Erases(j) => j = job[q]
    BY <1>7, IdleStyleJob
  <1>9. \A k : /\ EraseOf(job[q], k) => EraseOf(j, k)
               /\ RemoveOf(job[q], k) => RemoveOf(j, k)
               /\ ReplaceOf(job[q], k) => ReplaceOf(j, k)
    BY <1>7 DEF At, EraseOf, RemoveOf, ReplaceOf, Erases, Removes, Replaces
  <1>10. StyleTypeOK' /\ KindsApart' /\ FilesToCome'
    <2>1. /\ images' \subseteq Image /\ reference' \in FileKey \cup {0}
          /\ style' \in {"active", "inactive", "gone"}
          /\ pipeline' \subseteq Config /\ configs' \subseteq Config
          /\ unharmed' \in BOOLEAN /\ Exists'
          /\ \A i, i2 \in images' : i.key = i2.key => i = i2
      BY <1>1, <1>4 DEF StyleTypeOK, StyleInv, FilesToCome, Exists
    <2> QED  BY <1>4, <1>5, <1>6, <1>7, <1>8, <2>1, StyleMove
  <1>11. FilesThere'
    BY <1>4, <1>5, <1>7, <1>8, <1>9, StyleKeeps DEF Exists
  <1> QED  BY <1>10, <1>11 DEF StyleInv

\* A handler deletes files, and accounts for them while it goes on.
LEMMA StyleDeletionsKeepInv ==
    ASSUME StyleInv, NEW p \in Proc, DeleteFiles(p) \/ RemoveFile(p) \/ DropReference(p)
    PROVE  StyleInv'
  <1>1. StyleTypeOK /\ job[p] # Idle /\ job[p] \in StyleJob /\ StyleJobOK(job[p])
    <2>1. job[p].op # "idle"
      BY DEF DeleteFiles, RemoveFile, DropReference, At
    <2> QED  BY <2>1, StyleAtWork DEF StyleInv
  <1>2. PICK at : \/ DeleteFiles(p) /\ at = "rows"
                  \/ RemoveFile(p) /\ at = "row"
                  \/ DropReference(p) /\ at = IF job[p].op = "uploadReference" THEN "upload" ELSE "write"
    OBVIOUS
  <1>3. PICK j : j = [job[p] EXCEPT !.at = at]
    OBVIOUS
  <1>4. /\ UNCHANGED <<StyleRows, made, unharmed>> /\ job' = [job EXCEPT ![p] = j]
        /\ styleFiles' \subseteq styleFiles
    <2>1. CASE DeleteFiles(p) /\ at = "rows"
      BY <1>3, <2>1 DEF DeleteFiles, Become
    <2>2. CASE RemoveFile(p) /\ at = "row"
      BY <1>3, <2>2 DEF RemoveFile, Become
    <2>3. CASE DropReference(p) /\ at = IF job[p].op = "uploadReference" THEN "upload" ELSE "write"
      BY <1>3, <2>3 DEF DropReference, Become
    <2> QED  BY <1>2, <2>1, <2>2, <2>3
  <1>5. \/ job[p].op = "hardDelete" /\ job[p].at = "files" /\ at = "rows"
        \/ job[p].op = "removeImage" /\ job[p].at = "file" /\ at = "row"
        \/ job[p].op = "uploadReference" /\ job[p].at = "old" /\ at = "upload"
        \/ job[p].op = "removeReference" /\ job[p].at = "old" /\ at = "write"
    BY <1>2 DEF DeleteFiles, RemoveFile, DropReference, At
  <1>6. j \in StyleJob /\ j.op = job[p].op /\ j.at = at /\ j.key = job[p].key /\ j.doomed = job[p].doomed
        /\ j.used = job[p].used /\ j.force = job[p].force
    BY <1>1, <1>3, <1>5 DEF StyleJob
  <1>7. StyleJobOK(j) /\ ~Comes(j) /\ ~Arrives(j)
        /\ (Removes(j) <=> Removes(job[p])) /\ (Replaces(j) <=> Replaces(job[p]))
        /\ (Erases(j) <=> Erases(job[p]))
    BY <1>1, <1>5, <1>6 DEF StyleJobOK, StyleSteps, Comes, Arrives, Removes, Replaces, Erases
  <1>8. ~Comes(job[p]) /\ ~Arrives(job[p])
    BY <1>5 DEF Comes, Arrives
  <1>9. Shots' = Shots /\ Tests' = Tests /\ Results' = Results
    BY <1>4 DEF Shots, Tests, Results, StyleRows
  <1>10. StyleTypeOK' /\ KindsApart' /\ FilesToCome'
    <2>1. /\ images' \subseteq Image /\ reference' \in FileKey \cup {0}
          /\ generations' \subseteq GenerationRow
          /\ style' \in {"active", "inactive", "gone"}
          /\ pipeline' \subseteq Config /\ configs' \subseteq Config
          /\ unharmed' \in BOOLEAN
          /\ ~Exists' => images' = {} /\ generations' = {} /\ reference' = 0
      BY <1>1, <1>4 DEF StyleTypeOK, StyleRows, Exists
    <2>2. \A i, i2 \in images' : i.key = i2.key => i = i2
      BY <1>4 DEF StyleRows, StyleInv, FilesToCome
    <2> QED  BY <1>4, <1>6, <1>7, <1>9, <2>1, <2>2, StyleMove DEF StyleRows
  <1>11. \A k \in styleFiles \ styleFiles' : EraseOf(j, k) \/ RemoveOf(j, k) \/ ReplaceOf(j, k)
    <2>1. CASE DeleteFiles(p)
      <3>1. \A k \in styleFiles \ styleFiles' : k \in job[p].doomed
        BY <2>1 DEF DeleteFiles
      <3> QED  BY <1>5, <1>6, <2>1, <3>1 DEF DeleteFiles, At, EraseOf, Erases
    <2>2. CASE RemoveFile(p)
      BY <1>5, <1>6, <2>2 DEF RemoveFile, At, RemoveOf, Removes
    <2>3. CASE DropReference(p)
      BY <1>5, <1>6, <2>3 DEF DropReference, At, ReplaceOf, Replaces
    <2> QED  BY <2>1, <2>2, <2>3
  <1>12. /\ \A q \in Proc \ {p} : job'[q] = job[q]
         /\ job'[p] = j
    BY <1>1, <1>4 DEF StyleTypeOK
  <1>13. \A k : /\ ~EraseOf(job[p], k) /\ ~RemoveOf(job[p], k) /\ ~ReplaceOf(job[p], k)
    BY <1>5 DEF EraseOf, RemoveOf, ReplaceOf, Erases, Removes, Replaces
  <1>14. \A k : /\ Erasing(k)' <=> Erasing(k) \/ EraseOf(j, k)
                /\ Removing(k)' <=> Removing(k) \/ RemoveOf(j, k)
                /\ Replacing(k)' <=> Replacing(k) \/ ReplaceOf(j, k)
    <2>1. \A k : /\ Erasing(k)' <=> \E q \in Proc : EraseOf(job'[q], k)
                 /\ Removing(k)' <=> \E q \in Proc : RemoveOf(job'[q], k)
                 /\ Replacing(k)' <=> \E q \in Proc : ReplaceOf(job'[q], k)
      BY DEF Erasing, Removing, Replacing, EraseOf, RemoveOf, ReplaceOf, Erases, Removes, Replaces
    <2> QED  BY <1>12, <1>13, <2>1 DEF Erasing, Removing, Replacing
  <1>15. /\ \A k : EraseOf(j, k) => k \in Dooms
         /\ \A k : RemoveOf(j, k) => k \in Pictures
         /\ \A k : ReplaceOf(j, k) => k \in References
    BY <1>6, <1>7 DEF EraseOf, RemoveOf, ReplaceOf, Dooms, Pictures, References
  <1>16. /\ Pictures \cap References \subseteq {0} /\ Pictures \cap Results \subseteq {0}
         /\ References \cap Results \subseteq {0} /\ References \cap Dooms = {}
    BY DEF StyleInv, KindsApart
  <1>17. 0 \notin styleFiles
    <2>1. styleFiles \subseteq 1..made /\ made \in Nat
      BY <1>1 DEF StyleTypeOK
    <2> QED  BY <2>1
  <1>18. FilesThere'
    <2> SUFFICES ASSUME unharmed', Exists'
                 PROVE  /\ \A k \in Shots' : k \in styleFiles' \/ Removing(k)' \/ Erasing(k)'
                        /\ \A q \in Proc : Comes(job'[q]) =>
                                job'[q].key \in styleFiles' \/ Erasing(job[q].key)'
                        /\ \A q \in Proc : Arrives(job'[q]) => job'[q].key \in styleFiles'
                        /\ reference' # 0 => reference' \in styleFiles' \/ Replacing(reference)'
                        /\ \A k \in Results' \ {0} : k \in styleFiles' \/ Erasing(k)'
      BY DEF FilesThere, Comes, Arrives
    <2>1. /\ \A k \in Shots : k \in styleFiles \/ Removing(k) \/ Erasing(k)
          /\ \A q \in Proc : Comes(job[q]) => job[q].key \in styleFiles \/ Erasing(job[q].key)
          /\ \A q \in Proc : Arrives(job[q]) => job[q].key \in styleFiles
          /\ reference # 0 => reference \in styleFiles \/ Replacing(reference)
          /\ \A k \in Results \ {0} : k \in styleFiles \/ Erasing(k)
      BY <1>4 DEF StyleInv, FilesThere, StyleRows, Exists
    <2>2. \A k \in Shots' : k \in styleFiles' \/ Removing(k)' \/ Erasing(k)'
      <3>1. Shots \subseteq Pictures
        BY DEF Pictures
      <3> QED  BY <1>9, <1>11, <1>14, <1>15, <1>16, <1>17, <2>1, <3>1
    <2>3. ASSUME NEW q \in Proc, Comes(job'[q])
          PROVE  job'[q].key \in styleFiles' \/ Erasing(job[q].key)'
      <3>1. q # p /\ job'[q] = job[q]
        BY <1>7, <1>12, <2>3
      <3>2. PICK k : k = job[q].key
        OBVIOUS
      <3>3. k \in Pictures /\ (k \in styleFiles \/ Erasing(k)) /\ ~RemoveOf(j, k)
        <4>1. k \in Pictures
          BY <2>3, <3>1, <3>2 DEF Pictures
        <4>2. ~RemoveOf(j, k)
          BY <1>6, <1>7, <2>3, <3>1, <3>2 DEF RemoveOf, StyleInv, FilesToCome
        <4>3. k \in styleFiles \/ Erasing(k)
          BY <2>1, <2>3, <3>1, <3>2 DEF Erasing
        <4> QED  BY <4>1, <4>2, <4>3
      <3>4. k \in styleFiles' \/ Erasing(k)'
        BY <1>11, <1>14, <1>15, <1>16, <1>17, <3>3
      <3> QED  BY <3>1, <3>2, <3>4 DEF Erasing
    <2>4. ASSUME NEW q \in Proc, Arrives(job'[q])
          PROVE  job'[q].key \in styleFiles'
      <3>1. q # p /\ job'[q] = job[q]
        BY <1>7, <1>12, <2>4
      <3>2. job[q].key \in References /\ job[q].key \in styleFiles
        BY <2>1, <2>4, <3>1 DEF References
      <3>3. ~ReplaceOf(j, job[q].key)
        BY <1>6, <1>7, <2>4, <3>1 DEF ReplaceOf, StyleInv, FilesToCome
      <3> QED  BY <1>11, <1>15, <1>16, <1>17, <3>1, <3>2, <3>3
    <2>5. reference' # 0 => reference' \in styleFiles' \/ Replacing(reference)'
      <3>1. PICK k : k = reference
        OBVIOUS
      <3>2. k \in References
        BY <3>1 DEF References
      <3>3. k # 0 => k \in styleFiles' \/ Replacing(k)'
        <4>1. k # 0 => k \in styleFiles \/ Replacing(k)
          BY <2>1, <3>1 DEF Replacing
        <4> QED  BY <1>11, <1>14, <1>15, <1>16, <1>17, <3>2, <4>1
      <3>4. reference' = k
        BY <1>4, <3>1 DEF StyleRows
      <3> QED  BY <3>3, <3>4 DEF Replacing
    <2>6. \A k \in Results' \ {0} : k \in styleFiles' \/ Erasing(k)'
      BY <1>9, <1>11, <1>14, <1>15, <1>16, <2>1
    <2> QED  BY <2>2, <2>3, <2>4, <2>5, <2>6
  <1> QED  BY <1>10, <1>18 DEF StyleInv

\* The images that are there: one more, one less, or the same with other flags.
LEMMA StyleImagesKeepInv ==
    ASSUME StyleInv, NEW p \in Proc,
           InsertImage(p) \/ UnsetPrimaryImage(p) \/ WriteImage(p) \/ RemoveRow(p)
    PROVE  StyleInv'
  <1>1. StyleTypeOK /\ job[p] # Idle /\ job[p] \in StyleJob /\ StyleJobOK(job[p])
    <2>1. job[p].op # "idle"
      BY DEF InsertImage, UnsetPrimaryImage, WriteImage, RemoveRow, At
    <2> QED  BY <2>1, StyleAtWork DEF StyleInv
  <1>2. PICK j \in StyleJob \cup {Idle} :
            /\ job' = [job EXCEPT ![p] = j]
            /\ j = Idle \/ (job[p].op = "updateImage" /\ j.op = "updateImage" /\ j.at = "write")
    <2>1. CASE UnsetPrimaryImage(p)
      <3>1. PICK j : j = [job[p] EXCEPT !.at = "write"]
        OBVIOUS
      <3>2. j \in StyleJob /\ j.op = "updateImage" /\ j.at = "write" /\ job[p].op = "updateImage"
        BY <1>1, <2>1, <3>1 DEF UnsetPrimaryImage, At, StyleJob
      <3> QED  BY <2>1, <3>1, <3>2 DEF UnsetPrimaryImage, Become
    <2>2. CASE InsertImage(p) \/ WriteImage(p) \/ RemoveRow(p)
      BY <2>2 DEF InsertImage, WriteImage, RemoveRow, Become
    <2> QED  BY <2>1, <2>2
  <1>3. /\ UNCHANGED <<style, pipeline, configs, reference, generations, styleFiles, made, unharmed>>
        /\ Tests' = Tests /\ Results' = Results
    BY DEF InsertImage, UnsetPrimaryImage, WriteImage, RemoveRow, StyleStorage, Tests, Results
  <1>4. /\ j # Idle => StyleJobOK(j)
        /\ ~Comes(j) /\ ~Arrives(j) /\ ~Removes(j) /\ ~Replaces(j) /\ ~Erases(j)
    BY <1>2, IdleStyleJob DEF StyleJobOK, StyleSteps, Comes, Arrives, Removes, Replaces, Erases
  <1>5. Exists \/ (images # {} /\ ~InsertImage(p)) \/ images' = images
    BY DEF InsertImage, UnsetPrimaryImage, WriteImage, RemoveRow
  <1>6. /\ \A i, i2 \in images : i.key = i2.key => i = i2
        /\ Comes(job[p]) => job[p].key \notin Shots /\ job[p].key # 0
    BY DEF StyleInv, FilesToCome
  <1>7. /\ images' \subseteq Image
        /\ \A i, i2 \in images' : i.key = i2.key => i = i2
        /\ \A k \in Shots' : k \in Shots \/ (Comes(job[p]) /\ k = job[p].key)
        /\ images = {} /\ ~Exists => images' = {}
    <2>1. CASE InsertImage(p)
      <3>1. PICK i : i = [key |-> job[p].key, isPrimary |-> FALSE]
        OBVIOUS
      <3>2. images' = images \cup {i} /\ Comes(job[p]) /\ Exists /\ i.key = job[p].key
        BY <2>1, <3>1 DEF InsertImage, Comes, At
      <3>3. i \in Image
        BY <1>1, <1>6, <3>1, <3>2 DEF StyleJob, Image
      <3>4. \A i2 \in images : i2.key # i.key
        BY <1>6, <3>2 DEF Shots
      <3> QED  BY <1>1, <1>6, <3>2, <3>3, <3>4 DEF StyleTypeOK, Shots
    <2>2. CASE UnsetPrimaryImage(p)
      <3>1. images' = {[i EXCEPT !.isPrimary = FALSE] : i \in images}
        BY <2>2 DEF UnsetPrimaryImage
      <3>2. \A i \in images : /\ [i EXCEPT !.isPrimary = FALSE] \in Image
                              /\ [i EXCEPT !.isPrimary = FALSE].key = i.key
        BY <1>1 DEF StyleTypeOK, Image
      <3>3. \A a \in images' : \E i \in images : a = [i EXCEPT !.isPrimary = FALSE] /\ a.key = i.key
        BY <3>1, <3>2
      <3>4. images' \subseteq Image /\ (images = {} => images' = {})
        BY <3>1, <3>2
      <3>5. ASSUME NEW a \in images', NEW b \in images', a.key = b.key
            PROVE  a = b
        <4>1. PICK i \in images : a = [i EXCEPT !.isPrimary = FALSE] /\ a.key = i.key
          BY <3>3
        <4>2. PICK i2 \in images : b = [i2 EXCEPT !.isPrimary = FALSE] /\ b.key = i2.key
          BY <3>3
        <4>3. i = i2
          BY <1>6, <3>5, <4>1, <4>2
        <4> QED  BY <4>1, <4>2, <4>3
      <3>6. \A k \in Shots' : k \in Shots
        BY <3>3 DEF Shots
      <3> QED  BY <3>4, <3>5, <3>6
    <2>3. CASE WriteImage(p)
      <3>1. PICK i \in images : images' = (images \ {i}) \cup {[i EXCEPT !.isPrimary = job[p].isPrimary]}
        BY <2>3 DEF WriteImage
      <3>2. PICK i2 : i2 = [i EXCEPT !.isPrimary = job[p].isPrimary]
        OBVIOUS
      <3>3. i2 \in Image /\ i2.key = i.key
        BY <1>1, <3>2 DEF StyleTypeOK, Image, StyleJob
      <3>4. images' \subseteq Image /\ images # {}
        BY <1>1, <3>1, <3>2, <3>3 DEF StyleTypeOK
      <3>5. \A a \in images' : a = i2 \/ (a \in images /\ a.key # i2.key)
        BY <1>6, <3>1, <3>2, <3>3
      <3>6. \A a, b \in images' : a.key = b.key => a = b
        BY <1>6, <3>5
      <3>7. \A k \in Shots' : k \in Shots
        BY <3>1, <3>3, <3>5 DEF Shots
      <3> QED  BY <3>4, <3>6, <3>7
    <2>4. CASE RemoveRow(p)
      BY <1>1, <1>6, <2>4 DEF RemoveRow, StyleTypeOK, Shots
    <2> QED  BY <2>1, <2>2, <2>3, <2>4
  <1>8. StyleTypeOK' /\ KindsApart' /\ FilesToCome'
    <2>1. /\ reference' \in FileKey \cup {0} /\ generations' \subseteq GenerationRow
          /\ style' \in {"active", "inactive", "gone"}
          /\ pipeline' \subseteq Config /\ configs' \subseteq Config /\ unharmed' \in BOOLEAN
          /\ ~Exists' => images' = {} /\ generations' = {} /\ reference' = 0
      BY <1>1, <1>3, <1>7 DEF StyleTypeOK, Exists
    <2> QED  BY <1>2, <1>3, <1>4, <1>7, <2>1, StyleMove
  <1>9. FilesThere'
    <2>1. CASE ~RemoveRow(p)
      <3>1. \A k : ~EraseOf(job[p], k) /\ ~RemoveOf(job[p], k) /\ ~ReplaceOf(job[p], k)
        BY <2>1 DEF InsertImage, UnsetPrimaryImage, WriteImage, At, EraseOf, RemoveOf, ReplaceOf,
                    Erases, Removes, Replaces
      <3> QED  BY <1>2, <1>3, <1>4, <1>7, <3>1, StyleKeeps DEF Exists
    <2>2. CASE RemoveRow(p)
      <3>1. /\ job'[p] = Idle /\ \A q \in Proc \ {p} : job'[q] = job[q]
            /\ job[p].key \notin Shots' /\ Shots' \subseteq Shots
            /\ job[p].op = "removeImage"
        BY <1>1, <1>6, <2>2 DEF RemoveRow, Become, At, StyleTypeOK, Shots
      <3>2. \A k : ~EraseOf(job[p], k) /\ ~ReplaceOf(job[p], k)
        BY <3>1 DEF EraseOf, ReplaceOf, Erases, Replaces
      <3>3. \A k : /\ Erasing(k) => Erasing(k)'
                   /\ Replacing(k) => Replacing(k)'
                   /\ Removing(k) /\ k # job[p].key => Removing(k)'
        <4>1. \A k : /\ Erasing(k)' <=> \E q \in Proc : EraseOf(job'[q], k)
                     /\ Removing(k)' <=> \E q \in Proc : RemoveOf(job'[q], k)
                     /\ Replacing(k)' <=> \E q \in Proc : ReplaceOf(job'[q], k)
          BY DEF Erasing, Removing, Replacing, EraseOf, RemoveOf, ReplaceOf, Erases, Removes, Replaces
        <4>2. \A k : RemoveOf(job[p], k) => k = job[p].key
          BY DEF RemoveOf
        <4> QED  BY <3>1, <3>2, <4>1, <4>2 DEF Erasing, Removing, Replacing
      <3> SUFFICES ASSUME unharmed', Exists'
                   PROVE  /\ \A k \in Shots' : k \in styleFiles' \/ Removing(k)' \/ Erasing(k)'
                          /\ \A q \in Proc : Comes(job'[q]) =>
                                  job'[q].key \in styleFiles' \/ Erasing(job[q].key)'
                          /\ \A q \in Proc : Arrives(job'[q]) => job'[q].key \in styleFiles'
                          /\ reference' # 0 => reference' \in styleFiles' \/ Replacing(reference)'
                          /\ \A k \in Results' \ {0} : k \in styleFiles' \/ Erasing(k)'
        BY DEF FilesThere, Comes, Arrives
      <3>4. /\ \A k \in Shots : k \in styleFiles \/ Removing(k) \/ Erasing(k)
            /\ \A q \in Proc : Comes(job[q]) => job[q].key \in styleFiles \/ Erasing(job[q].key)
            /\ \A q \in Proc : Arrives(job[q]) => job[q].key \in styleFiles
            /\ reference # 0 => reference \in styleFiles \/ Replacing(reference)
            /\ \A k \in Results \ {0} : k \in styleFiles \/ Erasing(k)
        BY <1>3 DEF StyleInv, FilesThere, Exists
      <3>5. \A k \in Shots' : k \in styleFiles' \/ Removing(k)' \/ Erasing(k)'
        BY <1>3, <3>1, <3>3, <3>4
      <3>6. ASSUME NEW q \in Proc, Comes(job'[q])
            PROVE  job'[q].key \in styleFiles' \/ Erasing(job[q].key)'
        <4>1. job'[q] = job[q] /\ Comes(job[q])
          BY <3>1, <3>6, IdleStyleJob
        <4>2. PICK k : k = job[q].key
          OBVIOUS
        <4>3. k \in styleFiles \/ Erasing(k)
          BY <3>4, <4>1, <4>2 DEF Erasing
        <4>4. k \in styleFiles' \/ Erasing(k)'
          BY <1>3, <3>3, <4>3
        <4> QED  BY <4>1, <4>2, <4>4 DEF Erasing
      <3>7. \A q \in Proc : Arrives(job'[q]) => job'[q].key \in styleFiles'
        BY <1>3, <3>1, <3>4, IdleStyleJob
      <3>8. reference' # 0 => reference' \in styleFiles' \/ Replacing(reference)'
        <4>1. PICK k : k = reference
          OBVIOUS
        <4>2. k # 0 => k \in styleFiles \/ Replacing(k)
          BY <3>4, <4>1 DEF Replacing
        <4>3. k # 0 => k \in styleFiles' \/ Replacing(k)'
          BY <1>3, <3>3, <4>2
        <4> QED  BY <1>3, <4>1, <4>3 DEF Replacing
      <3>9. \A k \in Results' \ {0} : k \in styleFiles' \/ Erasing(k)'
        BY <1>3, <3>3, <3>4
      <3> QED  BY <3>5, <3>6, <3>7, <3>8, <3>9
    <2> QED  BY <2>1, <2>2
  <1> QED  BY <1>8, <1>9 DEF StyleInv

\* The reference that is there: none, or the file that the handler stored.
LEMMA StyleReferenceKeepsInv ==
    ASSUME StyleInv, NEW p \in Proc, RemoveReferenceImage(p) \/ WriteReference(p)
    PROVE  StyleInv'
  <1>1. StyleTypeOK /\ job[p] # Idle /\ job[p] \in StyleJob /\ StyleJobOK(job[p])
    <2>1. job[p].op # "idle"
      BY DEF RemoveReferenceImage, WriteReference, At
    <2> QED  BY <2>1, StyleAtWork DEF StyleInv
  <1>2. /\ Exists /\ job' = [job EXCEPT ![p] = Idle]
        /\ UNCHANGED <<style, pipeline, configs, images, generations, styleFiles, made, unharmed>>
        /\ Replaces(job[p]) /\ ~Comes(job[p]) /\ ~Removes(job[p]) /\ ~Erases(job[p])
        /\ reference' = 0 \/ (Arrives(job[p]) /\ reference' = job[p].key)
    BY DEF RemoveReferenceImage, WriteReference, Become, At, StyleStorage,
           Replaces, Comes, Removes, Erases, Arrives
  <1>3. Shots' = Shots /\ Tests' = Tests /\ Results' = Results
    BY <1>2 DEF Shots, Tests, Results
  <1>4. StyleTypeOK' /\ KindsApart' /\ FilesToCome'
    <2>1. /\ images' \subseteq Image /\ generations' \subseteq GenerationRow
          /\ style' \in {"active", "inactive", "gone"} /\ Exists'
          /\ pipeline' \subseteq Config /\ configs' \subseteq Config /\ unharmed' \in BOOLEAN
          /\ \A i, i2 \in images' : i.key = i2.key => i = i2
      BY <1>1, <1>2 DEF StyleTypeOK, Exists, StyleInv, FilesToCome
    <2>2. reference' \in FileKey \cup {0}
      BY <1>1, <1>2 DEF StyleJob
    <2> QED  BY <1>2, <1>3, <2>1, <2>2, IdleStyleJob, StyleMove
  <1>5. /\ job'[p] = Idle /\ \A q \in Proc \ {p} : job'[q] = job[q]
    BY <1>1, <1>2 DEF StyleTypeOK
  <1>6. \A k : /\ Erasing(k)' <=> Erasing(k)
               /\ Removing(k)' <=> Removing(k)
    <2>1. \A k : /\ Erasing(k)' <=> \E q \in Proc : EraseOf(job'[q], k)
                 /\ Removing(k)' <=> \E q \in Proc : RemoveOf(job'[q], k)
      BY DEF Erasing, Removing, EraseOf, RemoveOf, Erases, Removes
    <2>2. \A k : ~EraseOf(job[p], k) /\ ~RemoveOf(job[p], k)
      BY <1>2 DEF EraseOf, RemoveOf
    <2> QED  BY <1>5, <2>1, <2>2, IdleStyleJob DEF Erasing, Removing
  <1>7. FilesThere'
    <2> SUFFICES ASSUME unharmed', Exists'
                 PROVE  /\ \A k \in Shots' : k \in styleFiles' \/ Removing(k)' \/ Erasing(k)'
                        /\ \A q \in Proc : Comes(job'[q]) =>
                                job'[q].key \in styleFiles' \/ Erasing(job[q].key)'
                        /\ \A q \in Proc : Arrives(job'[q]) => job'[q].key \in styleFiles'
                        /\ reference' # 0 => reference' \in styleFiles' \/ Replacing(reference)'
                        /\ \A k \in Results' \ {0} : k \in styleFiles' \/ Erasing(k)'
      BY DEF FilesThere, Comes, Arrives
    <2>1. /\ \A k \in Shots : k \in styleFiles \/ Removing(k) \/ Erasing(k)
          /\ \A q \in Proc : Comes(job[q]) => job[q].key \in styleFiles \/ Erasing(job[q].key)
          /\ \A q \in Proc : Arrives(job[q]) => job[q].key \in styleFiles
          /\ \A k \in Results \ {0} : k \in styleFiles \/ Erasing(k)
      BY <1>2 DEF StyleInv, FilesThere
    <2>2. ASSUME NEW q \in Proc, Comes(job'[q])
          PROVE  job'[q].key \in styleFiles' \/ Erasing(job[q].key)'
      <3>1. job'[q] = job[q]
        BY <1>5, <2>2, IdleStyleJob
      <3>2. PICK k : k = job[q].key
        OBVIOUS
      <3>3. k \in styleFiles \/ Erasing(k)
        BY <2>1, <2>2, <3>1, <3>2 DEF Erasing
      <3>4. k \in styleFiles' \/ Erasing(k)'
        BY <1>2, <1>6, <3>3
      <3> QED  BY <3>1, <3>2, <3>4 DEF Erasing
    <2>3. \A q \in Proc : Arrives(job'[q]) => job'[q].key \in styleFiles'
      BY <1>2, <1>5, <2>1, IdleStyleJob
    <2>4. reference' # 0 => reference' \in styleFiles'
      BY <1>2, <2>1
    <2> QED  BY <1>2, <1>3, <1>6, <2>1, <2>2, <2>3, <2>4
  <1> QED  BY <1>4, <1>7 DEF StyleInv

\* The style goes with its rows, and the next one comes with none.
LEMMA StyleGoesKeepsInv ==
    ASSUME StyleInv, CreateStyle \/ \E p \in Proc : DeleteRows(p)
    PROVE  StyleInv'
  <1>1. StyleTypeOK
    BY DEF StyleInv
  <1>2. /\ images' = {} /\ reference' = 0 /\ generations' = {}
        /\ style' \in {"active", "inactive", "gone"}
        /\ pipeline' \subseteq Config /\ configs' = configs
        /\ UNCHANGED <<styleFiles, made, unharmed>>
    BY <1>1 DEF CreateStyle, DeleteRows, StyleStorage, StyleTypeOK
  <1>3. PICK q \in Proc, j \in StyleJob \cup {Idle} :
            /\ job' = [job EXCEPT ![q] = j] /\ (j # Idle => StyleJobOK(j))
            /\ j = job[q] \/ j = Idle
            /\ CreateStyle \/ ~Exists'
    <2>1. CASE CreateStyle
      BY <1>1, <2>1, StyleStill DEF CreateStyle, Once
    <2>2. CASE \E p \in Proc : DeleteRows(p)
      BY <2>2 DEF DeleteRows, Become, Exists
    <2> QED  BY <2>1, <2>2
  <1>4. Shots' = {} /\ Tests' = {} /\ Results' = {}
    BY <1>2 DEF Shots, Tests, Results
  <1>5. Comes(j) \/ Arrives(j) \/ Removes(j) \/ Replaces(j) \/ Erases(j) => j = job[q]
    BY <1>3, IdleStyleJob
  <1>6. StyleTypeOK' /\ KindsApart' /\ FilesToCome'
    <2>1. /\ images' \subseteq Image /\ generations' \subseteq GenerationRow
          /\ configs' \subseteq Config /\ unharmed' \in BOOLEAN /\ reference' \in FileKey \cup {0}
          /\ \A i, i2 \in images' : i.key = i2.key => i = i2
      BY <1>1, <1>2 DEF StyleTypeOK
    <2> QED  BY <1>2, <1>3, <1>4, <1>5, <2>1, StyleMove
  <1>7. FilesThere'
    <2>1. CASE ~Exists'
      BY <2>1 DEF FilesThere
    <2>2. CASE CreateStyle
      <3>1. \A r \in Proc : job'[r] = Idle
        BY <2>2 DEF CreateStyle, Once, AllIdle
      <3>2. \A r \in Proc : ~Comes(job'[r]) /\ ~Arrives(job'[r])
        BY <3>1, IdleStyleJob
      <3> QED  BY <1>2, <1>4, <3>2 DEF FilesThere, Comes, Arrives
    <2> QED  BY <1>3, <2>1, <2>2
  <1> QED  BY <1>6, <1>7 DEF StyleInv

LEMMA StyleNextKeepsInv ==
    ASSUME StyleInv, [StyleNext]_styleVars
    PROVE  StyleInv'
  <1>1. CASE UNCHANGED styleVars
    <2>1. StyleTypeOK /\ UNCHANGED <<style, pipeline, configs, images, reference, generations,
                                    styleFiles, made, unharmed, job>>
      BY <1>1 DEF styleVars, StyleInv
    <2>2. PICK q \in Proc : /\ job' = [job EXCEPT ![q] = job[q]]
                            /\ job[q] \in StyleJob \cup {Idle}
                            /\ job[q] # Idle => StyleJobOK(job[q])
      BY <2>1, StyleStill
    <2> QED  BY <2>1, <2>2, StyleQuiet DEF StyleTypeOK, Exists
  <1>2. CASE StyleNext
    <2>1. ASSUME NEW p \in Proc,
                 \/ UpdateStyle(p) \/ AddImage(p) \/ StartTest(p)
                 \/ \E force \in BOOLEAN : HardDeleteStyle(p, force)
                                           \/ \E c \in Config : RemoveConfig(p, c, force)
                 \/ \E i \in images :
                      RemoveImage(p, i) \/ \E isPrimary \in BOOLEAN : UpdateImage(p, i, isPrimary)
                 \/ \E op \in {"uploadReference", "removeReference"} : FindReferenceStorageKey(p, op)
          PROVE  StyleInv'
      BY <2>1, StyleStartsKeepInv
    <2>2. ASSUME NEW p \in Proc,
                 \/ WriteUpdate(p) \/ DeleteConfig(p) \/ StyleFails(p)
                 \/ UploadImage(p) \/ UploadReferenceImage(p)
                 \/ DeleteFiles(p) \/ RemoveFile(p) \/ DropReference(p)
                 \/ InsertImage(p) \/ UnsetPrimaryImage(p) \/ WriteImage(p) \/ RemoveRow(p)
                 \/ RemoveReferenceImage(p) \/ WriteReference(p)
                 \/ DeleteRows(p) \/ InsertTest(p)
                 \/ \E g \in generations : CompleteGeneration(p, g)
          PROVE  StyleInv'
      BY <2>2, StyleLinksKeepInv, StyleUploadsKeepInv, StyleDeletionsKeepInv, StyleImagesKeepInv,
         StyleReferenceKeepsInv, StyleGoesKeepsInv, StyleInsertsKeepInv, CompleteGenerationKeepsInv
    <2>3. ASSUME CreateStyle \/ DeactivateStyle \/ CreateGeneration \/ \E c \in Config : CreateConfig(c)
          PROVE  StyleInv'
      BY <2>3, StyleLinksKeepInv, StyleGoesKeepsInv, StyleInsertsKeepInv
    <2> QED  BY <1>2, <2>1, <2>2, <2>3 DEF StyleNext
  <1> QED  BY <1>1, <1>2

LEMMA StyleInvHolds == StyleSpec => []StyleInv
  <1>1. StyleInit => StyleInv
    BY StyleInitInv
  <1>2. StyleInv /\ [StyleNext]_styleVars => StyleInv'
    BY StyleNextKeepsInv
  <1> QED  BY <1>1, <1>2, PTL DEF StyleSpec

\* Whatever requests meet, and unless one fails half way, the images and the
\* reference of a style and the results of its customers have their files.
THEOREM StylesHaveTheirFiles == StyleSpec => []StyleHasItsFiles
  <1>1. StyleInv => StyleHasItsFiles
    <2> SUFFICES ASSUME StyleInv, unharmed, AllIdle
                 PROVE  /\ {i.key : i \in images} \cup ({reference} \ {0}) \subseteq styleFiles
                        /\ \A g \in generations :
                            g.result # 0 /\ ~g.isAdminTest => g.result \in styleFiles
      BY DEF StyleHasItsFiles
    <2>1. \A k : ~Erasing(k) /\ ~Removing(k) /\ ~Replacing(k)
      BY IdleStyleJob DEF AllIdle, Erasing, Removing, Replacing
    <2>2. CASE ~Exists
      BY <2>2 DEF StyleInv, StyleTypeOK
    <2>3. CASE Exists
      <3>1. /\ \A k \in Shots : k \in styleFiles
            /\ reference # 0 => reference \in styleFiles
            /\ \A k \in Results \ {0} : k \in styleFiles
        BY <2>1, <2>3 DEF StyleInv, FilesThere
      <3> QED  BY <3>1 DEF Shots, Results
    <2> QED  BY <2>2, <2>3
  <1> QED  BY <1>1, StyleInvHolds, PTL

\* No deletion of a style takes generations with it, and none of a
\* configuration one that was in use when it was asked for, unless forced.
THEOREM UsesAreNotLost == StyleSpec => UsesOutliveUnforced
  <1>1. StyleInv /\ [StyleNext]_styleVars =>
            [ /\ generations' = {} /\ generations # {} => \E p \in Proc : Forced(p, "hardDelete")
              /\ \A p \in Proc, c \in pipeline :
                  Unlinks(p, c) /\ c \notin pipeline' /\ c \notin configs' =>
                      job[p].force \/ ~job[p].used ]_styleVars
    <2> SUFFICES ASSUME StyleInv, StyleNext
                 PROVE  /\ generations' = {} /\ generations # {} =>
                                \E p \in Proc : Forced(p, "hardDelete")
                        /\ \A p \in Proc, c \in pipeline :
                            Unlinks(p, c) /\ c \notin pipeline' /\ c \notin configs' =>
                                job[p].force \/ ~job[p].used
      OBVIOUS
    <2>1. ASSUME NEW p \in Proc, NEW c, Unlinks(p, c)
          PROVE  job[p].force \/ ~job[p].used
      <3>1. job[p].op = "removeConfig"
        BY <2>1 DEF Unlinks, At
      <3>2. StyleJobOK(job[p])
        BY <3>1, StyleAtWork DEF StyleInv
      <3> QED  BY <3>1, <3>2 DEF StyleJobOK
    <2>2. ASSUME generations' = {}, generations # {}
          PROVE  \E p \in Proc : DeleteRows(p)
      <3>1. StyleTypeOK
        BY DEF StyleInv
      <3>2. ~CreateStyle /\ ~DeactivateStyle /\ ~CreateGeneration /\ \A c \in Config : ~CreateConfig(c)
        BY <2>2 DEF CreateStyle, DeactivateStyle, CreateGeneration, CreateConfig, InsertGeneration
      <3>3. ASSUME NEW p \in Proc
            PROVE  /\ ~UpdateStyle(p) /\ ~WriteUpdate(p) /\ ~AddImage(p) /\ ~UploadImage(p)
                   /\ \A force \in BOOLEAN :
                        ~HardDeleteStyle(p, force) /\ \A c \in Config : ~RemoveConfig(p, c, force)
                   /\ ~DeleteFiles(p) /\ ~DeleteConfig(p) /\ ~InsertImage(p)
                   /\ \A i \in images :
                        ~RemoveImage(p, i) /\ \A isPrimary \in BOOLEAN : ~UpdateImage(p, i, isPrimary)
        BY <2>2 DEF UpdateStyle, WriteUpdate, AddImage, UploadImage, Upload, HardDeleteStyle,
                    RemoveConfig, DeleteFiles, DeleteConfig, InsertImage, RemoveImage, UpdateImage,
                    StyleRows
      <3>4. ASSUME NEW p \in Proc
            PROVE  /\ ~UnsetPrimaryImage(p) /\ ~WriteImage(p) /\ ~RemoveFile(p) /\ ~RemoveRow(p)
                   /\ \A op : ~FindReferenceStorageKey(p, op)
                   /\ ~DropReference(p) /\ ~UploadReferenceImage(p)
                   /\ ~RemoveReferenceImage(p) /\ ~WriteReference(p)
                   /\ ~StartTest(p) /\ ~InsertTest(p) /\ ~StyleFails(p)
                   /\ \A g \in generations : ~CompleteGeneration(p, g)
        BY <2>2 DEF UnsetPrimaryImage, WriteImage, RemoveFile, RemoveRow, FindReferenceStorageKey,
                    DropReference, UploadReferenceImage, Upload, RemoveReferenceImage, WriteReference,
                    StartTest, InsertTest, InsertGeneration, StyleFails, CompleteGeneration, StyleRows
      <3> QED  BY <3>2, <3>3, <3>4 DEF StyleNext
    <2>3. ASSUME NEW p \in Proc, DeleteRows(p), generations # {}
          PROVE  Forced(p, "hardDelete")
      <3>1. job[p].op = "hardDelete" /\ job[p].at = "rows" /\ job[p].used
        BY <2>3 DEF DeleteRows, At, Emptied
      <3>2. StyleJobOK(job[p])
        BY <3>1, StyleAtWork DEF StyleInv
      <3> QED  BY <3>1, <3>2 DEF StyleJobOK, Forced, At
    <2> QED  BY <2>1, <2>2, <2>3
  <1> QED  BY <1>1, StyleInvHolds, PTL DEF StyleSpec, UsesOutliveUnforced

-----------------------------------------------------------------------------
(* The conversion of costs. *)

\* What a conversion carries: the rate that it found is of today or earlier, and
\* the one that it got is no older.
ConversionOK(j) ==
    /\ j.seen # Missing => j.seen.date <= today
    /\ j.at \in {"fetch", "answer"} => j.currency # BaseCurrency
    /\ j.at = "answer" => j.got # Missing
    /\ j.got # Missing => j.got.date <= today
    /\ j.at \in {"answer", "write"} /\ j.currency # BaseCurrency => TakesNoOlderRate(j)

EconomicsTypeOK ==
    /\ today \in 0..MaxDays
    /\ cache \in Cached \cup {Missing}
    /\ overlapped \in BOOLEAN
    /\ job \in [Proc -> Conversion \cup {Idle}]

\* Unless two fetches met, the one under way brings no rate older than the one
\* that is cached by then.
OneFetch ==
    ~overlapped =>
        \A p \in Fetching :
            /\ \A q \in Fetching : p = q
            /\ job[p].at = "answer" /\ cache # Missing => job[p].got.date >= cache.date

ConversionInv ==
    /\ EconomicsTypeOK
    /\ cache # Missing => cache.date <= today
    /\ \A p \in Proc : job[p] # Idle => ConversionOK(job[p])
    /\ OneFetch

LEMMA CostNumbers ==
    /\ MaxDays \in Nat /\ Missing \notin Nat /\ RateOn \in [0..MaxDays -> Nat \ {0}] /\ ImageCost \subseteq Nat
    /\ Idle \notin Conversion /\ 0 \in 0..MaxDays
  BY EconomicsConstants DEF Idle, Conversion

LEMMA ConversionInitInv == EconomicsInit => ConversionInv
  <1> SUFFICES ASSUME EconomicsInit PROVE ConversionInv
    OBVIOUS
  <1>1. /\ today = 0 /\ cache = Missing /\ overlapped = FALSE /\ job = [p \in Proc |-> Idle]
    BY DEF EconomicsInit, RequestsInit
  <1>2. Fetching = {} /\ \A p \in Proc : job[p] = Idle
    BY <1>1 DEF Fetching
  <1> QED  BY <1>1, <1>2, CostNumbers DEF ConversionInv, EconomicsTypeOK, OneFetch

LEMMA AtWorkOnCost ==
    ASSUME ConversionInv, NEW p \in Proc, job[p] # Idle
    PROVE  job[p] \in Conversion /\ ConversionOK(job[p]) /\ job[p].op = "record"
  BY DEF ConversionInv, EconomicsTypeOK, Conversion

\* A handler goes on with what it carries; nothing but the cache may change.
LEMMA ConversionStep ==
    ASSUME ConversionInv, NEW p \in Proc, NEW j \in Conversion \cup {Idle},
           job' = [job EXCEPT ![p] = j], UNCHANGED today,
           cache' \in Cached \cup {Missing}, cache' # Missing => cache'.date <= today,
           overlapped' \in BOOLEAN, overlapped => overlapped',
           j # Idle => ConversionOK(j),
           ~overlapped' /\ j # Idle /\ j.at \in {"fetch", "answer"} =>
               /\ Fetching \subseteq {p}
               /\ j.at = "answer" /\ cache # Missing => j.got.date >= cache.date,
           cache' = cache \/ (p \in Fetching /\ (j = Idle \/ j.at = "write"))
    PROVE  ConversionInv'
  <1>1. job'[p] = j /\ \A q \in Proc \ {p} : job'[q] = job[q]
    BY DEF ConversionInv, EconomicsTypeOK
  <1>2. EconomicsTypeOK'
    BY DEF ConversionInv, EconomicsTypeOK
  <1>3. \A q \in Proc : job'[q] # Idle => ConversionOK(job'[q])
    BY <1>1 DEF ConversionInv
  <1>4. \A q \in Proc : ConversionOK(job[q])' <=> ConversionOK(job'[q])
    BY DEF ConversionOK, TakesNoOlderRate
  <1>5. OneFetch'
    <2>1. Fetching' = {q \in Proc : job'[q] # Idle /\ job'[q].at \in {"fetch", "answer"}}
      BY DEF Fetching
    <2>2. \A q \in Proc \ {p} : q \in Fetching' <=> q \in Fetching
      BY <1>1, <2>1 DEF Fetching
    <2> SUFFICES ASSUME ~overlapped', NEW q \in Fetching'
                 PROVE  /\ \A r \in Fetching' : q = r
                        /\ job'[q].at = "answer" /\ cache' # Missing => job'[q].got.date >= cache'.date
      BY DEF OneFetch
    <2>3. ~overlapped
      OBVIOUS
    <2>4. CASE p \in Fetching'
      <3>1. j # Idle /\ j.at \in {"fetch", "answer"}
        BY <1>1, <2>1, <2>4
      <3>2. Fetching \subseteq {p} /\ (j.at = "answer" /\ cache # Missing => j.got.date >= cache.date)
        BY <3>1
      <3>3. \A r \in Fetching' : r = p
        BY <2>1, <2>2, <3>2
      <3>4. cache' = cache
        BY <3>1 DEF Conversion
      <3> QED  BY <1>1, <3>2, <3>3, <3>4
    <2>5. CASE p \notin Fetching'
      <3>1. \A r \in Fetching' : r \in Fetching /\ r # p /\ r \in Proc
        BY <2>1, <2>2, <2>5
      <3>2. \A r \in Fetching : r = q
        BY <2>3, <3>1 DEF ConversionInv, OneFetch
      <3>3. job'[q] = job[q] /\ q \in Fetching /\ p \notin Fetching
        BY <1>1, <3>1, <3>2
      <3>4. job[q].at = "answer" /\ cache # Missing => job[q].got.date >= cache.date
        BY <2>3, <3>3 DEF ConversionInv, OneFetch
      <3> QED  BY <3>1, <3>2, <3>3, <3>4
    <2> QED  BY <2>4, <2>5
  <1> QED  BY <1>2, <1>3, <1>4, <1>5 DEF ConversionInv

LEMMA ConvertKeepsInv ==
    ASSUME ConversionInv, NEW p \in Proc, NEW c \in Generation \cup {Production},
           NEW u \in Customer \cup {Missing},
           NEW currency \in Currency, NEW image \in ImageCost, Convert(p, c, u, currency, image)
    PROVE  ConversionInv'
  <1>1. /\ EconomicsTypeOK /\ cache \in Cached \cup {Missing}
        /\ (cache # Missing => cache.date <= today)
        /\ today \in Nat /\ UNCHANGED <<today, cache>>
    BY CostNumbers DEF ConversionInv, EconomicsTypeOK, Convert
  <1>2. cache # Missing => cache.date \in Nat
    BY <1>1, CostNumbers DEF Cached
  <1>3. PICK fetches \in BOOLEAN : fetches <=> (currency # BaseCurrency /\ ~Recent)
    OBVIOUS
  <1>4. overlapped' = (overlapped \/ (fetches /\ Fetching # {})) /\ overlapped' \in BOOLEAN
    BY <1>1, <1>3 DEF Convert, EconomicsTypeOK
  <1>5. PICK start : start = [op |-> "record", at |-> "write", cost |-> c, user |-> u,
                              currency |-> currency, image |-> image, seen |-> cache, got |-> Missing]
    OBVIOUS
  <1>6. PICK j : j = CASE currency = BaseCurrency -> start
                       [] currency # BaseCurrency /\ Recent -> [start EXCEPT !.got = cache]
                       [] fetches -> [start EXCEPT !.at = "fetch"]
    OBVIOUS
  <1>7. job' = [job EXCEPT ![p] = j]
    BY <1>3, <1>5, <1>6 DEF Convert, Dispatch
  <1>8. CASE currency = BaseCurrency
    <2>1. j = start
      BY <1>3, <1>6, <1>8
    <2>2. j \in Conversion /\ ConversionOK(j) /\ j.at = "write"
      BY <1>1, <1>5, <1>8, <2>1 DEF Conversion, ConversionOK
    <2> QED  BY <1>1, <1>4, <1>7, <2>2, ConversionStep
  <1>9. CASE currency # BaseCurrency /\ Recent
    <2>1. j = [start EXCEPT !.got = cache]
      BY <1>3, <1>6, <1>9
    <2>2. cache # Missing
      BY <1>9 DEF Recent
    <2>3. j \in Conversion /\ ConversionOK(j) /\ j.at = "write"
      BY <1>1, <1>2, <1>5, <2>1, <2>2 DEF Conversion, ConversionOK, TakesNoOlderRate
    <2> QED  BY <1>1, <1>4, <1>7, <2>3, ConversionStep
  <1>10. CASE fetches
    <2>1. j = [start EXCEPT !.at = "fetch"] /\ currency # BaseCurrency
      BY <1>3, <1>6, <1>10
    <2>2. j \in Conversion /\ ConversionOK(j) /\ j.at = "fetch"
      BY <1>1, <1>5, <2>1 DEF Conversion, ConversionOK
    <2>3. ~overlapped' => Fetching \subseteq {p}
      BY <1>4, <1>10
    <2> QED  BY <1>1, <1>4, <1>7, <2>2, <2>3, ConversionStep
  <1> QED  BY <1>3, <1>8, <1>9, <1>10

LEMMA FetchingKeepsInv ==
    ASSUME ConversionInv, NEW p \in Proc, Answer(p) \/ CacheRate(p) \/ FetchFails(p)
    PROVE  ConversionInv'
  <1>1. /\ EconomicsTypeOK /\ job[p] # Idle /\ job[p].at \in {"fetch", "answer"} /\ p \in Fetching
        /\ today \in 0..MaxDays /\ today \in Nat /\ UNCHANGED <<today, overlapped>>
        /\ cache \in Cached \cup {Missing} /\ (cache # Missing => cache.date <= today)
        /\ overlapped \in BOOLEAN
    BY CostNumbers DEF ConversionInv, EconomicsTypeOK, Answer, CacheRate, FetchFails, At, Idle, Fetching
  <1>2. /\ job[p] \in Conversion /\ ConversionOK(job[p]) /\ job[p].op = "record"
        /\ job[p].got \in Cached \cup {Missing} /\ job[p].seen \in Cached \cup {Missing}
    BY <1>1, AtWorkOnCost DEF Conversion
  <1>3. ~overlapped => Fetching \subseteq {p}
    BY <1>1 DEF ConversionInv, OneFetch
  <1>4. CASE Answer(p)
    <2>1. PICK got : got = [rate |-> RateOn[today], date |-> today, fetchedAt |-> today]
      OBVIOUS
    <2>2. got \in Cached /\ got.date = today
      BY <1>1, <2>1, CostNumbers DEF Cached
    <2>3. got # Missing
      BY <2>2, MissingIsNoRate
    <2>4. PICK j : j = [job[p] EXCEPT !.at = "answer", !.got = got]
      OBVIOUS
    <2>5. /\ j \in Conversion /\ j.at = "answer" /\ j.got = got /\ j.seen = job[p].seen
          /\ j.currency = job[p].currency
      BY <1>2, <2>2, <2>4 DEF Conversion
    <2>6. ConversionOK(j)
      BY <1>1, <1>2, <2>2, <2>3, <2>5 DEF ConversionOK, TakesNoOlderRate
    <2>7. job' = [job EXCEPT ![p] = j] /\ cache' = cache
      BY <1>4, <2>1, <2>4 DEF Answer, Become
    <2> QED  BY <1>1, <1>3, <2>2, <2>5, <2>6, <2>7, ConversionStep
  <1>5. CASE CacheRate(p)
    <2>1. job[p].at = "answer" /\ job[p].got \in Cached /\ job[p].got # Missing /\ job[p].got.date <= today
      BY <1>2, <1>5 DEF CacheRate, At, ConversionOK
    <2>2. cache' = [job[p].got EXCEPT !.fetchedAt = today]
      BY <1>5 DEF CacheRate
    <2>3. cache' \in Cached /\ cache'.date = job[p].got.date
      BY <1>1, <2>1, <2>2 DEF Cached
    <2>4. PICK j : j = [job[p] EXCEPT !.at = "write"]
      OBVIOUS
    <2>5. /\ j \in Conversion /\ j.at = "write" /\ j.got = job[p].got /\ j.seen = job[p].seen
          /\ j.currency = job[p].currency
      BY <1>2, <2>4 DEF Conversion
    <2>6. ConversionOK(j)
      BY <1>1, <1>2, <2>1, <2>5 DEF ConversionOK, TakesNoOlderRate
    <2>7. job' = [job EXCEPT ![p] = j]
      BY <1>5, <2>4 DEF CacheRate, Become
    <2> QED  BY <1>1, <2>1, <2>3, <2>5, <2>6, <2>7, ConversionStep
  <1>6. CASE FetchFails(p)
    <2>1. PICK j : j = [job[p] EXCEPT !.at = "write", !.got = job[p].seen]
      OBVIOUS
    <2>2. /\ j \in Conversion /\ j.at = "write" /\ j.got = job[p].seen /\ j.seen = job[p].seen
          /\ j.currency = job[p].currency
      BY <1>2, <2>1 DEF Conversion
    <2>3. job[p].seen # Missing => job[p].seen.date \in Nat
      BY <1>2, CostNumbers DEF Cached
    <2>4. ConversionOK(j)
      BY <1>1, <1>2, <2>2, <2>3 DEF ConversionOK, TakesNoOlderRate
    <2>5. job' = [job EXCEPT ![p] = j] /\ cache' = cache
      BY <1>6, <2>1 DEF FetchFails, Become, Fallback
    <2> QED  BY <1>1, <2>2, <2>4, <2>5, ConversionStep
  <1> QED  BY <1>4, <1>5, <1>6

LEMMA ConversionNextKeepsInv == ConversionInv /\ [EconomicsNext]_economicsVars => ConversionInv'
  <1> SUFFICES ASSUME ConversionInv, [EconomicsNext]_economicsVars PROVE ConversionInv'
    OBVIOUS
  <1>1. /\ EconomicsTypeOK /\ today \in Nat /\ overlapped \in BOOLEAN /\ cache \in Cached \cup {Missing}
        /\ cache # Missing => cache.date <= today
    BY CostNumbers DEF ConversionInv, EconomicsTypeOK
  <1>2. CASE UNCHANGED economicsVars
    BY <1>2 DEF economicsVars, ConversionInv, EconomicsTypeOK, ConversionOK, TakesNoOlderRate, OneFetch, Fetching
  <1>3. ASSUME NEW p \in Proc, NEW g \in Generation, NEW image \in ImageCost, Convert(p, g, OwnerOf[g], "USD", image)
        PROVE  ConversionInv'
    <2>1. OwnerOf[g] \in Customer \cup {Missing} /\ "USD" \in Currency
      BY EconomicsConstants DEF Currency
    <2> QED  BY <1>3, <2>1, ConvertKeepsInv
  <1>4. ASSUME NEW p \in Proc, NEW u \in Customer \cup {Missing}, NEW currency \in Currency,
               NEW image \in ImageCost, Convert(p, Production, u, currency, image)
        PROVE  ConversionInv'
    BY <1>4, ConvertKeepsInv
  <1>5. ASSUME NEW p \in Proc, Answer(p) \/ CacheRate(p) \/ FetchFails(p)
        PROVE  ConversionInv'
    BY <1>5, FetchingKeepsInv
  <1>6. ASSUME NEW p \in Proc, Record(p)
        PROVE  ConversionInv'
    <2>1. job' = [job EXCEPT ![p] = Idle] /\ UNCHANGED <<today, cache, overlapped>>
      BY <1>6 DEF Record, Become
    <2> QED  BY <1>1, <2>1, ConversionStep
  <1>7. CASE LoseCache
    <2>1. cache' = Missing /\ job' = [p \in Proc |-> Idle] /\ UNCHANGED <<today, overlapped>>
      BY <1>7 DEF LoseCache
    <2>2. Fetching' = {} /\ \A p \in Proc : job'[p] = Idle
      BY <2>1 DEF Fetching
    <2> QED  BY <1>1, <2>1, <2>2 DEF ConversionInv, EconomicsTypeOK, OneFetch
  <1>8. CASE NextDay
    <2>1. today' = today + 1 /\ today' \in 0..MaxDays /\ UNCHANGED <<cache, overlapped, job>>
      BY <1>1, <1>8, CostNumbers DEF NextDay, EconomicsTypeOK
    <2>2. cache' # Missing => cache'.date <= today'
      <3>1. cache # Missing => cache.date \in Nat
        BY <1>1, CostNumbers DEF Cached
      <3> QED  BY <1>1, <2>1, <3>1
    <2>3. ASSUME NEW p \in Proc, job[p] # Idle
          PROVE  ConversionOK(job[p])'
      <3>1. /\ ConversionOK(job[p]) /\ job[p].seen \in Cached \cup {Missing}
            /\ job[p].got \in Cached \cup {Missing}
        BY <2>3, AtWorkOnCost DEF Conversion
      <3>2. /\ job[p].seen # Missing => job[p].seen.date \in Nat
            /\ job[p].got # Missing => job[p].got.date \in Nat
        BY <3>1, CostNumbers DEF Cached
      <3> QED  BY <1>1, <2>1, <3>1, <3>2 DEF ConversionOK, TakesNoOlderRate
    <2>4. OneFetch'
      BY <2>1 DEF ConversionInv, OneFetch, Fetching
    <2>5. EconomicsTypeOK'
      BY <1>1, <2>1 DEF EconomicsTypeOK
    <2> QED  BY <2>1, <2>2, <2>3, <2>4, <2>5 DEF ConversionInv
  <1> QED  BY <1>2, <1>3, <1>4, <1>5, <1>6, <1>7, <1>8 DEF EconomicsNext

LEMMA ConversionInvHolds == EconomicsSpec => []ConversionInv
  BY ConversionInitInv, ConversionNextKeepsInv, PTL DEF EconomicsSpec

\* A conversion takes no rate older than the one it found, and the cached rate
\* goes back only after two fetches met (FxRateService.getRate).
THEOREM RatesKeepUp == EconomicsSpec => ConversionsKeepUp
  <1>1. ASSUME ConversionInv, EconomicsNext
        PROVE  /\ \A p \in Proc : At(p, "record", "write") /\ job[p].currency # BaseCurrency =>
                        TakesNoOlderRate(job[p])
               /\ ~overlapped /\ Missing \notin {cache, cache'} => cache'.date >= cache.date
    <2>1. \A p \in Proc : At(p, "record", "write") /\ job[p].currency # BaseCurrency =>
                TakesNoOlderRate(job[p])
      BY <1>1 DEF ConversionInv, ConversionOK, At, Idle
    <2>2. cache # Missing => cache.date \in Nat
      BY <1>1, CostNumbers DEF ConversionInv, EconomicsTypeOK, Cached
    <2>3. ASSUME ~overlapped, Missing \notin {cache, cache'}, cache' # cache
          PROVE  cache'.date >= cache.date
      <3>1. PICK p \in Proc : CacheRate(p)
        BY <1>1, <2>3 DEF EconomicsNext, Convert, Answer, FetchFails, Record, LoseCache, NextDay
      <3>2. job[p] # Idle /\ job[p].at = "answer" /\ cache' = [job[p].got EXCEPT !.fetchedAt = today]
        BY <3>1 DEF CacheRate, At, Idle
      <3>3. job[p].got \in Cached
        BY <1>1, <3>2, AtWorkOnCost DEF ConversionOK, Conversion
      <3>4. cache'.date = job[p].got.date
        BY <3>2, <3>3 DEF Cached
      <3>5. job[p].got.date >= cache.date
        BY <1>1, <2>3, <3>2 DEF ConversionInv, OneFetch, Fetching
      <3> QED  BY <3>4, <3>5
    <2> QED  BY <2>1, <2>2, <2>3
  <1>2. ConversionInv /\ [EconomicsNext]_economicsVars =>
          [/\ \A p \in Proc : At(p, "record", "write") /\ job[p].currency # BaseCurrency =>
                    TakesNoOlderRate(job[p])
           /\ ~overlapped /\ Missing \notin {cache, cache'} => cache'.date >= cache.date]_economicsVars
    BY <1>1
  <1> QED  BY <1>2, ConversionInvHolds, PTL DEF EconomicsSpec, ConversionsKeepUp

-----------------------------------------------------------------------------
(* The readers of the costs. *)

CostRow ==
    [cost : Generation \cup {Production}, user : Customer \cup {Missing}, amount : Nat, base : Nat \cup {Missing},
     fx : Nat \cup {Missing}, vision : Nat, image : Nat, day : Nat]

\* A converted row has its rate with its amount, and one without a rate was not
\* converted, whatever is known of its amount.
RowAddsUp(e) ==
    /\ e.amount = e.image + e.vision
    /\ e.fx = Missing => e.base \in {e.amount, Missing}
    /\ e.fx # Missing => e.base = e.amount * e.fx

CostsInv == costs \subseteq CostRow /\ IsFiniteSet(costs) /\ \A e \in costs : RowAddsUp(e)

RowOf(j, user, day) ==
    [cost |-> j.cost, user |-> user, amount |-> Amount(j), base |-> BaseOf(j), fx |-> FxOf(j),
     vision |-> VisionCost, image |-> j.image, day |-> day]

\* The row that a conversion is written to.
LEMMA WrittenRow ==
    ASSUME ConversionInv, NEW j \in Conversion, NEW day \in Nat, NEW user \in Customer \cup {Missing},
           NEW e, e = RowOf(j, user, day)
    PROVE  e \in CostRow /\ RowAddsUp(e)
  <1>1. j.image \in Nat /\ VisionCost \in Nat /\ j.cost \in Generation \cup {Production}
    <2>1. j.image \in ImageCost /\ j.cost \in Generation \cup {Production}
      BY DEF Conversion
    <2>2. VisionCost \in Nat
      BY DEF VisionCost
    <2>3. ImageCost \subseteq Nat
      BY CostNumbers
    <2> QED  BY <2>1, <2>2, <2>3
  <1>2. PICK amount \in Nat : amount = Amount(j) /\ amount = j.image + VisionCost
    BY <1>1 DEF Amount
  <1>3. /\ e.cost = j.cost /\ e.amount = amount /\ e.base = BaseOf(j) /\ e.fx = FxOf(j)
        /\ e.vision = VisionCost /\ e.image = j.image /\ e.day = day /\ e.user = user
        /\ e = [cost |-> j.cost, user |-> user, amount |-> amount, base |-> BaseOf(j), fx |-> FxOf(j),
                vision |-> VisionCost, image |-> j.image, day |-> day]
    BY <1>2 DEF RowOf
  <1>4. CASE j.got # Missing
    <2>1. PICK rate \in Nat : rate = j.got.rate
      BY <1>4 DEF Conversion, Cached
    <2>2. BaseOf(j) = amount * rate /\ FxOf(j) = rate /\ rate # Missing
      BY <1>2, <1>4, <2>1, CostNumbers DEF BaseOf, FxOf
    <2>3. amount * rate \in Nat
      BY <2>1
    <2> QED  BY <1>1, <1>2, <1>3, <2>1, <2>2, <2>3 DEF CostRow, RowAddsUp
  <1>5. CASE j.got = Missing
    <2>1. BaseOf(j) \in {amount, Missing} /\ FxOf(j) = Missing
      BY <1>2, <1>5 DEF BaseOf, FxOf
    <2> QED  BY <1>1, <1>2, <1>3, <2>1 DEF CostRow, RowAddsUp
  <1> QED  BY <1>4, <1>5

LEMMA CostsInitInv == EconomicsInit => CostsInv
  BY FS_EmptySet DEF EconomicsInit, CostsInv

LEMMA CostsNextKeepsInv == ConversionInv /\ CostsInv /\ [EconomicsNext]_economicsVars => CostsInv'
  <1> SUFFICES ASSUME ConversionInv, CostsInv, [EconomicsNext]_economicsVars PROVE CostsInv'
    OBVIOUS
  <1>1. CASE UNCHANGED costs
    BY <1>1 DEF CostsInv, RowAddsUp
  <1>2. ASSUME NEW p \in Proc, Record(p)
        PROVE  CostsInv'
    <2>1. PICK j \in Conversion : j = job[p]
      BY <1>2, AtWorkOnCost DEF Record, At, Idle
    <2>2. PICK old : old = {e \in costs : e.cost = j.cost}
      OBVIOUS
    <2>3. costs' = (costs \ old) \cup (IF old = {} THEN {Created(j)} ELSE {Updated(e, j) : e \in old})
      BY <1>2, <2>1, <2>2 DEF Record
    <2>4. costs \subseteq CostRow /\ IsFiniteSet(costs \ old) /\ IsFiniteSet(old) /\ today \in Nat
      BY <2>2, FS_Subset, CostNumbers DEF CostsInv, ConversionInv, EconomicsTypeOK
    <2>5. ASSUME NEW e \in costs' PROVE e \in CostRow /\ RowAddsUp(e)
      <3>1. CASE e \in costs
        BY <3>1 DEF CostsInv
      <3>2. CASE e \notin costs
        <4>1. e = Created(j) \/ \E o \in old : e = Updated(o, j)
          BY <2>3, <3>2
        <4>2. CASE e = Created(j)
          <5>1. e = RowOf(j, j.user, today)
            BY <4>2 DEF Created, RowOf
          <5>2. j.user \in Customer \cup {Missing}
            BY DEF Conversion
          <5> QED  BY <2>4, <5>1, <5>2, WrittenRow
        <4>3. ASSUME NEW o \in old, e = Updated(o, j)
              PROVE  e \in CostRow /\ RowAddsUp(e)
          <5>1. e = RowOf(j, o.user, o.day)
            BY <4>3 DEF Updated, Created, RowOf
          <5>2. o.day \in Nat /\ o.user \in Customer \cup {Missing}
            BY <2>2, <2>4 DEF CostRow
          <5> QED  BY <5>1, <5>2, WrittenRow
        <4> QED  BY <4>1, <4>2, <4>3
      <3> QED  BY <3>1, <3>2
    <2>6. IsFiniteSet(costs')
      <3> DEFINE new == [e \in old |-> Updated(e, j)]
      <3>1. {new[e] : e \in old} = {Updated(e, j) : e \in old}
        OBVIOUS
      <3> HIDE DEF new
      <3>2. IsFiniteSet({new[e] : e \in old})
        BY <2>4, ImageIsFinite
      <3>3. IsFiniteSet({Created(j)})
        BY FS_Singleton
      <3> QED  BY <2>3, <2>4, <3>1, <3>2, <3>3, FS_Union
    <2>7. \A e \in costs' : RowAddsUp(e)' <=> RowAddsUp(e)
      BY DEF RowAddsUp
    <2> QED  BY <2>5, <2>6, <2>7 DEF CostsInv
  <1> QED  BY <1>1, <1>2 DEF EconomicsNext, economicsVars, Convert, Answer, CacheRate, FetchFails,
                             LoseCache, NextDay

LEMMA CostsInvHolds == EconomicsSpec => []CostsInv
  <1>1. EconomicsInit => ConversionInv /\ CostsInv
    BY ConversionInitInv, CostsInitInv
  <1>2. (ConversionInv /\ CostsInv) /\ [EconomicsNext]_economicsVars => (ConversionInv /\ CostsInv)'
    BY ConversionNextKeepsInv, CostsNextKeepsInv
  <1> QED  BY <1>1, <1>2, PTL DEF EconomicsSpec

-----------------------------------------------------------------------------
(* The sums of the readers, one lemma each: they are sums of a function.   *)

FxIn(e) == IF e.fx = Missing THEN 1 ELSE e.fx
WorthIn == [e \in CostRow |-> Worth(e)]
BaseIn == [e \in CostRow |-> e.base]
VisionIn == [e \in CostRow |-> e.vision * FxIn(e)]
ImageIn == [e \in CostRow |-> e.image * FxIn(e)]

LEMMA TotalOfCosts ==
    ASSUME NEW S \in SUBSET CostRow, IsFiniteSet(S)
    PROVE  Total(S) = SumOf(WorthIn, S)
  <1> DEFINE Folds(g) == g = [s \in SUBSET S |->
                            IF s = {} THEN 0 ELSE Worth(AnyOf(s)) + g[s \ {AnyOf(s)}]]
             h == CHOOSE g : Folds(g)
  <1>1. Total(S) = h[S]
    BY DEF Total, MapThenSumSet, MapThenFoldSet, AnyOf
  <1>2. \A s \in SUBSET S : s # {} => WorthIn[AnyOf(s)] = Worth(AnyOf(s))
    BY AnyOfIsMember DEF WorthIn
  <1>3. \A g : Folds(g) <=> SumsUp(WorthIn, SUBSET S, g)
    BY <1>2 DEF SumsUp
  <1>4. \E g : Folds(g)
    BY <1>3, FoldExists
  <1> HIDE DEF Folds
  <1>5. SumsUp(WorthIn, SUBSET S, h)
    BY <1>3, <1>4
  <1> HIDE DEF h
  <1>6. S \in SUBSET S
    OBVIOUS
  <1>7. SumOf(WorthIn, S) = h[S]
    BY <1>5, <1>6, FoldSums
  <1> QED  BY <1>1, <1>7

Converted(since) == {e \in costs : e.day >= since /\ e.base # Missing}

LEMMA GlobalIsSum ==
    ASSUME CostsInv, NEW since
    PROVE  GlobalSummary(since) = SumOf(BaseIn, Converted(since))
  <1>1. PICK S : S = Converted(since)
    OBVIOUS
  <1>2. S \in SUBSET CostRow /\ IsFiniteSet(S)
    BY <1>1, FS_Subset DEF CostsInv, Converted
  <1> DEFINE Folds(g) == g = [s \in SUBSET S |->
                            IF s = {} THEN 0 ELSE AnyOf(s).base + g[s \ {AnyOf(s)}]]
             h == CHOOSE g : Folds(g)
  <1>3. GlobalSummary(since) = h[S]
    BY <1>1 DEF GlobalSummary, MapThenSumSet, MapThenFoldSet, AnyOf, Converted
  <1>4. \A s \in SUBSET S : s # {} => BaseIn[AnyOf(s)] = AnyOf(s).base
    BY <1>2, AnyOfIsMember DEF BaseIn
  <1>5. \A g : Folds(g) <=> SumsUp(BaseIn, SUBSET S, g)
    BY <1>4 DEF SumsUp
  <1>6. \E g : Folds(g)
    BY <1>2, <1>5, FoldExists
  <1> HIDE DEF Folds
  <1>7. SumsUp(BaseIn, SUBSET S, h)
    BY <1>5, <1>6
  <1> HIDE DEF h
  <1>8. S \in SUBSET S
    OBVIOUS
  <1>9. SumOf(BaseIn, S) = h[S]
    BY <1>2, <1>7, <1>8, FoldSums
  <1> QED  BY <1>1, <1>3, <1>9

Sample(since) == {e \in costs : e.cost \in Generation \ AdminTests /\ e.day >= since}

LEMMA VisionIsSum ==
    ASSUME CostsInv, NEW since
    PROVE  SampleUnitCost(since).vision = SumOf(VisionIn, Sample(since))
  <1>1. PICK S : S = Sample(since)
    OBVIOUS
  <1>2. S \in SUBSET CostRow /\ IsFiniteSet(S)
    BY <1>1, FS_Subset DEF CostsInv, Sample
  <1> DEFINE Folds(g) == g = [s \in SUBSET S |-> IF s = {} THEN 0
                                ELSE AnyOf(s).vision * FxIn(AnyOf(s)) + g[s \ {AnyOf(s)}]]
             h == CHOOSE g : Folds(g)
  <1>3. SampleUnitCost(since).vision = h[S]
    BY <1>1 DEF SampleUnitCost, MapThenSumSet, MapThenFoldSet, AnyOf, Sample, FxIn
  <1>4. \A s \in SUBSET S : s # {} => VisionIn[AnyOf(s)] = AnyOf(s).vision * FxIn(AnyOf(s))
    BY <1>2, AnyOfIsMember DEF VisionIn
  <1>5. \A g : Folds(g) <=> SumsUp(VisionIn, SUBSET S, g)
    BY <1>4 DEF SumsUp
  <1>6. \E g : Folds(g)
    BY <1>2, <1>5, FoldExists
  <1> HIDE DEF Folds
  <1>7. SumsUp(VisionIn, SUBSET S, h)
    BY <1>5, <1>6
  <1> HIDE DEF h
  <1>8. S \in SUBSET S
    OBVIOUS
  <1>9. SumOf(VisionIn, S) = h[S]
    BY <1>2, <1>7, <1>8, FoldSums
  <1> QED  BY <1>1, <1>3, <1>9

LEMMA ImageIsSum ==
    ASSUME CostsInv, NEW since
    PROVE  SampleUnitCost(since).image = SumOf(ImageIn, Sample(since))
  <1>1. PICK S : S = Sample(since)
    OBVIOUS
  <1>2. S \in SUBSET CostRow /\ IsFiniteSet(S)
    BY <1>1, FS_Subset DEF CostsInv, Sample
  <1> DEFINE Folds(g) == g = [s \in SUBSET S |-> IF s = {} THEN 0
                                ELSE AnyOf(s).image * FxIn(AnyOf(s)) + g[s \ {AnyOf(s)}]]
             h == CHOOSE g : Folds(g)
  <1>3. SampleUnitCost(since).image = h[S]
    BY <1>1 DEF SampleUnitCost, MapThenSumSet, MapThenFoldSet, AnyOf, Sample, FxIn
  <1>4. \A s \in SUBSET S : s # {} => ImageIn[AnyOf(s)] = AnyOf(s).image * FxIn(AnyOf(s))
    BY <1>2, AnyOfIsMember DEF ImageIn
  <1>5. \A g : Folds(g) <=> SumsUp(ImageIn, SUBSET S, g)
    BY <1>4 DEF SumsUp
  <1>6. \E g : Folds(g)
    BY <1>2, <1>5, FoldExists
  <1> HIDE DEF Folds
  <1>7. SumsUp(ImageIn, SUBSET S, h)
    BY <1>5, <1>6
  <1> HIDE DEF h
  <1>8. S \in SUBSET S
    OBVIOUS
  <1>9. SumOf(ImageIn, S) = h[S]
    BY <1>2, <1>7, <1>8, FoldSums
  <1> QED  BY <1>1, <1>3, <1>9

-----------------------------------------------------------------------------
LEMMA CostsAreNumbers ==
    ASSUME CostsInv, NEW e \in costs
    PROVE  /\ e \in CostRow /\ RowAddsUp(e)
           /\ Worth(e) \in Nat /\ WorthIn[e] = Worth(e)
           /\ VisionIn[e] = e.vision * FxIn(e) /\ VisionIn[e] \in Nat
           /\ ImageIn[e] = e.image * FxIn(e) /\ ImageIn[e] \in Nat
           /\ Worth(e) = VisionIn[e] + ImageIn[e]
  <1>1. e \in CostRow /\ RowAddsUp(e)
    BY DEF CostsInv
  <1>2. PICK image \in Nat, vision \in Nat, amount \in Nat :
            image = e.image /\ vision = e.vision /\ amount = e.amount /\ amount = image + vision
    BY <1>1 DEF CostRow, RowAddsUp
  <1>3. PICK fx \in Nat : fx = FxIn(e) /\ fx = IF e.fx = Missing THEN 1 ELSE e.fx
    BY <1>1 DEF CostRow, FxIn
  <1>4. Worth(e) = amount * fx
    <2>1. CASE e.fx = Missing
      <3>1. Worth(e) = amount
        BY <1>1, <1>2, <2>1 DEF Worth, RowAddsUp
      <3> QED  BY <1>3, <2>1, <3>1
    <2>2. CASE e.fx # Missing
      <3>1. e.base = amount * fx /\ fx = e.fx
        BY <1>1, <1>2, <1>3, <2>2 DEF RowAddsUp
      <3>2. e.base \in Nat
        BY <3>1
      <3> QED  BY <3>1, <3>2, CostNumbers DEF Worth
    <2> QED  BY <2>1, <2>2
  <1>5. (image + vision) * fx = vision * fx + image * fx
    OBVIOUS
  <1>6. vision * fx \in Nat /\ image * fx \in Nat /\ amount * fx \in Nat
    OBVIOUS
  <1>7. /\ WorthIn[e] = Worth(e) /\ VisionIn[e] = e.vision * FxIn(e)
        /\ ImageIn[e] = e.image * FxIn(e)
    BY <1>1 DEF WorthIn, VisionIn, ImageIn
  <1>8. VisionIn[e] = vision * fx /\ ImageIn[e] = image * fx /\ Worth(e) = (image + vision) * fx
    BY <1>2, <1>3, <1>4, <1>7
  <1> QED  BY <1>1, <1>4, <1>5, <1>6, <1>7, <1>8

\* The vision and the image of a sample add up to its cost.
LEMMA BreakdownHolds == CostsInv => BreakdownAddsUp
  <1> SUFFICES ASSUME CostsInv, NEW since \in 0..MaxDays
               PROVE  SampleUnitCost(since).vision + SampleUnitCost(since).image
                        = SampleUnitCost(since).total
    BY DEF BreakdownAddsUp
  <1>1. PICK S : S = Sample(since)
    OBVIOUS
  <1>2. S \in SUBSET CostRow /\ S \subseteq costs /\ IsFiniteSet(S)
    BY <1>1, FS_Subset DEF CostsInv, Sample
  <1>3. \A e \in S : VisionIn[e] \in Int /\ ImageIn[e] \in Int /\ WorthIn[e] = VisionIn[e] + ImageIn[e]
    BY <1>2, CostsAreNumbers
  <1>4. SumOf(WorthIn, S) = SumOf(VisionIn, S) + SumOf(ImageIn, S)
    BY <1>2, <1>3, SumPlus
  <1>5. SampleUnitCost(since).total = SumOf(WorthIn, S)
    <2>1. SampleUnitCost(since).total = Total(S)
      BY <1>1 DEF SampleUnitCost, Sample
    <2> QED  BY <1>2, <2>1, TotalOfCosts
  <1> QED  BY <1>1, <1>4, <1>5, VisionIsSum, ImageIsSum

\* The positive balances are what all customers hold, the others none.
Held(balances) == [u \in Customer |-> IF balances[u] > 0 THEN balances[u] ELSE 0]

LEMMA OutstandingIsHeld ==
    ASSUME NEW balances \in [Customer -> -1..1]
    PROVE  /\ SumOf(balances, {u \in Customer : balances[u] > 0}) = SumOf(Held(balances), Customer)
           /\ SumOf(Held(balances), Customer) \in Int
           /\ \A u \in Customer : Held(balances)[u] \in Int
  <1>1. PICK F : F = Held(balances)
    OBVIOUS
  <1>2. PICK S, T : S = {u \in Customer : balances[u] > 0} /\ T = {u \in Customer : ~(balances[u] > 0)}
    OBVIOUS
  <1>3. S \cup T = Customer /\ S \cap T = {} /\ IsFiniteSet(S) /\ IsFiniteSet(T) /\ IsFiniteSet(Customer)
    BY <1>2, FS_Subset, EconomicsConstants
  <1>4. /\ \A u \in S : F[u] = balances[u]
        /\ \A u \in T : F[u] = 0
        /\ \A u \in Customer : F[u] \in Int
    BY <1>1, <1>2 DEF Held
  <1>5. SumOf(balances, S) = SumOf(F, S)
    BY <1>3, <1>4, SumSame
  <1>6. SumOf(F, T) = 0
    <2>1. SumOf(F, T) \in Int
      BY <1>3, <1>4, SumOfAny
    <2>2. \A u \in T : F[u] \in Int /\ F[u] = 0 * F[u]
      BY <1>4
    <2>3. SumOf(F, T) = 0 * SumOf(F, T)
      BY <1>3, <2>2, SumTimes
    <2> QED  BY <2>1, <2>3
  <1>7. SumOf(F, S \cup T) = SumOf(F, S) + SumOf(F, T) /\ SumOf(F, S) \in Int
    <2>1. \A u \in S \cup T : F[u] \in Int
      BY <1>3, <1>4
    <2> QED  BY <1>3, <2>1, SumOfBoth, SumOfAny
  <1>8. SumOf(F, Customer) = SumOf(F, S) /\ SumOf(F, Customer) \in Int
    <2>1. PICK n \in Int : n = SumOf(F, S)
      BY <1>7
    <2>2. SumOf(F, S \cup T) = n
      BY <1>6, <1>7, <2>1
    <2> QED  BY <1>3, <2>1, <2>2
  <1> QED  BY <1>1, <1>2, <1>4, <1>5, <1>8

LiabilityOf(balances) == [u \in Customer |-> UserEconomics(u, balances).outstandingLiability]

LEMMA LiabilitiesAreSummed ==
    ASSUME NEW balances
    PROVE  MapThenSumSet(LAMBDA u : UserEconomics(u, balances).outstandingLiability, Customer)
            = SumOf(LiabilityOf(balances), Customer)
  <1>1. PICK F : F = LiabilityOf(balances)
    OBVIOUS
  <1> DEFINE Folds(g) ==
            g = [s \in SUBSET Customer |-> IF s = {} THEN 0
                    ELSE UserEconomics(AnyOf(s), balances).outstandingLiability + g[s \ {AnyOf(s)}]]
             h == CHOOSE g : Folds(g)
  <1>2. MapThenSumSet(LAMBDA u : UserEconomics(u, balances).outstandingLiability, Customer) = h[Customer]
    BY DEF MapThenSumSet, MapThenFoldSet, AnyOf
  <1>3. \A s \in SUBSET Customer : s # {} =>
            F[AnyOf(s)] = UserEconomics(AnyOf(s), balances).outstandingLiability
    BY <1>1, AnyOfIsMember DEF LiabilityOf
  <1>4. \A g : Folds(g) <=> SumsUp(F, SUBSET Customer, g)
    BY <1>3 DEF SumsUp
  <1>5. \E g : Folds(g)
    BY <1>4, FoldExists, EconomicsConstants
  <1> HIDE DEF Folds
  <1>6. SumsUp(F, SUBSET Customer, h)
    BY <1>4, <1>5
  <1> HIDE DEF h
  <1>7. Customer \in SUBSET Customer
    OBVIOUS
  <1>8. SumOf(F, Customer) = h[Customer]
    BY <1>6, <1>7, FoldSums, EconomicsConstants
  <1> QED  BY <1>1, <1>2, <1>8

\* The unit cost of the economics at any time is that of all samples.
LEMMA LiabilitiesHold == CostsInv => LiabilitiesAddUp
  <1> SUFFICES ASSUME CostsInv, NEW balances \in [Customer -> -1..1]
               PROVE  GlobalEconomics(0, balances).outstandingLiability =
                        MapThenSumSet(LAMBDA u : UserEconomics(u, balances).outstandingLiability, Customer)
    BY DEF LiabilitiesAddUp
  <1>1. PICK c \in Int : c = SampleUnitCost(0).total
    <2>1. PICK S : S = Sample(0)
      OBVIOUS
    <2>2. S \in SUBSET CostRow /\ S \subseteq costs /\ IsFiniteSet(S)
      BY <2>1, FS_Subset DEF CostsInv, Sample
    <2>3. \A e \in S : WorthIn[e] \in Int
      BY <2>2, CostsAreNumbers
    <2>4. SampleUnitCost(0).total = Total(S)
      BY <2>1 DEF SampleUnitCost, Sample
    <2>5. SumOf(WorthIn, S) \in Int
      BY <2>2, <2>3, SumOfAny
    <2> QED  BY <2>2, <2>4, <2>5, TotalOfCosts
  <1>2. PICK unit : unit = SampleUnitCost(0)
    OBVIOUS
  <1>3. GlobalEconomics(0, balances).unitCost = unit
    BY <1>2 DEF GlobalEconomics
  <1>4. PICK F, G : F = Held(balances) /\ G = LiabilityOf(balances)
    OBVIOUS
  <1>5. PICK n \in Int : n = SumOf(F, Customer) /\ n = SumOf(balances, {u \in Customer : balances[u] > 0})
    BY <1>4, OutstandingIsHeld
  <1>6. GlobalEconomics(0, balances).outstandingLiability = n * c
    <2>1. MapThenSumSet(LAMBDA u : balances[u], {u \in Customer : balances[u] > 0}) = n
      BY <1>5 DEF SumOf
    <2> QED  BY <1>1, <2>1 DEF GlobalEconomics
  <1>7. \A u \in Customer : F[u] \in Int /\ G[u] = c * F[u]
    <2> SUFFICES ASSUME NEW u \in Customer PROVE F[u] \in Int /\ G[u] = c * F[u]
      OBVIOUS
    <2>1. PICK held \in Int : held = F[u] /\ held = IF balances[u] > 0 THEN balances[u] ELSE 0
      BY <1>4, OutstandingIsHeld DEF Held
    <2>2. G[u] = held * c
      BY <1>1, <1>2, <1>3, <1>4, <2>1 DEF LiabilityOf, UserEconomics
    <2>3. held * c = c * held
      OBVIOUS
    <2> QED  BY <2>1, <2>2, <2>3
  <1>8. SumOf(G, Customer) = c * n
    <2>1. IsFiniteSet(Customer)
      BY EconomicsConstants
    <2>2. SumOf(G, Customer) = c * SumOf(F, Customer)
      BY <1>7, <2>1, SumTimes
    <2> QED  BY <1>5, <2>2
  <1>9. n * c = c * n
    OBVIOUS
  <1> QED  BY <1>4, <1>6, <1>8, <1>9, LiabilitiesAreSummed

-----------------------------------------------------------------------------
(* The costs of each customer, of each category, and of the shop.          *)

CostsOf(u) == {e \in costs : e.user = u}
TotalOf == [u \in Customer |-> CustomerSummary(u).grandTotal]

LEMMA CustomersAreSummed ==
    MapThenSumSet(LAMBDA u : CustomerSummary(u).grandTotal, Customer) = SumOf(TotalOf, Customer)
  <1>1. PICK F : F = TotalOf
    OBVIOUS
  <1> DEFINE Folds(g) ==
            g = [s \in SUBSET Customer |-> IF s = {} THEN 0
                    ELSE CustomerSummary(AnyOf(s)).grandTotal + g[s \ {AnyOf(s)}]]
             h == CHOOSE g : Folds(g)
  <1>2. MapThenSumSet(LAMBDA u : CustomerSummary(u).grandTotal, Customer) = h[Customer]
    BY DEF MapThenSumSet, MapThenFoldSet, AnyOf
  <1>3. \A s \in SUBSET Customer : s # {} => F[AnyOf(s)] = CustomerSummary(AnyOf(s)).grandTotal
    BY <1>1, AnyOfIsMember DEF TotalOf
  <1>4. \A g : Folds(g) <=> SumsUp(F, SUBSET Customer, g)
    BY <1>3 DEF SumsUp
  <1>5. \E g : Folds(g)
    BY <1>4, FoldExists, EconomicsConstants
  <1> HIDE DEF Folds
  <1>6. SumsUp(F, SUBSET Customer, h)
    BY <1>4, <1>5
  <1> HIDE DEF h
  <1>7. Customer \in SUBSET Customer
    OBVIOUS
  <1>8. SumOf(F, Customer) = h[Customer]
    BY <1>6, <1>7, FoldSums, EconomicsConstants
  <1> QED  BY <1>1, <1>2, <1>8

LEMMA PartsOfCosts ==
    ASSUME CostsInv, NEW S, S \subseteq costs
    PROVE  /\ S \in SUBSET CostRow /\ IsFiniteSet(S)
           /\ \A e \in S : WorthIn[e] \in Int
           /\ Total(S) = SumOf(WorthIn, S) /\ Total(S) \in Int
  <1>1. S \in SUBSET CostRow /\ IsFiniteSet(S)
    BY FS_Subset DEF CostsInv
  <1>2. \A e \in S : WorthIn[e] \in Int
    BY CostsAreNumbers
  <1> QED  BY <1>1, <1>2, TotalOfCosts, SumOfAny

\* A cost is a customer's, or the order's was a guest's.
LEMMA CustomersAddUp == CostsInv => SumOf(TotalOf, Customer) + Total(CostsOf(Missing)) = Total(costs)
  <1> SUFFICES ASSUME CostsInv
               PROVE  SumOf(TotalOf, Customer) + Total(CostsOf(Missing)) = Total(costs)
    OBVIOUS
  <1>9. PICK owned, rest : owned = {e \in costs : e.user # Missing} /\ rest = CostsOf(Missing)
    OBVIOUS
  <1>0. /\ owned = {e \in costs : e.user # Missing} /\ rest = CostsOf(Missing)
        /\ owned \cup rest = costs /\ owned \cap rest = {}
        /\ owned \subseteq costs /\ rest \subseteq costs
    BY <1>9 DEF CostsOf
  <1>1. PICK K : K = [e \in owned |-> e.user]
    OBVIOUS
  <1>2. \A e \in owned : K[e] \in Customer
    BY <1>0, <1>1 DEF CostsInv, CostRow
  <1>3. PICK F : F = TotalOf
    OBVIOUS
  <1>4. \A u \in Customer : F[u] = SumOf(WorthIn, {e \in owned : K[e] = u})
    <2> SUFFICES ASSUME NEW u \in Customer PROVE F[u] = SumOf(WorthIn, {e \in owned : K[e] = u})
      OBVIOUS
    <2>1. {e \in owned : K[e] = u} = CostsOf(u) /\ CostsOf(u) \subseteq costs
      BY <1>0, <1>1, EconomicsConstants DEF CostsOf
    <2>2. F[u] = Total(CostsOf(u))
      BY <1>3 DEF TotalOf, CustomerSummary, CostsOf
    <2> QED  BY <2>1, <2>2, PartsOfCosts
  <1>5. /\ IsFiniteSet(owned) /\ IsFiniteSet(rest) /\ IsFiniteSet(Customer)
        /\ \A e \in owned \cup rest : WorthIn[e] \in Int
    BY <1>0, EconomicsConstants, PartsOfCosts DEF CostsInv
  <1>6. SumOf(F, Customer) = SumOf(WorthIn, owned)
    <2>1. F = SumsOfGroups(WorthIn, owned, K, Customer)
      BY <1>3, <1>4 DEF SumsOfGroups, TotalOf
    <2> QED  BY <1>2, <1>5, <2>1, SumOfGroups
  <1>7. SumOf(WorthIn, owned \cup rest) = SumOf(WorthIn, owned) + SumOf(WorthIn, rest)
    BY <1>0, <1>5, SumOfBoth
  <1>8. Total(rest) = SumOf(WorthIn, rest) /\ Total(costs) = SumOf(WorthIn, costs)
    BY <1>0, PartsOfCosts
  <1> QED  BY <1>0, <1>3, <1>6, <1>7, <1>8

\* The shop's total has what was converted, and the rest is what was not.
LEMMA ConvertedAndNot ==
    CostsInv => Total(costs) = GlobalSummary(0) + Total({e \in costs : e.base = Missing})
  <1> SUFFICES ASSUME CostsInv
               PROVE  Total(costs) = GlobalSummary(0) + Total({e \in costs : e.base = Missing})
    OBVIOUS
  <1>1. PICK S, T : S = Converted(0) /\ T = {e \in costs : e.base = Missing}
    OBVIOUS
  <1>2. S \cup T = costs /\ S \cap T = {} /\ S \subseteq costs /\ T \subseteq costs
    <2>1. \A e \in costs : e.day >= 0
      BY CostsAreNumbers DEF CostRow
    <2> QED  BY <1>1, <2>1 DEF Converted
  <1>3. IsFiniteSet(S) /\ IsFiniteSet(T) /\ \A e \in S \cup T : WorthIn[e] \in Int
    BY <1>2, PartsOfCosts
  <1>4. SumOf(WorthIn, S \cup T) = SumOf(WorthIn, S) + SumOf(WorthIn, T)
    BY <1>2, <1>3, SumOfBoth
  <1>5. SumOf(BaseIn, S) = SumOf(WorthIn, S)
    <2>1. \A e \in S : BaseIn[e] = WorthIn[e]
      BY <1>1, <1>2, CostsAreNumbers DEF BaseIn, Worth, Converted
    <2> QED  BY <1>3, <2>1, SumSame
  <1>6. GlobalSummary(0) = SumOf(WorthIn, S)
    BY <1>1, <1>5, GlobalIsSum
  <1>7. Total(T) = SumOf(WorthIn, T) /\ Total(costs) = SumOf(WorthIn, costs)
    BY <1>2, PartsOfCosts
  <1> QED  BY <1>1, <1>2, <1>4, <1>6, <1>7

\* Every cost is of one category.
LEMMA CategoriesAddUp == CostsInv => SumOf(ByCategory(costs), Category) = Total(costs)
  <1> SUFFICES ASSUME CostsInv PROVE SumOf(ByCategory(costs), Category) = Total(costs)
    OBVIOUS
  <1>1. PICK K : K = [e \in costs |-> IF e.cost = Production THEN "pod_production" ELSE "image_generation"]
    OBVIOUS
  <1>2. \A e \in costs : K[e] \in Category
    BY <1>1 DEF Category
  <1>3. PICK F : F = ByCategory(costs)
    OBVIOUS
  <1>4. \A c \in Category : F[c] = SumOf(WorthIn, {e \in costs : K[e] = c})
    <2> SUFFICES ASSUME NEW c \in Category PROVE F[c] = SumOf(WorthIn, {e \in costs : K[e] = c})
      OBVIOUS
    <2>1. {e \in costs : K[e] = c} = OfCategory(costs, c) /\ OfCategory(costs, c) \subseteq costs
      BY <1>1 DEF OfCategory, Category
    <2>2. F[c] = Total(OfCategory(costs, c))
      BY <1>3 DEF ByCategory
    <2> QED  BY <2>1, <2>2, PartsOfCosts
  <1>5. IsFiniteSet(costs) /\ \A e \in costs : WorthIn[e] \in Int
    BY PartsOfCosts DEF CostsInv
  <1>6. IsFiniteSet(Category)
    <2>1. Category = {"pod_production"} \cup {"image_generation"}
      BY DEF Category
    <2> QED  BY <2>1, FS_Singleton, FS_Union
  <1>7. SumOf(F, Category) = SumOf(WorthIn, costs)
    <2>1. F = SumsOfGroups(WorthIn, costs, K, Category)
      BY <1>3, <1>4 DEF SumsOfGroups, ByCategory
    <2> QED  BY <1>2, <1>5, <1>6, <2>1, SumOfGroups
  <1> QED  BY <1>3, <1>7, PartsOfCosts

LEMMA SummariesHold == CostsInv => SummariesAddUp
  <1> SUFFICES ASSUME CostsInv PROVE SummariesAddUp
    OBVIOUS
  <1>1. MapThenSumSet(LAMBDA u : CustomerSummary(u).grandTotal, Customer)
                + Total({e \in costs : e.user = Missing})
            = GlobalSummary(0) + Total({e \in costs : e.base = Missing})
    BY CustomersAreSummed, CustomersAddUp, ConvertedAndNot DEF CostsOf
  <1>2. ListForOrder(costs).grandTotal = Total(costs) /\ ListForOrder(costs).summary = ByCategory(costs)
    BY DEF ListForOrder
  <1>3. MapThenSumSet(LAMBDA c : ListForOrder(costs).summary[c], Category)
            = SumOf(ByCategory(costs), Category)
    BY <1>2 DEF SumOf
  <1> QED  BY <1>1, <1>2, <1>3, CategoriesAddUp DEF SummariesAddUp

\* The figures of the panel agree (ExpensesService's summaries,
\* CreditEconomicsService): the parts of the unit cost make the whole, and the
\* customers' liabilities the shop's, and the customers' costs with those of
\* guests the shop's with what was not converted.
THEOREM FiguresAgree == EconomicsSpec => []ReadersAgree
  <1>1. CostsInv => ReadersAgree
    BY BreakdownHolds, LiabilitiesHold, SummariesHold DEF ReadersAgree
  <1> QED  BY <1>1, CostsInvHolds, PTL

-----------------------------------------------------------------------------
(* The cart. *)

\* A line's id tells it, among the rows and among those that a handler read.
IdsTell(S) == \A l, m \in S : l.id = m.id => l = m

CartJobOK(j) ==
    /\ IsFiniteSet(j.seen) /\ IdsTell(j.seen)
    /\ j.op = "add" => j.rest # <<>>
    /\ j.op = "add" /\ j.at = "write" =>
         j.seen = {} \/ \E l \in j.seen : j.seen = {l} /\ l.product = Head(j.rest)

CartTypeOK ==
    /\ hasCart \in BOOLEAN /\ additionsMet \in BOOLEAN
    /\ lines \subseteq CartLine /\ IsFiniteSet(lines) /\ IdsTell(lines)
    /\ lineIds \in 0..MaxLines
    /\ asked \in [Goods -> Nat]
    /\ job \in [Proc -> CartJob \cup {Idle}]
    /\ \A p \in Proc : job[p] # Idle => CartJobOK(job[p])

\* Each id has its product, and a peak that its line never exceeded: neither the
\* row nor what any handler read of it.  The peaks of a product's lines, also of
\* those that are gone, are what was asked for.
HoldsUp(l, owner, peak) ==
    l.id \in DOMAIN owner /\ owner[l.id] = l.product /\ l.quantity \in 1..peak[l.id]

IdsOf(owner, x) == {i \in DOMAIN owner : owner[i] = x}

Peaks(owner, peak) ==
    /\ owner \in [1..lineIds -> Goods] /\ peak \in [1..lineIds -> Nat]
    /\ \A l \in lines : HoldsUp(l, owner, peak)
    /\ \A p \in Proc : job[p] # Idle => \A l \in job[p].seen : HoldsUp(l, owner, peak)
    /\ \A x \in Goods : SumOf(peak, IdsOf(owner, x)) <= asked[x]

PeakInv == \E owner, peak : Peaks(owner, peak)

\* Until two additions meet there is one at most, and what it read to have no
\* line still has none.
AdditionsOK ==
    ~additionsMet =>
        /\ \A p, q \in Proc : Adds(job[p]) /\ Adds(job[q]) => p = q
        /\ \A l, m \in lines : l.product = m.product => l = m
        /\ \A p \in Proc : Adds(job[p]) /\ job[p].at = "write" /\ job[p].seen = {} =>
                \A l \in lines : l.product # Head(job[p].rest)

CartInv == CartTypeOK /\ PeakInv /\ AdditionsOK

-----------------------------------------------------------------------------
LEMMA QuantitiesAreSummed ==
    ASSUME NEW S \in SUBSET CartLine, IsFiniteSet(S),
           NEW F, F = [l \in CartLine |-> l.quantity]
    PROVE  MapThenSumSet(LAMBDA l : l.quantity, S) = SumOf(F, S)
  <1> DEFINE Folds(g) == g = [s \in SUBSET S |->
                            IF s = {} THEN 0 ELSE AnyOf(s).quantity + g[s \ {AnyOf(s)}]]
             h == CHOOSE g : Folds(g)
  <1>1. MapThenSumSet(LAMBDA l : l.quantity, S) = h[S]
    BY DEF MapThenSumSet, MapThenFoldSet, AnyOf
  <1>2. \A s \in SUBSET S : s # {} => F[AnyOf(s)] = AnyOf(s).quantity
    BY AnyOfIsMember
  <1>3. \A g : Folds(g) <=> SumsUp(F, SUBSET S, g)
    BY <1>2 DEF SumsUp
  <1>4. \E g : Folds(g)
    BY <1>3, FoldExists
  <1> HIDE DEF Folds
  <1>5. SumsUp(F, SUBSET S, h)
    BY <1>3, <1>4
  <1> HIDE DEF h
  <1>6. S \in SUBSET S
    OBVIOUS
  <1>7. SumOf(F, S) = h[S]
    BY <1>5, <1>6, FoldSums
  <1> QED  BY <1>1, <1>7

\* The quantities of a product's lines are at most their peaks.
LEMMA PeaksBoundLines == CartTypeOK /\ PeakInv => NeverMoreThanAsked
  <1> SUFFICES ASSUME CartTypeOK, NEW owner, NEW peak, Peaks(owner, peak)
               PROVE  NeverMoreThanAsked
    BY DEF PeakInv
  <1>1. \A l \in lines : /\ l \in CartLine /\ l.id \in 1..lineIds /\ owner[l.id] = l.product
                         /\ l.quantity \in Nat /\ l.quantity >= 1 /\ l.quantity <= peak[l.id]
    BY DEF CartTypeOK, Peaks, HoldsUp
  <1>2. ASSUME NEW x \in Goods
        PROVE  MapThenSumSet(LAMBDA l : l.quantity, {l \in lines : l.product = x}) <= asked[x]
    <2>1. PICK S, U : S = {l \in lines : l.product = x} /\ U = IdsOf(owner, x)
      OBVIOUS
    <2>2. PICK F, K : F = [l \in CartLine |-> l.quantity] /\ K = [l \in CartLine |-> l.id]
      OBVIOUS
    <2>3. PICK G : G = SumsOfGroups(F, S, K, U)
      OBVIOUS
    <2>4. S \in SUBSET CartLine /\ IsFiniteSet(S) /\ \A l \in S : F[l] \in Int /\ K[l] = l.id /\ K[l] \in U
      BY <1>1, <2>1, <2>2, FS_Subset DEF CartTypeOK, IdsOf, Peaks
    <2>5. U \subseteq 1..lineIds /\ IsFiniteSet(U)
      <3>1. U \subseteq 1..lineIds /\ IsFiniteSet(1..lineIds)
        BY <2>1, FS_Interval DEF IdsOf, Peaks, CartTypeOK
      <3> QED  BY <3>1, FS_Subset
    <2>6. SumOf(G, U) = SumOf(F, S)
      BY <2>3, <2>4, <2>5, SumOfGroups
    <2>7. ASSUME NEW i \in U PROVE G[i] \in Int /\ peak[i] \in Int /\ G[i] <= peak[i]
      <3>1. PICK P : P = {l \in S : K[l] = i}
        OBVIOUS
      <3>2. G[i] = SumOf(F, P) /\ peak[i] \in Nat
        BY <2>3, <2>5, <3>1 DEF SumsOfGroups, Peaks
      <3>3. CASE P = {}
        BY <3>2, <3>3, SumOfNone
      <3>4. CASE P # {}
        <4>1. PICK l \in P : TRUE
          BY <3>4
        <4>2. l \in S /\ l \in lines /\ l.id = i /\ P = {l}
          BY <2>1, <2>4, <3>1 DEF CartTypeOK, IdsTell
        <4>3. IsFiniteSet(P) /\ \A m \in P : F[m] \in Int
          BY <2>4, <4>2, FS_Singleton
        <4>4. SumOf(F, P) = F[l] + SumOf(F, P \ {l})
          BY <4>2, <4>3, SumOfAny
        <4>5. PICK n \in Nat : n = l.quantity /\ n <= peak[i]
          BY <1>1, <4>2
        <4>6. P \ {l} = {} /\ F[l] = n /\ SumOf(F, {}) = 0
          BY <1>1, <2>2, <4>2, <4>5, SumOfNone
        <4>7. G[i] = n + 0
          BY <3>2, <4>4, <4>6
        <4> QED  BY <3>2, <4>5, <4>7
      <3> QED  BY <3>3, <3>4
    <2>8. SumOf(G, U) <= SumOf(peak, U)
      BY <2>5, <2>7, SumAtMost
    <2>9. SumOf(peak, U) <= asked[x] /\ SumOf(peak, U) \in Int /\ SumOf(G, U) \in Int /\ asked[x] \in Nat
      BY <2>1, <2>5, <2>7, SumOfAny DEF Peaks, CartTypeOK
    <2>10. MapThenSumSet(LAMBDA l : l.quantity, S) = SumOf(F, S)
      BY <2>2, <2>4, QuantitiesAreSummed
    <2> QED  BY <2>1, <2>6, <2>8, <2>9, <2>10
  <1> QED  BY <1>1, <1>2 DEF NeverMoreThanAsked

-----------------------------------------------------------------------------
LEMMA AtWorkOnCart ==
    ASSUME CartTypeOK, NEW p \in Proc, job[p] # Idle
    PROVE  job[p] \in CartJob /\ CartJobOK(job[p])
  BY DEF CartTypeOK

\* A handler goes on: what the peaks must be made of.
PeaksGrow(owner, peak, owner2, peak2) ==
    /\ owner2 \in [1..lineIds' -> Goods] /\ peak2 \in [1..lineIds' -> Nat]
    /\ lineIds' \in Nat /\ lineIds <= lineIds'
    /\ \A i \in 1..lineIds : owner2[i] = owner[i] /\ peak[i] <= peak2[i]
    /\ \A l \in lines' : l \in lines \/ HoldsUp(l, owner2, peak2)
    /\ \A x \in Goods : SumOf(peak2, IdsOf(owner2, x)) <= asked'[x]

LEMMA PeaksStep ==
    ASSUME CartTypeOK, NEW owner, NEW peak, Peaks(owner, peak), NEW p \in Proc, NEW j,
           job' = [job EXCEPT ![p] = j],
           j # Idle => \A l \in j.seen : l \in lines \/ (job[p] # Idle /\ l \in job[p].seen),
           NEW owner2, NEW peak2, PeaksGrow(owner, peak, owner2, peak2)
    PROVE  PeakInv'
  <1>1. job'[p] = j /\ \A q \in Proc \ {p} : job'[q] = job[q]
    BY DEF CartTypeOK
  <1>0. /\ owner2 \in [1..lineIds' -> Goods] /\ peak2 \in [1..lineIds' -> Nat]
        /\ lineIds' \in Nat /\ lineIds <= lineIds'
        /\ \A i \in 1..lineIds : owner2[i] = owner[i] /\ peak[i] <= peak2[i]
        /\ \A l \in lines' : l \in lines \/ HoldsUp(l, owner2, peak2)
        /\ \A x \in Goods : SumOf(peak2, IdsOf(owner2, x)) <= asked'[x]
    BY DEF PeaksGrow
  <1>2. ASSUME NEW l, HoldsUp(l, owner, peak) PROVE HoldsUp(l, owner2, peak2)
    <2>1. l.id \in 1..lineIds /\ owner[l.id] = l.product /\ l.quantity \in 1..peak[l.id]
      BY <1>2 DEF HoldsUp, Peaks
    <2>2. peak[l.id] \in Nat /\ lineIds \in Nat /\ l.id \in 1..lineIds'
      BY <1>0, <2>1 DEF Peaks, CartTypeOK
    <2>3. owner2[l.id] = l.product /\ peak[l.id] <= peak2[l.id] /\ peak2[l.id] \in Nat
      BY <1>0, <2>1, <2>2
    <2> QED  BY <1>0, <2>1, <2>2, <2>3 DEF HoldsUp
  <1>3. \A l \in lines : HoldsUp(l, owner2, peak2)
    BY <1>2 DEF Peaks
  <1>4. \A q \in Proc : job[q] # Idle => \A l \in job[q].seen : HoldsUp(l, owner2, peak2)
    BY <1>2 DEF Peaks
  <1>5. \A q \in Proc : job'[q] # Idle => \A l \in job'[q].seen : HoldsUp(l, owner2, peak2)
    BY <1>1, <1>3, <1>4
  <1>6. \A l \in lines' : HoldsUp(l, owner2, peak2)
    BY <1>0, <1>3
  <1>7. Peaks(owner2, peak2)'
    BY <1>0, <1>5, <1>6 DEF Peaks
  <1> QED  BY <1>7 DEF PeakInv

\* Nothing is added.
LEMMA PeaksStay ==
    ASSUME CartTypeOK, PeakInv, NEW p \in Proc, NEW j,
           job' = [job EXCEPT ![p] = j],
           j # Idle => \A l \in j.seen : l \in lines \/ (job[p] # Idle /\ l \in job[p].seen),
           lines' \subseteq lines, UNCHANGED <<lineIds, asked>>
    PROVE  PeakInv'
  <1>1. PICK owner, peak : Peaks(owner, peak)
    BY DEF PeakInv
  <1>2. lineIds \in Nat /\ lineIds' = lineIds /\ \A i \in 1..lineIds : peak[i] \in Nat /\ peak[i] <= peak[i]
    BY <1>1 DEF CartTypeOK, Peaks
  <1>3. /\ owner \in [1..lineIds' -> Goods] /\ peak \in [1..lineIds' -> Nat]
        /\ \A x \in Goods : SumOf(peak, IdsOf(owner, x)) <= asked'[x]
    BY <1>1, <1>2 DEF Peaks
  <1>4. \A l \in lines' : l \in lines
    OBVIOUS
  <1>5. lineIds' \in Nat /\ lineIds <= lineIds'
    BY <1>2
  <1>6. PeaksGrow(owner, peak, owner, peak)
    BY <1>2, <1>3, <1>4, <1>5 DEF PeaksGrow
  <1> QED  BY <1>1, <1>6, PeaksStep

\* A line is inserted.
LEMMA PeaksOfInserted ==
    ASSUME CartTypeOK, PeakInv, NEW p \in Proc, NEW j,
           job' = [job EXCEPT ![p] = j],
           j # Idle => \A l \in j.seen : l \in lines \/ (job[p] # Idle /\ l \in job[p].seen),
           NEW x \in Goods, lineIds' = lineIds + 1,
           lines' = lines \cup {[id |-> lineIds', product |-> x, quantity |-> 1]},
           asked' = [asked EXCEPT ![x] = @ + 1]
    PROVE  PeakInv'
  <1>1. PICK owner, peak : Peaks(owner, peak)
    BY DEF PeakInv
  <1>2. PICK n \in Nat : n = lineIds + 1 /\ n = lineIds' /\ lineIds \in Nat /\ n \notin 1..lineIds
                         /\ 1..n = (1..lineIds) \cup {n}
    BY DEF CartTypeOK
  <1>3. owner \in [1..lineIds -> Goods] /\ peak \in [1..lineIds -> Nat]
    BY <1>1 DEF Peaks
  <1>4. PICK owner2 : owner2 = [i \in 1..n |-> IF i = n THEN x ELSE owner[i]]
    OBVIOUS
  <1>5. PICK peak2 : peak2 = [i \in 1..n |-> IF i = n THEN 1 ELSE peak[i]]
    OBVIOUS
  <1>6. owner2 \in [1..lineIds' -> Goods] /\ peak2 \in [1..lineIds' -> Nat]
    BY <1>2, <1>3, <1>4, <1>5
  <1>7. \A i \in 1..lineIds : owner2[i] = owner[i] /\ peak2[i] = peak[i] /\ peak[i] <= peak2[i]
    BY <1>2, <1>3, <1>4, <1>5
  <1>8. owner2[n] = x /\ peak2[n] = 1 /\ n \in 1..n
    BY <1>2, <1>4, <1>5
  <1>9. ASSUME NEW y \in Goods PROVE SumOf(peak2, IdsOf(owner2, y)) <= asked'[y]
    <2>1. PICK S : S = IdsOf(owner, y)
      OBVIOUS
    <2>2. S \subseteq 1..lineIds /\ IsFiniteSet(S)
      <3>1. S \subseteq 1..lineIds /\ IsFiniteSet(1..lineIds)
        BY <1>2, <1>3, <2>1, FS_Interval DEF IdsOf
      <3> QED  BY <3>1, FS_Subset
    <2>3. \A i \in S : peak2[i] = peak[i] /\ peak2[i] \in Int
      BY <1>3, <1>7, <2>2
    <2>4. PICK sum \in Int : sum = SumOf(peak2, S) /\ sum <= asked[y]
      <3>1. SumOf(peak2, S) = SumOf(peak, S) /\ SumOf(peak2, S) \in Int
        BY <2>2, <2>3, SumSame, SumOfAny
      <3> QED  BY <1>1, <2>1, <3>1 DEF Peaks
    <2>5. asked[y] \in Nat /\ asked'[y] = IF y = x THEN asked[y] + 1 ELSE asked[y]
      BY DEF CartTypeOK
    <2>6. IdsOf(owner2, y) = IF y = x THEN S \cup {n} ELSE S
      BY <1>2, <1>3, <1>4, <1>7, <1>8, <2>1 DEF IdsOf
    <2>7. CASE y = x
      <3>1. n \notin S /\ peak2[n] \in Int
        BY <1>2, <1>8, <2>2
      <3>2. SumOf(peak2, S \cup {n}) = SumOf(peak2, S) + peak2[n]
        BY <2>2, <2>3, <3>1, SumOfNew
      <3> QED  BY <1>8, <2>4, <2>5, <2>6, <2>7, <3>2
    <2>8. CASE y # x
      BY <2>4, <2>5, <2>6, <2>8
    <2> QED  BY <2>7, <2>8
  <1>10. \A l \in lines' : l \in lines \/ HoldsUp(l, owner2, peak2)
    <2> SUFFICES ASSUME NEW l, l = [id |-> n, product |-> x, quantity |-> 1] PROVE HoldsUp(l, owner2, peak2)
      BY <1>2
    <2>1. l.id = n /\ l.product = x /\ l.quantity = 1 /\ DOMAIN owner2 = 1..n
      BY <1>4
    <2> QED  BY <1>8, <2>1 DEF HoldsUp
  <1>11. lineIds' \in Nat /\ lineIds <= lineIds'
    BY <1>2
  <1>12. \A i \in 1..lineIds : owner2[i] = owner[i] /\ peak[i] <= peak2[i]
    BY <1>7
  <1>13. PeaksGrow(owner, peak, owner2, peak2)
    BY <1>6, <1>9, <1>10, <1>11, <1>12 DEF PeaksGrow
  <1> QED  BY <1>1, <1>13, PeaksStep

\* Lines that a handler read get up to d more each.
LEMMA PeaksOfChanged ==
    ASSUME CartTypeOK, PeakInv, NEW p \in Proc, job[p] # Idle, NEW j,
           job' = [job EXCEPT ![p] = j],
           j # Idle => \A l \in j.seen : l \in lines \/ l \in job[p].seen,
           NEW d \in Nat, UNCHANGED lineIds,
           \A m \in lines' : m \in lines \/ \E l \in job[p].seen :
                m.id = l.id /\ m.product = l.product /\ m.quantity \in 1..(l.quantity + d),
           \A x \in Goods : asked'[x] = asked[x] + d * Cardinality({l \in job[p].seen : l.product = x})
    PROVE  PeakInv'
  <1>1. PICK owner, peak : Peaks(owner, peak)
    BY DEF PeakInv
  <1>2. owner \in [1..lineIds -> Goods] /\ peak \in [1..lineIds -> Nat] /\ lineIds \in Nat /\ lineIds' = lineIds
    BY <1>1 DEF Peaks, CartTypeOK
  <1>3. PICK seen : seen = job[p].seen
    OBVIOUS
  <1>4. IsFiniteSet(seen) /\ seen \subseteq CartLine
    BY <1>3, AtWorkOnCart DEF CartJobOK, CartJob
  <1>5. \A l \in seen : HoldsUp(l, owner, peak)
    BY <1>1, <1>3 DEF Peaks
  <1>6. PICK T, more, peak2 : /\ T = {l.id : l \in seen}
                              /\ more = [i \in 1..lineIds |-> IF i \in T THEN d ELSE 0]
                              /\ peak2 = [i \in 1..lineIds |-> peak[i] + more[i]]
    OBVIOUS
  <1>7. \A i \in 1..lineIds : /\ more[i] = IF i \in T THEN d ELSE 0
                              /\ peak2[i] = peak[i] + more[i] /\ peak[i] \in Nat /\ more[i] \in Nat
                              /\ peak2[i] \in Nat /\ peak[i] <= peak2[i]
    BY <1>2, <1>6
  <1>8. peak2 \in [1..lineIds' -> Nat] /\ owner \in [1..lineIds' -> Goods]
    BY <1>2, <1>6, <1>7
  <1>9. \A m \in lines' : m \in lines \/ HoldsUp(m, owner, peak2)
    <2> SUFFICES ASSUME NEW m \in lines', NEW l \in seen,
                        m.id = l.id, m.product = l.product, m.quantity \in 1..(l.quantity + d)
                 PROVE  HoldsUp(m, owner, peak2)
      BY <1>3
    <2>1. l.id \in 1..lineIds /\ owner[l.id] = l.product /\ l.quantity \in 1..peak[l.id]
      BY <1>2, <1>5 DEF HoldsUp
    <2>2. peak2[l.id] = peak[l.id] + d /\ peak[l.id] \in Nat
      BY <1>6, <1>7, <2>1
    <2>3. m.quantity \in 1..peak2[l.id]
      BY <2>1, <2>2
    <2> QED  BY <1>2, <2>1, <2>3 DEF HoldsUp
  <1>10. ASSUME NEW x \in Goods PROVE SumOf(peak2, IdsOf(owner, x)) <= asked'[x]
    <2>1. PICK S, P : S = IdsOf(owner, x) /\ P = {l \in seen : l.product = x}
      OBVIOUS
    <2>2. S \subseteq 1..lineIds /\ IsFiniteSet(S)
      <3>1. S \subseteq 1..lineIds /\ IsFiniteSet(1..lineIds)
        BY <1>2, <2>1, FS_Interval DEF IdsOf
      <3> QED  BY <3>1, FS_Subset
    <2>3. \A i \in S : peak[i] \in Int
      BY <1>7, <2>2
    <2>4. Raised(peak, peak2, S, T, d)
      BY <1>7, <2>2 DEF Raised
    <2>5. SumOf(peak2, S) = SumOf(peak, S) + d * Cardinality(S \cap T)
      BY <2>2, <2>4, SumOfRaised
    <2>6. Cardinality(S \cap T) \in Nat /\ Cardinality(P) \in Nat /\ Cardinality(S \cap T) <= Cardinality(P)
      <3>1. PICK K : K = [l \in CartLine |-> l.id]
        OBVIOUS
      <3>2. IsFiniteSet(P)
        BY <1>4, <2>1, FS_Subset
      <3>3. PICK I : I = {K[l] : l \in P}
        OBVIOUS
      <3>4. IsFiniteSet(I) /\ Cardinality(I) <= Cardinality(P)
        BY <3>2, <3>3, ImageIsFinite
      <3>5. S \cap T \subseteq I
        <4> SUFFICES ASSUME NEW i \in S \cap T PROVE i \in I
          OBVIOUS
        <4>1. PICK l \in seen : l.id = i
          BY <1>6
        <4>2. owner[i] = x /\ owner[i] = l.product
          BY <1>5, <2>1, <4>1 DEF IdsOf, HoldsUp
        <4> QED  BY <1>4, <2>1, <3>1, <3>3, <4>1, <4>2
      <3>6. Cardinality(S \cap T) <= Cardinality(I) /\ Cardinality(S \cap T) \in Nat /\ Cardinality(I) \in Nat
        BY <3>4, <3>5, NoMore
      <3> QED  BY <3>2, <3>4, <3>6, FS_CardinalityType
    <2>7. SumOf(peak, S) \in Int /\ SumOf(peak, S) <= asked[x] /\ asked[x] \in Nat
      BY <1>1, <2>1, <2>2, <2>3, SumOfAny DEF Peaks, CartTypeOK
    <2>8. asked'[x] = asked[x] + d * Cardinality(P)
      BY <1>3, <2>1
    <2>9. PICK a \in Nat, b \in Nat : a = Cardinality(S \cap T) /\ b = Cardinality(P) /\ a <= b
      BY <2>6
    <2>10. d * a <= d * b /\ d * a \in Nat /\ d * b \in Nat
      <3>1. PICK c \in Nat : b = a + c
        <4>1. b - a \in Nat /\ b = a + (b - a)
          BY <2>9
        <4> QED  BY <4>1
      <3>2. d * (a + c) = d * a + d * c /\ d * a \in Nat /\ d * c \in Nat
        OBVIOUS
      <3> QED  BY <3>1, <3>2
    <2>11. PICK s \in Int, e \in Nat, f \in Nat : s = SumOf(peak, S) /\ e = d * a /\ f = d * b
      BY <2>7, <2>10
    <2>12. SumOf(peak2, S) = s + e /\ asked'[x] = asked[x] + f /\ e <= f /\ s <= asked[x]
      BY <2>5, <2>7, <2>8, <2>9, <2>10, <2>11
    <2> QED  BY <2>1, <2>7, <2>12
  <1>11. lineIds' \in Nat /\ lineIds <= lineIds'
    BY <1>2
  <1>12. \A i \in 1..lineIds : owner[i] = owner[i] /\ peak[i] <= peak2[i]
    BY <1>7
  <1>13. PeaksGrow(owner, peak, owner, peak2)
    BY <1>8, <1>9, <1>10, <1>11, <1>12 DEF PeaksGrow
  <1> QED  BY <1>1, <1>13, PeaksStep

-----------------------------------------------------------------------------
\* A handler that does not insert: every line has its product still.
LEMMA AdditionsStay ==
    ASSUME CartTypeOK, AdditionsOK, NEW p \in Proc, NEW j, job' = [job EXCEPT ![p] = j],
           IdsTell(lines'), \A m \in lines' : \E l \in lines : m.id = l.id /\ m.product = l.product,
           additionsMet => additionsMet',
           ~additionsMet' /\ Adds(j) => \A q \in Proc \ {p} : ~Adds(job[q]),
           ~additionsMet' /\ Adds(j) /\ j.at = "write" /\ j.seen = {} =>
                \A l \in lines : l.product # Head(j.rest)
    PROVE  AdditionsOK'
  <1>1. job'[p] = j /\ \A q \in Proc \ {p} : job'[q] = job[q]
    BY DEF CartTypeOK
  <1> SUFFICES ASSUME ~additionsMet'
               PROVE  /\ \A q, r \in Proc : Adds(job'[q]) /\ Adds(job'[r]) => q = r
                      /\ \A l, m \in lines' : l.product = m.product => l = m
                      /\ \A q \in Proc : Adds(job'[q]) /\ job'[q].at = "write" /\ job'[q].seen = {} =>
                            \A l \in lines' : l.product # Head(job'[q].rest)
    BY DEF AdditionsOK, Adds
  <1>2. /\ \A q, r \in Proc : Adds(job[q]) /\ Adds(job[r]) => q = r
        /\ \A l, m \in lines : l.product = m.product => l = m
        /\ \A q \in Proc : Adds(job[q]) /\ job[q].at = "write" /\ job[q].seen = {} =>
                \A l \in lines : l.product # Head(job[q].rest)
    BY DEF AdditionsOK
  <1>3. \A q, r \in Proc : Adds(job'[q]) /\ Adds(job'[r]) => q = r
    BY <1>1, <1>2
  <1>4. ASSUME NEW l \in lines', NEW m \in lines', l.product = m.product PROVE l = m
    <2>1. PICK l0 \in lines : l.id = l0.id /\ l.product = l0.product
      OBVIOUS
    <2>2. PICK m0 \in lines : m.id = m0.id /\ m.product = m0.product
      OBVIOUS
    <2>3. l.id = m.id
      BY <1>2, <1>4, <2>1, <2>2
    <2> QED  BY <2>3 DEF IdsTell
  <1>5. ASSUME NEW q \in Proc, Adds(job'[q]), job'[q].at = "write", job'[q].seen = {}, NEW l \in lines'
        PROVE  l.product # Head(job'[q].rest)
    <2>1. PICK l0 \in lines : l.product = l0.product
      OBVIOUS
    <2>2. l0.product # Head(job'[q].rest)
      BY <1>1, <1>2, <1>5
    <2> QED  BY <2>1, <2>2
  <1> QED  BY <1>3, <1>4, <1>5

LEMMA TypeStep ==
    ASSUME CartTypeOK, NEW p \in Proc, NEW j \in CartJob \cup {Idle}, job' = [job EXCEPT ![p] = j],
           j # Idle => CartJobOK(j), hasCart' \in BOOLEAN, additionsMet' \in BOOLEAN,
           lines' \subseteq CartLine, IsFiniteSet(lines'), IdsTell(lines'),
           lineIds' \in 0..MaxLines, asked' \in [Goods -> Nat]
    PROVE  CartTypeOK'
  <1>1. job'[p] = j /\ \A q \in Proc \ {p} : job'[q] = job[q]
    BY DEF CartTypeOK
  <1>2. \A q \in Proc : job'[q] # Idle => CartJobOK(job'[q])
    BY <1>1 DEF CartTypeOK
  <1>3. \A q \in Proc : CartJobOK(job[q])' <=> CartJobOK(job'[q])
    BY DEF CartJobOK, IdsTell
  <1>4. job' \in [Proc -> CartJob \cup {Idle}]
    BY DEF CartTypeOK
  <1>5. IdsTell(lines)' <=> IdsTell(lines')
    BY DEF IdsTell
  <1> QED  BY <1>2, <1>3, <1>4, <1>5 DEF CartTypeOK

\* What does not change a line and adds nothing.
LEMMA CartStays ==
    ASSUME CartInv, NEW p \in Proc, NEW j \in CartJob \cup {Idle}, job' = [job EXCEPT ![p] = j],
           j # Idle => CartJobOK(j) /\ \A l \in j.seen : l \in lines \/ (job[p] # Idle /\ l \in job[p].seen),
           hasCart' \in BOOLEAN, additionsMet' \in BOOLEAN, lines' \subseteq lines,
           UNCHANGED <<lineIds, asked>>, additionsMet => additionsMet',
           ~additionsMet' /\ Adds(j) => \A q \in Proc \ {p} : ~Adds(job[q]),
           ~additionsMet' /\ Adds(j) /\ j.at = "write" /\ j.seen = {} =>
                \A l \in lines : l.product # Head(j.rest)
    PROVE  CartInv'
  <1>1. lines' \subseteq CartLine /\ IsFiniteSet(lines') /\ IdsTell(lines')
    BY FS_Subset DEF CartInv, CartTypeOK, IdsTell
  <1>2. CartTypeOK'
    BY <1>1, TypeStep DEF CartInv, CartTypeOK
  <1>3. PeakInv'
    BY PeaksStay DEF CartInv
  <1>4. \A m \in lines' : \E l \in lines : m.id = l.id /\ m.product = l.product
    OBVIOUS
  <1>5. AdditionsOK'
    BY <1>1, <1>4, AdditionsStay DEF CartInv
  <1> QED  BY <1>2, <1>3, <1>5 DEF CartInv

Starting(j) == j \in CartJob /\ j # Idle /\ CartJobOK(j) /\ j.seen = {} /\ j.at = "cart"

LEMMA RequestStarts ==
    ASSUME NEW op \in {"add", "quantity", "remove", "clear"}, NEW rest \in Seq(Goods),
           NEW v \in CartVariant \cup {0}, NEW d \in Delta \cup {0}, op # "add" \/ rest # <<>>
    PROVE  Starting(Request(op, rest, v, d))
  <1>1. PICK j : j = Request(op, rest, v, d)
    OBVIOUS
  <1>2. j \in CartJob /\ j.seen = {} /\ j.at = "cart" /\ j.op = op /\ j.rest = rest
    BY <1>1 DEF Request, CartJob
  <1>3. j # Idle
    BY <1>2 DEF Idle
  <1>4. CartJobOK(j)
    BY <1>2, FS_EmptySet DEF CartJobOK, IdsTell
  <1> QED  BY <1>1, <1>2, <1>3, <1>4 DEF Starting

LEMMA ArriveKeepsInv ==
    ASSUME CartInv, NEW p \in Proc, NEW j, Arrive(p, j), Starting(j)
    PROVE  CartInv'
  <1>1. /\ job' = [job EXCEPT ![p] = j] /\ UNCHANGED <<hasCart, lines, lineIds, asked>>
        /\ additionsMet' = (additionsMet \/ (Adds(j) /\ \E q \in Proc : Adds(job[q])))
    BY DEF Arrive, Dispatch
  <1>2. additionsMet' \in BOOLEAN /\ hasCart' \in BOOLEAN /\ (additionsMet => additionsMet')
    BY <1>1 DEF CartInv, CartTypeOK
  <1>3. ~additionsMet' /\ Adds(j) => \A q \in Proc \ {p} : ~Adds(job[q])
    BY <1>1
  <1>4. /\ j \in CartJob \cup {Idle} /\ (j # Idle => CartJobOK(j) /\ j.seen = {})
        /\ ~(Adds(j) /\ j.at = "write")
    BY DEF Starting
  <1> QED  BY <1>1, <1>2, <1>3, <1>4, CartStays

LEMMA NoOtherAdds ==
    ASSUME CartInv, NEW p \in Proc, Adds(job[p]), ~additionsMet
    PROVE  \A q \in Proc \ {p} : ~Adds(job[q])
  BY DEF CartInv, AdditionsOK

LEMMA OnwardsKeepsInv ==
    ASSUME CartInv, NEW p \in Proc, FindCart(p) \/ CreateCart(p) \/ ReadLines(p)
    PROVE  CartInv'
  <1>1. /\ CartTypeOK /\ job[p] # Idle /\ job[p].at \in {"cart", "create", "read"}
        /\ UNCHANGED <<lines, lineIds, asked, additionsMet>> /\ hasCart' \in BOOLEAN
        /\ additionsMet' \in BOOLEAN
    <2>1. job[p].at \in {"cart", "create", "read"} /\ job[p] # Idle
      <3>1. job[p].at = "cart" \/ job[p].at = "create" \/ job[p].at = "read"
        BY DEF FindCart, CreateCart, ReadLines
      <3> QED  BY <3>1 DEF Idle
    <2>2. UNCHANGED <<lines, lineIds, asked, additionsMet>> /\ (hasCart' = hasCart \/ hasCart' = TRUE)
      BY DEF FindCart, CreateCart, ReadLines, Unhistoried
    <2> QED  BY <2>1, <2>2 DEF CartInv, CartTypeOK
  <1>2. job[p] \in CartJob /\ CartJobOK(job[p])
    BY <1>1, AtWorkOnCart
  <1>3. ~additionsMet /\ Adds(job[p]) => \A q \in Proc \ {p} : ~Adds(job[q])
    BY NoOtherAdds
  <1>4. CASE FindCart(p) \/ CreateCart(p)
    <2>1. PICK at \in {"create", "read"} : job' = [job EXCEPT ![p] = [job[p] EXCEPT !.at = at]]
      BY <1>4 DEF FindCart, CreateCart, Onward, Become
    <2>2. PICK j : j = [job[p] EXCEPT !.at = at]
      OBVIOUS
    <2>3. /\ j \in CartJob /\ j.at = at /\ j.op = job[p].op /\ j.seen = job[p].seen /\ j.rest = job[p].rest
      BY <1>2, <2>2 DEF CartJob
    <2>4. CartJobOK(j)
      BY <1>2, <2>3 DEF CartJobOK
    <2>5. Adds(j) => Adds(job[p])
      BY <1>1, <2>3 DEF Adds
    <2> QED  BY <1>1, <1>3, <2>1, <2>2, <2>3, <2>4, <2>5, CartStays
  <1>5. CASE ReadLines(p)
    <2>1. PICK seen \in (IF Adds(job[p]) THEN FirstOf(Head(job[p].rest)) ELSE {Of(job[p].variant)}) :
            job' = [job EXCEPT ![p] = [job[p] EXCEPT !.at = "write", !.seen = seen]]
      BY <1>5 DEF ReadLines, Become
    <2>2. PICK j : j = [job[p] EXCEPT !.at = "write", !.seen = seen]
      OBVIOUS
    <2>3. Adds(job[p]) => /\ \A l \in seen : l \in lines /\ l.product = Head(job[p].rest)
                          /\ seen = {} \/ \E l \in seen : seen = {l}
                          /\ seen = {} => \A l \in lines : l.product # Head(job[p].rest)
      BY <2>1 DEF FirstOf
    <2>4. seen \subseteq lines
      BY <2>1, <2>3 DEF Of
    <2>5. IsFiniteSet(seen) /\ IdsTell(seen) /\ seen \in SUBSET CartLine
      BY <1>1, <2>4, FS_Subset DEF CartTypeOK, IdsTell
    <2>6. j \in CartJob /\ j.at = "write" /\ j.op = job[p].op /\ j.seen = seen /\ j.rest = job[p].rest
      BY <1>2, <2>2, <2>5 DEF CartJob
    <2>7. Adds(job[p]) <=> job[p].op = "add"
      BY <1>1 DEF Adds
    <2>8. CartJobOK(j)
      BY <1>2, <2>3, <2>5, <2>6, <2>7 DEF CartJobOK
    <2>9. Adds(j) => Adds(job[p])
      BY <1>1, <2>6 DEF Adds
    <2> QED  BY <1>1, <1>3, <2>1, <2>2, <2>3, <2>4, <2>6, <2>8, <2>9, CartStays
  <1> QED  BY <1>4, <1>5

LEMMA EndsKeepInv ==
    ASSUME CartInv, NEW p \in Proc, DeleteLines(p) \/ CartFails(p)
    PROVE  CartInv'
  <1>1. /\ job' = [job EXCEPT ![p] = Idle] /\ lines' \subseteq lines
        /\ UNCHANGED <<hasCart, lineIds, asked, additionsMet>>
    BY DEF DeleteLines, CartFails, Become, Unhistoried
  <1>2. hasCart' \in BOOLEAN /\ additionsMet' \in BOOLEAN
    BY <1>1 DEF CartInv, CartTypeOK
  <1> QED  BY <1>1, <1>2, CartStays DEF Adds

\* Update, with what each of the lines that were read becomes.
LEMMA UpdateKeepsInv ==
    ASSUME CartInv, NEW p \in Proc, job[p] # Idle, NEW j \in CartJob \cup {Idle},
           job' = [job EXCEPT ![p] = j],
           j # Idle => CartJobOK(j) /\ j.seen = {} /\ j.at # "write" /\ Adds(job[p]),
           NEW d \in Nat, NEW f, Update({f[l] : l \in job[p].seen}),
           \A l \in job[p].seen : /\ f[l] \in CartLine /\ f[l].id = l.id /\ f[l].product = l.product
                                  /\ f[l].quantity \in 1..(l.quantity + d),
           UNCHANGED <<hasCart, lineIds, additionsMet>>, asked' \in [Goods -> Nat],
           \A x \in Goods : asked'[x] = asked[x] + d * Cardinality({l \in job[p].seen : l.product = x})
    PROVE  CartInv'
  <1>1. CartTypeOK /\ PeakInv /\ AdditionsOK
    BY DEF CartInv
  <1>2. PICK seen : seen = job[p].seen /\ IsFiniteSet(seen) /\ IdsTell(seen)
    BY <1>1, AtWorkOnCart DEF CartJobOK
  <1>3. PICK changed, touched : changed = {f[l] : l \in seen} /\ touched = {l.id : l \in changed}
    OBVIOUS
  <1>4. /\ touched \subseteq {l.id : l \in lines}
        /\ lines' = {l \in lines : l.id \notin touched} \cup changed
    BY <1>2, <1>3 DEF Update
  <1>5. \A m \in changed : \E l \in seen : m = f[l]
    BY <1>3
  <1>6. lines' \subseteq CartLine
    BY <1>1, <1>2, <1>4, <1>5 DEF CartTypeOK
  <1>7. IsFiniteSet(lines')
    <2>1. IsFiniteSet(changed)
      BY <1>2, <1>3, ImageIsFinite
    <2>2. IsFiniteSet({l \in lines : l.id \notin touched})
      BY <1>1, FS_Subset DEF CartTypeOK
    <2> QED  BY <1>4, <2>1, <2>2, FS_Union
  <1>8. IdsTell(lines')
    <2> SUFFICES ASSUME NEW l \in lines', NEW m \in lines', l.id = m.id PROVE l = m
      BY DEF IdsTell
    <2>1. l \in changed <=> m \in changed
      BY <1>3, <1>4
    <2>2. CASE l \in changed
      <3>1. PICK a \in seen, b \in seen : l = f[a] /\ m = f[b]
        BY <1>5, <2>1, <2>2
      <3>2. a.id = b.id
        BY <1>2, <3>1
      <3> QED  BY <1>2, <3>1, <3>2 DEF IdsTell
    <2>3. CASE l \notin changed
      BY <1>1, <1>4, <2>1, <2>3 DEF CartTypeOK, IdsTell
    <2> QED  BY <2>2, <2>3
  <1>9. \A m \in lines' : m \in lines \/ \E l \in seen :
            m.id = l.id /\ m.product = l.product /\ m.quantity \in 1..(l.quantity + d)
    BY <1>2, <1>4, <1>5
  <1>10. \A m \in lines' : \E l \in lines : m.id = l.id /\ m.product = l.product
    <2> SUFFICES ASSUME NEW m \in changed PROVE \E l \in lines : m.id = l.id /\ m.product = l.product
      BY <1>4
    <2>1. PICK owner, peak : Peaks(owner, peak)
      BY <1>1 DEF PeakInv
    <2>2. PICK l \in seen : m.id = l.id /\ m.product = l.product
      BY <1>2, <1>5
    <2>3. PICK o \in lines : o.id = m.id
      <3>1. m.id \in touched
        BY <1>3
      <3> QED  BY <1>4, <3>1
    <2>4. owner[l.id] = l.product /\ owner[o.id] = o.product
      BY <1>2, <2>1 DEF Peaks, HoldsUp
    <2> QED  BY <2>2, <2>3, <2>4
  <1>11. CartTypeOK'
    <2>1. hasCart' \in BOOLEAN /\ additionsMet' \in BOOLEAN /\ lineIds' \in 0..MaxLines
      BY <1>1 DEF CartTypeOK
    <2> QED  BY <1>1, <1>6, <1>7, <1>8, <2>1, TypeStep
  <1>12. PeakInv'
    BY <1>1, <1>2, <1>9, PeaksOfChanged
  <1>13. AdditionsOK'
    <2>1. ~additionsMet' /\ Adds(j) => \A q \in Proc \ {p} : ~Adds(job[q])
      BY NoOtherAdds DEF Adds
    <2>2. ~(Adds(j) /\ j.at = "write" /\ j.seen = {})
      BY DEF Adds
    <2> QED  BY <1>1, <1>8, <1>10, <2>1, <2>2, AdditionsStay
  <1> QED  BY <1>11, <1>12, <1>13 DEF CartInv

LEMMA AddItemKeepsInv ==
    ASSUME CartInv, NEW p \in Proc, AddItem(p)
    PROVE  CartInv'
  <1>1. CartTypeOK /\ PeakInv /\ AdditionsOK
    BY DEF CartInv
  <1>2. job[p].op = "add" /\ job[p].at = "write" /\ job[p] # Idle /\ Adds(job[p])
    <2>1. job[p].op = "add" /\ job[p].at = "write"
      BY DEF AddItem, At
    <2> QED  BY <2>1 DEF Idle, Adds
  <1>3. job[p] \in CartJob /\ CartJobOK(job[p])
    BY <1>1, <1>2, AtWorkOnCart
  <1>4. PICK rest \in Seq(Goods) : rest = job[p].rest /\ rest # <<>>
    BY <1>2, <1>3 DEF CartJob, CartJobOK
  <1>5. PICK x \in Goods : x = Head(job[p].rest)
    BY <1>4
  <1>6. /\ asked' = [asked EXCEPT ![x] = @ + 1] /\ UNCHANGED <<hasCart, additionsMet>>
        /\ Increase(p) \/ Insert(p)
    BY <1>5 DEF AddItem
  <1>7. PICK j : j = IF Len(job[p].rest) = 1 THEN Idle
                     ELSE [job[p] EXCEPT !.at = "cart", !.rest = Tail(@), !.seen = {}]
    OBVIOUS
  <1>8. job' = [job EXCEPT ![p] = j]
    BY <1>7 DEF AddItem, Become
  <1>9. /\ j \in CartJob \cup {Idle}
        /\ j # Idle => CartJobOK(j) /\ j.seen = {} /\ j.at # "write"
    <2>1. CASE Len(rest) = 1
      BY <1>4, <1>7, <2>1
    <2>2. CASE Len(rest) # 1
      <3>1. Tail(rest) \in Seq(Goods) /\ Tail(rest) # <<>>
        <4>1. Tail(rest) \in Seq(Goods) /\ Len(Tail(rest)) = Len(rest) - 1 /\ Len(rest) \in Nat
          BY <1>4, HeadTailProperties, LenProperties
        <4>2. Len(Tail(rest)) # 0
          BY <2>2, <4>1
        <4> QED  BY <4>1, <4>2, EmptySeq
      <3>2. j = [job[p] EXCEPT !.at = "cart", !.rest = Tail(rest), !.seen = {}]
        BY <1>4, <1>7, <2>2
      <3>3. /\ j \in CartJob /\ j.op = "add" /\ j.at = "cart" /\ j.rest = Tail(rest) /\ j.seen = {}
        BY <1>2, <1>3, <3>1, <3>2 DEF CartJob
      <3>4. CartJobOK(j)
        BY <3>1, <3>3, FS_EmptySet DEF CartJobOK, IdsTell
      <3> QED  BY <3>3, <3>4
    <2> QED  BY <2>1, <2>2
  <1>10. asked \in [Goods -> Nat] /\ asked' \in [Goods -> Nat]
    BY <1>1, <1>6 DEF CartTypeOK
  <1>11. CASE Increase(p)
    <2>1. PICK l \in job[p].seen : job[p].seen = {l} /\ l.product = x
      BY <1>2, <1>3, <1>5, <1>11 DEF CartJobOK, Increase
    <2>2. l \in CartLine /\ l.quantity \in Int /\ l.quantity >= 1
      <3>1. PICK owner, peak : Peaks(owner, peak)
        BY <1>1 DEF PeakInv
      <3>2. HoldsUp(l, owner, peak) /\ l \in CartLine
        BY <1>2, <1>3, <2>1, <3>1 DEF Peaks, CartJob
      <3> QED  BY <3>2 DEF HoldsUp, CartLine
    <2>3. PICK f : f = [m \in job[p].seen |-> [m EXCEPT !.quantity = @ + 1]]
      OBVIOUS
    <2>4. {f[m] : m \in job[p].seen} = {[m EXCEPT !.quantity = @ + 1] : m \in job[p].seen}
      BY <2>3
    <2>5. Update({f[m] : m \in job[p].seen}) /\ UNCHANGED lineIds
      BY <1>11, <2>4 DEF Increase
    <2>6. \A m \in job[p].seen : /\ f[m] \in CartLine /\ f[m].id = m.id /\ f[m].product = m.product
                                 /\ f[m].quantity \in 1..(m.quantity + 1)
      BY <2>1, <2>2, <2>3 DEF CartLine
    <2>7. \A y \in Goods :
            asked'[y] = asked[y] + 1 * Cardinality({m \in job[p].seen : m.product = y})
      <3> SUFFICES ASSUME NEW y \in Goods
                   PROVE  asked'[y] = asked[y] + 1 * Cardinality({m \in job[p].seen : m.product = y})
        OBVIOUS
      <3>1. PICK P : P = {m \in job[p].seen : m.product = y}
        OBVIOUS
      <3>2. asked[y] \in Nat /\ asked'[y] = IF y = x THEN asked[y] + 1 ELSE asked[y]
        BY <1>6, <1>10
      <3>3. CASE y = x
        <4>1. P = {l} /\ Cardinality({l}) = 1
          BY <2>1, <3>1, <3>3, FS_Singleton
        <4>2. Cardinality(P) = 1
          BY <4>1
        <4> QED  BY <3>1, <3>2, <3>3, <4>2
      <3>4. CASE y # x
        <4>1. P = {} /\ Cardinality({}) = 0
          BY <2>1, <3>1, <3>4, FS_EmptySet
        <4>2. Cardinality(P) = 0
          BY <4>1
        <4> QED  BY <3>1, <3>2, <3>4, <4>2
      <3> QED  BY <3>3, <3>4
    <2>8. 1 \in Nat
      OBVIOUS
    <2>9. j # Idle => CartJobOK(j) /\ j.seen = {} /\ j.at # "write" /\ Adds(job[p])
      BY <1>2, <1>9
    <2> QED  BY <1>2, <1>6, <1>8, <1>9, <1>10, <2>5, <2>6, <2>7, <2>8, <2>9, UpdateKeepsInv
  <1>12. CASE Insert(p)
    <2>1. /\ job[p].seen = {} /\ lineIds < MaxLines /\ lineIds' = lineIds + 1
          /\ lines' = lines \cup {[id |-> lineIds', product |-> x, quantity |-> 1]}
      BY <1>5, <1>12 DEF Insert
    <2>2. PICK n \in Nat : n = lineIds + 1
      BY <1>1 DEF CartTypeOK
    <2> DEFINE new == [id |-> n, product |-> x, quantity |-> 1]
    <2>3. lines' = lines \cup {new} /\ new.id = n /\ new.product = x
      BY <2>1, <2>2
    <2>4. new \in CartLine /\ lineIds' \in 0..MaxLines
      <3>1. MaxLines \in Nat /\ lineIds \in 0..MaxLines
        BY <1>1, CartConstants DEF CartTypeOK
      <3>2. n \in LineId
        BY <2>1, <2>2, <3>1 DEF LineId
      <3> QED  BY <2>1, <2>2, <3>1, <3>2 DEF CartLine
    <2>5. \A l \in lines : l.id # n
      <3>1. PICK owner, peak : Peaks(owner, peak)
        BY <1>1 DEF PeakInv
      <3>2. \A l \in lines : l.id \in 1..lineIds
        BY <3>1 DEF Peaks, HoldsUp
      <3> QED  BY <1>1, <2>2, <3>2 DEF CartTypeOK
    <2>6. lines' \subseteq CartLine /\ IsFiniteSet(lines') /\ IdsTell(lines')
      <3>1. IsFiniteSet(lines \cup {new})
        BY <1>1, FS_AddElement DEF CartTypeOK
      <3> QED  BY <1>1, <2>3, <2>4, <2>5, <3>1 DEF CartTypeOK, IdsTell
    <2>7. CartTypeOK'
      <3>1. hasCart' \in BOOLEAN /\ additionsMet' \in BOOLEAN
        BY <1>1, <1>6 DEF CartTypeOK
      <3> QED  BY <1>1, <1>8, <1>9, <1>10, <2>4, <2>6, <3>1, TypeStep
    <2>8. PeakInv'
      <3>1. j # Idle => \A l \in j.seen : l \in lines \/ (job[p] # Idle /\ l \in job[p].seen)
        BY <1>9
      <3> QED  BY <1>1, <1>6, <1>8, <2>1, <3>1, PeaksOfInserted
    <2>9. AdditionsOK'
      <3>1. job'[p] = j /\ \A q \in Proc \ {p} : job'[q] = job[q]
        BY <1>1, <1>8 DEF CartTypeOK
      <3> SUFFICES ASSUME ~additionsMet
                   PROVE  /\ \A q, r \in Proc : Adds(job'[q]) /\ Adds(job'[r]) => q = r
                          /\ \A l, m \in lines' : l.product = m.product => l = m
                          /\ \A q \in Proc : ~(Adds(job'[q]) /\ job'[q].at = "write")
        BY <1>6 DEF AdditionsOK, Adds
      <3>2. \A q \in Proc \ {p} : ~Adds(job[q])
        BY <1>2, NoOtherAdds
      <3>3. \A q \in Proc : Adds(job'[q]) => q = p /\ job'[q].at # "write"
        BY <1>9, <3>1, <3>2 DEF Adds
      <3>4. \A l \in lines : l.product # x
        BY <1>1, <1>2, <1>5, <2>1 DEF AdditionsOK
      <3>5. \A l, m \in lines : l.product = m.product => l = m
        BY <1>1 DEF AdditionsOK
      <3> QED  BY <2>3, <3>3, <3>4, <3>5
    <2> QED  BY <2>7, <2>8, <2>9 DEF CartInv
  <1> QED  BY <1>6, <1>11, <1>12

LEMMA ChangeQuantitiesKeepsInv ==
    ASSUME CartInv, NEW p \in Proc, ChangeQuantities(p)
    PROVE  CartInv'
  <1>1. CartTypeOK /\ PeakInv
    BY DEF CartInv
  <1>2. job[p].op = "quantity" /\ job[p] # Idle /\ ~Adds(job[p])
    <2>1. job[p].op = "quantity"
      BY DEF ChangeQuantities, At
    <2> QED  BY <2>1 DEF Idle, Adds
  <1>3. PICK seen, delta : seen = job[p].seen /\ delta = job[p].delta
    OBVIOUS
  <1>4. job[p] \in CartJob /\ CartJobOK(job[p]) /\ IsFiniteSet(seen) /\ seen \subseteq CartLine
    BY <1>1, <1>2, <1>3, AtWorkOnCart DEF CartJobOK, CartJob
  <1>5. delta \in Int
    <2>1. delta \in Delta \cup {0}
      BY <1>3, <1>4 DEF CartJob
    <2> QED  BY <2>1, CartConstants
  <1>6. PICK d \in Nat : d = Max({0, delta}) /\ d >= delta
    BY <1>5, MaxOfTwo
  <1>7. /\ Update({[l EXCEPT !.quantity = Max({1, @ + delta})] : l \in seen})
        /\ asked' = [x \in Goods |-> asked[x] + d * Cardinality({l \in seen : l.product = x})]
        /\ job' = [job EXCEPT ![p] = Idle] /\ UNCHANGED <<hasCart, lineIds, additionsMet>>
    BY <1>3, <1>6 DEF ChangeQuantities, Become
  <1>8. PICK f : f = [l \in seen |-> [l EXCEPT !.quantity = Max({1, @ + delta})]]
    OBVIOUS
  <1>9. {f[l] : l \in seen} = {[l EXCEPT !.quantity = Max({1, @ + delta})] : l \in seen}
    BY <1>8
  <1>10. ASSUME NEW l \in seen
         PROVE  /\ f[l] \in CartLine /\ f[l].id = l.id /\ f[l].product = l.product
                /\ f[l].quantity \in 1..(l.quantity + d)
    <2>1. PICK owner, peak : Peaks(owner, peak)
      BY <1>1 DEF PeakInv
    <2>2. PICK q \in Nat : q = l.quantity /\ q >= 1 /\ l \in CartLine
      <3>1. HoldsUp(l, owner, peak) /\ l \in CartLine
        BY <1>2, <1>3, <1>4, <2>1 DEF Peaks
      <3> QED  BY <3>1 DEF HoldsUp, CartLine
    <2>3. PICK n \in Nat : n = Max({1, q + delta}) /\ n = IF 1 >= q + delta THEN 1 ELSE q + delta
      BY <1>5, MaxOfTwo
    <2>4. n \in 1..(q + d)
      BY <1>5, <1>6, <2>2, <2>3
    <2>5. f[l] = [l EXCEPT !.quantity = n]
      BY <1>8, <2>2, <2>3
    <2> QED  BY <2>2, <2>4, <2>5 DEF CartLine
  <1>11. asked' \in [Goods -> Nat]
    <2> SUFFICES ASSUME NEW x \in Goods PROVE asked[x] + d * Cardinality({l \in seen : l.product = x}) \in Nat
      BY <1>7
    <2>1. PICK P : P = {l \in seen : l.product = x}
      OBVIOUS
    <2>2. PICK n \in Nat : n = Cardinality(P)
      BY <1>4, <2>1, FS_Subset, FS_CardinalityType
    <2>3. d * n \in Nat /\ asked[x] \in Nat
      BY <1>1 DEF CartTypeOK
    <2> QED  BY <2>1, <2>2, <2>3
  <1>12. \A x \in Goods : asked'[x] = asked[x] + d * Cardinality({l \in job[p].seen : l.product = x})
    BY <1>3, <1>7
  <1>13. Update({f[l] : l \in job[p].seen})
    BY <1>3, <1>7, <1>9
  <1>14. \A l \in job[p].seen : /\ f[l] \in CartLine /\ f[l].id = l.id /\ f[l].product = l.product
                                /\ f[l].quantity \in 1..(l.quantity + d)
    BY <1>3, <1>10
  <1>15. PICK j : j = Idle /\ j \in CartJob \cup {Idle}
    OBVIOUS
  <1> QED  BY <1>2, <1>7, <1>11, <1>12, <1>13, <1>14, <1>15, UpdateKeepsInv

LEMMA CartInitInv == CartInit => CartInv
  <1> SUFFICES ASSUME CartInit PROVE CartInv
    OBVIOUS
  <1>1. /\ hasCart \in BOOLEAN /\ additionsMet = FALSE /\ lines = {} /\ lineIds = 0
        /\ asked = [x \in Goods |-> 0] /\ \A p \in Proc : job[p] = Idle
        /\ job = [p \in Proc |-> Idle]
    BY DEF CartInit, RequestsInit
  <1>2. CartTypeOK
    <2>1. IsFiniteSet(lines) /\ IdsTell(lines) /\ lines \subseteq CartLine
      BY <1>1, FS_EmptySet DEF IdsTell
    <2>2. lineIds \in 0..MaxLines /\ asked \in [Goods -> Nat]
      BY <1>1, CartConstants
    <2>3. job \in [Proc -> CartJob \cup {Idle}]
      BY <1>1
    <2> QED  BY <1>1, <2>1, <2>2, <2>3 DEF CartTypeOK
  <1>3. PICK none : none = [i \in 1..0 |-> 0]
    OBVIOUS
  <1>4. none \in [1..0 -> Goods] /\ none \in [1..0 -> Nat] /\ \A x \in Goods : IdsOf(none, x) = {}
    BY <1>3 DEF IdsOf
  <1>5. \A x \in Goods : SumOf(none, IdsOf(none, x)) <= asked[x]
    <2> SUFFICES ASSUME NEW x \in Goods PROVE SumOf(none, IdsOf(none, x)) <= asked[x]
      OBVIOUS
    <2>1. SumOf(none, {}) = 0 /\ asked[x] = 0
      BY <1>1, SumOfNone
    <2> QED  BY <1>4, <2>1
  <1>6. Peaks(none, none)
    BY <1>1, <1>4, <1>5 DEF Peaks
  <1>7. AdditionsOK
    BY <1>1 DEF AdditionsOK, Adds
  <1> QED  BY <1>2, <1>6, <1>7 DEF CartInv, PeakInv

LEMMA CartNextKeepsInv == CartInv /\ [CartNext]_cartVars => CartInv'
  <1> SUFFICES ASSUME CartInv, [CartNext]_cartVars PROVE CartInv'
    OBVIOUS
  <1>1. CASE UNCHANGED cartVars
    BY <1>1 DEF cartVars, CartInv, CartTypeOK, CartJobOK, IdsTell, PeakInv, Peaks, AdditionsOK, Adds
  <1>2. ASSUME NEW p \in Proc, NEW some \in Seq(Goods), some # <<>>, AddItems(p, some)
        PROVE  CartInv'
    <2>1. Starting(Request("add", some, 0, 0))
      BY <1>2, RequestStarts
    <2> QED  BY <1>2, <2>1, ArriveKeepsInv DEF AddItems
  <1>3. ASSUME NEW p \in Proc, NEW v \in CartVariant,
               RemoveItem(p, v) \/ \E d \in Delta : UpdateQuantity(p, v, d)
        PROVE  CartInv'
    <2>1. <<>> \in Seq(Goods)
      BY EmptySeq
    <2>2. /\ Starting(Request("remove", <<>>, v, 0))
          /\ \A d \in Delta : Starting(Request("quantity", <<>>, v, d))
      BY <2>1, RequestStarts
    <2> QED  BY <1>3, <2>2, ArriveKeepsInv DEF RemoveItem, UpdateQuantity
  <1>4. ASSUME NEW p \in Proc, Clear(p)
        PROVE  CartInv'
    <2>1. <<>> \in Seq(Goods)
      BY EmptySeq
    <2>2. Starting(Request("clear", <<>>, 0, 0))
      BY <2>1, RequestStarts
    <2> QED  BY <1>4, <2>2, ArriveKeepsInv DEF Clear
  <1>5. \A x, y \in Goods : <<x>> \in Seq(Goods) /\ <<x>> # <<>> /\ <<x, y>> \in Seq(Goods) /\ <<x, y>> # <<>>
    OBVIOUS
  <1> QED  BY <1>1, <1>2, <1>3, <1>4, <1>5, OnwardsKeepsInv, EndsKeepInv, AddItemKeepsInv,
              ChangeQuantitiesKeepsInv DEF CartNext

LEMMA CartInvHolds == CartSpec => []CartInv
  BY CartInitInv, CartNextKeepsInv, PTL DEF CartSpec

\* Whatever tabs are open, the lines of a product never hold more than was asked
\* for, and a second line takes two additions that met (CartService.addItem,
\* updateQuantity, merge).
THEOREM CartAlwaysAddsUp == CartSpec => []CartAddsUp
  <1>1. CartInv => CartAddsUp
    <2> SUFFICES ASSUME CartInv PROVE NeverMoreThanAsked /\ OneLineEach
      BY DEF CartAddsUp
    <2>1. NeverMoreThanAsked
      BY PeaksBoundLines DEF CartInv
    <2>2. OneLineEach
      BY DEF CartInv, AdditionsOK, OneLineEach
    <2> QED  BY <2>1, <2>2
  <1> QED  BY <1>1, CartInvHolds, PTL

=============================================================================
