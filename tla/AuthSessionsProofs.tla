------------------------- MODULE AuthSessionsProofs -------------------------
(***************************************************************************)
(* Proofs about the sessions of any number of accounts, requests and       *)
(* devices: a refresh token is rotated into one new token at most, no      *)
(* session of a closed account was authorised after its last closing, and  *)
(* the limits of sessions are exceeded only by the requests that raced.    *)
(*                                                                         *)
(* Almost every step only ages the rows (it revokes or removes some) and   *)
(* moves one request on.  AgingKeepsInv treats these steps together; only  *)
(* the rotation and the insertion of a token are looked at on their own.   *)
(***************************************************************************)
EXTENDS AuthSessions, SetLemmas

-----------------------------------------------------------------------------
(* The types. *)

Transition == {"activate", "ban", "deactivate", "softDelete", "restore", "sweep"}
Op == Transition \cup {"none", "login", "refresh", "purge"}
MintPlaces == {"sign", "limit", "evict", "create"}
AuthPlaces == {"seen", "replace", "rotate"} \cup MintPlaces
Place == AuthPlaces \cup
    {"idle", "apply", "checkPurge", "purge", "reactivate", "ownerCheck", "revokeAll"}

Record == [op : Op, pc : Place, user : User \cup {None}, device : Device \cup {None},
           token : Nat, iat : Nat, evicted : SUBSET Nat, auth : Nat]
Request ==
    {r \in Record : /\ r.op = "none" <=> r.pc = "idle"
                    /\ r.op # "none" => r.user \in User
                    /\ r.pc = "apply" => r.op \in Transition
                    /\ r.pc \in {"reactivate", "seen", "replace"} =>
                            r.op = "login" /\ r.token = 0}

\* The rows and the requests are what their tables and handlers allow.
SessionTypeOK ==
    /\ status \in [User -> Status]
    /\ closures \in [User -> Nat]
    /\ tokens \subseteq Token
    /\ req \in [Req -> Request]
    /\ now \in Nat /\ created \in Nat

-----------------------------------------------------------------------------
(* What a session or a request in flight may have been authorised by.      *)

Stands(st, cl, a, u) == a <= cl[u] /\ (st[u] # "active" => a < cl[u])
Standing(a, u) == Stands(status, closures, a, u)
StillStanding(a, u) == Stands(status', closures', a, u)

ClosingInv ==
    /\ \A t \in tokens : Live(t) => Standing(t.auth, t.user)
    /\ \A p \in Req : req[p].pc \in AuthPlaces => Standing(req[p].auth, req[p].user)

(* The rows by their ids, and who was or will be minted from which.        *)

UniqueIds == \A s, t \in tokens : s.id = t.id => s = t
Child(t, k) == t.parent = k
Pending(p, k) == Minting(p) /\ req[p].token = k

MintedOnce(k) ==
    /\ \A s, t \in tokens : Child(s, k) /\ Child(t, k) => s.id = t.id
    /\ \A p, q \in Req : Pending(p, k) /\ Pending(q, k) => p = q
    /\ \A t \in tokens, p \in Req : ~(Child(t, k) /\ Pending(p, k))
    /\ (\E t \in tokens : Child(t, k)) \/ (\E p \in Req : Pending(p, k))
        => \A t \in tokens : t.id = k => t.revoked

RotationInv ==
    /\ UniqueIds
    /\ \A t \in tokens : t.id \in 1..created /\ t.parent \in 0..created
    /\ \A p \in Req : req[p].token \in 0..created
    /\ \A k \in 1..created : MintedOnce(k)

SessionInv == SessionTypeOK /\ ClosingInv /\ RotationInv

-----------------------------------------------------------------------------
LEMMA InitHolds == Init => SessionInv
  <1> SUFFICES ASSUME Init PROVE SessionInv
    OBVIOUS
  <1>1. Idle \in Request /\ Idle.pc = "idle" /\ Idle.token = 0
    BY DEF Idle, Request, Record, Op, Place
  <1>2. SessionTypeOK
    BY <1>1 DEF Init, SessionTypeOK, Status
  <1>3. \A p \in Req : req[p] = Idle
    BY DEF Init
  <1>4. ClosingInv
    BY <1>1, <1>3 DEF Init, ClosingInv, AuthPlaces, MintPlaces
  <1>5. RotationInv
    BY <1>1, <1>3 DEF Init, RotationInv, UniqueIds
  <1> QED  BY <1>2, <1>4, <1>5 DEF SessionInv

(***************************************************************************)
(* What most steps do to the rows: none is new, and none revives.          *)
(***************************************************************************)
Outlives(t, s) ==
    /\ t.id = s.id /\ t.user = s.user /\ t.parent = s.parent /\ t.auth = s.auth
    /\ s.revoked => t.revoked

Aged ==
    /\ tokens' \subseteq Token /\ UniqueIds'
    /\ \A t \in tokens' : \E s \in tokens : Outlives(t, s)

LEMMA RevokingAges ==
    ASSUME tokens \subseteq Token, UniqueIds, NEW D,
           \A t \in tokens' : \E s \in tokens :
                t = IF s \in D THEN [s EXCEPT !.revoked = TRUE] ELSE s
    PROVE  Aged
  <1> DEFINE f(t) == IF t \in D THEN [t EXCEPT !.revoked = TRUE] ELSE t
  <1>1. \A s \in tokens : f(s) \in Token /\ Outlives(f(s), s)
    BY DEF Token, Outlives
  <1>2. \A t \in tokens' : \E s \in tokens : t = f(s)
    OBVIOUS
  <1> HIDE DEF f
  <1>3. tokens' \subseteq Token /\ \A t \in tokens' : \E s \in tokens : Outlives(t, s)
    BY <1>1, <1>2
  <1>4. ASSUME NEW t1 \in tokens', NEW t2 \in tokens', t1.id = t2.id PROVE t1 = t2
    BY <1>1, <1>2, <1>4 DEF Outlives, UniqueIds
  <1> QED  BY <1>3, <1>4 DEF Aged, UniqueIds

LEMMA DroppingAges ==
    ASSUME tokens \subseteq Token, UniqueIds, tokens' \subseteq tokens
    PROVE  Aged
  BY DEF Aged, UniqueIds, Outlives

(***************************************************************************)
(* What every step does to the accounts: whoever was authorised stays so,  *)
(* in the sense of Standing, as a closing is counted.                      *)
(***************************************************************************)
Steady ==
    /\ status' \in [User -> Status] /\ closures' \in [User -> Nat]
    /\ \A u \in User, a \in Nat : Standing(a, u) => StillStanding(a, u)

LEMMA UnchangedIsSteady ==
    ASSUME SessionTypeOK, UNCHANGED <<status, closures>>
    PROVE  Steady
  BY DEF SessionTypeOK, Steady, Standing, StillStanding, Stands

LEMMA WritingIsSteady ==
    ASSUME SessionTypeOK, NEW u \in User, NEW next \in Status, WriteStatus(u, next)
    PROVE  Steady
  <1>1. status' = [status EXCEPT ![u] = next]
        /\ closures' = [closures EXCEPT ![u] = @ + IF next = "active" THEN 0 ELSE 1]
    BY DEF WriteStatus
  <1>2. status' \in [User -> Status] /\ closures' \in [User -> Nat]
    BY <1>1 DEF SessionTypeOK
  <1>3. ASSUME NEW v \in User, NEW a \in Nat, Standing(a, v) PROVE StillStanding(a, v)
    BY <1>1, <1>3 DEF Standing, StillStanding, Stands, SessionTypeOK
  <1> QED  BY <1>2, <1>3 DEF Steady

(***************************************************************************)
(* What every step does to the requests: one moves on, with an authority   *)
(* that stands.  In most it goes on with nothing to mint that it had not   *)
(* to mint before.                                                         *)
(***************************************************************************)
Moves(p, r) ==
    /\ req' = [req EXCEPT ![p] = r]
    /\ r \in Request /\ r.token \in 0..created
    /\ r.pc \in AuthPlaces => StillStanding(r.auth, r.user)

Goes(p, r) ==
    /\ Moves(p, r)
    /\ r.pc \in MintPlaces /\ r.token # 0 => Pending(p, r.token)

LEMMA AgingKeepsTypes ==
    ASSUME SessionInv, Aged, Steady, now' \in Nat, created' = created,
           req' = req \/ \E p \in Req, r \in Request : Moves(p, r)
    PROVE  /\ SessionTypeOK' /\ ClosingInv'
           /\ \A t \in tokens' : t.id \in 1..created' /\ t.parent \in 0..created'
           /\ \A q \in Req : req'[q].token \in 0..created'
  <1>1. SessionTypeOK /\ ClosingInv /\ RotationInv
    BY DEF SessionInv
  <1>2. tokens \subseteq Token /\ req \in [Req -> Request] /\ created \in Nat
    BY <1>1 DEF SessionTypeOK
  <1>3. req' \in [Req -> Request]
    <2>1. CASE req' = req
      BY <1>2, <2>1
    <2>2. ASSUME NEW p \in Req, NEW r \in Request, Moves(p, r) PROVE req' \in [Req -> Request]
      BY <1>2, <2>2 DEF Moves
    <2> QED  BY <2>1, <2>2
  <1>4. SessionTypeOK'
    BY <1>2, <1>3 DEF SessionTypeOK, Steady, Aged
  <1>5. ASSUME NEW q \in Req
        PROVE  /\ req'[q].token \in 0..created
               /\ req'[q].pc \in AuthPlaces =>
                        req'[q] = req[q] \/ StillStanding(req'[q].auth, req'[q].user)
    <2>1. CASE req'[q] = req[q]
      BY <1>1, <2>1 DEF RotationInv
    <2>2. CASE req'[q] # req[q]
      <3>1. PICK p \in Req, r \in Request : Moves(p, r)
        BY <2>2
      <3>2. p = q /\ req'[q] = r
        BY <1>2, <2>2, <3>1 DEF Moves
      <3> QED  BY <3>1, <3>2 DEF Moves
    <2> QED  BY <2>1, <2>2
  <1>6. \A q \in Req : /\ req[q].auth \in Nat
                       /\ req[q].pc \in AuthPlaces => req[q].user \in User
    BY <1>2 DEF Request, Record, AuthPlaces, MintPlaces
  <1>7. ClosingInv'
    <2>1. ASSUME NEW t \in tokens', Live(t) PROVE StillStanding(t.auth, t.user)
      <3>1. PICK s \in tokens : Outlives(t, s)
        BY DEF Aged
      <3>2. s \in Token /\ t \in Token
        BY <1>2 DEF Aged
      <3>3. Live(s)
        BY <2>1, <3>1, <3>2 DEF Outlives, Live, Token
      <3>4. Standing(s.auth, s.user)
        BY <1>1, <3>3 DEF ClosingInv
      <3> QED  BY <3>1, <3>2, <3>4 DEF Outlives, Steady, Token
    <2>2. ASSUME NEW q \in Req, req'[q].pc \in AuthPlaces
          PROVE  StillStanding(req'[q].auth, req'[q].user)
      BY <1>1, <1>5, <1>6, <2>2 DEF ClosingInv, Steady
    <2> QED  BY <2>1, <2>2 DEF ClosingInv, Live, Standing, StillStanding
  <1>8. \A t \in tokens' : t.id \in 1..created' /\ t.parent \in 0..created'
    BY <1>1 DEF Aged, Outlives, RotationInv
  <1> QED  BY <1>4, <1>5, <1>7, <1>8

LEMMA FewerToMint ==
    ASSUME NEW k, MintedOnce(k), Aged, \A q \in Req : Pending(q, k)' => Pending(q, k)
    PROVE  MintedOnce(k)'
  <1>1. \A t \in tokens' : \E s \in tokens :
            s.id = t.id /\ (Child(t, k) => Child(s, k)) /\ (s.revoked => t.revoked)
    BY DEF Aged, Outlives, Child
  <1>2. \A s, t \in tokens' : Child(s, k) /\ Child(t, k) => s.id = t.id
    BY <1>1 DEF MintedOnce
  <1>3. \A p, q \in Req : Pending(p, k)' /\ Pending(q, k)' => p = q
    BY DEF MintedOnce
  <1>4. \A t \in tokens', p \in Req : ~(Child(t, k) /\ Pending(p, k)')
    BY <1>1 DEF MintedOnce
  <1>5. (\E t \in tokens' : Child(t, k)) \/ (\E p \in Req : Pending(p, k)')
            => \A t \in tokens' : t.id = k => t.revoked
    BY <1>1 DEF MintedOnce
  <1> QED  BY <1>2, <1>3, <1>4, <1>5 DEF MintedOnce, Child

LEMMA AgingKeepsInv ==
    ASSUME SessionInv, Aged, Steady, now' \in Nat, created' = created,
           req' = req \/ \E p \in Req, r \in Request : Goes(p, r)
    PROVE  SessionInv'
  <1>1. req' = req \/ \E p \in Req, r \in Request : Moves(p, r)
    BY DEF Goes
  <1>2. /\ SessionTypeOK' /\ ClosingInv'
        /\ \A t \in tokens' : t.id \in 1..created' /\ t.parent \in 0..created'
        /\ \A q \in Req : req'[q].token \in 0..created'
    BY <1>1, AgingKeepsTypes
  <1>3. ASSUME NEW k \in 1..created', NEW q \in Req, Pending(q, k)' PROVE Pending(q, k)
    <2>1. CASE req'[q] = req[q]
      BY <1>3, <2>1 DEF Pending, Minting
    <2>2. CASE req'[q] # req[q]
      <3>1. PICK p \in Req, r \in Request : Goes(p, r)
        BY <2>2
      <3>2. p = q /\ req'[q] = r
        BY <2>2, <3>1 DEF Goes, Moves, SessionInv, SessionTypeOK
      <3>3. r.pc \in MintPlaces /\ r.token = k
        BY <1>3, <3>2 DEF Pending, Minting, MintPlaces
      <3>4. created \in Nat
        BY DEF SessionInv, SessionTypeOK
      <3> QED  BY <3>1, <3>2, <3>3, <3>4 DEF Goes
    <2> QED  BY <2>1, <2>2
  <1>4. \A k \in 1..created' : MintedOnce(k)'
    <2> SUFFICES ASSUME NEW k \in 1..created' PROVE MintedOnce(k)'
      OBVIOUS
    <2>1. MintedOnce(k)
      BY DEF SessionInv, RotationInv
    <2> QED  BY <1>3, <2>1, FewerToMint
  <1> QED  BY <1>2, <1>4 DEF SessionInv, RotationInv, Aged
-----------------------------------------------------------------------------
(* How the steps of the code move a request. *)

LEMMA IdleIsRequest == Idle \in Request /\ Idle.pc = "idle" /\ Idle.token = 0
  BY DEF Idle, Request, Record, Op, Place

LEMMA RequestFacts ==
    ASSUME SessionInv, NEW p \in Req
    PROVE  /\ req \in [Req -> Request] /\ req[p] \in Request
           /\ req[p].token \in 0..created
           /\ req[p].pc \in AuthPlaces => Standing(req[p].auth, req[p].user)
           /\ req[p].pc # "idle" => req[p].user \in User /\ req[p].op # "none"
           /\ req[p].pc = "apply" => req[p].op \in Transition
           /\ req[p].pc = "reactivate" => req[p].op = "login"
           /\ req[p].auth \in Nat
  BY DEF SessionInv, SessionTypeOK, ClosingInv, RotationInv, Request, Record

LEMMA EndGoes ==
    ASSUME SessionInv, NEW p \in Req, End(p)
    PROVE  \E q \in Req, r \in Request : Goes(q, r)
  <1>1. Goes(p, Idle)
    BY IdleIsRequest DEF Goes, Moves, End, AuthPlaces, MintPlaces, SessionInv, SessionTypeOK
  <1> QED  BY <1>1, IdleIsRequest

\* A request that goes on as it is, but for its place and what it collects.
LEMMA MovesOn ==
    ASSUME SessionInv, Steady, NEW p \in Req, NEW r \in Request,
           req' = [req EXCEPT ![p] = r],
           r.token = req[p].token, r.user = req[p].user, r.auth = req[p].auth,
           r.pc \in AuthPlaces => req[p].pc \in AuthPlaces
    PROVE  Moves(p, r)
  <1>1. r.pc \in AuthPlaces => Standing(r.auth, r.user) /\ r.auth \in Nat /\ r.user \in User
    BY RequestFacts DEF AuthPlaces, MintPlaces
  <1> QED  BY <1>1, RequestFacts DEF Moves, Steady

LEMMA GoesOn ==
    ASSUME SessionInv, Steady, NEW p \in Req, NEW r \in Request,
           req' = [req EXCEPT ![p] = r],
           r.token = req[p].token, r.user = req[p].user, r.auth = req[p].auth,
           r.pc \in AuthPlaces => req[p].pc \in AuthPlaces,
           r.pc \in MintPlaces /\ r.token # 0 => req[p].pc \in MintPlaces
    PROVE  \E q \in Req, s \in Request : Goes(q, s)
  <1>1. Goes(p, r)
    BY MovesOn DEF Goes, Pending, Minting, MintPlaces
  <1> QED  BY <1>1

\* The requests that AccountStatus starts have nothing to mint.
LEMMA StartGoes ==
    ASSUME SessionInv, NEW p \in Req, NEW op \in Op \ {"none"}, NEW pc, NEW u \in User,
           (pc = "apply" /\ op \in Transition) \/ pc = "checkPurge", Start(p, op, pc, u)
    PROVE  \E q \in Req, r \in Request : Goes(q, r)
  <1> DEFINE r == [Idle EXCEPT !.op = op, !.pc = pc, !.user = u]
  <1>1. r \in Request /\ r.pc = pc /\ r.token = 0
    BY DEF Idle, Request, Record, Op, Place, AuthPlaces, MintPlaces, Transition
  <1>2. req' = [req EXCEPT ![p] = r]
    BY DEF Start
  <1> HIDE DEF r
  <1>3. Goes(p, r)
    BY <1>1, <1>2 DEF Goes, Moves, AuthPlaces, MintPlaces, SessionInv, SessionTypeOK
  <1> QED  BY <1>1, <1>3

\* Steps that leave the accounts and the clock alone.
LEMMA QuietKeepsInv ==
    ASSUME SessionInv, UNCHANGED <<status, closures, created>>, now' \in Nat, Aged,
           req' = req \/ \E p \in Req, r \in Request : Goes(p, r)
    PROVE  SessionInv'
  <1>1. Steady
    BY UnchangedIsSteady DEF SessionInv
  <1> QED  BY <1>1, AgingKeepsInv

LEMMA SameRowsAge ==
    ASSUME SessionInv, UNCHANGED tokens
    PROVE  Aged
  BY DroppingAges DEF SessionInv, SessionTypeOK, RotationInv

LEMMA FewerRowsAge ==
    ASSUME SessionInv, tokens' \subseteq tokens
    PROVE  Aged
  BY DroppingAges DEF SessionInv, SessionTypeOK, RotationInv

LEMMA RevokedRowsAge ==
    ASSUME SessionInv, NEW D,
           \A t \in tokens' : \E s \in tokens :
                t = IF s \in D THEN [s EXCEPT !.revoked = TRUE] ELSE s
    PROVE  Aged
  BY RevokingAges DEF SessionInv, SessionTypeOK, RotationInv

-----------------------------------------------------------------------------
(* AccountStatus. *)

LEMMA TransitionAges ==
    ASSUME SessionInv, NEW p \in Req, req[p].pc \in {"apply", "reactivate"}, ApplyTransition(p)
    PROVE  Aged /\ Steady
  <1> DEFINE u == req[p].user
             next == Target(req[p].op)
             D == {t \in tokens : t.user = u}
  <1>1. u \in User /\ next \in Status
    BY RequestFacts DEF Target, Status, Transition
  <1>2. WriteStatus(u, next)
        /\ IF next = "active" THEN UNCHANGED tokens
           ELSE tokens' = {IF t.user = u THEN [t EXCEPT !.revoked = TRUE] ELSE t : t \in tokens}
    BY DEF ApplyTransition, RevokeWhere
  <1> HIDE DEF next, u
  <1>3. Steady
    BY <1>1, <1>2, WritingIsSteady DEF SessionInv
  <1>4. Aged
    <2>1. CASE next = "active"
      BY <1>2, <2>1, SameRowsAge
    <2>2. CASE next # "active"
      <3>1. \A t \in tokens' : \E s \in tokens :
                t = IF s \in D THEN [s EXCEPT !.revoked = TRUE] ELSE s
        BY <1>2, <2>2
      <3> QED  BY <3>1, RevokedRowsAge
    <2> QED  BY <2>1, <2>2
  <1> QED  BY <1>3, <1>4

LEMMA StartedKeepsInv ==
    ASSUME SessionInv, UNCHANGED clock, NEW p \in Req, NEW u \in User,
           \/ \E op \in {"activate", "ban", "deactivate"} : SetStatus(p, u, op)
           \/ SoftDelete(p, u) \/ Restore(p, u) \/ PickInactive(p, u) \/ PickForPurge(p, u)
    PROVE  SessionInv'
  <1>1. UNCHANGED <<status, closures, created, now, tokens>>
    BY DEF SetStatus, SoftDelete, Restore, PickInactive, PickForPurge, userVars, clock
  <1>2. \E q \in Req, r \in Request : Goes(q, r)
    <2>1. ASSUME NEW op \in {"activate", "ban", "deactivate"}, SetStatus(p, u, op)
          PROVE  \E q \in Req, r \in Request : Goes(q, r)
      BY <2>1, StartGoes DEF SetStatus, Op, Transition
    <2>2. CASE SoftDelete(p, u)
      BY <2>2, StartGoes DEF SoftDelete, Op, Transition
    <2>3. CASE Restore(p, u)
      BY <2>3, StartGoes DEF Restore, Op, Transition
    <2>4. CASE PickInactive(p, u)
      BY <2>4, StartGoes DEF PickInactive, Op, Transition
    <2>5. CASE PickForPurge(p, u)
      BY <2>5, StartGoes DEF PickForPurge, Op, Transition
    <2> QED  BY <2>1, <2>2, <2>3, <2>4, <2>5
  <1>3. Aged
    BY <1>1, SameRowsAge
  <1>4. now' \in Nat
    BY <1>1 DEF SessionInv, SessionTypeOK
  <1> QED  BY <1>1, <1>2, <1>3, <1>4, QuietKeepsInv

LEMMA StatusKeepsInv ==
    ASSUME SessionInv, StatusNext, UNCHANGED clock
    PROVE  SessionInv'
  <1>1. now' \in Nat /\ created' = created
    BY DEF clock, SessionInv, SessionTypeOK
  <1>2. ASSUME NEW p \in Req, NEW u \in User,
               \/ \E op \in {"activate", "ban", "deactivate"} : SetStatus(p, u, op)
               \/ SoftDelete(p, u) \/ Restore(p, u) \/ PickInactive(p, u) \/ PickForPurge(p, u)
        PROVE  SessionInv'
    BY <1>2, StartedKeepsInv
  <1>3. ASSUME NEW p \in Req, FinishTransition(p) PROVE SessionInv'
    <2>1. Aged /\ Steady
      BY <1>3, TransitionAges DEF FinishTransition, At
    <2> QED  BY <1>1, <1>3, <2>1, EndGoes, AgingKeepsInv DEF FinishTransition
  <1>4. ASSUME NEW p \in Req, CheckPurge(p) PROVE SessionInv'
    <2>1. Continue(p, "purge") \/ End(p)
      BY <1>4 DEF CheckPurge
    <2>2. UNCHANGED <<status, closures, created, tokens>> /\ req[p].pc = "checkPurge"
      BY <1>1, <1>4 DEF CheckPurge, At, userVars
    <2>3. Steady /\ Aged
      BY <2>2, UnchangedIsSteady, SameRowsAge DEF SessionInv
    <2>4. \E q \in Req, r \in Request : Goes(q, r)
      <3>1. CASE Continue(p, "purge")
        <4> DEFINE r == [req[p] EXCEPT !.pc = "purge"]
        <4>1. r \in Request /\ req' = [req EXCEPT ![p] = r]
              /\ r.pc = "purge" /\ r.token = req[p].token /\ r.user = req[p].user
              /\ r.auth = req[p].auth
          BY <2>2, <3>1, RequestFacts DEF Continue, Request, Record, Place
        <4> HIDE DEF r
        <4> QED  BY <2>3, <4>1, GoesOn DEF AuthPlaces, MintPlaces
      <3> QED  BY <2>1, <3>1, EndGoes
    <2> QED  BY <1>1, <2>3, <2>4, AgingKeepsInv
  <1>5. ASSUME NEW p \in Req, Anonymize(p) PROVE SessionInv'
    <2>1. UNCHANGED <<status, closures>> /\ tokens' \subseteq tokens /\ End(p)
      BY <1>5 DEF Anonymize
    <2> QED  BY <1>1, <2>1, FewerRowsAge, EndGoes, QuietKeepsInv
  <1>6. ASSUME NEW u \in User, GraceElapses(u) \/ BecomeDormant(u) PROVE SessionInv'
    <2>1. UNCHANGED <<status, closures, tokens, req>>
      BY <1>6 DEF GraceElapses, BecomeDormant
    <2> QED  BY <1>1, <2>1, SameRowsAge, QuietKeepsInv
  <1> QED  BY <1>2, <1>3, <1>4, <1>5, <1>6 DEF StatusNext
-----------------------------------------------------------------------------
(* Logins and refreshes, until they mint. *)

LEMMA LoginKeepsInv ==
    ASSUME SessionInv, NEW p \in Req, NEW u \in User, NEW d \in Device \cup {None}, Login(p, u, d)
    PROVE  SessionInv'
  <1> DEFINE place == IF status[u] = "active" THEN "seen" ELSE "reactivate"
             r == [Idle EXCEPT !.op = "login", !.user = u, !.device = d,
                               !.pc = place, !.auth = closures[u]]
  <1>1. closures[u] \in Nat /\ created \in Nat /\ now \in Nat
    BY DEF SessionInv, SessionTypeOK
  <1>2. r \in Request /\ r.token = 0 /\ r.user = u /\ r.auth = closures[u] /\ r.pc = place
    BY <1>1 DEF Idle, Request, Record, Op, Place, AuthPlaces
  <1>3. UNCHANGED <<status, closures, created, now, tokens>> /\ req' = [req EXCEPT ![p] = r]
    BY DEF Login, userVars, clock
  <1> HIDE DEF r
  <1>4. r.pc \in AuthPlaces => StillStanding(r.auth, r.user)
    BY <1>1, <1>2, <1>3 DEF StillStanding, Stands, AuthPlaces, MintPlaces
  <1>5. r.pc \notin MintPlaces /\ r.token \in 0..created
    BY <1>1, <1>2 DEF MintPlaces
  <1>6. Goes(p, r)
    BY <1>2, <1>3, <1>4, <1>5 DEF Goes, Moves
  <1> QED  BY <1>1, <1>2, <1>3, <1>6, SameRowsAge, QuietKeepsInv

LEMMA RefreshKeepsInv ==
    ASSUME SessionInv, NEW p \in Req, NEW t \in tokens, Refresh(p, t)
    PROVE  SessionInv'
  <1> DEFINE place == IF t.revoked THEN "revokeAll" ELSE "ownerCheck"
             r == [Idle EXCEPT !.op = "refresh", !.user = t.user, !.device = t.device,
                               !.token = t.id, !.pc = place]
  <1>1. t \in Token /\ t.id \in 0..created /\ now \in Nat
    BY DEF SessionInv, SessionTypeOK, RotationInv
  <1>2. r \in Request /\ r.token = t.id /\ r.pc = place
    BY <1>1 DEF Idle, Request, Record, Op, Place, AuthPlaces, Token
  <1>3. UNCHANGED <<status, closures, created, now, tokens>> /\ req' = [req EXCEPT ![p] = r]
    BY DEF Refresh, userVars, clock
  <1> HIDE DEF r
  <1>4. Goes(p, r)
    BY <1>1, <1>2, <1>3 DEF Goes, Moves, AuthPlaces, MintPlaces
  <1> QED  BY <1>1, <1>2, <1>3, <1>4, SameRowsAge, QuietKeepsInv

LEMMA ReactivateKeepsInv ==
    ASSUME SessionInv, NEW p \in Req, ReactivateOnLogin(p)
    PROVE  SessionInv'
  <1> DEFINE u == req[p].user
             r == [req[p] EXCEPT !.pc = "seen", !.auth = closures[u]]
  <1>1. req[p].pc = "reactivate" /\ u \in User /\ req[p].op = "login"
        /\ req[p] \in Request /\ req[p].token = 0
    BY RequestFacts DEF ReactivateOnLogin, At, Request
  <1>2. Aged /\ Steady
    BY <1>1, TransitionAges DEF ReactivateOnLogin
  <1>3. status' = [status EXCEPT ![u] = "active"] /\ closures' = [closures EXCEPT ![u] = @ + 0]
    BY <1>1 DEF ReactivateOnLogin, ApplyTransition, WriteStatus, Target
  <1>4. closures[u] \in Nat /\ created \in Nat /\ now \in Nat
        /\ u \in DOMAIN status /\ u \in DOMAIN closures
    BY <1>1 DEF SessionInv, SessionTypeOK
  <1>5. r \in Request /\ r.pc = "seen" /\ r.auth = closures[u] /\ r.user = u /\ r.token = 0
    BY <1>1, <1>4 DEF Request, Record, Place, AuthPlaces
  <1>6. req' = [req EXCEPT ![p] = r] /\ UNCHANGED <<now, created>>
    BY DEF ReactivateOnLogin, clock
  <1> HIDE DEF r, u
  <1>7. StillStanding(r.auth, r.user)
    BY <1>3, <1>4, <1>5 DEF StillStanding, Stands
  <1>8. Goes(p, r)
    BY <1>4, <1>5, <1>6, <1>7 DEF Goes, Moves, MintPlaces
  <1> QED  BY <1>2, <1>4, <1>5, <1>6, <1>8, AgingKeepsInv

\* Steps that only change the place of a request, and its rows.
LEMMA ContinueGoes ==
    ASSUME SessionInv, UNCHANGED <<status, closures>>, NEW p \in Req, NEW pc, Continue(p, pc),
           \/ pc = "replace" /\ req[p].pc = "seen"
           \/ pc = "sign" /\ req[p].pc = "replace"
           \/ pc = "create" /\ req[p].pc = "evict"
    PROVE  \E q \in Req, r \in Request : Goes(q, r)
  <1> DEFINE r == [req[p] EXCEPT !.pc = pc]
  <1>1. req[p] \in Request
    BY RequestFacts
  <1>2. r \in Request /\ req' = [req EXCEPT ![p] = r] /\ r.pc = pc
        /\ r.token = req[p].token /\ r.user = req[p].user /\ r.auth = req[p].auth
        /\ (pc = "sign" => r.token = 0)
    BY <1>1 DEF Continue, Request, Record, Place, AuthPlaces, MintPlaces
  <1> HIDE DEF r
  <1>3. Steady
    BY UnchangedIsSteady DEF SessionInv
  <1> QED  BY <1>2, <1>3, GoesOn DEF AuthPlaces, MintPlaces

LEMMA BeforeMintingKeepsInv ==
    ASSUME SessionInv, NEW p \in Req,
           UpdateLastLogin(p) \/ ReplaceDeviceSession(p) \/ CheckOwner(p) \/ RevokeAll(p)
    PROVE  SessionInv'
  <1>1. now' \in Nat /\ UNCHANGED <<status, closures, created>>
    BY DEF UpdateLastLogin, ReplaceDeviceSession, CheckOwner, RevokeAll, clock, userVars,
           SessionInv, SessionTypeOK
  <1>2. CASE UpdateLastLogin(p)
    <2>1. Aged
      BY <1>2, SameRowsAge DEF UpdateLastLogin
    <2>2. \E q \in Req, r \in Request : Goes(q, r)
      BY <1>1, <1>2, ContinueGoes DEF UpdateLastLogin, At
    <2> QED  BY <1>1, <2>1, <2>2, QuietKeepsInv
  <1>3. CASE ReplaceDeviceSession(p)
    <2>1. Aged
      <3> DEFINE D == {t \in tokens : t.user = req[p].user /\ t.device = req[p].device}
      <3>1. CASE req[p].device = None
        BY <1>3, <3>1, SameRowsAge DEF ReplaceDeviceSession
      <3>2. CASE req[p].device # None
        <4>1. tokens' = {IF t.user = req[p].user /\ t.device = req[p].device
                         THEN [t EXCEPT !.revoked = TRUE] ELSE t : t \in tokens}
          BY <1>3, <3>2 DEF ReplaceDeviceSession, RevokeWhere
        <4>2. \A t \in tokens' : \E s \in tokens :
                t = IF s \in D THEN [s EXCEPT !.revoked = TRUE] ELSE s
          BY <4>1
        <4> QED  BY <4>2, RevokedRowsAge
      <3> QED  BY <3>1, <3>2
    <2>2. \E q \in Req, r \in Request : Goes(q, r)
      BY <1>1, <1>3, ContinueGoes DEF ReplaceDeviceSession, At
    <2> QED  BY <1>1, <2>1, <2>2, QuietKeepsInv
  <1>4. CASE CheckOwner(p)
    <2> DEFINE u == req[p].user
               place == IF status[u] = "active" THEN "rotate" ELSE "revokeAll"
               r == [req[p] EXCEPT !.pc = place, !.auth = closures[u]]
    <2>1. req[p].pc = "ownerCheck" /\ req[p] \in Request /\ u \in User
          /\ req[p].token \in 0..created
      BY <1>4, RequestFacts DEF CheckOwner, At
    <2>2. closures[u] \in Nat
      BY <2>1 DEF SessionInv, SessionTypeOK
    <2>3. r \in Request /\ r.pc = place /\ r.auth = closures[u] /\ r.user = u
          /\ r.token = req[p].token
      BY <2>1, <2>2 DEF Request, Record, Place, AuthPlaces
    <2>4. req' = [req EXCEPT ![p] = r] /\ UNCHANGED tokens
      BY <1>4 DEF CheckOwner
    <2> HIDE DEF r
    <2>5. r.pc \in AuthPlaces => StillStanding(r.auth, r.user)
      BY <1>1, <2>2, <2>3 DEF StillStanding, Stands, AuthPlaces, MintPlaces
    <2>6. Goes(p, r)
      BY <2>1, <2>3, <2>4, <2>5 DEF Goes, Moves, MintPlaces
    <2> QED  BY <1>1, <2>3, <2>4, <2>6, SameRowsAge, QuietKeepsInv
  <1>5. CASE RevokeAll(p)
    <2> DEFINE D == {t \in tokens : t.user = req[p].user}
    <2>1. \/ tokens' = {IF t.user = req[p].user THEN [t EXCEPT !.revoked = TRUE] ELSE t
                            : t \in tokens}
          \/ UNCHANGED tokens
      BY <1>5 DEF RevokeAll, RevokeWhere
    <2>2. Aged
      <3>1. CASE UNCHANGED tokens
        BY <3>1, SameRowsAge
      <3>2. CASE ~UNCHANGED tokens
        <4>1. \A t \in tokens' : \E s \in tokens :
                t = IF s \in D THEN [s EXCEPT !.revoked = TRUE] ELSE s
          BY <2>1, <3>2
        <4> QED  BY <4>1, RevokedRowsAge
      <3> QED  BY <3>1, <3>2
    <2> QED  BY <1>1, <1>5, <2>2, EndGoes, QuietKeepsInv DEF RevokeAll
  <1> QED  BY <1>2, <1>3, <1>4, <1>5

(***************************************************************************)
(* The guarded update: the request that flips the row is the first to mint *)
(* from it, since whoever minted from it before left it revoked.           *)
(***************************************************************************)
LEMMA RotateKeepsInv ==
    ASSUME SessionInv, NEW p \in Req, Rotate(p)
    PROVE  SessionInv'
  <1> DEFINE k0 == req[p].token
             flips == {t \in tokens : t.id = k0 /\ Live(t)}
             r == [req[p] EXCEPT !.pc = "sign"]
  <1>1. UNCHANGED <<status, closures, now, created>> /\ now \in Nat /\ created \in Nat
        /\ tokens \subseteq Token /\ req \in [Req -> Request]
    BY DEF Rotate, userVars, clock, SessionInv, SessionTypeOK
  <1>2. req[p].pc = "rotate" /\ req[p] \in Request
    BY RequestFacts DEF Rotate, At
  <1>3. tokens' = {IF t \in flips THEN [t EXCEPT !.revoked = TRUE] ELSE t : t \in tokens}
    BY DEF Rotate, RevokeWhere
  <1>4. IF flips # {} THEN Continue(p, "sign") ELSE End(p)
    BY DEF Rotate
  <1>5. Aged
    <2>1. \A t \in tokens' : \E s \in tokens :
                t = IF s \in flips THEN [s EXCEPT !.revoked = TRUE] ELSE s
      BY <1>3
    <2> QED  BY <2>1, RevokedRowsAge
  <1>6. Steady
    BY <1>1, UnchangedIsSteady DEF SessionInv
  <1>7. CASE flips = {}
    BY <1>1, <1>4, <1>5, <1>7, EndGoes, QuietKeepsInv
  <1>8. CASE flips # {}
    <2>1. r \in Request /\ r.pc = "sign" /\ r.token = k0 /\ r.user = req[p].user
          /\ r.auth = req[p].auth /\ req' = [req EXCEPT ![p] = r]
      BY <1>2, <1>4, <1>8 DEF Continue, Request, Record, Place, AuthPlaces, MintPlaces
    <2>2. PICK t0 \in tokens : t0.id = k0 /\ ~t0.revoked
      BY <1>8 DEF Live
    <2>3. \A t \in tokens' : t.id = k0 => t.revoked
      <3> SUFFICES ASSUME NEW s \in tokens, s.id = k0
                   PROVE  (IF s \in flips THEN [s EXCEPT !.revoked = TRUE] ELSE s).revoked
        BY <1>1, <1>3 DEF Token
      <3>1. s = t0 /\ s \in flips
        BY <2>2 DEF SessionInv, RotationInv, UniqueIds, Live
      <3> QED  BY <1>1, <3>1 DEF Token
    <2>4. Moves(p, r)
      <3> HIDE DEF r
      <3> QED  BY <1>2, <1>6, <2>1, MovesOn DEF AuthPlaces
    <2>5. /\ SessionTypeOK' /\ ClosingInv'
          /\ \A t \in tokens' : t.id \in 1..created' /\ t.parent \in 0..created'
          /\ \A q \in Req : req'[q].token \in 0..created'
      <3> HIDE DEF r
      <3>1. \E q \in Req, s \in Request : Moves(q, s)
        BY <2>1, <2>4
      <3> QED  BY <1>1, <1>5, <1>6, <3>1, AgingKeepsTypes
    <2>6. \A q \in Req : req'[q] = IF q = p THEN r ELSE req[q]
      BY <1>1, <2>1
    <2>7. ASSUME NEW k \in 1..created' PROVE MintedOnce(k)'
      <3>1. MintedOnce(k) /\ k \in 1..created
        BY <1>1 DEF SessionInv, RotationInv
      <3>2. CASE k # k0
        <4>1. \A q \in Req : Pending(q, k)' => Pending(q, k)
          BY <2>1, <2>6, <3>2 DEF Pending, Minting
        <4> QED  BY <1>5, <3>1, <4>1, FewerToMint
      <3>3. CASE k = k0
        <4>1. \A t \in tokens : ~Child(t, k)
          BY <2>2, <3>1, <3>3 DEF MintedOnce
        <4>2. \A q \in Req : ~Pending(q, k)
          BY <2>2, <3>1, <3>3 DEF MintedOnce
        <4>3. \A t \in tokens' : ~Child(t, k)
          BY <1>5, <4>1 DEF Aged, Outlives, Child
        <4>4. \A q \in Req : Pending(q, k)' => q = p
          BY <2>6, <4>2 DEF Pending, Minting
        <4> QED  BY <2>3, <3>3, <4>3, <4>4 DEF MintedOnce, Child
      <3> QED  BY <3>2, <3>3
    <2> QED  BY <1>5, <2>5, <2>7 DEF SessionInv, RotationInv, Aged
  <1> QED  BY <1>7, <1>8
-----------------------------------------------------------------------------
(* generateTokens. *)

LEMMA SignKeepsInv ==
    ASSUME SessionInv, NEW p \in Req, SignToken(p)
    PROVE  SessionInv'
  <1> DEFINE r == [req[p] EXCEPT !.pc = "limit", !.iat = now]
  <1>1. UNCHANGED <<status, closures, now, created>> /\ now \in Nat /\ tokens' \subseteq tokens
    BY DEF SignToken, DropExpired, userVars, clock, SessionInv, SessionTypeOK
  <1>2. req[p].pc = "sign" /\ req[p] \in Request
    BY RequestFacts DEF SignToken, At
  <1>3. r \in Request /\ req' = [req EXCEPT ![p] = r] /\ r.pc = "limit"
        /\ r.token = req[p].token /\ r.user = req[p].user /\ r.auth = req[p].auth
    BY <1>1, <1>2 DEF SignToken, Request, Record, Place, AuthPlaces, MintPlaces
  <1> HIDE DEF r
  <1>4. Steady
    BY <1>1, UnchangedIsSteady DEF SessionInv
  <1>5. \E q \in Req, s \in Request : Goes(q, s)
    BY <1>2, <1>3, <1>4, GoesOn DEF AuthPlaces, MintPlaces
  <1> QED  BY <1>1, <1>5, FewerRowsAge, QuietKeepsInv

LEMMA ReadKeepsInv ==
    ASSUME SessionInv, NEW p \in Req, ReadSessions(p)
    PROVE  SessionInv'
  <1>1. UNCHANGED <<status, closures, now, created, tokens>> /\ now \in Nat
        /\ tokens \subseteq Token
    BY DEF ReadSessions, userVars, clock, SessionInv, SessionTypeOK
  <1>2. req[p].pc = "limit" /\ req[p] \in Request
    BY RequestFacts DEF ReadSessions, At
  <1>3. PICK evicted \in SUBSET tokens :
            req' = [req EXCEPT ![p].evicted = {t.id : t \in evicted},
                               ![p].pc = IF evicted = {} THEN "create" ELSE "evict"]
    BY DEF ReadSessions, Active
  <1> DEFINE ids == {t.id : t \in evicted}
             place == IF evicted = {} THEN "create" ELSE "evict"
             r == [req[p] EXCEPT !.evicted = ids, !.pc = place]
  <1>4. ids \in SUBSET Nat
    BY <1>1 DEF Token
  <1>5. place \in {"create", "evict"}
    OBVIOUS
  <1>6. req' = [req EXCEPT ![p] = r]
    BY <1>2, <1>3
  <1> HIDE DEF ids, place
  <1>7. r \in Request /\ r.pc = place
        /\ r.token = req[p].token /\ r.user = req[p].user /\ r.auth = req[p].auth
    BY <1>2, <1>4, <1>5 DEF Request, Record, Place, AuthPlaces, MintPlaces
  <1> HIDE DEF r
  <1>8. Steady
    BY <1>1, UnchangedIsSteady DEF SessionInv
  <1>9. \E q \in Req, s \in Request : Goes(q, s)
    BY <1>2, <1>5, <1>6, <1>7, <1>8, GoesOn DEF AuthPlaces, MintPlaces
  <1> QED  BY <1>1, <1>9, SameRowsAge, QuietKeepsInv

LEMMA EvictKeepsInv ==
    ASSUME SessionInv, NEW p \in Req, EvictOldest(p)
    PROVE  SessionInv'
  <1> DEFINE D == {t \in tokens : t.id \in req[p].evicted}
  <1>1. UNCHANGED <<status, closures, now, created>> /\ now \in Nat
        /\ tokens' = {IF t.id \in req[p].evicted THEN [t EXCEPT !.revoked = TRUE] ELSE t : t \in tokens}
    BY DEF EvictOldest, RevokeWhere, userVars, clock, SessionInv, SessionTypeOK
  <1>2. \A t \in tokens' : \E s \in tokens :
                t = IF s \in D THEN [s EXCEPT !.revoked = TRUE] ELSE s
    BY <1>1
  <1>3. \E q \in Req, r \in Request : Goes(q, r)
    BY <1>1, ContinueGoes DEF EvictOldest, At
  <1> QED  BY <1>1, <1>2, <1>3, RevokedRowsAge, QuietKeepsInv

\* A failure of limitActiveTokens sends the request on, with nothing evicted.
LEMMA LimitFailureKeepsInv ==
    ASSUME SessionInv, NEW p \in Req, LimitFails(p)
    PROVE  SessionInv'
  <1> DEFINE r == [req[p] EXCEPT !.evicted = {}, !.pc = "create"]
  <1>1. UNCHANGED <<status, closures, now, created, tokens>> /\ now \in Nat
    BY DEF LimitFails, userVars, SessionInv, SessionTypeOK
  <1>2. req[p].pc \in {"limit", "evict"} /\ req[p] \in Request
        /\ req' = [req EXCEPT ![p].evicted = {}, ![p].pc = "create"]
    BY RequestFacts DEF LimitFails
  <1>3. req' = [req EXCEPT ![p] = r]
    BY <1>2
  <1>4. r \in Request /\ r.pc = "create"
        /\ r.token = req[p].token /\ r.user = req[p].user /\ r.auth = req[p].auth
    BY <1>2 DEF Request, Record, Place, AuthPlaces, MintPlaces
  <1> HIDE DEF r
  <1>5. Steady
    BY <1>1, UnchangedIsSteady DEF SessionInv
  <1>6. \E q \in Req, s \in Request : Goes(q, s)
    BY <1>2, <1>3, <1>4, <1>5, GoesOn DEF AuthPlaces, MintPlaces
  <1> QED  BY <1>1, <1>6, SameRowsAge, QuietKeepsInv

\* Any other failure ends the request, and leaves the rows as they are.
LEMMA FailureKeepsInv ==
    ASSUME SessionInv, NEW p \in Req, RequestFails(p)
    PROVE  SessionInv'
  <1>1. UNCHANGED <<status, closures, now, created, tokens>> /\ now' \in Nat /\ End(p)
    BY DEF RequestFails, userVars, clock, SessionInv, SessionTypeOK
  <1> QED  BY <1>1, EndGoes, SameRowsAge, QuietKeepsInv

(***************************************************************************)
(* The new row takes the place of the request that was to mint it.         *)
(***************************************************************************)
LEMMA CreateKeepsInv ==
    ASSUME SessionInv, NEW p \in Req, CreateToken(p)
    PROVE  SessionInv'
  <1>1. UNCHANGED <<status, closures, now>> /\ now \in Nat /\ created \in Nat /\ End(p)
        /\ tokens \subseteq Token /\ req \in [Req -> Request]
    BY DEF CreateToken, SessionInv, SessionTypeOK
  <1>2. CASE SameHash(p)
    <2>1. UNCHANGED <<tokens, created>>
      BY <1>2 DEF CreateToken
    <2> QED  BY <1>1, <2>1, SameRowsAge, EndGoes, QuietKeepsInv
  <1>3. CASE ~SameHash(p)
    <2> DEFINE k0 == req[p].token
               new == [id |-> created + 1, user |-> req[p].user, device |-> req[p].device,
                       iat |-> req[p].iat, expires |-> now + TokenTTL, createdAt |-> now,
                       revoked |-> FALSE, parent |-> req[p].token, auth |-> req[p].auth]
    <2>1. created' = created + 1 /\ tokens' = tokens \cup {new}
      BY <1>3 DEF CreateToken
    <2>2. req[p].pc = "create" /\ req[p] \in Request /\ req[p].user \in User
          /\ k0 \in 0..created /\ Standing(req[p].auth, req[p].user)
      BY RequestFacts DEF CreateToken, At, AuthPlaces, MintPlaces
    <2>3. new \in Token
      BY <1>1, <2>2, SessionConstants DEF Token, Request, Record
    <2>4. \A q \in Req : req'[q] = IF q = p THEN Idle ELSE req[q]
      BY <1>1 DEF End
    <2>5. new.id = created + 1 /\ new.parent = k0 /\ new.auth = req[p].auth
          /\ new.user = req[p].user /\ ~new.revoked
      OBVIOUS
    <2> HIDE DEF new
    <2>6. SessionTypeOK'
      <3>1. req' \in [Req -> Request]
        BY <1>1, IdleIsRequest DEF End
      <3>2. status' \in [User -> Status] /\ closures' \in [User -> Nat]
        BY <1>1 DEF SessionInv, SessionTypeOK
      <3> QED  BY <1>1, <2>1, <2>3, <3>1, <3>2 DEF SessionTypeOK
    <2>7. ClosingInv'
      <3>1. \A t \in tokens' : Live(t) => StillStanding(t.auth, t.user)
        BY <1>1, <2>1, <2>2, <2>5 DEF SessionInv, ClosingInv, Live, Standing, StillStanding
      <3>2. \A q \in Req : req'[q].pc \in AuthPlaces => StillStanding(req'[q].auth, req'[q].user)
        BY <1>1, <2>4, IdleIsRequest
           DEF SessionInv, ClosingInv, AuthPlaces, MintPlaces, Standing, StillStanding
      <3> QED  BY <3>1, <3>2 DEF ClosingInv, Live, Standing, StillStanding
    <2>8. \A t \in tokens : t.id \in 1..created /\ t.parent \in 0..created
      BY DEF SessionInv, RotationInv
    <2>9. UniqueIds'
      BY <1>1, <2>1, <2>5, <2>8 DEF SessionInv, RotationInv, UniqueIds
    <2>10. \A t \in tokens' : t.id \in 1..created' /\ t.parent \in 0..created'
      BY <1>1, <2>1, <2>2, <2>5, <2>8
    <2>11. \A q \in Req : req[q].token \in 0..created
      BY DEF SessionInv, RotationInv
    <2>12. \A q \in Req : req'[q].token \in 0..created'
      BY <1>1, <2>1, <2>4, <2>11, IdleIsRequest
    <2>13. \A k : \A q \in Req : Pending(q, k)' => q # p /\ Pending(q, k)
      BY <2>4, IdleIsRequest DEF Pending, Minting
    <2>14. ASSUME NEW k \in 1..created' PROVE MintedOnce(k)'
      <3>1. CASE k = created + 1
        <4>1. \A t \in tokens' : ~Child(t, k)
          BY <1>1, <2>1, <2>2, <2>5, <2>8, <3>1 DEF Child
        <4>2. \A q \in Req : ~Pending(q, k)'
          BY <1>1, <2>11, <2>13, <3>1 DEF Pending
        <4> QED  BY <4>1, <4>2 DEF MintedOnce, Child
      <3>2. CASE k \in 1..created
        <4>1. MintedOnce(k)
          BY <3>2 DEF SessionInv, RotationInv
        <4>2. Child(new, k) <=> Pending(p, k)
          BY <2>2, <2>5 DEF Child, Pending, Minting
        <4>3. \A t \in tokens' : t = new \/ t \in tokens
          BY <2>1
        <4>4. new.id # k
          BY <1>1, <2>5, <3>2
        <4>5. \A s, t \in tokens' : Child(s, k) /\ Child(t, k) => s.id = t.id
          BY <4>1, <4>2, <4>3 DEF MintedOnce
        <4>6. \A q, s \in Req : Pending(q, k)' /\ Pending(s, k)' => q = s
          BY <2>13, <4>1 DEF MintedOnce
        <4>7. \A t \in tokens', q \in Req : ~(Child(t, k) /\ Pending(q, k)')
          BY <2>13, <4>1, <4>2, <4>3 DEF MintedOnce
        <4>8. (\E t \in tokens' : Child(t, k)) \/ (\E q \in Req : Pending(q, k)')
                => \A t \in tokens' : t.id = k => t.revoked
          BY <2>13, <4>1, <4>2, <4>3, <4>4 DEF MintedOnce
        <4> QED  BY <4>5, <4>6, <4>7, <4>8 DEF MintedOnce, Child
      <3> QED  BY <1>1, <2>1, <3>1, <3>2
    <2> QED  BY <2>6, <2>7, <2>9, <2>10, <2>12, <2>14 DEF SessionInv, RotationInv
  <1> QED  BY <1>2, <1>3

-----------------------------------------------------------------------------
(* The requests of one statement, the daily job and time. *)

LEMMA RevocationKeepsInv ==
    ASSUME SessionInv, NEW D, UNCHANGED <<userVars, req, closures, clock>>,
           \A t \in tokens' : \E s \in tokens :
                t = IF s \in D THEN [s EXCEPT !.revoked = TRUE] ELSE s
    PROVE  SessionInv'
  <1>1. UNCHANGED <<status, closures, created, req>> /\ now' \in Nat
    BY DEF userVars, clock, SessionInv, SessionTypeOK
  <1> QED  BY <1>1, RevokedRowsAge, QuietKeepsInv

LEMMA OneStatementKeepsInv ==
    ASSUME SessionInv,
           \/ \E t \in tokens : RevokeSession(t) \/ Logout(t)
           \/ \E u \in User, t \in tokens : RevokeUserSession(u, t)
           \/ \E u \in User : RevokeAllUserSessions(u)
           \/ \E u \in User, keep \in 0 .. created : RevokeAllOtherSessions(u, keep)
    PROVE  SessionInv'
  <1>1. ASSUME NEW t \in tokens, RevokeSession(t) \/ Logout(t) PROVE SessionInv'
    <2> DEFINE D == {s \in tokens : s.id = t.id}
    <2>1. UNCHANGED <<userVars, req, closures, clock>>
          /\ tokens' = {IF s.id = t.id THEN [s EXCEPT !.revoked = TRUE] ELSE s : s \in tokens}
      BY <1>1 DEF RevokeSession, Logout, RevokeWhere
    <2>2. \A s1 \in tokens' : \E s \in tokens :
                s1 = IF s \in D THEN [s EXCEPT !.revoked = TRUE] ELSE s
      BY <2>1
    <2> QED  BY <2>1, <2>2, RevocationKeepsInv
  <1>2. ASSUME NEW u \in User, NEW t \in tokens, RevokeUserSession(u, t) PROVE SessionInv'
    <2> DEFINE D == {s \in tokens : s.id = t.id /\ s.user = u}
    <2>1. UNCHANGED <<userVars, req, closures, clock>>
          /\ tokens' = {IF s.id = t.id /\ s.user = u THEN [s EXCEPT !.revoked = TRUE] ELSE s : s \in tokens}
      BY <1>2 DEF RevokeUserSession, RevokeWhere
    <2>2. \A s1 \in tokens' : \E s \in tokens :
                s1 = IF s \in D THEN [s EXCEPT !.revoked = TRUE] ELSE s
      BY <2>1
    <2> QED  BY <2>1, <2>2, RevocationKeepsInv
  <1>3. ASSUME NEW u \in User, RevokeAllUserSessions(u) PROVE SessionInv'
    <2> DEFINE D == {s \in tokens : s.user = u}
    <2>1. UNCHANGED <<userVars, req, closures, clock>>
          /\ tokens' = {IF s.user = u THEN [s EXCEPT !.revoked = TRUE] ELSE s : s \in tokens}
      BY <1>3 DEF RevokeAllUserSessions, RevokeWhere
    <2>2. \A s1 \in tokens' : \E s \in tokens :
                s1 = IF s \in D THEN [s EXCEPT !.revoked = TRUE] ELSE s
      BY <2>1
    <2> QED  BY <2>1, <2>2, RevocationKeepsInv
  <1>4. ASSUME NEW u \in User, NEW keep \in 0 .. created, RevokeAllOtherSessions(u, keep)
        PROVE  SessionInv'
    <2> DEFINE D == {s \in tokens : s.user = u /\ s.id # keep}
    <2>1. UNCHANGED <<userVars, req, closures, clock>>
          /\ tokens' = {IF s.user = u /\ s.id # keep THEN [s EXCEPT !.revoked = TRUE] ELSE s : s \in tokens}
      BY <1>4 DEF RevokeAllOtherSessions, RevokeWhere
    <2>2. \A s1 \in tokens' : \E s \in tokens :
                s1 = IF s \in D THEN [s EXCEPT !.revoked = TRUE] ELSE s
      BY <2>1
    <2> QED  BY <2>1, <2>2, RevocationKeepsInv
  <1> QED  BY <1>1, <1>2, <1>3, <1>4

LEMMA TimeKeepsInv ==
    ASSUME SessionInv, CleanupExpiredTokens \/ Tick
    PROVE  SessionInv'
  <1>1. UNCHANGED <<status, closures, created, req>> /\ now' \in Nat /\ tokens' \subseteq tokens
    BY DEF CleanupExpiredTokens, Tick, userVars, clock, SessionInv, SessionTypeOK
  <1> QED  BY <1>1, FewerRowsAge, QuietKeepsInv

-----------------------------------------------------------------------------
LEMMA NextKeepsInv == SessionInv /\ [Next]_vars => SessionInv'
  <1> SUFFICES ASSUME SessionInv, [Next]_vars PROVE SessionInv'
    OBVIOUS
  <1>1. ASSUME NEW p \in Req, SessionStep(p) PROVE SessionInv'
    BY <1>1, ReactivateKeepsInv, BeforeMintingKeepsInv, RotateKeepsInv, SignKeepsInv,
       ReadKeepsInv, EvictKeepsInv, LimitFailureKeepsInv, CreateKeepsInv, FailureKeepsInv
    DEF SessionStep
  <1>2. CASE UNCHANGED vars
    <2>1. UNCHANGED <<status, closures, created, req, tokens>> /\ now' \in Nat
      BY <1>2 DEF vars, clock, userVars, SessionInv, SessionTypeOK
    <2> QED  BY <2>1, SameRowsAge, QuietKeepsInv
  <1>3. CASE StatusNext /\ UNCHANGED clock
    BY <1>3, StatusKeepsInv
  <1>4. CASE \/ \E p \in Req, u \in User, d \in Device \cup {None} : Login(p, u, d)
             \/ \E p \in Req, t \in tokens : Refresh(p, t)
    BY <1>4, LoginKeepsInv, RefreshKeepsInv
  <1>5. CASE CleanupExpiredTokens \/ Tick
    BY <1>5, TimeKeepsInv
  <1> QED  BY <1>1, <1>2, <1>3, <1>4, <1>5, OneStatementKeepsInv DEF Next

LEMMA SessionInvHolds == Spec => []SessionInv
  BY InitHolds, NextKeepsInv, PTL DEF Spec

\* limitActiveTokens fails as often as its bound allows, and nothing else counts.
FailuresOK == unlimited \in [User -> 0 .. MaxFailures]

LEMMA FailuresCounted ==
    ASSUME SessionInv, [Next]_vars
    PROVE  \/ UNCHANGED unlimited
           \/ \E p \in Req : LimitFails(p)
  BY DEF Next, SessionStep, ReactivateOnLogin, UpdateLastLogin, ReplaceDeviceSession, CheckOwner,
     Rotate, RevokeAll, SignToken, ReadSessions, EvictOldest, CreateToken, RequestFails, Login,
     Refresh, RevokeSession, Logout, RevokeUserSession, RevokeAllUserSessions,
     RevokeAllOtherSessions, CleanupExpiredTokens, Tick, clock, vars

LEMMA FailuresHold == Spec => []FailuresOK
  <1>1. Init => FailuresOK
    BY SessionConstants DEF Init, FailuresOK
  <1>2. SessionInv /\ FailuresOK /\ [Next]_vars => FailuresOK'
    <2> SUFFICES ASSUME SessionInv, FailuresOK, [Next]_vars PROVE FailuresOK'
      OBVIOUS
    <2>1. CASE UNCHANGED unlimited
      BY <2>1 DEF FailuresOK
    <2>2. ASSUME NEW p \in Req, LimitFails(p) PROVE FailuresOK'
      <3>1. req[p].user \in User
        BY <2>2, RequestFacts DEF LimitFails
      <3> QED  BY <2>2, <3>1, SessionConstants DEF LimitFails, FailuresOK
    <2> QED  BY <2>1, <2>2, FailuresCounted
  <1> QED  BY <1>1, <1>2, SessionInvHolds, PTL DEF Spec

\* The rows of RefreshToken and the requests in flight are always what their
\* columns and their handlers allow; in particular an authority is a count.
THEOREM SessionsTypeCorrect == Spec => [](SessionTypeOK /\ FailuresOK)
  <1>1. SessionInv => SessionTypeOK
    BY DEF SessionInv
  <1> QED  BY <1>1, SessionInvHolds, FailuresHold, PTL

\* applyTransition, refreshToken and generateTokens: whatever races between
\* logins, refreshes and the closing of their account, a live session of a
\* closed account was authorised before its last closing.
THEOREM ClosedStayUnauthorised == Spec => []NoSessionAuthorisedAfterClosing
  <1>1. SessionInv => NoSessionAuthorisedAfterClosing
    BY DEF SessionInv, ClosingInv, Standing, Stands, NoSessionAuthorisedAfterClosing
  <1> QED  BY <1>1, SessionInvHolds, PTL

\* A set with one element at most.
LEMMA AtMostOne ==
    ASSUME NEW S, \A x, y \in S : x = y
    PROVE  /\ S = {} => Cardinality(S) = 0
           /\ S # {} => Cardinality(S) = 1
  <1>1. CASE S = {}
    BY <1>1, FS_EmptySet
  <1>2. CASE S # {}
    <2>1. PICK x \in S : TRUE
      BY <1>2
    <2>2. S = {x}
      BY <2>1
    <2> QED  BY <2>2, <1>2, FS_Singleton
  <1> QED  BY <1>1, <1>2

\* refreshToken's guarded update: however many requests present one token,
\* at once or one after the other, one new token comes of it at most, and the
\* presented one is revoked by then.
THEOREM RotationMintsOnce == Spec => []RotationMintsAtMostOne
  <1>1. SessionInv => RotationMintsAtMostOne
    <2> SUFFICES ASSUME SessionInv, NEW k \in 1 .. created
                 PROVE  LET children == {t \in tokens : t.parent = k}
                            pending  == {p \in Req : Minting(p) /\ req[p].token = k}
                        IN  /\ Cardinality(children) + Cardinality(pending) <= 1
                            /\ children \cup pending # {} =>
                                    \A t \in tokens : t.id = k => t.revoked
      BY DEF RotationMintsAtMostOne
    <2> DEFINE children == {t \in tokens : t.parent = k}
               pending  == {p \in Req : Minting(p) /\ req[p].token = k}
    <2>1. MintedOnce(k) /\ UniqueIds
      BY DEF SessionInv, RotationInv
    <2>2. /\ \A s, t \in children : s = t
          /\ \A p, q \in pending : p = q
          /\ children = {} \/ pending = {}
          /\ children \cup pending # {} => \A t \in tokens : t.id = k => t.revoked
      BY <2>1 DEF MintedOnce, UniqueIds, Child, Pending
    <2> HIDE DEF children, pending
    <2>3. /\ children = {} => Cardinality(children) = 0
          /\ children # {} => Cardinality(children) = 1
          /\ pending = {} => Cardinality(pending) = 0
          /\ pending # {} => Cardinality(pending) = 1
      BY <2>2, AtMostOne
    <2>4. Cardinality(children) + Cardinality(pending) <= 1
      BY <2>2, <2>3
    <2> QED  BY <2>2, <2>4 DEF children, pending
  <1> QED  BY <1>1, SessionInvHolds, PTL

-----------------------------------------------------------------------------
(***************************************************************************)
(* How many sessions the requests that raced can leave.  A request that    *)
(* has read the account's sessions will insert one more next to those it   *)
(* does not evict (Rest).  The more the others have inserted meanwhile,    *)
(* the fewer of them are left to do so: CrowdInv counts the requests with  *)
(* n or more sessions around them, for every n over the limit.  A request  *)
(* whose limit failed joins every crowd, and raises the account's bound.   *)
(***************************************************************************)
LiveRows == {t \in tokens : Live(t)}

Presenting(p) == req[p].pc \in {"ownerCheck", "rotate"}
Inserting(p) == req[p].pc \in {"evict", "create"}

Rest(p) == {t \in Active(req[p].user) : t.id \notin req[p].evicted}
Crowd(u, n) == {p \in Req : Inserting(p) /\ req[p].user = u /\ Cardinality(Rest(p)) >= n}

\* A request holds the account and the device of the token it presents.
PresentedInv ==
    \A p \in Req : Presenting(p) =>
        \A t \in tokens : t.id = req[p].token =>
            t.user = req[p].user /\ t.device = req[p].device

\* What a request evicts are older rows, revoked when it comes to insert.
EvictionInv ==
    \A p \in Req : Inserting(p) =>
        /\ req[p].evicted \subseteq 1 .. created
        /\ req[p].pc = "create" => \A t \in tokens : t.id \in req[p].evicted => t.revoked

CrowdInv ==
    \A u \in User : \A n \in MaxSessions .. Bound(u) : Cardinality(Crowd(u, n)) + n <= Bound(u)

SessionsOn(u, d) == {t \in tokens : t.user = u /\ t.device = d /\ Live(t)}
MintingOn(u, d) == {p \in Req : Minting(p) /\ req[p].user = u /\ req[p].device = d}

LimitInv ==
    /\ FailuresOK
    /\ IsFiniteSet(LiveRows)
    /\ PresentedInv
    /\ EvictionInv
    /\ CrowdInv
    /\ SessionsBounded

-----------------------------------------------------------------------------
(* What every step but an insertion does to the rows.                      *)

Shrinks ==
    /\ created' = created /\ now' \in Nat /\ now' >= now /\ unlimited' = unlimited
    /\ \A t \in tokens' : \E s \in tokens : t = s \/ t = [s EXCEPT !.revoked = TRUE]

LEMMA ShrinkingRows ==
    ASSUME SessionInv, Shrinks
    PROVE  /\ \A t \in tokens' : Live(t) => t \in tokens
           /\ \A t \in tokens' : \E s \in tokens :
                /\ t.id = s.id /\ t.user = s.user /\ t.device = s.device
                /\ s.revoked => t.revoked
  <1>1. tokens \subseteq Token
    BY DEF SessionInv, SessionTypeOK
  <1>2. \A s \in tokens : LET r == [s EXCEPT !.revoked = TRUE]
                          IN  /\ r.id = s.id /\ r.user = s.user /\ r.device = s.device
                              /\ r.revoked
    BY <1>1 DEF Token
  <1> QED  BY <1>2 DEF Shrinks, Live

LEMMA ActiveShrinks ==
    ASSUME SessionInv, Shrinks, NEW u
    PROVE  Active(u)' \subseteq Active(u)
  <1>1. \A t \in tokens' : Live(t) => t \in tokens
    BY ShrinkingRows
  <1>2. \A t \in tokens : t.expires \in Nat
    BY DEF SessionInv, SessionTypeOK, Token
  <1>3. now \in Nat /\ now' \in Nat /\ now' >= now
    BY DEF Shrinks, SessionInv, SessionTypeOK
  <1> QED  BY <1>1, <1>2, <1>3 DEF Active, Live

LEMMA ActiveIsFinite ==
    ASSUME IsFiniteSet(LiveRows), NEW u
    PROVE  IsFiniteSet(Active(u)) /\ Cardinality(Active(u)) \in Nat
  <1>1. Active(u) \subseteq LiveRows
    BY DEF Active, LiveRows
  <1> QED  BY <1>1, FS_Subset, FS_CardinalityType

LEMMA RestIsFinite ==
    ASSUME IsFiniteSet(LiveRows), NEW p
    PROVE  /\ IsFiniteSet(Rest(p)) /\ Cardinality(Rest(p)) \in Nat
           /\ Cardinality(Rest(p)) <= Cardinality(Active(req[p].user))
  <1>1. Rest(p) \subseteq Active(req[p].user)
    BY DEF Rest
  <1> QED  BY <1>1, ActiveIsFinite, FS_Subset, FS_CardinalityType

LEMMA BoundIsNumber ==
    /\ Cardinality(Req) \in Nat /\ MaxSessions - 1 \in Nat
    /\ FailuresOK => \A u \in User : unlimited[u] \in Nat /\ Bound(u) \in Nat
  BY RequestsAreFinite, SessionConstants, FS_CardinalityType DEF Bound, FailuresOK

LEMMA RequestSets ==
    ASSUME NEW S, NEW T, S \subseteq T, T \subseteq Req
    PROVE  /\ Cardinality(S) \in Nat /\ Cardinality(T) \in Nat
           /\ Cardinality(S) <= Cardinality(T) /\ Cardinality(T) <= Cardinality(Req)
  BY RequestsAreFinite, FS_Subset, FS_CardinalityType

LEMMA SessionSets ==
    ASSUME NEW S, NEW T, S \subseteq T, T \subseteq LiveRows, IsFiniteSet(LiveRows)
    PROVE  /\ Cardinality(S) \in Nat /\ Cardinality(T) \in Nat
           /\ Cardinality(S) <= Cardinality(T)
  BY FS_Subset, FS_CardinalityType

LEMMA LiveRowsStayFinite ==
    ASSUME SessionInv, LimitInv, Shrinks
    PROVE  IsFiniteSet(LiveRows)'
  <1>1. LiveRows' \subseteq LiveRows
    BY ShrinkingRows DEF LiveRows, Live
  <1> QED  BY <1>1, FS_Subset DEF LimitInv

LEMMA WithinLimitStays ==
    ASSUME SessionInv, LimitInv, Shrinks
    PROVE  WithinLimit'
  <1> SUFFICES ASSUME NEW u \in User
               PROVE  Cardinality(Active(u)') <= Bound(u)
    BY DEF WithinLimit, Bound, Shrinks
  <1>1. Cardinality(Active(u)') <= Cardinality(Active(u)) /\ Cardinality(Active(u)') \in Nat
        /\ Cardinality(Active(u)) \in Nat
    <2>1. Active(u) \subseteq LiveRows
      BY DEF Active, LiveRows
    <2> QED  BY <2>1, ActiveShrinks, SessionSets DEF LimitInv
  <1> QED  BY <1>1, BoundIsNumber DEF LimitInv, SessionsBounded, WithinLimit

-----------------------------------------------------------------------------
(* What the others' steps, and most of its own, leave of a request.        *)

KeepsMinting(p) ==
    Minting(p)' => /\ Minting(p)
                   /\ req'[p].user = req[p].user /\ req'[p].device = req[p].device

KeepsRest(p) ==
    Inserting(p)' => /\ Inserting(p)
                     /\ req'[p].user = req[p].user /\ req'[p].evicted = req[p].evicted

KeepsInserting(p) ==
    /\ KeepsRest(p)
    /\ req'[p].pc = "create" => req[p].pc = "create"

KeepsPresenting(p) ==
    Presenting(p)' => /\ Presenting(p)
                      /\ req'[p].user = req[p].user /\ req'[p].device = req[p].device
                      /\ req'[p].token = req[p].token

LEMMA UnmovedKeeps ==
    ASSUME NEW p, req'[p] = req[p]
    PROVE  KeepsMinting(p) /\ KeepsInserting(p) /\ KeepsPresenting(p)
  BY DEF KeepsMinting, KeepsInserting, KeepsRest, KeepsPresenting, Minting, Inserting, Presenting

\* The account of a request that gets nowhere near a token.
LEMMA AwayKeeps ==
    ASSUME NEW p, ~Minting(p)', ~Presenting(p)'
    PROVE  KeepsMinting(p) /\ KeepsInserting(p) /\ KeepsPresenting(p)
  BY DEF KeepsMinting, KeepsInserting, KeepsRest, KeepsPresenting, Minting, Inserting

LEMMA PresentedStays ==
    ASSUME SessionInv, LimitInv, Shrinks, \A p \in Req : KeepsPresenting(p)
    PROVE  PresentedInv'
  <1> SUFFICES ASSUME NEW p \in Req, Presenting(p)', NEW t \in tokens', t.id = req'[p].token
               PROVE  t.user = req'[p].user /\ t.device = req'[p].device
    BY DEF PresentedInv
  <1>1. PICK s \in tokens : t.id = s.id /\ t.user = s.user /\ t.device = s.device
    BY ShrinkingRows
  <1> QED  BY <1>1 DEF KeepsPresenting, LimitInv, PresentedInv

\* An insertion that one request owed and another step left alone.
LEMMA EvictionStays ==
    ASSUME SessionInv, LimitInv, Shrinks,
           NEW p \in Req, KeepsInserting(p), Inserting(p)'
    PROVE  /\ req'[p].evicted \subseteq 1 .. created'
           /\ req'[p].pc = "create" => \A t \in tokens' : t.id \in req'[p].evicted => t.revoked
  <1>1. /\ req'[p].evicted = req[p].evicted /\ Inserting(p)
        /\ req'[p].pc = "create" => req[p].pc = "create"
    BY DEF KeepsInserting, KeepsRest
  <1>2. \A t \in tokens' : \E s \in tokens : t.id = s.id /\ (s.revoked => t.revoked)
    BY ShrinkingRows
  <1>3. /\ req[p].evicted \subseteq 1 .. created
        /\ req[p].pc = "create" => \A t \in tokens : t.id \in req[p].evicted => t.revoked
    BY <1>1 DEF LimitInv, EvictionInv
  <1>4. req'[p].evicted \subseteq 1 .. created'
    BY <1>1, <1>3 DEF Shrinks
  <1>5. ASSUME NEW t \in tokens', req'[p].pc = "create", t.id \in req'[p].evicted
        PROVE  t.revoked
    BY <1>1, <1>2, <1>3, <1>5
  <1> QED  BY <1>4, <1>5

\* The crowds shrink with the rows; only who has few sessions around him joins.
LEMMA CrowdStays ==
    ASSUME SessionInv, LimitInv, Shrinks,
           \A p \in Req : \/ KeepsRest(p)
                          \/ Cardinality(Rest(p)') < MaxSessions
    PROVE  CrowdInv'
  <1> SUFFICES ASSUME NEW u \in User, NEW n \in MaxSessions .. Bound(u)
               PROVE  Cardinality(Crowd(u, n)') + n <= Bound(u)
    BY DEF CrowdInv, Bound, Shrinks
  <1>1. IsFiniteSet(LiveRows) /\ IsFiniteSet(LiveRows)'
    BY LiveRowsStayFinite DEF LimitInv
  <1>2. Crowd(u, n)' \subseteq Crowd(u, n)
    <2> SUFFICES ASSUME NEW p \in Req, Inserting(p)', req'[p].user = u, Cardinality(Rest(p)') >= n
                 PROVE  p \in Crowd(u, n)
      BY DEF Crowd
    <2>1. Cardinality(Rest(p)') \in Nat
      <3>1. Rest(p)' \subseteq LiveRows'
        BY DEF Rest, Active, LiveRows
      <3> QED  BY <1>1, <3>1, FS_Subset, FS_CardinalityType
    <2>2. KeepsRest(p)
      BY <2>1, SessionConstants, BoundIsNumber
    <2>3. Inserting(p) /\ req[p].user = u /\ req'[p].evicted = req[p].evicted
      BY <2>2 DEF KeepsRest
    <2>4. Rest(p)' \subseteq Rest(p)
      BY <2>3, ActiveShrinks DEF Rest
    <2>5. Cardinality(Rest(p)') <= Cardinality(Rest(p)) /\ Cardinality(Rest(p)) \in Nat
      BY <1>1, <2>4, RestIsFinite, FS_Subset
    <2> QED  BY <2>1, <2>3, <2>5, BoundIsNumber, SessionConstants DEF Crowd
  <1>3. Cardinality(Crowd(u, n)) + n <= Bound(u) /\ Bound(u) \in Nat
    BY BoundIsNumber DEF LimitInv, CrowdInv
  <1>4. /\ Cardinality(Crowd(u, n)') \in Nat /\ Cardinality(Crowd(u, n)) \in Nat
        /\ Cardinality(Crowd(u, n)') <= Cardinality(Crowd(u, n))
    <2>1. Crowd(u, n) \subseteq Req
      BY DEF Crowd
    <2> QED  BY <1>2, <2>1, RequestSets
  <1> QED  BY <1>3, <1>4, BoundIsNumber, SessionConstants

\* One device of one account: nothing new to mint, no new row.
LEMMA DeviceStays ==
    ASSUME SessionInv, LimitInv, Shrinks, NEW u \in User, NEW d \in Device,
           MintingOn(u, d)' \subseteq MintingOn(u, d)
    PROVE  Cardinality(SessionsOn(u, d)') + Cardinality(MintingOn(u, d)') <= Cardinality(Req)
  <1>1. SessionsOn(u, d)' \subseteq SessionsOn(u, d)
    BY ShrinkingRows DEF SessionsOn, Live
  <1>2. SessionsOn(u, d) \subseteq LiveRows /\ MintingOn(u, d) \subseteq Req
    BY DEF SessionsOn, LiveRows, MintingOn
  <1>3. Cardinality(SessionsOn(u, d)) + Cardinality(MintingOn(u, d)) <= Cardinality(Req)
    BY DEF LimitInv, SessionsBounded, OnePerDevice, SessionsOn, MintingOn
  <1>4. /\ Cardinality(SessionsOn(u, d)') <= Cardinality(SessionsOn(u, d))
        /\ Cardinality(SessionsOn(u, d)') \in Nat /\ Cardinality(SessionsOn(u, d)) \in Nat
    BY <1>1, <1>2, SessionSets DEF LimitInv
  <1>5. /\ Cardinality(MintingOn(u, d)') <= Cardinality(MintingOn(u, d))
        /\ Cardinality(MintingOn(u, d)') \in Nat /\ Cardinality(MintingOn(u, d)) \in Nat
    BY <1>2, RequestSets
  <1> QED  BY <1>3, <1>4, <1>5, BoundIsNumber

LEMMA OnePerDeviceStays ==
    ASSUME SessionInv, LimitInv, Shrinks, \A p \in Req : KeepsMinting(p)
    PROVE  OnePerDevice'
  <1>1. \A u, d : MintingOn(u, d)' \subseteq MintingOn(u, d)
    BY DEF MintingOn, KeepsMinting
  <1> QED  BY <1>1, DeviceStays DEF OnePerDevice, SessionsOn, MintingOn, Live, Minting

LEMMA QuietKeepsLimits ==
    ASSUME SessionInv, LimitInv, Shrinks,
           \A p \in Req : KeepsMinting(p) /\ KeepsInserting(p) /\ KeepsPresenting(p)
    PROVE  LimitInv'
  <1>1. EvictionInv'
    BY EvictionStays DEF EvictionInv
  <1> QED
    BY <1>1, LiveRowsStayFinite, PresentedStays, CrowdStays, WithinLimitStays,
       OnePerDeviceStays DEF LimitInv, SessionsBounded, KeepsInserting, Shrinks, FailuresOK

-----------------------------------------------------------------------------
(* The steps, by what they do to the rows. *)

LEMMA StillShrinks ==
    ASSUME SessionInv, UNCHANGED <<tokens, created, now, unlimited>>
    PROVE  Shrinks
  BY DEF Shrinks, SessionInv, SessionTypeOK

LEMMA DroppingShrinks ==
    ASSUME SessionInv, UNCHANGED <<created, now, unlimited>>, tokens' \subseteq tokens
    PROVE  Shrinks
  BY DEF Shrinks, SessionInv, SessionTypeOK

LEMMA RevokingShrinks ==
    ASSUME SessionInv, UNCHANGED <<created, now, unlimited>>,
           \A t \in tokens' : \E s \in tokens : t = s \/ t = [s EXCEPT !.revoked = TRUE]
    PROVE  Shrinks
  BY DEF Shrinks, SessionInv, SessionTypeOK

LEMMA AccountsShrink ==
    ASSUME SessionInv, StatusNext, UNCHANGED clock
    PROVE  Shrinks
  <1>1. UNCHANGED <<created, now, unlimited>>
    BY DEF clock
  <1>2. ASSUME NEW p \in Req, FinishTransition(p) PROVE Shrinks
    <2>1. UNCHANGED tokens
          \/ \A t \in tokens' : \E s \in tokens : t = s \/ t = [s EXCEPT !.revoked = TRUE]
      BY <1>2 DEF FinishTransition, ApplyTransition, RevokeWhere
    <2> QED  BY <1>1, <2>1, StillShrinks, RevokingShrinks
  <1>3. ASSUME NEW p \in Req, Anonymize(p) PROVE Shrinks
    <2>1. tokens' \subseteq tokens
      BY <1>3 DEF Anonymize
    <2> QED  BY <1>1, <2>1, DroppingShrinks
  <1>4. CASE ~ \E p \in Req : FinishTransition(p) \/ Anonymize(p)
    <2>1. UNCHANGED tokens
      BY <1>4 DEF StatusNext, SetStatus, SoftDelete, Restore, PickInactive, PickForPurge,
         CheckPurge, GraceElapses, BecomeDormant
    <2> QED  BY <1>1, <2>1, StillShrinks
  <1> QED  BY <1>2, <1>3, <1>4

LEMMA StepShrinks ==
    ASSUME SessionInv, NEW p \in Req, SessionStep(p), ~CreateToken(p), ~LimitFails(p)
    PROVE  Shrinks
  <1>1. UNCHANGED <<created, now, unlimited>>
    BY DEF SessionStep, ReactivateOnLogin, UpdateLastLogin, ReplaceDeviceSession, CheckOwner,
       Rotate, RevokeAll, SignToken, ReadSessions, EvictOldest, RequestFails, clock
  <1>2. \/ UNCHANGED tokens
        \/ tokens' \subseteq tokens
        \/ \A t \in tokens' : \E s \in tokens : t = s \/ t = [s EXCEPT !.revoked = TRUE]
    <2>1. CASE ReactivateOnLogin(p)
      BY <2>1 DEF ReactivateOnLogin, ApplyTransition, RevokeWhere
    <2>2. CASE ReplaceDeviceSession(p)
      BY <2>2 DEF ReplaceDeviceSession, RevokeWhere
    <2>3. CASE Rotate(p)
      BY <2>3 DEF Rotate, RevokeWhere
    <2>4. CASE RevokeAll(p)
      BY <2>4 DEF RevokeAll, RevokeWhere
    <2>5. CASE EvictOldest(p)
      BY <2>5 DEF EvictOldest, RevokeWhere
    <2>6. CASE SignToken(p)
      BY <2>6 DEF SignToken, DropExpired
    <2>7. CASE UpdateLastLogin(p) \/ CheckOwner(p) \/ ReadSessions(p) \/ RequestFails(p)
      BY <2>7 DEF UpdateLastLogin, CheckOwner, ReadSessions, RequestFails
    <2> QED  BY <2>1, <2>2, <2>3, <2>4, <2>5, <2>6, <2>7 DEF SessionStep
  <1> QED  BY <1>1, <1>2, StillShrinks, DroppingShrinks, RevokingShrinks

\* The requests of one statement, the daily job and time move no request.
LEMMA OneStatementKeepsLimits ==
    ASSUME SessionInv, LimitInv,
           \/ \E t \in tokens : RevokeSession(t) \/ Logout(t)
           \/ \E u \in User, t \in tokens : RevokeUserSession(u, t)
           \/ \E u \in User : RevokeAllUserSessions(u)
           \/ \E u \in User, keep \in 0 .. created : RevokeAllOtherSessions(u, keep)
           \/ CleanupExpiredTokens \/ Tick \/ UNCHANGED vars
    PROVE  LimitInv'
  <1>1. UNCHANGED req
    BY DEF RevokeSession, Logout, RevokeUserSession, RevokeAllUserSessions,
       RevokeAllOtherSessions, CleanupExpiredTokens, Tick, vars, clock
  <1>2. Shrinks
    <2>1. CASE Tick
      BY <2>1 DEF Tick, Shrinks, SessionInv, SessionTypeOK
    <2>2. CASE CleanupExpiredTokens
      <3>1. tokens' \subseteq tokens /\ UNCHANGED <<created, now, unlimited>>
        BY <2>2 DEF CleanupExpiredTokens, clock
      <3> QED  BY <3>1, DroppingShrinks
    <2>3. CASE UNCHANGED vars
      BY <2>3, StillShrinks DEF vars, clock
    <2>4. CASE ~Tick /\ ~CleanupExpiredTokens /\ ~UNCHANGED vars
      <3>1. UNCHANGED <<created, now, unlimited>>
        BY <2>4 DEF RevokeSession, Logout, RevokeUserSession, RevokeAllUserSessions,
           RevokeAllOtherSessions, clock
      <3>2. \A t \in tokens' : \E s \in tokens : t = s \/ t = [s EXCEPT !.revoked = TRUE]
        BY <2>4 DEF RevokeSession, Logout, RevokeUserSession, RevokeAllUserSessions,
           RevokeAllOtherSessions, RevokeWhere
      <3> QED  BY <3>1, <3>2, RevokingShrinks
    <2> QED  BY <2>1, <2>2, <2>3, <2>4
  <1> QED  BY <1>1, <1>2, UnmovedKeeps, QuietKeepsLimits

-----------------------------------------------------------------------------
(* The steps, by what they do to their request. *)

LEMMA OthersUnmoved ==
    ASSUME NEW p \in Req, \A q \in Req \ {p} : req'[q] = req[q]
    PROVE  \A q \in Req \ {p} : KeepsMinting(q) /\ KeepsInserting(q) /\ KeepsPresenting(q)
  BY UnmovedKeeps

\* A request that ends, or that goes where no token is at stake.
LEMMA AwayKeepsLimits ==
    ASSUME SessionInv, LimitInv, Shrinks, NEW p \in Req,
           \A q \in Req \ {p} : req'[q] = req[q],
           req'[p].pc \notin MintPlaces \cup {"ownerCheck", "rotate"}
    PROVE  LimitInv'
  <1>1. ~Minting(p)' /\ ~Presenting(p)'
    BY DEF Minting, Presenting, MintPlaces
  <1> QED  BY <1>1, AwayKeeps, OthersUnmoved, QuietKeepsLimits

LEMMA EndKeepsLimits ==
    ASSUME SessionInv, LimitInv, Shrinks, NEW p \in Req, End(p)
    PROVE  LimitInv'
  <1>1. (\A q \in Req \ {p} : req'[q] = req[q]) /\ req'[p].pc = "idle"
    BY RequestFacts, IdleIsRequest DEF End
  <1> QED  BY <1>1, AwayKeepsLimits DEF MintPlaces

LEMMA StartKeepsLimits ==
    ASSUME SessionInv, LimitInv, Shrinks, NEW p \in Req,
           NEW op, NEW pc \in {"apply", "checkPurge"}, NEW u, Start(p, op, pc, u)
    PROVE  LimitInv'
  <1>1. (\A q \in Req \ {p} : req'[q] = req[q]) /\ req'[p].pc = pc
    BY RequestFacts DEF Start, Idle
  <1> QED  BY <1>1, AwayKeepsLimits DEF MintPlaces

LEMMA StatusKeepsLimits ==
    ASSUME SessionInv, LimitInv, StatusNext, UNCHANGED clock
    PROVE  LimitInv'
  <1>1. Shrinks
    BY AccountsShrink
  <1>2. ASSUME NEW p \in Req, NEW u \in User,
               \/ \E op \in {"activate", "ban", "deactivate"} : SetStatus(p, u, op)
               \/ SoftDelete(p, u) \/ Restore(p, u) \/ PickInactive(p, u) \/ PickForPurge(p, u)
        PROVE  LimitInv'
    BY <1>1, <1>2, StartKeepsLimits
       DEF SetStatus, SoftDelete, Restore, PickInactive, PickForPurge
  <1>3. ASSUME NEW p \in Req, FinishTransition(p) \/ Anonymize(p) PROVE LimitInv'
    BY <1>1, <1>3, EndKeepsLimits DEF FinishTransition, Anonymize
  <1>4. ASSUME NEW p \in Req, CheckPurge(p) PROVE LimitInv'
    <2>1. CASE Continue(p, "purge")
      <3>1. (\A q \in Req \ {p} : req'[q] = req[q]) /\ req'[p].pc = "purge"
        BY <2>1, RequestFacts DEF Continue, Request, Record
      <3> QED  BY <1>1, <3>1, AwayKeepsLimits DEF MintPlaces
    <2> QED  BY <1>1, <1>4, <2>1, EndKeepsLimits DEF CheckPurge
  <1>5. ASSUME NEW u \in User, GraceElapses(u) \/ BecomeDormant(u) PROVE LimitInv'
    <2>1. UNCHANGED req
      BY <1>5 DEF GraceElapses, BecomeDormant
    <2> QED  BY <1>1, <2>1, UnmovedKeeps, QuietKeepsLimits
  <1> QED  BY <1>2, <1>3, <1>4, <1>5 DEF StatusNext

LEMMA LoginKeepsLimits ==
    ASSUME SessionInv, LimitInv, NEW p \in Req, NEW u \in User, NEW d \in Device \cup {None},
           Login(p, u, d)
    PROVE  LimitInv'
  <1>1. Shrinks
    BY StillShrinks DEF Login, clock
  <1>2. (\A q \in Req \ {p} : req'[q] = req[q]) /\ req'[p].pc \in {"seen", "reactivate"}
    BY RequestFacts DEF Login, Idle
  <1> QED  BY <1>1, <1>2, AwayKeepsLimits DEF MintPlaces

\* The presented token's row is the only one with its id.
LEMMA RefreshKeepsLimits ==
    ASSUME SessionInv, LimitInv, NEW p \in Req, NEW t \in tokens, Refresh(p, t)
    PROVE  LimitInv'
  <1>1. Shrinks /\ tokens' = tokens
    BY StillShrinks DEF Refresh, clock
  <1>2. /\ \A q \in Req \ {p} : req'[q] = req[q]
        /\ req'[p].pc \in {"revokeAll", "ownerCheck"}
        /\ req'[p].user = t.user /\ req'[p].device = t.device /\ req'[p].token = t.id
    BY RequestFacts DEF Refresh, Idle
  <1>3. \A q \in Req : KeepsMinting(q) /\ KeepsInserting(q)
    <2>1. KeepsMinting(p) /\ KeepsInserting(p)
      BY <1>2 DEF KeepsMinting, KeepsInserting, KeepsRest, Minting, Inserting
    <2> QED  BY <1>2, <2>1, OthersUnmoved
  <1>4. PresentedInv'
    <2> SUFFICES ASSUME NEW q \in Req, Presenting(q)', NEW s \in tokens, s.id = req'[q].token
                 PROVE  s.user = req'[q].user /\ s.device = req'[q].device
      BY <1>1 DEF PresentedInv
    <2>1. CASE q = p
      BY <1>2, <2>1 DEF SessionInv, RotationInv, UniqueIds
    <2>2. CASE q # p
      BY <1>2, <2>2 DEF LimitInv, PresentedInv, Presenting
    <2> QED  BY <2>1, <2>2
  <1>5. EvictionInv'
    BY <1>1, <1>3, EvictionStays DEF EvictionInv
  <1> QED
    BY <1>1, <1>3, <1>4, <1>5, LiveRowsStayFinite, CrowdStays, WithinLimitStays,
       OnePerDeviceStays DEF LimitInv, SessionsBounded, KeepsInserting, Shrinks, FailuresOK

\* Steps on the way to a token and away from it.
LEMMA WayKeepsLimits ==
    ASSUME SessionInv, LimitInv, NEW p \in Req,
           \/ ReactivateOnLogin(p) \/ UpdateLastLogin(p) \/ CheckOwner(p)
           \/ RevokeAll(p) \/ SignToken(p) \/ RequestFails(p)
    PROVE  LimitInv'
  <1>1. Shrinks
    <2>1. SessionStep(p)
      BY DEF SessionStep
    <2>2. CASE RequestFails(p)
      BY <2>2, StillShrinks DEF RequestFails, clock
    <2>3. CASE ~RequestFails(p)
      <3>1. ~CreateToken(p) /\ ~LimitFails(p)
        BY <2>3, RequestFacts DEF ReactivateOnLogin, UpdateLastLogin, CheckOwner, RevokeAll,
           SignToken, CreateToken, LimitFails, At
      <3> QED  BY <2>1, <3>1, StepShrinks
    <2> QED  BY <2>2, <2>3
  <1>2. req \in [Req -> Request] /\ req[p] \in Record
    BY RequestFacts DEF Request
  <1>3. CASE RevokeAll(p) \/ RequestFails(p)
    BY <1>1, <1>3, EndKeepsLimits DEF RevokeAll, RequestFails
  <1>4. CASE ReactivateOnLogin(p) \/ UpdateLastLogin(p)
    <2>1. (\A q \in Req \ {p} : req'[q] = req[q]) /\ req'[p].pc \in {"seen", "replace"}
      BY <1>2, <1>4 DEF ReactivateOnLogin, UpdateLastLogin, Continue, Record
    <2> QED  BY <1>1, <2>1, AwayKeepsLimits DEF MintPlaces
  <1>5. CASE CheckOwner(p)
    <2>1. /\ \A q \in Req \ {p} : req'[q] = req[q]
          /\ req[p].pc = "ownerCheck" /\ req'[p].pc \in {"rotate", "revokeAll"}
          /\ req'[p].user = req[p].user /\ req'[p].device = req[p].device
          /\ req'[p].token = req[p].token
      BY <1>2, <1>5 DEF CheckOwner, At, Record
    <2>2. KeepsMinting(p) /\ KeepsInserting(p) /\ KeepsPresenting(p)
      BY <2>1 DEF KeepsMinting, KeepsInserting, KeepsRest, KeepsPresenting, Minting, Inserting, Presenting
    <2> QED  BY <1>1, <2>1, <2>2, OthersUnmoved, QuietKeepsLimits
  <1>6. CASE SignToken(p)
    <2>1. /\ \A q \in Req \ {p} : req'[q] = req[q]
          /\ req[p].pc = "sign" /\ req'[p].pc = "limit"
          /\ req'[p].user = req[p].user /\ req'[p].device = req[p].device
      BY <1>2, <1>6 DEF SignToken, At, Record
    <2>2. KeepsMinting(p) /\ KeepsInserting(p) /\ KeepsPresenting(p)
      BY <2>1 DEF KeepsMinting, KeepsInserting, KeepsRest, KeepsPresenting, Minting, Inserting, Presenting
    <2> QED  BY <1>1, <2>1, <2>2, OthersUnmoved, QuietKeepsLimits
  <1> QED  BY <1>3, <1>4, <1>5, <1>6

-----------------------------------------------------------------------------
(* The steps that commit a request to a token, and the insertion.          *)

\* All but the count of a device's sessions, for a request that goes to sign.
LEMMA CommittingKeepsLimits ==
    ASSUME SessionInv, LimitInv, Shrinks, NEW p \in Req,
           \A q \in Req \ {p} : req'[q] = req[q],
           req'[p].pc = "sign", req'[p].user = req[p].user, req'[p].device = req[p].device,
           \/ req[p].device \notin Device
           \/ Cardinality(SessionsOn(req[p].user, req[p].device)')
                + Cardinality(MintingOn(req[p].user, req[p].device)') <= Cardinality(Req)
    PROVE  LimitInv'
  <1>1. \A q \in Req : KeepsInserting(q) /\ KeepsPresenting(q)
    <2>1. KeepsInserting(p) /\ KeepsPresenting(p)
      BY DEF KeepsInserting, KeepsRest, KeepsPresenting, Inserting, Presenting
    <2> QED  BY <2>1, OthersUnmoved
  <1>2. OnePerDevice'
    <2>1. ASSUME NEW u \in User, NEW d \in Device
          PROVE  Cardinality(SessionsOn(u, d)') + Cardinality(MintingOn(u, d)')
                    <= Cardinality(Req)
      <3>1. CASE u = req[p].user /\ d = req[p].device
        BY <3>1
      <3>2. CASE u # req[p].user \/ d # req[p].device
        <4>1. MintingOn(u, d)' \subseteq MintingOn(u, d)
          BY <3>2 DEF MintingOn, Minting
        <4> QED  BY <4>1, DeviceStays
      <3> QED  BY <3>1, <3>2
    <2> QED  BY <2>1 DEF OnePerDevice, SessionsOn, MintingOn, Live, Minting
  <1>3. EvictionInv'
    BY <1>1, EvictionStays DEF EvictionInv
  <1>4. CrowdInv'
    BY <1>1, CrowdStays DEF KeepsInserting
  <1> QED
    BY <1>1, <1>2, <1>3, <1>4, LiveRowsStayFinite, PresentedStays, WithinLimitStays
    DEF LimitInv, SessionsBounded, Shrinks, FailuresOK

LEMMA ReplaceKeepsLimits ==
    ASSUME SessionInv, LimitInv, NEW p \in Req, ReplaceDeviceSession(p)
    PROVE  LimitInv'
  <1> DEFINE u == req[p].user
             d == req[p].device
  <1>1. Shrinks
    <2>1. SessionStep(p) /\ ~CreateToken(p) /\ ~LimitFails(p)
      BY RequestFacts DEF SessionStep, ReplaceDeviceSession, CreateToken, LimitFails, At
    <2> QED  BY <2>1, StepShrinks
  <1>2. /\ \A q \in Req \ {p} : req'[q] = req[q]
        /\ req'[p].pc = "sign" /\ req'[p].user = u /\ req'[p].device = d
    BY RequestFacts DEF ReplaceDeviceSession, Continue, Request, Record
  <1>3. CASE d = None
    BY <1>1, <1>2, <1>3, NoneIsNothing, CommittingKeepsLimits
  <1>4. CASE d # None
    <2>1. tokens' = {IF t.user = u /\ t.device = d THEN [t EXCEPT !.revoked = TRUE] ELSE t
                        : t \in tokens}
      BY <1>4 DEF ReplaceDeviceSession, RevokeWhere
    <2>2. \A t \in tokens : [t EXCEPT !.revoked = TRUE].revoked
      BY DEF SessionInv, SessionTypeOK, Token
    <2>3. SessionsOn(u, d)' = {}
      BY <1>2, <2>1, <2>2 DEF SessionsOn, Live
    <2>4. Cardinality(SessionsOn(u, d)') = 0
      BY <2>3, FS_EmptySet
    <2>5. MintingOn(u, d)' \subseteq Req
      BY DEF MintingOn
    <2>6. Cardinality(MintingOn(u, d)') \in Nat
          /\ Cardinality(MintingOn(u, d)') <= Cardinality(Req)
      BY <2>5, RequestSets
    <2>7. Cardinality(SessionsOn(u, d)') + Cardinality(MintingOn(u, d)') <= Cardinality(Req)
      BY <2>4, <2>6
    <2> QED  BY <1>1, <1>2, <2>7, CommittingKeepsLimits
  <1> QED  BY <1>3, <1>4

\* The rotation takes one session away for the one it will insert.
LEMMA RotateKeepsLimits ==
    ASSUME SessionInv, LimitInv, NEW p \in Req, Rotate(p)
    PROVE  LimitInv'
  <1> DEFINE u == req[p].user
             d == req[p].device
             flips == {t \in tokens : t.id = req[p].token /\ Live(t)}
  <1>1. Shrinks
    <2>1. SessionStep(p) /\ ~CreateToken(p) /\ ~LimitFails(p)
      BY RequestFacts DEF SessionStep, Rotate, CreateToken, LimitFails, At
    <2> QED  BY <2>1, StepShrinks
  <1>2. CASE flips = {}
    BY <1>1, <1>2, EndKeepsLimits DEF Rotate
  <1>3. CASE flips # {}
    <2>1. /\ \A q \in Req \ {p} : req'[q] = req[q]
          /\ req[p].pc = "rotate"
          /\ req'[p].pc = "sign" /\ req'[p].user = u /\ req'[p].device = d
      BY <1>3, RequestFacts DEF Rotate, At, Continue, Request, Record
    <2>2. PICK t0 \in flips : TRUE
      BY <1>3
    <2>3. t0 \in SessionsOn(u, d)
      BY <2>1, <2>2 DEF LimitInv, PresentedInv, Presenting, SessionsOn
    <2>4. t0 \notin tokens' \/ t0.revoked
      <3>1. tokens' = {IF t \in flips THEN [t EXCEPT !.revoked = TRUE] ELSE t : t \in tokens}
        BY DEF Rotate, RevokeWhere
      <3>2. \A t \in tokens : [t EXCEPT !.revoked = TRUE].revoked
        BY DEF SessionInv, SessionTypeOK, Token
      <3> QED  BY <3>1, <3>2, <2>2
    <2>5. SessionsOn(u, d)' \subseteq SessionsOn(u, d) \ {t0}
      BY <1>1, <2>1, <2>4, ShrinkingRows DEF SessionsOn, Live
    <2>6. /\ Cardinality(SessionsOn(u, d)') + 1 <= Cardinality(SessionsOn(u, d))
          /\ Cardinality(SessionsOn(u, d)') \in Nat /\ Cardinality(SessionsOn(u, d)) \in Nat
      <3>1. SessionsOn(u, d) \subseteq LiveRows
        BY DEF SessionsOn, LiveRows
      <3>2. IsFiniteSet(SessionsOn(u, d))
        BY <3>1, FS_Subset DEF LimitInv
      <3> QED  BY <2>3, <2>5, <3>2, OneFewer
    <2>7. MintingOn(u, d)' \subseteq MintingOn(u, d) \cup {p} /\ MintingOn(u, d) \subseteq Req
      BY <2>1 DEF MintingOn, Minting
    <2>8. /\ Cardinality(MintingOn(u, d)') <= Cardinality(MintingOn(u, d)) + 1
          /\ Cardinality(MintingOn(u, d)') \in Nat /\ Cardinality(MintingOn(u, d)) \in Nat
      BY <2>7, RequestsAreFinite, FS_Subset, OneMore
    <2>9. d \in Device /\ u \in User =>
            Cardinality(SessionsOn(u, d)) + Cardinality(MintingOn(u, d)) <= Cardinality(Req)
      BY DEF LimitInv, SessionsBounded, OnePerDevice, SessionsOn, MintingOn
    <2>10. u \in User
      BY <2>1, RequestFacts
    <2>11. d \in Device =>
            Cardinality(SessionsOn(u, d)') + Cardinality(MintingOn(u, d)') <= Cardinality(Req)
      BY <2>6, <2>8, <2>9, <2>10, BoundIsNumber
    <2> QED  BY <1>1, <2>1, <2>11, CommittingKeepsLimits
  <1> QED  BY <1>2, <1>3

\* The newest n rows are n at most: n - 1 at most are newer than the oldest.
LEMMA NewestAreFew ==
    ASSUME SessionInv, NEW S, S \subseteq tokens, IsFiniteSet(S), NEW n \in Nat
    PROVE  Cardinality(Newest(S, n)) <= n
  <1> DEFINE few == Newest(S, n)
             ids == {t.id : t \in few}
  <1>1. few \subseteq S /\ \A t \in few : Cardinality({s \in S : s.id > t.id}) < n
    BY DEF Newest
  <1> HIDE DEF few
  <1>2. \A t \in S : t.id \in Nat
    BY DEF SessionInv, SessionTypeOK, Token
  <1>3. CASE few = {}
    BY <1>3, FS_EmptySet DEF few
  <1>4. CASE few # {}
    <2>1. ids \subseteq Nat /\ ids # {}
      BY <1>1, <1>2, <1>4
    <2>2. PICK k \in ids : \A i \in ids : k <= i
      BY <2>1, LeastNumber
    <2>3. PICK oldest \in few : \A t \in few : oldest.id <= t.id
      BY <2>2
    <2> DEFINE newer == {s \in S : s.id > oldest.id}
    <2>4. few \ {oldest} \subseteq newer
      BY <1>1, <1>2, <2>3 DEF SessionInv, RotationInv, UniqueIds
    <2>5. IsFiniteSet(newer) /\ Cardinality(newer) \in Nat /\ Cardinality(newer) < n
      <3>1. newer \subseteq S
        OBVIOUS
      <3> HIDE DEF newer
      <3>2. IsFiniteSet(newer) /\ Cardinality(newer) \in Nat
        BY <3>1, FS_Subset, FS_CardinalityType
      <3> QED  BY <1>1, <2>3, <3>2 DEF newer
    <2>6. few \subseteq newer \cup {oldest}
      BY <2>4
    <2> HIDE DEF newer
    <2>7. Cardinality(few) <= Cardinality(newer) + 1 /\ Cardinality(few) \in Nat
      BY <2>5, <2>6, OneMore
    <2>8. Cardinality(few) <= n
      BY <2>5, <2>7
    <2> QED  BY <2>8 DEF few
  <1> QED  BY <1>3, <1>4

\* What limitActiveTokens leaves is below the limit when it reads.
LEMMA ReadKeepsLimits ==
    ASSUME SessionInv, LimitInv, NEW p \in Req, ReadSessions(p)
    PROVE  LimitInv'
  <1> DEFINE u == req[p].user
             sessions == Active(u)
             evicted == IF Cardinality(sessions) < MaxSessions THEN {}
                        ELSE sessions \ Newest(sessions, MaxSessions - 1)
             ids == {t.id : t \in evicted}
  <1>1. Shrinks /\ UNCHANGED <<tokens, now, created, unlimited>>
    BY StillShrinks DEF ReadSessions, clock
  <1>2. /\ \A q \in Req \ {p} : req'[q] = req[q]
        /\ req[p].pc = "limit"
        /\ req'[p].pc = IF evicted = {} THEN "create" ELSE "evict"
        /\ req'[p].user = u /\ req'[p].device = req[p].device
        /\ req'[p].evicted = ids
    BY RequestFacts DEF ReadSessions, At, Request, Record
  <1>3. sessions \subseteq tokens /\ evicted \subseteq tokens
    BY DEF Active
  <1>4. Rest(p)' = {t \in sessions : t.id \notin ids}
    BY <1>1, <1>2 DEF Rest, Active, Live
  <1>5. IsFiniteSet(sessions) /\ Cardinality(sessions) \in Nat
    BY ActiveIsFinite DEF LimitInv
  <1>6. Cardinality(Rest(p)') < MaxSessions
    <2>1. CASE Cardinality(sessions) < MaxSessions
      <3>1. Rest(p)' \subseteq sessions
        BY <1>4
      <3>2. Cardinality(Rest(p)') <= Cardinality(sessions) /\ Cardinality(Rest(p)') \in Nat
        BY <1>5, <3>1, FS_Subset, FS_CardinalityType
      <3> QED  BY <1>5, <2>1, <3>2, SessionConstants
    <2>2. CASE ~(Cardinality(sessions) < MaxSessions)
      <3>1. Rest(p)' \subseteq Newest(sessions, MaxSessions - 1)
        BY <1>4, <2>2
      <3>2. Newest(sessions, MaxSessions - 1) \subseteq sessions
        BY DEF Newest
      <3>3. IsFiniteSet(Newest(sessions, MaxSessions - 1))
            /\ Cardinality(Newest(sessions, MaxSessions - 1)) \in Nat
        BY <1>5, <3>2, FS_Subset, FS_CardinalityType
      <3>4. Cardinality(Newest(sessions, MaxSessions - 1)) <= MaxSessions - 1
        BY <1>3, <1>5, BoundIsNumber, NewestAreFew
      <3>5. Cardinality(Rest(p)') <= Cardinality(Newest(sessions, MaxSessions - 1))
            /\ Cardinality(Rest(p)') \in Nat
        BY <3>1, <3>3, FS_Subset, FS_CardinalityType
      <3> QED  BY <3>3, <3>4, <3>5, SessionConstants
    <2> QED  BY <2>1, <2>2
  <1> HIDE DEF evicted, sessions
  <1>7. \A q \in Req : KeepsMinting(q) /\ KeepsPresenting(q)
    <2>1. KeepsMinting(p) /\ KeepsPresenting(p)
      BY <1>2 DEF KeepsMinting, KeepsPresenting, Minting, Presenting
    <2> QED  BY <1>2, <2>1, OthersUnmoved
  <1>8. EvictionInv'
    <2>1. ids \subseteq 1 .. created'
      BY <1>1, <1>3 DEF SessionInv, RotationInv
    <2>2. req'[p].pc = "create" => ids = {}
      BY <1>2
    <2>3. ASSUME NEW q \in Req, Inserting(q)'
          PROVE  /\ req'[q].evicted \subseteq 1 .. created'
                 /\ req'[q].pc = "create" =>
                        \A t \in tokens' : t.id \in req'[q].evicted => t.revoked
      <3>1. CASE q = p
        BY <1>2, <2>1, <2>2, <3>1
      <3>2. CASE q # p
        BY <1>1, <1>2, <2>3, <3>2, OthersUnmoved, EvictionStays
      <3> QED  BY <3>1, <3>2
    <2> QED  BY <2>3 DEF EvictionInv
  <1>9. CrowdInv'
    BY <1>1, <1>2, <1>6, OthersUnmoved, CrowdStays DEF KeepsInserting
  <1> QED
    BY <1>1, <1>7, <1>8, <1>9, LiveRowsStayFinite, PresentedStays, WithinLimitStays,
       OnePerDeviceStays DEF LimitInv, SessionsBounded, Shrinks, FailuresOK

LEMMA EvictKeepsLimits ==
    ASSUME SessionInv, LimitInv, NEW p \in Req, EvictOldest(p)
    PROVE  LimitInv'
  <1>1. Shrinks
    <2>1. SessionStep(p) /\ ~CreateToken(p)
      BY RequestFacts DEF SessionStep, EvictOldest, CreateToken, At
    <2>2. ~LimitFails(p)
      <3>1. unlimited' = unlimited /\ req[p].user \in User
        BY RequestFacts DEF EvictOldest, At, clock
      <3>2. unlimited[req[p].user] \in Nat
        BY <3>1, BoundIsNumber DEF LimitInv
      <3>3. unlimited' = [unlimited EXCEPT ![req[p].user] = @ + 1]
                => unlimited'[req[p].user] = unlimited[req[p].user] + 1
        BY <3>1 DEF LimitInv, FailuresOK
      <3> QED  BY <3>1, <3>2, <3>3 DEF LimitFails
    <2> QED  BY <2>1, <2>2, StepShrinks
  <1>2. /\ \A q \in Req \ {p} : req'[q] = req[q]
        /\ req[p].pc = "evict" /\ req'[p].pc = "create"
        /\ req'[p].user = req[p].user /\ req'[p].device = req[p].device
        /\ req'[p].evicted = req[p].evicted
    BY RequestFacts DEF EvictOldest, At, Continue, Request, Record
  <1>3. /\ KeepsMinting(p) /\ KeepsPresenting(p) /\ KeepsRest(p)
    BY <1>2 DEF KeepsMinting, KeepsPresenting, KeepsRest, Minting, Presenting, Inserting
  <1>4. EvictionInv'
    <2>1. req[p].evicted \subseteq 1 .. created'
      BY <1>1, <1>2 DEF LimitInv, EvictionInv, Inserting, Shrinks
    <2>2. \A t \in tokens' : t.id \in req[p].evicted => t.revoked
      <3>1. tokens' = {IF t.id \in req[p].evicted THEN [t EXCEPT !.revoked = TRUE] ELSE t
                          : t \in tokens}
        BY DEF EvictOldest, RevokeWhere
      <3>2. \A t \in tokens : [t EXCEPT !.revoked = TRUE].revoked
        BY DEF SessionInv, SessionTypeOK, Token
      <3> QED  BY <3>1, <3>2
    <2>3. ASSUME NEW q \in Req, Inserting(q)'
          PROVE  /\ req'[q].evicted \subseteq 1 .. created'
                 /\ req'[q].pc = "create" =>
                        \A t \in tokens' : t.id \in req'[q].evicted => t.revoked
      <3>1. CASE q = p
        BY <1>2, <2>1, <2>2, <3>1
      <3>2. CASE q # p
        BY <1>1, <1>2, <2>3, <3>2, OthersUnmoved, EvictionStays
      <3> QED  BY <3>1, <3>2
    <2> QED  BY <2>3 DEF EvictionInv
  <1>5. CrowdInv'
    BY <1>1, <1>2, <1>3, OthersUnmoved, CrowdStays DEF KeepsInserting
  <1>6. \A q \in Req : KeepsMinting(q) /\ KeepsPresenting(q)
    BY <1>2, <1>3, OthersUnmoved
  <1> QED
    BY <1>1, <1>4, <1>5, <1>6, LiveRowsStayFinite, PresentedStays, WithinLimitStays,
       OnePerDeviceStays DEF LimitInv, SessionsBounded, Shrinks, FailuresOK

\* A failure of limitActiveTokens: the request joins the crowds of its account
\* with every session around it, and the account's bound grows by one.
LEMMA LimitFailureKeepsLimits ==
    ASSUME SessionInv, LimitInv, NEW p \in Req, LimitFails(p), FailuresOK'
    PROVE  LimitInv'
  <1>1. /\ UNCHANGED <<tokens, created, now>>
        /\ req[p].pc \in {"limit", "evict"}
        /\ unlimited' = [unlimited EXCEPT ![req[p].user] = @ + 1]
    BY DEF LimitFails
  <1>2. PICK v \in User : req[p].user = v
    BY <1>1, RequestFacts
  <1>3. /\ \A q \in Req \ {p} : req'[q] = req[q]
        /\ req'[p].pc = "create" /\ req'[p].evicted = {}
        /\ req'[p].user = v /\ req'[p].device = req[p].device
    BY <1>2, RequestFacts DEF LimitFails, Request, Record
  <1>4. \A u \in User : /\ Bound(u) \in Nat /\ Cardinality(Active(u)) <= Bound(u)
                        /\ Bound(u)' = IF u = v THEN Bound(u) + 1 ELSE Bound(u)
    <2>1. \A u \in User : /\ unlimited[u] \in Nat
                          /\ unlimited'[u] = unlimited[u] + IF u = v THEN 1 ELSE 0
      BY <1>1, <1>2 DEF LimitInv, FailuresOK
    <2>2. \A u \in User : Bound(u)' = IF u = v THEN Bound(u) + 1 ELSE Bound(u)
      BY <2>1, BoundIsNumber DEF Bound
    <2> QED  BY <2>2, BoundIsNumber DEF LimitInv, SessionsBounded, WithinLimit
  <1>5. \A u : Active(u)' = Active(u) /\ Cardinality(Active(u)) \in Nat
    BY <1>1, ActiveIsFinite DEF Active, LimitInv
  <1>6. WithinLimit'
    BY <1>4, <1>5 DEF WithinLimit
  <1>7. IsFiniteSet(LiveRows)'
    BY <1>1 DEF LiveRows, LimitInv
  <1>8. PresentedInv'
    BY <1>1, <1>3 DEF PresentedInv, Presenting, LimitInv
  <1>9. EvictionInv'
    BY <1>1, <1>3 DEF EvictionInv, Inserting, LimitInv
  <1>10. OnePerDevice'
    <2>1. \A u, d : MintingOn(u, d)' = MintingOn(u, d) /\ SessionsOn(u, d)' = SessionsOn(u, d)
      BY <1>1, <1>2, <1>3 DEF MintingOn, SessionsOn, Minting
    <2> QED  BY <2>1 DEF LimitInv, SessionsBounded, OnePerDevice, MintingOn, SessionsOn
  <1>11. ASSUME NEW u \in User, NEW n \in MaxSessions .. Bound(u)'
         PROVE  Cardinality(Crowd(u, n)') + n <= Bound(u)'
    <2>1. \A q \in Req \ {p} : Rest(q)' = Rest(q)
      BY <1>3, <1>5 DEF Rest
    <2>2. Crowd(u, n)' \subseteq Crowd(u, n) \cup {p} /\ (u # v => Crowd(u, n)' \subseteq Crowd(u, n))
      BY <1>3, <2>1 DEF Crowd, Inserting
    <2>3. IsFiniteSet(Crowd(u, n)) /\ Cardinality(Crowd(u, n)) \in Nat
      BY RequestsAreFinite, FS_Subset, FS_CardinalityType DEF Crowd
    <2>4. n \in Nat
      BY <1>4, SessionConstants
    <2>5. CASE n <= Bound(u)
      <3>1. Cardinality(Crowd(u, n)) + n <= Bound(u)
        BY <1>4, <2>4, <2>5, SessionConstants DEF LimitInv, CrowdInv
      <3>2. CASE u = v
        <4>1. Cardinality(Crowd(u, n)') <= Cardinality(Crowd(u, n)) + 1
              /\ Cardinality(Crowd(u, n)') \in Nat
          BY <2>2, <2>3, OneMore
        <4> QED  BY <1>4, <2>3, <2>4, <3>1, <3>2, <4>1
      <3>3. CASE u # v
        <4>1. Cardinality(Crowd(u, n)') <= Cardinality(Crowd(u, n))
              /\ Cardinality(Crowd(u, n)') \in Nat
          BY <2>2, <2>3, <3>3, FS_Subset, FS_CardinalityType
        <4> QED  BY <1>4, <2>3, <2>4, <3>1, <3>3, <4>1
      <3> QED  BY <3>2, <3>3
    <2>6. CASE ~(n <= Bound(u))
      <3>1. Cardinality(Active(u)') < n
        BY <1>4, <1>5, <2>4, <2>6
      <3>2. ASSUME NEW q \in Req, req'[q].user = u
            PROVE  /\ Cardinality(Rest(q)') \in Nat
                   /\ Cardinality(Rest(q)') <= Cardinality(Active(u)')
        <4>1. Rest(q)' \subseteq Active(u)'
          BY <3>2 DEF Rest
        <4>2. IsFiniteSet(Active(u)')
          BY <1>5, ActiveIsFinite DEF LimitInv
        <4> QED  BY <4>1, <4>2, FS_Subset, FS_CardinalityType
      <3>3. Crowd(u, n)' = {}
        <4> SUFFICES ASSUME NEW q \in Req, req'[q].user = u, Cardinality(Rest(q)') >= n
                     PROVE  FALSE
          BY DEF Crowd
        <4>1. /\ Cardinality(Rest(q)') \in Nat /\ Cardinality(Active(u)') \in Nat
              /\ Cardinality(Rest(q)') <= Cardinality(Active(u)')
          BY <1>5, <3>2
        <4> QED  BY <2>4, <3>1, <4>1
      <3>4. Cardinality(Crowd(u, n)') = 0
        BY <3>3, FS_EmptySet
      <3> QED  BY <1>4, <2>4, <3>4
    <2> QED  BY <2>5, <2>6
  <1>12. CrowdInv'
    BY <1>11 DEF CrowdInv
  <1> QED  BY <1>6, <1>7, <1>8, <1>9, <1>10, <1>12 DEF LimitInv, SessionsBounded

(***************************************************************************)
(* The insertion.  Whoever inserts has all the sessions of the account     *)
(* around it, so that it is of every crowd of its account that is not      *)
(* empty, and leaves it.                                                   *)
(***************************************************************************)
LEMMA CreateKeepsLimits ==
    ASSUME SessionInv, LimitInv, NEW p \in Req, CreateToken(p)
    PROVE  LimitInv'
  <1> DEFINE N == Cardinality(Req)
  <1>1. CASE SameHash(p)
    <2>1. UNCHANGED <<tokens, created, now, unlimited>> /\ End(p)
      BY <1>1 DEF CreateToken
    <2> QED  BY <2>1, StillShrinks, EndKeepsLimits
  <1>2. CASE ~SameHash(p)
    <2> DEFINE new == [id |-> created + 1, user |-> req[p].user, device |-> req[p].device,
                       iat |-> req[p].iat, expires |-> now + TokenTTL, createdAt |-> now,
                       revoked |-> FALSE, parent |-> req[p].token, auth |-> req[p].auth]
    <2>1. /\ created' = created + 1 /\ now' = now /\ tokens' = tokens \cup {new}
          /\ req[p].pc = "create" /\ End(p)
      BY <1>2 DEF CreateToken, At
    <2>20. PICK v \in User : req[p].user = v
      BY <2>1, RequestFacts
    <2>2. new.id = created + 1 /\ new.user = v /\ new.device = req[p].device
      BY <2>20
    <2> HIDE DEF new
    <2>3. \A q \in Req : req'[q] = IF q = p THEN Idle ELSE req[q]
      BY <2>1, RequestFacts DEF End
    <2>4. ~Minting(p)' /\ ~Inserting(p)' /\ ~Presenting(p)' /\ Minting(p) /\ Inserting(p)
      BY <2>1, <2>3, IdleIsRequest DEF Minting, Inserting, Presenting
    <2>5. created \in Nat /\ IsFiniteSet(LiveRows)
      BY DEF LimitInv, SessionInv, SessionTypeOK
    <2>6. IsFiniteSet(LiveRows)'
      <3>1. LiveRows' \subseteq LiveRows \cup {new}
        BY <2>1 DEF LiveRows, Live
      <3> QED  BY <2>5, <3>1, OneMore
    <2>7. PresentedInv'
      <3> SUFFICES ASSUME NEW q \in Req, Presenting(q)', NEW t \in tokens',
                          t.id = req'[q].token
                   PROVE  t.user = req'[q].user /\ t.device = req'[q].device
        BY DEF PresentedInv
      <3>1. q # p /\ req'[q] = req[q]
        BY <2>3, <2>4
      <3>2. req[q].token \in 0 .. created
        BY RequestFacts
      <3>3. t \in tokens
        BY <2>1, <2>2, <2>5, <3>1, <3>2
      <3> QED  BY <3>1, <3>3 DEF LimitInv, PresentedInv, Presenting
    <2>8. EvictionInv'
      <3> SUFFICES ASSUME NEW q \in Req, Inserting(q)'
                   PROVE  /\ req'[q].evicted \subseteq 1 .. created'
                          /\ req'[q].pc = "create" =>
                                \A t \in tokens' : t.id \in req'[q].evicted => t.revoked
        BY DEF EvictionInv
      <3>1. q # p /\ req'[q] = req[q]
        BY <2>3, <2>4
      <3>2. /\ req[q].evicted \subseteq 1 .. created
            /\ req[q].pc = "create" => \A t \in tokens : t.id \in req[q].evicted => t.revoked
        BY <3>1 DEF LimitInv, EvictionInv, Inserting
      <3>3. new.id \notin req[q].evicted
        BY <2>2, <2>5, <3>2
      <3> QED  BY <2>1, <2>5, <3>1, <3>2, <3>3
    <2>9. \A u : Active(u)' \subseteq IF u = v THEN Active(u) \cup {new} ELSE Active(u)
      BY <2>1, <2>2 DEF Active, Live
    <2>10. Rest(p) = Active(v)
      BY <2>1, <2>4, <2>20 DEF LimitInv, EvictionInv, Rest, Active, Live
    <2>11. \A u : IsFiniteSet(Active(u)) /\ Cardinality(Active(u)) \in Nat
      BY <2>5, ActiveIsFinite
    <2>12. /\ N \in Nat \ {0} /\ MaxSessions \in Nat \ {0}
           /\ \A u \in User : /\ Bound(u) \in Nat /\ Bound(u)' = Bound(u)
                            /\ Bound(u) >= MaxSessions - 1 + N
      <3>1. N \in Nat \ {0} /\ MaxSessions \in Nat \ {0}
        BY BoundIsNumber, RequestsAreFinite, SessionConstants, FS_EmptySet
      <3>2. unlimited' = unlimited /\ FailuresOK
        BY DEF CreateToken, LimitInv
      <3> QED  BY <3>1, <3>2, BoundIsNumber DEF Bound
    <2>13. \A u, n : Crowd(u, n) \subseteq Req /\ IsFiniteSet(Crowd(u, n))
                     /\ Cardinality(Crowd(u, n)) \in Nat
      <3>1. \A u, n : Crowd(u, n) \subseteq Req
        BY DEF Crowd
      <3> QED  BY <3>1, RequestsAreFinite, FS_Subset, FS_CardinalityType
    <2>14. Cardinality(Active(v)) + 1 <= Bound(v)
      <3>1. Cardinality(Active(v)) <= Bound(v)
        BY <2>5 DEF LimitInv, SessionsBounded, WithinLimit
      <3>2. CASE Cardinality(Active(v)) >= MaxSessions
        <4> DEFINE n == Cardinality(Active(v))
        <4>1. n \in MaxSessions .. Bound(v)
          BY <2>11, <2>12, <3>1, <3>2
        <4>2. p \in Crowd(v, n)
          BY <2>4, <2>10, <2>11, <2>20 DEF Crowd
        <4>3. Cardinality(Crowd(v, n)) # 0
          BY <2>13, <4>2, FS_EmptySet
        <4>4. Cardinality(Crowd(v, n)) + n <= Bound(v)
          BY <2>5, <4>1 DEF LimitInv, CrowdInv
        <4> QED  BY <2>11, <2>12, <2>13, <4>3, <4>4
      <3>3. CASE Cardinality(Active(v)) < MaxSessions
        BY <2>11, <2>12, <3>3
      <3> QED  BY <2>11, <2>12, <3>2, <3>3
    <2>15. WithinLimit'
      <3> SUFFICES ASSUME NEW u \in User
                   PROVE  Cardinality(Active(u)') <= Bound(u)
        BY <2>12 DEF WithinLimit
      <3>1. CASE u = v
        <4>1. /\ Cardinality(Active(v)') <= Cardinality(Active(v)) + 1
              /\ Cardinality(Active(v)') \in Nat
          BY <2>9, <2>11, OneMore
        <4> QED  BY <2>11, <2>12, <2>14, <3>1, <4>1
      <3>2. CASE u # v
        <4>1. Active(u)' \subseteq Active(u)
          BY <2>9, <3>2
        <4>2. /\ Cardinality(Active(u)') <= Cardinality(Active(u))
              /\ Cardinality(Active(u)') \in Nat
          BY <2>11, <4>1, FS_Subset, FS_CardinalityType
        <4>3. Cardinality(Active(u)) <= Bound(u)
          BY DEF LimitInv, SessionsBounded, WithinLimit
        <4> QED  BY <2>11, <2>12, <4>2, <4>3
      <3> QED  BY <3>1, <3>2
    <2>16. ASSUME NEW u \in User, NEW n \in MaxSessions .. Bound(u)
           PROVE  Cardinality(Crowd(u, n)') + n <= Bound(u)
      <3>1. CASE u # v
        <4>1. Crowd(u, n)' \subseteq Crowd(u, n)
          <5> SUFFICES ASSUME NEW q \in Crowd(u, n)' PROVE q \in Crowd(u, n)
            OBVIOUS
          <5>1. q \in Req /\ Inserting(q)' /\ req'[q].user = u /\ Cardinality(Rest(q)') >= n
            BY DEF Crowd
          <5>2. req'[q] = req[q]
            BY <2>3, <2>4, <5>1
          <5>3. Rest(q)' \subseteq Rest(q)
            BY <2>9, <3>1, <5>1, <5>2 DEF Rest
          <5>4. /\ Cardinality(Rest(q)') <= Cardinality(Rest(q)) /\ Cardinality(Rest(q)) \in Nat
                /\ Cardinality(Rest(q)') \in Nat
            BY <2>5, <5>3, RestIsFinite, FS_Subset, FS_CardinalityType
          <5> QED  BY <2>12, <5>1, <5>2, <5>4 DEF Crowd, Inserting
        <4>2. Cardinality(Crowd(u, n)') <= Cardinality(Crowd(u, n))
              /\ Cardinality(Crowd(u, n)') \in Nat
          BY <2>13, <4>1, FS_Subset, FS_CardinalityType
        <4>3. Cardinality(Crowd(u, n)) + n <= Bound(u)
          BY DEF LimitInv, CrowdInv
        <4> QED  BY <2>12, <2>13, <4>2, <4>3
      <3>2. CASE u = v
        <4>1. ASSUME NEW q \in Crowd(v, n)'
              PROVE  q \in Crowd(v, n - 1) \ {p} /\ p \in Crowd(v, n - 1)
          <5>1. q \in Req /\ Inserting(q)' /\ req'[q].user = v /\ Cardinality(Rest(q)') >= n
            BY <4>1 DEF Crowd
          <5>2. q # p /\ req'[q] = req[q]
            BY <2>3, <2>4, <5>1
          <5>3. Rest(q)' \subseteq Rest(q) \cup {new}
            BY <2>9, <5>1, <5>2 DEF Rest
          <5>4. IsFiniteSet(Rest(q)) /\ Cardinality(Rest(q)) \in Nat
                /\ Cardinality(Rest(q)) <= Cardinality(Active(req[q].user))
            BY <2>5, RestIsFinite
          <5>5. Cardinality(Rest(q)') <= Cardinality(Rest(q)) + 1
                /\ Cardinality(Rest(q)') \in Nat
            BY <5>3, <5>4, OneMore
          <5>6. Cardinality(Rest(q)) >= n - 1
            BY <2>12, <5>1, <5>4, <5>5
          <5>7. Cardinality(Active(v)) >= n - 1
            BY <2>11, <2>12, <5>1, <5>2, <5>4, <5>6
          <5> QED  BY <2>4, <2>10, <2>20, <5>1, <5>2, <5>6, <5>7 DEF Crowd, Inserting
        <4>2. CASE Crowd(v, n)' = {}
          <5>1. Cardinality(Crowd(v, n)') = 0
            BY <4>2, FS_EmptySet
          <5> QED  BY <2>12, <3>2, <5>1
        <4>3. CASE Crowd(v, n)' # {}
          <5>1. p \in Crowd(v, n - 1) /\ Crowd(v, n)' \subseteq Crowd(v, n - 1) \ {p}
            BY <4>1, <4>3
          <5>2. Cardinality(Crowd(v, n)') + 1 <= Cardinality(Crowd(v, n - 1))
                /\ Cardinality(Crowd(v, n)') \in Nat
            BY <2>13, <5>1, OneFewer
          <5>3. CASE n = MaxSessions
            <6>1. Cardinality(Crowd(v, n - 1)) <= N
              BY <2>13, RequestSets
            <6> QED  BY <2>12, <2>13, <3>2, <5>2, <5>3, <6>1
          <5>4. CASE n # MaxSessions
            <6>1. n - 1 \in MaxSessions .. Bound(v)
              BY <2>12, <3>2, <5>4
            <6>2. Cardinality(Crowd(v, n - 1)) + (n - 1) <= Bound(v)
              BY <2>5, <6>1 DEF LimitInv, CrowdInv
            <6> QED  BY <2>12, <2>13, <3>2, <5>2, <6>2
          <5> QED  BY <5>3, <5>4
        <4> QED  BY <4>2, <4>3
      <3> QED  BY <3>1, <3>2
    <2>17. ASSUME NEW u \in User, NEW d \in Device
           PROVE  Cardinality(SessionsOn(u, d)') + Cardinality(MintingOn(u, d)') <= N
      <3>1. Cardinality(SessionsOn(u, d)) + Cardinality(MintingOn(u, d)) <= N
        BY DEF LimitInv, SessionsBounded, OnePerDevice, SessionsOn, MintingOn
      <3>2. IsFiniteSet(SessionsOn(u, d)) /\ Cardinality(SessionsOn(u, d)) \in Nat
        <4>1. SessionsOn(u, d) \subseteq LiveRows
          BY DEF SessionsOn, LiveRows
        <4> QED  BY <2>5, <4>1, FS_Subset, FS_CardinalityType
      <3>3. IsFiniteSet(MintingOn(u, d)) /\ Cardinality(MintingOn(u, d)) \in Nat
        <4>1. MintingOn(u, d) \subseteq Req
          BY DEF MintingOn
        <4> QED  BY <4>1, RequestsAreFinite, FS_Subset, FS_CardinalityType
      <3>4. MintingOn(u, d)' \subseteq MintingOn(u, d) \ {p}
        BY <2>3, <2>4 DEF MintingOn, Minting
      <3>5. CASE u = v /\ d = req[p].device
        <4>1. p \in MintingOn(u, d)
          BY <2>4, <2>20, <3>5 DEF MintingOn
        <4>2. /\ Cardinality(MintingOn(u, d)') + 1 <= Cardinality(MintingOn(u, d))
              /\ Cardinality(MintingOn(u, d)') \in Nat
          BY <3>3, <3>4, <4>1, OneFewer
        <4>3. SessionsOn(u, d)' \subseteq SessionsOn(u, d) \cup {new}
          BY <2>1 DEF SessionsOn, Live
        <4>4. /\ Cardinality(SessionsOn(u, d)') <= Cardinality(SessionsOn(u, d)) + 1
              /\ Cardinality(SessionsOn(u, d)') \in Nat
          BY <3>2, <4>3, OneMore
        <4> QED  BY <2>12, <3>1, <3>2, <3>3, <4>2, <4>4
      <3>6. CASE u # v \/ d # req[p].device
        <4>1. SessionsOn(u, d)' \subseteq SessionsOn(u, d)
          BY <2>1, <2>2, <3>6 DEF SessionsOn, Live
        <4>2. MintingOn(u, d)' \subseteq MintingOn(u, d)
          BY <3>4
        <4>3. /\ Cardinality(SessionsOn(u, d)') <= Cardinality(SessionsOn(u, d))
              /\ Cardinality(SessionsOn(u, d)') \in Nat
          BY <3>2, <4>1, FS_Subset, FS_CardinalityType
        <4>4. /\ Cardinality(MintingOn(u, d)') <= Cardinality(MintingOn(u, d))
              /\ Cardinality(MintingOn(u, d)') \in Nat
          BY <3>3, <4>2, FS_Subset, FS_CardinalityType
        <4> QED  BY <2>12, <3>1, <3>2, <3>3, <4>3, <4>4
      <3> QED  BY <3>5, <3>6
    <2>18. CrowdInv'
      <3>1. \A u \in User : Bound(u)' = Bound(u)
        BY <2>12
      <3> QED  BY <2>16, <3>1 DEF CrowdInv
    <2>19. OnePerDevice'
      BY <2>17 DEF OnePerDevice, SessionsOn, MintingOn, Live, Minting
    <2>21. FailuresOK'
      BY DEF CreateToken, LimitInv, FailuresOK
    <2> QED  BY <2>6, <2>7, <2>8, <2>15, <2>18, <2>19, <2>21 DEF LimitInv, SessionsBounded
  <1> QED  BY <1>1, <1>2

LEMMA LimitInvHolds == Spec => []LimitInv
  <1>1. Init => LimitInv
    <2> SUFFICES ASSUME Init PROVE LimitInv
      OBVIOUS
    <2>1. tokens = {} /\ \A p \in Req : req[p] = Idle
      BY DEF Init
    <2>2. \A p \in Req : ~Minting(p) /\ ~Inserting(p) /\ ~Presenting(p)
      BY <2>1, IdleIsRequest DEF Minting, Inserting, Presenting
    <2>3. LiveRows = {} /\ \A u, n, d : /\ Active(u) = {} /\ Crowd(u, n) = {}
                                        /\ SessionsOn(u, d) = {} /\ MintingOn(u, d) = {}
      BY <2>1, <2>2 DEF LiveRows, Active, Crowd, SessionsOn, MintingOn
    <2>4. IsFiniteSet({}) /\ Cardinality({}) = 0
      BY FS_EmptySet
    <2>5. IsFiniteSet(LiveRows) /\ PresentedInv /\ EvictionInv
      BY <2>1, <2>2, <2>3, <2>4 DEF PresentedInv, EvictionInv
    <2>10. FailuresOK
      BY SessionConstants DEF Init, FailuresOK
    <2>6. CrowdInv
      BY <2>3, <2>4, <2>10, BoundIsNumber, SessionConstants DEF CrowdInv
    <2>7. WithinLimit
      BY <2>3, <2>4, <2>10, BoundIsNumber DEF WithinLimit
    <2>8. OnePerDevice
      <3> SUFFICES ASSUME NEW u \in User, NEW d \in Device
                   PROVE  Cardinality(SessionsOn(u, d)) + Cardinality(MintingOn(u, d))
                            <= Cardinality(Req)
        BY DEF OnePerDevice, SessionsOn, MintingOn
      <3>1. SessionsOn(u, d) = {} /\ MintingOn(u, d) = {}
        BY <2>3
      <3> QED  BY <2>4, <3>1, BoundIsNumber
    <2> QED  BY <2>5, <2>6, <2>7, <2>8, <2>10 DEF LimitInv, SessionsBounded
  <1>2. SessionInv /\ LimitInv /\ FailuresOK' /\ [Next]_vars => LimitInv'
    <2> SUFFICES ASSUME SessionInv, LimitInv, FailuresOK', [Next]_vars PROVE LimitInv'
      OBVIOUS
    <2>1. ASSUME NEW p \in Req, SessionStep(p) PROVE LimitInv'
      BY <2>1, WayKeepsLimits, ReplaceKeepsLimits, RotateKeepsLimits, ReadKeepsLimits,
         EvictKeepsLimits, LimitFailureKeepsLimits, CreateKeepsLimits DEF SessionStep
    <2> QED
      BY <2>1, StatusKeepsLimits, LoginKeepsLimits, RefreshKeepsLimits, OneStatementKeepsLimits
      DEF Next
  <1> QED  BY <1>1, <1>2, SessionInvHolds, FailuresHold, PTL DEF Spec

\* limitActiveTokens and the revocations before an insertion: an account is
\* over its limit by the logins and rotations in flight at once and by the
\* times that the limit failed and was passed over, a device has more than one
\* session by those in flight at once, and neither ever by more.
THEOREM SessionsStayBounded == Spec => []SessionsBounded
  <1>1. LimitInv => SessionsBounded
    BY DEF LimitInv
  <1> QED  BY <1>1, LimitInvHolds, PTL
=============================================================================
