------------------------- MODULE CreditLedgerProofs -------------------------
(***************************************************************************)
(* The credit ledger, for every set of accounts, references and amounts.   *)
(*                                                                         *)
(* One lemma per kind of step says what the step does to the two tables:   *)
(* nothing, or one Post of a (reason, reference) that was not there.  The  *)
(* invariants follow from that and from what each operation posts.         *)
(* BalanceIsLedgerSum is a sum over a set: SetLemmas has what a new row    *)
(* adds to it.                                                             *)
(***************************************************************************)
EXTENDS CreditLedger, SetLemmas

\* The facts a posted row must satisfy, given the ledger it is added to: its
\* reference is new, a refund mirrors a spend, and a spend that does not come
\* from a reversal leaves no overdraft.
Postable(u, n, reason, ref) ==
    /\ u \in User /\ n \in Int /\ reason \in Reason /\ ref \in Ref
    /\ ~Posted(reason, ref)
    /\ reason = "generation_refund" =>
         /\ n = 1
         /\ \E s \in ledger : /\ s.reason = "generation_spend"
                              /\ s.ref = ref
                              /\ s.user = u
                              /\ s.amount = -1
    /\ reason = "generation_spend" => n = -1
    /\ reason \notin ReversalReason => n >= 0 \/ balance[u] + n >= 0

\* A step of the ledger, as the tables see it.
PostsOneRow ==
    \E u \in User, n \in Int, reason \in Reason, ref \in Ref :
        Postable(u, n, reason, ref) /\ Post(u, n, reason, ref)

SpendsAreOneCredit ==
    \A r \in ledger : r.reason = "generation_spend" => r.amount = -1

\* The inductive invariant: a refund can only mirror a spend because every
\* spend is of exactly one credit.
LedgerInv ==
    /\ LedgerTypeOK
    /\ OneRowPerReference
    /\ SpendsAreOneCredit
    /\ RefundMirrorsSpend
    /\ OverdraftOnlyByReversal

\* What each operation of CreditsService does to the ledger, for callers that
\* pass it a known account and reference.
LEMMA GrantPosts ==
    ASSUME NEW u \in User, NEW n \in Amount, NEW reason \in GrantReason,
           NEW ref \in Ref, Grant(u, n, reason, ref)
    PROVE  UNCHANGED ledgerVars \/ PostsOneRow
<1>1. n \in Int /\ n >= 0  BY AmountIsPositive
<1>2. reason \in Reason  BY DEF Reason
<1>3. /\ reason # "generation_refund"
      /\ reason # "generation_spend"
  BY DEF GrantReason
<1>4. ~Posted(reason, ref) => Postable(u, n, reason, ref)
  BY <1>1, <1>2, <1>3 DEF Postable
<1> QED  BY <1>1, <1>2, <1>4 DEF Grant, PostsOneRow

\* Reverting a purchase or an order's bonus posts its own row, once.
LEMMA RevokePosts ==
    ASSUME NEW u \in User, NEW n \in Amount, NEW reason \in ReversalReason,
           NEW ref \in Ref, Revoke(u, n, reason, ref)
    PROVE  UNCHANGED ledgerVars \/ PostsOneRow
<1>1. -n \in Int  BY AmountIsPositive
<1>2. reason \in Reason  BY DEF Reason
<1>3. /\ reason # "generation_refund"
      /\ reason # "generation_spend"
  BY DEF ReversalReason
<1>4. ~Posted(reason, ref) => Postable(u, -n, reason, ref)
  BY <1>1, <1>2, <1>3 DEF Postable
<1> QED  BY <1>1, <1>2, <1>4 DEF Revoke, PostsOneRow

\* A spend that is enabled posts one row of one credit, and can afford it.
LEMMA SpendPosts ==
    ASSUME NEW u \in User, NEW g \in Ref, LedgerTypeOK, SpendForGeneration(u, g)
    PROVE  PostsOneRow
<1>1. balance[u] \in Int  BY DEF LedgerTypeOK
<1>2. Postable(u, -1, "generation_spend", g)
  BY <1>1 DEF Postable, SpendForGeneration, Reason, ReversalReason
<1> QED  BY <1>2 DEF PostsOneRow, SpendForGeneration, Postable

\* A refund posts the credit of the spend it found, to the account that spent it.
LEMMA RefundPosts ==
    ASSUME NEW g \in Ref, LedgerTypeOK, SpendsAreOneCredit, RefundGeneration(g)
    PROVE  UNCHANGED ledgerVars \/ PostsOneRow
<1>1. SUFFICES ASSUME ~UNCHANGED ledgerVars
               PROVE  PostsOneRow
  OBVIOUS
<1>2. ~Posted("generation_refund", g)
  BY <1>1 DEF RefundGeneration
<1>3. PICK spend \in ledger : /\ spend.reason = "generation_spend"
                              /\ spend.ref = g
                              /\ Post(spend.user, 1, "generation_refund", g)
  BY <1>1 DEF RefundGeneration
<1>4. spend.user \in User /\ spend.amount = -1
  BY <1>3 DEF LedgerTypeOK, Row, SpendsAreOneCredit
<1>5. Postable(spend.user, 1, "generation_refund", g)
  BY <1>2, <1>3, <1>4 DEF Postable, Reason, ReversalReason
<1> QED  BY <1>3, <1>4, <1>5 DEF PostsOneRow, Postable

\* So every step of the ledger posts at most one row, and a postable one.
LEMMA LedgerStepPosts ==
    ASSUME LedgerTypeOK, SpendsAreOneCredit, [LedgerNext]_ledgerVars
    PROVE  UNCHANGED ledgerVars \/ PostsOneRow
<1>1. CASE \E u \in User, n \in Amount, reason \in GrantReason, ref \in Ref :
                Grant(u, n, reason, ref)
  BY <1>1, GrantPosts
<1>2. CASE \E u \in User, n \in Amount, reason \in ReversalReason, ref \in Ref :
                Revoke(u, n, reason, ref)
  BY <1>2, RevokePosts
<1>3. CASE \E u \in User, g \in Ref : SpendForGeneration(u, g)
  BY <1>3, SpendPosts
<1>4. CASE \E g \in Ref : RefundGeneration(g)
  BY <1>4, RefundPosts
<1> QED  BY <1>1, <1>2, <1>3, <1>4 DEF LedgerNext

\* Posting one postable row preserves the invariant.
LEMMA PostPreserves ==
    ASSUME LedgerInv, PostsOneRow
    PROVE  LedgerInv'
<1>1. PICK u \in User, n \in Int, reason \in Reason, ref \in Ref :
            Postable(u, n, reason, ref) /\ Post(u, n, reason, ref)
  BY DEF PostsOneRow
<1> DEFINE new == [user |-> u, amount |-> n, reason |-> reason, ref |-> ref]
<1>2. /\ ledger' = ledger \cup {new}
      /\ balance' = [balance EXCEPT ![u] = @ + n]
      /\ new \in Row
  BY <1>1 DEF Post, Row
<1>3. LedgerTypeOK'
  <2>1. balance \in [User -> Int] /\ ledger \in SUBSET Row
    BY DEF LedgerInv, LedgerTypeOK
  <2>2. balance' \in [User -> Int]  BY <1>2, <2>1
  <2>3. ledger' \in SUBSET Row  BY <1>2, <2>1
  <2> QED  BY <2>2, <2>3 DEF LedgerTypeOK
<1>4. OneRowPerReference'
  BY <1>1, <1>2 DEF LedgerInv, OneRowPerReference, Postable, Posted
<1>5. SpendsAreOneCredit'
  BY <1>1, <1>2 DEF LedgerInv, SpendsAreOneCredit, Postable
<1>6. RefundMirrorsSpend'
  <2>1. SUFFICES ASSUME NEW r \in ledger', r.reason = "generation_refund"
                 PROVE  \E s \in ledger' : /\ s.reason = "generation_spend"
                                           /\ s.ref = r.ref
                                           /\ s.user = r.user
                                           /\ s.amount + r.amount = 0
    BY DEF RefundMirrorsSpend
  <2>2. CASE r \in ledger
    BY <1>2, <2>1, <2>2 DEF LedgerInv, RefundMirrorsSpend
  <2>3. CASE r = new
    BY <1>1, <1>2, <2>1, <2>3 DEF Postable
  <2> QED  BY <1>2, <2>2, <2>3
<1>7. OverdraftOnlyByReversal'
  <2>1. SUFFICES ASSUME NEW v \in User, balance'[v] < 0
                 PROVE  \E r \in ledger' : r.user = v /\ r.reason \in ReversalReason
    BY DEF OverdraftOnlyByReversal
  <2>2. CASE balance[v] < 0
    BY <1>2, <2>2 DEF LedgerInv, OverdraftOnlyByReversal
  <2>3. CASE ~(balance[v] < 0)
    <3>1. balance \in [User -> Int]  BY DEF LedgerInv, LedgerTypeOK
    <3>2. v = u /\ balance[u] + n < 0 /\ n < 0
      BY <1>2, <2>1, <2>3, <3>1
    <3>3. reason \in ReversalReason
      BY <1>1, <3>1, <3>2 DEF Postable
    <3> QED  BY <1>2, <3>2, <3>3
  <2> QED  BY <2>2, <2>3
<1> QED  BY <1>3, <1>4, <1>5, <1>6, <1>7 DEF LedgerInv

\* The invariant holds of the empty ledger...
LEMMA LedgerInvInit == LedgerInit => LedgerInv
BY DEF LedgerInit, LedgerInv, LedgerTypeOK, OneRowPerReference, SpendsAreOneCredit,
       RefundMirrorsSpend, OverdraftOnlyByReversal

\* ...every step preserves it...
LEMMA LedgerInvStep == LedgerInv /\ [LedgerNext]_ledgerVars => LedgerInv'
<1> SUFFICES ASSUME LedgerInv, [LedgerNext]_ledgerVars
             PROVE  LedgerInv'
  OBVIOUS
<1>1. CASE UNCHANGED ledgerVars
  BY <1>1 DEF ledgerVars, LedgerInv, LedgerTypeOK, OneRowPerReference,
              SpendsAreOneCredit, RefundMirrorsSpend, OverdraftOnlyByReversal
<1>2. CASE PostsOneRow
  BY <1>2, PostPreserves
<1> QED  BY <1>1, <1>2, LedgerStepPosts DEF LedgerInv

\* ...so it holds always.
LEMMA LedgerInvariant == LedgerSpec => []LedgerInv
BY LedgerInvInit, LedgerInvStep, PTL DEF LedgerSpec

\* CreditsService and the schema: the tables keep their types.
THEOREM LedgerTypeCorrect == LedgerSpec => []LedgerTypeOK
BY LedgerInvariant, PTL DEF LedgerInv

\* The unique index is what makes every operation idempotent: no sequence of
\* calls leaves two rows for one reason and reference.
THEOREM LedgerIdempotent == LedgerSpec => []OneRowPerReference
BY LedgerInvariant, PTL DEF LedgerInv

\* refundGeneration never returns a credit that was not spent on the same
\* generation by the same account.
THEOREM RefundsMirrorSpends == LedgerSpec => []RefundMirrorsSpend
BY LedgerInvariant, PTL DEF LedgerInv

\* spendForGeneration's conditional decrement cannot overdraw: only revoke can.
THEOREM NoOverdraftBySpending == LedgerSpec => []OverdraftOnlyByReversal
BY LedgerInvariant, PTL DEF LedgerInv

\* Every change of a balance is one new row of the same account and amount.
THEOREM BalanceMovesWithLedger == LedgerSpec => BalanceFollowsLedger
<1>1. ASSUME LedgerInv, [LedgerNext]_ledgerVars
      PROVE  [ \/ UNCHANGED ledgerVars
               \/ \E r \in ledger' \ ledger :
                     /\ ledger' = ledger \cup {r}
                     /\ balance' = [balance EXCEPT ![r.user] = @ + r.amount]
             ]_ledgerVars
  <2>1. CASE UNCHANGED ledgerVars
    BY <2>1
  <2>2. CASE PostsOneRow
    <3>1. PICK u \in User, n \in Int, reason \in Reason, ref \in Ref :
                Postable(u, n, reason, ref) /\ Post(u, n, reason, ref)
      BY <2>2 DEF PostsOneRow
    <3> DEFINE new == [user |-> u, amount |-> n, reason |-> reason, ref |-> ref]
    <3>2. /\ ledger' = ledger \cup {new}
          /\ balance' = [balance EXCEPT ![new.user] = @ + new.amount]
      BY <3>1 DEF Post
    <3>3. new \notin ledger
      BY <3>1 DEF Postable, Posted
    <3> QED  BY <3>2, <3>3
  <2> QED  BY <1>1, <2>1, <2>2, LedgerStepPosts DEF LedgerInv
<1> QED  BY <1>1, LedgerInvariant, PTL DEF LedgerSpec, BalanceFollowsLedger

-----------------------------------------------------------------------------
(***************************************************************************)
(* The sum of an account's rows.                                           *)
(***************************************************************************)
RowsOf(rows, u) == {r \in rows : r.user = u}
AmountOf == [r \in Row |-> r.amount]
Total(S) == MapThenSumSet(LAMBDA r : r.amount, S)

LEMMA TotalIsSum ==
    ASSUME NEW S \in SUBSET Row, IsFiniteSet(S)
    PROVE  Total(S) = SumOf(AmountOf, S)
<1> DEFINE Folds(g) ==
        g = [s \in SUBSET S |-> IF s = {} THEN 0 ELSE AnyOf(s).amount + g[s \ {AnyOf(s)}]]
           h == CHOOSE g : Folds(g)
<1>1. Total(S) = h[S]
  BY DEF Total, MapThenSumSet, MapThenFoldSet, AnyOf
<1>2. \A s \in SUBSET S : s # {} => AmountOf[AnyOf(s)] = AnyOf(s).amount
  BY AnyOfIsMember DEF AmountOf
<1>3. \A g : Folds(g) <=> SumsUp(AmountOf, SUBSET S, g)
  BY <1>2 DEF SumsUp
<1>4. \E g : Folds(g)
  BY <1>3, FoldExists
<1> HIDE DEF Folds
<1>5. SumsUp(AmountOf, SUBSET S, h)
  BY <1>3, <1>4
<1> HIDE DEF h
<1>6. S \in SUBSET S
  OBVIOUS
<1>7. SumOf(AmountOf, S) = h[S]
  BY <1>5, <1>6, FoldSums
<1> QED  BY <1>1, <1>7

LEMMA BalanceIsTotal ==
    /\ BalanceIsLedgerSum <=> \A u \in User : balance[u] = Total(RowsOf(ledger, u))
    /\ BalanceIsLedgerSum' <=> \A u \in User : balance'[u] = Total(RowsOf(ledger', u))
BY DEF BalanceIsLedgerSum, Total, RowsOf, MapThenSumSet, MapThenFoldSet

\* The sums, with what they need: the rows are finitely many.
SumInv == LedgerInv /\ IsFiniteSet(ledger) /\ BalanceIsLedgerSum

\* The rows of the account that is posted to are one more, those of the others
\* are the same.
LEMMA PostKeepsSums ==
    ASSUME SumInv, PostsOneRow
    PROVE  IsFiniteSet(ledger)' /\ BalanceIsLedgerSum'
<1>1. PICK u \in User, n \in Int, reason \in Reason, ref \in Ref :
            Postable(u, n, reason, ref) /\ Post(u, n, reason, ref)
  BY DEF PostsOneRow
<1> DEFINE new == [user |-> u, amount |-> n, reason |-> reason, ref |-> ref]
<1>2. /\ ledger' = ledger \cup {new} /\ balance' = [balance EXCEPT ![u] = @ + n]
      /\ new.user = u /\ new.amount = n /\ new \notin ledger
  BY <1>1 DEF Post, Postable, Posted
<1> HIDE DEF new
<1>3. balance \in [User -> Int] /\ ledger \subseteq Row /\ IsFiniteSet(ledger)
  BY DEF SumInv, LedgerInv, LedgerTypeOK
<1>4. IsFiniteSet(ledger)'
  BY <1>2, <1>3, FS_AddElement
<1>5. new \in Row
  BY <1>1 DEF new, Postable, Row
<1>6. ASSUME NEW v \in User PROVE balance'[v] = Total(RowsOf(ledger', v))
  <2> DEFINE before == RowsOf(ledger, v)
  <2>1. balance[v] = Total(before)
    BY BalanceIsTotal DEF SumInv
  <2>2. CASE v # u
    <3>1. RowsOf(ledger', v) = before /\ balance'[v] = balance[v]
      BY <1>2, <1>3, <2>2 DEF RowsOf
    <3> QED  BY <2>1, <3>1
  <2>3. CASE v = u
    <3>1. RowsOf(ledger', v) = before \cup {new} /\ new \notin before
      BY <1>2, <2>3 DEF RowsOf
    <3>2. before \in SUBSET ledger
      BY DEF RowsOf
    <3>3. /\ IsFiniteSet(before) /\ before \in SUBSET Row
          /\ IsFiniteSet(before \cup {new}) /\ before \cup {new} \in SUBSET Row
      BY <1>3, <1>5, <3>2, FS_Subset, FS_AddElement
    <3> HIDE DEF before
    <3>4. /\ \A r \in before \cup {new} : AmountOf[r] \in Int
          /\ AmountOf[new] = new.amount
      BY <3>3 DEF AmountOf, Row
    <3>5. SumOf(AmountOf, before \cup {new}) = SumOf(AmountOf, before) + AmountOf[new]
      BY <3>1, <3>3, <3>4, SumOfNew
    <3>6. Total(before \cup {new}) = Total(before) + new.amount
      BY <3>3, <3>4, <3>5, TotalIsSum
    <3>7. balance'[v] = balance[v] + n
      BY <1>2, <1>3, <2>3
    <3> QED  BY <1>2, <2>1, <3>1, <3>6, <3>7
  <2> QED  BY <2>2, <2>3
<1> QED  BY <1>4, <1>6, BalanceIsTotal

LEMMA SumInvariant == LedgerSpec => []SumInv
<1>1. LedgerInit => SumInv
  <2> SUFFICES ASSUME LedgerInit PROVE SumInv
    OBVIOUS
  <2>1. ledger = {} /\ IsFiniteSet(ledger) /\ \A u \in User : balance[u] = 0
    BY FS_EmptySet DEF LedgerInit
  <2>2. \A u \in User : RowsOf(ledger, u) = {}
    BY <2>1 DEF RowsOf
  <2>3. Total({}) = 0
    BY TotalIsSum, SumOfNone, FS_EmptySet
  <2> QED  BY <2>1, <2>2, <2>3, LedgerInvInit, BalanceIsTotal DEF SumInv
<1>2. SumInv /\ [LedgerNext]_ledgerVars => SumInv'
  <2> SUFFICES ASSUME SumInv, [LedgerNext]_ledgerVars PROVE SumInv'
    OBVIOUS
  <2>1. LedgerInv'
    BY LedgerInvStep DEF SumInv
  <2>2. CASE UNCHANGED ledgerVars
    BY <2>1, <2>2, BalanceIsTotal DEF SumInv, ledgerVars
  <2>3. CASE PostsOneRow
    BY <2>1, <2>3, PostKeepsSums DEF SumInv
  <2> QED  BY <2>2, <2>3, LedgerStepPosts DEF SumInv, LedgerInv
<1> QED  BY <1>1, <1>2, PTL DEF LedgerSpec

\* The schema's note on User.generationCredits: whatever calls of the service
\* are interleaved, the cached balance is the sum of the account's rows.
THEOREM BalanceIsAlwaysTheSum == LedgerSpec => []BalanceIsLedgerSum
BY SumInvariant, PTL DEF SumInv
=============================================================================
