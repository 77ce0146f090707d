---------------------------- MODULE CreditLedger ----------------------------
(***************************************************************************)
(* The generation-credit ledger: CreditsService and the two tables it      *)
(* writes, User.generationCredits (balance) and CreditTransaction          *)
(* (ledger).  Every operation of the service runs in one database          *)
(* transaction, its caller's or its own, so each is one action here.       *)
(*                                                                         *)
(* LedgerSpec is what the service promises to the components that call it. *)
(* Those components (Generations, and later the orders) extend this        *)
(* module, call its operations from their own handlers, and are shown to   *)
(* implement LedgerSpec.                                                   *)
(***************************************************************************)
EXTENDS Integers, FiniteSetsExt

CONSTANTS
    User,       \* accounts
    Ref,        \* values of CreditTransaction.referenceId
    Amount      \* the credit amounts a caller may grant or revoke

ASSUME AmountIsPositive == Amount \subseteq Nat \ {0}

VARIABLES
    balance,    \* User.generationCredits
    ledger      \* the rows of CreditTransaction

ledgerVars == <<balance, ledger>>

GrantReason    == {"signup_bonus", "order_bonus", "pack_purchase", "admin_grant"}
ReversalReason == {"order_bonus_reversal", "pack_purchase_reversal"}
Reason == GrantReason \cup ReversalReason
            \cup {"generation_spend", "generation_refund"}

Row == [user : User, amount : Int, reason : Reason, ref : Ref]

(***************************************************************************)
(* The unique index on (reason, referenceId): a second insert is the P2002 *)
(* that every operation below turns into a no-op.  An admin grant stores a *)
(* NULL reference, which Postgres never finds equal to another, so its     *)
(* callers pass a reference of their own for each call.                    *)
(***************************************************************************)
Posted(reason, ref) == \E r \in ledger : r.reason = reason /\ r.ref = ref

Post(u, n, reason, ref) ==
    /\ ledger' = ledger \cup {[user |-> u, amount |-> n, reason |-> reason, ref |-> ref]}
    /\ balance' = [balance EXCEPT ![u] = @ + n]

Grant(u, n, reason, ref) ==
    IF Posted(reason, ref) THEN UNCHANGED ledgerVars
                           ELSE Post(u, n, reason, ref)

\* The balance may go below zero: the decrement is unconditional.
Revoke(u, n, reason, ref) ==
    IF Posted(reason, ref) THEN UNCHANGED ledgerVars
                           ELSE Post(u, -n, reason, ref)

\* Mutant of SpendForGeneration: the decrement without its balance condition.
SpendUnconditionally(u, g) ==
    /\ ~Posted("generation_spend", g)
    /\ Post(u, -1, "generation_spend", g)

\* Disabled where the service throws 402 and its caller rolls back.
SpendForGeneration(u, g) ==
    /\ balance[u] >= 1
    /\ ~Posted("generation_spend", g)
    /\ Post(u, -1, "generation_spend", g)

\* Mutant of RefundGeneration: the duplicate row is ignored, the increment is not.
RefundAgain(g) ==
    IF Posted("generation_spend", g)
    THEN \E spend \in ledger :
            /\ spend.reason = "generation_spend"
            /\ spend.ref = g
            /\ Post(spend.user, 1, "generation_refund", g)
    ELSE UNCHANGED ledgerVars

\* Mutant of RefundGeneration: it trusts its caller about the spend.
RefundUnspent(g) ==
    IF ~Posted("generation_refund", g)
    THEN \E u \in User : Post(u, 1, "generation_refund", g)
    ELSE UNCHANGED ledgerVars

RefundGeneration(g) ==
    IF Posted("generation_spend", g) /\ ~Posted("generation_refund", g)
    THEN \E spend \in ledger :
            /\ spend.reason = "generation_spend"
            /\ spend.ref = g
            /\ Post(spend.user, 1, "generation_refund", g)
    ELSE UNCHANGED ledgerVars

-----------------------------------------------------------------------------
LedgerInit ==
    /\ balance = [u \in User |-> 0]
    /\ ledger = {}

LedgerNext ==
    \/ \E u \in User, n \in Amount, reason \in GrantReason, ref \in Ref :
            Grant(u, n, reason, ref)
    \/ \E u \in User, n \in Amount, reason \in ReversalReason, ref \in Ref :
            Revoke(u, n, reason, ref)
    \/ \E u \in User, g \in Ref : SpendForGeneration(u, g)
    \/ \E g \in Ref : RefundGeneration(g)

LedgerSpec == LedgerInit /\ [][LedgerNext]_ledgerVars

-----------------------------------------------------------------------------
LedgerTypeOK ==
    /\ balance \in [User -> Int]
    /\ ledger \in SUBSET Row

\* The schema's note on User.generationCredits: the cached balance is always
\* the sum of the account's ledger rows.
BalanceIsLedgerSum ==
    \A u \in User :
        balance[u] = MapThenSumSet(LAMBDA r : r.amount, {r \in ledger : r.user = u})

\* However often a webhook, a retry or a second worker repeats an operation,
\* one (reason, reference) leaves one row in the ledger.
OneRowPerReference ==
    \A r, s \in ledger : r.reason = s.reason /\ r.ref = s.ref => r = s

\* A refund returns exactly the credit that the same account spent on the same
\* generation; with OneRowPerReference, no generation returns two credits.
RefundMirrorsSpend ==
    \A r \in ledger : r.reason = "generation_refund" =>
        \E s \in ledger : /\ s.reason = "generation_spend"
                          /\ s.ref = r.ref
                          /\ s.user = r.user
                          /\ s.amount + r.amount = 0

\* Two requests that race for the last credit cannot both have it: only the
\* reversal of a refunded or cancelled order takes a balance below zero.
OverdraftOnlyByReversal ==
    \A u \in User : balance[u] < 0 =>
        \E r \in ledger : r.user = u /\ r.reason \in ReversalReason

\* No write touches a balance without a row of the same account and amount,
\* and no row is ever changed or removed.
BalanceFollowsLedger ==
    [][ \/ UNCHANGED ledgerVars
        \/ \E r \in ledger' \ ledger :
              /\ ledger' = ledger \cup {r}
              /\ balance' = [balance EXCEPT ![r.user] = @ + r.amount]
      ]_ledgerVars
=============================================================================
