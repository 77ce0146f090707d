\* Two accounts and two references; each of the eight reasons can meet each
\* reference, in up to four movements: grant, spend, refund, reversal.
SPECIFICATION LedgerSpec
CONSTANTS
    User = {u1, u2}
    Ref = {g1, g2}
    Amount = {1, 3}
    MaxRows = 4
CONSTRAINT FewRows
SYMMETRY Symmetry
INVARIANTS
    OverdraftOnlyByReversal
    RefundMirrorsSpend
CHECK_DEADLOCK FALSE
