\* A customer with one credit, one more if the admin grants it, and two
\* generations to make; two workers; one incident per generation.
SPECIFICATION Spec
CONSTANTS
    User = {customer}
    Admin = {}
    Gen = {g1, g2}
    Worker = {w1, w2}
    AdminCall = {call}
    Ref = {customer, g1, g2, call}
    Amount = {1}
    SignupBonus = 1
    GrantAmount = 1
    MaxIncidents = 1
    None = None
SYMMETRY Symmetry
INVARIANTS
    BalanceIsLedgerSum
    NoFreeGeneration
    EverySpendHasItsGeneration
    DeliveredIsCharged
PROPERTIES
    LedgerSpec
    CompletedIsFinal
CHECK_DEADLOCK FALSE
