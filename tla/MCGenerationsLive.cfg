\* One generation, the customer's or the admin's (a style test or an exempt
\* one), through up to two incidents, on two workers, under fairness.
SPECIFICATION FairSpec
CONSTANTS
    User = {customer, admin}
    Admin = {admin}
    Gen = {g1}
    Worker = {w1, w2}
    AdminCall = {}
    Ref = {customer, admin, g1}
    Amount = {1}
    SignupBonus = 1
    GrantAmount = 1
    MaxIncidents = 2
    None = None
INVARIANTS
    FinishedJobIsSettled
PROPERTY PaidGenerationSettles
CHECK_DEADLOCK FALSE
