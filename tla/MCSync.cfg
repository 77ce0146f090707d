\* Three runs of either kind and one restart; or an order of two
\* FulfillmentOrders that change three times, and one failed call.
SPECIFICATION Spec
CONSTANTS
    Run = {r1, r2, r3}
    MaxRestarts = 1
    FO = {f, g}
    MaxShopSteps = 3
    MaxOutages = 1
INVARIANT RunsApart
PROPERTIES
    RunsSettle
    BadgeCatchesUp
CHECK_DEADLOCK FALSE
