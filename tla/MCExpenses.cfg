\* One order with one generation, two recordings at a
\* time and one incident; a seeded model and one that is not.
SPECIFICATION ExpenseSpec
CONSTANTS
    Slot = {s1, s2}
    Gen = {g}
    Model = {flux, other}
    ModelOf <- OneModel
    UpscaleModel = flux
    Seeded = {flux}
    Price = {1}
    CostValue = {1, 2}
    None = None
    MaxEntries = 2
    MaxIncidents = 1
PROPERTIES
    BookSpec
    RatesAreTheAdmins
    CostSettles
CHECK_DEADLOCK FALSE
