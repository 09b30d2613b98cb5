\* The audit at the close of a day, against what its header promises.
SPECIFICATION Spec
CONSTANTS
    Customers = {c1}
    MaxDocs = 3
    MaxSessions = 1
    Amounts = {1, 2}
    DebtAmounts = {1}
    Opening = 0
    Floats = {1}
    ShelfStock = 2
    NoOne = NoOne
INVARIANT VoidedSalesBalance
CHECK_DEADLOCK FALSE
