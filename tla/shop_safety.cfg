\* A sale or two, their corrections, and two days.
SPECIFICATION Spec
CONSTANTS
    Customers = {c1, c2}
    MaxDocs = 4
    MaxSessions = 2
    Amounts = {1, 2}
    DebtAmounts <- OneEachSign
    Opening = 0
    Floats = {1}
    ShelfStock = 2
    NoOne = NoOne
INVARIANTS TypeOK OneOpenSession ClosedDayAddsUp MoneyFollowsDocuments ReversedOnce NoGoodsFromNowhere
PROPERTY ClosedDaysFrozen
SYMMETRY CustomerSymmetry
\* The bounds stop the books once every row and every day is used.
CHECK_DEADLOCK FALSE
