SPECIFICATION Spec
CONSTANTS
    s1 = s1
    s2 = s2
    Suppliers = {s1, s2}
    MaxRows = 5
    Quantities = {2}
    UnitPrices = {3}
    Vats = {0}
    Openings = {0, 1}
    ShelfStock = 2
    FirstCost = 1
SYMMETRY Symmetry
CHECK_DEADLOCK FALSE
INVARIANTS TypeOK DrawerFollowsPayments SummaryExplained InvoiceNotOverpaid GoodsVoidedOnce
PROPERTIES CostStaysBetween
