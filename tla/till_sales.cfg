SPECIFICATION Spec
CONSTANTS
    tea = tea
    nuts = nuts
    new = new
    c1 = c1
    Products = {tea, nuts, new}
    Weighed = {nuts}
    AtStart = {tea, nuts}
    Prices = {2, 4}
    PackSizes = {2, 3}
    Quantities = {2}
    Weights = {1500}
    Corrections = {1}
    Customers = {c1}
    Years = {2025, 2026}
    FirstShelf = 4
    Cost <- UnitCost
    MaxSteps = 6
CHECK_DEADLOCK FALSE
INVARIANTS TypeOK ShelfFollowsSales ReportNetsOut ReceiptsRunOn
PROPERTIES PricedScreenIsRecorded NothingCarriedOver
