SPECIFICATION Spec
CONSTANTS
    c1 = c1
    c2 = c2
    c3 = c3
    Cases = {c1, c2, c3}
    Excluded = {c3}
    Figures <- MCFigures
    Orders <- MCOrders
    Backends <- RiscZeroExecutes
INVARIANTS
    TimesAreSeconds
CHECK_DEADLOCK FALSE
