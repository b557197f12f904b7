SPECIFICATION OfficeSpec
CONSTANTS
    Sessions = {s1, s2}
    Employees = {e1, e2}
    Days = {1, 2}
    Today = 2
    Names = {na, nb}
    Numbers = {1, 2}
SYMMETRY Twins
INVARIANTS OfficeTypeOK OfficeIsSound NeverOverlap OneTokenPerLogin
PROPERTIES PrimariesSettle NothingOverwritten
CHECK_DEADLOCK FALSE
