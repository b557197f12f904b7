SPECIFICATION BusinessSpec
CONSTANTS
    Sessions = {s1, s2}
    Employees = {e1}
    Days = {1, 2}
    Today = 2
    Names = {na, nb}
    Numbers = {1, 2}
SYMMETRY TwinSessions
INVARIANTS BusinessTypeOK BusinessIsSound  PurchasesAddUp DrawnOnce
PROPERTIES NeverBeyondTarget ClosedStaysClosed
CHECK_DEADLOCK FALSE
