SPECIFICATION Spec
CONSTANTS
    Scan = {s1, s2}
    MaxFaults = 2
    MaxPauses = 1
INVARIANTS
    OrdersStayClosable
    TradesFollowOrders
PROPERTY HandlersReturn
CHECK_DEADLOCK FALSE
