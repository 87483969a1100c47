CONSTANTS
    Order = {o1}
    Payment = {p1}
    Bypass = {}
    OrderOf <- MCOrderOf
    Amount = 2
    CancelKey = {k1}
    NoKey = NoKey
    NoPayment = NoPayment
    Client = {c1, c2}
    Callback = {n1}
    Faults = {}
SPECIFICATION Spec
INVARIANTS
    RefundsAreRecorded
CHECK_DEADLOCK FALSE
