CONSTANTS
    Order = {o1}
    Payment = {p1, b1}
    Bypass = {b1}
    OrderOf <- MCOrderOf
    Amount = 2
    CancelKey = {k1}
    NoKey = NoKey
    NoPayment = NoPayment
    Client = {c1, c2}
    Callback = {n1}
    Faults = {"refused", "lost", "crash"}
SPECIFICATION Spec
SYMMETRY MCSymmetry
INVARIANTS
    TypeOK
    BooksAreReal
    FullRefundIsTold
    OnlyLostAnswersLoseRefunds
    
CHECK_DEADLOCK FALSE
