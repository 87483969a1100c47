CONSTANTS
    o1 = o1
    o2 = o2
    p1 = p1
    p2 = p2
    NoReservation = NoReservation
    NoPayment = NoPayment
    NoOrder = NoOrder
    Sku = {tote}
    Product = {bag}
    ProductOf <- MCProductOf
    Order = {o1, o2}
    ReservationId = {r1, r2, r3, r4}
    MaxQuantity = 2
    HttpHandler = {h1, h2}
    SucceededConsumer = {s1}
    CanceledConsumer = {c1}
    ExpiryWorker = {e1}
    Payment = {p1, p2, p3}
    OrderOf <- MCOrderOf
    Mispaid = {p3}
    ItemsOf <- MCItemsOf
    Quantities = {0, 1}
    StaffCancels = FALSE
    Faults = {}
SPECIFICATION Spec
SYMMETRY MCSymmetry
INVARIANTS
    PaidByItsPayment
    
PROPERTIES
    ShippedStaysShipped
    OnlyRefundUndoesPayment
    ReplayIsNoOp
CHECK_DEADLOCK FALSE
