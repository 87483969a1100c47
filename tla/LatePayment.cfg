CONSTANTS
    o1 = o1
    o2 = o2
    p1 = p1
    p2 = p2
    NoReservation = NoReservation
    NoPayment = NoPayment
    NoOrder = NoOrder
    Sku = {tote}
    Product = {bag}
    ProductOf <- MCProductOf
    Order = {o1}
    ReservationId = {r1, r2, r3, r4}
    MaxQuantity = 2
    HttpHandler = {h1}
    SucceededConsumer = {s1, s2}
    CanceledConsumer = {c1}
    ExpiryWorker = {e1}
    Payment = {p1}
    OrderOf <- MCOrderOf
    Mispaid = {}
    ItemsOf <- MCItemsOf
    Quantities = {}
    StaffCancels = FALSE
    Faults = {}
SPECIFICATION FairSpec
PROPERTIES
    CapturedIsApplied
    RefundStopsPaidOrder
CHECK_DEADLOCK FALSE
