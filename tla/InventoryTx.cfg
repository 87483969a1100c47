CONSTANTS
    s1 = s1
    s2 = s2
    s3 = s3
    s4 = s4
    bag = bag
    wallet = wallet
    Sku = {s1, s3}
    Product = {bag, wallet}
    ProductOf <- MCProductOf
    Rank <- MCRank
    Order = {o1}
    ReservationId = {1, 2}
    MaxQuantity = 2
    Tx = {t1, t2}
SPECIFICATION Spec
INVARIANTS
    TypeOK
    OnlyShipmentsDeadlock
    StockIsSound
PROPERTIES
    ImplementsInventory
