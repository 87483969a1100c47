CONSTANTS
    s1 = s1
    s2 = s2
    s3 = s3
    s4 = s4
    bag = bag
    wallet = wallet
    Sku = {s1, s2, s3, s4}
    Product = {bag, wallet}
    ProductOf <- MCProductOf
    Rank <- MCRank
    Order = {o1}
    ReservationId = {1, 2}
    MaxQuantity = 1
    Tx = {t1, t2}
SPECIFICATION ShipmentsSpec
PROPERTIES
    EveryTransactionEnds
