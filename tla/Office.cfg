CONSTANTS
    Request = {r1, r2}
    Person = {p1, p2}
    Thing = {x1, x2}
    MaxUser = 2
    StaffOp = {"owner", "admin", "customer", "deactivate", "password", "delete"}
    maxFailedAttempts = 2
    MaxAddress = 3
    MaxAddressesPerUser = 2
    Text = {"home"}
    MaxKey = 3
    Held = {{}, {"owner"}, {"user_manager", "order_manager"}}
    Chat = {private, group}
    User = {ann}
    SentBy <- MCSentBy
    MaxUpdate = 3
    EnvChats = {}
    EnvUsers = {}
    Product = {a, b}
    Sku = {sku1, sku2}
    Brand = {a}
    Style = {b}
    BrandOf <- MCBrandOf
    MaxQuantity = 1
    Listed = {1, 2, 3}
    MaxViews = 1
    DefaultLimit = 2
    MaxLimit = 3
    Requested = {0, 1, 5}
    Code = {a}
    Discount = {10, 30}
    Order = {a, b}
    Moved = {a}
    OrderKey = {ticket}
    NoOrder = NoOrder
    NoKey = NoKey
    NoPayment = NoPayment
    MaxReservation = 1
    MaxClock = 1
SPECIFICATION Spec
SYMMETRY Symmetry
INVARIANTS
    
    RowsFollowRequests
    PagesCoverMatches
    ChangesAreTold
PROPERTIES
    StoresAgree
    CachesFollow
    WithdrawnIsRefused
    RightsSurvive
CHECK_DEADLOCK FALSE
