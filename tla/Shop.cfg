CONSTANTS
    Request = {r1, r2}
    Thing = {x1, x2}
    Customer = {alice}
    Staff = {admin}
    Visitor = {a}
    MaxQty = 1
    MaxImage = 1
    MaxSold = 1
    MaxToken = 3
SPECIFICATION Spec
SYMMETRY Symmetry
INVARIANTS
    TypesOK
    CartAnswersAreTrue
    
    TokensFollowLogins
PROPERTIES
    ChargesAreNoticed
    ImplementsStore
CHECK_DEADLOCK FALSE
