CONSTANTS
    Session = {cs1}
    Variant = {tote}
    Key = {k1}
    Body = {b1, b2}
    Request = {r1, r2}
    MaxOrders = 2
    EditsOverlap = FALSE
    Faults = {"refused", "lost", "crash"}
SPECIFICATION Spec
SYMMETRY MCSymmetry
INVARIANTS
    LosersAreUndone
    AnswersAgree

    
CHECK_DEADLOCK FALSE
