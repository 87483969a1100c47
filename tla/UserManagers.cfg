CONSTANTS
    User = {u1, u2}
    Address = {a, b}
    Instance = {i1}
    Held = {{}, {"user_manager"}, {"owner", "order_manager"}}
SPECIFICATION Spec
SYMMETRY Symmetric
INVARIANT UserManagersAreManagers
CHECK_DEADLOCK FALSE
