\* Two administrators, two calls at a time in one copy.
CONSTANTS
    Users = {u1, u2}
    Permissions = {admin}
    Admin = admin
    Copies = {p1}
    OneCopy = p1
    Calls = {c1, c2}
    CopyOf <- InOneCopy
    FailLimit = 2
    EditBound = 4
    FaultBound = 1
    Nobody = Nobody
SPECIFICATION Spec
SYMMETRY Symmetry
INVARIANTS
    AdministratorRemains
PROPERTIES
    LockIsAudited
