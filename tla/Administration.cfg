\* The schema under two copies of the application; or the rights.
SPECIFICATION AdministrationSpec
CONSTANTS
    Copies = {"old", "new"}
    Latest <- Versions
    Threads = {t1}
    Operations = {}
    Gens = {g1}
    u1 = u1
    u2 = u2
    dep = dep
    d1 = d1
    d2 = d2
    incoming = incoming
    order = order
    n1 = n1
    n2 = n2
    Users = {u1, u2}
    Departments = {dep}
    Documents = {d1, d2}
    Kinds = {incoming, order}
    Nomenclatures = {n1, n2}
    Actions = {"read", "link", "create", "upload", "view_journal"}
    KindOf <- MCKindOf
    NomenclatureOf <- MCNomenclatureOf
    DepartmentGrants <- MCDepartmentGrants
    Profiles <- MCProfiles
    Windows <- MCWindows
    MaxNamed = 1
    LastDay = 2
SYMMETRY Symmetry
INVARIANTS
    OpenMeansUpToDate
    OnePolicy
    ListMatchesCard
PROPERTY
    WithdrawalOpensNothing
