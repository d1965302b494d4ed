SPECIFICATION Spec
CONSTANTS
    manager = manager
    executor = executor
    colleague = colleague
    letter = letter
    order = order
    letters = letters
    orders = orders
    a1 = a1
    c1 = c1
    c2 = c2
    Users = {manager, executor, colleague}
    Documents = {letter, order}
    Kinds = {letters, orders}
    KindOf <- MCKindOf
    Actions = {"assign", "read"}
    Assignments = {a1}
    Calls = {c1, c2}
    Requests <- MCRequests
    Teams <- MCTeams
    RightsSets <- MCRightsSets
    ParticipantSets <- MCParticipantSets
    Replacements <- MCReplacements
SYMMETRY Symmetry
INVARIANTS
    StatusTellsTheTruth
    EveryoneNamedWasTold
    OpenedIsListed
    ExecutorCanRead
CHECK_DEADLOCK FALSE
