SPECIFICATION Spec
CONSTANTS
    clerk = clerk
    reader = reader
    o1 = o1
    o2 = o2
    letter = letter
    memo = memo
    k1 = k1
    k2 = k2
    k3 = k3
    c1 = c1
    c2 = c2
    ann = ann
    Users = {clerk, reader}
    Documents = {o1, o2, letter, memo}
    Kinds = {"administrative_order", "letter", "memo"}
    KindOf <- MCKindOf
    Orders = {o1, o2}
    Names = {ann}
    Registered <- MCRegistered
    Edits <- MCEdits
    Calls = {c1, c2}
    MaxEdits = 2
    Links = {k1, k2, k3}
    Pairs <- MCPairs
    LinkTypes = {"related", "order_cancels"}
    MaxDepth = 3
    MaxDeletions = 1
    RightsSets <- MCRightsSets
SYMMETRY Symmetry
INVARIANTS
    OrderIsOneEdit
    FlowShowsNothingHidden
    FlowShowsAllVisible
    JournalTellsLinks
PROPERTY
    MarksAreLostToStaleEditsOnly
CHECK_DEADLOCK FALSE
