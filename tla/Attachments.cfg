\* Two users; deliveries that fail, are given up, requeued and resumed; and
\* one refresh of the total; the last property needs the fairness of LiveSpec.
CONSTANTS
    Files = {f1, f2}
    OldFiles = {f1}
    Clients = {c1, c2}
    Workers = {w1}
    Scanners = {s1}
    FaultBound = 2
    RequeueBound = 1
SPECIFICATION LiveSpec
INVARIANTS
    VisibleIsReadable
    DeletionLeavesNoObject
    TotalIsExact
PROPERTIES
    DeletionCompletes
\* Every file may be deleted in the end: nothing is left to do.
CHECK_DEADLOCK FALSE
