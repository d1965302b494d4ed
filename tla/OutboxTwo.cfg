\* Two running copies of the application; one key obeys the context.
CONSTANTS
    Keys = {k1, k2}
    Contents = {c1, c2}
    Workers = {w1, w2}
    CtxBound = {k1}
    Poison = {}
    MaxAttempts = 2
    BatchLimit = 1
    FaultBound = 1
    RequeueBound = 1
    NoContent = NoContent
SPECIFICATION Spec
SYMMETRY Symmetry
INVARIANTS
    ProcessedImpliesDelivered
    PromiseHasItsRow
    GivenUpAfterAllAttempts
PROPERTIES
    ProcessedIsFinal
    ImplementsEffectDelivery
