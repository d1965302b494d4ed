\* One copy of the application, a poisonous event, and the liveness.
CONSTANTS
    Keys = {k1, k2}
    Contents = {c1}
    Workers = {w1}
    CtxBound = {k1}
    Poison = {k2}
    MaxAttempts = 2
    BatchLimit = 2
    FaultBound = 2
    RequeueBound = 1
    NoContent = NoContent
SPECIFICATION LiveSpec
PROPERTIES
    EventuallySettled
