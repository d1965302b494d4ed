\* One copy: migrations, rollbacks, a shutdown and an operation.
CONSTANTS
    Copies = {"old"}
    Latest <- Versions
    Threads = {t1, t2}
    Operations = {o1}
    Gens = {g1, g2, g3}
SPECIFICATION LiveSpec
INVARIANTS
    OneWorker
    RollbackIsAlone
    DrainedBeforeClose
PROPERTIES
    EveryCallEnds
