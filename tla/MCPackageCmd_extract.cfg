SPECIFICATION Spec
CONSTANTS
    Threads = {t1, t2, t3}
    Parent = parent
    Outputs <- MCOutputs
    PipeSize = 1
    Captured = {t1, t2}
    Tolerated = {t2}
INVARIANTS
    TypeOK
    OutputLogged
    ReadyMeansAll
PROPERTIES
    ExtractionEnds
