SPECIFICATION Spec
CONSTANTS
    Processes = {p1, p2, p3}
    Specs <- TwoSpecs
    None = None
    MaxEdits = 1
SYMMETRY Symmetry
INVARIANTS
    TypeOK
    LostReportIsExplained
    BusyIsRespected
PROPERTY
    KeepsLedger
\* all processes have exited
CHECK_DEADLOCK FALSE
