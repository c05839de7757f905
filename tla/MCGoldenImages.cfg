SPECIFICATION Spec
CONSTANTS
    Crons = {c1, c2, c3}
    Classes = {s1, s2}
    None = None
    MaxTime = 1
SYMMETRY Symmetry
INVARIANTS
    TypeOK
    ChoiceIsBest
    ReportIsExact
\* the scan ends
CHECK_DEADLOCK FALSE
