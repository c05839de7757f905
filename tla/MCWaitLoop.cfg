SPECIFICATION Spec
CONSTANT
    Timeouts = {"zero", "positive"}
INVARIANTS
    TypeOK
    EndIsOrderly
PROPERTIES
    KeepsContract
\* the poll returns
CHECK_DEADLOCK FALSE
