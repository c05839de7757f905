SPECIFICATION AuditSpec
CONSTANTS
    VMs = {v1, v2}
    NoVM = NoVM
    NumNamespaces = 2
    ProvisionedLists <- AllClassLists
    VolumeLists <- SomeVolumeLists
SYMMETRY Symmetry
INVARIANTS
    AuditTypeOK
    AbortIsExplained
    AuditIsExact
\* the audit ends
CHECK_DEADLOCK FALSE
