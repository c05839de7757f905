SPECIFICATION Spec
CONSTANT Worlds <- SafeWorlds
CONSTRAINT FewFailures
INVARIANTS
    ReportedSuccessIsEarned
    PodTakesTheRest
PROPERTY
    RefinesLauncher
\* the process ends
CHECK_DEADLOCK FALSE
