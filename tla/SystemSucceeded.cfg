SPECIFICATION Spec
CONSTANT Worlds <- NilSCWorld
CONSTRAINT FewFailures
INVARIANT
    SucceededMeansAllPassed
CHECK_DEADLOCK FALSE
