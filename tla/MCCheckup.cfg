SPECIFICATION Spec
CONSTANT Worlds <- AllWorlds
INVARIANTS
    TypeOK
    SuccessIsComplete
    SkipsAreJustified
    TeardownCleans
PROPERTIES
    RestoresStoppedVMsOnly
    ForeignSurvives
\* Run and Teardown return
CHECK_DEADLOCK FALSE
