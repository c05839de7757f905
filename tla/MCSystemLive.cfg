SPECIFICATION FairSpec
CONSTANT Worlds <- LiveWorlds
PROPERTIES
    StartedIsCompleted
\* the process ends
CHECK_DEADLOCK FALSE
