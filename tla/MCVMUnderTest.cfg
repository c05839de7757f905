SPECIFICATION Spec
CONSTANTS
    Boot = boot
    Blanks = {blank}
    Hotplug = hotplug
    Extra = extra
    s1 = s1
    s2 = s2
    Classes = {s1, s2}
    Inputs <- ThreeInputs
    None = None
    MaxEvents = 2
INVARIANTS
    TypeOK
    VolumesAreKept
    PassesAreEarned
\* the checks end
CHECK_DEADLOCK FALSE
