SPECIFICATION FairSpec
CONSTANTS
    Workers = {w1, w2, w3}
    Names = {n1, n2}
    NoOne = NoOne
    Other = Other
INVARIANTS
    TypeOK
    ChannelIsSafe
    OnlyFaultsLeaveVMs
PROPERTIES
    DeletesOwnVMsOnly
    KeepsPromise
    CheckEnds
\* the check returns
CHECK_DEADLOCK FALSE
