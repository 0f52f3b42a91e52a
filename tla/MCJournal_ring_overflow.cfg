\* A ring with room for one transaction but not for a batch of two.
CONSTANTS
    c1 = c1
    c2 = c2
    s1 = s1
    Writer = w
    NoHolder = none
    Clients <- MCClients
    Stoppers <- MCNoStoppers
    Start <- MCStart
    Size <- MCSizeSmall
    BlockSize <- MCBlockSize
    PageSize <- MCPageSize
    DataCap <- MCDataCap
    Positions <- MCPositions
    MaxWrites = 1
    MaxCrashes = 0
    Failures <- MCFailuresNone

SPECIFICATION Spec

INVARIANT CommittedTxOnRing
