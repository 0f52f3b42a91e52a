\* Entries of TxTable after a successful commit.
CONSTANTS
    c1 = c1
    c2 = c2
    s1 = s1
    Writer = w
    NoHolder = none
    Clients <- MCClients
    Stoppers <- MCNoStoppers
    Start <- MCStart
    Size <- MCSizeFits
    BlockSize <- MCBlockSize
    PageSize <- MCPageSize
    DataCap <- MCDataCap
    Positions <- MCPositions
    MaxWrites = 1
    MaxCrashes = 0
    Failures <- MCFailuresNone

SPECIFICATION Spec

INVARIANT TxTableLive
