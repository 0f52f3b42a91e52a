\* A crash after Commit returned Success, before the device wrote the batch back.
CONSTANTS
    c1 = c1
    c2 = c2
    s1 = s1
    Writer = w
    NoHolder = none
    Clients <- MCClients
    Stoppers <- MCNoStoppers
    Start <- MCStart
    Size <- MCSizeFits
    BlockSize <- MCBlockSize
    PageSize <- MCPageSize
    DataCap <- MCDataCap
    Positions <- MCPositions
    MaxWrites = 1
    MaxCrashes = 1
    Failures <- MCFailuresNone

SPECIFICATION Spec

PROPERTY CrashKeepsCommitted
