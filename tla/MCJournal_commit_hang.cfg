\* WriteTxBlock fails inside Journal::WriteTx, or Load starts no writer thread.
CONSTANTS
    c1 = c1
    c2 = c2
    s1 = s1
    Writer = w
    NoHolder = none
    Clients <- MCClients
    Stoppers <- MCNoStoppers
    Start <- MCStart
    Size <- MCSizeFits
    BlockSize <- MCBlockSize
    PageSize <- MCPageSize
    DataCap <- MCDataCap
    Positions <- MCPositions
    MaxWrites = 1
    MaxCrashes = 0
    Failures <- MCFailuresAll

SPECIFICATION Spec

PROPERTY CommitTerminates
CHECK_DEADLOCK FALSE
