\* Commits of two clients under I/O, allocation and mount failures, a crash
\* and a Journal::Stop racing them. Stop can hang (StopTerminates), so
\* deadlock is not checked.
CONSTANTS
    c1 = c1
    c2 = c2
    s1 = s1
    Writer = w
    NoHolder = none
    Clients <- MCClients
    Stoppers <- MCStoppers
    Start <- MCStart
    Size <- MCSizeFits
    BlockSize <- MCBlockSize
    PageSize <- MCPageSize
    DataCap <- MCDataCap
    Positions <- MCPositions
    MaxWrites = 1
    MaxCrashes = 1
    Failures <- MCFailuresBenign

SPECIFICATION Spec

INVARIANT TypeOK
INVARIANT CommittedTxOnRing
INVARIANT BatchAllOrNothing
INVARIANT LoadFindsHeader
PROPERTY CommitTerminatesUnlessStopped
PROPERTY ImplementsJournalTx

CHECK_DEADLOCK FALSE
