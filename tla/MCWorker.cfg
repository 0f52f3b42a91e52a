\* Two ExecuteAndWait calls racing ~Worker, with allocation failures and a
\* worker thread that may fail to start.
CONSTANTS
    p1 = p1
    p2 = p2
    NoTask = none
    Producers <- MCProducers
    Failures <- MCFailures

SPECIFICATION Spec

INVARIANT NoTaskStranded
INVARIANT TaskResolvedOnce
PROPERTY WaitersReturnOnDestroy
PROPERTY DestroyReturns
