\* The constructor's allocations and AddTail may fail, and the owner checks
\* err before using the table.
CONSTANTS
    k1 = k1
    k2 = k2
    k3 = k3
    Keys = {k1, k2, k3}
    Values = {v1, v2}
    Absent = Absent
    NrBuckets = 2
    KeyHash <- MCKeyHash
    Failures <- MCFailuresAll
SPECIFICATION Spec
INVARIANT NoKernelBug
