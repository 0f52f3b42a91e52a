\* A table that was constructed, used by a careful owner with no allocation
\* failing: its buckets stay well-formed and it implements KeyMap.
CONSTANTS
    k1 = k1
    k2 = k2
    k3 = k3
    Keys = {k1, k2, k3}
    Values = {v1, v2}
    Absent = Absent
    NrBuckets = 2
    KeyHash <- MCKeyHash
    Failures <- MCFailuresNone
SPECIFICATION Spec
INVARIANT WellFormed
PROPERTY ImplementsKeyMap
