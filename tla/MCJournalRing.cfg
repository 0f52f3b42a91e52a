\* Ring allocator, page split and overlap test over every small geometry,
\* and the tx block codec for every small block on both host byte orders.
\* A byte has 3 values, a u32 2 bytes and a u64 3, so a u32 swap and a
\* u64 swap differ; the type codes are chosen so that a swapped code is
\* no code, as for the 32-bit codes of the code.
CONSTANTS
    MaxStart = 2
    MaxSize = 5
    MaxPage = 4
    MaxCalls = 9
    TypeBegin = 1
    TypeData = 2
    TypeCommit = 5
    Radix = 3
    W32 = 2
    W64 = 3
    HashMod = 7
    PosVals = {1, 11}
    SizeVals = {1, 5}
    StateVals = {2}
    TimeVals = {0, 7}

SPECIFICATION Spec

INVARIANT RingOrder
INVARIANT OverlapMatchesContract
INVARIANT SplitCoversPage
INVARIANT BlockOnDiskLittleEndian
INVARIANT BlockRoundTrip
