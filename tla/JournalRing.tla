----------------------------- MODULE JournalRing -----------------------------
(***************************************************************************)
(* The pure helpers of src/kstor/journal.cpp and src/core/memory.h that    *)
(* Journal uses, with the ring geometry and page geometry as parameters:   *)
(* the ring block allocator, the cutting of a page into TxData blocks and  *)
(* the range-intersection test behind Transaction::Write's Overlap error.  *)
(***************************************************************************)
EXTENDS Naturals, Sequences

LOCAL INSTANCE FiniteSetsExt

\* Mutants of GetNextBlockIndex: the wrap test off by one, a missing
\* increment, and a wrap onto the header block.
GetNextBlockIndexPastEnd(start, size, curr) ==
    IF curr + 1 > start + size THEN start + 1 ELSE curr + 1

GetNextBlockIndexStuck(start, size, curr) ==
    IF curr + 1 >= start + size THEN start + 1 ELSE curr

GetNextBlockIndexToHeader(start, size, curr) ==
    IF curr + 1 >= start + size THEN start ELSE curr + 1

\* Journal::GetNextBlockIndex: the value CurrBlockIndex moves to after it
\* has been handed out.  Block `start` holds the header.
GetNextBlockIndex(start, size, curr) ==
    IF curr + 1 >= start + size THEN start + 1 ELSE curr + 1

\* CurrBlockIndex after k calls of GetNextBlockIndex.
RECURSIVE AdvanceIndex(_, _, _, _)
AdvanceIndex(start, size, curr, k) ==
    IF k = 0 THEN curr
    ELSE AdvanceIndex(start, size, GetNextBlockIndex(start, size, curr), k - 1)

\* Transaction::Write's loop: while (off < size) a block takes
\* read = min(DataCap, size - off) bytes at Position = position + off.
\* The result is the sequence of <<Position, DataSize>> pairs.
\* Mutant: every block is taken as full, ignoring the page's remainder.
RECURSIVE SplitFromFullBlocks(_, _, _, _)
SplitFromFullBlocks(pageSize, dataCap, position, off) ==
    IF off >= pageSize THEN <<>>
    ELSE <<<<position + off, dataCap>>>>
         \o SplitFromFullBlocks(pageSize, dataCap, position, off + dataCap)

RECURSIVE SplitFrom(_, _, _, _)
SplitFrom(pageSize, dataCap, position, off) ==
    IF off >= pageSize THEN <<>>
    ELSE LET read == Min({dataCap, pageSize - off})
         IN <<<<position + off, read>>>>
            \o SplitFrom(pageSize, dataCap, position, off + read)

SplitPage(pageSize, dataCap, position) ==
    SplitFrom(pageSize, dataCap, position, 0)

\* Memory::CheckRange and Memory::CheckIntersection of [start1, end1) and
\* [start2, end2).
CheckRange(start, end) == end > start

\* Mutant: ranges that only touch at end1 = start2 count as intersecting.
CheckIntersectionTouching(start1, end1, start2, end2) ==
    /\ CheckRange(start1, end1)
    /\ CheckRange(start2, end2)
    /\ ~(start2 > end1)
    /\ ~(end2 <= start1)

CheckIntersection(start1, end1, start2, end2) ==
    /\ CheckRange(start1, end1)
    /\ CheckRange(start2, end2)
    /\ ~(start2 >= end1)
    /\ ~(end2 <= start1)

\* The two Overlap rejections of Transaction::Write for a page written at
\* byte `position` into a journal of `size` blocks at block `start`.
WriteOverlaps(start, size, blockSize, pageSize, position) ==
    \/ position < pageSize
    \/ CheckIntersection(position, position + pageSize,
                         start * blockSize, (start + size) * blockSize)

=============================================================================
