---------------------------- MODULE MCJournalRing ----------------------------
(***************************************************************************)
(* Checks the helpers of JournalRing against reference definitions taken   *)
(* from the on-disk layout and Write contract of the journal, for every    *)
(* small geometry: the state picks a ring (start, size), a page geometry   *)
(* (pageSize = blockSize, dataCap) and a write position, then calls        *)
(* GetNextBlockIndex MaxCalls times.  It also picks a host byte order and *)
(* a tx block, whose on-disk form JournalBlock computes.                   *)
(***************************************************************************)
EXTENDS Naturals, FiniteSets, Sequences, JournalRing, JournalBlock

CONSTANTS MaxStart, MaxSize, MaxPage, MaxCalls,
          PosVals, SizeVals, StateVals, TimeVals

VARIABLES start, size, pageSize, dataCap, position, cur, k, host, blk

vars == <<start, size, pageSize, dataCap, position, cur, k, host, blk>>

\* The blocks Journal::CreateTxBlock can build, in host order.
TxBlocks ==
    [Type : {TypeBegin}]
    \cup [Type : {TypeData}, Position : PosVals, DataSize : SizeVals]
    \cup [Type : {TypeCommit}, State : StateVals, Time : TimeVals]

\* Journal::Load: CurrBlockIndex = Start + 1 for any loaded geometry
\* (Load rejects Size <= 1).
Init ==
    /\ start \in 0..MaxStart
    /\ size \in 2..MaxSize
    /\ pageSize \in 2..MaxPage
    /\ dataCap \in 1..(pageSize - 1)
    /\ position \in 0..((start + size + 1) * pageSize)
    /\ cur = start + 1
    /\ k = 0
    /\ host \in Hosts
    /\ blk \in TxBlocks

\* The writer takes the next ring index.
TakeIndex ==
    /\ k < MaxCalls
    /\ cur' = GetNextBlockIndex(start, size, cur)
    /\ k' = k + 1
    /\ UNCHANGED <<start, size, pageSize, dataCap, position, host, blk>>

\* Journal::Load again on the same geometry: CurrBlockIndex = Start + 1.
Reload ==
    /\ k = MaxCalls
    /\ cur' = start + 1
    /\ k' = 0
    /\ UNCHANGED <<start, size, pageSize, dataCap, position, host, blk>>

Spec == Init /\ [][TakeIndex \/ Reload]_vars

-----------------------------------------------------------------------------
\* The ring is circular over blocks start+1 .. start+size-1 (spec 4.3.1 and
\* section 8): after k allocations CurrBlockIndex is the k-th block after
\* start+1 round that circle, so it never names the header block `start`
\* nor the block past the end, and every ring block is reused only after
\* all the others.
RingOrder ==
    /\ cur = start + 1 + (k % (size - 1))
    /\ start < cur /\ cur < start + size

\* Transaction::Write accepts a page at `position` exactly when
\* position >= page size and the page's bytes miss the journal's bytes
\* [start * bs, (start + size) * bs) (spec 4.3.5).
OverlapMatchesContract ==
    LET bytes == position..(position + pageSize - 1)
        journal == (start * pageSize)..((start + size) * pageSize - 1)
    IN WriteOverlaps(start, size, pageSize, pageSize, position)
       <=> (position < pageSize \/ bytes \cap journal # {})

\* The TxData blocks of a page cover its bytes exactly once, in order, each
\* holding at most dataCap bytes, with as few blocks as possible.
SplitCoversPage ==
    LET parts == SplitPage(pageSize, dataCap, position)
        n == Len(parts)
        Covered(i) == parts[i][1]..(parts[i][1] + parts[i][2] - 1)
    IN /\ n = (pageSize + dataCap - 1) \div dataCap
       /\ \A i \in 1..n : parts[i][2] \in 1..dataCap
       /\ \A i \in 1..(n - 1) : parts[i + 1][1] = parts[i][1] + parts[i][2]
       /\ parts[1][1] = position
       /\ UNION {Covered(i) : i \in 1..n} = position..(position + pageSize - 1)

\* The little-endian bytes of the fields of block b (spec 4.3.7).
RECURSIVE LEImage(_, _)
LEImage(b, fs) ==
    IF fs = <<>> THEN <<>>
    ELSE LEDigits(Width[Head(fs)], b[Head(fs)]) \o LEImage(b, Tail(fs))

\* Whatever the host's byte order, WriteTxBlockPrepare leaves on the page
\* the little-endian bytes of every field of the block (spec 4.3.7), so a
\* journal written on one host replays on another.
BlockOnDiskLittleEndian ==
    LET r == WriteTxBlockPrepare(host, blk)
    IN r.err = "Success" /\ r.page.bytes = LEImage(blk, FieldsOf(blk.Type))

\* ReadTxBlockComplete of the page WriteTxBlockPrepare produced, on the same
\* host, accepts its hash and gives back the block that was written.
BlockRoundTrip ==
    ReadTxBlockComplete(host, WriteTxBlockPrepare(host, blk).page)
        = [err |-> "Success", blk |-> blk]

=============================================================================
