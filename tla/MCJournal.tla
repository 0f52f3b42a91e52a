------------------------------ MODULE MCJournal ------------------------------
(* Model-checking instance of Journal: two client threads, an optional     *)
(* stopper, a ring at block 1 and a one-page write per transaction.        *)
EXTENDS Journal, TLC

CONSTANTS c1, c2, s1

\* Journal at block 1; with 4-byte pages and 3-byte data areas a page is
\* two TxData blocks, so a transaction is at most 4 blocks and a batch of
\* both clients at most 8.
MCStart == 1
MCBlockSize == 4
MCPageSize == 4
MCDataCap == 3

\* Ring of 9 blocks (header + 8): every batch fits.
MCSizeFits == 9
\* Ring of 5 blocks (header + 4): one transaction with a page fits, two do not.
MCSizeSmall == 5

\* Position 0 (below one page), 4 (the header block) and 40 (just past a
\* 9-block journal, or far past a 5-block one).
MCPositions == {0, 4, 40}

\* Failures that leave every thread able to go on (a failed mount ends the
\* run before any thread starts).
MCFailuresBenign == {"TxAlloc", "QueueAlloc", "FlushAlloc", "Io", "Mount"}
\* BlockAlloc strands the writer on its own lock and TaskCreate leaves a
\* mounted journal with no writer: each stops every Commit.
MCFailuresAll == MCFailuresBenign \cup {"BlockAlloc", "TaskCreate"}
MCFailuresNone == {}

MCClients == {c1, c2}
MCStoppers == {s1}
MCNoStoppers == {}

Symm == Permutations(MCClients)

=============================================================================
