------------------------------- MODULE Journal -------------------------------
(***************************************************************************)
(* The journal of src/kstor/journal.cpp: the mount thread that runs       *)
(* Journal::Format and Journal::Load, client threads that each run one     *)
(* Transaction (BeginTx, Write, Commit, Cancel, or drop the handle), the   *)
(* background writer thread (Journal::Run) that batches committing         *)
(* transactions into the ring, a thread calling Journal::Stop, and the     *)
(* block device with a volatile write cache that a crash empties.          *)
(*                                                                         *)
(* Locks are modelled where a thread can block on them: the journal's      *)
(* read/write semaphore `Lock` (held exclusively across steps only by the  *)
(* writer inside Journal::WriteTx and by Journal::Stop; every shared hold  *)
(* is a single step) and each transaction's mutex `Transaction::Lock`.    *)
(* The semaphore is not recursive: a thread holding it exclusively that    *)
(* asks for it shared waits for itself.                                    *)
(*                                                                         *)
(* `ring` holds, per journal block, what a read of the device returns (the *)
(* last block written there); `media` the blocks stable media may hold.   *)
(* The device writes cached blocks back in any order; only a bio with      *)
(* FLUSH+FUA forces them (spec section 4.1).  Block contents are records naming the  *)
(* transaction and type; the little-endian encoding and the xxHash trailer *)
(* are not modelled, and a block write is atomic, so the DataCorrupt and   *)
(* BadSize returns of Load cannot happen.                                  *)
(***************************************************************************)
EXTENDS Naturals, Sequences, FiniteSets, JournalRing

LOCAL INSTANCE FiniteSetsExt
LOCAL INSTANCE TLC

CONSTANTS
    Clients,     \* client threads; each runs one transaction, named like it
    Stoppers,    \* {} or the one thread that calls Journal::Stop
    Writer,      \* the journal's writer thread (TxThread)
    NoHolder,    \* lock owner when a lock is free
    Start,       \* block index of the journal header
    Size,        \* journal size in blocks, header included
    BlockSize,   \* device block size in bytes (= page size)
    PageSize,    \* size of the page handed to Transaction::Write
    DataCap,     \* sizeof(JournalTxDataBlock::Data)
    Positions,   \* byte positions clients pass to Transaction::Write
    MaxWrites,   \* bound on Write calls per transaction
    MaxCrashes,  \* bound on crashes
    Failures     \* which failures the environment may inject

FailureKinds == {"TxAlloc",    \* BeginTx: allocation or TxId.Generate fails
                 "QueueAlloc", \* StartCommitTx: TxList.AddTail fails
                 "BlockAlloc", \* WriteTxBlock: page allocation / AddIo fails
                 "FlushAlloc", \* Flush: page allocation / AddIo fails
                 "Io",         \* a bio of the batch completes with an error
                 "Mount",      \* Format or Load: page allocation, header
                               \* I/O or TxThread's allocation fails
                 "TaskCreate"} \* Load: TxThread's kernel task is not
                               \* created (task_create returns null)

ASSUME /\ Stoppers \cap Clients = {} /\ Writer \notin Clients \cup Stoppers
       /\ Cardinality(Stoppers) <= 1
       /\ Start \in Nat /\ Size \in Nat /\ Size >= 2
       /\ BlockSize = PageSize /\ DataCap \in 1..(PageSize - 1)
       /\ Positions \subseteq Nat /\ MaxWrites \in Nat /\ MaxCrashes \in Nat
       /\ Failures \subseteq FailureKinds

Actors == Clients \cup Stoppers \cup {Writer}

RingSlots == (Start + 1)..(Start + Size - 1)

JournalSlots == Start..(Start + Size - 1)

-----------------------------------------------------------------------------
(* Blocks and the ring allocator.                                          *)

BlockTypes == {"TxBegin", "TxData", "TxCommit"}

Block(t, type, pos, len) == [tx |-> t, type |-> type, pos |-> pos, len |-> len]

Empty == Block(NoHolder, "None", 0, 0)

\* The header page of Format and Flush (magic, Size and hash).
HeaderBlock == Block(NoHolder, "Header", 0, 0)

\* The TxData blocks Transaction::Write appends for a page at `position`.
DataBlocks(t, position) ==
    LET parts == SplitPage(PageSize, DataCap, position)
    IN [i \in DOMAIN parts |-> Block(t, "TxData", parts[i][1], parts[i][2])]

\* The k-th index handed out (k = 1, 2, ...) starting from `cur`.
IndexAt(cur, k) == AdvanceIndex(Start, Size, cur, k - 1)

-----------------------------------------------------------------------------
VARIABLES
    jstate,      \* Journal::State
    stopFlag,    \* Thread::Stopping of the writer thread
    threadDone,  \* the writer's CompEvent is set (Run has returned)
    jLockX,      \* exclusive holder of Journal::Lock, or NoHolder
    txLock,      \* holder of each Transaction::Lock
    table,       \* the keys of Journal::TxTable
    txState,     \* Transaction::State ("None" before BeginTx)
    txData,      \* Transaction::DataBlockList
    result,      \* Transaction::CommitResult
    commitEvent, \* Transaction::CommitEvent is set
    txList,      \* Journal::TxList, the queue of committing transactions
    batch,       \* the writer's local txList
    bidx,        \* the writer's position in batch
    werr,        \* the writer's err
    bios,        \* the writer's NoIOBioList: <<[slot, blk, flush]>>
    curr,        \* Journal::CurrBlockIndex
    ring,        \* what a device read of each journal block returns
    media,       \* for each journal block, what stable media may hold
    mpc,         \* the mount thread: "Format", "Load", "Mounted", "Failed"
    mret,        \* what the mount thread's last Format or Load returned
    ncrash,      \* crashes so far
    formatted,   \* history: a Format has returned Success
    cpc,         \* client program counters
    nwrites,     \* Write calls made by each client
    ret,         \* what Commit returned to each client ("None" if no Commit)
    wpc,         \* writer program counter
    spc,         \* stopper program counter
    nbatch,      \* history: number of batches taken by the writer
    batchOf      \* history: batch in which each transaction was written

txVars == <<txLock, table, txState, txData, result, commitEvent>>
threadVars == <<jstate, stopFlag, threadDone, jLockX>>
writerVars == <<txList, batch, bidx, werr, bios, curr, ring, media, wpc, nbatch, batchOf>>
mountVars == <<mpc, mret, ncrash, formatted>>
clientVars == <<cpc, nwrites, ret>>
vars == <<threadVars, txVars, writerVars, clientVars, spc, mountVars>>

Results == {"None", "Success", "InvalidState", "InvalidValue", "NotFound",
            "NoMemory", "IoError", "Cancelled"}

ClientPcs == {"Idle", "Open", "CommitStart", "CommitUnlink", "CommitWait",
              "CancelUnlink", "Done"}

WriterPcs == {"None", "Loop", "Wait", "WriteLock", "WriteTx", "Flush", "Complete",
              "CompleteUnlink", "Drain", "DrainCancel", "Exit", "Done",
              "UnlinkBlocked"}

TxBlocks(t) ==
    <<Block(t, "TxBegin", 0, 0)>> \o txData[t] \o <<Block(t, "TxCommit", 0, 0)>>

\* A shared acquisition of Journal::Lock succeeds at once.
CanShare == jLockX = NoHolder

-----------------------------------------------------------------------------
\* A Journal object just constructed (State New, no TxThread) on a device
\* whose journal blocks were never written, and the mount thread about to
\* format it or, for a mount without format, to load it.
Init ==
    /\ jstate = "New"
    /\ stopFlag = FALSE
    /\ threadDone = FALSE
    /\ jLockX = NoHolder
    /\ txLock = [t \in Clients |-> NoHolder]
    /\ table = {}
    /\ txState = [t \in Clients |-> "None"]
    /\ txData = [t \in Clients |-> <<>>]
    /\ result = [t \in Clients |-> "Success"]
    /\ commitEvent = [t \in Clients |-> FALSE]
    /\ txList = <<>>
    /\ batch = <<>>
    /\ bidx = 1
    /\ werr = "Success"
    /\ bios = <<>>
    /\ curr = Start + 1
    /\ ring = [s \in JournalSlots |-> Empty]
    /\ media = [s \in JournalSlots |-> {Empty}]
    /\ mpc \in {"Format", "Load"}
    /\ mret = "None"
    /\ formatted = FALSE
    /\ ncrash = 0
    /\ cpc = [c \in Clients |-> "Idle"]
    /\ nwrites = [c \in Clients |-> 0]
    /\ ret = [c \in Clients |-> "None"]
    /\ wpc = "None"
    /\ spc = [s \in Stoppers |-> "Idle"]
    /\ nbatch = 0
    /\ batchOf = [t \in Clients |-> 0]

-----------------------------------------------------------------------------
(* Client threads: the Transaction API.                                    *)

\* Journal::BeginTx under the shared lock; a failed allocation or TxId
\* generation returns a null transaction.
BeginTx(c) ==
    /\ cpc[c] = "Idle"
    /\ mpc = "Mounted"
    /\ CanShare
    /\ \/ /\ table' = table \cup {c}
          /\ txState' = [txState EXCEPT ![c] = "New"]
          /\ cpc' = [cpc EXCEPT ![c] = "Open"]
       \/ /\ "TxAlloc" \in Failures
          /\ cpc' = [cpc EXCEPT ![c] = "Done"]
          /\ UNCHANGED <<table, txState>>
    /\ UNCHANGED <<threadVars, txLock, txData, result, commitEvent, writerVars,
                   nwrites, ret, spc>>

\* Transaction::Write: a position that overlaps page 0 or the journal is
\* rejected with Overlap and changes nothing, as does a failed allocation.
Write(c, position) ==
    /\ cpc[c] = "Open"
    /\ nwrites[c] < MaxWrites
    /\ txLock[c] = NoHolder
    /\ txState[c] = "New"
    /\ ~WriteOverlaps(Start, Size, BlockSize, PageSize, position)
    /\ txData' = [txData EXCEPT ![c] = @ \o DataBlocks(c, position)]
    /\ nwrites' = [nwrites EXCEPT ![c] = @ + 1]
    /\ UNCHANGED <<threadVars, txLock, table, txState, result, commitEvent,
                   writerVars, cpc, ret, spc>>

\* Transaction::Commit, first block: take the tx lock, require New and
\* move to Committing (the InvalidState return needs a second caller).
CommitLock(c) ==
    /\ cpc[c] = "Open"
    /\ txLock[c] = NoHolder
    /\ txState[c] = "New"
    /\ txLock' = [txLock EXCEPT ![c] = c]
    /\ txState' = [txState EXCEPT ![c] = "Committing"]
    /\ cpc' = [cpc EXCEPT ![c] = "CommitStart"]
    /\ UNCHANGED <<threadVars, table, txData, result, commitEvent, writerVars,
                   nwrites, ret, spc>>

\* Journal::StartCommitTx under the shared lock, still holding the tx lock:
\* queue the transaction and signal the writer, then drop the tx lock.
\* A transaction missing from the table fails with NotFound, a failed
\* TxList.AddTail with NoMemory; both then cancel and unlink.
CommitStart(c) ==
    /\ cpc[c] = "CommitStart"
    /\ CanShare
    /\ \/ /\ c \in table
          /\ txList' = Append(txList, c)
          /\ txLock' = [txLock EXCEPT ![c] = NoHolder]
          /\ cpc' = [cpc EXCEPT ![c] = "CommitWait"]
          /\ UNCHANGED <<txState, ret>>
       \/ /\ c \notin table \/ "QueueAlloc" \in Failures
          /\ txState' = [txState EXCEPT ![c] = "Canceled"]
          /\ ret' = [ret EXCEPT ![c] = IF c \in table THEN "NoMemory"
                                                     ELSE "NotFound"]
          /\ cpc' = [cpc EXCEPT ![c] = "CommitUnlink"]
          /\ UNCHANGED <<txList, txLock>>
    /\ UNCHANGED <<threadVars, table, txData, result, commitEvent, batch, bidx,
                   werr, bios, curr, ring, media, wpc, nbatch, batchOf, nwrites, spc>>

\* Journal::UnlinkTx called from the failed Commit, then the tx lock is
\* released and the error returned.
CommitUnlink(c) ==
    /\ cpc[c] = "CommitUnlink"
    /\ CanShare
    /\ table' = table \ {c}
    /\ txLock' = [txLock EXCEPT ![c] = NoHolder]
    /\ cpc' = [cpc EXCEPT ![c] = "Done"]
    /\ UNCHANGED <<threadVars, txState, txData, result, commitEvent, writerVars,
                   nwrites, ret, spc>>

\* Mutant of CommitReturn: CommitResult is read without waiting.
CommitReturnNoWait(c) ==
    /\ cpc[c] = "CommitWait"
    /\ txLock[c] = NoHolder
    /\ ret' = [ret EXCEPT ![c] = result[c]]
    /\ cpc' = [cpc EXCEPT ![c] = "Done"]
    /\ UNCHANGED <<threadVars, txVars, writerVars, nwrites, spc>>

\* Transaction::Commit, second block: CommitEvent.Wait(), then read
\* CommitResult under the tx lock.
CommitReturn(c) ==
    /\ cpc[c] = "CommitWait"
    /\ commitEvent[c]
    /\ txLock[c] = NoHolder
    /\ ret' = [ret EXCEPT ![c] = result[c]]
    /\ cpc' = [cpc EXCEPT ![c] = "Done"]
    /\ UNCHANGED <<threadVars, txVars, writerVars, nwrites, spc>>

\* Transaction::Cancel by the owner of a New transaction: take the tx lock
\* and mark it Canceled ...
Cancel(c) ==
    /\ cpc[c] = "Open"
    /\ txLock[c] = NoHolder
    /\ txLock' = [txLock EXCEPT ![c] = c]
    /\ txState' = [txState EXCEPT ![c] = "Canceled"]
    /\ cpc' = [cpc EXCEPT ![c] = "CancelUnlink"]
    /\ UNCHANGED <<threadVars, table, txData, result, commitEvent, writerVars,
                   nwrites, ret, spc>>

\* ... then Journal::UnlinkTx, CommitResult = Cancelled, unlock.
CancelUnlink(c) ==
    /\ cpc[c] = "CancelUnlink"
    /\ CanShare
    /\ table' = table \ {c}
    /\ result' = [result EXCEPT ![c] = "Cancelled"]
    /\ txLock' = [txLock EXCEPT ![c] = NoHolder]
    /\ cpc' = [cpc EXCEPT ![c] = "Done"]
    /\ UNCHANGED <<threadVars, txState, txData, commitEvent, writerVars,
                   nwrites, ret, spc>>

\* The client drops its TransactionPtr.  TxTable still holds a reference,
\* so ~Transaction (and its UnlinkTx) does not run.
Abandon(c) ==
    /\ cpc[c] = "Open"
    /\ cpc' = [cpc EXCEPT ![c] = "Done"]
    /\ UNCHANGED <<threadVars, txVars, writerVars, nwrites, ret, spc>>


-----------------------------------------------------------------------------
(* The writer thread: Journal::Run.                                        *)

\* Top of the loop: while (!thread.IsStopping()).
WriterLoop ==
    /\ wpc = "Loop"
    /\ wpc' = IF stopFlag THEN "Drain" ELSE "Wait"
    /\ UNCHANGED <<threadVars, txVars, txList, batch, bidx, werr, bios, curr,
                   ring, media, nbatch, batchOf, clientVars, spc>>

\* TxListEvent.Wait(10) returns (signalled or timed out) and TxList.IsEmpty,
\* read without TxListLock, answers true: continue.  Only Run empties
\* TxList, so the unlocked read can be wrong only by missing an AddTail
\* that a committer made under the lock: it may answer true for a list
\* that is not empty.
WriterIdle ==
    /\ wpc = "Wait"
    /\ wpc' = "Loop"
    /\ UNCHANGED <<threadVars, txVars, txList, batch, bidx, werr, bios, curr,
                   ring, media, nbatch, batchOf, clientVars, spc>>

\* TxList is not empty: swap it with the local list under TxListLock and
\* start a fresh bio list.
WriterTakeBatch ==
    /\ wpc = "Wait"
    /\ txList # <<>>
    /\ batch' = txList
    /\ txList' = <<>>
    /\ bidx' = 1
    /\ bios' = <<>>
    /\ nbatch' = nbatch + 1
    /\ batchOf' = [t \in Clients |->
                     IF \E i \in DOMAIN txList : txList[i] = t
                     THEN nbatch + 1 ELSE batchOf[t]]
    /\ wpc' = "WriteLock"
    /\ UNCHANGED <<threadVars, txVars, werr, curr, ring, media, clientVars, spc>>

\* Journal::WriteTx takes Journal::Lock exclusively ...
WriterLock ==
    /\ wpc = "WriteLock"
    /\ jLockX = NoHolder
    /\ jLockX' = Writer
    /\ wpc' = "WriteTx"
    /\ UNCHANGED <<jstate, stopFlag, threadDone, txVars, txList, batch, bidx,
                   werr, bios, curr, ring, media, nbatch, batchOf, clientVars, spc>>

\* Journal::WriteTxBlock refuses, with InvalidValue, an index outside the
\* ring; the page or bio allocation after the check may fail.
InJournalRing(index) == index > Start /\ index < Start + Size

\* ... and calls Transaction::WriteTx, which takes the tx lock, takes a ring
\* index per block (GetNextBlockIndex) and stages begin, data and commit
\* blocks as write bios.  On an error (the transaction is not Committing,
\* or the k-th WriteTxBlock fails after its index was taken) the `fail:`
\* path runs OnCommitCompleteLocked: it marks the transaction Canceled and
\* calls UnlinkTx, whose shared acquisition of Journal::Lock waits for the
\* exclusive hold of this same thread.
WriterWriteTx ==
    LET t == batch[bidx]
        blks == TxBlocks(t)
        n == Len(blks)
        last == bidx = Len(batch)
        ok(k) == InJournalRing(IndexAt(curr, k))
        \* the k-th WriteTxBlock may fail if the ones before it succeeded
        failAt == IF txState[t] # "Committing" THEN {0}
                  ELSE {k \in 1..n : /\ \A j \in 1..(k - 1) : ok(j)
                                     /\ "BlockAlloc" \in Failures \/ ~ok(k)}
    IN
    /\ wpc = "WriteTx"
    /\ txLock[t] = NoHolder
    /\ \/ /\ txState[t] = "Committing"
          /\ \A k \in 1..n : ok(k)
          /\ bios' = bios \o [k \in 1..n |->
                                [slot |-> IndexAt(curr, k), blk |-> blks[k],
                                 flush |-> FALSE]]
          /\ curr' = AdvanceIndex(Start, Size, curr, n)
          /\ werr' = "Success"
          /\ jLockX' = NoHolder
          /\ bidx' = IF last THEN 1 ELSE bidx + 1
          /\ wpc' = IF last THEN "Flush" ELSE "WriteLock"
          /\ UNCHANGED <<txLock, txState>>
       \/ /\ \E k \in failAt :
                /\ curr' = AdvanceIndex(Start, Size, curr, k)
                /\ werr' = CASE k = 0   -> "InvalidState"
                              [] ~ok(k) -> "InvalidValue"
                              [] OTHER  -> "NoMemory"
          /\ txState' = [txState EXCEPT ![t] = "Canceled"]
          /\ txLock' = [txLock EXCEPT ![t] = Writer]
          /\ wpc' = "UnlinkBlocked"
          /\ UNCHANGED <<jLockX, bidx, bios>>
    /\ UNCHANGED <<jstate, stopFlag, threadDone, table, txData, result,
                   commitEvent, txList, batch, ring, media, nbatch, batchOf,
                   clientVars, spc>>

\* The device content after the bios with indices in `ok` were written.
\* Bios to the same block are applied in list order.
Stored(all, ok) ==
    [s \in JournalSlots |->
        LET w == {i \in ok : all[i].slot = s}
        IN IF w = {} THEN ring[s] ELSE all[Max(w)].blk]

\* What stable media may hold for each block once the bios with indices in
\* `ok` reached the device's write cache: any block written there since
\* the last FLUSH, or what it held then.  Only a crash reads it, so after
\* the last crash the model allows it is no longer tracked.
Cached(all, ok) ==
    IF ncrash < MaxCrashes
    THEN [s \in JournalSlots |->
            media[s] \cup {all[i].blk : i \in {j \in ok : all[j].slot = s}}]
    ELSE media

\* Journal::Flush stages the rewritten header as a plain write bio (AddIo
\* with write = true and no flush), then bioList.Exec(true) submits every
\* bio and waits; err is the first failing bio's error.
WriterFlush ==
    /\ wpc = "Flush"
    /\ \/ /\ "FlushAlloc" \in Failures
          /\ werr' = "NoMemory"
          /\ UNCHANGED <<bios, ring, media>>
       \/ LET all == Append(bios, [slot |-> Start, blk |-> HeaderBlock,
                                   flush |-> FALSE])
          IN /\ bios' = all
             /\ \E failed \in SUBSET DOMAIN all :
                   /\ failed = {} \/ "Io" \in Failures
                   /\ ring' = Stored(all, DOMAIN all \ failed)
                   /\ media' = Cached(all, DOMAIN all \ failed)
                   /\ werr' = IF failed = {} THEN "Success" ELSE "IoError"
    /\ wpc' = "Complete"
    /\ UNCHANGED <<threadVars, txVars, txList, batch, bidx, curr, nbatch,
                   batchOf, clientVars, spc>>

\* After the last transaction the writer returns to the top of the loop.
CompleteNext ==
    IF bidx = Len(batch)
    THEN bidx' = 1 /\ batch' = <<>> /\ wpc' = "Loop"
    ELSE bidx' = bidx + 1 /\ wpc' = "Complete" /\ UNCHANGED batch

\* Mutant of WriterComplete: CommitEvent is not set on success.
WriterCompleteNoSignal ==
    LET t == batch[bidx] IN
    /\ wpc = "Complete"
    /\ txLock[t] = NoHolder
    /\ \/ /\ werr = "Success"
          /\ txState' = [txState EXCEPT ![t] = "Committed"]
          /\ result' = [result EXCEPT ![t] = "Success"]
          /\ CompleteNext
          /\ UNCHANGED <<txLock, commitEvent>>
       \/ /\ werr # "Success"
          /\ txState' = [txState EXCEPT ![t] = "Canceled"]
          /\ txLock' = [txLock EXCEPT ![t] = Writer]
          /\ wpc' = "CompleteUnlink"
          /\ UNCHANGED <<result, commitEvent, bidx, batch>>
    /\ UNCHANGED <<threadVars, table, txData, txList, werr, bios, curr, ring, media,
                   nbatch, batchOf, clientVars, spc>>

\* tx->OnCommitComplete(err) for the next transaction of the batch, under
\* its tx lock: on success it becomes Committed and CommitEvent is set ...
WriterComplete ==
    LET t == batch[bidx] IN
    /\ wpc = "Complete"
    /\ txLock[t] = NoHolder
    /\ \/ /\ werr = "Success"
          /\ txState' = [txState EXCEPT ![t] = "Committed"]
          /\ result' = [result EXCEPT ![t] = "Success"]
          /\ commitEvent' = [commitEvent EXCEPT ![t] = TRUE]
          /\ CompleteNext
          /\ UNCHANGED txLock
       \/ /\ werr # "Success"
          /\ txState' = [txState EXCEPT ![t] = "Canceled"]
          /\ txLock' = [txLock EXCEPT ![t] = Writer]
          /\ wpc' = "CompleteUnlink"
          /\ UNCHANGED <<result, commitEvent, bidx, batch>>
    /\ UNCHANGED <<threadVars, table, txData, txList, werr, bios, curr, ring, media,
                   nbatch, batchOf, clientVars, spc>>

\* Mutant of WriterCompleteUnlink: err is reset once it has been reported.
WriterCompleteUnlinkResetErr ==
    LET t == batch[bidx] IN
    /\ wpc = "CompleteUnlink"
    /\ CanShare
    /\ table' = table \ {t}
    /\ result' = [result EXCEPT ![t] = werr]
    /\ commitEvent' = [commitEvent EXCEPT ![t] = TRUE]
    /\ txLock' = [txLock EXCEPT ![t] = NoHolder]
    /\ werr' = "Success"
    /\ CompleteNext
    /\ UNCHANGED <<threadVars, txState, txData, txList, bios, curr, ring, media,
                   nbatch, batchOf, clientVars, spc>>

\* ... on error it is Canceled, unlinked from TxTable, given the error and
\* CommitEvent is set.
WriterCompleteUnlink ==
    LET t == batch[bidx] IN
    /\ wpc = "CompleteUnlink"
    /\ CanShare
    /\ table' = table \ {t}
    /\ result' = [result EXCEPT ![t] = werr]
    /\ commitEvent' = [commitEvent EXCEPT ![t] = TRUE]
    /\ txLock' = [txLock EXCEPT ![t] = NoHolder]
    /\ CompleteNext
    /\ UNCHANGED <<threadVars, txState, txData, txList, werr, bios, curr, ring, media,
                   nbatch, batchOf, clientVars, spc>>

\* After the loop: swap TxList out under TxListLock.
WriterDrain ==
    /\ wpc = "Drain"
    /\ batch' = txList
    /\ txList' = <<>>
    /\ bidx' = 1
    /\ wpc' = IF txList = <<>> THEN "Exit" ELSE "DrainCancel"
    /\ UNCHANGED <<threadVars, txVars, werr, bios, curr, ring, media, nbatch, batchOf,
                   clientVars, spc>>

\* tx->Cancel() on the first queued transaction: it is marked Canceled
\* under its tx lock, then UnlinkTx asks for Journal::Lock shared.  The
\* thread is draining only because Journal::Stop set its stop flag, and
\* Stop holds Journal::Lock exclusively until this thread has returned, so
\* UnlinkTx waits for ever (CommitEvent would not be set by Cancel anyway).
WriterDrainCancel ==
    LET t == batch[bidx] IN
    /\ wpc = "DrainCancel"
    /\ txLock[t] = NoHolder
    /\ txState' = [txState EXCEPT ![t] = "Canceled"]
    /\ txLock' = [txLock EXCEPT ![t] = Writer]
    /\ wpc' = "UnlinkBlocked"
    /\ UNCHANGED <<threadVars, table, txData, result, commitEvent, txList,
                   batch, bidx, werr, bios, curr, ring, media, nbatch, batchOf,
                   clientVars, spc>>

\* Run stages the header into a bio list it never executes and returns;
\* Thread::ExecuteRoutine sets CompEvent.
WriterExit ==
    /\ wpc = "Exit"
    /\ threadDone' = TRUE
    /\ wpc' = "Done"
    /\ UNCHANGED <<jstate, stopFlag, jLockX, txVars, txList, batch, bidx, werr,
                   bios, curr, ring, media, nbatch, batchOf, clientVars, spc>>

-----------------------------------------------------------------------------
(* Journal::Stop: take Journal::Lock exclusively, enter Stopping, stop the *)
(* writer thread and wait for it (Thread::StopAndWait), enter Stopped and  *)
(* release the lock.  TxThread was created by Load and only Stop resets    *)
(* it, so the first Stop always finds it.                                  *)

StopLock(s) ==
    /\ spc[s] = "Idle"
    /\ mpc = "Mounted"
    /\ jLockX = NoHolder
    /\ jLockX' = s
    /\ jstate' = "Stopping"
    /\ stopFlag' = TRUE
    /\ spc' = [spc EXCEPT ![s] = "Wait"]
    /\ UNCHANGED <<threadDone, txVars, writerVars, clientVars>>

StopJoin(s) ==
    /\ spc[s] = "Wait"
    /\ threadDone
    /\ jstate' = "Stopped"
    /\ jLockX' = NoHolder
    /\ spc' = [spc EXCEPT ![s] = "Done"]
    /\ UNCHANGED <<stopFlag, threadDone, txVars, writerVars, clientVars>>

-----------------------------------------------------------------------------
(* The mount thread, the device's write cache and crashes.  Format and     *)
(* Load hold Journal::Lock exclusively for their whole body while no other *)
(* thread of this journal runs, so each is one step.  A Volume mount first *)
(* formats the device and then loads it; after a crash it only loads.      *)

\* Mutant of Format: the header is written without the flush flag.
FormatNoFlush ==
    /\ mpc = "Format"
    /\ \/ /\ "Mount" \in Failures
          /\ \E e \in {"NoMemory", "IoError"} : mret' = e
          /\ mpc' = "Failed"
          /\ UNCHANGED <<ring, media, formatted>>
       \/ /\ ring' = [ring EXCEPT ![Start] = HeaderBlock]
          /\ media' = [media EXCEPT ![Start] = @ \cup {HeaderBlock}]
          /\ mret' = "Success"
          /\ mpc' = "Load"
          /\ formatted' = TRUE
    /\ UNCHANGED <<ncrash, jstate, curr, wpc>>

\* Journal::Format: a page allocation or the header write may fail;
\* otherwise the header is written with AddExec(write, flush), whose
\* FLUSH+FUA puts it, and every write cached before it, on stable media.
Format ==
    /\ mpc = "Format"
    /\ \/ /\ "Mount" \in Failures
          /\ \E e \in {"NoMemory", "IoError"} : mret' = e
          /\ mpc' = "Failed"
          /\ UNCHANGED <<ring, media, formatted>>
       \/ /\ ring' = [ring EXCEPT ![Start] = HeaderBlock]
          /\ media' = [s \in JournalSlots |-> {ring'[s]}]
          /\ mret' = "Success"
          /\ mpc' = "Load"
          /\ formatted' = TRUE
    /\ UNCHANGED <<ncrash, jstate, curr, wpc>>

\* Journal::Replay is a stub: it sets State to Replaying and returns
\* Success.
ReplayState == "Replaying"

\* Journal::Load: read block Start and check its magic; Replay (a stub that
\* only sets State Replaying); CurrBlockIndex = Start + 1; create TxThread
\* and enter Running.  The page allocation, the read and the allocation of
\* TxThread may fail; a null TxThread leaves State Replaying.  Load tests
\* only TxThread for null, not the err its constructor set: when
\* task_create fails (Thread::Start, src/cpp/thread.cpp:42-46) the Thread
\* exists with no task, Load returns Success in State Running, and no
\* writer runs and CompEvent is never set.
Load ==
    /\ mpc = "Load"
    /\ \/ /\ "Mount" \in Failures
          /\ \E e \in {"NoMemory", "IoError"} : mret' = e
          /\ mpc' = "Failed"
          /\ UNCHANGED <<jstate, curr, wpc>>
       \/ /\ ring[Start] # HeaderBlock
          /\ mret' = "BadMagic"
          /\ mpc' = "Failed"
          /\ UNCHANGED <<jstate, curr, wpc>>
       \/ /\ ring[Start] = HeaderBlock
          /\ "Mount" \in Failures
          /\ jstate' = ReplayState
          /\ curr' = Start + 1
          /\ mret' = "NoMemory"
          /\ mpc' = "Failed"
          /\ UNCHANGED wpc
       \/ /\ ring[Start] = HeaderBlock
          /\ jstate' = "Running"
          /\ curr' = Start + 1
          /\ \/ wpc' = "Loop"
             \/ "TaskCreate" \in Failures /\ UNCHANGED wpc
          /\ mret' = "Success"
          /\ mpc' = "Mounted"
    /\ UNCHANGED <<ring, media, ncrash, formatted>>

\* The functions on D that pick for each block d one of m[d].
RECURSIVE Picks(_, _)
Picks(m, D) ==
    IF D = {} THEN {<<>>}
    ELSE LET d == CHOOSE x \in D : TRUE
         IN {f @@ (d :> b) : f \in Picks(m, D \ {d}), b \in m[d]}

\* The machine crashes once the journal was formatted: the write cache and
\* every thread's memory are lost, each block reads as whatever stable
\* media held, and the volume is mounted again.  A client or stopper that
\* was inside the API never returns; one that had not started yet may
\* start after the new mount.  (A crash inside bioList.Exec leaves media
\* as a crash after it does: any subset of the batch reached the media.)
Crash ==
    /\ mpc \in {"Load", "Mounted"}
    /\ ncrash < MaxCrashes
    /\ ncrash' = ncrash + 1
    /\ ring' \in Picks(media, JournalSlots)
    /\ media' = [s \in JournalSlots |-> {ring'[s]}]
    /\ mpc' = "Load"
    /\ jstate' = "New"
    /\ stopFlag' = FALSE
    /\ threadDone' = FALSE
    /\ jLockX' = NoHolder
    /\ txLock' = [t \in Clients |-> NoHolder]
    /\ table' = {}
    /\ txState' = [t \in Clients |-> "None"]
    /\ txData' = [t \in Clients |-> <<>>]
    /\ result' = [t \in Clients |-> "Success"]
    /\ commitEvent' = [t \in Clients |-> FALSE]
    /\ txList' = <<>>
    /\ batch' = <<>>
    /\ bidx' = 1
    /\ werr' = "Success"
    /\ bios' = <<>>
    /\ wpc' = "None"
    /\ cpc' = [c \in Clients |-> IF cpc[c] = "Idle" THEN "Idle" ELSE "Done"]
    /\ spc' = [s \in Stoppers |-> IF spc[s] = "Idle" THEN "Idle" ELSE "Done"]
    /\ UNCHANGED <<mret, curr, nwrites, ret, nbatch, batchOf, formatted>>

MountNext == Format \/ Load

\* What Format and Load leave alone.
notMountVars == <<stopFlag, threadDone, jLockX, txVars, txList, batch, bidx,
                  werr, bios, nbatch, batchOf, clientVars, spc>>

-----------------------------------------------------------------------------
ClientNext(c) ==
    \/ BeginTx(c)
    \/ \E p \in Positions : Write(c, p)
    \/ CommitLock(c)
    \/ CommitStart(c)
    \/ CommitUnlink(c)
    \/ CommitReturn(c)
    \/ Cancel(c)
    \/ CancelUnlink(c)
    \/ Abandon(c)

WriterNext ==
    \/ WriterLoop
    \/ WriterIdle
    \/ WriterTakeBatch
    \/ WriterLock
    \/ WriterWriteTx
    \/ WriterFlush
    \/ WriterComplete
    \/ WriterCompleteUnlink
    \/ WriterDrain
    \/ WriterDrainCancel
    \/ WriterExit

\* The threads' steps leave stable media and the mount state alone.  A
\* failed mount ends the run: no thread of the journal is left.
Next ==
    \/ /\ \/ \E c \in Clients : ClientNext(c)
          \/ WriterNext
          \/ \E s \in Stoppers : StopLock(s) \/ StopJoin(s)
       /\ UNCHANGED mountVars
    \/ /\ MountNext
       /\ UNCHANGED notMountVars
    \/ Crash
    \/ mpc = "Failed" /\ UNCHANGED vars

\* The writer is a kernel thread that keeps running, and its unlocked read
\* of TxList cannot miss the committers' AddTail for ever (the lock's
\* release makes the store visible, and the read is a fresh load on each
\* iteration, after the call of TxListEvent.Wait), so a batch that is
\* queued is taken; a client that has entered Commit or Cancel keeps
\* running; a thread inside Stop keeps
\* running, and so does the mount thread.  Starting an operation is the
\* caller's choice and is not fair; the device's write-back is not assumed
\* to happen.
Fairness ==
    /\ WF_vars(WriterNext /\ UNCHANGED mountVars)
    /\ SF_vars(WriterTakeBatch /\ UNCHANGED mountVars)
    /\ \A c \in Clients : WF_vars(/\ \/ CommitStart(c) \/ CommitUnlink(c)
                                     \/ CommitReturn(c) \/ CancelUnlink(c)
                                  /\ UNCHANGED mountVars)
    /\ \A s \in Stoppers : WF_vars(StopJoin(s) /\ UNCHANGED mountVars)
    /\ WF_vars(/\ Format \/ Load
               /\ UNCHANGED notMountVars)

Spec == Init /\ [][Next]_vars /\ Fairness

-----------------------------------------------------------------------------
(* Properties.                                                             *)

BlockSet ==
    [tx: Clients \cup {NoHolder},
     type: BlockTypes \cup {"None", "Header"}, pos: Nat, len: Nat]

TypeOK ==
    /\ jstate \in {"New", "Replaying", "Running", "Stopping", "Stopped"}
    /\ stopFlag \in BOOLEAN /\ threadDone \in BOOLEAN
    /\ jLockX \in Actors \cup {NoHolder}
    /\ txLock \in [Clients -> Actors \cup {NoHolder}]
    /\ table \subseteq Clients
    /\ txState \in [Clients -> {"None", "New", "Committing", "Committed",
                                "Canceled"}]
    /\ txData \in [Clients -> Seq(BlockSet)]
    /\ result \in [Clients -> Results] /\ ret \in [Clients -> Results]
    /\ commitEvent \in [Clients -> BOOLEAN]
    /\ txList \in Seq(Clients) /\ batch \in Seq(Clients)
    /\ bidx \in Nat \ {0}
    /\ werr \in Results
    /\ bios \in Seq([slot: JournalSlots, blk: BlockSet, flush: BOOLEAN])
    /\ curr \in RingSlots
    /\ ring \in [JournalSlots -> BlockSet]
    /\ media \in [JournalSlots -> SUBSET BlockSet]
    /\ mpc \in {"Format", "Load", "Mounted", "Failed"}
    /\ mret \in Results \cup {"BadMagic"} /\ ncrash \in 0..MaxCrashes
    /\ formatted \in BOOLEAN
    /\ cpc \in [Clients -> ClientPcs] /\ nwrites \in [Clients -> 0..MaxWrites]
    /\ wpc \in WriterPcs
    /\ spc \in [Stoppers -> {"Idle", "Wait", "Done"}]
    /\ nbatch \in Nat /\ batchOf \in [Clients -> 0..nbatch]

\* The k-th ring block after block i, going round the ring and skipping the
\* header block (the layout of spec section 4.3.1).
SlotAfter(i, k) == Start + 1 + ((i - (Start + 1) + k) % (Size - 1))

\* The ring holds t's begin, data and commit blocks at consecutive indices.
Holds(r, blks) ==
    \E i \in RingSlots :
        \A k \in 1..Len(blks) : r[SlotAfter(i, k - 1)] = blks[k]

OnRing(t) == Holds(ring, TxBlocks(t))

\* Every transaction the writer reported Committed (CommitResult Success)
\* still has its complete TxBegin, TxData..., TxCommit sequence in the ring,
\* so a replay could re-apply it: the index allocation of GetNextBlockIndex,
\* the staging in Transaction::WriteTx and the batch execution in
\* Journal::Run never lose or overwrite a committed transaction's blocks.
CommittedTxOnRing ==
    \A t \in Clients : txState[t] = "Committed" => OnRing(t)

\* A transaction whose commit was reported as failed (Canceled by the
\* writer) does not have a complete sequence in the ring, so a replay
\* would not resurrect it (spec sections 1 and 7: all-or-nothing).
CanceledTxNotOnRing ==
    \A t \in Clients : txState[t] = "Canceled" => ~OnRing(t)

Returned(c) == cpc[c] = "Done" /\ ret[c] # "None"

\* Two clients whose transactions were written in the same batch of
\* Journal::Run get the same answer from Commit: the writer's single err
\* decides the whole batch (spec section 7).
BatchAllOrNothing ==
    \A c1, c2 \in Clients :
        /\ Returned(c1) /\ Returned(c2)
        /\ batchOf[c1] # 0 /\ batchOf[c1] = batchOf[c2]
        => ret[c1] = ret[c2]

\* Every client that has entered Transaction::Commit returns from it.
CommitTerminates ==
    \A c \in Clients : cpc[c] = "CommitStart" ~> cpc[c] = "Done"

\* Every client that has entered Transaction::Commit returns from it unless
\* Journal::Stop has begun: the writer answers every batch it takes, and only
\* a Stop (which hangs, StopTerminates) may leave a Commit waiting.
CommitTerminatesUnlessStopped ==
    \A c \in Clients :
        cpc[c] = "CommitStart" ~> \/ cpc[c] = "Done"
                                  \/ \E s \in Stoppers : spc[s] # "Idle"

\* Journal::Stop, once it holds the lock and has stopped the writer thread,
\* returns (spec section 8, scenario 6: Unmount returns Success).
StopTerminates ==
    \A s \in Stoppers : spc[s] = "Wait" ~> spc[s] = "Done"

\* Once Journal::Stop has returned, no transaction is left Committing: any
\* transaction queued after Stopping is Cancel-ed (spec section 5).
NoPendingTxAfterStop ==
    \A s \in Stoppers :
        spc[s] = "Done" => \A t \in Clients : txState[t] # "Committing"

\* Every entry of TxTable is New or Committing (spec section 3, Journal
\* invariants).
TxTableLive ==
    \A t \in table : txState[t] \in {"New", "Committing"}

\* Once Format has returned Success, Load always finds the journal header,
\* whatever the crashes and write-backs in between: Format writes it with
\* FLUSH+FUA, the ring allocator (GetNextBlockIndex) never hands out block
\* Start, and the header Journal::Flush rewrites in every batch is the same
\* page.  (Loading a device never formatted fails with BadMagic.)
LoadFindsHeader == formatted => mret # "BadMagic"

\* A crash never takes away a transaction whose Commit returned Success:
\* right after it, what the device returns holds the transaction's
\* complete block sequence (spec section 7: after Commit returns Success
\* the data is there on the next Load even if the machine crashes at once).
CrashKeepsCommitted ==
    [][Crash => \A c \in Clients :
                   txState[c] = "Committed" /\ ret[c] = "Success"
                   => Holds(ring', TxBlocks(c))]_vars

\* The transaction state the owner of a transaction sees: a handle that was
\* dropped while New, whose BeginTx failed, or that a crash took away, is
\* gone.
AbsStatus ==
    [t \in Clients |->
        IF \/ txState[t] = "None" /\ cpc[t] # "Idle"
           \/ txState[t] = "New" /\ cpc[t] = "Done"
        THEN "Gone" ELSE txState[t]]

Abs == INSTANCE JournalTx WITH Txs <- Clients,
                               Errors <- Results \ {"None", "Success"},
                               status <- AbsStatus, answer <- ret

\* The journal implements JournalTx: a commit is decided once and never
\* changes its mind, Commit answers once, and it answers Success only for a
\* transaction the writer marked Committed (Transaction::Commit,
\* StartCommitTx, Journal::Run and OnCommitComplete together, under every
\* interleaving, failure and crash).
ImplementsJournalTx == Abs!Spec

=============================================================================
