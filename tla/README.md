# TLA+ models of kstor (cpp_lkm)

This directory holds TLA+ specifications of the kstor kernel module in `src/`.
It also holds the TLC configurations that check them and `PROJECT.json`. That file
lists the components, the runs, the mutants, the source lines each definition
models, the findings and the hazards.

## The system and its parts

| Part | Source | What it does |
|---|---|---|
| Control device | `src/kstor/control_device.cpp` | The ioctl dispatcher. It holds at most one `Volume` in `VolumeRef`, behind `VolumeLock`, a read/write semaphore. Mount and Unmount (by id or by name) take the lock exclusively. ChunkCreate, ChunkWrite, ChunkRead and ChunkDelete take it shared and call into the Volume. |
| Volume, ChunkTable | not in `src/` | Owns the device and the journal. Its chunk mutations commit journal transactions (spec section 4.4). |
| Journal | `src/kstor/journal.cpp` | A ring of `Size` blocks at block `Start`; block `Start` holds the header. `Journal::Lock` is a non-recursive read/write semaphore. `TxTable` maps live transactions and `TxList` queues committing ones. A writer thread (`Journal::Run`) takes the queue in batches. For each transaction, under the journal lock held exclusively, it stages begin, data and commit blocks as write bios at ring indices from `GetNextBlockIndex`. It then adds the header bio (`Flush`), executes the batch and answers every transaction with the batch's single error. `WriteTxBlockPrepare` converts a block's fields to little-endian and appends an xxHash of its bytes; `ReadTxBlockComplete` checks the hash and converts back. `Journal::Stop` holds the lock exclusively while it stops and joins the writer. |
| Transaction | `src/kstor/journal.cpp` | A transaction is New, then Committing, then Committed or Canceled. `Write` splits a page into TxData blocks and rejects positions that overlap page 0 or the journal. `Commit` queues the transaction and waits on `CommitEvent`. `Cancel` unlinks it. |
| Memory helpers | `src/core/memory.h` | `CheckRange` and `CheckIntersection`, used by `Write`'s Overlap test. |
| Thread | `src/cpp/thread.cpp` | A stop flag polled by the routine and a completion event joined by `StopAndWait`. |
| Bio | `src/core/bio.cpp` | One kernel bio: submit, then end-io with an error code. |
| Worker | `src/core/worker.cpp` | A task queue served by one thread. Nothing in `src/` uses `Core::Worker`: `test_worker` in `src/cpp/main.cpp` builds the cpp library's own `Worker(int&)`, which is not in the tree. `Execute` tests `Stopping` without the lock, then again under it. `Run` waits on `TaskEvent` and pops one task per wake-up. `~Worker` stops and joins the thread, then cancels what is left. |
| HashTable | `src/cpp/hash_table.h` | A chained hash table of the cpp library: a vector of bucket lists, a key in bucket `KeyHash(key) % Buckets.GetSize()`. It has no lock. Nothing in `src/` uses it; kstor's `Core::HashTable` is not in the tree. |
| ctl | `src/ctl/main.cpp`, `src/ctl/ctl.cpp` | The command-line tool. `main` checks a subcommand's arguments and calls the `Ctl` method that fills a `Control::Cmd` and issues one ioctl on the control device. The process exits 0 only when the ioctl returned Success. |
| BlockDevice, MiscDevice, Random, Page, main | `src/core/*`, `src/cpp/main.cpp` | Kernel-call wrappers, the misc device that forwards ioctls to `ControlDevice::Ioctl`, and module entry points. |

How the parts interact:

1. `ctl` issues an ioctl, which the misc device hands to `ControlDevice::Ioctl`. A server thread calls the chunk operations directly. Either way `ControlDevice` which calls the Volume under `VolumeLock`.
2. A Volume mutation calls `Journal::BeginTx`, then `Transaction::Write`, then `Transaction::Commit`.
3. `Commit` hands the transaction to the writer thread and blocks.
4. The writer writes the batch to the ring and sets each transaction's `CommitEvent`.
5. Unmount destroys the Volume, whose journal destructor calls `Journal::Stop`.

## Modules

| Module | Models | State and actions |
|---|---|---|
| `JournalRing` | The pure helpers. | `GetNextBlockIndex` (and `AdvanceIndex`, its k-fold application), `SplitFrom`/`SplitPage` (the loop of `Transaction::Write`), `CheckRange`, `CheckIntersection`, and `WriteOverlaps` (the two Overlap tests of `Write`). |
| `JournalBlock` | The tx block codec. | `WriteTxBlockPrepare` and `ReadTxBlockComplete` are operators of a host byte order (`"LE"` or `"BE"`) and a block, a record of the fields its type has. A value is stored as digits of base `Radix` (`Store`, `Fetch`), `CpuToLe`/`LeToCpu` are the byte swap they are on a big-endian host, and `XXHashSum` is a deterministic stand-in digest of the bytes before `Hash`. Core::BitOps, Core::XXHash and the Api structures are not in `src/`; the layout is Type followed by the fields of the block's type. |
| `MCJournalRing` | Checks `JournalRing` and `JournalBlock`. | State is a start block, a ring size, a page size, a data capacity and a write position, then repeated index allocation (`TakeIndex`). `Reload` is `Journal::Load` setting `CurrBlockIndex = Start + 1` again. `Init` also picks a host byte order and a tx block (`TxBlocks`, the blocks `CreateTxBlock` can build). |
| `Journal` | The journal from `Format`/`Load` on: the mount thread, client threads, the writer thread, a stopper thread, the device's write cache and a crash. | See the list after this table. |
| `JournalTx` | What the journal promises a transaction's owner (spec sections 3 and 4.3). | `status` of each transaction (None, New, Committing, Committed, Canceled, Gone) and `answer`, what Commit returned. Actions `Begin`, `StartCommit`, `Cancel`, `Decide` (once, Committed or Canceled), `Refuse` (Commit's immediate error), `Answer` (Success only for Committed), `Drop` and `Crash`. Safety only. |
| `MCJournal` | Definitions for `Journal`. | 2 clients and 1 stopper (or none), the journal at block 1, 4-byte pages in 3-byte data areas (each page becomes 2 TxData blocks, so a transaction is 4 blocks), a ring of 9 blocks (8 usable, so a batch of both clients fits) or of 5 blocks (it does not), positions 0, 4 and 40, and failure sets. |
| `ControlDevice` | `ControlDevice` with `VolumeLock`, and ctl. | `vref` is `VolumeRef`. `vstate` is each Volume object's life. `lockX` and `lockS` are the exclusive and shared holders of `VolumeLock`. `cmd` is the ctl subcommand a caller runs, `ret` what it is told, and `changed` a history variable: did its request change `VolumeRef`. Actions: `CtlMain` (ctl's argument checks, then the ioctl), `Ioctl` (the Cmd allocation, `CopyFromUser`, the dispatch by code, the name string for Mount and UnmountByName, the server handlers), `Mount` and `Unmount` (each atomic, because their whole body runs under the exclusive lock), `CopyOut` (`CopyToUser` and the return), `ChunkRequest` (a server thread calls a chunk operation), `ChunkBegin` (take the lock shared, or return NotFound) and `ChunkEnd` (the Volume operation returns and the lock is released). |
| `Worker` | `Worker` with its thread and destructor. | Each section under `Worker::Lock` is one atomic step, because none of them blocks. Producers: `Call`, `ExecCheck` (the unlocked test), `ExecLocked` (test again, append, set the event) and `WaitTask`. Worker thread: `RunLoop`, `RunWait`, `RunTake` and `RunExec`. Destructor: `DStop`, `DThreadStop`, `DSet`, `DJoin`, `DDrain` and `DCancel`. `Init` picks whether `Thread::Start`'s `task_create` succeeded (`StartOutcomes`); if not, `Running` stays false and there is no thread. `ThreadExit` is `ExecuteRoutine` setting `CompEvent` after the routine returns. `TaskEvent` is an auto-reset flag. |
| `MCWorker` | Definitions for `Worker`. | 2 producers, so two tasks can queue behind one signal; `AddTail` and `task_create` may fail. |
| `HashTable` | `HashTable<K, V>`. | `buckets` is `Buckets`, a sequence of entry sequences. `err` is what the owner's err holds after the constructor (`CtorErr`: always E_OK, since the constructor takes err by value). `Init` picks the bucket count the constructor leaves (`CtorSizes`). Each call is one action: `Insert`, `Remove`, `Exists` and `Get`; each scans the key's bucket (`BucketOf`, `Find`) and divides by zero on a table without buckets (`DivideByZero`). `call` and `ret` are the owner's last call and its result. `bug` records an oops (KBUG_ON or division by zero), which ends the owner's thread. `held` is the owner's view of the keys present, from its own results; it calls `Get` only for those. |
| `KeyMap` | What `HashTable` promises. | A function `map` from keys to values or `Absent`, with `Insert` (refused for a present key), `Remove`, `Exists` and `Get` (only of a present key), each recording its `call` and `ret`. |
| `MCHashTable` | Definitions for `HashTable`. | Three keys in two buckets with hashes 0, 2 and 1, so `k1` and `k2` collide and `Remove` erases from the head or the tail of a two-entry list; two values; failure sets. |
| `MCControlDevice` | Definitions for `ControlDevice`. | 2 callers with 2 requests each, 2 Volume objects, and failure sets: the failures the code handles, or every step of Mount and Ioctl. |

The `Journal` module in detail:

- **Variables:**
  - The Journal fields `jstate`, `table` (TxTable), `txList` (TxList) and `curr` (CurrBlockIndex).
  - The exclusive holder of `Journal::Lock`, `jLockX`.
  - Per transaction: `txState`, `txData`, `result`, `commitEvent` and `txLock`.
  - The writer's locals: `batch`, `bidx`, `werr` and `bios`.
  - `ring`: what a read of each ring block returns (the device's write cache).
  - `media`: for each ring block, the set of contents its stable media may hold: the content at the last FLUSH plus every content written since.
  - The mount thread's `mpc` and `mret`, the crash count `ncrash`, and the history variable `formatted` (a `Format` has succeeded on this device).
  - The thread's `stopFlag` and `threadDone`.
  - Program counters for every thread.
- **Client actions:**
  - `BeginTx`.
  - `Write`.
  - `Commit`, split at every lock: `CommitLock`, `CommitStart` (`StartCommitTx`), `CommitUnlink` (the failure path) and `CommitReturn` (after `CommitEvent.Wait`).
  - `Cancel` and `CancelUnlink`.
  - `Abandon`: the client drops its pointer.
- **Writer actions:**
  - The loop steps `WriterLoop`, `WriterIdle` and `WriterTakeBatch`. `TxList.IsEmpty` is read without `TxListLock`; only the writer empties `TxList`, so the read can only be stale by missing a committer's `AddTail`, and `WriterIdle` may continue while `TxList` is not empty.
  - `WriterLock` then `WriterWriteTx`: `Journal::WriteTx` plus `Transaction::WriteTx`, including the `fail:` path.
  - `WriterFlush`: `Flush` and `Exec`.
  - `WriterComplete` and `WriterCompleteUnlink`: `OnCommitComplete` on success and on error.
  - `WriterDrain`, `WriterDrainCancel` and `WriterExit`: the shutdown after the loop.
- **Stopper actions:** `StopLock` and `StopJoin`, for `Journal::Stop`.
- **Mount actions:** `Format` (`Journal::Format`: the header written with FLUSH+FUA, so `media` collapses to the cache content) and `Load` (`Journal::Load`: header read and magic check, `Replay`, which is a stub, `CurrBlockIndex = Start + 1`, the writer thread started). Under the `TaskCreate` failure `Load` returns Success with no writer: it tests `TxThread` only for null and ignores the `err` of a Thread whose kernel task was not created. A run starts at `Format` or at a plain `Load` of an unformatted device, because `Volume`, which sequences them, is not in `src/`. Client and stopper threads start only once the journal is mounted.
- **`Crash`.** After a mount has begun, at most `MaxCrashes` times: every ring block takes one of the contents its media may hold (`Picks`, a recursive operator enumerating the choices), all in-memory state is lost (transactions of the crashed run are Done), and the journal is loaded again.
- **Refinement.** `Abs == INSTANCE JournalTx WITH status <- AbsStatus, answer <- ret`. `AbsStatus` maps a transaction whose client dropped it, or lost it in a crash, to `Gone`. `ImplementsJournalTx == Abs!Spec`.

Abstractions in `Journal`:

- **Block contents.** A block's content is a record holding its transaction, type, position and length. The byte encoding is checked on its own in `JournalBlock`, which shows it is a bijection on the blocks `CreateTxBlock` builds, so the record stands for the bytes.
- **Shared holds of `Journal::Lock`.** These are single steps (BeginTx, StartCommitTx, UnlinkTx), so they appear only as the guard `CanShare`, which says no thread holds the lock exclusively. The semaphore is not recursive, so the writer's own exclusive hold blocks it too.
- **Bio execution.** Bios are applied in list order, the last write to a block winning. An I/O error makes any subset of the batch's bios fail.
- **Injected failures.** `Failures` picks which allocation or I/O failures the environment may inject. `BlockAlloc` is the page or bio allocation inside `WriteTxBlock`. `TaskCreate` is the kernel task of `TxThread`; `Core::Thread` is not in `src/`, and the cpp `Thread` of `src/cpp/thread.cpp` is taken as its semantics.
- **`CommitEvent`.** It is taken to stay set once set; `Event` is not in `src/`.
- **Device write cache.** A block write is atomic (a block is all old or all new). `media` is tracked only while a crash may still happen, which keeps runs with `MaxCrashes = 0` as small as before.
- **`WriteTxBlock`'s range check** is `InJournalRing`; with a correct allocator it never refuses, and the model keeps the refusal path.

## Runs

| Run | Module, cfg | Expect | What it shows |
|---|---|---|---|
| `journal_commit` | MCJournal, `MCJournal_commit.cfg` | pass | With 2 clients, the 9-block ring, and allocation and I/O failures (not `BlockAlloc` or `TaskCreate`, whose hangs `commit_hang` shows), with mount failures, the writer's unlocked `TxList` read answering stale, a start at `Format` or at a plain `Load`, and one crash with remount, and a `Journal::Stop` racing everything, these hold: `TypeOK`; `CommittedTxOnRing` (every Committed transaction has its whole begin/data/commit sequence at consecutive ring blocks); `BatchAllOrNothing` (clients of one batch get the same answer from Commit); `LoadFindsHeader` (after a successful `Format`, no `Load`, even after a crash, fails with BadMagic); `CommitTerminatesUnlessStopped` (every Commit that got past the state check returns, unless Stop has begun: with a writer thread running, a stale empty read of `TxList` only delays the batch); and `ImplementsJournalTx` (the journal refines `JournalTx`: a commit is decided once and Commit answers Success only for a Committed transaction). Deadlock is not checked, because Stop really does hang: it holds `Journal::Lock` exclusively while it joins the writer, and the writer's drain or a batch in flight needs the lock (`StopTerminates` fails in this configuration). Through `ControlDevice` that hang cannot happen, since Unmount waits for every chunk operation, and so for every Commit, before the journal stops. |
| `commit_hang` | MCJournal, `MCJournal_commit_hang.cfg` | violation | `CommitTerminates` fails in two ways, each found with that failure alone. (1) `BlockAlloc`: the `fail:` path of `Transaction::WriteTx` takes the lock shared inside the writer's own exclusive hold. `Journal::Stop` has the same fault (see `journal_commit`). (2) `TaskCreate`: `Journal::Load` checks only that `TxThread` is not null and ignores the `err` its constructor set, so when the kernel task is not created Load returns Success with no writer thread, and every Commit (and a later Stop) waits for ever. |
| `table_leak` | MCJournal, `MCJournal_table_leak.cfg` | violation | `TxTableLive` fails. A Committed transaction stays in `TxTable`. |
| `canceled_on_ring` | MCJournal, `MCJournal_canceled_on_ring.cfg` | violation | `CanceledTxNotOnRing` fails. If only the header bio fails, the batch is reported as an I/O error, yet its transactions are complete on the ring. |
| `crash_durability` | MCJournal, `MCJournal_crash_durability.cfg` | violation | `CrashKeepsCommitted` fails. `Journal::Flush` writes the header without FLUSH or FUA and `Run` answers Success when the writes complete, so a crash right after Commit returned can lose the transaction's blocks from the device's write cache. With the header bio sent FLUSH+FUA the property holds. |
| `ring_overflow` | MCJournal, `MCJournal_ring_overflow.cfg` | violation | `CommittedTxOnRing` fails in the 5-block ring. A batch of 8 blocks wraps over itself. |
| `ring_alloc` | MCJournalRing, `MCJournalRing.cfg` | pass | Three checks hold over every start block 0..2, ring size 2..5, page 2..4 bytes, data capacity below the page, and position up to one page past the journal. `RingOrder`: after k allocations the index is the k-th block after `Start+1` round the ring, never the header. `OverlapMatchesContract`: `WriteOverlaps` is exactly "position below one page, or the page's bytes meet the journal's bytes". `SplitCoversPage`: the TxData blocks of a page tile it in order with as few blocks as possible. For every begin, data and commit block of the small value sets, on a little-endian and on a big-endian host: `BlockOnDiskLittleEndian` (`WriteTxBlockPrepare` leaves exactly the little-endian bytes of every field on the page, spec 4.3.7) and `BlockRoundTrip` (`ReadTxBlockComplete` of that page accepts the hash and returns the block written). |
| `worker` | MCWorker, `MCWorker.cfg` | pass | Two `ExecuteAndWait` calls race `~Worker`, and `AddTail` may fail. `task_create` may fail too. These hold: `NoTaskStranded` (once the destructor returns, no task is queued; this depends on the test being repeated under the lock in `Execute` and on the drain loop); `TaskResolvedOnce` (a task is executed or cancelled at most once); `WaitersReturnOnDestroy` (once the destructor has begun, every producer waiting for its task returns, even a task queued behind a signal the worker already consumed); and `DestroyReturns` (the destructor's `TaskEvent.Set` wakes the worker, so the join returns). |
| `control_device` | MCControlDevice, `MCControlDevice.cfg` | pass | Two callers run ctl subcommands and chunk operations; Volume allocation, `CopyFromUser` and the name string may fail. These hold: `TypeOK`, which includes "a chunk operation never dereferences a null VolumeRef"; `NoUseAfterUnmount` (no chunk operation runs on a Volume that Unmount destroyed or replaced); and `ReportedOutcome` (ctl mount and umount exit 0 exactly when the ioctl registered or removed the Volume). `RequestsReturn` (every ioctl returns) is not checked: without Format and Load failures every registered Volume is loaded and it holds whatever the lock does, and with them it fails (see `mount_result`). |
| `hash_table` | MCHashTable, `MCHashTable.cfg` | pass | With no allocation failing, and the owner calling anything in any order: `WellFormed` (every entry is in its key's bucket and no key has two entries, which is what lets `Insert` scan one bucket for a duplicate) and `ImplementsKeyMap` (every call's result and effect is one `KeyMap` allows). |
| `hash_ctor_error` | MCHashTable, `MCHashTable_ctor_error.cfg` | violation | `NoKernelBug` fails. The constructor takes `err` by value, so when `Reserve` fails the owner sees E_OK and its first call divides by `Buckets.GetSize() = 0`. With `AddTail` as the only failure the same property fails another way: `Insert` ignores `AddTail`'s result, returns true, and a later `Get` of the key hits `KBUG_ON`. |
| `mount_result` | MCControlDevice, `MCControlDevice_mount_result.cfg` | violation | `ReportedOutcome` fails when every step may fail, in three ways, each found with that failure alone. (1) When `new Cmd` fails, `Ioctl` returns Success (the default value of `Core::Error`), so ctl exits 0 with nothing mounted. (2) When Format or Load fails, Mount reports the error but leaves the broken Volume in `VolumeRef`, against spec 7. A mutating chunk operation on it then waits for a journal writer that was never started, so `RequestsReturn` fails too (TLC finds it with `Load` as the only failure). (3) `CopyToUser` fails after Mount or Unmount took effect, and ctl reports an error for an operation that happened. |

Every property of a passing run has a mutant in `PROJECT.json`: a plausible bug in the mapped code that makes TLC find that property violated.

### Bounds

- **Clients.** Two clients make batches of two transactions possible, and races between a client and the writer or the stopper on the same lock.
- **One write per transaction.** `MaxWrites = 1`; a page already becomes two TxData blocks, so a second write adds length but no new control path.
- **Ring sizes.** The 9-block ring exactly fits the largest batch (8 blocks), so `CommittedTxOnRing` passing there is meaningful. The 5-block ring is the smallest where one transaction fits and a batch does not.
- **Positions.** Positions 0, 4 and 40 exercise both Overlap rejections and the accepted case.
- **Crashes.** `MaxCrashes = 1` in `journal_commit` and `crash_durability`: one crash reaches every crash point (before the batch, between its completion and the answers, after the answers) and a remount; a second crash only repeats them on a fresh ring.
- **HashTable.** Two buckets and three keys give a collision (a two-entry list) and a key alone in its bucket; with no call bound, the owner reaches every table content, 500 states. The failing constructor is checked with `NrBuckets = 2`; `Reserve` failing and `nrBuckets = 0` leave the same empty table.
- **ControlDevice.** Two requests per caller, by two callers, reach a Mount racing an Unmount or a chunk operation, and a chunk operation on a Volume being replaced. The findings of `mount_result` each take one request. Three requests per caller add a remount of the second Volume object but no new interleaving, and take over three minutes.
- **Block codec.** A byte has 3 values, a u32 2 bytes and a u64 3 bytes, so a conversion with the wrong width, a field left unconverted, and a swap applied to the wrong bytes all change the page. Type codes 1, 2 and 5 are chosen so that a byte-swapped code is no code, as for the real 32-bit codes. Position takes values 1 and 11 and DataSize 1 and 5, which are not palindromes in these digits. Time is 0, as `CreateTxBlock` leaves it, or 7.

### Fairness

- **Writer thread.** `WriterNext` is weakly fair: the writer is a kernel thread that loops on a 10 ms timed wait. `WriterTakeBatch` is strongly fair: the unlocked read of `TxList` is a fresh load after each call of `TxListEvent.Wait`, and the committer's store, released by `TxListLock`, cannot stay invisible to it for ever. So a queued batch is taken, though a read may miss it any finite number of times.
- **Clients.** A client that has entered Commit or Cancel keeps running (weak fairness on its remaining steps). Starting an operation is the caller's choice and is not fair.
- **Stopper.** `StopJoin` is weakly fair.
- **Mount thread.** `Format` and `Load` are weakly fair: the thread mounting the volume runs them in turn. A crash is never forced, and nothing assumes the device ever writes its cache back.
- **Worker.** The worker thread is weakly fair. So is a producer inside `Execute` or waiting on its task, and a thread inside `~Worker`. Calling `ExecuteAndWait` and starting the destructor are the owner's choice.
- **HashTable.** Only safety is checked: the table is called by one owner thread and has nothing to wait for.
- **ControlDevice callers.** A caller inside an ioctl (`Ioctl`, `Mount`, `Unmount`, `CopyOut`, the chunk steps) is weakly fair: it is a thread running kernel code. Because requests are bounded, a waiting Mount or Unmount eventually finds `VolumeLock` free.

## Not modelled, and the plan

- **Not yet modelled:**
  - `Replay` applies nothing and `ReadTxBlock` is never called. After a remount `CurrBlockIndex` is `Start + 1` again, so new batches overwrite whatever the ring held. A property about replay needs the home locations of the data, which belong to `Volume`, not in `src/`.
  - The composition of `ControlDevice` with `Journal`. `NoPendingTxAfterStop` (in `Journal.tla`) fails in the journal alone, but no run checks it: Unmount, the only caller of `Journal::Stop`, holds `VolumeLock` exclusively and so waits for every chunk operation, and every Commit runs inside one. The same ordering means `TxList` is empty at Stop, so the hang of `Journal::Stop` (`StopTerminates`) needs a Stop that overlaps a Commit; no run keeps it, and `commit_hang` shows the same fault.
  - The `Worker` lost wake-up. With an auto-reset `TaskEvent`, two tasks queued behind one signal leave a waiter stuck until the destructor runs. `Event` is not in `src/`, so no run asserts either reading.
  - The reader policy of `Journal::Lock`. `BeginTx` holds it shared, and on a failed Transaction constructor or `TxTable.Insert` the destructor's `UnlinkTx` takes it shared again. That deadlocks if readers queue behind a waiting writer, as with the kernel's `rw_semaphore`. The lock type is not in `src/`, so `Journal.tla` takes each shared hold as one step, and the hazard is listed without a property.
  - A second thread committing the same transaction (Commit's `InvalidState` return): each client owns its transaction.
- **Left out on purpose:**
  - Argument copying, GUID and name comparison.
  - `GetTime`, `GetRandomUlong` and the server ioctls' work. They are handled codes in `Ioctl`, and `StartServer`'s failure path is kept, but they do not touch `VolumeRef`.
  - ctl's `test` and `task-stack` are modelled, and always get UnknownCode: the kernel's switch has no case for `IOCTL_KSTOR_TEST` or `GET_TASK_STACK`. Those seven are every subcommand `main` accepts; `Ctl` also has methods for GetTime, GetRandomUlong and Unmount by id, but `main` calls none of them, and no ctl code issues a chunk ioctl.
  - Trace output.
  - Kernel-call wrappers: `memory.h` beyond `CheckRange` and `CheckIntersection` (copies, `ArrayEqual`, `Min`/`Max`), `misc_device.cpp` (device registration and the conversion of `Ioctl`'s error to the system call's return, which `CopyOut` includes), `Bio` (used only by `BioList`, not in `src/`; its bios are the journal writer's `bios`), and `ControlDevice::Create`/`Delete`.
  - `src/cpp/main.cpp`: the cpp library's self-tests. It uses the cpp library's `Worker(int&)` and containers with fixed inputs; the models of `Worker` and `HashTable` take any owner that calls them.
  - The header block encoding (`Journal::Format`, `Load`): its magic check is in `Journal.tla`, and its bytes are converted like a tx block's.
