---------------------------- MODULE ControlDevice ----------------------------
(***************************************************************************)
(* src/kstor/control_device.cpp: the single registered Volume behind      *)
(* VolumeLock, a read/write semaphore.  Mount and both Unmounts hold it    *)
(* exclusively for their whole body; the chunk operations hold it shared   *)
(* while the Volume runs the operation.                                    *)
(*                                                                         *)
(* Each caller thread issues up to MaxOps requests.  A Volume object is a  *)
(* model value; the Volume class itself is not in the source tree, so its  *)
(* constructor, Format, Load and chunk operations are taken from the spec  *)
(* (section 4.4): a mutating chunk operation commits a journal             *)
(* transaction, and only a Volume whose Load succeeded has a journal       *)
(* writer thread to complete that commit (Journal::Load creates TxThread;  *)
(* Journal::BeginTx and StartCommitTx never look at the journal State).   *)
(*                                                                         *)
(* A caller is either the ctl tool (src/ctl) entering ControlDevice::Ioctl *)
(* through the misc device, or a server thread calling a chunk operation.  *)
(* `changed` records whether the caller's request changed VolumeRef, and   *)
(* `ret` is what it was told, so the two can be compared.                  *)
(***************************************************************************)
EXTENDS Naturals, FiniteSets

CONSTANTS
    Callers,   \* threads issuing ioctls
    Volumes,   \* Volume objects Mount may allocate
    NoHolder,  \* exclusive owner of VolumeLock when it is free
    Null,      \* an empty VolumeRef
    MaxOps,    \* requests per caller
    Failures   \* which Mount steps may fail

MountFailureKinds == {"VolumeAlloc", \* MakeShared<Volume> returns null
                      "VolumeInit",  \* the Volume constructor sets err
                      "Format",      \* Volume::Format fails
                      "Load"}        \* Volume::Load fails

\* The steps of ControlDevice::Ioctl that may fail.
IoctlFailureKinds == {"CmdAlloc",      \* new Control::Cmd returns null
                      "CopyFromUser",  \* Core::CopyFromUser fails
                      "NameAlloc",     \* the AString of DeviceName
                      "CopyToUser"}    \* Core::CopyToUser fails

ChunkOps == {"Create", "Write", "Read", "Delete"}

\* The subcommands src/ctl/main.cpp accepts.
CliCommands == {"mount", "mount -f", "umount", "start-server", "stop-server",
                "test", "task-stack"}

\* The ioctl each subcommand issues through its Ctl method.
IoctlOf(cli) ==
    CASE cli \in {"mount", "mount -f"} -> "Mount"
      [] cli = "umount"                -> "UnmountByName"
      [] cli = "start-server"          -> "StartServer"
      [] cli = "stop-server"           -> "StopServer"
      [] cli = "test"                  -> "Test"
      [] cli = "task-stack"            -> "GetTaskStack"

\* The codes the switch of ControlDevice::Ioctl has a case for.
HandledCodes == {"GetTime", "GetRandomUlong", "Mount", "Unmount",
                 "UnmountByName", "StartServer", "StopServer"}

\* ChunkCreate, ChunkWrite and ChunkDelete change the chunk table through a
\* journal transaction (spec 4.4); ChunkRead does not.
Mutating == {"Create", "Write", "Delete"}

ASSUME /\ Null \notin Volumes /\ NoHolder \notin Callers
       /\ MaxOps \in Nat
       /\ Failures \subseteq MountFailureKinds \cup IoctlFailureKinds

VARIABLES
    vref,    \* ControlDevice::VolumeRef
    vstate,  \* life of each Volume object
    lockX,   \* exclusive holder of VolumeLock, or NoHolder
    lockS,   \* shared holders of VolumeLock
    pc,      \* caller program counters
    op,      \* the chunk operation a caller is running
    using,   \* the Volume a chunk operation runs on
    ret,     \* what the caller's last request returned
    nops,    \* requests issued by each caller
    cmd,     \* the ctl subcommand a caller runs, "none" for a chunk operation
    changed  \* history: the caller's current request changed VolumeRef

vars == <<vref, vstate, lockX, lockS, pc, op, using, ret, nops, cmd, changed>>

VolumeStates == {"Unused", "Loaded", "Broken", "Destroyed"}

Results == {"None", "Success", "AlreadyExists", "NotFound", "NoMemory",
            "Error", "UnknownCode", "Invalid"}

LockFree == lockX = NoHolder /\ lockS = {}

Init ==
    /\ vref = Null
    /\ vstate = [v \in Volumes |-> "Unused"]
    /\ lockX = NoHolder
    /\ lockS = {}
    /\ pc = [c \in Callers |-> "Idle"]
    /\ op = [c \in Callers |-> "Read"]
    /\ using = [c \in Callers |-> Null]
    /\ ret = [c \in Callers |-> "None"]
    /\ nops = [c \in Callers |-> 0]
    /\ cmd = [c \in Callers |-> "none"]
    /\ changed = [c \in Callers |-> FALSE]

Return(c, r) ==
    /\ ret' = [ret EXCEPT ![c] = r]
    /\ pc' = [pc EXCEPT ![c] = "Idle"]

\* ctl's main: Ctl's constructor opens the control device, main checks the
\* subcommand's arguments and calls the Ctl method that issues its ioctl.
\* A failed open or invalid arguments end the process before any ioctl.
CtlMain(c) ==
    /\ pc[c] = "Idle"
    /\ nops[c] < MaxOps
    /\ \E cli \in CliCommands :
          /\ cmd' = [cmd EXCEPT ![c] = cli]
          /\ \/ Return(c, "Invalid")
             \/ pc' = [pc EXCEPT ![c] = "Ioctl"] /\ UNCHANGED ret
    /\ changed' = [changed EXCEPT ![c] = FALSE]
    /\ nops' = [nops EXCEPT ![c] = @ + 1]
    /\ UNCHANGED <<vref, vstate, lockX, lockS, op, using>>

\* A server thread calls ControlDevice::ChunkCreate/Write/Read/Delete.
ChunkRequest(c) ==
    /\ pc[c] = "Idle"
    /\ nops[c] < MaxOps
    /\ \E o \in ChunkOps :
          /\ pc' = [pc EXCEPT ![c] = o]
          /\ op' = [op EXCEPT ![c] = o]
    /\ cmd' = [cmd EXCEPT ![c] = "none"]
    /\ nops' = [nops EXCEPT ![c] = @ + 1]
    /\ UNCHANGED <<vref, vstate, lockX, lockS, using, ret, changed>>

\* The end of a handler in Ioctl: an error goes to cleanup and is returned,
\* success goes on to copy the command back to the user.
Handled(c, r) ==
    /\ ret' = [ret EXCEPT ![c] = r]
    /\ pc' = [pc EXCEPT ![c] = IF r = "Success" THEN "CopyOut" ELSE "Idle"]

\* ControlDevice::Ioctl up to its handler.  When the allocation of the Cmd
\* fails it jumps to cleanup with err as constructed, Success.  ctl's
\* snprintf always terminates DeviceName, so the name check passes.
Ioctl(c) ==
    /\ pc[c] = "Ioctl"
    /\ LET k == IoctlOf(cmd[c]) IN
       \/ "CmdAlloc" \in Failures /\ Return(c, "Success")
       \/ "CopyFromUser" \in Failures /\ Return(c, "Error")
       \/ k \notin HandledCodes /\ Return(c, "UnknownCode")
       \/ /\ k \in {"Mount", "UnmountByName"}
          /\ \/ "NameAlloc" \in Failures /\ Return(c, "Error")
             \/ /\ pc' = [pc EXCEPT ![c] = IF k = "Mount" THEN "Mount"
                                                        ELSE "Unmount"]
                /\ UNCHANGED ret
       \/ k = "StartServer" /\ \E r \in {"Success", "Error"} : Handled(c, r)
       \/ k = "StopServer" /\ Handled(c, "Success")
    /\ UNCHANGED <<vref, vstate, lockX, lockS, op, using, nops, cmd, changed>>

\* Ioctl's CopyToUser of the command, then its return of err; the misc
\* device returns err.GetCode() to the ioctl system call, and ctl's main
\* exits with a status that is 0 only when that code is Success.
CopyOut(c) ==
    /\ pc[c] = "CopyOut"
    /\ \/ pc' = [pc EXCEPT ![c] = "Idle"] /\ UNCHANGED ret
       \/ "CopyToUser" \in Failures /\ Return(c, "Error")
    /\ UNCHANGED <<vref, vstate, lockX, lockS, op, using, nops, cmd, changed>>


\* The outcomes of constructing, optionally formatting and loading a new
\* Volume, by the failures allowed.
VolumeOutcomes(format) ==
    {"Ok"} \cup ({"VolumeInit", "Load"} \cap Failures)
           \cup (IF format THEN {"Format"} \cap Failures ELSE {})

\* Whether this step changed VolumeRef.
Changed(c) == changed' = [changed EXCEPT ![c] = vref' # vref]

\* Mutant of Mount: the failed allocation returns err without SetNoMemory.
MountAllocNoError(c) ==
    /\ pc[c] = "Mount"
    /\ LockFree
    /\ \/ vref # Null /\ Handled(c, "AlreadyExists") /\ UNCHANGED <<vref, vstate>>
       \/ /\ vref = Null
          /\ "VolumeAlloc" \in Failures
          /\ Handled(c, "Success")
          /\ UNCHANGED <<vref, vstate>>
    /\ Changed(c)
    /\ UNCHANGED <<lockX, lockS, op, using, nops, cmd>>

\* ControlDevice::Mount under the exclusive VolumeLock, formatting when the
\* subcommand was `mount -f`.  Every step after MakeShared assigns
\* VolumeRef first, and the error returns leave it set.
Mount(c) ==
    /\ pc[c] = "Mount"
    /\ LockFree
    /\ \/ vref # Null /\ Handled(c, "AlreadyExists") /\ UNCHANGED <<vref, vstate>>
       \/ /\ vref = Null
          /\ "VolumeAlloc" \in Failures
          /\ Handled(c, "NoMemory")
          /\ UNCHANGED <<vref, vstate>>
       \/ /\ vref = Null
          /\ \E v \in Volumes :
                /\ vstate[v] = "Unused"
                /\ \E outcome \in VolumeOutcomes(cmd[c] = "mount -f") :
                      /\ vref' = v
                      /\ vstate' = [vstate EXCEPT ![v] =
                                      IF outcome = "Ok" THEN "Loaded"
                                                        ELSE "Broken"]
                      /\ Handled(c, IF outcome = "Ok" THEN "Success"
                                                      ELSE "Error")
    /\ Changed(c)
    /\ UNCHANGED <<lockX, lockS, op, using, nops, cmd>>

\* Mutant of Unmount: VolumeLock taken without waiting for shared holders.
UnmountIgnoringReaders(c) ==
    /\ pc[c] = "Unmount"
    /\ lockX = NoHolder
    /\ \/ vref = Null /\ Handled(c, "NotFound") /\ UNCHANGED <<vref, vstate>>
       \/ /\ vref # Null
          /\ vref' = Null
          /\ vstate' = [vstate EXCEPT ![vref] = "Destroyed"]
          /\ Handled(c, "Success")
    /\ Changed(c)
    /\ UNCHANGED <<lockX, lockS, op, using, nops, cmd>>

\* ControlDevice::Unmount(volumeId) and Unmount(deviceName) under the
\* exclusive VolumeLock: a matching id or name resets VolumeRef, which
\* destroys the Volume (its destructor stops the journal, spec 4.4).
Unmount(c) ==
    /\ pc[c] = "Unmount"
    /\ LockFree
    /\ \/ vref = Null /\ Handled(c, "NotFound") /\ UNCHANGED <<vref, vstate>>
       \/ /\ vref # Null
          /\ vref' = Null
          /\ vstate' = [vstate EXCEPT ![vref] = "Destroyed"]
          /\ Handled(c, "Success")
       \/ /\ vref # Null    \* the id or name is not the volume's
          /\ Handled(c, "NotFound")
          /\ UNCHANGED <<vref, vstate>>
    /\ Changed(c)
    /\ UNCHANGED <<lockX, lockS, op, using, nops, cmd>>

\* Mutant of ChunkBegin: the VolumeRef null check is missing.
ChunkBeginNoNullCheck(c) ==
    /\ pc[c] \in ChunkOps
    /\ lockX = NoHolder
    /\ lockS' = lockS \cup {c}
    /\ using' = [using EXCEPT ![c] = vref]
    /\ pc' = [pc EXCEPT ![c] = "InVolume"]
    /\ UNCHANGED <<vref, vstate, lockX, op, nops, ret, cmd, changed>>

\* ControlDevice::ChunkCreate/Write/Read/Delete take VolumeLock shared and
\* return NotFound without a volume ...
ChunkBegin(c) ==
    /\ pc[c] \in ChunkOps
    /\ lockX = NoHolder
    /\ \/ /\ vref = Null
          /\ Return(c, "NotFound")
          /\ UNCHANGED <<lockS, using>>
       \/ /\ vref # Null
          /\ lockS' = lockS \cup {c}
          /\ using' = [using EXCEPT ![c] = vref]
          /\ pc' = [pc EXCEPT ![c] = "InVolume"]
          /\ UNCHANGED ret
    /\ UNCHANGED <<vref, vstate, lockX, op, nops, cmd, changed>>

\* ... and otherwise call the Volume's operation and release the lock when
\* it returns.  A mutating operation returns only once its transaction's
\* commit has been answered by the journal writer of a loaded Volume.
ChunkEnd(c) ==
    /\ pc[c] = "InVolume"
    /\ op[c] \in Mutating => vstate[using[c]] = "Loaded"
    /\ lockS' = lockS \ {c}
    /\ using' = [using EXCEPT ![c] = Null]
    /\ \E r \in {"Success", "Error"} : Return(c, r)
    /\ UNCHANGED <<vref, vstate, lockX, op, nops, cmd, changed>>

\* Every caller has issued all its requests and returned.
Finished == \A c \in Callers : pc[c] = "Idle" /\ nops[c] = MaxOps

Next ==
    \/ \E c \in Callers :
          \/ CtlMain(c) \/ ChunkRequest(c) \/ Ioctl(c) \/ CopyOut(c)
          \/ Mount(c) \/ Unmount(c) \/ ChunkBegin(c) \/ ChunkEnd(c)
    \/ Finished /\ UNCHANGED vars

\* A thread inside an ioctl keeps running; issuing a request is the
\* caller's choice.
Fairness ==
    \A c \in Callers :
        WF_vars(Ioctl(c) \/ CopyOut(c) \/ Mount(c) \/ Unmount(c)
                \/ ChunkBegin(c) \/ ChunkEnd(c))

Spec == Init /\ [][Next]_vars /\ Fairness

-----------------------------------------------------------------------------
TypeOK ==
    /\ vref \in Volumes \cup {Null}
    /\ vstate \in [Volumes -> VolumeStates]
    /\ lockX \in Callers \cup {NoHolder} /\ lockS \subseteq Callers
    /\ pc \in [Callers -> {"Idle", "Ioctl", "Mount", "Unmount", "CopyOut",
                           "InVolume"} \cup ChunkOps]
    /\ op \in [Callers -> ChunkOps]
    /\ using \in [Callers -> Volumes \cup {Null}]
    \* the Volume a chunk operation dereferences is never a null VolumeRef
    /\ \A c \in Callers : pc[c] = "InVolume" => using[c] \in Volumes
    /\ ret \in [Callers -> Results]
    /\ nops \in [Callers -> 0..MaxOps]
    /\ cmd \in [Callers -> CliCommands \cup {"none"}]
    /\ changed \in [Callers -> BOOLEAN]

\* A chunk operation runs on the registered Volume and that Volume is never
\* destroyed under it: an Unmount (or a Mount replacing VolumeRef) waits
\* for every shared holder of VolumeLock.
NoUseAfterUnmount ==
    \A c \in Callers :
        pc[c] = "InVolume" => /\ using[c] = vref
                              /\ vstate[using[c]] # "Destroyed"

\* Every ioctl a caller has entered returns (spec 8, scenario 5: a
\* concurrent Unmount waits for the chunk operations and then completes).
\* No run keeps it: when Format or Load may fail, a mutating chunk
\* operation on the broken Volume Mount left registered never returns and
\* Mount and Unmount wait behind it; without those failures every Volume
\* is loaded and it holds whatever the lock does.
RequestsReturn ==
    \A c \in Callers : pc[c] # "Idle" ~> pc[c] = "Idle"

\* What ctl mount or ctl umount reports is what happened: the process
\* exits with status 0 exactly when its ioctl registered or removed the
\* volume (spec 7: any non-success from Mount or Unmount leaves the prior
\* state intact; spec 6: exit status 0 on success, an error otherwise).
\* Mount, Unmount, Ioctl's allocation and copy steps and the misc device's
\* conversion of the result all bear on it.
ReportedOutcome ==
    \A c \in Callers :
        pc[c] = "Idle" /\ cmd[c] \in {"mount", "mount -f", "umount"}
            => (ret[c] = "Success" <=> changed[c])

=============================================================================
