--------------------------- MODULE MCControlDevice ---------------------------
(* Model-checking instance of ControlDevice: two caller threads with three *)
(* requests each, and two Volume objects, so a Mount after an Unmount and  *)
(* a chunk operation racing an Unmount both happen.                        *)
EXTENDS ControlDevice, TLC

CONSTANTS a1, a2, v1, v2

MCCallers == {a1, a2}
MCVolumes == {v1, v2}

\* The failures the code reports correctly: the allocation of the Volume
\* object, and Ioctl's copy from the user and the device name's string.
MCFailuresHandled == {"VolumeAlloc", "CopyFromUser", "NameAlloc"}
\* Every step of Mount and of Ioctl may fail.
MCFailuresAll == MountFailureKinds \cup IoctlFailureKinds

\* Callers are interchangeable, and so are the not yet allocated Volumes.
Symm == Permutations(MCCallers) \cup Permutations(MCVolumes)

=============================================================================
