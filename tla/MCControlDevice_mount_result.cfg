\* Every step of Mount and of Ioctl may fail: ctl mount or umount reports an
\* outcome other than the one it had.
CONSTANTS
    a1 = a1
    a2 = a2
    v1 = v1
    v2 = v2
    NoHolder = none
    Null = null
    Callers <- MCCallers
    Volumes <- MCVolumes
    MaxOps = 2
    Failures <- MCFailuresAll

SPECIFICATION Spec

INVARIANT ReportedOutcome

\* A hung ChunkWrite on a broken Volume stops every other thread.
CHECK_DEADLOCK FALSE
