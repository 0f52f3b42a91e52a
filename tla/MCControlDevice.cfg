\* ctl subcommands through Ioctl and chunk operations of two callers; the
\* failures the code handles (Volume allocation, copy-in, name string) occur.
CONSTANTS
    a1 = a1
    a2 = a2
    v1 = v1
    v2 = v2
    NoHolder = none
    Null = null
    Callers <- MCCallers
    Volumes <- MCVolumes
    MaxOps = 2
    Failures <- MCFailuresHandled

SPECIFICATION Spec

INVARIANT TypeOK
INVARIANT NoUseAfterUnmount
INVARIANT ReportedOutcome
