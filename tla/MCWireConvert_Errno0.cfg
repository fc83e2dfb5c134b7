SPECIFICATION Spec
CONSTANTS
    Perms <- MCPerms
    Durations <- MCDurations
    Second = 4
    NsecMod = 8
    SecMod = 32
    Majors <- MCMajors
    Minors <- MCMinors
    Readaheads <- MCReadaheads
    KernelCaps <- MCKernelCaps
    Backgrounds <- MCBackgrounds
    ForgetCounts <- MCForgetCounts
    ForgetNodes <- MCForgetNodes
    ForgetOnesMax = 2
    Errnos <- MCErrnosWithZero
\* Expected violation: a non-nil syscall.Errno(0) is sent as error 0, a success.
CHECK_DEADLOCK FALSE
INVARIANT FailureNeverSucceeds
