SPECIFICATION Spec
CONSTANTS
    Perms <- MCPerms
    Durations <- MCDurations
    Second = 4
    NsecMod = 8
    SecMod = 32
    Majors <- MCMajors
    Minors <- MCMinors
    Readaheads <- MCReadaheads
    KernelCaps <- MCKernelCaps
    Backgrounds <- MCBackgrounds
    ForgetCounts <- MCForgetCounts
    ForgetNodes <- MCForgetNodes
    ForgetOnesMax = 2
    Errnos <- MCErrnos
\* Expected violation: MaxBackground 40000 wraps 3*MaxBackground in uint16.
CHECK_DEADLOCK FALSE
INVARIANT CongestionIsThreeQuarters
