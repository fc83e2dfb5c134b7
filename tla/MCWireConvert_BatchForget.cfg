SPECIFICATION Spec
CONSTANTS
    Perms <- MCPerms
    Durations <- MCDurations
    Second = 4
    NsecMod = 8
    SecMod = 32
    Majors <- MCMajors
    Minors <- MCMinors
    Readaheads <- MCReadaheads
    KernelCaps <- MCKernelCaps
    Backgrounds <- MCBackgrounds
    ForgetCounts <- MCForgetCounts
    ForgetNodes <- MCForgetNodes
    ForgetOnesMax = 2
    Errnos <- MCErrnos
\* Expected violation: a Count above the records the body holds pads the call with zero entries.
CHECK_DEADLOCK FALSE
INVARIANT BatchForgetGetsRecovered
