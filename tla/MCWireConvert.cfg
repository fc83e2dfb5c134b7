SPECIFICATION Spec
CONSTANTS
    Perms <- MCPerms
    Durations <- MCDurations
    Second = 4
    NsecMod = 8
    SecMod = 32
    Majors <- MCMajors
    Minors <- MCMinors
    Readaheads <- MCReadaheads
    KernelCaps <- MCKernelCaps
    Backgrounds <- MCBackgrounds
    ForgetCounts <- MCForgetCounts
    ForgetNodes <- MCForgetNodes
    ForgetOnesMax = 2
    Errnos <- MCErrnos
\* Each behaviour builds one reply and then stops.
CHECK_DEADLOCK FALSE
INVARIANT TypeOK
INVARIANT TypeAgreement
INVARIANT PermBitsPreserved
INVARIANT TimespecRoundTrip
INVARIANT InitNegotiation
INVARIANT BatchForgetParsesPrefix
