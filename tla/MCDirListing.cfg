\* A directory listed through READDIR or READDIRPLUS under a budget that
\* cuts replies between records.
CONSTANTS
    Ino <- MCIno
    NameLen <- MCNameLen
    Generation <- MCGeneration
    Size = 200
    Modes <- MCBothModes
    MaxListed = 7
SPECIFICATION Spec
\* After end of directory or an error the listing is over; nothing more happens.
CHECK_DEADLOCK FALSE
INVARIANT
    ReplyWithinBudget
PROPERTY
    ListingCompletes
