\* READDIRPLUS alone: serializeDirentsPlus writes the generation as the cookie.
CONSTANTS
    Ino <- MCIno
    NameLen <- MCNameLen
    Generation <- MCGeneration
    Size = 200
    Modes <- MCPlus
    MaxListed = 7
SPECIFICATION Spec
\* After end of directory or an error the listing is over; nothing more happens.
CHECK_DEADLOCK FALSE
PROPERTY
    EveryListingCompletes
