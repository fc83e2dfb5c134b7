---------------------------- MODULE WireConvert ----------------------------
(***************************************************************************)
(* The conversions from the library's Go types to the FUSE wire records:  *)
(* fileModeToUnix and fileModeToType (src/mount.go), durationToTimespec,  *)
(* attrToProto and entryToProto, and toErrno.  A state is one value the   *)
(* filesystem handed back (an Entry, or a callback error) together with   *)
(* what the library put on the wire for it, so each invariant is a law    *)
(* about the encoding of every value the filesystem can return.            *)
(*                                                                         *)
(* Durations are scaled: Second nanoseconds make a second, and the        *)
(* unsigned fields wrap at SecMod (uint64) and NsecMod (uint32).  The      *)
(* relation the code relies on is kept: 0 < Second <= NsecMod.             *)
(***************************************************************************)
EXTENDS Integers, Sequences, Bitwise

CONSTANTS
    Perms,       \* permission bit patterns (mode.Perm()) the filesystem uses
    Durations,   \* time.Duration values (in scaled nanoseconds)
    Second,      \* time.Second in scaled nanoseconds
    SecMod,      \* 2^64 scaled: uint64 wraps here
    NsecMod,     \* 2^32 scaled: uint32 wraps here
    Errnos,      \* syscall.Errno values a callback may return
    Majors,      \* InitIn.Major values a kernel may send
    Minors,      \* InitIn.Minor values
    Readaheads,  \* InitIn.MaxReadahead and MountOptions.MaxReadahead values
    KernelCaps,  \* capability names a kernel may offer in InitIn.Flags
    Backgrounds, \* MountOptions.MaxBackground values (uint16)
    ForgetCounts,  \* BatchForgetIn.Count values a kernel may send
    ForgetNodes,   \* ForgetOne.NodeID values
    ForgetOnesMax  \* bound on the complete ForgetOne records in one body

ASSUME /\ Second \in Nat \ {0}
       /\ NsecMod >= Second /\ SecMod >= NsecMod
       /\ Perms \subseteq 0..511
       /\ Backgrounds \subseteq 0..65535
       /\ ForgetCounts \subseteq Nat /\ ForgetNodes \subseteq Nat \ {0}

-----------------------------------------------------------------------------
(* proto/types.go: DT_* and S_IF* constants, octal values written out.    *)
DtFifo == 1
DtChr == 2
DtDir == 4
DtBlk == 6
DtReg == 8
DtLnk == 10
DtSock == 12
ModeTypeMask == 61440   \* 0170000
ModeSocket == 49152     \* 0140000
ModeSymlink == 40960    \* 0120000
ModeRegular == 32768    \* 0100000
ModeBlock == 24576      \* 0060000
ModeDir == 16384        \* 0040000
ModeChar == 8192        \* 0020000
ModeFifo == 4096        \* 0010000
ModeSetuid == 2048      \* 04000
ModeSetgid == 1024      \* 02000
ModeSticky == 512       \* 01000

(* os.FileMode: a set of named flag bits plus the permission bits.        *)
(* GoType is os.ModeType, the bits mode.Type() keeps.                      *)
GoType == {"ModeDir", "ModeSymlink", "ModeNamedPipe", "ModeSocket",
           "ModeDevice", "ModeCharDevice", "ModeIrregular"}
GoSpecial == {"ModeSetuid", "ModeSetgid", "ModeSticky"}

(* The type bits os.Lstat gives each kind of file (os/stat_linux.go):     *)
(* these are the FileModes the filesystem can hand back.                   *)
GoKinds == {{}, {"ModeDir"}, {"ModeSymlink"}, {"ModeNamedPipe"},
            {"ModeSocket"}, {"ModeDevice"}, {"ModeDevice", "ModeCharDevice"}}
FileModes == [type : GoKinds, special : SUBSET GoSpecial, perm : Perms]

TypeOf(mode) == mode.type \cap GoType

(* fileModeToUnix: permission bits, one S_IF type chosen by a switch on   *)
(* mode.Type(), then the setuid/setgid/sticky bits.                        *)
UnixTypeOf(mode) ==
    CASE TypeOf(mode) = {"ModeDir"}       -> ModeDir
      [] TypeOf(mode) = {"ModeSymlink"}   -> ModeSymlink
      [] TypeOf(mode) = {"ModeNamedPipe"} -> ModeFifo
      [] TypeOf(mode) = {"ModeSocket"}    -> ModeSocket
      [] TypeOf(mode) = {"ModeDevice"}    ->
            IF "ModeCharDevice" \in mode.type THEN ModeChar ELSE ModeBlock
      [] OTHER                            -> ModeRegular

SpecialBit(m, flag, bit) == IF flag \in m.special THEN bit ELSE 0

(* Mutant: the sticky bit dropped from the special-bit copy.              *)
fileModeToUnixNoSticky(mode) ==
    mode.perm | UnixTypeOf(mode)
              | SpecialBit(mode, "ModeSetuid", ModeSetuid)
              | SpecialBit(mode, "ModeSetgid", ModeSetgid)

fileModeToUnix(mode) ==
    mode.perm | UnixTypeOf(mode)
              | SpecialBit(mode, "ModeSetuid", ModeSetuid)
              | SpecialBit(mode, "ModeSetgid", ModeSetgid)
              | SpecialBit(mode, "ModeSticky", ModeSticky)

(* Mutant: the device case with DT_CHR and DT_BLK swapped.                 *)
fileModeToTypeSwapped(mode) ==
    CASE TypeOf(mode) = {"ModeDir"}       -> DtDir
      [] TypeOf(mode) = {"ModeSymlink"}   -> DtLnk
      [] TypeOf(mode) = {"ModeNamedPipe"} -> DtFifo
      [] TypeOf(mode) = {"ModeSocket"}    -> DtSock
      [] TypeOf(mode) = {"ModeDevice"}    ->
            IF "ModeCharDevice" \in mode.type THEN DtBlk ELSE DtChr
      [] OTHER                            -> DtReg

(* fileModeToType: the DT_* tag READDIRPLUS writes into each dirent.       *)
fileModeToType(mode) ==
    CASE TypeOf(mode) = {"ModeDir"}       -> DtDir
      [] TypeOf(mode) = {"ModeSymlink"}   -> DtLnk
      [] TypeOf(mode) = {"ModeNamedPipe"} -> DtFifo
      [] TypeOf(mode) = {"ModeSocket"}    -> DtSock
      [] TypeOf(mode) = {"ModeDevice"}    ->
            IF "ModeCharDevice" \in mode.type THEN DtChr ELSE DtBlk
      [] OTHER                            -> DtReg

(* Go's integer / and % truncate toward zero; uintN(x) keeps x mod 2^N.   *)
GoQuo(a, b) == IF a >= 0 THEN a \div b ELSE -((-a) \div b)
GoRem(a, b) == a - b * GoQuo(a, b)

(* Mutant: the nanosecond field taken as uint32(d.Nanoseconds()), the     *)
(* whole duration, instead of d % time.Second.                             *)
durationToTimespecWholeNanos(d) ==
    [sec |-> GoQuo(d, Second) % SecMod, nsec |-> d % NsecMod]

durationToTimespec(d) ==
    [sec |-> GoQuo(d, Second) % SecMod, nsec |-> GoRem(d, Second) % NsecMod]

(* attrToProto, reduced to the field the conversions decide: Mode.  The   *)
(* other fields are copies of the same-width Attr fields.                  *)
attrToProto(a) == [mode |-> fileModeToUnix(a.mode)]

entryToProto(entry) ==
    LET ev == durationToTimespec(entry.entryTimeout)
        av == durationToTimespec(entry.attrTimeout)
    IN [entryValid |-> ev.sec, entryValidNsec |-> ev.nsec,
        attrValid |-> av.sec, attrValidNsec |-> av.nsec,
        attr |-> attrToProto(entry.attr)]

(* toErrno: nil is 0; a syscall.Errno anywhere in the chain is negated;   *)
(* then the switch over wrapped sentinels, in the code's order.  An error  *)
(* is a record of the Errno it wraps (NoErrno: none) and the sentinel it *)
(* wraps ("none": an error of its own); NilError is the nil interface.     *)
NoErrno == -1
NilError == [errno |-> NoErrno, is |-> "nil"]
Sentinels == {"ErrNotExist", "ErrExist", "ErrPermission", "ErrClosed",
              "ErrInvalid", "EOF", "Canceled", "DeadlineExceeded", "none"}
(* An error the filesystem's Init returns of its own (EIO on the wire).  *)
FsInitError == [errno |-> NoErrno, is |-> "none"]
Errors == {NilError} \cup [errno : Errnos \cup {NoErrno}, is : Sentinels]

SentinelErrno ==
    [ErrNotExist |-> -2, ErrExist |-> -17, ErrPermission |-> -13,
     ErrClosed |-> -9, ErrInvalid |-> -22, EOF |-> 0, Canceled |-> -4,
     DeadlineExceeded |-> -110, none |-> -5]

(* Mutant: the Errno branch returns the errno without negating it.         *)
toErrnoUnnegated(err) ==
    CASE err = NilError        -> 0
      [] err.errno # NoErrno   -> err.errno
      [] OTHER                 -> SentinelErrno[err.is]

toErrno(err) ==
    CASE err = NilError        -> 0
      [] err.errno # NoErrno   -> -err.errno
      [] OTHER                 -> SentinelErrno[err.is]

-----------------------------------------------------------------------------
(* proto/init.go: the protocol version and the defaults handleInit and   *)
(* Mount use.                                                              *)
FuseKernelVersion == 7
FuseKernelMinorVersion == 41
MinSupportedMinor == 26
DefaultMaxReadahead == 131072
DefaultMaxWrite == 131072
DefaultMaxBackground == 12
DefaultTimeGran == 1
DefaultMaxPages == 32

EPROTO == 71

(* The capabilities handleInit ORs into flags (the Cap constants of     *)
(* proto/types.go), by name: each is below bit 32, so uint32(cap) keeps  *)
(* it, and flags is the set of bits it sets.                              *)
Supported == {"AsyncRead", "ParallelDirops", "AutoInvalData", "Readdirplus",
              "ReaddirplusAuto", "CacheSymlinks", "ExportSupport", "MaxPages"}

(* Mount: a zero option takes its default.                                 *)
WithDefaults(o) ==
    [maxReadahead  |-> IF o.maxReadahead = 0 THEN DefaultMaxReadahead ELSE o.maxReadahead,
     maxWrite      |-> IF o.maxWrite = 0 THEN DefaultMaxWrite ELSE o.maxWrite,
     maxBackground |-> IF o.maxBackground = 0 THEN DefaultMaxBackground ELSE o.maxBackground]

MinOf(a, b) == IF a <= b THEN a ELSE b

(* s.opts.MaxBackground * 3 / 4, evaluated in uint16.                      *)
CongestionThreshold(mb) == ((mb * 3) % 65536) \div 4

InitIns == [major : Majors, minor : Minors, maxReadahead : Readaheads,
            flags : SUBSET KernelCaps]
MountOptions == [maxReadahead : {0} \cup Readaheads, maxWrite : {0},
                 maxBackground : Backgrounds]

-----------------------------------------------------------------------------
(* The reply the library built for one input, and the state handleInit   *)
(* sets: the EntryOut and READDIRPLUS dirent type for an Entry the         *)
(* filesystem returned, the error field sendError wrote for an error, or *)
(* the InitOut for a FUSE_INIT.                                             *)
VARIABLES
    reply,       \* the reply frame; kind "none" before it is built
    protoMinor,  \* connection.protoMinor
    config,      \* Server.config, or "nil"
    initialized  \* Server.initialized

vars == <<reply, protoMinor, config, initialized>>
initVars == <<protoMinor, config, initialized>>

(* Config, as handleInit fills it in and passes it to fs.Init.            *)
Configs == [protoMajor : {FuseKernelVersion},
            protoMinor : MinSupportedMinor..FuseKernelMinorVersion,
            maxReadahead : {DefaultMaxReadahead} \cup Readaheads,
            maxWrite : {DefaultMaxWrite},
            maxPages : {DefaultMaxPages}]

(* ForgetEntry, as fs.BatchForget receives it.                             *)
ForgetEntries == [ino : {0} \cup ForgetNodes, nlookup : {0, 1}]

Entries == [attr : [mode : FileModes], entryTimeout : Durations,
            attrTimeout : Durations]

(* handleLookup / serializeDirentsPlus: encode the Entry.                  *)
EncodeEntry(e) ==
    /\ reply.kind = "none"
    /\ reply' = [kind |-> "entry", entry |-> e, out |-> entryToProto(e),
                 dtype |-> fileModeToType(e.attr.mode)]
    /\ UNCHANGED initVars

ErrorReply(err) == [kind |-> "error", err |-> err, errno |-> toErrno(err)]

(* sendError: the error field of the reply.                                *)
SendError(err) ==
    /\ reply.kind = "none"
    /\ reply' = ErrorReply(err)
    /\ UNCHANGED initVars

(* handleInit: a major mismatch is answered with our version only.        *)
InitMajorMismatch(in) ==
    /\ in.major # FuseKernelVersion
    /\ reply' = [kind |-> "init", in |-> in,
                 out |-> [major |-> FuseKernelVersion, minor |-> FuseKernelMinorVersion,
                          maxReadahead |-> 0, flags |-> {}, maxBackground |-> 0,
                          congestionThreshold |-> 0, maxWrite |-> 0,
                          timeGran |-> 0, maxPages |-> 0]]
    /\ UNCHANGED initVars

(* Mutant: the reply advertises every supported capability, without the   *)
(* intersection with the kernel's flags.                                   *)
InitFlagsUnmasked(in) == Supported

InitFlags(in) == Supported \cap in.flags

(* handleInit past the version checks: store the negotiated version and   *)
(* Config, call fs.Init, and on success reply and mark the server         *)
(* initialized; a failing fs.Init becomes sendError's reply.               *)
InitNegotiate(in, o, fsErr) ==
    LET opts == WithDefaults(o)
        minor == MinOf(in.minor, FuseKernelMinorVersion)
        cfg == [protoMajor |-> in.major, protoMinor |-> minor,
                maxReadahead |-> MinOf(in.maxReadahead, opts.maxReadahead),
                maxWrite |-> opts.maxWrite, maxPages |-> DefaultMaxPages]
    IN /\ in.major = FuseKernelVersion
       /\ in.minor >= MinSupportedMinor
       /\ protoMinor' = minor
       /\ config' = cfg
       /\ \/ /\ fsErr # NilError
             /\ reply' = ErrorReply(fsErr)
             /\ UNCHANGED initialized
          \/ /\ fsErr = NilError
             /\ reply' = [kind |-> "init", in |-> in, opts |-> opts,
                          out |-> [major |-> FuseKernelVersion, minor |-> minor,
                                   maxReadahead |-> cfg.maxReadahead,
                                   flags |-> InitFlags(in),
                                   maxBackground |-> opts.maxBackground,
                                   congestionThreshold |-> CongestionThreshold(opts.maxBackground),
                                   maxWrite |-> opts.maxWrite,
                                   timeGran |-> DefaultTimeGran,
                                   maxPages |-> DefaultMaxPages]]
             /\ initialized' = TRUE

(* The kernel's FUSE_INIT, with the mount options the Server was built    *)
(* with and the outcome of the filesystem's Init.                          *)
HandleInit(in, o, fsErr) ==
    /\ reply.kind = "none"
    /\ \/ InitMajorMismatch(in)
       \/ /\ in.major = FuseKernelVersion
          /\ in.minor < MinSupportedMinor
          /\ reply' = ErrorReply([errno |-> EPROTO, is |-> "none"])
          /\ UNCHANGED initVars
       \/ InitNegotiate(in, o, fsErr)

(* proto/types.go *)
BatchForgetInSize == 8
ForgetOneSize == 16
EINVAL == 22

(* A BATCH_FORGET body: its length in bytes and the ForgetOne records it  *)
(* holds whole; a body may end in a partial record, or be shorter than    *)
(* BatchForgetIn.                                                          *)
ForgetOnes == [nodeID : ForgetNodes, nlookup : {1}]
ForgetBodies ==
    {[len |-> BatchForgetInSize + ForgetOneSize * Len(s) + t, ones |-> s] :
        s \in UNION {[1..n -> ForgetOnes] : n \in 0..ForgetOnesMax}, t \in {0, 8}}
    \cup {[len |-> l, ones |-> <<>>] : l \in {0, 4}}

ZeroEntry == [ino |-> 0, nlookup |-> 0]

(* The ForgetOne at byte offset off of the body.                           *)
OneAt(body, off) == body.ones[(off - BatchForgetInSize) \div ForgetOneSize + 1]

(* Mutant: the truncation test is off by one and drops a last record that *)
(* ends exactly at the end of the body.                                    *)
RECURSIVE ForgetLoopOffByOne(_, _, _, _, _)
ForgetLoopOffByOne(entries, i, offset, count, body) ==
    IF i >= count \/ offset + ForgetOneSize >= body.len THEN entries
    ELSE LET one == OneAt(body, offset)
         IN ForgetLoopOffByOne([entries EXCEPT ![i + 1] = [ino |-> one.nodeID, nlookup |-> one.nlookup]],
                               i + 1, offset + ForgetOneSize, count, body)

(* handleBatchForget's loop: fill entries[i] from the record at offset    *)
(* while i < Count, and break at the first record that does not fit.      *)
RECURSIVE ForgetLoop(_, _, _, _, _)
ForgetLoop(entries, i, offset, count, body) ==
    IF i >= count \/ offset + ForgetOneSize > body.len THEN entries
    ELSE LET one == OneAt(body, offset)
         IN ForgetLoop([entries EXCEPT ![i + 1] = [ino |-> one.nodeID, nlookup |-> one.nlookup]],
                       i + 1, offset + ForgetOneSize, count, body)

(* entries := make([]ForgetEntry, in.Count), then the loop.                *)
parseBatchForget(count, body) ==
    ForgetLoop([k \in 1..count |-> ZeroEntry], 0, BatchForgetInSize, count, body)

(* handleBatchForget: a body shorter than BatchForgetIn returns EINVAL,    *)
(* which sendError drops for this opcode; otherwise fs.BatchForget gets   *)
(* the parsed entries.  Neither path replies.                              *)
HandleBatchForget(count, body) ==
    /\ reply.kind = "none"
    /\ \/ /\ body.len < BatchForgetInSize
          /\ reply' = [kind |-> "forget", count |-> count, body |-> body,
                       called |-> FALSE, err |-> EINVAL, entries |-> <<>>]
       \/ /\ body.len >= BatchForgetInSize
          /\ reply' = [kind |-> "forget", count |-> count, body |-> body,
                       called |-> TRUE, err |-> 0,
                       entries |-> parseBatchForget(count, body)]
    /\ UNCHANGED initVars

Init ==
    /\ reply = [kind |-> "none"]
    /\ protoMinor = 0
    /\ config = "nil"
    /\ initialized = FALSE

(* Each behaviour builds one reply; the laws below are about every one.   *)
Next ==
    \/ \E e \in Entries : EncodeEntry(e)
    \/ \E err \in Errors : SendError(err)
    \/ \E in \in InitIns, o \in MountOptions, fsErr \in {NilError, FsInitError} :
          HandleInit(in, o, fsErr)
    \/ \E count \in ForgetCounts, body \in ForgetBodies : HandleBatchForget(count, body)

Spec == Init /\ [][Next]_vars

-----------------------------------------------------------------------------
(* The host's reading of a wire mode (os/stat_linux.go fillFileStatFromSys),*)
(* the reference the round-trip laws are stated against.                   *)
UnixToFileMode(m) ==
    LET t == m & ModeTypeMask
        bit(b) == (m & b) # 0
    IN [type |-> CASE t = ModeBlock   -> {"ModeDevice"}
                   [] t = ModeChar    -> {"ModeDevice", "ModeCharDevice"}
                   [] t = ModeDir     -> {"ModeDir"}
                   [] t = ModeFifo    -> {"ModeNamedPipe"}
                   [] t = ModeSymlink -> {"ModeSymlink"}
                   [] t = ModeSocket  -> {"ModeSocket"}
                   [] OTHER           -> {},
        special |-> {s \in GoSpecial :
                       \/ s = "ModeSetuid" /\ bit(ModeSetuid)
                       \/ s = "ModeSetgid" /\ bit(ModeSetgid)
                       \/ s = "ModeSticky" /\ bit(ModeSticky)},
        perm |-> m & 511]

(* The duration the kernel derives from a (sec, nsec) validity pair.      *)
TimespecToDuration(sec, nsec) == sec * Second + nsec

TypeOK ==
    /\ \/ reply.kind = "none"
       \/ /\ reply.kind = "entry"
          /\ reply.entry \in Entries
          /\ reply.out.attr.mode \in 0..65535
          /\ reply.dtype \in {DtFifo, DtChr, DtDir, DtBlk, DtReg, DtLnk, DtSock}
       \/ /\ reply.kind = "error"
          /\ reply.err \in Errors \cup {[errno |-> EPROTO, is |-> "none"]}
          /\ reply.errno \in -4095..0
       \/ /\ reply.kind = "init"
          /\ reply.in \in InitIns
          /\ reply.out.flags \subseteq Supported
          /\ reply.out.congestionThreshold \in 0..65535
       \/ /\ reply.kind = "forget"
          /\ reply.count \in ForgetCounts /\ reply.body \in ForgetBodies
          /\ reply.called \in BOOLEAN
          /\ reply.entries \in Seq(ForgetEntries)
    /\ protoMinor \in {0} \cup (MinSupportedMinor..FuseKernelMinorVersion)
    /\ initialized \in BOOLEAN
    /\ IF protoMinor = 0 THEN config = "nil" ELSE config \in Configs

(* LOOKUP/GETATTR report the type in the S_IF bits of attr.mode, and       *)
(* READDIRPLUS reports it as the dirent's DT_ tag (fileModeToUnix and      *)
(* fileModeToType, two separate switches): for every mode the two say the  *)
(* same type, DT = S_IF >> 12, or the kernel's dcache disagrees with stat. *)
TypeAgreement ==
    reply.kind = "entry" =>
        shiftR(reply.out.attr.mode & ModeTypeMask, 12) = reply.dtype

(* fileModeToUnix keeps the permission and setuid/setgid/sticky bits: the  *)
(* host reads back exactly the bits the filesystem set (spec 8, file-mode  *)
(* round trip, permission part).                                           *)
PermBitsPreserved ==
    reply.kind = "entry" =>
        LET back == UnixToFileMode(reply.out.attr.mode)
            mode == reply.entry.attr.mode
        IN back.perm = mode.perm /\ back.special = mode.special

(* File-mode round trip, type part (spec 8): host mode -> wire mode ->     *)
(* host mode preserves the file type fileModeToUnix encodes, for every     *)
(* kind os.Lstat reports, character devices (ModeDevice|ModeCharDevice)    *)
(* included.                                                               *)
ModeRoundTrip ==
    reply.kind = "entry" =>
        UnixToFileMode(reply.out.attr.mode).type = reply.entry.attr.mode.type

(* Timeout round trip (spec 8), for the timeouts that have one: a        *)
(* non-negative EntryTimeout or AttrTimeout, split by durationToTimespec   *)
(* into whole seconds and a remainder, is read back by the kernel as the   *)
(* same duration, with the nanosecond field below one second.              *)
TimespecRoundTrip ==
    reply.kind = "entry" =>
        \A t \in {<<reply.entry.entryTimeout, reply.out.entryValid, reply.out.entryValidNsec>>,
                  <<reply.entry.attrTimeout, reply.out.attrValid, reply.out.attrValidNsec>>} :
            t[1] >= 0 => /\ TimespecToDuration(t[2], t[3]) = t[1]
                        /\ t[3] < Second

(* Whatever timeout the filesystem returns, the kernel receives a valid   *)
(* timespec: a nanosecond field below one second (a clamping encoding of  *)
(* negative timeouts would give (0, 0)).                                   *)
TimespecValid ==
    reply.kind = "entry" =>
        reply.out.entryValidNsec < Second /\ reply.out.attrValidNsec < Second

(* sendError (part_003) turns a callback failure into the reply's error   *)
(* field; error 0 is a success frame with no payload.  A callback that     *)
(* failed, other than with io.EOF (spec 7: end-of-file is an empty         *)
(* success), never yields error 0.                                         *)
FailureNeverSucceeds ==
    LET err == reply.err
    IN (reply.kind = "error" /\ err # NilError
          /\ ~(err.errno = NoErrno /\ err.is = "EOF")) => reply.errno < 0

(* FUSE_INIT negotiation (spec 8): the server is initialized exactly when *)
(* it sent a full InitOut, which needs major 7 and a minor of at least    *)
(* 26 and a successful fs.Init; a major mismatch is answered with our     *)
(* version and initializes nothing.  A full InitOut carries a minor in    *)
(* [26, 41] no higher than the kernel's, the one the connection stored,   *)
(* only capabilities the kernel offered, and a readahead no larger than   *)
(* the kernel's.                                                           *)
InitNegotiation ==
    /\ initialized <=> (reply.kind = "init" /\ reply.in.major = FuseKernelVersion)
    /\ reply.kind = "init" =>
         /\ reply.out.major = FuseKernelVersion
         /\ initialized =>
              LET in == reply.in
                  out == reply.out
              IN /\ out.minor \in MinSupportedMinor..FuseKernelMinorVersion
                 /\ out.minor <= in.minor
                 /\ protoMinor = out.minor
                 /\ out.flags \subseteq in.flags
                 /\ out.maxReadahead <= in.maxReadahead

(* The congestion threshold the kernel receives is three quarters of the *)
(* MaxBackground it receives, as the defaults (12 and 9) have it.         *)
CongestionIsThreeQuarters ==
    (reply.kind = "init" /\ initialized) =>
        reply.out.congestionThreshold = (reply.out.maxBackground * 3) \div 4

(* The entries a BATCH_FORGET body holds whole, as ForgetEntry values:    *)
(* the first Count records, or all of them if the body is truncated.      *)
RecoveredEntries(count, body) ==
    LET n == MinOf(count, Len(body.ones))
    IN [k \in 1..n |-> [ino |-> body.ones[k].nodeID, nlookup |-> body.ones[k].nlookup]]

(* handleBatchForget's parse of a body of at least BatchForgetIn: the      *)
(* first entries fs.BatchForget receives are exactly the records the body  *)
(* holds whole, in order, up to Count, none read past the end of the body *)
(* nor a whole one dropped, and every entry after them is the zero        *)
(* ForgetEntry make() left there.  A short body reaches no callback.       *)
BatchForgetParsesPrefix ==
    reply.kind = "forget" =>
        /\ reply.called <=> reply.body.len >= BatchForgetInSize
        /\ reply.called =>
             LET rec == RecoveredEntries(reply.count, reply.body)
             IN /\ Len(reply.entries) = reply.count
                /\ SubSeq(reply.entries, 1, Len(rec)) = rec
                /\ \A k \in (Len(rec) + 1)..reply.count : reply.entries[k] = ZeroEntry

(* BATCH_FORGET (spec 8): on a truncated body the parse stops at the      *)
(* boundary and fs.BatchForget is called with the recovered entries, no   *)
(* more.                                                                   *)
BatchForgetGetsRecovered ==
    (reply.kind = "forget" /\ reply.called) =>
        reply.entries = RecoveredEntries(reply.count, reply.body)
====
