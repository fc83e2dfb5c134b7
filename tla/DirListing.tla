------------------------------ MODULE DirListing ------------------------------
(***************************************************************************)
(* Listing one directory through the library: the kernel's getdents loop *)
(* sends READDIR (or READDIRPLUS) with its position and byte budget;      *)
(* handleReaddir asks the filesystem for the entries from that position   *)
(* and serializeDirents packs the ones that fit; the kernel emits a        *)
(* prefix of the records to the user and resumes at the cookie of the     *)
(* last one it emitted, until a reply is empty (end of directory).        *)
(*                                                                         *)
(* The filesystem is a well-behaved one (spec: it honours the offset it   *)
(* emitted before): entry i's cookie is its position i, it returns a      *)
(* non-empty run of the entries after the offset, or none at the end, or *)
(* fails.  Names are abstracted to their lengths, entries to their         *)
(* inode, cookie and generation.                                           *)
(***************************************************************************)
EXTENDS Integers, Sequences, Functions

CONSTANTS
    Ino,         \* the directory in listing order: entry i's inode number
    NameLen,     \* entry i's name length in bytes
    Generation,  \* entry i's Entry.Generation (READDIRPLUS)
    Size,        \* ReadIn.Size, the kernel's byte budget per request
    Modes,       \* which of "readdir", "readdirplus" the kernel may use
    MaxListed    \* bound on the entries the kernel emits in one listing

N == Len(Ino)
Positions == 0..N

ASSUME /\ Len(NameLen) = N /\ Len(Generation) = N
       /\ Modes \subseteq {"readdir", "readdirplus"}
       /\ MaxListed >= N

(* proto/types.go *)
DirentSize == 24
EntryOutSize == 128
DirentPlusSize == EntryOutSize + DirentSize

-----------------------------------------------------------------------------
(* DirEntry and DirEntryPlus as the filesystem fills them in.             *)
DirEntry(i) == [Ino |-> Ino[i], Offset |-> i, nameLen |-> NameLen[i]]
DirEntryPlus(i) == [Entry |-> [Ino |-> Ino[i], Generation |-> Generation[i]],
                    nameLen |-> NameLen[i]]

(* (entrySize + 7) &^ 7 *)
Padded(n) == ((n + 7) \div 8) * 8

(* Mutant: the loop skips an entry that does not fit and goes on to the  *)
(* next (continue for break), so a later, shorter entry is emitted.      *)
RECURSIVE PackSkipsMisfit(_, _, _, _)
PackSkipsMisfit(recs, prefix, used, maxSize) ==
    IF recs = <<>> THEN <<>>
    ELSE LET padded == Padded(prefix + Head(recs).nameLen)
         IN IF used + padded > maxSize
            THEN PackSkipsMisfit(Tail(recs), prefix, used, maxSize)
            ELSE <<[ino |-> Head(recs).ino, off |-> Head(recs).off, len |-> padded]>>
                    \o PackSkipsMisfit(Tail(recs), prefix, used + padded, maxSize)

(* Mutant: the loop stops only once the buffer is already full            *)
(* (len(buf) >= maxSize) instead of testing the record it is about to add.*)
RECURSIVE PackStopsWhenFull(_, _, _, _)
PackStopsWhenFull(recs, prefix, used, maxSize) ==
    IF recs = <<>> THEN <<>>
    ELSE LET padded == Padded(prefix + Head(recs).nameLen)
         IN IF used >= maxSize
            THEN <<>>
            ELSE <<[ino |-> Head(recs).ino, off |-> Head(recs).off, len |-> padded]>>
                    \o PackStopsWhenFull(Tail(recs), prefix, used + padded, maxSize)

(* The loop shared by serializeDirents and serializeDirentsPlus: append   *)
(* each record's padded size while len(buf)+paddedSize <= maxSize, stop   *)
(* at the first that does not fit.  A record is what the kernel parses:  *)
(* the inode, the off cookie and the padded length it occupies.           *)
RECURSIVE Pack(_, _, _, _)
Pack(recs, prefix, used, maxSize) ==
    IF recs = <<>> THEN <<>>
    ELSE LET padded == Padded(prefix + Head(recs).nameLen)
         IN IF used + padded > maxSize
            THEN <<>>
            ELSE <<[ino |-> Head(recs).ino, off |-> Head(recs).off, len |-> padded]>>
                    \o Pack(Tail(recs), prefix, used + padded, maxSize)

serializeDirents(entries, maxSize) ==
    Pack([k \in DOMAIN entries |-> [ino |-> entries[k].Ino,
                                    off |-> entries[k].Offset,
                                    nameLen |-> entries[k].nameLen]],
         DirentSize, 0, maxSize)

(* The Dirent suffix carries entry.Entry.Generation as its off cookie.    *)
serializeDirentsPlus(entries, maxSize) ==
    Pack([k \in DOMAIN entries |-> [ino |-> entries[k].Entry.Ino,
                                    off |-> entries[k].Entry.Generation,
                                    nameLen |-> entries[k].nameLen]],
         DirentPlusSize, 0, maxSize)

-----------------------------------------------------------------------------
VARIABLES
    mode,        \* the request the kernel uses for this directory
    pos,         \* the kernel's file position: the offset of the next request
    kpc,         \* "idle", "wait" (request sent), "replied", "eof", "error"
    reply,       \* the records of the last reply
    listed       \* the inodes emitted to the user, in order

vars == <<mode, pos, kpc, reply, listed>>

(* The runs of entries a well-behaved filesystem may return for offset:  *)
(* a non-empty run starting after it, or none past the end.              *)
Runs(offset) ==
    IF offset \in 0..(N - 1)
    THEN {[k \in 1..n |-> offset + k] : n \in 1..(N - offset)}
    ELSE {<<>>}

(* The kernel sends a request at its current position.                   *)
KernelRequest ==
    /\ kpc = "idle"
    /\ kpc' = "wait"
    /\ UNCHANGED <<mode, pos, reply, listed>>

(* handleReaddir: ReadDir, then an error reply, or serializeDirents and   *)
(* sendResponse.                                                           *)
HandleReaddir ==
    /\ kpc = "wait" /\ mode = "readdir"
    /\ \/ \E run \in Runs(pos) :
             /\ reply' = serializeDirents([k \in DOMAIN run |-> DirEntry(run[k])], Size)
             /\ kpc' = "replied"
       \/ /\ kpc' = "error"
          /\ UNCHANGED reply
    /\ UNCHANGED <<mode, pos, listed>>

(* handleReaddirplus: ReadDirPlus, then serializeDirentsPlus.             *)
HandleReaddirplus ==
    /\ kpc = "wait" /\ mode = "readdirplus"
    /\ \/ \E run \in Runs(pos) :
             /\ reply' = serializeDirentsPlus([k \in DOMAIN run |-> DirEntryPlus(run[k])], Size)
             /\ kpc' = "replied"
       \/ /\ kpc' = "error"
          /\ UNCHANGED reply
    /\ UNCHANGED <<mode, pos, listed>>

(* The kernel parses the reply: an empty one is end of directory; else it *)
(* emits the records the user's buffer takes (at least one) and moves its *)
(* position to the cookie of the last one emitted.                        *)
KernelEmit ==
    /\ kpc = "replied"
    /\ \/ /\ reply = <<>>
          /\ kpc' = "eof"
          /\ UNCHANGED <<pos, listed>>
       \/ /\ reply # <<>>
          /\ Len(listed) < MaxListed
          /\ \E j \in 1..Len(reply) :
                /\ Len(listed) + j <= MaxListed
                /\ listed' = listed \o [k \in 1..j |-> reply[k].ino]
                /\ pos' = reply[j].off
                /\ kpc' = "idle"
    /\ UNCHANGED <<mode, reply>>

Init ==
    /\ mode \in Modes
    /\ pos = 0
    /\ kpc = "idle"
    /\ reply = <<>>
    /\ listed = <<>>

Next == KernelRequest \/ HandleReaddir \/ HandleReaddirplus \/ KernelEmit

(* The kernel's loop and the server's handler run to completion.          *)
Spec == Init /\ [][Next]_vars /\ WF_vars(Next)

-----------------------------------------------------------------------------
Dir == Ino

(* A listing through READDIR ends with the kernel having emitted every   *)
(* entry of the directory exactly once and in order, unless the          *)
(* filesystem fails: the cookies serializeDirents writes, the records it *)
(* leaves out of a full reply and the kernel's partial consumption must  *)
(* together neither skip nor repeat an entry (spec: an entry that does   *)
(* not fit is not emitted; the filesystem is called again at the next    *)
(* offset).                                                               *)
ListingCompletes ==
    mode = "readdir" => <>(kpc = "error" \/ (kpc = "eof" /\ listed = Dir))

(* Bytes of a reply: the sum of its records' padded lengths.              *)
ReplyBytes(r) == FoldFunction(LAMBDA rec, acc : rec.len + acc, 0, r)

(* Every READDIR and READDIRPLUS reply, from whatever offset the kernel   *)
(* resumes at, fits the kernel's budget ReadIn.Size and consists of whole *)
(* 8-byte aligned records (serializeDirents, serializeDirentsPlus: the     *)
(* kernel rejects a reply larger than the request's size).                *)
ReplyWithinBudget ==
    /\ ReplyBytes(reply) <= Size
    /\ \A k \in DOMAIN reply : reply[k].len % 8 = 0

(* The same for every request mode the kernel may use.                    *)
EveryListingCompletes ==
    <>(kpc = "error" \/ (kpc = "eof" /\ listed = Dir))
====
