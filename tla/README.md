# TLA+ models of rofuse

rofuse is a read-only FUSE server library for Go. It speaks the kernel's
FUSE protocol on `/dev/fuse` directly. This directory holds TLA+ models of
its behaviour, the TLC configurations that check them, and `PROJECT.json`,
which maps every model definition to the source lines it translates.

Source locations below refer to `src/`. Several files have lost their
names: `unnamed/part_000` is the connection, `part_001` the `Filesystem`
interface, `part_002` the multi-process coordinator, and `part_003` the
opcode table plus the `Server`. Lines 254-811 of `src/README.md` hold the
handler file (the handler table, every `handleX`, the serializers).

## 1. Inventory

### Components, their state and operations

| Component | Source | State | Operations |
|---|---|---|---|
| Server | part_003 | `conn`, `config`, `bufPool`, `ctx`/`cancel`, `wg`, `initialized`, `destroyed` (under `mu`) | `Mount`, `Serve`, `handleRequest`, `sendError`, `sendResponse`, `Unmount`, `Wait`, `Fd` |
| Connection | part_000 | `fd`, `mounted`, `writeMu`, negotiated `protoMajor`/`protoMinor` | `readRequest`, `writeResponse`, `close`, `Fd`; `request.release`, `filename`, `body`; `newResponse`, `newErrorResponse` |
| Buffer pool | buffer.go | a `sync.Pool` of fixed-size buffers | `get`, `put` (drops buffers of the wrong size) |
| Dispatcher | src/README.md 254-811 | the static `handlers` map | 18 handlers; `isWriteOp` refusal (EROFS); ENOSYS for the rest |
| Serializers | src/README.md 662-811, mount.go 339-420 | none | `serializeDirents`, `serializeDirentsPlus`, `entryToProto`, `fileModeToUnix`, `fileModeToType`, `durationToTimespec` |
| Error mapping | mount.go 433-477 | none | `toErrno` |
| Filesystem | part_001 | the user's | 16 callbacks; `FilesystemBase` defaults |
| Mount helpers | mount.go 1-227 | none | `mount`, `mountDirect`, `mountFusermount`, `unmount` |
| Clone | sharing/clone.go | none | `CloneFuseFD` (open + ioctl), `CloneMultiple`, `CloseAll` |
| FD passing | sharing/fdpass.go | listener | `SendFD`, `ReceiveFD` (SCM_RIGHTS), `ConnectAndReceiveFD` |
| Coordinator | part_002 | `workers` map by pid (`workersMu`), `closed` (`closeMu`), listener, master fd | `AcceptWorker`, `RemoveWorker`, `Workers`, `Close`, `Worker.Close`; `ConnectToCoordinator`, `WorkerClient.Close/CloseFd` |
| Wire format | proto/ | constants and fixed records | none |

### How they interact

The kernel writes request frames into `/dev/fuse`. `Serve` runs one loop
goroutine. It checks `s.ctx`, takes a buffer from the pool, and reads one
frame. It then starts a goroutine per request (`s.wg.Add(1)`). That worker
runs `handleRequest`. Write opcodes are refused with EROFS. Opcodes with no
handler get ENOSYS. Otherwise the handler decodes the body, calls the
filesystem, and answers through `sendResponse` or `sendError`. Both write
under `writeMu`. `sendError` never answers FORGET or BATCH_FORGET, and
INTERRUPT's handler answers nothing. The worker then returns the buffer to
the pool and calls `wg.Done`.

`Unmount` runs on a user goroutine (in the README example, a signal
handler). It cancels `s.ctx`, unmounts, and closes the descriptor. The
coordinator hands clones of the descriptor to worker processes over a unix
socket. Each worker process runs its own `Server` on its clone.

### What is hard

- **Concurrency.** The read loop, an unbounded number of workers, and
  `Unmount` share the descriptor number, the pool and the context. The
  connection's `close` and `c.fd` are not synchronized with them.
- **Shutdown ordering.** Cancellation, kernel abort (ENODEV), descriptor
  close and worker completion happen in an order nobody controls.
- **Reply discipline.** Each unique gets one reply, or none for the
  FORGET family and INTERRUPT, whatever the handler's error path.
- **Byte budgets.** Directory serialization must not exceed the kernel's
  size and must not split a record. Its offset cookies drive the kernel's
  resume loop.
- **Descriptor lifetime across processes.** There are clone, send,
  receive and close paths on both sides, a table keyed by pid, and a
  `Close` that races `AcceptWorker`.
- **One descriptor table per process.** Linux hands out the lowest free
  number. A close that runs late (a finalizer, an unlocked second
  `Worker.Close`) therefore hits whatever another component opened since,
  so mount and the coordinator must be checked together.

### Properties that make each component correct

- Server/connection: at most one frame per unique, and none for
  FORGET/BATCH_FORGET/INTERRUPT. Every answered request gets its answer
  unless the connection is aborted. No read or write reaches a file other
  than `/dev/fuse`. `Serve` returns nil when stopped by `Unmount`.
- Pool: every buffer is in exactly one place, which is the pool, the
  reader, or one request.
- Dispatcher: the INIT reply's flags are a subset of the kernel's, and its
  minor version is in [26, 41]. BATCH_FORGET passes the complete prefix of
  a truncated body.
- Serializers: the output length is at most the size budget, records are
  8-byte aligned, and they are the longest prefix that fits. The
  READDIRPLUS cookies let the kernel list a directory exactly once. The
  wire type of every file mode matches the kernel's S_IF/DT tables.
- Coordinator: every cloned descriptor is closed exactly once, or is still
  held by a tracked worker. After `Close`, no worker stays tracked. A
  worker that registered eventually receives its descriptor.
- Process: no close(2) of mount, its finalizer or the coordinator hits a
  number another owner holds.

The hazards these properties aim at are listed, each at the line where it
bites, under `hazards` in `PROJECT.json`.

## 2. Plan

Done:
- FuseServer, with concurrent `Unmount` callers;
- WireConvert, including INIT negotiation and BATCH_FORGET parsing;
- MountFd and Coordinator, and CoordinatorProcess composing them over
  one descriptor table;
- FdHandoff and its abstract specification HandoffAbstract;
- DirListing;
- FuseChannel, the abstract request/reply channel that FuseServer refines.

## 3. Modules and runs

### FuseServer and FuseChannel (`FuseServer.tla`, `FuseChannel.tla`, `MCFuseServer.tla`)

The variables map to the code as follows:

| Variable | Code |
|---|---|
| `queue`, `req`, `kinit`, `dev`, `unmounted` | the kernel side: frames not yet read, each unique's opcode and the input that picks its path, INIT progress, connection aborted, unmount syscall done |
| `connFd`, `fdSlot` | `connection.fd` (3 or -1), and which open file number 3 currently names (`/dev/fuse`, free, or another file) |
| `rpc`, `rbuf`, `serveErr` | the `Serve` goroutine's position, the buffer `readRequest` holds, and `Serve`'s result |
| `wpc`, `frame`, `owner` | per-request worker goroutine: position, the frame it will write, its pool buffer |
| `pooled`, `allocated` | `sync.Pool` contents and the buffers its `New` created |
| `cancelled`, `upc` | `s.ctx` cancelled; the position of each goroutine in `Unmounters` that calls `Unmount` |
| `replies`, `stray`, `strayRead`, `strayClose` | what the kernel received per unique, and a write, read or `close` that reached another file |

Each action is a whole code step between two points where another
goroutine can interleave:

- `ServeCheckCtx` is the `select`.
- `ReadRequestStart` is `pool.get` plus the read syscall resolving `c.fd`
  (EBADF, another file, or blocking on `/dev/fuse`).
- `ReadRequestReturn` is ENODEV, or a request handed to a new worker.
- `ReadInterrupted` is EINTR.
- `HandleRequest` is `handleRequest` up to the filesystem call, via the
  `Dispatch` operator.
- `FsReturn` is the callback returning plus the rest of the handler, via
  `AfterFs`.
- `WriteResponse` is `writeResponse` under `writeMu`.
- `Release` is the deferred `release` plus `wg.Done`.
- `UnmountCancel(u)`, `UnmountSyscall(u)`, `ConnClose(u)` and
  `ConnClearFd(u)` are the four steps of `Unmount` called by goroutine
  `u`. `connection.close` tests `c.fd >= 0`, closes and only then sets
  `c.fd = -1`, with no lock, so two callers can both pass the test.

The kernel (`KernelSend`, `KernelAbort`) and another goroutine's `open`
(`OtherOpen`) are the environment. The kernel sends INIT first, and other
opcodes only after INIT succeeded. It sends DESTROY only after the unmount
syscall.

What is abstracted: the bytes of frames (a frame is "ok" or "err"), the
filesystem (each callback returns success or an error
nondeterministically), and opcodes that share a control path (LOOKUP
stands for every handler that calls the filesystem and answers). A read
from a reused descriptor ends the loop (`eof`); with 40 or more bytes the
code would instead dispatch garbage, which is equally a stray read.
INIT's negotiation is reduced to three input classes: bad major, minor
below 26, and acceptable.

Runs:

- `server_safety` (`MCFuseServer.cfg`) checks `TypeOK`, `ReplyDiscipline`
  and `BufferOwnership`. It uses INIT plus two requests drawn from LOOKUP,
  FORGET, BATCH_FORGET (full or truncated), INTERRUPT, WRITE, GETXATTR
  (no handler), FLUSH and DESTROY, with three kernel version classes, four
  buffers (a symmetry set) and `Unmount` at any point. Two concurrent
  workers are the smallest number at which reply and buffer interleavings
  appear; every dispatch path occurs. It passes with about 3.1M distinct
  states in about 2 minutes.
- `server_liveness` (`MCFuseServerLive.cfg`) checks `ChannelRefinement`:
  FuseServer implements FuseChannel (`FuseChannel.tla`), the kernel's view
  of /dev/fuse. In FuseChannel the kernel issues uniques while the
  connection is live. The daemon answers each exactly once, in any order,
  never answers FORGET, BATCH_FORGET or INTERRUPT, and (weak fairness
  on `Answer`) does answer while the connection lives. The refinement
  mapping is:
  - `issued` is `req[r].op`;
  - `answers` is `replies`, the frames the kernel received;
  - `live` is `dev = "live"`.

  A second frame for a unique, a frame for INTERRUPT, or a request left
  unanswered on a live connection each breaks it. The run has INIT plus
  two requests of LOOKUP/INTERRUPT/DESTROY and passes with about 0.8M
  states in about 75 seconds.
  Both passing runs use one `Unmount` caller.
- `server_unmount` (`MCFuseServer_CleanUnmount.cfg`, expected violation)
  checks `CleanUnmount`: no read, write or close reaches another file, and
  `Serve` returns nil. It uses two `Unmount` callers, and TLC finds it
  broken three ways:
  - `Unmount` closes number 3 while the read loop is past its ctx check,
    or while a worker has not written yet. Another open reuses the
    number, and the read or the reply frame reaches that file.
  - Two `Unmount` calls both pass `c.fd >= 0`. The first closes 3 and
    another open reuses it, then the second closes that file.
  - `Unmount` cancels first, so `Serve`'s ctx check returns
    `context.Canceled` rather than nil.

  Each is reachable on its own: an invariant on `strayClose` alone is
  violated after 8 steps.

Fairness: every goroutine step of the loop, the workers and a started
`Unmount` is weakly fair, because Go's scheduler is preemptive. Filesystem
callbacks are assumed to return, which is the library's documented
expectation of the filesystem. `ReadRequestReturn` is strongly fair: EINTR
(`ReadInterrupted`, not fair) may interrupt a read, but not every time.
`KernelAbort` is weakly fair, because after the unmount syscall and the
close of the last descriptor the kernel aborts the connection. The kernel
sending and the user calling `Unmount` are not fair, since neither is
obliged to happen.

Deadlock checking is off in these runs. Once the bounded kernel has sent
everything, the real server sits blocked in `read(2)`, which is the
intended idle state.

### WireConvert (`WireConvert.tla`, `MCWireConvert.tla`)

These are the pure conversions from the filesystem's Go values to wire
records:

- `fileModeToUnix` and `fileModeToType` (mount.go);
- `durationToTimespec`, plus `entryToProto` and `attrToProto`;
- `toErrno` and `sendError`'s use of it.

The module also has two handlers whose work is mostly data conversion:

- `handleInit`'s negotiation, with the constants of `proto/init.go` and
  the `Mount` defaults;
- `handleBatchForget`'s parse of the body.

The variable `reply` is what the library produced for one input. For
INIT, `protoMinor`, `config` and `initialized` are what the handler
stores. The actions are:

- `EncodeEntry(e)`: a LOOKUP-style reply for one Entry value;
- `SendError(err)`: an error reply for one callback error;
- `HandleInit(in, o, fsErr)`: the major mismatch, EPROTO, and the
  negotiation with fs.Init succeeding or failing;
- `HandleBatchForget(count, body)`: a short body (EINVAL, dropped by
  `sendError`) or the call to `fs.BatchForget`.

Each behaviour builds one reply and stops, which is why deadlock checking
is off. A state is thus one input with its result, and each invariant is
a law over every input. The BATCH_FORGET loop is the `RECURSIVE` operator
`ForgetLoop`, with `make`'s zero entries as its starting value.

Go's modes are modelled as sets of flag names (`ModeDir`,
`ModeCharDevice`, ...). Permissions are kept as numbers and bit
operations come from `Bitwise`. `time.Duration` arithmetic uses Go's
truncating division (`GoQuo`, `GoRem`). The uint64 and uint32 fields
wrap, but TLC's integers are 32-bit, so time is scaled: `Second = 4`,
uint32 wraps at 8 and uint64 at 32. The code relies only on
`0 < Second <= 2^32`, and the scaling keeps that.

- `wire_convert` passes with six properties:
  - `TypeOK`;
  - `TypeAgreement`: the `S_IF` type and the `DT_` type name the same kind;
  - `PermBitsPreserved`: the permission and setuid/setgid/sticky bits
    survive;
  - `TimespecRoundTrip`: a non-negative timeout is read back by the
    kernel as the same duration, with the nanosecond field below one
    second;
  - `InitNegotiation`: the server is initialized exactly when it sent a
    full InitOut, whose minor is in [26, 41], no higher than the kernel's
    and equal to the stored one, and whose flags and readahead are within
    the kernel's;
  - `BatchForgetParsesPrefix`: `fs.BatchForget` gets exactly the whole
    records of the body up to Count, then zero entries.

  Its inputs are:
  - 2 permission patterns, 4 durations (-5 and -1 units, zero, and 5,
    one second plus a remainder) and 2 errnos;
  - majors 6, 7 and 8, and minors 25, 26, 36, 41 and 42;
  - two readaheads, five kernel capabilities and MaxBackground 0, 12
    and 40000;
  - Count 0 to 3 against bodies of up to two whole records, with and
    without a partial tail, plus bodies shorter than 8 bytes.

  It reaches 4071 states.
- `wire_roundtrip` (expected violation, `MCWireConvert_ModeRoundTrip.cfg`)
  checks `ModeRoundTrip`: host mode, then wire mode, then host mode keeps
  the file type. A character device has `ModeDevice|ModeCharDevice` as
  its `mode.Type()`, so no case of the switch matches. It is sent as
  S_IFREG (and DT_REG), and the host reads back a regular file.
  `TypeAgreement` cannot see this, because both switches agree on
  "regular".

Four more disagreements with the spec are checked by configurations
kept beside these runs, each with one property:
- `MCWireConvert_NegativeTimeout.cfg` (`TimespecValid`): a timeout
  between -1 second and 0 gets a nanosecond field of 2^32 - k. Below
  -1 second, the seconds field wraps to 2^64 - k. No pair of unsigned
  fields gives back a negative duration; a clamping encoding would send
  (0, 0).
- `MCWireConvert_Errno0.cfg` (`FailureNeverSucceeds`): a non-nil
  `syscall.Errno(0)` is sent as error 0, which is a success.
- `MCWireConvert_Congestion.cfg` (`CongestionIsThreeQuarters`):
  MaxBackground 40000 gives a threshold of 13616, not 30000, because it
  is computed in uint16.
- `MCWireConvert_BatchForget.cfg` (`BatchForgetGetsRecovered`): a
  truncated body gives `fs.BatchForget` Count entries with a zero-padded
  tail, not only the recovered ones.

### MountFd (`MountFd.tla`)

This module covers `mount`, `mountDirect` and `mountFusermount`. They
are modelled through the descriptor table they change, not their
syscalls' arguments:

- `fds` maps each number to its object;
- allocation takes the lowest free number, as Linux does.

Each action is one code step:

- `MountStat`;
- `DirectOpen`, `DirectMount`;
- `Socketpair`, `FusermountStart`, `FusermountWait`, `Recvmsg`;
- `DeferClose`.

The environment has three actors:

- the fusermount child (`FusermountRun`);
- the garbage collector (`Finalize`). It runs the finalizer of the
  `os.File` that `cmd.ExtraFiles` wraps around `fds[0]`, which closes
  that number;
- other goroutines opening files (`OtherOpen`).

- `mount_fd` passes with `NoLeak`: once mount() returns, no socket end
  and no stray /dev/fuse descriptor is open. It runs with `MaxFd = 6`
  (stdio, a socket pair, the FUSE fd and two other files) and reaches
  251 states.
- `NoForeignClose` is broken by the deferred `syscall.Close(fds[0])`
  and the `os.File` finalizer: both close `fds[0]`, and whichever runs
  second closes a number that another goroutine's open, or the received
  FUSE descriptor, may already have reused. `MCMountFd_NoForeignClose.cfg`
  shows it for mount alone; the `process_descriptors` run below checks it
  in the composed process.

Objects in `fds` are `<<kind, owner>>` pairs, the same representation as
Coordinator's, so that CoordinatorProcess can share one table.

### Coordinator (`Coordinator.tla`, `MCCoordinator.tla`)

This module covers part_002 and sharing/clone.go: `AcceptWorker`,
`Close`, `RemoveWorker`, `Worker.Close` and `CloneMultiple`/`CloseAll`.
Each is split at its lock acquisitions and blocking calls:

- `AcceptCheckClosed`, `AcceptUnix`, `AcceptDecode`, `AcceptClone`,
  `AcceptSend`, `AcceptRegister`;
- `CloseSetClosed`, `CloseLock`, `CloseNextWorker`, `CloseWorkerDone`,
  `CloseListener`;
- the `WC*` steps of `Worker.Close`, run per caller.

Three goroutines call `Worker.Close`:

- `Close`;
- a remover (`RemoveWorker`);
- a holder, the user's goroutine that got the worker from
  `AcceptWorker`.

Worker processes dial as environment (`WorkerDial`). `fds` again maps
numbers to `<<kind, owner>>`. `lnr` is the listener's number (`NoFd`
once `Close` closed it), and `Listening` says the listener is still
open. Init has the master fd at 3 and the listener at 4; `InitState` is
every other variable as `NewCoordinator`'s struct literal leaves it.

- `coordinator` passes with two invariants. `AcceptErrorReleases`: a
  failed `AcceptWorker` leaves neither its connection nor its clone
  open. `CloneMultipleAllOrNothing`: a failed `CloneMultiple`, or one
  followed by `CloseAll`, leaves no clone open. The run has 2 pids, 2
  dials, `CloneCount = 2` and `MaxFd = 10`. It reaches 5.2M states in
  about a minute.
- `ClosedCoordinatorReleasesAll` and `NoForeignClose` together say
  that closing the coordinator releases every descriptor it handed out
  exactly once. "At least once": once `Close` has returned and the
  accept loop stopped, no worker is tracked and every open clone is
  being closed. "At most once": no close hits a number that another
  owner reuses. Three code paths break it:
  - `AcceptWorker` passes its `closed` check, `Close` runs, and the
    worker is then registered into the emptied map;
  - a second worker with the same pid overwrites the map entry, and its
    clone is never closed;
  - `Worker.Close` checks `closed` without a lock, so `Close` and the
    holder both pass the check, and the second `syscall.Close` hits a
    reused number.

  `MCCoordinator_ReleasesExactlyOnce.cfg` and
  `MCCoordinator_NoForeignClose.cfg`, kept beside the run, show the
  registration race and the double close in the coordinator alone. The
  run that counts is `process_descriptors` below.

There is no fairness, since every property is a safety property.

### CoordinatorProcess (`CoordinatorProcess.tla`, `MCCoordinatorProcess.tla`)

The package README sets up multi-process serving as `Mount`, then
`sharing.NewCoordinator(sockPath, server.Fd())`. CoordinatorProcess
composes the two modules over that process:

- `Mnt == INSTANCE MountFd` and `Crd == INSTANCE Coordinator`. Their
  variables of the same name are substituted implicitly, so `fds` (the
  descriptor table) and `foreignClose` are shared.
- `MountStep` is any MountFd step. After `mount()` has returned, this is
  only the finalizer and other goroutines' opens.
- `NewCoordinator` is enabled once `Mount` returned a descriptor. It runs
  `NewFDPasser`, whose `net.ListenUnix` socket takes the lowest free
  number into `lnr`, or it fails and no coordinator exists.
- `CoordinatorStep` is any Coordinator step once one exists.

`process_descriptors` (expected violation) checks
`DescriptorsReleasedOnce`: no close in the process hits another
owner's number, and a closed coordinator holds no clone. The instance
has one pid, two worker processes dialing, one clone and `MaxFd = 9`.
TLC's shortest trace is mount's own double close of `fds[0]`:

1. the socket pair takes 3 and 4;
2. the finalizer of cmd's `os.File` closes 3 while mountFusermount waits;
3. recvmsg receives the FUSE descriptor at 3;
4. the deferred `syscall.Close(fds[0])` closes it.

The composed case is reachable too, as an auxiliary invariant confirmed:

1. fusermount succeeds with the socket pair at 3 and 4;
2. recvmsg puts the FUSE descriptor at 5, and the deferred close frees 3;
3. `net.ListenUnix` in `NewFDPasser` takes 3;
4. the finalizer then closes the coordinator's listener.

After that, every `AcceptWorker` fails. Auxiliary invariants also
confirmed that the coordinator's own races (see Coordinator) reach the
same violation in this instance:
- the registration after `Close`;
- the second worker registered under the same pid, overwriting the
  first;
- the unlocked double `Worker.Close`.

### FdHandoff and HandoffAbstract (`FdHandoff.tla`, `HandoffAbstract.tla`, `MCFdHandoff.tla`)

This module covers the byte stream between `AcceptWorker` (the sender)
and a worker process. The worker takes one of two paths, chosen by the
constant `Modes`:

- `ConnectAndReceiveFD`, "plain" mode;
- `ConnectToCoordinator`, "gob" mode.

`down` is the sequence of segments the sender wrote: a gob record
("ok"/"err") or the one-byte message carrying SCM_RIGHTS ("rights").
`gob.NewDecoder` wraps the conn in a `bufio.Reader`. The recursive
`ReadPrefix` models the kernel's stream read: it takes queued bytes up
to and including the first SCM_RIGHTS message. A read with no control
buffer discards the descriptor (`lost`).

- `handoff` passes with both modes and two workers, reaching 3055
  states. It checks:
  - `WorkerFailureReleases`: a worker that failed has closed its
    connection;
  - `HandoffRefinement`. `HandoffAbstract` is the promise: the
    descriptor is sent at most once, a worker ends exactly once, it
    holds the descriptor only after it was sent, and a worker in
    `eager` must end. The mapping is `Sent(w)`, `Outcome(w)` and
    `eager` = the plain-mode workers. The abstract `Spec`, fairness
    included, is checked as a PROPERTY, so every plain-mode worker
    (`ConnectAndReceiveFD`, recvmsg only) ends holding the descriptor
    or with an error.
- `handoff_gob_liveness` (expected violation) checks `HandoffCompletes`
  in gob mode. The worker's gob decoder reads the response record and,
  in the same buffered read, the SCM_RIGHTS byte, so the kernel drops
  the descriptor. The worker then blocks in `recvmsg` forever.

Fairness: each worker's and each sender's steps are weakly fair, since
these are running processes and goroutines. `WorkerRelease` (the
coordinator's user closing the worker) is not fair, because nothing
obliges the user to do it. Deadlock checking is off for the same reason.

### DirListing (`DirListing.tla`, `MCDirListing.tla`)

This module covers listing one directory: the kernel's getdents loop
against `handleReaddir`/`handleReaddirplus` and the serializers.
`serializeDirents` and `serializeDirentsPlus` share their loop, which is
the RECURSIVE operator `Pack`. `Pack` appends a record while
`len(buf)+paddedSize <= maxSize` and stops at the first record that does
not fit. The two serializers differ only in the record prefix (24 or
152 bytes) and in what they write as the `off` cookie: `Offset`, or the
entry's `Generation`.

The filesystem honours the offset, as the interface asks. Entry i's
cookie is i. For a given offset it returns a non-empty run of the
following entries, nothing past the end, or an error. The kernel
(`KernelRequest`, `KernelEmit`) emits any non-empty prefix of a reply,
since the user's buffer may fill, and resumes at the last emitted
cookie. An empty reply is end of directory. Names are abstracted to
their lengths.

- `dirlist` passes with two properties:
  - `ReplyWithinBudget`: every reply, from any resume offset, consists of
    whole 8-byte-aligned records whose total fits `ReadIn.Size`;
  - `ListingCompletes`: a READDIR listing ends with every entry emitted
    exactly once and in order, unless the filesystem fails.

  A loop that tests the length before appending, without adding the new
  record, overflows the budget. Testing the unpadded size can never
  overflow an 8-aligned budget, so it is not checked. The instance has five entries of padded sizes 72, 64, 72, 32
  and 32 under a 200-byte budget, so replies are cut before a long
  record that a short one follows. The kernel takes up to 7 entries
  (`MaxListed`), which is more than the 5 that a correct listing emits.
  READDIRPLUS listings are explored as well, so its handler fires. The
  run reaches 118 states.
- `dirlist_plus` (expected violation, `MCDirListing_Plus.cfg`) shows the
  source bug the spec acknowledges: READDIRPLUS writes the generation (0) as the
  cookie, so the kernel returns to offset 0 and emits the first entry
  again until the bound (`EveryListingCompletes` fails).

Fairness is weak fairness on the whole loop: the kernel keeps reading
until end of directory, and the handler answers.

### Not modelled, and why

- `mountDirect`/`mountFusermount` option strings, `unmount`'s
  command-line fallbacks and `LookPath` are argument building with no
  control that the properties tell apart.
- Byte layout of wire records, `filename`, and the `*Bytes` encoders are
  data layout with no control. They are left to unit tests.
- The type declarations (`Attr`, `Entry`, `DirEntry`, `OpenFlags`,
  `StatFS`, `Config` in mount.go, and the records of proto/types.go) and
  the error variables declare data and change no state, so no action
  stands for them.
- `Context` (context.go) has no operation that changes state. `newContext`
  builds an immutable value from the request header and the server's
  context, and cancellation is FuseServer's `cancelled`. `FilesystemBase`
  holds no state.
- A failing `writeResponse` (part_003:309) is ignored by the code. The
  model delivers every write to whichever file number 3 names. When the
  kernel cannot parse a frame, it still ends the request with EIO.
  ENOENT means the kernel no longer waits for that unique. A dropped write
  error therefore leaves no request unanswered that the model could tell
  apart.
- FUSE_INTERRUPT has no effect in the code, which the spec acknowledges.

Every run takes under two and a half minutes on two workers, and
`PROJECT.json` lists a mutant for every property of every passing run.
