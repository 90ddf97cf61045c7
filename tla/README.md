# A TLA+ model of p9cpu

p9cpu runs a command on a remote machine with the files of the local one. The
client (`p9cpu`) asks the daemon (`p9cpud`) to start a command, serves its own
file system over 9P2000.L for the remote kernel to mount, and forwards the
standard streams in both directions. Everything travels over gRPC.

This directory models the parts of the repository in which several tasks,
processes and machines interact, checks them with TLC on small instances, and
proves with TLAPS the safety of the session table, the streams, the 9P relay
and dispatcher, unpfs, and client, server and launcher together, for every value
of the constants. `PROJECT.json` maps every definition to the lines it stands for.

    tlc -workers 2 -config <run>.cfg <module>     # a run of the table below
    tlapm <module>.tla                            # the proofs, in these modules:

    SequenceLemmas   SessionServerProofs   StdioProofs   SystemProofs
    NinepSrvProofs   NinepRelayProofs   LocalTreeProofs   UnpfsProofs

## The system

### Components

| Component | State | Operations | Interacts with |
|---|---|---|---|
| Session table of the server (`libp9cpu/src/server.rs`) | `pending`, `sessions`, and in each session the child, its pipes and the vector of task handles; each behind a tokio `RwLock` | `dial`, `ninep_forward`, `start`, `stdin`, `stdout`, `stderr`, `wait` | every RPC is a task of its own; `start` spawns the launcher and waits for it to connect |
| Standard streams (`server.rs`, `client.rs`, `rpc_client.rs`) | a pipe, an mpsc channel and a gRPC stream in each direction | `copy_to`, `Server::stdin`, `setup_stdio`, `copy_stream`, `RpcClient::stdin`, both `wait`s | the child, the user's terminal |
| 9P relay (`server.rs`, `client.rs`) | a TCP socket to the kernel, channels of 10 and 1 items, the rest of a partly consumed item | the task of `ninep_forward`, `StreamReader`, `SenderWriter` | the kernel on one side, the 9P server on the other |
| 9P dispatcher (`9p/src/srv.rs`) | the fid table behind an `RwLock` | `dispatch`, `dispatch_once` | one task for each request; calls the file system under the read lock |
| 9P encoding (`9p/src/serialize.rs`, `fcall.rs`) | none | `encode`, `decode` of 57 messages | the dispatcher |
| unpfs (`9p/src/unpfs.rs`) | per fid a path and an open file, each with its lock | the 9P operations | the local file system |
| Client life cycle (`client.rs`) | `session_info`, the terminal's mode | `dial`, `start`, `wait` | all of the above |
| Launcher (`launcher.rs`) | namespaces and mounts of the process | `connect`, mounts, `exec` | `start` |
| Commands and namespaces (`cmd.rs`, `lib.rs`) | none | builders, `parse_namespace`, `parse_fstab_line` | the two programs |

### What is hard in it

* **Concurrency.** Handlers interleave at each `.await`. `start` holds the lock
  of `sessions` over several of them, `stdout` and `wait` look the same session
  up twice, `dispatch_once` drops the read lock before it takes the write lock.
* **Everyone waiting on everyone.** `wait` waits for the child and the tasks,
  the tasks for pipes, channels and the network, the child for its stdin. The
  relay has one loop for both directions and bounded queues on both sides.
* **Failure.** A client may vanish at any `.await` and its handler's future is
  dropped; the connection may break; the launcher may die before or after it
  connects; nobody may connect to the 9P listener within its 60 seconds.
* **Framing.** 9P messages are cut into buffers of 128 bytes, gRPC items and
  partial reads, and put together again.
* **Names.** A fid is a path that every operation resolves anew, while the
  client, other requests and the processes of the local machine rename, remove
  and create; a directory is listed by counting its entries.
* **Half-done work.** `rlcreate`, `rmkdir` and `rsetattr` are several system
  calls long, a write is answered before it is done, the launcher mounts, gives
  up its rights and executes after `start` has returned.

The full list, line by line, with the properties that cover each entry, is
under `hazards` in `PROJECT.json`.

## The modules

### SessionServer, SessionLifecycle, MCSessionServer

`SessionServer` is `server.rs` with its two maps and four kinds of lock. One
action stands for the code between two `.await`s that can block. Each call
(`Starts`, `Waits`, `Streams`, `Forwards`) is used once and keeps its program
counter and its local variables in a record:

| Code | Actions |
|---|---|
| `dial` | `Dial` |
| `ninep_forward`, up to the spawned task | `NinepForward`, `ForwardEnds` |
| `start` | `StartTakesPending` or `StartNotPending`; `StartLaunches` or `StartFails` (write lock of `sessions`); `StartInserts` or `StartSendFails` (after `accept`) |
| `stdout`, `stderr` | `StreamCalled`, `StreamGets` (spawns `copy_to`), `StreamGetsHandles`, `StreamPushes`, `StreamNoSession`, `CopyEnds` |
| `stdin` | `StreamCalled`, `StreamGets`, `StdinLocks`, `StdinEnds` |
| `wait` | `WaitCalled`, `WaitGetsChild`, `WaitChildDone`, `WaitGetsHandles`, `WaitLocksHandles`, `WaitJoins` (one handle) or `WaitPanics`, `WaitUnlocksHandles`, `WaitRemoves`, `WaitNoSession` |
| a handler's future is dropped | `StartCancelled`, `StreamCancelled`, `WaitCancelled` |
| the launcher and the command | `LauncherConnects`, `LauncherAborts`, `ChildExits` |

Nothing kills a child whose `start` was cancelled. `WaitPanics` is tokio's
panic on polling a `JoinHandle` that has already returned. With
`FreshIds = TRUE` an id is dialed once, as the UUIDs of `rpc_server.rs` ensure;
with `FALSE` it may be dialed again whenever it is not in `pending`, which is
all that `Server::dial` itself checks. An id that is reused while a `wait` for
its earlier session is under way lets that `wait` remove the later session,
which is why most properties need fresh ids.

`SessionLifecycle` says what a client may rely on: an id goes
`unknown -> dialed -> starting -> live -> gone`, never back, and a program runs
only under a live id.

### Stdio

One session's streams as queues of numbered units (a unit is one buffer of up
to 128 bytes), from the command to the user's terminal and back, with both
`wait`s. `Transmit`, `TransmitEnd` and `Disconnect` are tonic; the user and the
command are actions of their own. `StdinOpen` states when the write end of the
child's stdin is closed: only when `wait` has removed the session and no
`stdin` call is left. The model opens the streams before it waits, as
`P9cpuClient` does. It lets the two outputs' tasks be scheduled in any way,
more freely than the locks of their descriptors do. A descendant of the command
that keeps stdin open is not modelled; one that keeps an output open is
(`OutCloses`). If the connection breaks after the server has answered `wait`,
the client returns the exit code with the output cut short; hence the `conn` in
`AllOutputAtReturn`. The client's own side may fail too: an error of `write_all`
or `flush` ends the task of `copy_stream`, whose stream is dropped (`SinkFails`),
and an error of the read of stdin ends `in_task` (`InFails`). `wait` only logs
these and returns the code, so `AllOutputAtReturn` excepts an output whose local
write failed, and nothing else.

### NinepRelay

The way of a 9P request from the kernel to `dispatch` and back. A request is
`ReqLen` units, a response `RespLen`, and unit `k` of tag `t` is `<<t, k>>`, so
that mixing or losing units shows. The relay's `select!` is the choice between
`RelayReads`/`RelayAtEof` and `RelayTakes`/`RelayInputEnds`; while it is in
`RelaySends` or `RelayWrites` it hears nothing else. `RelayWrites` is the single
`write` of the code: it takes as much as the socket has room for. `dispatch`
reads whatever piece it gets, spawns a task for each whole request, and the
tasks reply in any order through `SenderWriter`; if the channel is closed they
panic (`TaskPanics`), as its `unwrap` does. An error of the kernel's socket ends
the relay (`RelayFails`), a frame that is too long or cannot be decoded ends
`dispatch` (`DispatchFails`); an error of the gRPC stream is `Disconnect`. The
variable `cut` remembers that a write has been short. After that the kernel takes
the next `RespLen` units for a response, whatever they are.

### NinepSrv, FidTable

`NinepSrv` is `dispatch_once` for many requests at once. A task goes through
`Lookup` (read lock, fids looked up), `OpEnds` or `OpFails` (the operation of
the file system, under the read lock), `AfterOp`, `Apply` (write lock: Tclunk
removes, a new fid is inserted), and only then the reply can be received. The
lock is tokio's, which lets no reader pass a queued writer. A fid stands for a
path, as in unpfs.

The client is the kernel's 9p file system and external: one request for each
tag, a new fid is one not in use, and a fid is clunked or created into only
while no other request names it. Walking a fid in place (`newfid = fid`) and
giving up on a tag are outside these rules and not modelled. Requests with two
fids are looked up as requests with one. Tauth, Tflush, Tremove and Txattrwalk
are refused by unpfs and are failing operations here.

`FidTable` is the promise: attach and walk bind a fid, create moves it, clunk
unbinds it, each in one step.

### FcallLayout, Codec

`FcallLayout` holds the tables: the number of each message, the fields in the
order in which `fcall.rs` declares them, and the orders in which `encode` and
`decode` of `serialize.rs` go through them. `Codec` encodes a message with
symbolic values field by field, lets the frame arrive whole, short or with a
foreign type, and decodes it. Integers have their width, a string has its
length and its `u16` prefix, a vector its count. Strings longer than 65535
bytes, whose length the cast to `u16` would cut, are excluded by the assumption
`LengthsFit`; paths of a Linux file system are shorter. `RoundTrip` leaves out
`Rreaddir`: its encoder writes the size of the entries in bytes, its decoder
takes that number for a count of entries (serialize.rs:634), so it cannot read
back what was written. The server only encodes this message; `ReaddirSize`
checks that what it sends is right.

### Unpfs, LocalTree, MCUnpfs

`Unpfs` is `unpfs.rs` operation by operation. Up to `MaxTasks` requests are
under way, each in a task that makes one system call in a step, between the
steps of the others and of local processes (`Local`), which remove, create and
rename entries. `LocalTree` is the kernel's side: inodes, directories as
sequences of entries in the order of `read_dir`, the inodes that a path goes
through (`Through`) and the one it names (`Resolve`), `rename` with what it
refuses.

| Code | Actions |
|---|---|
| `rattach`, `rwalk` | `WalkStep` for each name, `Bind` (also: the insertion of the new fid by `dispatch_once`) |
| `rgetattr`, `rreadlink`, `rstatfs` | `Look`: one system call on the path |
| `rsetattr` | `SetattrStep` for mode, owner and size, `SetattrTimes`, `SetattrEnds` |
| `rreaddir` | `ReaddirOpens`, `ReaddirEntry`, `ReaddirEnds` |
| `rlopen` | `LopenStat`, `LopenOpen` |
| `rlcreate`, `rmkdir` | `MakeFile`, then `LcreateStat` or `MkdirStat` |
| `rrenameat` | `Renameat` |
| `runlinkat` | `UnlinkStat`, `UnlinkRemove` |
| `rread`, `rwrite`, `rfsync` | `LockFile` (the mutex of the fid's file), `Seek`, then `Read`, `Write` or `Fsync` |
| `rclunk` | `Clunk`, with the removal of the fid by `dispatch_once` |
| tokio's `File` | `BackgroundWrite`, `LateWrite` (after the `File` was dropped) |

Any of these system calls may fail, whatever the tree looks like. `Refused` is the
failure of the `lstat` in `get_qid` after `rlcreate` or `rmkdir` has made its
entry, also while the entry is there (a parent directory that may no longer be
searched, an I/O error): the request is answered with an error and the entry
stays.

tokio's `File` takes the data of a write into its buffer and returns; a thread
writes it. `seek` and `sync_all` wait for that thread, its error is returned by
the next write only, and dropping the `File` leaves the thread running. So a
write is `flying`, then `landed` or `failed`; a failed one is `reported` by the
next write, or `unheard` if the fid is clunked first. `rfsync` does not return
the error.

Three variables are there for the properties: `told` is the inode of the last
qid that the client was given for a fid, `stale` marks the fids and tasks on
whose path somebody has changed an entry since they resolved it, and `attr`
keeps which request set which attribute of which inode. The client is the
kernel's 9p file system and external, as in `NinepSrv`; it never uses a fid
whose walk stopped early except to clunk it, and it opens, creates into or
clunks no fid that another request names, be it as its second fid (`renameat`)
or to go on with a listing. It opens no fid twice, so not one whose directory it
is listing either: the kernel opens a clone of the fid that it walked to.

### Namespace, Launcher, System, MCSystem

`Namespace` holds the pure parts: `parse_namespace` as a recursive function
over the parts of the argument (`Turns`), the lines of the fstab file that `FsTab::try_from` refuses, the
command that `app` builds (its ids are those of the caller, root's too, unless
given), the server's patch of the 9p line, and what a table of mounts shows at a
path. `mount(2)` is given strings that nothing in the code has looked at
(lib.rs:74 joins mount point and source, launcher.rs:118 hands the line on), so
the kernel's lookup is there as well: `Lookup` walks a path from the root of the
server name by name, takes `..` to the parent, follows the symbolic links
`Links` of the server and of the client, an absolute one from the server's root,
and ends nowhere after `WalkMax` names. `Places` is where a path leads.

`Launcher` is `connect` of `launcher.rs`. Its order is the sequence `Steps`, one
action for each; every step may fail, which ends the process, but a line of the
fstab that cannot be mounted is only remembered in `warned`. A mount propagates
to the host until the namespace is private. `create_dir_all` fills `made`, so
that a bind mount from a directory of the tmpfs that nobody made fails.

`System` composes the client (`P9cpuClient`, `RpcClient`, `app`) with the
server's sessions and the launcher. A handler of the server is one step, but
`start` and `wait`, which wait for the launcher and the program; the state of
each id (`life`) is that of `SessionLifecycle`, which `SessionServer`
implements and which `System` implements in turn. An RPC fails before the
server acts on it (`RpcFails`), or its answer is lost (`Works`); both, and an
error of a terminal call, are counted in `faults`. A bad line of the fstab file
ends `app` before it connects (`FileRefused`); after a connection that broke
under `wait` the copying tasks end while the program may still run
(`JoinHandles`). After a `wait` the client may
start again, or call either method at the wrong time. If several sessions are
left behind at the server, nothing in the code removes them.

## The runs

| Run | Properties | Shows |
|---|---|---|
| `session_table` | `TypeOK`, `RunningIsRegistered`, `OneLaunchPerId`, `WaitDrains`, `PanicNeedsSecondWait`, `ImplementsLifecycle` | with racing calls, cancellation and dying launchers the table stays consistent, one process is launched for an id, a program that runs can be waited for, `wait` answers after the streams opened before it are drained, and only a second `wait` can panic |
| `session_returns` | `LiveSessionNotReplaced`, `CallsReturn` | even a reused id never replaces a live session; if launchers connect, every call returns |
| `session_start_hangs` | `StartReturns` (violated) | finding 1 |
| `stdio` | `StreamsInv`, `AllOutputAtReturn`, `InputArrives`, `WaitReturns` | output and input are never reordered, duplicated or lost in the middle; output is complete when `wait` returns a code, but for one that the client failed to write; input arrives completely while the command runs; `wait` returns when the command is done or the connection is lost, even if the user never ends the input |
| `stdio_cat_hangs` | `CodeObtained` (violated) | finding 2 |
| `ninep_srv` | `TypeOK`, `NoBadFid`, `ViewMatches`, `NoFidLeak`, `ImplementsFidTable`, `Answered` | the fid table agrees with what the client was told although lookup and insertion are under different locks, nothing leaks, and every request is answered |
| `ninep_relay` | `RelayInv`, `OnlyEndsLost`, `RelayEnds` | requests stay whole; responses stay in order and unmixed and lose at most their ends, nothing before a write is short; until then each request is in one place; and the relay ends so that `wait` can join it |
| `ninep_relay_answers` | `RequestsAnswered` | the two directions cannot block each other |
| `ninep_relay_short` | `ResponsesWhole` (violated) | finding 3 |
| `codec` | `RoundTrip`, `ReaddirSize` | decoding inverts encoding for all messages but one, short and foreign frames are refused, the size in an `Rreaddir` is right |
| `unpfs` | `UnpfsInv`, `MadeEntryStands`, `SetattrPrefix`, `ListingExact`, `ReadYourWrites`, `WritesInOrder`, `RequestsEnd` | a fid names the object that the client was told of, and its open file is that object, until an entry on its path is changed; so does the entry that `rlcreate` or `rmkdir` has made, even if the request fails after that; a failed `rsetattr` has done a beginning of what was asked, on one file; a listing returns each steady entry once; a read and an fsync come after the writes answered before, no write is answered over an unreported error; nothing waits for ever, and a write outlives its clunk |
| `system` | `LaunchInv`, `ShowsClient`, `NamespaceLines`, `ForwardedFirst`, `OrphansNeedFaults`, `OkMeansZero`, `TerminalRestored`, `ImplementsLifecycle`, `CallsReturn` | mounts stay in the session and, where no `..` and no symbolic link is in the paths, show the client's files or nothing, never the server's in their place; the program has the user's ids; `parse_namespace` gives the lines it should; the panic of `ninep_forward` strikes before anything runs; each session left behind took a failure of its own; `Ok` means that the program ended with 0; the terminal is restored; the calls return, but for finding 1 |

`StreamsInv`, `RelayInv`, `UnpfsInv` and `LaunchInv` are conjunctions of the
module's type invariant and named invariants.

### Bounds, and why they are enough

* `session_table`: two ids, two `start`s, two `wait`s, one stream. Two of each
  are what a race takes; the ids interact only through the lock of `sessions`.
  The calls of a kind are interchangeable and so are the ids: symmetry. All
  properties of this run are proved for any number.
* `session_returns`: one id that may be reused, two `start`s, a `wait`, a stream
  and a 9P forwarder; no symmetry, because of the liveness property. It lets no
  launcher abort (`session_start_hangs` is what happens otherwise) and no call
  be cancelled (a cancelled call has returned).
* `stdio`: `PipeCap`, `ChanCap` and `NetCap` are 1, so that every queue is full
  as often as it can be. The code has 64 KiB, 10 items and tonic's window; a
  larger queue only delays the moment when it is full. `MaxOut` and `MaxIn` are
  2, one more than a queue holds. There is one output: the two of a session
  share only the wait for both, and each has its own pipe, task and channel.
  Everything that may fail may do so here; in `stdio_cat_hangs` nothing does.
  The two invariants are proved for any capacities, lengths and both outputs;
  the bounds matter for the two liveness properties.
* `ninep_srv`: three tags, since a writer is overtaken only by two readers that
  take turns; two fids and two paths. Its safety properties are proved for any
  numbers.
* `ninep_relay`: requests of 2 units in pieces of 1 or 2, so that a piece may
  end inside a message or span two; a socket of 3 units for responses of 2, so
  that it takes the first one whole and half of the next: short writes are part
  of the run. Three tags fill every queue of a direction. All its safety
  properties are proved for any sizes.
  `ninep_relay_answers` has four tags: the fewest with which, if `dispatch`
  waited for its tasks, all queues would be full in a circle. `Watched` limits
  the liveness property to one tag; all are alike.
* `codec`: empty strings, one byte, and 65535 bytes; vectors of no and of two
  elements; frames cut at each field.
* `unpfs`: two tasks, a root with a directory and two files, and in the
  directory one file; two inodes more can be made. Five workloads (`MCLoads`)
  keep apart what does not interact: the data of two fids open on one file
  (three requests), walking and opening (two requests and a local change),
  creating, renaming and removing (two requests, which race with each other),
  attributes (one request, one local change) and listings (two entries to a
  reply, so that three entries take several, and two local changes). A local
  rename replaces a file in one step, so one change is enough to have another
  file under a name. All invariants are proved for any tree, workload, number of
  requests under way and room in a reply.
* `system`: two ids, up to four calls of the client and two failures: a run, a
  second run after a lost one, and calls out of order. Three plans
  (`MCPlans`): all namespace arguments of up to two parts, out of seven that
  differ in each branch of `parse_namespace`, and two of three parts; fstab
  files with comments, bad lines, a 9p line of their own and a mount over a
  target; a target below the 9p mount, which hides what a later part has as its
  source; sources and targets with `..` and with links; and terminals and
  failures. `MCLinks` has an absolute link, one that climbs and one that goes
  round on the client, and one on the server. The longest lookup of these paths
  that ends takes fewer than `WalkMax` = 8 names. `TmpMnt` is one name. All
  invariants are proved for any ids, plans and links.

Sessions, streams and the relay come to an end, so those runs do not check for
deadlock; the liveness properties say who must not be left waiting. `ninep_srv`
and `codec` go on for ever and are checked for deadlock.

### Fairness, and what justifies it

* Tasks of tokio and the transport that can go on do so: weak fairness.
* tokio's `RwLock` and `Mutex` queue first come, first served, so a lock that
  becomes free again and again is granted: strong fairness for steps that take
  a lock (`StartStep`, `StreamStep`, `WaitStep`, `TaskStep`, `TaskReplies`).
* `select!` polls its ready branches in random order: strong fairness for
  `RelayReads` and `RelayTakes`.
* Timers fire (`AcceptTimesOut`), the kernel reads its socket, operations of
  the local file system end.
* `unpfs`: system calls and the threads of tokio's `File` end, the mutex of a
  file is first come, first served (strong fairness of `IoStep`), and the client
  takes its replies and goes on with a listing it has begun.
* `system`: the client's task is scheduled, launchers go on, programs end.
* Of a command: in `SessionServer` it ends in the end; in `Stdio` it reads its
  input, and it is not assumed to exit except when it is one that exits at the
  end of its input. Nothing is assumed of the user.

## Findings

1. **`start` may hang with the table locked** (`session_start_hangs`,
   server.rs:208). `accept` has no timeout and does not watch the child. If the
   launcher dies first, `start` never returns and no other call gets the lock.
2. **`cat` never ends** (`stdio_cat_hangs`, server.rs:240). The end of the
   client's input does not close the child's stdin, because the session keeps
   the write end until `wait` has removed it, and `wait` waits for the child.
3. **A short write loses part of a response** (`ninep_relay_short`,
   server.rs:385). The relay uses `write` where it needs `write_all`.

Read while modelling, and not made into runs of their own: `rsetattr` ignores
`ATIME` and `MTIME` without their `_SET` bits (unpfs.rs:162), of which fcall.rs
says "If a time bit is set without the corresponding SET bit, the current system
time on the server is used" (line 257); it also writes the time that was not
asked for back as it was read before, and ignores the error of
`set_file_times`. An `Rreaddir` with an entry cannot be decoded (see `Codec`).
`rmkdir` ignores the mode it is given; `rlcreate` and `rlopen` mask `O_EXCL`
out, so an exclusive create opens a file that is there; `rfsync` does not return
the error of the last write; an entry that is removed while `rreaddir` runs
fails the whole request; a flush is refused while the flushed request goes on;
`wait` and `setup_stdio` lose the session when a terminal call or an RPC fails.

## What is proved

The proofs hold for every value of the constants that satisfies the
assumptions of the modules:

* the model values for "none" are not calls, ids, fids, files, paths or inodes
  (`NoneAssumption`, `SidAssumption`, and parts of `PathAssumption`,
  `FidAssumption`, `NameAssumption`, `TreeAssumption`), and the calls that open
  a stream differ from those that forward 9P (`CallAssumption`);
* flags are Boolean, capacities are at least 1 (`FlagAssumption`,
  `BoundAssumption` of `Stdio`), a plan has its fields (`PlanAssumption`) and
  arguments that are parts with a first field and lines of a file
  (`ArgsAssumption`), the directory of the mounts is not the root
  (`TmpAssumption`), and symbolic links are of a form (`LinkAssumption`);
* the tree has a root, lists only what is there and a name in a directory once
  (`TreeAssumption`, `EntryAssumption`), and no entry is called `.` or `..`
  (`NameAssumption`); a reply to `Treaddir` has room for an entry
  (`CountAssumption`: the kernel asks for a page and more);
* a workload starts with fids that were walked to what is there
  (`LoadAssumption`), and `rsetattr` sets the times last (`WantAssumption`), as
  the code does.

Each safety proof has the same shape: an inductive invariant that a run of TLC
has checked first, one lemma for each part of it that says how the actions
preserve it, and the properties of the runs as consequences.

**Session table** (`SessionServerProofs`). `TypeCorrect`. `NotReplaced`:
`LiveSessionNotReplaced` for any ids, from `LockInv`: whoever is between the
launch and the insertion holds the write lock and its id is absent from the
table. With fresh ids, `TableInvariant`: `TableInv` is inductive. It joins
`LockInv`; `IdInv`, by which a `start` call owns its id from the moment it takes
it from `pending`, so no two calls own one; and `WaitInv`, by which a `wait` past
its child belongs to the session's only child and has seen it exit. None is
inductive alone: that `wait` removes no session with a running program follows
from `WaitInv` only because by `IdInv` the id has had no other child.
`Registered` (`RunningIsRegistered`) and `OneLaunch` (`OneLaunchPerId`) are
consequences.

**Its refinement** (`SessionServerProofs` too). `Refinement`: with fresh ids the
handlers implement `SessionLifecycle`. `LifeOf` reads the stage of an id off the
tables; each action moves one id by one step of its life, ends a program, or
stutters. That `wait` may take an id from `live` to `gone` needs `TableInv`:
nothing runs under it any more.

**Waiting** (`SessionServerProofs` too). `Drains` (`WaitDrains`) and `PanicsOnlyTwice`
(`PanicNeedsSecondWait`), from `DrainInvariant`: `DrainInv` is inductive with
fresh ids. `HandlesInv` says that a task is in at most one vector of handles, and
there once, because a stream call pushes once and a forwarder belongs to one
pending id or one `start`; `LoopsInv` says how far each `wait` has come in the
vector of its own session. A handle before that place has been awaited, so all
of them have when the loop ends; and a handle that has returned was awaited by
a `wait` of the same session.

**Streams** (`StdioProofs`). `StreamsCorrect` (`StreamsInv`) and `OutputComplete`
(`AllOutputAtReturn`). The predicate `Run(s, a, b)` says that a queue holds the
units `a+1 .. b` in order. The invariant says that each queue of a direction is a
run that starts where the one nearer the receiver stops (`OutputRuns`,
`InputRuns`), what a task that has finished has left behind (`OutputEnds`), and
what a `wait` has joined (`WaitsJoin`). So there is nothing between the command
and the terminal when both `wait`s have returned over a connection that held and
the task of that output has not failed.

**Dispatcher** (`NinepSrvProofs`). `TypeCorrect`. `Invariant`: `SrvInv` is
inductive. `StageInv` is the shape of a request at each stage; `ExclusiveInv`
says that a fid that is made, moved or clunked is named by one request only;
`FollowInv` says how far the table has followed each request; `ViewMatches` and
`NoOrphan` relate the table to the client. The argument: what other requests do
between a task's two locks does not touch the fids that the task owns.
`NoBadFidHolds`, `ViewMatchesHolds` and `NoFidLeakHolds` follow, and `Refinement`
shows that the dispatcher implements `FidTable`: `Apply` is an attach, walk or
clunk, the end of a create is a create, every other step a stutter.

**Relay** (`NinepRelayProofs`, `SequenceLemmas`). `TypeCorrect`, `RequestsRight`
(`RequestsWhole`), `RelayRight` (`RelayInv`) and `ResponsesRight`
(`OnlyEndsLost`), for any sizes and capacities, room for a short write included.
The properties are about the concatenation of the queues
of a direction, so the lemma `Flow` first says what each action does to the two
concatenations: nothing (a piece moves from one queue to the next), a request
appended at the kernel's end (`Asks`), one taken off whole by `dispatch`
(`Starts`), a response appended (`Replies`), `RespLen` units taken off by the
kernel (`Receives`), or the end of a message taken out of the middle (`Loses`),
which is the short write and sets `cut`. Such a loss leaves `EndsCut` true,
because what follows it begins with the first unit of a message: every item on
its way to the relay does (`BegunItems`), as only the relay cuts responses. While
`cut` is false, the inductive invariant `OnceInv` says that responses are whole,
that no unit is twice in a direction and that a request is on its way, with a
task, or answered, never two of these. `ninep_relay_short` (finding 3) shows
that `cut` does become true.
`FlattenSeq`, a recursive function of the community modules, is dealt with by
the lemmas of `SequenceLemmas` on appending to it and taking its head off.

**unpfs** (`LocalTreeProofs`, `UnpfsProofs`). `Invariant`: `IInv` is inductive.
Its parts, and what they give:

| Part | Says | Theorem |
|---|---|---|
| `TypeInv` | the types, and what a request keeps at each stage | `FidsRight` (with `NameInv`) |
| `UseInv` | who may use a fid: one that is opened, created into or clunked has one request, a new one is not yet bound | the others |
| `WriteInv` | a write in flight or an error not reported is that of one `File`; the log of a file has the writes of a fid in the order of the answers | `WritesOrdered` |
| `ReadInv` | the writes answered before a read or fsync was sent have landed when it is through with its `seek` or wait | `ReadsOwnWrites` |
| `NameInv` | a path that is not `stale` names what it named when it was resolved | `FidsRight`, `MadeStands` |
| `AttrInv` | how many of the attributes asked for are set, by which task, on which inode | `SetsPrefix` |

The argument about names: an action that changes an entry marks every fid and
task whose path goes through that entry, and by the lemma `Stable` a path that
goes through none of the changed entries resolves as before. The argument about
writes: by the client's rules no other request uses a fid while it is clunked,
and the mutex keeps two requests from being in the same `File`, so a thread's
result meets the `File` that started it, or none if that was dropped. Resolving
a path is recursive; the inductions are done with the least-number principle
about a set (`Least`, `Climb` in `SequenceLemmas`), the form in which the
provers can use the library's well-founded order.

`ListingComplete` proves `ListingExact`, with two invariants more (`ListIInv`).
`PageInv` says what a listing is between its replies: the offset is one less
than the number of names returned, at most one request of it is under way, from
the offset that the last reply gave, and the first reply holds at least the
dots. `PlaceInv` gives each expected name its place in the whole listing: the
dots the first and second, an entry that has stayed at place k of its directory
the place k + 2. In what has been returned, in the page being filled and in what
is left of the directory as it was read, the name is at that place and nowhere
else (`InPlace`), and a request that ends with an empty page has no place left
after those returned (`Complete`). Two facts carry the argument: names in a
directory are distinct, kept by every system call (`DistinctNames`), and an
entry that moves stops being expected in the same step (`Noticed`). A page
begins at the place that the offset says (`PageStart`), for `rreaddir` skips
`offset - 1` entries after the dots; with the faulty `SkipOffset` it does not.

**End to end** (`SystemProofs`). The invariant says what a launcher has at each
of its steps (`LaunchersInv`), what the client holds at each of its own
(`ClientInv`), and how the life of each id, the launcher and the answers under
way agree (`LifeInv`, `SpawnInv`, `AnswerInv`), and counts the sessions that
nobody will wait for against the failures (`LostInv`). `LaunchesRight`,
`ForwardsFirst`, `OrphansCounted`, `OkIsZero` and `TerminalBack` are the
properties of the run `system`; `Composes` shows that `System` implements
`SessionLifecycle` too, so the one-step handlers that it uses promise no more
than those of `SessionServer` do.

`NamespaceParsed` is about any namespace argument: after each turn of the loop
of `parse_namespace` the lines are one more than the parts up to there that name
a target first, each of these has its line at its rank, and the targets of the
lines are those of the good parts (`TurnOK`). `ClientShown` follows a table of
mounts line by line of the fstab, with any lines failing (`TableOK`, under the
invariant `MountInv`): as long as the lines bind what is below the 9p mount, the
server's own files are those of the second mount alone (`OwnTree`); if the 9p
mount was made, what is below it and was not covered shows the client's files
(`Forwarded`); and each target so far shows what `ShowsClient` says
(`Targets`). Each of the three is needed for the next: a bind copies what its
source shows at that moment, so the claim about a target rests on the claim about
everything below the 9p mount before it. `ShowsClient` is about namespaces whose
mounted lines are `Straight`: no `..` and no symbolic link in their paths. Then a
path leads where its names say, whatever is mounted (`PlainPlaces`). Without that
condition it is false of the program and of the model: the source `/../../etc`,
or a link on the client from `/var/run` to `/run`, shows the server's own files. That the first mount is a tmpfs is why a
failed 9p mount leads to an empty directory and not to the server's files: in the
faulty variant `StepsNoTmp` it is not there. Three lemmas say what a mount does
to a path (`ShowNew`, `ShowOld`, `ShowTree`).

**Only model-checked.**

* All liveness, which is out of the prover's reach.
* `RoundTrip` and `ReaddirSize` of `Codec`: inductions over the fields of a
  message.

## What is not modelled

* In `Unpfs`: symbolic links, the lengths of files and the bytes of a read, the
  values of attributes, `Tversion`, and the requests that unpfs refuses.
* In `Namespace`: a source that is not absolute, which is glued to the name of
  the mount point, and `/` as a target, which covers all mounts before it;
  escapes of fstab lines.
* In `System`: the lines of the environment and the arguments (only that they
  may fail to convert), arguments of the programs, and the choice between TCP,
  vsock and Unix sockets.
* `AsyncFd`, readiness glue around a descriptor; the table of error numbers; a
  client that gives up on a tag after a flush; generated code.

## Plan

Done: the session table, the streams, the dispatcher, the relay, the codec,
unpfs, and client, server and launcher end to end, with proofs of all of these
but the codec: every safety property of the runs but `RoundTrip` and
`ReaddirSize` is proved, or follows from one that is. What is left are these two,
which need inductions that the installed provers cannot do.
