-------------------------------- MODULE Unpfs --------------------------------
(***************************************************************************)
(* The file system that the client exports (crates/9p/src/unpfs.rs): the   *)
(* operations of the 9P server on the tree of the local machine.           *)
(*                                                                         *)
(* Each request runs in a task of its own (NinepSrv), and an operation is  *)
(* a sequence of system calls with awaits between them, so that requests   *)
(* interleave with one another and with the processes of the local machine *)
(* that change the same tree.  One step of a task is one system call.      *)
(*                                                                         *)
(* A fid holds a path, which every operation resolves anew, and, once it   *)
(* is open, a tokio File behind a mutex.  tokio's File answers a write     *)
(* when the data is in its buffer and a thread writes it in the            *)
(* background; seek and sync_all wait for that thread; its error is kept   *)
(* for the next write; a File that is dropped leaves the thread running.   *)
(*                                                                         *)
(* A system call may fail for what it names, as the tree is, and for any   *)
(* other reason (no permission, an I/O error), which is a choice; only the *)
(* root is always found.  Symbolic links and file lengths are left out.    *)
(***************************************************************************)
EXTENDS LocalTree

CONSTANTS
    Fids,     \* fid numbers
    Loads,    \* workloads: which requests, on which fids, and how many
    Walks,    \* the names that a Twalk gives
    Wants,    \* the attributes that a Tsetattr sets: mode, owner, size, times
    Count,    \* entries an Rreaddir has room for
    MaxTasks, \* requests that are under way at once
    NoFid, NoFile

(* A load is [ops, paths, open, reqs, env]: the requests the client sends, *)
(* the fids it has walked already, those it has opened, the number of      *)
(* requests, and the number of changes by local processes.                 *)
VARIABLES
    load,     \* the workload, with what is left of it
    attr,     \* kernel: the attributes that were set, with the task that did
    log,      \* kernel: the writes that each file has received
    path,     \* UnpfsFid::realpath of each fid in the table
    file,     \* UnpfsFid::file
    told,     \* the inode of the last qid that was sent for the fid
    task,     \* the requests and their tasks
    late,     \* writes still running after their File was dropped
    writes,   \* the writes that were answered with Rwrite, oldest first
    list,     \* client: the directory listing in progress
    stale     \* fids and tasks with a path on which an entry was changed

treevars == <<dir, kind, stale>>
filevars == <<file, log, writes, late>>
vars == <<load, treevars, attr, path, filevars, told, task, list>>

NoPath == <<"no path">>
Tasks == 1..MaxTasks
Ops == {"attach", "walk", "look", "setattr", "readdir", "lopen", "lcreate", "mkdir",
        "renameat", "unlinkat", "read", "write", "fsync", "clunk"}

Free == [op |-> "none", pc |-> "free", fid |-> NoFid, new |-> NoFid, names |-> << >>,
         path |-> << >>, at |-> NoIno, ino |-> NoIno, want |-> << >>, off |-> 0,
         before |-> {}, ents |-> << >>, res |-> "none"]

NoList == [st |-> "none", fid |-> NoFid, off |-> 0, got |-> << >>, kept |-> {}]

(* File::from_std: nothing in flight, no error kept.                       *)
Opened(i) == [ino |-> i, pos |-> 0, bg |-> 0, err |-> 0]

(* Tasks and fids are told apart, and a fid's name from no name; a load    *)
(* starts with fids that were walked to what is there.                     *)
ASSUME FidAssumption ==
    /\ MaxTasks \in Nat \ {0} /\ Fids \cap Tasks = {} /\ NoFid \notin Fids
    /\ NoFile \notin [ino: Inos, pos: {0, 1}, bg: Nat, err: Nat]
ASSUME NameAssumption ==
    /\ NoPath \notin Seq(Names)
    /\ Walks \subseteq Seq(Names)
    /\ {".", ".."} \cap Names = {}
(* The client asks for enough bytes to take any entry.                     *)
ASSUME CountAssumption == Count \in Nat \ {0}
(* The order of the code: the times, if asked for, are set last.           *)
ASSUME WantAssumption ==
    \A w \in Wants : /\ w \in Seq({"mode", "owner", "size", "times"})
                     /\ \A k \in DOMAIN w : w[k] = "times" => k = Len(w)
ASSUME LoadAssumption ==
    \A l \in Loads :
      /\ l = [ops |-> l.ops, paths |-> l.paths, open |-> l.open, reqs |-> l.reqs, env |-> l.env]
      /\ l.ops \subseteq Ops /\ l.reqs \in Nat /\ l.env \in Nat
      /\ DOMAIN l.paths \subseteq Fids /\ l.open \subseteq DOMAIN l.paths
      /\ \A f \in DOMAIN l.paths :
            /\ l.paths[f] \in Seq(Names) \X Inos
            /\ ResolveIn(TreeAtStart, l.paths[f][1]) = l.paths[f][2]

Init ==
    /\ load \in Loads
    /\ TreeInit
    /\ attr = [i \in Inos |-> {}]
    /\ log = [i \in Inos |-> << >>]
    /\ path = [f \in Fids |-> IF f \in DOMAIN load.paths THEN load.paths[f][1] ELSE NoPath]
    /\ told = [f \in Fids |-> IF f \in DOMAIN load.paths THEN load.paths[f][2] ELSE NoIno]
    /\ file = [f \in Fids |-> IF f \in load.open THEN Opened(told[f]) ELSE NoFile]
    /\ task = [t \in Tasks |-> Free]
    /\ late = {} /\ writes = << >> /\ list = NoList /\ stale = {}

-----------------------------------------------------------------------------
(* The entries es are changed (dir'): who had resolved a path through one  *)
(* of them is marked, and entries of the listed directory that have moved  *)
(* are no longer expected in the listing.                                  *)
Noticed(es) ==
    /\ stale' = stale \cup {f \in Fids : path[f] # NoPath /\ Edges(path[f]) \cap es # {}}
                      \cup {t \in Tasks : Edges(task[t].path) \cap es # {}}
    /\ LET now == dir'[told[list.fid]]
       IN list' = IF list.fid = NoFid THEN list
                  ELSE [list EXCEPT !.kept = {e \in @ : e[2] <= Len(now) /\ now[e[2]].name = e[1]}]

MakeAt(p, as) == MakeEntry(p, as) /\ Noticed({Entry(p)})
DropAt(p) == DropEntry(p) /\ Noticed({Entry(p)})
RenameAt(p, q) == RenameEntry(p, q) /\ Noticed(IF p = q THEN {} ELSE {Entry(p), Entry(q)})

(* The processes of the local machine.                                     *)
LocalRemove(p) == Resolve(p) # NoIno /\ dir[Resolve(p)] = << >> /\ DropAt(p)
LocalCreate(p) == Resolve(p) = NoIno /\ IsDir(Parent(p)) /\ MakeAt(p, "file")
LocalRename(p, q) == p # q /\ MayRename(p, q) /\ RenameAt(p, q)

Local ==
    /\ load.env > 0
    /\ load' = [load EXCEPT !.env = @ - 1]
    /\ \E p \in Paths : LocalRemove(p) \/ LocalCreate(p) \/ \E q \in Paths : LocalRename(p, q)
    /\ UNCHANGED <<attr, path, filevars, told, task>>

-----------------------------------------------------------------------------
(* The client: the kernel's 9p file system.  It uses the lowest free tag,  *)
(* opens, creates into or clunks a fid only when no other request names    *)
(* it, opens none twice, which a directory that it lists would be, and     *)
(* after a walk that stopped early it only clunks the new fid.             *)

Goes(t, new) == task' = [task EXCEPT ![t] = new]

Busy(t) == task[t].pc # "free"
Uses(t, f) == Busy(t) /\ (task[t].fid = f \/ task[t].new = f)
Idle(f) == \A t \in Tasks : ~Uses(t, f)
Alone == {"lopen", "lcreate", "clunk"}
Shared(f) == \A t \in Tasks : Uses(t, f) => task[t].op \notin Alone
LowestFree(t) == ~Busy(t) /\ \A u \in Tasks : u < t => Busy(u)

(* The request's own path: what realpath.clone() or join gives.            *)
PathOf(op, a) == IF op = "attach" THEN << >>
                 ELSE IF op = "unlinkat" THEN path[a.fid] \o a.names ELSE path[a.fid]

(* The arguments of each request; the data of its paths, attributes and    *)
(* offsets is bounded by the constants.                                    *)
Args(fs, gs, ns, ws, os) == [fid: fs, new: gs, names: ns, want: ws, off: os]
Requests == [op \in Ops |->
    LET none == {<< >>}
    IN CASE op = "attach" -> Args({NoFid}, Fids, none, none, {0})
         [] op = "walk" -> Args(Fids, Fids, Walks, none, {0})
         [] op = "renameat" -> Args(Fids, Fids, Names \X Names, none, {0})
         [] op \in {"lcreate", "mkdir", "unlinkat"} ->
               Args(Fids, {NoFid}, {<<n>> : n \in Names}, none, {0})
         [] op = "setattr" -> Args(Fids, {NoFid}, none, Wants, {0})
         [] op \in {"read", "write"} -> Args(Fids, {NoFid}, none, none, {0, 1})
         [] OTHER -> Args(Fids, {NoFid}, none, none, {0})]

(* What the client may send in this state.                                 *)
MaySend(op, a) ==
    /\ a.fid # NoFid =>
          /\ IF op = "clunk" THEN path[a.fid] # NoPath ELSE told[a.fid] # NoIno
          /\ op \in Alone => Idle(a.fid)
          /\ Shared(a.fid)
    /\ op \in {"attach", "walk"} => path[a.new] = NoPath /\ Idle(a.new)
    /\ op = "renameat" => told[a.new] # NoIno /\ Shared(a.new)
    /\ op \in {"lopen", "lcreate"} => file[a.fid] = NoFile /\ a.fid # list.fid
    /\ op = "readdir" => list.st # "on"

(* The writes that a read or fsync must not overtake.                      *)
Before(op, a) == IF op \notin {"read", "fsync"} THEN {}
                 ELSE {w \in DOMAIN writes : writes[w].fid = a.fid}

Send(t, op, a) ==
    /\ MaySend(op, a)
    /\ load' = [load EXCEPT !.reqs = @ - 1]
    /\ Goes(t, [Free EXCEPT !.op = op, !.pc = "ready", !.fid = a.fid, !.new = a.new,
                            !.names = a.names, !.want = a.want, !.off = a.off,
                            !.path = PathOf(op, a), !.before = Before(op, a)])
    /\ stale' = stale \ {t}
    /\ list' = IF op # "readdir" THEN list
               ELSE LET es == dir[told[a.fid]]
                    IN [NoList EXCEPT !.st = "on", !.fid = a.fid,
                                      !.kept = {<<es[k].name, k>> : k \in DOMAIN es}]
    /\ UNCHANGED <<dir, kind, attr, path, filevars, told>>

(* A listing goes on from the offset of the last entry, until there is no  *)
(* other.                                                                  *)
SendNext(t) ==
    /\ list.st = "on" /\ Shared(list.fid) /\ \A u \in Tasks : task[u].op # "readdir"
    /\ Goes(t, [Free EXCEPT !.op = "readdir", !.pc = "ready", !.fid = list.fid,
                            !.path = path[list.fid], !.off = list.off])
    /\ stale' = stale \ {t}
    /\ UNCHANGED <<load, dir, kind, attr, path, filevars, told, list>>

(* Faulty variant: the offset is taken for the number of entries to skip.  *)
SkipOffset(off) == off

Skip(off) == IF off = 0 THEN 0 ELSE off - 1

(* The offset of the last entry of an Rreaddir.                            *)
LastOffset(t) == IF task[t].off = 0 THEN Len(task[t].names) - 1
                 ELSE 1 + Skip(task[t].off) + Len(task[t].names)

Receive(t) ==
    /\ task[t].pc = "done"
    /\ Goes(t, Free)
    /\ attr' = [i \in Inos |-> {a \in attr[i] : a[1] # t}]
    /\ list' = IF task[t].op # "readdir" THEN list
               ELSE IF task[t].res # "ok" THEN NoList
               ELSE IF task[t].names = << >> THEN [list EXCEPT !.st = "ended"]
               ELSE [list EXCEPT !.got = @ \o task[t].names, !.off = LastOffset(t)]
    /\ UNCHANGED <<load, treevars, path, filevars, told>>

-----------------------------------------------------------------------------
At(t, op, pc) == task[t].op = op /\ task[t].pc = pc
Here(t) == Resolve(task[t].path)
Moves(t, pc) == Goes(t, [task[t] EXCEPT !.pc = pc])
Reply(t, r) == Goes(t, [task[t] EXCEPT !.pc = "done", !.res = r])

(* Only the task moves; or it ends with an error.                          *)
Still == UNCHANGED <<load, treevars, attr, path, filevars, told, list>>
Error(t) == Reply(t, "error") /\ Still

(* The fid f now stands for inode i, as who resolved its path last knew it.*)
Tell(who, f, i) ==
    /\ told' = [told EXCEPT ![f] = i]
    /\ stale' = IF who \in stale THEN stale \cup {f} ELSE stale \ {f}

(* rwalk: one get_qid for each name.  If it fails that is an error for the *)
(* first name; otherwise the walk ends there, with that name at the end of *)
(* the new fid's path.                                                     *)
WalkStep(t) ==
    /\ At(t, "walk", "ready") /\ task[t].names # << >>
    /\ LET p == Append(task[t].path, Head(task[t].names))
       IN \/ task[t].at = NoIno /\ Error(t)
          \/ /\ task[t].at # NoIno
             /\ Goes(t, [task[t] EXCEPT !.pc = "bind", !.path = p, !.at = NoIno]) /\ Still
          \/ /\ Resolve(p) # NoIno
             /\ Goes(t, [task[t] EXCEPT !.path = p, !.at = Resolve(p), !.names = Tail(@)])
             /\ stale' = stale \ {t}
             /\ UNCHANGED <<load, dir, kind, attr, path, filevars, told, list>>

(* The new fid is inserted with its path (rattach: with realroot); a walk  *)
(* without names is a copy of the fid.                                     *)
Bind(t) ==
    /\ \/ At(t, "walk", "bind") \/ At(t, "attach", "ready")
       \/ At(t, "walk", "ready") /\ task[t].names = << >>
    /\ path' = [path EXCEPT ![task[t].new] = task[t].path]
    /\ IF At(t, "walk", "ready") /\ task[t].at = NoIno
       THEN Tell(task[t].fid, task[t].new, told[task[t].fid])
       ELSE Tell(t, task[t].new, IF task[t].op = "attach" THEN Root ELSE task[t].at)
    /\ Reply(t, "ok")
    /\ UNCHANGED <<load, dir, kind, attr, filevars, list>>

(* rgetattr, rreadlink, rstatfs: one system call on the path.              *)
Look(t) ==
    /\ At(t, "look", "ready")
    /\ Error(t) \/ (Here(t) # NoIno /\ Reply(t, "ok") /\ Still)

-----------------------------------------------------------------------------
(* rsetattr: chmod, chown, truncate and utimes, each on the path anew; the *)
(* first error ends it, but that of set_file_times is ignored.             *)

NextAttr(t) == task[t].want[task[t].off + 1]
SetIt(t) == attr' = [attr EXCEPT ![Here(t)] = @ \cup {<<t, NextAttr(t)>>}]

(* The first error ends the request.  Faulty variant: it is skipped.       *)
SetattrSkips(t) == Goes(t, [task[t] EXCEPT !.off = @ + 1]) /\ Still
SetattrFails(t) == Error(t)

SetattrStep(t) ==
    /\ At(t, "setattr", "ready") /\ task[t].off < Len(task[t].want)
    /\ \/ SetattrFails(t)
       \/ /\ Here(t) # NoIno /\ NextAttr(t) = "times"
          /\ Moves(t, "times") /\ Still
       \/ /\ Here(t) # NoIno /\ NextAttr(t) # "times"
          /\ NextAttr(t) = "size" => ~IsDir(Here(t))
          /\ SetIt(t)
          /\ Goes(t, [task[t] EXCEPT !.off = @ + 1])
          /\ UNCHANGED <<load, treevars, path, filevars, told, list>>

SetattrTimes(t) ==
    /\ At(t, "setattr", "times")
    /\ (Here(t) # NoIno /\ SetIt(t)) \/ UNCHANGED attr
    /\ Goes(t, [task[t] EXCEPT !.off = @ + 1, !.pc = "ready"])
    /\ UNCHANGED <<load, treevars, path, filevars, told, list>>

SetattrEnds(t) ==
    /\ At(t, "setattr", "ready") /\ task[t].off = Len(task[t].want)
    /\ Reply(t, "ok") /\ Still

(* rreaddir: the dots if the offset is 0, read_dir without the entries     *)
(* that were listed before, then the metadata of each entry, as long as    *)
(* there is room.                                                          *)
ReaddirOpens(t) ==
    /\ At(t, "readdir", "ready")
    /\ \/ Error(t)
       \/ /\ IsDir(Here(t))
          /\ Goes(t, [task[t] EXCEPT
                      !.pc = "entry", !.ino = Here(t),
                      !.names = IF task[t].off = 0 THEN <<".", "..">> ELSE << >>,
                      !.ents = SubSeq(dir[Here(t)], Skip(task[t].off) + 1,
                                      Len(dir[Here(t)]))])
          /\ Still

ReaddirEntry(t) ==
    /\ At(t, "readdir", "entry") /\ task[t].ents # << >>
    /\ LET n == Head(task[t].ents).name
       IN \/ Error(t)
          \/ /\ Child(dir, task[t].ino, n) # NoIno
             /\ IF Len(task[t].names) + 1 > Count THEN Reply(t, "ok")
                ELSE Goes(t, [task[t] EXCEPT !.names = Append(@, n), !.ents = Tail(@)])
             /\ Still

ReaddirEnds(t) ==
    /\ At(t, "readdir", "entry") /\ task[t].ents = << >>
    /\ Reply(t, "ok") /\ Still

(* rlopen: get_qid, which is all for a directory, then open, which may     *)
(* name something else by then, be refused, or make a file anew, because   *)
(* UNIX_FLAGS keeps O_CREAT.                                               *)
LopenStat(t) ==
    /\ At(t, "lopen", "ready")
    /\ \/ Error(t)
       \/ /\ Here(t) # NoIno
          /\ IF IsDir(Here(t)) THEN Reply(t, "ok")
             ELSE Goes(t, [task[t] EXCEPT !.pc = "open", !.at = Here(t)])
          /\ told' = IF IsDir(Here(t)) THEN [told EXCEPT ![task[t].fid] = Here(t)] ELSE told
          /\ stale' = stale \ IF IsDir(Here(t)) THEN {t, task[t].fid} ELSE {t}
          /\ UNCHANGED <<load, dir, kind, attr, path, filevars, list>>

LopenOpen(t) ==
    /\ At(t, "lopen", "open")
    /\ \/ Error(t)
       \/ /\ Here(t) # NoIno
          /\ file' = [file EXCEPT ![task[t].fid] = Opened(Here(t))]
          /\ Tell(t, task[t].fid, task[t].at)
          /\ Reply(t, "ok")
          /\ UNCHANGED <<load, dir, kind, attr, path, log, writes, late, list>>
       \/ /\ Here(t) = NoIno /\ IsDir(Parent(task[t].path))
          /\ MakeAt(task[t].path, "file")
          /\ file' = [file EXCEPT ![task[t].fid] = Opened(Fresh)]
          /\ told' = [told EXCEPT ![task[t].fid] = task[t].at]
          /\ Reply(t, "ok")
          /\ UNCHANGED <<load, attr, path, log, writes, late>>

(* rlcreate and rmkdir: the entry is made and then asked for its qid.      *)
(* UNIX_FLAGS has no O_EXCL: rlcreate opens a file that is there already.  *)
MakeFile(t) ==
    /\ At(t, "lcreate", "ready") \/ At(t, "mkdir", "ready")
    /\ LET p == task[t].path \o task[t].names
           made(i) == Goes(t, [task[t] EXCEPT !.pc = "stat", !.ino = i, !.path = p])
       IN \/ Error(t)
          \/ /\ IsDir(Parent(p)) /\ Resolve(p) = NoIno
             /\ MakeAt(p, IF task[t].op = "mkdir" THEN "dir" ELSE "file")
             /\ made(Fresh)
             /\ UNCHANGED <<load, attr, path, filevars, told>>
          \/ /\ task[t].op = "lcreate" /\ Resolve(p) # NoIno /\ ~IsDir(Resolve(p))
             /\ made(Resolve(p)) /\ Still

(* The path that get_qid is asked for.  Faulty variant: joined twice.      *)
JoinedTwice(t) == task[t].path \o task[t].names
Joined(t) == task[t].path

(* The fid's path after rlcreate.  Faulty variant: still the directory's.  *)
Unmoved(t) == path[task[t].fid]
Moved(t) == task[t].path

(* If get_qid fails, as the entry is gone or lstat is refused, the file    *)
(* stays, and so does rlcreate's descriptor, which is only a number yet.   *)
Refused(t) == Reply(t, "refused") /\ Still

LcreateStat(t) ==
    /\ At(t, "lcreate", "stat")
    /\ \/ Resolve(Joined(t)) = NoIno /\ Error(t)
       \/ Refused(t)
       \/ /\ Resolve(Joined(t)) # NoIno
          /\ path' = [path EXCEPT ![task[t].fid] = Moved(t)]
          /\ file' = [file EXCEPT ![task[t].fid] = Opened(task[t].ino)]
          /\ Tell(t, task[t].fid, Resolve(Joined(t)))
          /\ Reply(t, "ok")
          /\ UNCHANGED <<load, dir, kind, attr, log, writes, late, list>>

MkdirStat(t) ==
    /\ At(t, "mkdir", "stat")
    /\ \/ Here(t) = NoIno /\ Error(t)
       \/ Refused(t)
       \/ Here(t) # NoIno /\ Reply(t, "ok") /\ Still

Renameat(t) ==
    /\ At(t, "renameat", "ready")
    /\ LET p == Append(task[t].path, task[t].names[1])
           q == Append(path[task[t].new], task[t].names[2])
       IN \/ Error(t)
          \/ /\ MayRename(p, q) /\ RenameAt(p, q) /\ Reply(t, "ok")
             /\ UNCHANGED <<load, attr, path, filevars, told>>

(* runlinkat: symlink_metadata decides between remove_dir and remove_file. *)
UnlinkStat(t) ==
    /\ At(t, "unlinkat", "ready")
    /\ \/ Error(t)
       \/ /\ Here(t) # NoIno
          /\ Goes(t, [task[t] EXCEPT !.pc = "remove", !.at = Here(t)]) /\ Still

UnlinkRemove(t) ==
    /\ At(t, "unlinkat", "remove")
    /\ \/ Error(t)
       \/ /\ Here(t) # NoIno /\ kind[Here(t)] = kind[task[t].at] /\ dir[Here(t)] = << >>
          /\ DropAt(task[t].path) /\ Reply(t, "ok")
          /\ UNCHANGED <<load, attr, path, filevars, told>>

-----------------------------------------------------------------------------
(* rread, rwrite, rfsync: under the mutex of the file.                     *)

Locked(f) == \E t \in Tasks : task[t].fid = f /\ task[t].pc \in {"seek", "io"}

LockFile(t) ==
    /\ task[t].op \in {"read", "write", "fsync"} /\ task[t].pc = "ready"
    /\ ~Locked(task[t].fid)
    /\ IF file[task[t].fid] = NoFile THEN Error(t) ELSE Moves(t, "seek") /\ Still

(* seek, and sync_all, wait for the write in flight.  Faulty variant: they *)
(* do not wait.                                                            *)
NeverBusy(f) == TRUE
NotBusy(f) == file[f].bg = 0

(* SeekFrom::Start(offset), which may fail; sync_all has none.             *)
Seek(t) ==
    /\ task[t].pc = "seek" /\ NotBusy(task[t].fid)
    /\ \/ task[t].op # "fsync" /\ Error(t)
       \/ /\ Moves(t, "io")
          /\ file' = IF task[t].op = "fsync" THEN file
                     ELSE [file EXCEPT ![task[t].fid].pos = task[t].off]
          /\ UNCHANGED <<load, treevars, attr, path, log, writes, late, told, list>>

(* The newest write at an offset of a file, 0 if there is none.            *)
Newest(i, off) == LET k == SelectLastInSeq(log[i], LAMBDA x : writes[x].off = off)
                  IN IF k = 0 THEN 0 ELSE log[i][k]

(* The data that is returned is told by the write it comes from.           *)
Read(t) ==
    /\ At(t, "read", "io")
    /\ LET b == file[task[t].fid]
       IN \/ Error(t)
          \/ Goes(t, [task[t] EXCEPT !.pc = "done", !.res = "ok",
                                        !.at = Newest(b.ino, b.pos)]) /\ Still

(* last_write_err.  Faulty variant: it is forgotten.                       *)
ErrForgotten(f) == 0
LastErr(f) == file[f].err

(* The error of the last write is returned now; else the data is taken and *)
(* answered for, before it is in the file.                                 *)
Write(t) ==
    /\ At(t, "write", "io")
    /\ LET f == task[t].fid
       IN IF LastErr(f) # 0
          THEN /\ writes' = [writes EXCEPT ![LastErr(f)].st = "reported"]
               /\ file' = [file EXCEPT ![f].err = 0]
               /\ Reply(t, "error")
          ELSE /\ writes' = Append(writes, [fid |-> f, ino |-> file[f].ino,
                                            off |-> file[f].pos, st |-> "flying"])
               /\ file' = [file EXCEPT ![f].bg = Len(writes')]
               /\ Reply(t, "ok")
    /\ UNCHANGED <<load, treevars, attr, path, log, late, told, list>>

Fsync(t) == At(t, "fsync", "io") /\ (Error(t) \/ (Reply(t, "ok") /\ Still))

(* The thread of a write: the data is in the file, or there is an error.   *)
WriteLands(w) ==
    /\ log' = [log EXCEPT ![writes[w].ino] = Append(@, w)]
    /\ writes' = [writes EXCEPT ![w].st = "landed"]
WriteFails(w, st) == writes' = [writes EXCEPT ![w].st = st] /\ UNCHANGED log

(* An error is kept for the next write.                                    *)
ErrKept(b) == [b EXCEPT !.err = b.bg, !.bg = 0]

BackgroundWrite(f) ==
    /\ file[f] # NoFile /\ file[f].bg # 0
    /\ \/ WriteLands(file[f].bg) /\ file' = [file EXCEPT ![f].bg = 0]
       \/ WriteFails(file[f].bg, "failed") /\ file' = [file EXCEPT ![f] = ErrKept(@)]
    /\ UNCHANGED <<load, treevars, attr, path, late, told, task, list>>

LateWrite(w) ==
    /\ late' = late \ {w}
    /\ WriteLands(w) \/ WriteFails(w, "unheard")
    /\ UNCHANGED <<load, treevars, attr, path, file, told, task, list>>

(* What a File leaves running.  Faulty variant: its write is cancelled.    *)
Cancelled(b) == {}
LeftRunning(b) == IF b # NoFile /\ b.bg # 0 THEN {b.bg} ELSE {}

(* A write of a File that is dropped: its error is not heard of any more.  *)
Orphaned(x) == [x EXCEPT !.fid = NoFid, !.st = IF x.st = "failed" THEN "unheard" ELSE x.st]

(* rclunk, and dispatch_once, which drops the fid and with it the File.    *)
Clunk(t) ==
    /\ At(t, "clunk", "ready")
    /\ LET f == task[t].fid
       IN /\ path' = [path EXCEPT ![f] = NoPath]
          /\ told' = [told EXCEPT ![f] = NoIno]
          /\ file' = [file EXCEPT ![f] = NoFile]
          /\ late' = late \cup LeftRunning(file[f])
          /\ writes' = [w \in DOMAIN writes |->
                          IF writes[w].fid = f THEN Orphaned(writes[w]) ELSE writes[w]]
          /\ list' = IF list.fid = f THEN NoList ELSE list
          /\ stale' = stale \ {f}
    /\ Reply(t, "ok")
    /\ UNCHANGED <<load, dir, kind, attr, log>>

-----------------------------------------------------------------------------
IoStep(t) ==
    LockFile(t) \/ Seek(t) \/ Read(t) \/ Write(t) \/ Fsync(t) \/ Clunk(t)

ListStep(t) == ReaddirOpens(t) \/ ReaddirEntry(t) \/ ReaddirEnds(t)

TaskStep(t) ==
    \/ IoStep(t) \/ ListStep(t)
    \/ WalkStep(t) \/ Bind(t) \/ Look(t)
    \/ SetattrStep(t) \/ SetattrTimes(t) \/ SetattrEnds(t)
    \/ LopenStat(t) \/ LopenOpen(t) \/ LcreateStat(t) \/ MkdirStat(t)
    \/ MakeFile(t) \/ Renameat(t)
    \/ UnlinkStat(t) \/ UnlinkRemove(t)

Next ==
    \/ \E t \in Tasks : LowestFree(t) /\ SendNext(t)
    \/ \E t \in Tasks : /\ LowestFree(t) /\ load.reqs > 0
                       /\ \E op \in load.ops : \E a \in Requests[op] : Send(t, op, a)
    \/ \E t \in Tasks : Receive(t) \/ TaskStep(t)
    \/ \E f \in Fids : BackgroundWrite(f)
    \/ \E w \in late : LateWrite(w)
    \/ Local

Spec == Init /\ [][Next]_vars
(* The tasks that wait for a lock, a background write or another reply     *)
(* (the others run to their end once they are scheduled): system calls and *)
(* background writes end, tokio's mutex is fair, the client takes replies  *)
(* and goes on with a listing that it has begun.                           *)
FairSpec ==
    /\ Spec
    /\ \A t \in Tasks : /\ SF_vars(IoStep(t)) /\ WF_vars(ListStep(t)) /\ WF_vars(Receive(t))
                        /\ WF_vars(LowestFree(t) /\ SendNext(t))
    /\ \A f \in Fids : WF_vars(BackgroundWrite(f))
    /\ WF_vars(\E w \in late : LateWrite(w))

-----------------------------------------------------------------------------
(* One type invariant.                                                     *)
TypeOK ==
    /\ load.reqs \in Nat /\ load.env \in Nat
    /\ \A i \in Inos : /\ \A k \in DOMAIN dir[i] : dir[i][k] \in [name: Names, ino: Inos]
                      /\ kind[i] # "dir" => dir[i] = << >>
                      /\ \A k \in DOMAIN log[i] : log[i][k] \in DOMAIN writes
    /\ kind \in [Inos -> {"dir", "file", "free"}]
    /\ told \in [Fids -> Inos \cup {NoIno}]
    /\ \A f \in Fids : file[f] # NoFile =>
          file[f] \in [ino: Inos, pos: {0, 1}, bg: 0..Len(writes), err: 0..Len(writes)]
    /\ \A t \in Tasks : /\ task[t].op \in Ops \cup {"none"}
                       /\ task[t].res \in {"none", "ok", "error", "refused"}
    /\ late \subseteq DOMAIN writes /\ stale \subseteq (Fids \cup Tasks)

(* Fids hold paths (unpfs.rs, UnpfsFid): as long as nobody has changed an  *)
(* entry on its path, a fid names the inode whose qid the client was given *)
(* for it, by Rwalk, Rlopen or Rlcreate, and its open file is that inode,  *)
(* although get_qid and open are two system calls.                         *)
FidNamesObject ==
    \A f \in Fids \ stale : told[f] # NoIno =>
        /\ Resolve(path[f]) = told[f]
        /\ file[f] # NoFile => file[f].ino = told[f]

(* The table of fids and the tree keep their types on the way.             *)
UnpfsInv == TypeOK /\ FidNamesObject

(* rlcreate and rmkdir make or open the file and then ask for its qid: it  *)
(* is what get_qid finds, and what the path names when the request is      *)
(* answered, unless somebody else has changed an entry on the path.  So an *)
(* error after the file was made (which leaks rlcreate's descriptor) is    *)
(* that of a refused lstat, and the file is there.                         *)
MadeEntryStands ==
    \A t \in Tasks \ stale :
        task[t].op \in {"lcreate", "mkdir"} /\ task[t].pc = "done" /\ task[t].ino # NoIno =>
            task[t].res # "error" /\ Resolve(task[t].path) = task[t].ino

(* rsetattr changes one file, unless an entry on its path is changed       *)
(* meanwhile: all that was asked for (but for the times, whose error is    *)
(* ignored), or, with an error, what comes first of mode, owner and size.  *)
SetattrPrefix ==
    \A t \in Tasks \ stale : At(t, "setattr", "done") =>
        LET set(i) == {a \in ToSet(task[t].want) : i # NoIno /\ <<t, a>> \in attr[i]}
            at == Resolve(task[t].path)
        IN /\ \A i \in Inos \ {at} : set(i) = {}
           /\ IF task[t].res = "ok" THEN ToSet(task[t].want) \ {"times"} \subseteq set(at)
              ELSE \E k \in 0..(Len(task[t].want) - 1) :
                       set(at) = ToSet(SubSeq(task[t].want, 1, k))

(* The paging of rreaddir: at the end of a listing the dots and every      *)
(* entry that was there, at the same place, from its beginning have been   *)
(* returned once, whatever was created and removed behind them.            *)
Times(n) == Cardinality({k \in DOMAIN list.got : list.got[k] = n})
ListingExact ==
    list.st = "ended" /\ list.fid \notin stale =>
        \A n \in {".", ".."} \cup {e[1] : e \in list.kept} : Times(n) = 1

(* rread waits for the background write: it never returns data older than  *)
(* a write answered on the same fid before it was sent, unless that write  *)
(* has failed.  The same holds of what a successful rfsync leaves behind.  *)
Position(w) == SelectInSeq(log[writes[w].ino], LAMBDA x : x = w)
ReadYourWrites ==
    \A t \in Tasks : At(t, "read", "done") \/ At(t, "fsync", "done") =>
      \A w \in task[t].before : task[t].res = "ok" =>
        /\ writes[w].st # "flying"
        /\ At(t, "read", "done") /\ writes[w].off = task[t].off /\ writes[w].st = "landed"
              => task[t].at # 0 /\ Position(w) <= Position(task[t].at)

(* The writes of one fid reach the file in the order in which they were    *)
(* answered, and none is answered after one whose error was not reported.  *)
WritesInOrder ==
    \A v, w \in DOMAIN writes : v < w /\ writes[v].fid # NoFid /\ writes[v].fid = writes[w].fid =>
        /\ writes[v].st \notin {"flying", "failed"}
        /\ writes[v].st = "landed" /\ writes[w].st = "landed" => Position(v) < Position(w)

(* A write that was answered gets to the file or fails, even if its fid is *)
(* clunked at once: again and again no write is under way.                 *)
WritesLand == []<>(\A w \in DOMAIN writes : writes[w].st # "flying")

(* Nothing waits for ever: every request is answered, whoever holds the    *)
(* mutex of its file, a listing comes to an end, and so does every write.  *)
RequestsEnd ==
    /\ \A t \in Tasks : At(t, "read", "ready") \/ At(t, "write", "ready")
                         \/ At(t, "fsync", "ready") ~> task[t].pc = "free"
    /\ list.st = "on" ~> list.st # "on"
    /\ WritesLand
=============================================================================
