----------------------------- MODULE UnpfsProofs -----------------------------
(***************************************************************************)
(* Proofs about Unpfs, for any tree, any number of fids and of requests    *)
(* under way at once.                                                      *)
(***************************************************************************)
EXTENDS Unpfs, LocalTreeProofs, FiniteSetTheorems, TLAPS

-----------------------------------------------------------------------------
(* The inductive invariant.                                                *)

FileRec == [ino: Inos, pos: {0, 1}, bg: Nat, err: Nat]
WriteRec == [fid: Fids \cup {NoFid}, ino: Inos, off: {0, 1},
             st: {"flying", "landed", "failed", "reported", "unheard"}]
Attrs == {"mode", "owner", "size", "times"}
Runs(t) == task[t].pc \notin {"free", "done"}

(* The table of fids: only what the client was told of is open.            *)
FidInv ==
    /\ path \in [Fids -> Seq(Names) \cup {NoPath}]
    /\ told \in [Fids -> Inos \cup {NoIno}]
    /\ file \in [Fids -> FileRec \cup {NoFile}]
    /\ \A f \in Fids : /\ told[f] # NoIno => path[f] # NoPath
                       /\ file[f] # NoFile => told[f] # NoIno

LoadInv ==
    /\ {"ops", "reqs", "env"} \subseteq DOMAIN load
    /\ load.ops \subseteq Ops /\ load.reqs \in Nat /\ load.env \in Nat

ListInv ==
    /\ DOMAIN list = {"st", "fid", "off", "got", "kept"}
    /\ list.fid \in Fids \cup {NoFid}
    /\ list.st = "on" => list.fid # NoFid
    /\ list.fid # NoFid => told[list.fid] # NoIno

(* A request: the stages of each operation, and what it keeps in them.     *)
Fields == {"op", "pc", "fid", "new", "names", "path", "at", "ino", "want", "off",
           "before", "ents", "res"}
IsTask(r) == DOMAIN r = Fields

Stages(op) ==
    {"ready", "done"} \cup
        CASE op = "walk" -> {"bind"}
          [] op = "setattr" -> {"times"}
          [] op = "readdir" -> {"entry"}
          [] op = "lopen" -> {"open"}
          [] op \in {"lcreate", "mkdir"} -> {"stat"}
          [] op = "unlinkat" -> {"remove"}
          [] op \in {"read", "write", "fsync"} -> {"seek", "io"}
          [] OTHER -> {}

Request(r) ==
    /\ r.op \in Ops /\ r.pc \in Stages(r.op)
    /\ r.op # "attach" => r.fid \in Fids
    /\ r.op \in {"attach", "walk", "renameat"} => r.new \in Fids
    /\ r.op = "attach" => r.path = << >>
    /\ r.op = "walk" => /\ r.names \in Seq(Names) /\ r.at \in Inos \cup {NoIno}
                        /\ r.pc = "bind" => r.at = NoIno
    /\ r.op = "setattr" => /\ r.want \in Wants /\ r.off \in 0..Len(r.want)
                           /\ r.pc = "times" => r.off < Len(r.want)
    /\ r.op = "lopen" /\ r.pc = "open" => r.at \in Inos
    /\ r.op \in {"lcreate", "mkdir"} => /\ r.names \in {<<n>> : n \in Names}
                                        /\ r.pc = "ready" => r.ino = NoIno
                                        /\ r.pc = "stat" => r.ino \in Inos
    /\ r.op = "renameat" => r.names \in Names \X Names
    /\ r.op = "unlinkat" => r.path # << >>
    /\ r.op \in {"read", "write"} => r.off \in {0, 1}

TaskOK(r) ==
    /\ IsTask(r) /\ r.path \in Seq(Names) /\ r.res \in {"none", "ok", "error", "refused"}
    /\ r = Free \/ Request(r)

TaskInv == DOMAIN task = Tasks /\ \A t \in Tasks : TaskOK(task[t])

(* What the client's rules give: while a request runs its fid stays, one   *)
(* that is opened, created into or clunked is named by no other request,   *)
(* and neither is a new one.                                               *)
FidStays ==
    \A t \in Tasks : Runs(t) /\ task[t].op # "attach" =>
        /\ path[task[t].fid] # NoPath
        /\ task[t].op # "clunk" => told[task[t].fid] # NoIno
        /\ task[t].op = "renameat" => told[task[t].new] # NoIno
AloneInv ==
    \A t, u \in Tasks : t # u /\ Busy(t) /\ Busy(u) /\ task[t].op \in Alone =>
        task[u].fid # task[t].fid /\ task[u].new # task[t].fid
NewInv ==
    \A t \in Tasks : Runs(t) /\ task[t].op \in {"attach", "walk"} =>
        /\ path[task[t].new] = NoPath
        /\ \A u \in Tasks : u # t /\ Busy(u) => task[u].new # task[t].new
UnopenedInv ==
    \A t \in Tasks : Runs(t) /\ task[t].op \in {"lopen", "lcreate"} => file[task[t].fid] = NoFile
SamePath ==
    \A t \in Tasks :
      Runs(t) /\ (task[t].op = "lopen" \/ (At(t, "walk", "ready") /\ task[t].at = NoIno)) =>
        path[task[t].fid] = task[t].path

UseInv == FidStays /\ AloneInv /\ NewInv /\ UnopenedInv /\ SamePath

(* The writes.  A fid's write in flight and its unreported error are those *)
(* of its File; all others have landed or been heard of.                   *)
DataInv == writes \in Seq(WriteRec) /\ log \in [Inos -> Seq(Nat)]

BufferInv ==
    \A f \in Fids : file[f] # NoFile =>
        /\ file[f].bg # 0 => /\ file[f].bg \in DOMAIN writes
                             /\ writes[file[f].bg].fid = f
                             /\ writes[file[f].bg].st = "flying"
        /\ file[f].err # 0 => /\ file[f].err \in DOMAIN writes
                              /\ writes[file[f].err].fid = f
                              /\ writes[file[f].err].st = "failed"
        /\ file[f].bg = 0 \/ file[f].err = 0
OwnInv ==
    \A w \in DOMAIN writes : LET f == writes[w].fid IN
        IF f = NoFid
        THEN writes[w].st # "failed"
        ELSE /\ file[f] # NoFile /\ writes[w].ino = file[f].ino
             /\ writes[w].st = "flying" => file[f].bg = w
             /\ writes[w].st = "failed" => file[f].err = w
LateInv ==
    \A w \in late : w \in DOMAIN writes /\ writes[w].fid = NoFid /\ writes[w].st = "flying"
LogInv ==
    /\ \A i \in Inos : \A k \in DOMAIN log[i] :
          /\ log[i][k] \in DOMAIN writes
          /\ writes[log[i][k]].st = "landed" /\ writes[log[i][k]].ino = i
          /\ \A l \in DOMAIN log[i] : log[i][l] = log[i][k] => l = k
    /\ \A w \in DOMAIN writes : writes[w].st = "landed" =>
          \E k \in DOMAIN log[writes[w].ino] : log[writes[w].ino][k] = w
OrderInv ==
    \A v, w \in DOMAIN writes : v < w /\ writes[v].fid # NoFid /\ writes[v].fid = writes[w].fid =>
        /\ writes[v].st \notin {"flying", "failed"}
        /\ \A i \in Inos : \A k, l \in DOMAIN log[i] : log[i][k] = v /\ log[i][l] = w => k < l

(* The mutex of a file.                                                    *)
HoldsLock(t) == task[t].pc \in {"seek", "io"}
LockInv ==
    /\ \A t \in Tasks : HoldsLock(t) =>
          /\ file[task[t].fid] # NoFile
          /\ task[t].pc = "io" =>
                /\ file[task[t].fid].bg = 0
                /\ task[t].op # "fsync" => file[task[t].fid].pos = task[t].off
    /\ \A t, u \in Tasks : t # u /\ HoldsLock(t) /\ HoldsLock(u) => task[t].fid # task[u].fid

WriteInv == DataInv /\ BufferInv /\ OwnInv /\ LateInv /\ LogInv /\ OrderInv /\ LockInv

(* Who read what.                                                          *)
BeforeInv ==
    \A t \in Tasks : task[t].op \in {"read", "fsync"} => \A w \in task[t].before :
        /\ w \in DOMAIN writes
        /\ Runs(t) => writes[w].fid = task[t].fid
SeenInv ==
    \A t \in Tasks : task[t].op \in {"read", "fsync"} /\ task[t].pc = "done" /\ task[t].res = "ok" =>
      \A w \in task[t].before :
        /\ writes[w].st # "flying"
        /\ task[t].op = "read" /\ writes[w].off = task[t].off /\ writes[w].st = "landed" =>
             /\ task[t].at \in DOMAIN writes /\ writes[task[t].at].ino = writes[w].ino
             /\ \E k, l \in DOMAIN log[writes[w].ino] :
                   /\ log[writes[w].ino][k] = w /\ log[writes[w].ino][l] = task[t].at
                   /\ k <= l
ReadInv == BeforeInv /\ SeenInv

(* The names: what was resolved stands as long as no entry was changed.    *)
FoundInv ==
    \A t \in Tasks \ stale :
        /\ task[t].op = "walk" /\ Runs(t) /\ task[t].at # NoIno => Resolve(task[t].path) = task[t].at
        /\ At(t, "lopen", "open") => Resolve(task[t].path) = task[t].at
        /\ task[t].op \in {"lcreate", "mkdir"} /\ task[t].pc = "stat" =>
              Resolve(task[t].path) = task[t].ino
UnansweredInv == \A t \in Tasks : Runs(t) => task[t].res = "none"
NameInv ==
    /\ stale \subseteq Fids \cup Tasks
    /\ FidNamesObject /\ FoundInv /\ UnansweredInv /\ MadeEntryStands

(* The attributes that a request has set so far.                           *)
SetByNone(t) == \A i \in Inos : \A a \in Attrs : <<t, a>> \notin attr[i]
SetSoFar(t) ==
    /\ \A i \in Inos : \A a \in Attrs : <<t, a>> \in attr[i] =>
          i = Resolve(task[t].path) /\ \E k \in 1..task[t].off : task[t].want[k] = a
    /\ \A k \in 1..task[t].off : task[t].want[k] # "times" =>
          /\ Resolve(task[t].path) \in Inos
          /\ <<t, task[t].want[k]>> \in attr[Resolve(task[t].path)]
    /\ task[t].pc = "done" => IF task[t].res = "ok" THEN task[t].off = Len(task[t].want)
                              ELSE task[t].off < Len(task[t].want)
AttrInv ==
    /\ attr \in [Inos -> SUBSET (Tasks \X Attrs)]
    /\ \A t \in Tasks : IF task[t].op # "setattr" THEN SetByNone(t)
                        ELSE t \notin stale => SetSoFar(t)
    /\ \A t \in Tasks : At(t, "setattr", "times") => NextAttr(t) = "times"

TypeInv == TreeInv /\ FidInv /\ LoadInv /\ ListInv /\ TaskInv
IInv == TypeInv /\ UseInv /\ WriteInv /\ ReadInv /\ NameInv /\ AttrInv

-----------------------------------------------------------------------------
(* The steps of a task.                                                    *)

(* What a request keeps from its sending to its answer.                    *)
Keeps(r, s) ==
    /\ s.op = r.op /\ s.fid = r.fid /\ s.new = r.new /\ s.want = r.want /\ s.before = r.before
    /\ s.pc # "free"

(* The record of a task is replaced. *)
LEMMA Replaced ==
    ASSUME TaskInv, NEW t \in Tasks, NEW r, Goes(t, r), TaskOK(r)
    PROVE  /\ TaskInv' /\ task'[t] = r
           /\ \A u \in Tasks \ {t} : task'[u] = task[u]
BY DEF TaskInv, Goes, TaskOK, Request, IsTask

(* A task that is at a stage of an operation. *)
LEMMA Placed ==
    ASSUME TaskInv, NEW t \in Tasks, Busy(t)
    PROVE  IsTask(task[t]) /\ task[t].path \in Seq(Names) /\ Request(task[t])
BY DEF TaskInv, TaskOK, Busy, Free

(* The answer to a request. *)
LEMMA Replies ==
    ASSUME TaskInv, NEW t \in Tasks, Runs(t), NEW res \in {"ok", "error", "refused"}, Reply(t, res)
    PROVE  /\ task'[t] = [task[t] EXCEPT !.pc = "done", !.res = res]
           /\ Goes(t, task'[t]) /\ TaskOK(task'[t]) /\ Keeps(task[t], task'[t])
           /\ task'[t].pc = "done" /\ task'[t].res = res
           /\ task'[t].path = task[t].path /\ task'[t].names = task[t].names
           /\ task'[t].at = task[t].at /\ task'[t].ino = task[t].ino
           /\ task'[t].off = task[t].off
<1>1. IsTask(task[t]) /\ task[t].path \in Seq(Names) /\ Request(task[t])
  BY Placed DEF Runs, Busy
<1> DEFINE r == [task[t] EXCEPT !.pc = "done", !.res = res]
<1>2. task'[t] = r /\ Goes(t, r)
  BY DEF Reply, Goes, TaskInv
<1>3. /\ IsTask(r) /\ r.pc = "done" /\ r.res = res
      /\ \A x \in Fields \ {"pc", "res"} : r[x] = task[t][x]
  BY <1>1 DEF IsTask, Fields
<1> HIDE DEF r
<1>4. /\ r.op = task[t].op /\ r.fid = task[t].fid /\ r.new = task[t].new
      /\ r.names = task[t].names /\ r.path = task[t].path /\ r.at = task[t].at
      /\ r.ino = task[t].ino /\ r.want = task[t].want /\ r.off = task[t].off
      /\ r.before = task[t].before
  BY <1>3 DEF Fields
<1>5. Request(r)
  BY <1>1, <1>3, <1>4 DEF Request, Stages
<1>6. QED
  BY <1>1, <1>2, <1>3, <1>4, <1>5 DEF TaskOK, Keeps, r

(* Here and there: what a path names is an inode, or there is none. *)
LEMMA Resolved ==
    ASSUME TreeInv, NEW p \in Seq(Names)
    PROVE  Resolve(p) \in Inos \cup {NoIno}
BY ThroughType DEF TreeInv, TreeOf, Resolve

(* Each step of a task belongs to a request that runs, and keeps it well   *)
(* formed. *)
LEMMA Stepped ==
    ASSUME TypeInv, NEW t \in Tasks, TaskStep(t)
    PROVE  /\ Runs(t) /\ Request(task[t]) /\ IsTask(task[t])
           /\ Goes(t, task'[t]) /\ TaskOK(task'[t]) /\ Keeps(task[t], task'[t])
<1> DEFINE Good(r) == Goes(t, r) /\ TaskOK(r) /\ Keeps(task[t], r)
<1> USE DEF TypeInv
<1>1. Runs(t)
  BY DEF TaskStep, IoStep, ListStep, At, Runs, LockFile, Seek, Read, Write, Fsync, Clunk,
         ReaddirOpens, ReaddirEntry, ReaddirEnds, WalkStep, Bind, Look, SetattrStep,
         SetattrTimes, SetattrEnds, LopenStat, LopenOpen, LcreateStat, MkdirStat, Refused, MakeFile,
         Renameat, UnlinkStat, UnlinkRemove
<1>2. IsTask(task[t]) /\ task[t].path \in Seq(Names) /\ Request(task[t])
  BY <1>1, Placed DEF Runs, Busy
<1>3. task[t].res \in {"none", "ok", "error", "refused"}
  BY DEF TaskInv, TaskOK
<1>4. Here(t) \in Inos \cup {NoIno}
  BY <1>2, Resolved DEF Here
<1>5. ASSUME NEW r, Good(r) PROVE Good(task'[t])
  BY <1>5 DEF Goes, TaskInv
<1>6. ASSUME NEW res \in {"ok", "error", "refused"}, Reply(t, res) PROVE Good(task'[t])
  BY <1>1, <1>6, Replies
<1>7. ASSUME NEW pc \in Stages(task[t].op), Moves(t, pc),
             task[t].op = "walk" => pc # "bind",
             task[t].op = "lopen" => pc # "open",
             task[t].op \in {"lcreate", "mkdir"} => pc # "stat" /\ pc # "ready",
             task[t].op = "setattr" /\ pc = "times" => task[t].off < Len(task[t].want)
      PROVE  Good(task'[t])
  <2> DEFINE r == [task[t] EXCEPT !.pc = pc]
  <2>1. IsTask(r) /\ r.pc = pc /\ \A x \in Fields \ {"pc"} : r[x] = task[t][x]
    BY <1>2 DEF IsTask, Fields
  <2>2. Goes(t, r)
    BY <1>7 DEF Moves
  <2> HIDE DEF r
  <2>3. /\ r.op = task[t].op /\ r.fid = task[t].fid /\ r.new = task[t].new
        /\ r.names = task[t].names /\ r.path = task[t].path /\ r.at = task[t].at
        /\ r.ino = task[t].ino /\ r.want = task[t].want /\ r.off = task[t].off
        /\ r.before = task[t].before /\ r.res = task[t].res
    BY <2>1 DEF Fields
  <2>4. Request(r) /\ r.pc # "free"
    BY <1>2, <1>7, <2>1, <2>3 DEF Request, Stages
  <2>5. QED
    BY <1>2, <1>3, <1>5, <2>1, <2>2, <2>3, <2>4 DEF TaskOK, Keeps
<1>8. ASSUME Error(t) PROVE Good(task'[t])
  BY <1>6, <1>8 DEF Error
<1> SUFFICES Good(task'[t])
  BY <1>1, <1>2
<1> HIDE DEF Good
<1>10. CASE LockFile(t)
  <2>1. CASE file[task[t].fid] = NoFile
    BY <1>8, <1>10, <2>1 DEF LockFile
  <2>2. CASE file[task[t].fid] # NoFile
    BY <1>7, <1>10, <2>2 DEF LockFile, Stages
  <2>3. QED
    BY <2>1, <2>2
<1>11. CASE Seek(t)
  <2>1. task[t].op \in {"read", "write", "fsync"}
    BY <1>2, <1>11 DEF Seek, Request, Stages
  <2>2. CASE Error(t)
    BY <1>8, <2>2
  <2>3. CASE Moves(t, "io")
    BY <1>7, <2>1, <2>3 DEF Stages
  <2>4. QED
    BY <1>11, <2>2, <2>3 DEF Seek
<1>12. CASE Read(t)
  <2>1. CASE Error(t)
    BY <1>8, <2>1
  <2> DEFINE i == Newest(file[task[t].fid].ino, file[task[t].fid].pos)
             r == [task[t] EXCEPT !.pc = "done", !.res = "ok", !.at = i]
  <2>2. CASE Goes(t, r)
    <3> HIDE DEF i
    <3>1. IsTask(r) /\ r.pc = "done" /\ r.res = "ok"
          /\ \A x \in Fields \ {"pc", "res", "at"} : r[x] = task[t][x]
      BY <1>2 DEF IsTask, Fields
    <3> HIDE DEF r
    <3>2. /\ r.op = task[t].op /\ r.fid = task[t].fid /\ r.new = task[t].new
          /\ r.path = task[t].path /\ r.want = task[t].want /\ r.off = task[t].off
          /\ r.before = task[t].before
      BY <3>1 DEF Fields
    <3>3. Request(r)
      BY <1>2, <1>12, <3>1, <3>2 DEF Request, Stages, Read, At
    <3>4. QED
      BY <1>2, <1>5, <2>2, <3>1, <3>2, <3>3 DEF TaskOK, Keeps, Good
  <2>3. QED
    BY <1>12, <2>1, <2>2 DEF Read
<1>13. CASE Write(t) \/ Fsync(t) \/ Clunk(t) \/ ReaddirEnds(t) \/ Bind(t) \/ Look(t)
            \/ SetattrEnds(t) \/ LopenOpen(t) \/ LcreateStat(t) \/ MkdirStat(t)
            \/ Renameat(t) \/ UnlinkRemove(t)
  <2>1. Reply(t, "ok") \/ Reply(t, "error") \/ Reply(t, "refused")
    BY <1>13 DEF Write, Fsync, Clunk, ReaddirEnds, Bind, Look, SetattrEnds, LopenOpen, LcreateStat,
                 MkdirStat, Refused, Renameat, UnlinkRemove, Error
  <2>2. QED
    BY <1>6, <2>1
<1>14. CASE ReaddirOpens(t)
  <2>1. CASE Error(t)
    BY <1>8, <2>1
  <2>2. CASE ~Error(t)
    <3>1. PICK i, ns, es : Goes(t, [task[t] EXCEPT !.pc = "entry", !.ino = i, !.names = ns, !.ents = es])
      BY <1>14, <2>2 DEF ReaddirOpens
    <3> DEFINE r == [task[t] EXCEPT !.pc = "entry", !.ino = i, !.names = ns, !.ents = es]
    <3>2. /\ IsTask(r) /\ r.pc = "entry"
          /\ \A x \in Fields \ {"pc", "ino", "names", "ents"} : r[x] = task[t][x]
      BY <1>2 DEF IsTask, Fields
    <3> HIDE DEF r
    <3>3. /\ r.op = task[t].op /\ r.fid = task[t].fid /\ r.new = task[t].new
          /\ r.path = task[t].path /\ r.want = task[t].want /\ r.off = task[t].off
          /\ r.before = task[t].before /\ r.res = task[t].res
      BY <3>2 DEF Fields
    <3>4. Request(r)
      BY <1>2, <1>14, <3>2, <3>3 DEF Request, Stages, ReaddirOpens, At
    <3>5. QED
      BY <1>2, <1>3, <1>5, <3>1, <3>2, <3>3, <3>4 DEF TaskOK, Keeps, Good, r
  <2>3. QED
    BY <2>1, <2>2
<1>15. CASE ReaddirEntry(t)
  <2>1. CASE Error(t) \/ Reply(t, "ok")
    BY <1>6, <1>8, <2>1
  <2>2. ASSUME NEW n, Goes(t, [task[t] EXCEPT !.names = Append(@, n), !.ents = Tail(@)])
        PROVE  Good(task'[t])
    <3> DEFINE r == [task[t] EXCEPT !.names = Append(task[t].names, n), !.ents = Tail(task[t].ents)]
    <3>1. IsTask(r) /\ \A x \in Fields \ {"names", "ents"} : r[x] = task[t][x]
      BY <1>2 DEF IsTask, Fields
    <3>2. Goes(t, r)
      BY <2>2
    <3> HIDE DEF r
    <3>3. /\ r.op = task[t].op /\ r.fid = task[t].fid /\ r.new = task[t].new /\ r.pc = task[t].pc
          /\ r.path = task[t].path /\ r.want = task[t].want /\ r.off = task[t].off
          /\ r.before = task[t].before /\ r.res = task[t].res
      BY <3>1 DEF Fields
    <3>4. Request(r) /\ r.pc # "free"
      BY <1>2, <1>15, <3>3 DEF Request, Stages, ReaddirEntry, At
    <3>5. QED
      BY <1>2, <1>3, <1>5, <3>1, <3>2, <3>3, <3>4 DEF TaskOK, Keeps, Good
  <2>3. QED
    BY <1>15, <2>1, <2>2 DEF ReaddirEntry
<1>16. CASE WalkStep(t)
  <2> DEFINE p == Append(task[t].path, Head(task[t].names))
  <2>0. task[t].names \in Seq(Names) /\ task[t].op = "walk" /\ task[t].pc = "ready"
    BY <1>2, <1>16 DEF WalkStep, At, Request
  <2>1. p \in Seq(Names) /\ Tail(task[t].names) \in Seq(Names)
    BY <1>2, <1>16, <2>0 DEF WalkStep
  <2>2. Resolve(p) \in Inos \cup {NoIno}
    BY <2>1, Resolved
  <2> HIDE DEF p
  <2>3. CASE Error(t)
    BY <1>8, <2>3
  <2>4. CASE Goes(t, [task[t] EXCEPT !.pc = "bind", !.path = p, !.at = NoIno])
    <3> DEFINE r == [task[t] EXCEPT !.pc = "bind", !.path = p, !.at = NoIno]
    <3>1. /\ IsTask(r) /\ r.pc = "bind" /\ r.path = p /\ r.at = NoIno
          /\ \A x \in Fields \ {"pc", "path", "at"} : r[x] = task[t][x]
      BY <1>2 DEF IsTask, Fields
    <3> HIDE DEF r
    <3>3. /\ r.op = task[t].op /\ r.fid = task[t].fid /\ r.new = task[t].new
          /\ r.names = task[t].names /\ r.want = task[t].want /\ r.off = task[t].off
          /\ r.before = task[t].before /\ r.res = task[t].res
      BY <3>1 DEF Fields
    <3>4. Request(r)
      BY <1>2, <2>0, <2>1, <3>1, <3>3 DEF Request, Stages
    <3>5. QED
      BY <1>3, <1>5, <2>1, <2>4, <3>1, <3>3, <3>4 DEF TaskOK, Keeps, Good, r
  <2>5. CASE Goes(t, [task[t] EXCEPT !.path = p, !.at = Resolve(p), !.names = Tail(task[t].names)])
    <3> DEFINE r == [task[t] EXCEPT !.path = p, !.at = Resolve(p), !.names = Tail(task[t].names)]
    <3>1. /\ IsTask(r) /\ r.path = p /\ r.at = Resolve(p) /\ r.names = Tail(task[t].names)
          /\ \A x \in Fields \ {"names", "path", "at"} : r[x] = task[t][x]
      BY <1>2 DEF IsTask, Fields
    <3> HIDE DEF r
    <3>3. /\ r.op = task[t].op /\ r.fid = task[t].fid /\ r.new = task[t].new
          /\ r.pc = task[t].pc /\ r.want = task[t].want /\ r.off = task[t].off
          /\ r.before = task[t].before /\ r.res = task[t].res
      BY <3>1 DEF Fields
    <3>4. Request(r)
      BY <1>2, <2>0, <2>1, <2>2, <3>1, <3>3 DEF Request, Stages
    <3>5. QED
      BY <1>3, <1>5, <2>0, <2>1, <2>5, <3>1, <3>3, <3>4 DEF TaskOK, Keeps, Good, r
  <2>6. QED
    BY <1>16, <2>3, <2>4, <2>5 DEF WalkStep, p
<1>17. CASE SetattrStep(t)
  <2>0. task[t].op = "setattr" /\ task[t].pc = "ready" /\ task[t].off < Len(task[t].want)
    BY <1>17 DEF SetattrStep, At
  <2>1. CASE SetattrFails(t)
    BY <1>8, <2>1 DEF SetattrFails
  <2>2. CASE Moves(t, "times")
    BY <1>7, <2>0, <2>2 DEF Stages
  <2>3. CASE Goes(t, [task[t] EXCEPT !.off = @ + 1])
    <3> DEFINE r == [task[t] EXCEPT !.off = task[t].off + 1]
    <3>1. /\ IsTask(r) /\ r.off = task[t].off + 1
          /\ \A x \in Fields \ {"off"} : r[x] = task[t][x]
      BY <1>2 DEF IsTask, Fields
    <3>2. Goes(t, r)
      BY <2>3
    <3> HIDE DEF r
    <3>3. /\ r.op = task[t].op /\ r.fid = task[t].fid /\ r.new = task[t].new
          /\ r.path = task[t].path /\ r.pc = task[t].pc /\ r.want = task[t].want
          /\ r.before = task[t].before /\ r.res = task[t].res
      BY <3>1 DEF Fields
    <3>4. r.off \in 0..Len(r.want)
      <4>1. task[t].want \in Wants /\ task[t].off \in 0..Len(task[t].want)
        BY <1>2, <2>0 DEF Request
      <4>2. Len(task[t].want) \in Nat
        BY <4>1, WantAssumption
      <4>3. QED
        BY <2>0, <3>1, <3>3, <4>1, <4>2
    <3>5. Request(r)
      BY <1>2, <2>0, <3>3, <3>4 DEF Request, Stages
    <3>6. QED
      BY <1>2, <1>3, <1>5, <2>0, <3>1, <3>2, <3>3, <3>5 DEF TaskOK, Keeps, Good
  <2>4. QED
    BY <1>17, <2>1, <2>2, <2>3 DEF SetattrStep
<1>18. CASE SetattrTimes(t)
  <2>0. task[t].op = "setattr" /\ task[t].pc = "times" /\ task[t].off < Len(task[t].want)
    BY <1>2, <1>18 DEF SetattrTimes, At, Request
  <2> DEFINE r == [task[t] EXCEPT !.off = task[t].off + 1, !.pc = "ready"]
  <2>1. /\ IsTask(r) /\ r.off = task[t].off + 1 /\ r.pc = "ready"
        /\ \A x \in Fields \ {"off", "pc"} : r[x] = task[t][x]
    BY <1>2 DEF IsTask, Fields
  <2>2. Goes(t, r)
    BY <1>18 DEF SetattrTimes
  <2> HIDE DEF r
  <2>3. /\ r.op = task[t].op /\ r.fid = task[t].fid /\ r.new = task[t].new
        /\ r.path = task[t].path /\ r.want = task[t].want
        /\ r.before = task[t].before /\ r.res = task[t].res
    BY <2>1 DEF Fields
  <2>4. r.off \in 0..Len(r.want)
    <3>1. task[t].want \in Wants /\ task[t].off \in 0..Len(task[t].want)
      BY <1>2, <2>0 DEF Request
    <3>2. Len(task[t].want) \in Nat
      BY <3>1, WantAssumption
    <3>3. QED
      BY <2>0, <2>1, <2>3, <3>1, <3>2
  <2>5. Request(r)
    BY <1>2, <2>0, <2>1, <2>3, <2>4 DEF Request, Stages
  <2>6. QED
    BY <1>2, <1>3, <1>5, <2>1, <2>2, <2>3, <2>5 DEF TaskOK, Keeps, Good
<1>19. CASE LopenStat(t) \/ UnlinkStat(t)
  <2>0. (task[t].op = "lopen" \/ task[t].op = "unlinkat") /\ task[t].pc = "ready"
    BY <1>19 DEF LopenStat, UnlinkStat, At
  <2>1. CASE Error(t) \/ Reply(t, "ok")
    BY <1>6, <1>8, <2>1
  <2>2. ASSUME NEW pc \in Stages(task[t].op), Here(t) # NoIno,
               Goes(t, [task[t] EXCEPT !.pc = pc, !.at = Here(t)])
        PROVE  Good(task'[t])
    <3> DEFINE r == [task[t] EXCEPT !.pc = pc, !.at = Here(t)]
    <3>1. /\ IsTask(r) /\ r.pc = pc /\ r.at = Here(t)
          /\ \A x \in Fields \ {"at", "pc"} : r[x] = task[t][x]
      BY <1>2 DEF IsTask, Fields
    <3> HIDE DEF r
    <3>3. /\ r.op = task[t].op /\ r.fid = task[t].fid /\ r.new = task[t].new
          /\ r.path = task[t].path /\ r.want = task[t].want /\ r.off = task[t].off
          /\ r.before = task[t].before /\ r.res = task[t].res
      BY <3>1 DEF Fields
    <3>4. Request(r) /\ r.pc # "free"
      BY <1>2, <1>4, <2>0, <2>2, <3>1, <3>3 DEF Request, Stages
    <3>5. QED
      BY <1>2, <1>3, <1>5, <2>2, <3>1, <3>3, <3>4 DEF TaskOK, Keeps, Good, r
  <2>3. QED
    BY <1>19, <2>1, <2>2 DEF LopenStat, UnlinkStat, At, Stages
<1>20. CASE MakeFile(t)
  <2> DEFINE p == task[t].path \o task[t].names
  <2>0. task[t].op \in {"lcreate", "mkdir"} /\ p \in Seq(Names)
    <3>1. task[t].op \in {"lcreate", "mkdir"} /\ task[t].names \in {<<n>> : n \in Names}
      BY <1>2, <1>20 DEF MakeFile, At, Request
    <3>2. PICK n \in Names : task[t].names = <<n>>
      BY <3>1
    <3>3. <<n>> \in Seq(Names)
      OBVIOUS
    <3>4. QED
      BY <1>2, <3>1, <3>2, <3>3, ConcatProperties
  <2>1. CASE Error(t)
    BY <1>8, <2>1
  <2> HIDE DEF p
  <2>2. ASSUME NEW i \in Inos, Goes(t, [task[t] EXCEPT !.pc = "stat", !.ino = i, !.path = p])
        PROVE  Good(task'[t])
    <3> DEFINE r == [task[t] EXCEPT !.pc = "stat", !.ino = i, !.path = p]
    <3>1. /\ IsTask(r) /\ r.pc = "stat" /\ r.ino = i /\ r.path = p
          /\ \A x \in Fields \ {"ino", "pc", "path"} : r[x] = task[t][x]
      BY <1>2 DEF IsTask, Fields
    <3> HIDE DEF r
    <3>3. /\ r.op = task[t].op /\ r.fid = task[t].fid /\ r.new = task[t].new
          /\ r.names = task[t].names /\ r.want = task[t].want /\ r.off = task[t].off
          /\ r.before = task[t].before /\ r.res = task[t].res
      BY <3>1 DEF Fields
    <3>4. Request(r)
      BY <1>2, <2>0, <2>2, <3>1, <3>3 DEF Request, Stages
    <3>5. QED
      BY <1>3, <1>5, <2>0, <2>2, <3>1, <3>3, <3>4 DEF TaskOK, Keeps, Good, r
  <2>3. Resolve(p) \in Inos \cup {NoIno}
    BY <2>0, Resolved
  <2>4. Unused # {} => Fresh \in Inos
    BY FreshFree
  <2>5. QED
    BY <1>20, <2>1, <2>2, <2>3, <2>4 DEF MakeFile, MakeAt, MakeEntry, p
<1>21. QED
  BY <1>10, <1>11, <1>12, <1>13, <1>14, <1>15, <1>16, <1>17, <1>18, <1>19, <1>20
     DEF TaskStep, IoStep, ListStep

-----------------------------------------------------------------------------
(* The client.                                                             *)

(* The arguments of a request. *)
LEMMA Asked ==
    ASSUME NEW op \in Ops, NEW a \in Requests[op]
    PROVE  /\ IF op = "attach" THEN a.fid = NoFid ELSE a.fid \in Fids
           /\ IF op \in {"attach", "walk", "renameat"} THEN a.new \in Fids ELSE a.new = NoFid
           /\ op = "walk" => a.names \in Seq(Names)
           /\ op = "renameat" => a.names \in Names \X Names
           /\ op \in {"lcreate", "mkdir", "unlinkat"} => a.names \in {<<n>> : n \in Names}
           /\ op = "setattr" => a.want \in Wants /\ a.off = 0
           /\ op \in {"read", "write"} => a.off \in {0, 1}
<1>1. CASE op = "attach"
  BY <1>1 DEF Requests, Args, Ops
<1>2. CASE op = "walk"
  BY <1>2, NameAssumption DEF Requests, Args, Ops
<1>3. CASE op = "renameat"
  BY <1>3 DEF Requests, Args, Ops
<1>4. CASE op \in {"lcreate", "mkdir", "unlinkat"}
  BY <1>4 DEF Requests, Args, Ops
<1>5. CASE op = "setattr"
  BY <1>5 DEF Requests, Args, Ops
<1>6. CASE op \in {"read", "write"}
  BY <1>6 DEF Requests, Args, Ops
<1>7. CASE op \in {"look", "readdir", "lopen", "fsync", "clunk"}
  BY <1>7 DEF Requests, Args, Ops
<1>8. QED
  BY <1>1, <1>2, <1>3, <1>4, <1>5, <1>6, <1>7 DEF Ops

(* A request that the client's rules allow to be sent.                     *)
Allowed(r) ==
    /\ TaskOK(r) /\ Request(r)
    /\ r.pc = "ready" /\ r.res = "none" /\ r.at = NoIno /\ r.ino = NoIno
    /\ IF r.op = "attach" THEN r.fid = NoFid
       ELSE /\ path[r.fid] # NoPath /\ Shared(r.fid)
            /\ r.op # "clunk" => told[r.fid] # NoIno
    /\ r.op \in Alone => Idle(r.fid)
    /\ IF r.op \in {"attach", "walk"} THEN path[r.new] = NoPath /\ Idle(r.new)
       ELSE IF r.op = "renameat" THEN told[r.new] # NoIno /\ Shared(r.new)
       ELSE r.new = NoFid
    /\ r.op \in {"lopen", "lcreate"} => file[r.fid] = NoFile
    /\ r.op \in {"lopen", "walk"} => r.path = path[r.fid]
    /\ r.op \in {"read", "fsync"} => r.before = {w \in DOMAIN writes : writes[w].fid = r.fid}
    /\ r.op = "setattr" => r.off = 0

SendStep(t) ==
    /\ LowestFree(t)
    /\ \/ SendNext(t)
       \/ load.reqs > 0 /\ \E op \in load.ops : \E a \in Requests[op] : Send(t, op, a)

(* All that is sent is. *)
LEMMA Sent ==
    ASSUME TypeInv, NEW t \in Tasks, SendStep(t)
    PROVE  /\ task[t] = Free /\ Goes(t, task'[t]) /\ Allowed(task'[t])
           /\ stale' = stale \ {t}
           /\ UNCHANGED <<dir, kind, attr, path, filevars, told>>
<1> USE DEF TypeInv
<1>1. task[t] = Free
  BY DEF SendStep, LowestFree, Busy, TaskInv, TaskOK, Request, Stages
<1>2. /\ stale' = stale \ {t}
      /\ UNCHANGED <<dir, kind, attr, path, filevars, told>>
  BY DEF SendStep, SendNext, Send
<1>3. ASSUME SendNext(t) PROVE Goes(t, task'[t]) /\ Allowed(task'[t])
  <2> DEFINE r == [Free EXCEPT !.op = "readdir", !.pc = "ready", !.fid = list.fid,
                               !.off = list.off, !.path = path[list.fid]]
  <2>1. Goes(t, r)
    BY <1>3 DEF SendNext
  <2>2. /\ r.op = "readdir" /\ r.pc = "ready" /\ r.fid = list.fid /\ r.path = path[list.fid]
        /\ r.new = NoFid /\ r.at = NoIno /\ r.ino = NoIno /\ r.res = "none" /\ IsTask(r)
    BY DEF Free, IsTask, Fields
  <2> HIDE DEF r
  <2>3. /\ list.fid \in Fids /\ told[list.fid] # NoIno /\ Shared(list.fid)
        /\ path[list.fid] # NoPath /\ path[list.fid] \in Seq(Names)
    BY <1>3 DEF SendNext, ListInv, FidInv
  <2>4. Request(r)
    BY <2>2, <2>3 DEF Request, Stages, Ops
  <2>5. Allowed(r)
    BY <2>2, <2>3, <2>4 DEF Allowed, TaskOK, Alone
  <2>6. QED
    BY <2>1, <2>5 DEF Goes, TaskInv
<1>4. ASSUME NEW op \in load.ops, NEW a \in Requests[op], Send(t, op, a)
      PROVE  Goes(t, task'[t]) /\ Allowed(task'[t])
  <2>1. op \in Ops /\ MaySend(op, a)
    BY <1>4 DEF LoadInv, Send
  <2>2. /\ IF op = "attach" THEN a.fid = NoFid ELSE a.fid \in Fids
        /\ IF op \in {"attach", "walk", "renameat"} THEN a.new \in Fids ELSE a.new = NoFid
        /\ op = "walk" => a.names \in Seq(Names)
        /\ op = "renameat" => a.names \in Names \X Names
        /\ op \in {"lcreate", "mkdir", "unlinkat"} => a.names \in {<<n>> : n \in Names}
        /\ op = "setattr" => a.want \in Wants /\ a.off = 0
        /\ op \in {"read", "write"} => a.off \in {0, 1}
    BY <2>1, Asked
  <2> DEFINE p == PathOf(op, a)
             b == Before(op, a)
             r == [Free EXCEPT !.op = op, !.pc = "ready", !.fid = a.fid, !.new = a.new,
                               !.names = a.names, !.want = a.want, !.off = a.off,
                               !.path = p, !.before = b]
  <2>3. Goes(t, r)
    BY <1>4 DEF Send
  <2> HIDE DEF p, b
  <2>4. /\ r.op = op /\ r.pc = "ready" /\ r.fid = a.fid /\ r.new = a.new /\ r.names = a.names
        /\ r.want = a.want /\ r.off = a.off /\ r.path = p /\ r.before = b
        /\ r.at = NoIno /\ r.ino = NoIno /\ r.res = "none" /\ IsTask(r)
    BY DEF Free, IsTask, Fields
  <2> HIDE DEF r
  <2>5. op # "attach" => /\ path[a.fid] # NoPath /\ path[a.fid] \in Seq(Names) /\ Shared(a.fid)
                         /\ op # "clunk" => told[a.fid] # NoIno
                         /\ op \in Alone => Idle(a.fid)
    <3>1. op # "attach" => a.fid # NoFid /\ a.fid \in Fids
      BY <2>2, FidAssumption
    <3>2. QED
      BY <2>1, <3>1 DEF MaySend, FidInv
  <2>6. /\ p \in Seq(Names)
        /\ op = "attach" => p = << >>
        /\ op = "unlinkat" => p # << >>
        /\ op \in {"lopen", "walk"} => p = path[a.fid]
    <3>1. CASE op = "attach"
      BY <3>1 DEF p, PathOf
    <3>2. CASE op = "unlinkat"
      <4>1. PICK n \in Names : a.names = <<n>>
        BY <2>2, <3>2
      <4>2. <<n>> \in Seq(Names) /\ Len(<<n>>) = 1
        OBVIOUS
      <4>3. p = path[a.fid] \o <<n>>
        BY <3>2, <4>1 DEF p, PathOf
      <4>4. path[a.fid] \in Seq(Names) /\ Len(path[a.fid]) \in Nat
        BY <2>5, <3>2
      <4>5. p \in Seq(Names) /\ Len(p) = Len(path[a.fid]) + 1
        BY <4>2, <4>3, <4>4, ConcatProperties
      <4>6. p # << >>
        BY <4>4, <4>5
      <4>7. QED
        BY <3>2, <4>5, <4>6
    <3>3. CASE op # "attach" /\ op # "unlinkat"
      BY <2>5, <3>3 DEF p, PathOf
    <3>4. QED
      BY <3>1, <3>2, <3>3
  <2>7. op \in {"read", "fsync"} => b = {w \in DOMAIN writes : writes[w].fid = a.fid}
    BY DEF b, Before
  <2>8. Request(r)
    <3>1. op = "setattr" => 0 \in 0..Len(a.want)
      <4>1. op = "setattr" => Len(a.want) \in Nat
        BY <2>2, WantAssumption
      <4>2. QED
        BY <4>1
    <3>2. r.pc \in Stages(r.op)
      BY <2>4 DEF Stages
    <3>3. op = "setattr" => r.want \in Wants /\ r.off \in 0..Len(r.want)
      BY <2>2, <2>4, <3>1
    <3>4. QED
      BY <2>1, <2>2, <2>4, <2>6, <3>2, <3>3 DEF Request
  <2>9. TaskOK(r)
    <3>1. r.path \in Seq(Names) /\ IsTask(r) /\ r.res \in {"none", "ok", "error", "refused"}
      BY <2>4, <2>6
    <3>2. QED
      BY <2>8, <3>1 DEF TaskOK
  <2>10. Allowed(r)
    BY <2>1, <2>2, <2>4, <2>5, <2>6, <2>7, <2>8, <2>9 DEF Allowed, MaySend, Alone
  <2>11. QED
    BY <2>3, <2>10 DEF Goes, TaskInv
<1>5. QED
  BY <1>1, <1>2, <1>3, <1>4 DEF SendStep

-----------------------------------------------------------------------------
(* The table of fids.                                                      *)

(* A step leaves the table alone, but for the state of open files; or it   *)
(* is the last of a request that has one fid to itself, and changes that.  *)
Quiet ==
    /\ path' = path /\ told' = told
    /\ \A g \in Fids : IF file[g] = NoFile THEN file'[g] = NoFile
                       ELSE file'[g] # NoFile /\ file'[g].ino = file[g].ino
Bound(t) == IF task[t].op \in {"attach", "walk"} THEN task[t].new ELSE task[t].fid
Binds(t) ==
    /\ task[t].op \in Alone \cup {"attach", "walk"} /\ task'[t].pc = "done"
    /\ Bound(t) \in Fids
    /\ \A g \in Fids \ {Bound(t)} :
          path'[g] = path[g] /\ told'[g] = told[g] /\ file'[g] = file[g]

(* An open file is not no file. *)
LEMMA OpenedFile ==
    ASSUME NEW i \in Inos
    PROVE  Opened(i) \in FileRec /\ Opened(i) # NoFile /\ Opened(i).ino = i
<1>1. Opened(i) \in FileRec /\ Opened(i).ino = i
  BY DEF Opened, FileRec
<1>2. QED
  BY <1>1, FidAssumption DEF FileRec

(* The mutex is held with an open file. *)
LEMMA HeldFile ==
    ASSUME TypeInv, LockInv, NEW t \in Tasks, HoldsLock(t)
    PROVE  /\ task[t].fid \in Fids /\ task[t].op \in {"read", "write", "fsync"}
           /\ file[task[t].fid] \in FileRec /\ file[task[t].fid] # NoFile
           /\ task[t].op # "fsync" => task[t].off \in {0, 1}
<1>1. Request(task[t])
  BY Placed DEF TypeInv, HoldsLock, Busy
<1>2. task[t].op \in {"read", "write", "fsync"} /\ task[t].fid \in Fids
  BY <1>1 DEF HoldsLock, Request, Stages
<1>3. file[task[t].fid] # NoFile
  BY DEF LockInv
<1>4. QED
  BY <1>1, <1>2, <1>3 DEF TypeInv, FidInv, Request

(* One of the two, whichever step it is. *)
LEMMA Tabled ==
    ASSUME TypeInv, UseInv, WriteInv, NEW t \in Tasks, TaskStep(t)
    PROVE  FidInv' /\ (Quiet \/ Binds(t))
<1> DEFINE f == task[t].fid
<1>1. /\ Runs(t) /\ Request(task[t]) /\ IsTask(task[t])
      /\ Goes(t, task'[t]) /\ TaskOK(task'[t]) /\ Keeps(task[t], task'[t])
  BY Stepped
<1>2. task[t].path \in Seq(Names)
  BY DEF TypeInv, TaskInv, TaskOK
<1>3. FidInv /\ LockInv /\ TreeInv
  BY DEF TypeInv, WriteInv
<1>4. Here(t) \in Inos \cup {NoIno}
  BY <1>2, <1>3, Resolved DEF Here
<1>5. ASSUME path' = path, told' = told, file' = file PROVE FidInv' /\ Quiet
  BY <1>3, <1>5 DEF FidInv, Quiet
<1>6. ASSUME f \in Fids, file[f] \in FileRec, NEW b \in FileRec, b.ino = file[f].ino,
             path' = path, told' = told, file' = [file EXCEPT ![f] = b]
      PROVE  FidInv' /\ Quiet
  <2>1. b # NoFile /\ file[f] # NoFile
    BY <1>6, FidAssumption DEF FileRec
  <2>2. QED
    BY <1>3, <1>6, <2>1 DEF FidInv, Quiet
<1>10. CASE \/ LockFile(t) \/ Read(t) \/ Fsync(t) \/ ListStep(t) \/ WalkStep(t) \/ Look(t)
            \/ SetattrStep(t) \/ SetattrTimes(t) \/ SetattrEnds(t) \/ MkdirStat(t)
            \/ MakeFile(t) \/ Renameat(t) \/ UnlinkStat(t) \/ UnlinkRemove(t)
  <2>1. path' = path /\ told' = told /\ file' = file
    BY <1>10 DEF LockFile, Read, Fsync, ListStep, ReaddirOpens, ReaddirEntry, ReaddirEnds,
         WalkStep, Look, SetattrStep, SetattrFails, SetattrTimes, SetattrEnds, MkdirStat, Refused, MakeFile,
         Renameat, UnlinkStat, UnlinkRemove, Error, Still, filevars
  <2>2. QED
    BY <1>5, <2>1
<1>11. CASE Seek(t)
  <2>1. path' = path /\ told' = told
    BY <1>11 DEF Seek, Error, Still
  <2>2. CASE task[t].op = "fsync" \/ Error(t)
    BY <1>5, <1>11, <2>1, <2>2 DEF Seek, Error, Still, filevars
  <2>3. CASE task[t].op # "fsync" /\ ~Error(t)
    <3>1. HoldsLock(t)
      BY <1>11 DEF Seek, HoldsLock
    <3>2. f \in Fids /\ file[f] \in FileRec /\ task[t].off \in {0, 1}
      BY <1>3, <2>3, <3>1, HeldFile
    <3>3. PICK b : b = [file[f] EXCEPT !.pos = task[t].off]
      OBVIOUS
    <3>4. b \in FileRec /\ b.ino = file[f].ino
      BY <3>2, <3>3 DEF FileRec
    <3>5. file' = [file EXCEPT ![f] = b]
      BY <1>3, <1>11, <2>3, <3>2, <3>3 DEF Seek, FidInv
    <3>6. QED
      BY <1>6, <2>1, <3>2, <3>4, <3>5
  <2>4. QED
    BY <2>2, <2>3
<1>12. CASE Write(t)
  <2>1. path' = path /\ told' = told
    BY <1>12 DEF Write
  <2>2. HoldsLock(t)
    BY <1>12 DEF Write, At, HoldsLock
  <2>3. f \in Fids /\ file[f] \in FileRec
    BY <1>3, <2>2, HeldFile
  <2>4. \E b \in FileRec : b.ino = file[f].ino /\ file' = [file EXCEPT ![f] = b]
    <3>1. CASE LastErr(f) # 0
      <4> DEFINE b == [file[f] EXCEPT !.err = 0]
      <4>1. b \in FileRec /\ b.ino = file[f].ino
        BY <2>3 DEF FileRec
      <4>2. file' = [file EXCEPT ![f] = b]
        BY <1>3, <1>12, <2>3, <3>1 DEF Write, FidInv
      <4>3. QED
        BY <4>1, <4>2
    <3>2. CASE LastErr(f) = 0
      <4>1. PICK x \in WriteRec : writes' = Append(writes, x)
        <5> DEFINE x == [fid |-> f, ino |-> file[f].ino, off |-> file[f].pos, st |-> "flying"]
        <5>1. writes' = Append(writes, x)
          BY <1>12, <3>2 DEF Write
        <5>2. x \in WriteRec
          BY <2>3 DEF WriteRec, FileRec
        <5>3. QED
          BY <5>1, <5>2
      <4>2. writes' \in Seq(WriteRec)
        BY <4>1 DEF WriteInv, DataInv
      <4>3. Len(writes') \in Nat
        BY <4>2
      <4> DEFINE b == [file[f] EXCEPT !.bg = Len(writes')]
      <4>4. file' = [file EXCEPT ![f] = b]
        BY <1>3, <1>12, <2>3, <3>2 DEF Write, FidInv
      <4>5. b \in FileRec /\ b.ino = file[f].ino
        BY <2>3, <4>3 DEF FileRec
      <4>6. QED
        BY <4>4, <4>5
    <3>3. QED
      BY <3>1, <3>2
  <2>5. QED
    BY <1>6, <2>1, <2>3, <2>4
<1>13. CASE Bind(t)
  <2> DEFINE g == task[t].new
  <2>1. task[t].op \in {"attach", "walk"} /\ g \in Fids /\ file' = file
    BY <1>1, <1>13 DEF Bind, At, Request, filevars
  <2>2. PICK i \in Inos \cup {NoIno} : told' = [told EXCEPT ![g] = i]
    <3>1. task[t].op = "walk" => task[t].fid \in Fids /\ task[t].at \in Inos \cup {NoIno}
      BY <1>1 DEF Request
    <3>2. task[t].op = "walk" => told[task[t].fid] \in Inos \cup {NoIno}
      BY <1>3, <3>1 DEF FidInv
    <3>3. Root \in Inos
      BY TreeAssumption
    <3>4. QED
      BY <1>13, <2>1, <3>1, <3>2, <3>3 DEF Bind, Tell, At
  <2>3. path' = [path EXCEPT ![g] = task[t].path] /\ Reply(t, "ok")
    BY <1>13 DEF Bind
  <2>4. path[g] = NoPath
    BY <1>1, <2>1 DEF UseInv, NewInv
  <2>5. told[g] = NoIno /\ file[g] = NoFile
    BY <1>3, <2>1, <2>4 DEF FidInv
  <2>6. task[t].path # NoPath
    BY <1>2, NameAssumption
  <2>7. FidInv'
    BY <1>2, <1>3, <2>1, <2>2, <2>3, <2>5, <2>6 DEF FidInv
  <2>8. task'[t].pc = "done"
    BY <1>1, <2>3, Replies DEF TypeInv
  <2>9. Binds(t)
    BY <1>3, <2>1, <2>2, <2>3, <2>8 DEF Binds, Bound, FidInv
  <2>10. QED
    BY <2>7, <2>9
<1>14. CASE LopenStat(t) \/ LopenOpen(t) \/ LcreateStat(t) \/ Clunk(t)
  <2>1. task[t].op \in Alone /\ f \in Fids /\ task[t].op \notin {"attach", "walk"}
    BY <1>1, <1>14 DEF LopenStat, LopenOpen, LcreateStat, Clunk, At, Alone, Request
  <2>2. task[t].op # "clunk" => path[f] # NoPath /\ told[f] # NoIno
    BY <1>1, <2>1 DEF UseInv, FidStays, Alone
  <2>3. ASSUME NEW p \in Seq(Names), NEW i \in Inos, NEW b \in FileRec \cup {NoFile},
               path' = [path EXCEPT ![f] = p], told' = [told EXCEPT ![f] = i],
               file' = [file EXCEPT ![f] = b], Reply(t, "ok")
        PROVE  FidInv' /\ Binds(t)
    <3>1. task'[t].pc = "done"
      BY <1>1, <2>3, Replies DEF TypeInv
    <3>2. p # NoPath /\ i # NoIno
      BY NameAssumption, TreeAssumption
    <3>3. FidInv'
      BY <1>3, <2>1, <2>3, <3>2 DEF FidInv
    <3>4. Binds(t)
      BY <1>3, <2>1, <2>3, <3>1 DEF Binds, Bound, FidInv
    <3>5. QED
      BY <3>3, <3>4
  <2>4. /\ path = [path EXCEPT ![f] = path[f]] /\ told = [told EXCEPT ![f] = told[f]]
        /\ file = [file EXCEPT ![f] = file[f]] /\ file[f] \in FileRec \cup {NoFile}
        /\ path[f] \in Seq(Names) \cup {NoPath}
    BY <1>3, <2>1 DEF FidInv
  <2>5. ASSUME Error(t) PROVE FidInv' /\ Quiet
    BY <1>5, <2>5 DEF Error, Still, filevars
  <2>6. CASE LopenStat(t)
    <3>1. CASE Error(t)
      BY <2>5, <3>1
    <3>2. CASE ~Error(t) /\ Here(t) # NoIno /\ IsDir(Here(t))
      <4>1. /\ path' = path /\ told' = [told EXCEPT ![f] = Here(t)] /\ file' = file
            /\ Reply(t, "ok") /\ path[f] \in Seq(Names)
        BY <2>2, <2>4, <2>6, <3>2 DEF LopenStat, At, filevars
      <4>2. QED
        BY <1>4, <2>3, <2>4, <3>2, <4>1
    <3>3. CASE ~Error(t) /\ Here(t) # NoIno /\ ~IsDir(Here(t))
      <4>1. path' = path /\ told' = told /\ file' = file
        BY <2>6, <3>3 DEF LopenStat, filevars
      <4>2. QED
        BY <1>5, <4>1
    <3>4. QED
      BY <2>6, <3>1, <3>2, <3>3 DEF LopenStat
  <2>7. CASE LopenOpen(t)
    <3>1. CASE Error(t)
      BY <2>5, <3>1
    <3>2. ASSUME NEW i \in Inos, path' = path, told' = [told EXCEPT ![f] = task[t].at],
                 file' = [file EXCEPT ![f] = Opened(i)], Reply(t, "ok")
          PROVE  FidInv' /\ Binds(t)
      <4>1. task[t].at \in Inos /\ task[t].op = "lopen"
        BY <1>1, <2>7 DEF LopenOpen, At, Request
      <4>2. Opened(i) \in FileRec
        BY OpenedFile
      <4>3. path[f] \in Seq(Names)
        BY <2>2, <2>4, <4>1
      <4>4. QED
        BY <2>3, <2>4, <3>2, <4>1, <4>2, <4>3
    <3>3. Unused # {} => Fresh \in Inos
      BY FreshFree
    <3>4. QED
      BY <1>4, <2>7, <3>1, <3>2, <3>3 DEF LopenOpen, Tell, MakeAt, MakeEntry
  <2>8. CASE LcreateStat(t)
    <3>1. CASE Error(t) \/ Refused(t)
      BY <1>5, <2>5, <3>1 DEF Refused, Still, filevars
    <3>2. CASE ~Error(t) /\ ~Refused(t)
      <4>1. /\ Here(t) # NoIno /\ path' = [path EXCEPT ![f] = task[t].path]
            /\ told' = [told EXCEPT ![f] = Here(t)]
            /\ file' = [file EXCEPT ![f] = Opened(task[t].ino)] /\ Reply(t, "ok")
        BY <2>8, <3>2 DEF LcreateStat, Joined, Moved, Here, Tell
      <4>2. task[t].ino \in Inos
        BY <1>1, <2>8 DEF LcreateStat, At, Request
      <4>3. Opened(task[t].ino) \in FileRec
        BY <4>2, OpenedFile
      <4>4. QED
        BY <1>2, <1>4, <2>3, <4>1, <4>3
    <3>3. QED
      BY <3>1, <3>2
  <2>9. CASE Clunk(t)
    <3>1. /\ path' = [path EXCEPT ![f] = NoPath] /\ told' = [told EXCEPT ![f] = NoIno]
          /\ file' = [file EXCEPT ![f] = NoFile] /\ Reply(t, "ok")
      BY <2>9 DEF Clunk
    <3>2. task'[t].pc = "done"
      BY <1>1, <3>1, Replies DEF TypeInv
    <3>3. FidInv'
      BY <1>3, <2>1, <3>1 DEF FidInv
    <3>4. Binds(t)
      BY <1>3, <2>1, <3>1, <3>2 DEF Binds, Bound, FidInv
    <3>5. QED
      BY <3>3, <3>4
  <2>10. QED
    BY <1>14, <2>6, <2>7, <2>8, <2>9
<1>15. QED
  BY <1>5, <1>10, <1>11, <1>12, <1>13, <1>14 DEF TaskStep, IoStep

(* A walk's path is the fid's until it has found a name, and that of lopen *)
(* stays it. *)
LEMMA PathKept ==
    ASSUME TypeInv, NEW t \in Tasks, TaskStep(t),
           \/ task[t].op = "lopen"
           \/ task[t].op = "walk" /\ task'[t].pc = "ready" /\ task'[t].at = NoIno
    PROVE  task'[t].path = task[t].path /\ (task[t].op = "walk" => At(t, "walk", "ready") /\ task[t].at = NoIno)
<1>1. Runs(t) /\ Request(task[t]) /\ IsTask(task[t])
  BY Stepped
<1>2. DOMAIN task = Tasks /\ TaskInv
  BY DEF TypeInv, TaskInv
<1>3. CASE task[t].op = "lopen"
  <2>1. LopenStat(t) \/ LopenOpen(t)
    <3>1. task[t].pc \in {"ready", "open"}
      BY <1>1, <1>3 DEF Runs, Request, Stages
    <3>2. QED
      BY <1>3, <3>1
         DEF TaskStep, IoStep, ListStep, At, LockFile, Seek, Read, Write, Fsync, Clunk,
             ReaddirOpens, ReaddirEntry, ReaddirEnds, WalkStep, Bind, Look, SetattrStep,
             SetattrTimes, SetattrEnds, LcreateStat, MkdirStat, Refused, MakeFile,
             Renameat, UnlinkStat, UnlinkRemove
  <2>2. CASE Reply(t, "ok") \/ Error(t)
    BY <1>1, <1>2, <1>3, <2>2, Replies DEF Error
  <2>3. CASE Goes(t, [task[t] EXCEPT !.pc = "open", !.at = Here(t)])
    BY <1>1, <1>2, <1>3, <2>3 DEF Goes, IsTask, Fields
  <2>4. QED
    BY <2>1, <2>2, <2>3 DEF LopenStat, LopenOpen
<1>4. CASE task[t].op = "walk" /\ task'[t].pc = "ready" /\ task'[t].at = NoIno
  <2>1. WalkStep(t) \/ Bind(t)
    <3>1. task[t].pc \in {"ready", "bind"}
      BY <1>1, <1>4 DEF Runs, Request, Stages
    <3>2. QED
      BY <1>4, <3>1
         DEF TaskStep, IoStep, ListStep, At, LockFile, Seek, Read, Write, Fsync, Clunk,
             ReaddirOpens, ReaddirEntry, ReaddirEnds, Look, SetattrStep,
             SetattrTimes, SetattrEnds, LopenStat, LopenOpen, LcreateStat, MkdirStat, Refused, MakeFile,
             Renameat, UnlinkStat, UnlinkRemove
  <2>2. ~Reply(t, "ok") /\ ~Reply(t, "error")
    BY <1>1, <1>2, <1>4, Replies
  <2> DEFINE p == Append(task[t].path, Head(task[t].names))
  <2>3. \/ Goes(t, [task[t] EXCEPT !.pc = "bind", !.path = p, !.at = NoIno])
        \/ /\ Resolve(p) # NoIno
           /\ Goes(t, [task[t] EXCEPT !.path = p, !.at = Resolve(p), !.names = Tail(task[t].names)])
    BY <2>1, <2>2 DEF WalkStep, Bind, Error
  <2> HIDE DEF p
  <2>4. QED
    BY <1>1, <1>2, <1>4, <2>3 DEF Goes, IsTask, Fields
<1>5. QED
  BY <1>3, <1>4

(* No other request names the fid that a step binds. *)
LEMMA BoundAlone ==
    ASSUME TypeInv, UseInv, NEW t \in Tasks, Runs(t), Binds(t),
           NEW u \in Tasks, u # t, Runs(u)
    PROVE  /\ task[u].op # "attach" => task[u].fid # Bound(t)
           /\ task[u].new # Bound(t)
<1>1. Busy(t) /\ Busy(u)
  BY DEF Runs, Busy
<1>2. CASE task[t].op \in {"attach", "walk"}
  BY <1>1, <1>2 DEF UseInv, FidStays, NewInv, Bound
<1>3. CASE task[t].op \in Alone
  BY <1>1, <1>3 DEF UseInv, AloneInv, Bound, Alone
<1>4. QED
  BY <1>2, <1>3 DEF Binds

(* The rules of the client hold, step by step. *)
LEMMA UseKept ==
    ASSUME TypeInv, UseInv, WriteInv, Next
    PROVE  UseInv'
<1> USE DEF Runs, Busy
<1>1. ASSUME NEW t \in Tasks, SendStep(t) PROVE UseInv'
  <2> DEFINE r == task'[t]
  <2>1. /\ task[t] = Free /\ Goes(t, r) /\ Allowed(r)
        /\ UNCHANGED <<path, file, told>>
    BY <1>1, Sent DEF filevars
  <2>2. \A u \in Tasks \ {t} : task'[u] = task[u]
    BY <2>1 DEF Goes, TypeInv, TaskInv
  <2>3. Request(r) /\ r.pc = "ready"
    BY <2>1 DEF Allowed
  <2> HIDE DEF r
  <2>4. FidStays'
    BY <2>1, <2>2 DEF FidStays, Allowed, UseInv, r
  <2>5. AloneInv'
    <3> SUFFICES ASSUME NEW v \in Tasks, NEW u \in Tasks, v # u, Busy(v)', Busy(u)',
                        task'[v].op \in Alone
                 PROVE  task'[u].fid # task'[v].fid /\ task'[u].new # task'[v].fid
      BY DEF AloneInv
    <3>1. CASE v = t
      <4>1. r.op \in Alone /\ Idle(r.fid) /\ task'[u] = task[u]
        BY <2>1, <2>2, <3>1 DEF Allowed, r
      <4>2. ~Uses(u, r.fid) /\ Busy(u)
        BY <4>1 DEF Idle
      <4>3. QED
        BY <3>1, <4>1, <4>2 DEF Uses, r
    <3>2. CASE u = t
      <4>1. task'[v] = task[v] /\ task[v].fid \in Fids /\ Busy(v)
        BY <2>2, <3>2, Placed DEF TypeInv, Request, Alone
      <4>2. ~(r.op # "attach" /\ r.fid = task[v].fid)
        BY <2>1, <3>2, <4>1 DEF Allowed, Shared, Uses
      <4>3. r.op = "attach" => r.fid \notin Fids
        BY <2>1, FidAssumption DEF Allowed
      <4>4. r.new # task[v].fid
        BY <2>1, <3>2, <4>1, FidAssumption DEF Allowed, Shared, Idle, Uses
      <4>5. QED
        BY <3>2, <4>1, <4>2, <4>3, <4>4 DEF r
    <3>3. CASE v # t /\ u # t
      BY <2>2, <3>3 DEF UseInv, AloneInv
    <3>4. QED
      BY <3>1, <3>2, <3>3
  <2>6. NewInv'
    <3> SUFFICES ASSUME NEW v \in Tasks, Runs(v)', task'[v].op \in {"attach", "walk"}
                 PROVE  /\ path'[task'[v].new] = NoPath
                        /\ \A u \in Tasks : u # v /\ Busy(u)' => task'[u].new # task'[v].new
      BY DEF NewInv
    <3>1. CASE v = t
      BY <2>1, <2>2, <3>1 DEF Allowed, Idle, Uses, r
    <3>2. CASE v # t
      <4>1. task'[v] = task[v] /\ path'[task[v].new] = NoPath
        BY <2>1, <2>2, <3>2 DEF UseInv, NewInv
      <4>2. ASSUME NEW u \in Tasks, u # v, Busy(u)', u # t
            PROVE  task'[u].new # task'[v].new
        BY <2>2, <3>2, <4>1, <4>2 DEF UseInv, NewInv
      <4>3. r.new # task[v].new
        <5>1. CASE r.op \in {"attach", "walk"}
          BY <2>1, <3>2, <4>1, <5>1 DEF Allowed, Idle, Uses
        <5>2. CASE r.op = "renameat"
          <6>1. told[r.new] # NoIno /\ r.new \in Fids
            BY <2>1, <2>3, <5>2 DEF Allowed, Request
          <6>2. path[r.new] # NoPath
            BY <6>1 DEF TypeInv, FidInv
          <6>3. QED
            BY <2>1, <4>1, <6>2
        <5>3. CASE r.op \notin {"attach", "walk", "renameat"}
          <6>1. task[v].new \in Fids
            BY <4>1, Placed DEF TypeInv, Request
          <6>2. QED
            BY <2>1, <5>3, <6>1, FidAssumption DEF Allowed
        <5>4. QED
          BY <5>1, <5>2, <5>3
      <4>4. QED
        BY <4>1, <4>2, <4>3 DEF r
    <3>3. QED
      BY <3>1, <3>2
  <2>7. UnopenedInv'
    BY <2>1, <2>2 DEF UnopenedInv, Allowed, UseInv, r
  <2>8. SamePath'
    BY <2>1, <2>2 DEF SamePath, Allowed, UseInv, At, r
  <2>9. QED
    BY <2>4, <2>5, <2>6, <2>7, <2>8 DEF UseInv
<1>2. ASSUME NEW t \in Tasks, Receive(t) PROVE UseInv'
  <2>1. /\ task'[t] = Free /\ UNCHANGED <<path, file, told>>
        /\ \A u \in Tasks \ {t} : task'[u] = task[u]
    BY <1>2 DEF Receive, Goes, TypeInv, TaskInv, filevars
  <2>2. task'[t].pc = "free"
    BY <2>1 DEF Free
  <2>3. FidStays' /\ UnopenedInv'
    BY <2>1, <2>2 DEF FidStays, UnopenedInv, UseInv
  <2>4. AloneInv' /\ NewInv'
    BY <2>1, <2>2 DEF AloneInv, NewInv, UseInv
  <2>5. SamePath'
    BY <2>1, <2>2 DEF SamePath, UseInv, At
  <2>6. QED
    BY <2>3, <2>4, <2>5 DEF UseInv
<1>3. ASSUME NEW t \in Tasks, TaskStep(t) PROVE UseInv'
  <2> DEFINE r == task'[t]
  <2>1. /\ Runs(t) /\ Goes(t, r) /\ Keeps(task[t], r)
    BY <1>3, Stepped
  <2>2. \A u \in Tasks \ {t} : task'[u] = task[u]
    BY <2>1 DEF Goes, TypeInv, TaskInv
  <2>3. Quiet \/ Binds(t)
    BY <1>3, Tabled
  <2>4. \A u \in Tasks : /\ task'[u].op = task[u].op /\ task'[u].fid = task[u].fid
                         /\ task'[u].new = task[u].new
                         /\ (Busy(u)' <=> Busy(u)) /\ (Runs(u)' => Runs(u))
    BY <2>1, <2>2 DEF Keeps
  <2>5. AloneInv'
    BY <2>4 DEF AloneInv, UseInv
  <2>6. ASSUME NEW u \in Tasks, Runs(u)', u # t \/ Quiet
        PROVE  /\ task[u].op # "attach" =>
                    /\ path'[task[u].fid] = path[task[u].fid]
                    /\ told'[task[u].fid] = told[task[u].fid]
                    /\ file[task[u].fid] = NoFile => file'[task[u].fid] = NoFile
               /\ task[u].op \in {"attach", "walk", "renameat"} =>
                    /\ path'[task[u].new] = path[task[u].new]
                    /\ told'[task[u].new] = told[task[u].new]
    <3>1. Runs(u) /\ Request(task[u])
      BY <2>4, <2>6, Placed DEF TypeInv
    <3>2. CASE Quiet
      BY <3>1, <3>2 DEF Quiet, Request
    <3>3. CASE Binds(t) /\ u # t
      <4>1. /\ task[u].op # "attach" => task[u].fid # Bound(t)
            /\ task[u].new # Bound(t)
        BY <2>1, <3>1, <3>3, BoundAlone
      <4>2. QED
        BY <3>1, <3>3, <4>1 DEF Binds, Request
    <3>4. QED
      BY <2>3, <2>6, <3>2, <3>3
  <2>7. ASSUME NEW u \in Tasks, Runs(u)' PROVE u # t \/ Quiet
    BY <2>3, <2>7 DEF Binds
  <2>8. FidStays'
    <3> SUFFICES ASSUME NEW u \in Tasks, Runs(u)', task'[u].op # "attach"
                 PROVE  /\ path'[task'[u].fid] # NoPath
                        /\ task'[u].op # "clunk" => told'[task'[u].fid] # NoIno
                        /\ task'[u].op = "renameat" => told'[task'[u].new] # NoIno
      BY DEF FidStays
    <3>1. QED
      BY <2>4, <2>6, <2>7 DEF FidStays, UseInv
  <2>9. NewInv' /\ UnopenedInv'
    BY <2>4, <2>6, <2>7 DEF NewInv, UnopenedInv, UseInv
  <2>10. SamePath'
    <3> SUFFICES ASSUME NEW u \in Tasks, Runs(u)',
                        \/ task'[u].op = "lopen"
                        \/ /\ task'[u].op = "walk" /\ task'[u].pc = "ready"
                           /\ task'[u].at = NoIno
                 PROVE  path'[task'[u].fid] = task'[u].path
      BY DEF SamePath, At
    <3>1. task[u].op # "attach" /\ path'[task[u].fid] = path[task[u].fid]
      BY <2>4, <2>6, <2>7
    <3>2. CASE u # t
      BY <2>2, <3>1, <3>2 DEF SamePath, UseInv, At
    <3>3. CASE u = t
      <4>1. /\ task'[t].path = task[t].path
            /\ task[t].op = "walk" => At(t, "walk", "ready") /\ task[t].at = NoIno
        BY <1>3, <2>4, <3>3, PathKept
      <4>2. QED
        BY <2>1, <2>4, <3>1, <3>3, <4>1 DEF SamePath, UseInv, At
    <3>4. QED
      BY <3>2, <3>3
  <2>11. QED
    BY <2>5, <2>8, <2>9, <2>10 DEF UseInv
<1>4. ASSUME UNCHANGED <<task, path, told>>,
             \A f \in Fids : file[f] = NoFile => file'[f] = NoFile
      PROVE  UseInv'
  <2>1. \A t \in Tasks : Runs(t) /\ task[t].op # "attach" => task[t].fid \in Fids
    BY Placed DEF TypeInv, Request
  <2>2. FidStays' /\ AloneInv' /\ NewInv' /\ SamePath'
    BY <1>4 DEF FidStays, AloneInv, NewInv, SamePath, UseInv, At
  <2>3. UnopenedInv'
    BY <1>4, <2>1 DEF UnopenedInv, UseInv
  <2>4. QED
    BY <2>2, <2>3 DEF UseInv
<1>5. ASSUME NEW f \in Fids, BackgroundWrite(f) PROVE UseInv'
  BY <1>4, <1>5 DEF BackgroundWrite, TypeInv, FidInv
<1>6. ASSUME NEW w \in late, LateWrite(w) PROVE UseInv'
  BY <1>4, <1>6 DEF LateWrite
<1>7. ASSUME Local PROVE UseInv'
  BY <1>4, <1>7 DEF Local, filevars
<1>8. QED
  BY <1>1, <1>2, <1>3, <1>5, <1>6, <1>7 DEF Next, SendStep

-----------------------------------------------------------------------------
(* The tree, and who had resolved a path in it.                            *)

(* The root is named by the empty path. *)
LEMMA RootPath == Resolve(<< >>) = Root /\ Root \in Inos /\ Root # NoIno
<1>1. Len(<< >>) = 0
  OBVIOUS
<1>2. Through(dir, << >>)[0] = Root
  BY <1>1, ThroughDef
<1>3. QED
  BY <1>1, <1>2, TreeAssumption DEF Resolve, ResolveIn

(* One name more. *)
LEMMA Longer ==
    ASSUME NEW p \in Seq(Names), NEW n \in Names
    PROVE  /\ Append(p, n) \in Seq(Names) /\ Append(p, n) # << >>
           /\ p \o <<n>> \in Seq(Names) /\ p \o <<n>> # << >>
<1>1. Append(p, n) \in Seq(Names) /\ Len(Append(p, n)) = Len(p) + 1 /\ Len(p) \in Nat
  OBVIOUS
<1>2. <<n>> \in Seq(Names) /\ Len(<<n>>) = 1
  OBVIOUS
<1>3. p \o <<n>> \in Seq(Names) /\ Len(p \o <<n>>) = Len(p) + 1
  BY <1>1, <1>2, ConcatProperties
<1>4. QED
  BY <1>1, <1>3

(* Where the file or directory that is made goes. *)
LEMMA MadeAt ==
    ASSUME TypeInv, NEW t \in Tasks, MakeFile(t)
    PROVE  /\ task[t].path \o task[t].names \in Seq(Names)
           /\ task[t].path \o task[t].names # << >>
<1>1. Busy(t)
  BY DEF MakeFile, At, Busy
<1>2. task[t].path \in Seq(Names) /\ Request(task[t])
  BY <1>1, Placed DEF TypeInv
<1>3. PICK n \in Names : task[t].names = <<n>>
  BY <1>2 DEF MakeFile, At, Request
<1>4. QED
  BY <1>2, <1>3, Longer

(* The two paths of a rename. *)
LEMMA RenamedAt ==
    ASSUME TypeInv, UseInv, NEW t \in Tasks, At(t, "renameat", "ready")
    PROVE  /\ Append(task[t].path, task[t].names[1]) \in Seq(Names)
           /\ Append(task[t].path, task[t].names[1]) # << >>
           /\ Append(path[task[t].new], task[t].names[2]) \in Seq(Names)
           /\ Append(path[task[t].new], task[t].names[2]) # << >>
<1>1. Busy(t) /\ Runs(t) /\ task[t].op = "renameat"
  BY DEF At, Busy, Runs
<1>2. task[t].path \in Seq(Names) /\ Request(task[t])
  BY <1>1, Placed DEF TypeInv
<1>3. task[t].new \in Fids /\ task[t].names[1] \in Names /\ task[t].names[2] \in Names
  BY <1>1, <1>2 DEF Request
<1>4. path[task[t].new] \in Seq(Names)
  BY <1>1, <1>3 DEF UseInv, FidStays, TypeInv, FidInv
<1>5. QED
  BY <1>2, <1>3, <1>4, Longer

(* A path of one name or two. *)
LEMMA SomePath ==
    ASSUME NEW p \in Paths
    PROVE  p \in Seq(Names) /\ p # << >>
<1>1. ASSUME NEW n \in Names PROVE <<n>> \in Seq(Names) /\ <<n>> # << >>
  OBVIOUS
<1>2. ASSUME NEW m \in Names, NEW n \in Names PROVE <<m, n>> \in Seq(Names) /\ <<m, n>> # << >>
  OBVIOUS
<1>3. \/ \E n \in Names : p = <<n>>
      \/ \E m \in Names, n \in Names : p = <<m, n>>
  BY DEF Paths
<1>4. QED
  BY <1>1, <1>2, <1>3

Changed(C) == Agree(dir', C) /\ Noticed(C)

(* Every change of the tree is noticed. *)
LEMMA TreeKept ==
    ASSUME TypeInv, UseInv, Next
    PROVE  TreeInv' /\ (dir' = dir \/ \E C : Changed(C))
<1>0. TreeInv
  BY DEF TypeInv
<1>1. ASSUME UNCHANGED <<dir, kind>> PROVE TreeInv' /\ dir' = dir
  BY <1>0, <1>1 DEF TreeInv, DistinctNames
<1>2. ASSUME NEW p \in Seq(Names), p # << >>, IsDir(Parent(p)), Resolve(p) = NoIno,
             NEW as \in {"dir", "file"}, MakeAt(p, as)
      PROVE  TreeInv' /\ \E C : Changed(C)
  BY <1>0, <1>2, Made DEF MakeAt, Changed
<1>3. ASSUME NEW p \in Seq(Names), p # << >>, Resolve(p) # NoIno, DropAt(p)
      PROVE  TreeInv' /\ \E C : Changed(C)
  BY <1>0, <1>3, Dropped DEF DropAt, Changed
<1>4. ASSUME NEW p \in Seq(Names), p # << >>, NEW q \in Seq(Names), q # << >>,
             MayRename(p, q), RenameAt(p, q)
      PROVE  TreeInv' /\ (dir' = dir \/ \E C : Changed(C))
  <2>1. TreeInv' /\ (p = q => dir' = dir) /\ Agree(dir', {Entry(p), Entry(q)})
    BY <1>0, <1>4, Renamed DEF RenameAt
  <2>2. p # q => Noticed({Entry(p), Entry(q)})
    BY <1>4 DEF RenameAt
  <2>3. QED
    BY <2>1, <2>2 DEF Changed
<1>5. CASE \E t \in Tasks : SendStep(t)
  BY <1>1, <1>5, Sent
<1>6. CASE \E t \in Tasks : Receive(t)
  BY <1>1, <1>6 DEF Receive, treevars
<1>7. ASSUME NEW t \in Tasks, TaskStep(t)
      PROVE  TreeInv' /\ (dir' = dir \/ \E C : Changed(C))
  <2>1. ASSUME Error(t) PROVE TreeInv' /\ dir' = dir
    BY <1>1, <2>1 DEF Error, Still, treevars
  <2>2. CASE MakeFile(t)
    <3> DEFINE p == task[t].path \o task[t].names
    <3>1. p \in Seq(Names) /\ p # << >>
      BY <2>2, MadeAt
    <3>2. \/ Error(t) \/ Still
          \/ /\ IsDir(Parent(p)) /\ Resolve(p) = NoIno
             /\ MakeAt(p, IF task[t].op = "mkdir" THEN "dir" ELSE "file")
      BY <2>2 DEF MakeFile
    <3> HIDE DEF p
    <3>3. CASE Still
      BY <1>1, <3>3 DEF Still, treevars
    <3>4. QED
      BY <1>2, <2>1, <3>1, <3>2, <3>3
  <2>3. CASE LopenOpen(t)
    <3>1. task[t].path \in Seq(Names)
      BY DEF TypeInv, TaskInv, TaskOK
    <3>2. \/ Error(t) \/ UNCHANGED <<dir, kind>>
          \/ /\ Here(t) = NoIno /\ IsDir(Parent(task[t].path)) /\ MakeAt(task[t].path, "file")
      BY <2>3 DEF LopenOpen
    <3>3. Here(t) = NoIno => task[t].path # << >> /\ Resolve(task[t].path) = NoIno
      BY RootPath DEF Here
    <3>4. QED
      BY <1>1, <1>2, <2>1, <3>1, <3>2, <3>3
  <2>4. CASE Renameat(t)
    <3> DEFINE p == Append(task[t].path, task[t].names[1])
               q == Append(path[task[t].new], task[t].names[2])
    <3>1. p \in Seq(Names) /\ p # << >> /\ q \in Seq(Names) /\ q # << >>
      BY <2>4, RenamedAt DEF Renameat
    <3>2. Error(t) \/ (MayRename(p, q) /\ RenameAt(p, q))
      BY <2>4 DEF Renameat
    <3> HIDE DEF p, q
    <3>3. QED
      BY <1>4, <2>1, <3>1, <3>2
  <2>5. CASE UnlinkRemove(t)
    <3>1. Runs(t) /\ Request(task[t]) /\ task[t].path \in Seq(Names)
      BY <1>7, Stepped DEF TypeInv, TaskInv, TaskOK
    <3>2. task[t].path # << >>
      BY <2>5, <3>1 DEF UnlinkRemove, At, Request
    <3>3. Error(t) \/ (Here(t) # NoIno /\ DropAt(task[t].path))
      BY <2>5 DEF UnlinkRemove
    <3>4. QED
      BY <1>3, <2>1, <3>1, <3>2, <3>3 DEF Here
  <2>6. CASE ~(MakeFile(t) \/ LopenOpen(t) \/ Renameat(t) \/ UnlinkRemove(t))
    <3>1. UNCHANGED <<dir, kind>>
      BY <1>7, <2>6
         DEF TaskStep, IoStep, ListStep, LockFile, Seek, Read, Write, Fsync, Clunk,
             ReaddirOpens, ReaddirEntry, ReaddirEnds, WalkStep, Bind, Look, SetattrStep,
             SetattrFails, SetattrTimes, SetattrEnds, LopenStat, LcreateStat, MkdirStat, Refused,
             UnlinkStat, Error, Still, treevars
    <3>2. QED
      BY <1>1, <3>1
  <2>7. QED
    BY <2>2, <2>3, <2>4, <2>5, <2>6
<1>8. CASE \E f \in Fids : BackgroundWrite(f)
  BY <1>1, <1>8 DEF BackgroundWrite, treevars
<1>9. CASE \E w \in late : LateWrite(w)
  BY <1>1, <1>9 DEF LateWrite, treevars
<1>10. CASE Local
  <2>1. PICK p \in Paths : LocalRemove(p) \/ LocalCreate(p) \/ \E q \in Paths : LocalRename(p, q)
    BY <1>10 DEF Local
  <2>2. p \in Seq(Names) /\ p # << >>
    BY SomePath
  <2>3. CASE LocalRemove(p)
    BY <1>3, <2>2, <2>3 DEF LocalRemove
  <2>4. CASE LocalCreate(p)
    BY <1>2, <2>2, <2>4 DEF LocalCreate
  <2>5. CASE \E q \in Paths : LocalRename(p, q)
    BY <1>4, <2>2, <2>5, SomePath DEF LocalRename
  <2>6. QED
    BY <2>1, <2>3, <2>4, <2>5
<1>11. QED
  BY <1>5, <1>6, <1>7, <1>8, <1>9, <1>10 DEF Next, SendStep

(* Whoever is not marked as stale finds what it found before. *)
LEMMA Stands ==
    ASSUME TypeInv, UseInv, Next
    PROVE  /\ \A f \in Fids \ stale' : path[f] # NoPath =>
                 /\ ResolveIn(dir', path[f]) = Resolve(path[f])
                 /\ dir' # dir => f \notin stale
           /\ \A t \in Tasks \ stale' :
                 /\ ResolveIn(dir', task[t].path) = Resolve(task[t].path)
                 /\ dir' # dir => t \notin stale
<1>1. CASE dir' = dir
  BY <1>1 DEF Resolve
<1>2. ASSUME NEW C, Changed(C)
      PROVE  /\ \A f \in Fids \ stale' : path[f] # NoPath =>
                   ResolveIn(dir', path[f]) = Resolve(path[f]) /\ f \notin stale
             /\ \A t \in Tasks \ stale' :
                   ResolveIn(dir', task[t].path) = Resolve(task[t].path) /\ t \notin stale
  <2>1. stale' = stale \cup {f \in Fids : path[f] # NoPath /\ Edges(path[f]) \cap C # {}}
                       \cup {t \in Tasks : Edges(task[t].path) \cap C # {}}
    BY <1>2 DEF Changed, Noticed
  <2>2. dir \in TreeOf /\ Agree(dir', C)
    BY <1>2 DEF TypeInv, TreeInv, TreeOf, Changed
  <2>3. ASSUME NEW p \in Seq(Names), Edges(p) \cap C = {}
        PROVE  ResolveIn(dir', p) = Resolve(p)
    BY <2>2, <2>3, Stable
  <2>4. /\ \A f \in Fids : path[f] # NoPath => path[f] \in Seq(Names)
        /\ \A t \in Tasks : task[t].path \in Seq(Names)
    BY DEF TypeInv, FidInv, TaskInv, TaskOK
  <2>5. QED
    BY <2>1, <2>3, <2>4
<1>3. QED
  BY <1>1, <1>2, TreeKept

(* The listing goes on in a fid that stays. *)
LEMMA ListKept ==
    ASSUME TypeInv, UseInv, WriteInv, Next
    PROVE  ListInv'
<1> USE DEF ListInv
<1>0. ListInv
  BY DEF TypeInv
<1>1. ASSUME list'.st = list.st, list'.fid = list.fid, DOMAIN list' = DOMAIN list,
             list.fid # NoFid => told'[list.fid] # NoIno
      PROVE  ListInv'
  BY <1>0, <1>1
<1>2. ASSUME NEW C, Noticed(C)
      PROVE  list'.st = list.st /\ list'.fid = list.fid /\ DOMAIN list' = DOMAIN list
  BY <1>0, <1>2 DEF Noticed
<1>3. NoList.st = "none" /\ NoList.fid = NoFid /\ DOMAIN NoList = {"st", "fid", "off", "got", "kept"}
  BY DEF NoList
<1>4. ASSUME list' = NoList PROVE ListInv'
  BY <1>3, <1>4
<1>5. ASSUME UNCHANGED <<list, told>> PROVE ListInv'
  BY <1>0, <1>5
<1>6. ASSUME NEW t \in Tasks, SendStep(t) PROVE ListInv'
  <2>1. told' = told
    BY <1>6, Sent
  <2>2. CASE SendNext(t)
    BY <1>5, <2>1, <2>2 DEF SendNext
  <2>3. ASSUME NEW op \in load.ops, NEW a \in Requests[op], Send(t, op, a)
        PROVE  ListInv'
    <3>1. CASE op # "readdir"
      BY <1>5, <2>1, <2>3, <3>1 DEF Send
    <3>2. CASE op = "readdir"
      <4>1. op \in Ops
        BY DEF TypeInv, LoadInv
      <4>2. a.fid \in Fids /\ a.fid # NoFid
        BY <3>2, <4>1, Asked, FidAssumption
      <4>3. told[a.fid] # NoIno
        BY <2>3, <3>2, <4>2 DEF Send, MaySend
      <4>4. PICK ks : list' = [NoList EXCEPT !.st = "on", !.fid = a.fid, !.kept = ks]
        BY <2>3, <3>2 DEF Send
      <4>5. list'.fid = a.fid /\ DOMAIN list' = {"st", "fid", "off", "got", "kept"}
        BY <4>4 DEF NoList
      <4>6. QED
        BY <2>1, <4>2, <4>3, <4>5
    <3>3. QED
      BY <3>1, <3>2
  <2>4. QED
    BY <1>6, <2>2, <2>3 DEF SendStep
<1>7. ASSUME NEW t \in Tasks, Receive(t) PROVE ListInv'
  <2>1. told' = told
    BY <1>7 DEF Receive
  <2>2. \/ list' = list \/ list' = NoList \/ list' = [list EXCEPT !.st = "ended"]
        \/ list' = [list EXCEPT !.got = @ \o task[t].names, !.off = LastOffset(t)]
    BY <1>7 DEF Receive
  <2>3. CASE list' = [list EXCEPT !.st = "ended"]
    BY <1>0, <2>1, <2>3
  <2>4. CASE list' = [list EXCEPT !.got = @ \o task[t].names, !.off = LastOffset(t)]
    <3>1. PICK gs, o : list' = [list EXCEPT !.got = gs, !.off = o]
      BY <2>4
    <3>2. QED
      BY <1>0, <1>1, <2>1, <3>1
  <2>5. QED
    BY <1>4, <1>5, <2>1, <2>2, <2>3, <2>4
<1>8. ASSUME NEW t \in Tasks, TaskStep(t) PROVE ListInv'
  <2> DEFINE f == task[t].fid
  <2>1. Runs(t) /\ Request(task[t]) /\ (Quiet \/ Binds(t))
    BY <1>8, Stepped, Tabled
  <2>2. CASE Clunk(t)
    <3>1. told' = [told EXCEPT ![f] = NoIno] /\ list' = IF list.fid = f THEN NoList ELSE list
      BY <2>2 DEF Clunk
    <3>2. CASE list.fid = f
      BY <1>4, <3>1, <3>2
    <3>3. CASE list.fid # f
      BY <1>0, <3>1, <3>3 DEF TypeInv, FidInv
    <3>4. QED
      BY <3>2, <3>3
  <2>3. CASE ~Clunk(t)
    <3>1. list'.st = list.st /\ list'.fid = list.fid /\ DOMAIN list' = DOMAIN list
      <4>1. list' = list \/ \E C : Noticed(C)
        BY <1>8, <2>3
           DEF TaskStep, IoStep, ListStep, LockFile, Seek, Read, Write, Fsync,
               ReaddirOpens, ReaddirEntry, ReaddirEnds, WalkStep, Bind, Look, SetattrStep,
               SetattrFails, SetattrTimes, SetattrEnds, LopenStat, LopenOpen, LcreateStat,
               MkdirStat, Refused, MakeFile, Renameat, UnlinkStat, UnlinkRemove, Error, Still,
               MakeAt, DropAt, RenameAt
      <4>2. QED
        BY <1>2, <4>1
    <3>2. ASSUME NEW g \in Fids, told[g] # NoIno PROVE told'[g] # NoIno
      <4>1. CASE Quiet
        BY <3>2, <4>1 DEF Quiet
      <4>2. CASE Binds(t) /\ g # Bound(t)
        BY <3>2, <4>2 DEF Binds
      <4>3. CASE Bind(t)
        <5>1. task[t].op \in {"attach", "walk"} /\ task[t].new \in Fids
          BY <2>1, <4>3 DEF Bind, At, Request
        <5>2. told[task[t].new] = NoIno
          BY <2>1, <5>1 DEF UseInv, NewInv, TypeInv, FidInv
        <5>3. \E i : told' = [told EXCEPT ![task[t].new] = i]
          BY <4>3 DEF Bind, Tell
        <5>4. QED
          BY <3>2, <5>2, <5>3 DEF TypeInv, FidInv
      <4>4. CASE LopenStat(t) \/ LopenOpen(t) \/ LcreateStat(t)
        <5>1. Here(t) \in Inos \cup {NoIno}
          BY Resolved DEF Here, TypeInv, TaskInv, TaskOK
        <5>2. LopenOpen(t) => task[t].at \in Inos
          BY <2>1 DEF LopenOpen, At, Request
        <5>3. \/ told' = told
              \/ \E i \in Inos : told' = [told EXCEPT ![f] = i]
          BY <4>4, <5>1, <5>2
             DEF LopenStat, LopenOpen, LcreateStat, Refused, Tell, Error, Still, Joined, Here
        <5>4. QED
          BY <3>2, <5>3, TreeAssumption DEF TypeInv, FidInv
      <4>5. CASE ~(Bind(t) \/ LopenStat(t) \/ LopenOpen(t) \/ LcreateStat(t))
        <5>1. told' = told
          BY <1>8, <2>3, <4>5
             DEF TaskStep, IoStep, ListStep, LockFile, Seek, Read, Write, Fsync,
                 ReaddirOpens, ReaddirEntry, ReaddirEnds, WalkStep, Look, SetattrStep,
                 SetattrFails, SetattrTimes, SetattrEnds,
                 MkdirStat, Refused, MakeFile, Renameat, UnlinkStat, UnlinkRemove, Error, Still
        <5>2. QED
          BY <3>2, <5>1
      <4>6. QED
        BY <4>3, <4>4, <4>5
    <3>3. QED
      BY <1>0, <1>1, <3>1, <3>2
  <2>4. QED
    BY <2>2, <2>3
<1>9. ASSUME NEW f \in Fids, BackgroundWrite(f) PROVE ListInv'
  BY <1>5, <1>9 DEF BackgroundWrite
<1>10. ASSUME NEW w \in late, LateWrite(w) PROVE ListInv'
  BY <1>5, <1>10 DEF LateWrite
<1>11. ASSUME Local PROVE ListInv'
  <2>1. told' = told /\ \E C : Noticed(C)
    BY <1>11 DEF Local, LocalRemove, LocalCreate, LocalRename, MakeAt, DropAt, RenameAt
  <2>2. QED
    BY <1>0, <1>1, <1>2, <2>1
<1>12. QED
  BY <1>6, <1>7, <1>8, <1>9, <1>10, <1>11 DEF Next, SendStep

(* The types stay. *)
LEMMA TypeKept ==
    ASSUME TypeInv, UseInv, WriteInv, Next
    PROVE  TypeInv'
<1>1. TreeInv' /\ ListInv'
  BY TreeKept, ListKept
<1>2. LoadInv'
  <2>1. \/ load' = load
        \/ load.reqs > 0 /\ load' = [load EXCEPT !.reqs = @ - 1]
        \/ load.env > 0 /\ load' = [load EXCEPT !.env = @ - 1]
    <3>1. ASSUME NEW t \in Tasks, TaskStep(t) PROVE load' = load
      BY <3>1
         DEF TaskStep, IoStep, ListStep, LockFile, Seek, Read, Write, Fsync, Clunk,
             ReaddirOpens, ReaddirEntry, ReaddirEnds, WalkStep, Bind, Look, SetattrStep,
             SetattrFails, SetattrTimes, SetattrEnds, LopenStat, LopenOpen, LcreateStat,
             MkdirStat, Refused, MakeFile, Renameat, UnlinkStat, UnlinkRemove, Error, Still
    <3>2. ASSUME NEW t \in Tasks, SendStep(t)
          PROVE  load' = load \/ (load.reqs > 0 /\ load' = [load EXCEPT !.reqs = @ - 1])
      BY <3>2 DEF SendStep, SendNext, Send
    <3>3. ASSUME NEW t \in Tasks, Receive(t) PROVE load' = load
      BY <3>3 DEF Receive
    <3>4. ASSUME NEW f \in Fids, BackgroundWrite(f) PROVE load' = load
      BY <3>4 DEF BackgroundWrite
    <3>5. ASSUME NEW w \in late, LateWrite(w) PROVE load' = load
      BY <3>5 DEF LateWrite
    <3>6. ASSUME Local PROVE load.env > 0 /\ load' = [load EXCEPT !.env = @ - 1]
      BY <3>6 DEF Local
    <3>7. QED
      BY <3>1, <3>2, <3>3, <3>4, <3>5, <3>6 DEF Next, SendStep
  <2>2. QED
    BY <2>1 DEF TypeInv, LoadInv
<1>3. FidInv'
  <2>0. FidInv
    BY DEF TypeInv
  <2>1. ASSUME UNCHANGED <<path, told, file>> PROVE FidInv'
    BY <2>0, <2>1 DEF FidInv
  <2>2. ASSUME NEW t \in Tasks, SendStep(t) PROVE FidInv'
    BY <2>1, <2>2, Sent DEF filevars
  <2>3. ASSUME NEW t \in Tasks, Receive(t) PROVE FidInv'
    BY <2>1, <2>3 DEF Receive, filevars
  <2>4. ASSUME NEW t \in Tasks, TaskStep(t) PROVE FidInv'
    BY <2>4, Tabled
  <2>5. ASSUME NEW f \in Fids, BackgroundWrite(f) PROVE FidInv'
    <3>1. file[f] # NoFile /\ file[f] \in FileRec /\ path' = path /\ told' = told
      BY <2>0, <2>5 DEF BackgroundWrite, FidInv
    <3>2. \E b \in FileRec : file' = [file EXCEPT ![f] = b]
      <4>1. CASE file' = [file EXCEPT ![f].bg = 0]
        <5>1. [file[f] EXCEPT !.bg = 0] \in FileRec
          BY <3>1 DEF FileRec
        <5>2. QED
          BY <2>0, <4>1, <5>1 DEF FidInv
      <4>2. CASE file' = [file EXCEPT ![f] = ErrKept(@)]
        <5>1. ErrKept(file[f]) \in FileRec
          BY <3>1 DEF FileRec, ErrKept
        <5>2. QED
          BY <2>0, <4>2, <5>1 DEF FidInv
      <4>3. QED
        BY <2>5, <4>1, <4>2 DEF BackgroundWrite
    <3>3. QED
      BY <2>0, <3>1, <3>2 DEF FidInv
  <2>6. ASSUME NEW w \in late, LateWrite(w) PROVE FidInv'
    BY <2>1, <2>6 DEF LateWrite
  <2>7. ASSUME Local PROVE FidInv'
    BY <2>1, <2>7 DEF Local, filevars
  <2>8. QED
    BY <2>2, <2>3, <2>4, <2>5, <2>6, <2>7 DEF Next, SendStep
<1>4. TaskInv'
  <2>0. TaskInv
    BY DEF TypeInv
  <2>1. ASSUME UNCHANGED task PROVE TaskInv'
    BY <2>0, <2>1 DEF TaskInv, TaskOK, Request, IsTask
  <2>2. ASSUME NEW t \in Tasks, SendStep(t) PROVE TaskInv'
    BY <2>0, <2>2, Sent, Replaced DEF Allowed
  <2>3. ASSUME NEW t \in Tasks, Receive(t) PROVE TaskInv'
    <3>1. TaskOK(Free)
      BY DEF TaskOK, Free, IsTask, Fields
    <3>2. QED
      BY <2>0, <2>3, <3>1, Replaced DEF Receive
  <2>4. ASSUME NEW t \in Tasks, TaskStep(t) PROVE TaskInv'
    BY <2>0, <2>4, Stepped, Replaced
  <2>5. QED
    BY <2>1, <2>2, <2>3, <2>4 DEF Next, SendStep, BackgroundWrite, LateWrite, Local
<1>5. QED
  BY <1>1, <1>2, <1>3, <1>4 DEF TypeInv

-----------------------------------------------------------------------------
(* The writes.                                                             *)

States == {"flying", "landed", "failed", "reported", "unheard"}
BufInv == DataInv /\ BufferInv /\ OwnInv /\ LateInv /\ LogInv /\ OrderInv

(* What was answered stays, and what is in a file stays where it is; once  *)
(* a write is no longer under way, it does not land any more.              *)
Grows ==
    /\ \A w \in DOMAIN writes :
          /\ w \in DOMAIN writes'
          /\ writes'[w].off = writes[w].off /\ writes'[w].ino = writes[w].ino
          /\ writes[w].st # "flying" =>
                /\ writes'[w].st # "flying"
                /\ writes'[w].st = "landed" => writes[w].st = "landed"
    /\ \A i \in Inos : \A k \in DOMAIN log[i] : k \in DOMAIN log'[i] /\ log'[i][k] = log[i][k]

(* The state of one write changes. *)
LEMMA StateSet ==
    ASSUME DataInv, NEW w \in DOMAIN writes, NEW s \in States,
           writes' = [writes EXCEPT ![w].st = s]
    PROVE  /\ writes' \in Seq(WriteRec) /\ DOMAIN writes' = DOMAIN writes
           /\ \A x \in DOMAIN writes : x # w => writes'[x] = writes[x]
           /\ writes'[w].fid = writes[w].fid /\ writes'[w].ino = writes[w].ino
           /\ writes'[w].off = writes[w].off /\ writes'[w].st = s
<1>1. writes \in Seq(WriteRec) /\ writes[w] \in WriteRec /\ w \in 1..Len(writes)
  BY DEF DataInv
<1>2. PICK x : x = [writes[w] EXCEPT !.st = s]
  OBVIOUS
<1>3. /\ x \in WriteRec /\ x.fid = writes[w].fid /\ x.ino = writes[w].ino
      /\ x.off = writes[w].off /\ x.st = s
  BY <1>1, <1>2 DEF WriteRec, States
<1>4. writes' = [writes EXCEPT ![w] = x]
  BY <1>2
<1>5. /\ writes' \in Seq(WriteRec) /\ Len(writes') = Len(writes)
      /\ \A i \in 1..Len(writes') : writes'[i] = IF i = w THEN x ELSE writes[i]
  BY <1>1, <1>3, <1>4, ExceptSeq
<1>6. DOMAIN writes' = 1..Len(writes') /\ DOMAIN writes = 1..Len(writes)
  BY <1>1, <1>5
<1>7. QED
  BY <1>1, <1>3, <1>5, <1>6

(* A write under way is not in the file, and it is the last of its fid. *)
LEMMA Flying ==
    ASSUME BufInv, NEW w \in DOMAIN writes, writes[w].st = "flying"
    PROVE  /\ \A i \in Inos : \A k \in DOMAIN log[i] : log[i][k] # w
           /\ \A x \in DOMAIN writes :
                 w < x /\ writes[w].fid # NoFid => writes[w].fid # writes[x].fid
BY DEF BufInv, LogInv, OrderInv

(* It lands. *)
LEMMA Landed ==
    ASSUME BufInv, NEW w \in DOMAIN writes, writes[w].st = "flying", WriteLands(w)
    PROVE  DataInv' /\ LogInv' /\ OrderInv' /\ Grows
<1> DEFINE i == writes[w].ino
<1>0. DataInv /\ LogInv /\ OrderInv
  BY DEF BufInv
<1>1. /\ writes' \in Seq(WriteRec) /\ DOMAIN writes' = DOMAIN writes
      /\ \A x \in DOMAIN writes : x # w => writes'[x] = writes[x]
      /\ writes'[w].fid = writes[w].fid /\ writes'[w].ino = i
      /\ writes'[w].off = writes[w].off /\ writes'[w].st = "landed"
  BY <1>0, StateSet DEF WriteLands, States
<1>2. i \in Inos /\ w \in Nat /\ log[i] \in Seq(Nat) /\ Len(log[i]) \in Nat
  <2>1. writes[w] \in WriteRec /\ w \in Nat
    BY <1>0 DEF DataInv
  <2>2. i \in Inos
    BY <2>1 DEF WriteRec
  <2>3. QED
    BY <1>0, <2>1, <2>2 DEF DataInv
<1>3. log' = [log EXCEPT ![i] = Append(log[i], w)]
  BY DEF WriteLands
<1> HIDE DEF i
<1>4. PICK l : l = Append(log[i], w)
  OBVIOUS
<1>5. /\ l \in Seq(Nat) /\ Len(l) = Len(log[i]) + 1 /\ l[Len(log[i]) + 1] = w
      /\ \A k \in 1..Len(log[i]) : l[k] = log[i][k]
  BY <1>2, <1>4
<1>6. /\ log' \in [Inos -> Seq(Nat)] /\ log'[i] = l
      /\ \A j \in Inos \ {i} : log'[j] = log[j]
  BY <1>0, <1>2, <1>3, <1>4, <1>5 DEF DataInv
<1>7. /\ DOMAIN l = 1..(Len(log[i]) + 1) /\ DOMAIN log[i] = 1..Len(log[i])
  BY <1>2, <1>5
<1>8. /\ \A j \in Inos : \A k \in DOMAIN log[j] : log[j][k] # w
      /\ \A x \in DOMAIN writes : w < x /\ writes[w].fid # NoFid => writes[w].fid # writes[x].fid
  BY Flying
<1>9. ASSUME NEW k \in DOMAIN l
      PROVE  \/ k \in DOMAIN log[i] /\ l[k] = log[i][k]
             \/ k = Len(log[i]) + 1 /\ l[k] = w
  <2>1. PICK n \in Nat : n = Len(log[i])
    BY <1>2
  <2>2. k \in 1..(n + 1)
    BY <1>7, <2>1
  <2>3. k \in 1..n \/ k = n + 1
    BY <2>2
  <2>4. QED
    BY <1>5, <1>7, <2>1, <2>3
<1>10. DataInv'
  BY <1>1, <1>6 DEF DataInv
<1>11. Grows
  <2>1. ASSUME NEW k \in DOMAIN log[i] PROVE k \in DOMAIN l /\ l[k] = log[i][k]
    <3>1. PICK n \in Nat : n = Len(log[i])
      BY <1>2
    <3>2. k \in 1..n /\ k \in 1..(n + 1)
      BY <1>7, <3>1
    <3>3. QED
      BY <1>5, <1>7, <3>1, <3>2
  <2>2. QED
    BY <1>1, <1>6, <2>1 DEF Grows, i
<1>12. LogInv'
  <2>1. ASSUME NEW j \in Inos, NEW k \in DOMAIN log'[j]
        PROVE  /\ log'[j][k] \in DOMAIN writes'
               /\ writes'[log'[j][k]].st = "landed" /\ writes'[log'[j][k]].ino = j
               /\ \A m \in DOMAIN log'[j] : log'[j][m] = log'[j][k] => m = k
    <3>1. CASE j # i
      <4>1. log'[j] = log[j] /\ k \in DOMAIN log[j]
        BY <1>6, <2>1, <3>1
      <4>2. /\ log[j][k] \in DOMAIN writes /\ log[j][k] # w
            /\ writes[log[j][k]].st = "landed" /\ writes[log[j][k]].ino = j
            /\ \A m \in DOMAIN log[j] : log[j][m] = log[j][k] => m = k
        BY <1>0, <1>8, <4>1 DEF LogInv
      <4>3. QED
        BY <1>1, <4>1, <4>2
    <3>2. CASE j = i
      <4>1. k \in DOMAIN l /\ log'[j][k] = l[k] /\ log'[j] = l
        BY <1>6, <2>1, <3>2
      <4>2. CASE k \in DOMAIN log[i] /\ l[k] = log[i][k]
        <5>1. /\ log[i][k] \in DOMAIN writes /\ log[i][k] # w
              /\ writes[log[i][k]].st = "landed" /\ writes[log[i][k]].ino = i
              /\ \A m \in DOMAIN log[i] : log[i][m] = log[i][k] => m = k
          BY <1>0, <1>2, <1>8, <4>2 DEF LogInv
        <5>2. ASSUME NEW m \in DOMAIN l, l[m] = l[k] PROVE m = k
          BY <1>9, <4>2, <5>1, <5>2
        <5>3. QED
          BY <1>1, <3>2, <4>1, <4>2, <5>1, <5>2
      <4>3. CASE k = Len(log[i]) + 1 /\ l[k] = w
        <5>1. ASSUME NEW m \in DOMAIN l, l[m] = w PROVE m = k
          BY <1>2, <1>8, <1>9, <4>3, <5>1
        <5>2. QED
          BY <1>1, <3>2, <4>1, <4>3, <5>1
      <4>4. QED
        BY <1>9, <4>1, <4>2, <4>3
    <3>3. QED
      BY <3>1, <3>2
  <2>2. ASSUME NEW x \in DOMAIN writes', writes'[x].st = "landed"
        PROVE  \E k \in DOMAIN log'[writes'[x].ino] : log'[writes'[x].ino][k] = x
    <3>1. CASE x = w
      <4>1. Len(log[i]) + 1 \in DOMAIN l
        BY <1>2, <1>7
      <4>2. QED
        BY <1>1, <1>5, <1>6, <3>1, <4>1
    <3>2. CASE x # w
      <4>1. writes'[x] = writes[x] /\ x \in DOMAIN writes /\ writes[x] \in WriteRec
        BY <1>0, <1>1, <3>2 DEF DataInv
      <4>2. writes[x].ino \in Inos
        BY <4>1 DEF WriteRec
      <4>3. PICK k \in DOMAIN log[writes[x].ino] : log[writes[x].ino][k] = x
        BY <1>0, <2>2, <4>1 DEF LogInv
      <4>4. k \in DOMAIN log'[writes[x].ino] /\ log'[writes[x].ino][k] = x
        BY <1>11, <4>2, <4>3 DEF Grows
      <4>5. QED
        BY <4>1, <4>4
    <3>3. QED
      BY <3>1, <3>2
  <2>3. QED
    BY <2>1, <2>2 DEF LogInv
<1>13. OrderInv'
  <2> SUFFICES ASSUME NEW v \in DOMAIN writes', NEW x \in DOMAIN writes', v < x,
                      writes'[v].fid # NoFid, writes'[v].fid = writes'[x].fid
               PROVE  /\ writes'[v].st \notin {"flying", "failed"}
                      /\ \A j \in Inos : \A k, m \in DOMAIN log'[j] :
                            log'[j][k] = v /\ log'[j][m] = x => k < m
    BY DEF OrderInv
  <2>1. v \in DOMAIN writes /\ x \in DOMAIN writes /\ writes[v].fid # NoFid
        /\ writes[v].fid = writes[x].fid
    BY <1>1
  <2>2. v # w
    BY <1>8, <2>1
  <2>3. writes'[v].st \notin {"flying", "failed"}
    BY <1>0, <1>1, <2>1, <2>2 DEF OrderInv
  <2>4. ASSUME NEW j \in Inos, NEW k \in DOMAIN log'[j], NEW m \in DOMAIN log'[j],
               log'[j][k] = v, log'[j][m] = x
        PROVE  k < m
    <3>1. CASE j # i
      BY <1>0, <1>6, <2>1, <2>4, <3>1 DEF OrderInv
    <3>2. CASE j = i
      <4>1. k \in DOMAIN log[i] /\ log[i][k] = v
        BY <1>6, <1>9, <2>2, <2>4, <3>2
      <4>2. CASE m \in DOMAIN log[i] /\ l[m] = log[i][m]
        BY <1>0, <1>2, <1>6, <2>1, <2>4, <3>2, <4>1, <4>2 DEF OrderInv
      <4>3. CASE m = Len(log[i]) + 1
        BY <1>2, <1>7, <4>1, <4>3
      <4>4. QED
        BY <1>6, <1>9, <2>4, <3>2, <4>2, <4>3
    <3>3. QED
      BY <3>1, <3>2
  <2>5. QED
    BY <2>3, <2>4
<1>14. QED
  BY <1>10, <1>11, <1>12, <1>13

(* It fails. *)
LEMMA Failed ==
    ASSUME BufInv, NEW w \in DOMAIN writes, writes[w].st = "flying",
           NEW s \in {"failed", "unheard"}, WriteFails(w, s)
    PROVE  DataInv' /\ LogInv' /\ OrderInv' /\ Grows
<1>0. DataInv /\ LogInv /\ OrderInv
  BY DEF BufInv
<1>1. /\ writes' \in Seq(WriteRec) /\ DOMAIN writes' = DOMAIN writes
      /\ \A x \in DOMAIN writes : x # w => writes'[x] = writes[x]
      /\ writes'[w].fid = writes[w].fid /\ writes'[w].ino = writes[w].ino
      /\ writes'[w].off = writes[w].off /\ writes'[w].st = s
  BY <1>0, StateSet DEF WriteFails, States
<1>2. log' = log
  BY DEF WriteFails
<1>3. /\ \A j \in Inos : \A k \in DOMAIN log[j] : log[j][k] # w
      /\ \A x \in DOMAIN writes : w < x /\ writes[w].fid # NoFid => writes[w].fid # writes[x].fid
  BY Flying
<1>4. DataInv' /\ Grows
  BY <1>0, <1>1, <1>2 DEF DataInv, Grows
<1>5. LogInv'
  BY <1>0, <1>1, <1>2, <1>3 DEF LogInv
<1>6. OrderInv'
  BY <1>0, <1>1, <1>2, <1>3 DEF OrderInv
<1>7. QED
  BY <1>4, <1>5, <1>6

(* The thread of an open file ends. *)
LEMMA BackgroundKept ==
    ASSUME BufInv, FidInv, NEW f \in Fids, BackgroundWrite(f)
    PROVE  BufInv' /\ Grows
<1> DEFINE w == file[f].bg
<1>0. DataInv /\ BufferInv /\ OwnInv /\ LateInv
  BY DEF BufInv
<1>1. /\ file[f] # NoFile /\ file[f] \in FileRec /\ w # 0 /\ w \in DOMAIN writes
      /\ writes[w].fid = f /\ writes[w].st = "flying" /\ file[f].err = 0
  BY <1>0 DEF BackgroundWrite, BufferInv, FidInv
<1>2. 0 \notin DOMAIN writes /\ late' = late /\ f # NoFid
  BY <1>0, FidAssumption DEF DataInv, BackgroundWrite
<1> HIDE DEF w
<1>3. PICK b \in FileRec, s \in {"landed", "failed"} :
        /\ writes' = [writes EXCEPT ![w].st = s] /\ file' = [file EXCEPT ![f] = b]
        /\ b.bg = 0 /\ b.ino = file[f].ino
        /\ b.err = IF s = "failed" THEN w ELSE 0
        /\ DataInv' /\ LogInv' /\ OrderInv' /\ Grows
  <2>1. CASE WriteLands(w) /\ file' = [file EXCEPT ![f].bg = 0]
    <3> DEFINE b == [file[f] EXCEPT !.bg = 0]
    <3>1. b \in FileRec /\ b.bg = 0 /\ b.ino = file[f].ino /\ b.err = 0
      BY <1>1 DEF FileRec
    <3>2. file' = [file EXCEPT ![f] = b]
      BY <2>1 DEF FidInv
    <3>3. writes' = [writes EXCEPT ![w].st = "landed"]
      BY <2>1 DEF WriteLands
    <3>4. DataInv' /\ LogInv' /\ OrderInv' /\ Grows
      BY <1>1, <2>1, Landed
    <3> HIDE DEF b
    <3>5. QED
      BY <3>1, <3>2, <3>3, <3>4
  <2>2. CASE WriteFails(w, "failed") /\ file' = [file EXCEPT ![f] = ErrKept(@)]
    <3> DEFINE b == ErrKept(file[f])
    <3>1. b \in FileRec /\ b.bg = 0 /\ b.ino = file[f].ino /\ b.err = w
      BY <1>1 DEF FileRec, ErrKept, w
    <3>2. file' = [file EXCEPT ![f] = b]
      BY <2>2 DEF FidInv
    <3>3. writes' = [writes EXCEPT ![w].st = "failed"]
      BY <2>2 DEF WriteFails
    <3>4. DataInv' /\ LogInv' /\ OrderInv' /\ Grows
      BY <1>1, <2>2, Failed
    <3> HIDE DEF b
    <3>5. QED
      BY <3>1, <3>2, <3>3, <3>4
  <2>3. QED
    BY <2>1, <2>2 DEF BackgroundWrite, w
<1>4. /\ DOMAIN writes' = DOMAIN writes
      /\ \A x \in DOMAIN writes : x # w => writes'[x] = writes[x]
      /\ writes'[w].fid = f /\ writes'[w].ino = writes[w].ino /\ writes'[w].st = s
  BY <1>0, <1>1, <1>3, StateSet DEF States
<1>5. file'[f] = b /\ b # NoFile /\ \A g \in Fids \ {f} : file'[g] = file[g]
  BY <1>3, FidAssumption DEF FidInv, FileRec
<1>6. BufferInv'
  <2> SUFFICES ASSUME NEW g \in Fids, file'[g] # NoFile
               PROVE  /\ file'[g].bg # 0 => /\ file'[g].bg \in DOMAIN writes'
                                            /\ writes'[file'[g].bg].fid = g
                                            /\ writes'[file'[g].bg].st = "flying"
                      /\ file'[g].err # 0 => /\ file'[g].err \in DOMAIN writes'
                                             /\ writes'[file'[g].err].fid = g
                                             /\ writes'[file'[g].err].st = "failed"
                      /\ file'[g].bg = 0 \/ file'[g].err = 0
    BY DEF BufferInv
  <2>1. CASE g = f
    BY <1>1, <1>3, <1>4, <1>5, <2>1
  <2>2. CASE g # f
    <3>1. file'[g] = file[g]
      BY <1>5, <2>2
    <3>2. file[g].bg # w /\ file[g].err # w
      BY <1>0, <1>1, <2>2, <3>1 DEF BufferInv
    <3>3. QED
      BY <1>0, <1>4, <3>1, <3>2 DEF BufferInv
  <2>3. QED
    BY <2>1, <2>2
<1>7. OwnInv'
  <2> SUFFICES ASSUME NEW x \in DOMAIN writes'
               PROVE  LET g == writes'[x].fid IN
                      IF g = NoFid THEN writes'[x].st # "failed"
                      ELSE /\ file'[g] # NoFile /\ writes'[x].ino = file'[g].ino
                           /\ writes'[x].st = "flying" => file'[g].bg = x
                           /\ writes'[x].st = "failed" => file'[g].err = x
    BY DEF OwnInv
  <2>1. CASE x = w
    <3>1. writes[w].ino = file[f].ino
      BY <1>0, <1>1, <1>2 DEF OwnInv
    <3>2. QED
      BY <1>2, <1>3, <1>4, <1>5, <2>1, <3>1
  <2>2. CASE x # w
    <3>1. x \in DOMAIN writes /\ writes'[x] = writes[x] /\ writes[x].fid \in Fids \cup {NoFid}
      <4>1. x \in DOMAIN writes /\ writes[x] \in WriteRec
        BY <1>0, <1>4 DEF DataInv
      <4>2. QED
        BY <1>4, <2>2, <4>1 DEF WriteRec
    <3>2. CASE writes[x].fid = f
      <4>1. /\ writes[x].ino = file[f].ino
            /\ writes[x].st # "flying" /\ writes[x].st # "failed"
        BY <1>0, <1>1, <1>2, <2>2, <3>1, <3>2 DEF OwnInv, w
      <4>2. QED
        BY <1>2, <1>3, <1>5, <3>1, <3>2, <4>1
    <3>3. CASE writes[x].fid # f
      BY <1>0, <1>5, <3>1, <3>3 DEF OwnInv
    <3>4. QED
      BY <3>2, <3>3
  <2>3. QED
    BY <2>1, <2>2
<1>8. LateInv'
  <2>1. w \notin late
    BY <1>0, <1>1, <1>2 DEF LateInv
  <2>2. QED
    BY <1>0, <1>2, <1>4, <2>1 DEF LateInv
<1>9. QED
  BY <1>3, <1>6, <1>7, <1>8 DEF BufInv

(* The thread of a file that was dropped ends. *)
LEMMA LateKept ==
    ASSUME BufInv, NEW w \in late, LateWrite(w)
    PROVE  BufInv' /\ Grows
<1>0. DataInv /\ BufferInv /\ OwnInv /\ LateInv
  BY DEF BufInv
<1>1. /\ w \in DOMAIN writes /\ writes[w].fid = NoFid /\ writes[w].st = "flying"
      /\ late' = late \ {w} /\ file' = file
  BY <1>0 DEF LateInv, LateWrite
<1>2. DataInv' /\ LogInv' /\ OrderInv' /\ Grows
  BY <1>1, Landed, Failed DEF LateWrite
<1>3. PICK s \in {"landed", "unheard"} : writes' = [writes EXCEPT ![w].st = s]
  BY DEF LateWrite, WriteLands, WriteFails
<1>4. /\ DOMAIN writes' = DOMAIN writes
      /\ \A x \in DOMAIN writes : x # w => writes'[x] = writes[x]
      /\ writes'[w].fid = NoFid /\ writes'[w].st = s
  BY <1>0, <1>1, <1>3, StateSet DEF States
<1>5. BufferInv'
  <2>1. \A g \in Fids : file[g] # NoFile =>
           /\ file[g].bg # 0 => file[g].bg # w
           /\ file[g].err # 0 => file[g].err # w
    BY <1>0, <1>1, FidAssumption DEF BufferInv
  <2>2. QED
    BY <1>0, <1>1, <1>4, <2>1 DEF BufferInv
<1>6. OwnInv'
  BY <1>0, <1>1, <1>4 DEF OwnInv
<1>7. LateInv'
  BY <1>0, <1>1, <1>4 DEF LateInv
<1>8. QED
  BY <1>2, <1>5, <1>6, <1>7 DEF BufInv

(* The table of fids drops a file. *)
LEMMA ClunkKept ==
    ASSUME BufInv, FidInv, NEW t \in Tasks, task[t].fid \in Fids, Clunk(t)
    PROVE  /\ BufInv' /\ Grows
           /\ \A w \in DOMAIN writes : writes[w].fid # task[t].fid => writes'[w].fid = writes[w].fid
<1> DEFINE f == task[t].fid
<1>0. DataInv /\ BufferInv /\ OwnInv /\ LateInv /\ LogInv /\ OrderInv
  BY DEF BufInv
<1>1. /\ file' = [file EXCEPT ![f] = NoFile] /\ log' = log
      /\ late' = late \cup LeftRunning(file[f])
      /\ writes' = [w \in DOMAIN writes |->
            IF writes[w].fid = f THEN Orphaned(writes[w]) ELSE writes[w]]
  BY DEF Clunk
<1>2. f \in Fids /\ f # NoFid
  BY FidAssumption
<1> HIDE DEF f
<1>3. ASSUME NEW w \in DOMAIN writes
      PROVE  /\ writes'[w] \in WriteRec
             /\ writes[w].fid # f => writes'[w] = writes[w]
             /\ writes[w].fid = f =>
                   /\ writes'[w].fid = NoFid /\ writes'[w].ino = writes[w].ino
                   /\ writes'[w].off = writes[w].off
                   /\ writes'[w].st = IF writes[w].st = "failed" THEN "unheard" ELSE writes[w].st
  <2>1. writes[w] \in WriteRec
    BY <1>0 DEF DataInv
  <2>2. CASE writes[w].fid # f
    BY <1>1, <2>1, <2>2
  <2>3. CASE writes[w].fid = f
    <3>1. PICK st : st = IF writes[w].st = "failed" THEN "unheard" ELSE writes[w].st
      OBVIOUS
    <3>2. writes'[w] = [writes[w] EXCEPT !.fid = NoFid, !.st = st]
      BY <1>1, <2>3, <3>1 DEF Orphaned
    <3>3. st \in States
      BY <2>1, <3>1 DEF WriteRec, States
    <3>4. QED
      BY <2>1, <2>3, <3>1, <3>2, <3>3 DEF WriteRec, States
  <2>4. QED
    BY <2>2, <2>3
<1>4. DOMAIN writes' = DOMAIN writes
  BY <1>1
<1>5. writes' \in Seq(WriteRec)
  <2>1. DOMAIN writes = 1..Len(writes) /\ Len(writes) \in Nat
    BY <1>0 DEF DataInv
  <2>2. writes' = [w \in 1..Len(writes) |-> writes'[w]]
    BY <1>1, <2>1
  <2>3. QED
    BY <1>3, <2>1, <2>2
<1>6. file'[f] = NoFile /\ \A g \in Fids \ {f} : file'[g] = file[g]
  BY <1>1, <1>2 DEF FidInv
<1>7. DataInv' /\ Grows
  BY <1>0, <1>1, <1>3, <1>4, <1>5 DEF DataInv, Grows
<1>8. BufferInv'
  <2> SUFFICES ASSUME NEW g \in Fids, file'[g] # NoFile
               PROVE  /\ file'[g].bg # 0 => /\ file'[g].bg \in DOMAIN writes'
                                            /\ writes'[file'[g].bg].fid = g
                                            /\ writes'[file'[g].bg].st = "flying"
                      /\ file'[g].err # 0 => /\ file'[g].err \in DOMAIN writes'
                                             /\ writes'[file'[g].err].fid = g
                                             /\ writes'[file'[g].err].st = "failed"
                      /\ file'[g].bg = 0 \/ file'[g].err = 0
    BY DEF BufferInv
  <2>1. g # f /\ file'[g] = file[g]
    BY <1>6
  <2>2. QED
    BY <1>0, <1>3, <1>4, <2>1 DEF BufferInv
<1>9. OwnInv'
  <2> SUFFICES ASSUME NEW x \in DOMAIN writes'
               PROVE  LET g == writes'[x].fid IN
                      IF g = NoFid THEN writes'[x].st # "failed"
                      ELSE /\ file'[g] # NoFile /\ writes'[x].ino = file'[g].ino
                           /\ writes'[x].st = "flying" => file'[g].bg = x
                           /\ writes'[x].st = "failed" => file'[g].err = x
    BY DEF OwnInv
  <2>1. x \in DOMAIN writes
    BY <1>4
  <2>2. CASE writes[x].fid = f
    BY <1>3, <2>1, <2>2
  <2>3. CASE writes[x].fid # f
    <3>1. writes'[x] = writes[x] /\ writes[x].fid \in Fids \cup {NoFid}
      BY <1>0, <1>3, <2>1, <2>3 DEF DataInv, WriteRec
    <3>2. QED
      BY <1>0, <1>6, <2>1, <2>3, <3>1 DEF OwnInv
  <2>4. QED
    BY <2>2, <2>3
<1>10. LateInv'
  <2> SUFFICES ASSUME NEW x \in late'
               PROVE  x \in DOMAIN writes' /\ writes'[x].fid = NoFid /\ writes'[x].st = "flying"
    BY DEF LateInv
  <2>1. CASE x \in late
    BY <1>0, <1>2, <1>3, <1>4, <2>1 DEF LateInv
  <2>2. CASE x \in LeftRunning(file[f])
    <3>1. file[f] # NoFile /\ file[f].bg # 0 /\ x = file[f].bg
      BY <2>2 DEF LeftRunning
    <3>2. x \in DOMAIN writes /\ writes[x].fid = f /\ writes[x].st = "flying"
      BY <1>0, <1>2, <3>1 DEF BufferInv
    <3>3. QED
      BY <1>3, <1>4, <3>2
  <2>3. QED
    BY <1>1, <2>1, <2>2
<1>11. LogInv'
  <2>1. \A w \in DOMAIN writes : /\ (writes'[w].st = "landed") = (writes[w].st = "landed")
                                 /\ writes'[w].ino = writes[w].ino
    BY <1>3
  <2>2. QED
    BY <1>0, <1>1, <1>4, <2>1 DEF LogInv
<1>12. OrderInv'
  <2>1. \A w \in DOMAIN writes : writes'[w].fid # NoFid => writes'[w] = writes[w]
    BY <1>3
  <2>2. QED
    BY <1>0, <1>1, <1>4, <2>1 DEF OrderInv
<1>13. QED
  BY <1>3, <1>7, <1>8, <1>9, <1>10, <1>11, <1>12 DEF BufInv, f

(* The files change in what the writes do not depend on: an offset is set, *)
(* or a fid is opened. *)
LEMMA FileSet ==
    ASSUME BufInv, FidInv, NEW f \in Fids, NEW b \in FileRec,
           UNCHANGED <<log, writes, late>>, file' = [file EXCEPT ![f] = b],
           \/ /\ file[f] # NoFile
              /\ b.ino = file[f].ino /\ b.bg = file[f].bg /\ b.err = file[f].err
           \/ file[f] = NoFile /\ b.bg = 0 /\ b.err = 0
    PROVE  BufInv'
<1>0. DataInv /\ BufferInv /\ OwnInv /\ LateInv /\ LogInv /\ OrderInv
  BY DEF BufInv
<1>1. file'[f] = b /\ b # NoFile /\ \A g \in Fids \ {f} : file'[g] = file[g]
  BY FidAssumption DEF FidInv, FileRec
<1>2. BufferInv'
  BY <1>0, <1>1 DEF BufferInv
<1>3. OwnInv'
  <2>1. \A w \in DOMAIN writes : writes[w].fid \in Fids \cup {NoFid}
    <3>1. \A w \in DOMAIN writes : writes[w] \in WriteRec
      BY <1>0 DEF DataInv
    <3>2. QED
      BY <3>1 DEF WriteRec
  <2>2. QED
    BY <1>0, <1>1, <2>1 DEF OwnInv
<1>4. QED
  BY <1>0, <1>2, <1>3 DEF BufInv, DataInv, LateInv, LogInv, OrderInv

(* rwrite. *)
LEMMA WriteKept ==
    ASSUME TypeInv, BufInv, LockInv, NEW t \in Tasks, Write(t)
    PROVE  /\ BufInv' /\ Grows
           /\ \A w \in DOMAIN writes : writes'[w].fid = writes[w].fid
<1> DEFINE f == task[t].fid
           n == Len(writes) + 1
<1>0. DataInv /\ BufferInv /\ OwnInv /\ LateInv /\ LogInv /\ OrderInv /\ FidInv
  BY DEF BufInv, TypeInv
<1>1. f \in Fids /\ f # NoFid /\ file[f] \in FileRec /\ file[f] # NoFile /\ file[f].bg = 0
  <2>1. HoldsLock(t) /\ task[t].pc = "io"
    BY DEF Write, At, HoldsLock
  <2>2. QED
    BY <2>1, HeldFile, FidAssumption DEF LockInv
<1>2. log' = log /\ late' = late /\ 0 \notin DOMAIN writes /\ DOMAIN writes = 1..Len(writes)
      /\ Len(writes) \in Nat
  BY <1>0 DEF Write, DataInv
<1>3. \A w \in DOMAIN writes : writes[w].fid \in Fids \cup {NoFid}
  <2>1. \A w \in DOMAIN writes : writes[w] \in WriteRec
    BY <1>0 DEF DataInv
  <2>2. QED
    BY <2>1 DEF WriteRec
<1>4. CASE LastErr(f) # 0
  <2> DEFINE e == file[f].err
  <2>1. /\ writes' = [writes EXCEPT ![e].st = "reported"]
        /\ file' = [file EXCEPT ![f].err = 0]
    BY <1>4 DEF Write, LastErr
  <2>2. /\ e # 0 /\ e \in DOMAIN writes /\ writes[e].fid = f /\ writes[e].st = "failed"
    BY <1>0, <1>1, <1>4 DEF BufferInv, LastErr
  <2> HIDE DEF e
  <2>3. /\ writes' \in Seq(WriteRec) /\ DOMAIN writes' = DOMAIN writes
        /\ \A x \in DOMAIN writes : x # e => writes'[x] = writes[x]
        /\ writes'[e].fid = f /\ writes'[e].ino = writes[e].ino
        /\ writes'[e].off = writes[e].off /\ writes'[e].st = "reported"
    BY <1>0, <2>1, <2>2, StateSet DEF States
  <2>4. PICK b \in FileRec : /\ file' = [file EXCEPT ![f] = b]
                             /\ b.ino = file[f].ino /\ b.bg = 0 /\ b.err = 0
    <3> DEFINE c == [file[f] EXCEPT !.err = 0]
    <3>1. c \in FileRec /\ c.ino = file[f].ino /\ c.bg = 0 /\ c.err = 0
      BY <1>1 DEF FileRec
    <3>2. file' = [file EXCEPT ![f] = c]
      BY <1>0, <2>1 DEF FidInv
    <3> HIDE DEF c
    <3>3. QED
      BY <3>1, <3>2
  <2>5. file'[f] = b /\ b # NoFile /\ \A g \in Fids \ {f} : file'[g] = file[g]
    BY <1>0, <1>1, <2>4, FidAssumption DEF FidInv, FileRec
  <2>6. DataInv' /\ Grows
    BY <1>0, <1>2, <2>2, <2>3 DEF DataInv, Grows
  <2>7. BufferInv'
    <3>1. \A g \in Fids \ {f} : file[g] # NoFile =>
             /\ file[g].bg # 0 => file[g].bg # e
             /\ file[g].err # 0 => file[g].err # e
      BY <1>0, <2>2 DEF BufferInv
    <3>2. QED
      BY <1>0, <2>3, <2>4, <2>5, <3>1 DEF BufferInv
  <2>8. OwnInv'
    <3> SUFFICES ASSUME NEW x \in DOMAIN writes'
                 PROVE  LET g == writes'[x].fid IN
                        IF g = NoFid THEN writes'[x].st # "failed"
                        ELSE /\ file'[g] # NoFile /\ writes'[x].ino = file'[g].ino
                             /\ writes'[x].st = "flying" => file'[g].bg = x
                             /\ writes'[x].st = "failed" => file'[g].err = x
      BY DEF OwnInv
    <3>1. CASE x = e
      <4>1. writes[e].ino = file[f].ino
        BY <1>0, <1>1, <2>2 DEF OwnInv
      <4>2. QED
        BY <1>1, <2>3, <2>4, <2>5, <3>1, <4>1
    <3>2. CASE x # e /\ writes[x].fid = f
      <4>1. /\ x \in DOMAIN writes /\ writes'[x] = writes[x] /\ writes[x].ino = file[f].ino
            /\ writes[x].st # "flying" /\ writes[x].st # "failed"
        <5>1. x \in DOMAIN writes /\ writes'[x] = writes[x] /\ x # 0
          BY <1>2, <2>3, <3>2
        <5>2. /\ writes[x].ino = file[f].ino
              /\ writes[x].st = "flying" => file[f].bg = x
              /\ writes[x].st = "failed" => file[f].err = x
          BY <1>0, <1>1, <3>2, <5>1 DEF OwnInv
        <5>3. QED
          BY <1>1, <3>2, <5>1, <5>2 DEF e
      <4>2. QED
        BY <1>1, <2>4, <2>5, <3>2, <4>1
    <3>3. CASE x # e /\ writes[x].fid # f
      BY <1>0, <1>3, <2>3, <2>5, <3>3 DEF OwnInv
    <3>4. QED
      BY <3>1, <3>2, <3>3
  <2>9. LateInv'
    BY <1>0, <1>2, <2>2, <2>3 DEF LateInv
  <2>10. LogInv'
    BY <1>0, <1>2, <2>2, <2>3 DEF LogInv
  <2>11. OrderInv'
    BY <1>0, <1>2, <2>2, <2>3 DEF OrderInv
  <2>12. QED
    BY <2>2, <2>3, <2>6, <2>7, <2>8, <2>9, <2>10, <2>11 DEF BufInv
<1>5. CASE LastErr(f) = 0
  <2>1. PICK x : x = [fid |-> f, ino |-> file[f].ino, off |-> file[f].pos, st |-> "flying"]
    OBVIOUS
  <2>2. /\ x \in WriteRec /\ x.fid = f /\ x.ino = file[f].ino /\ x.st = "flying"
    BY <1>1, <2>1 DEF WriteRec, FileRec
  <2>3. /\ writes' = Append(writes, x)
        /\ file' = [file EXCEPT ![f].bg = Len(writes')]
    BY <1>5, <2>1 DEF Write
  <2>4. /\ writes' \in Seq(WriteRec) /\ Len(writes') = n /\ writes'[n] = x
        /\ \A w \in 1..Len(writes) : writes'[w] = writes[w]
    BY <1>0, <2>2, <2>3 DEF DataInv
  <2>5. /\ n \in Nat /\ n # 0 /\ n \notin DOMAIN writes
        /\ \A w \in DOMAIN writes : w < n
    BY <1>2
  <2> HIDE DEF n
  <2>6. DOMAIN writes' = DOMAIN writes \cup {n}
    <3>1. DOMAIN writes' = 1..n
      BY <2>4
    <3>2. 1..n = (1..Len(writes)) \cup {n}
      BY <1>2 DEF n
    <3>3. QED
      BY <1>2, <3>1, <3>2
  <2>7. \A w \in DOMAIN writes : writes'[w] = writes[w] /\ w \in DOMAIN writes'
    BY <1>2, <2>4, <2>6
  <2>8. PICK b \in FileRec : /\ file' = [file EXCEPT ![f] = b]
                             /\ b.ino = file[f].ino /\ b.bg = n /\ b.err = 0
    <3> DEFINE c == [file[f] EXCEPT !.bg = n]
    <3>1. c \in FileRec /\ c.ino = file[f].ino /\ c.bg = n /\ c.err = 0
      BY <1>1, <1>5, <2>5 DEF FileRec, LastErr
    <3>2. file' = [file EXCEPT ![f] = c]
      BY <1>0, <2>3, <2>4 DEF FidInv
    <3> HIDE DEF c
    <3>3. QED
      BY <3>1, <3>2
  <2>9. file'[f] = b /\ b # NoFile /\ \A g \in Fids \ {f} : file'[g] = file[g]
    BY <1>0, <1>1, <2>8, FidAssumption DEF FidInv, FileRec
  <2>10. \A w \in DOMAIN writes : writes[w].fid = f => writes[w].st \notin {"flying", "failed"}
    BY <1>0, <1>1, <1>2, <1>5 DEF OwnInv, LastErr
  <2>11. DataInv' /\ Grows
    BY <1>0, <1>2, <2>4, <2>7 DEF DataInv, Grows
  <2>12. BufferInv'
    BY <1>0, <2>2, <2>4, <2>6, <2>7, <2>8, <2>9 DEF BufferInv
  <2>13. OwnInv'
    <3> SUFFICES ASSUME NEW w \in DOMAIN writes'
                 PROVE  LET g == writes'[w].fid IN
                        IF g = NoFid THEN writes'[w].st # "failed"
                        ELSE /\ file'[g] # NoFile /\ writes'[w].ino = file'[g].ino
                             /\ writes'[w].st = "flying" => file'[g].bg = w
                             /\ writes'[w].st = "failed" => file'[g].err = w
      BY DEF OwnInv
    <3>1. CASE w = n
      BY <1>1, <2>2, <2>4, <2>8, <2>9, <3>1
    <3>2. CASE w \in DOMAIN writes /\ writes[w].fid = f
      BY <1>0, <1>1, <2>7, <2>8, <2>9, <2>10, <3>2 DEF OwnInv
    <3>3. CASE w \in DOMAIN writes /\ writes[w].fid # f
      BY <1>0, <1>3, <2>7, <2>9, <3>3 DEF OwnInv
    <3>4. QED
      BY <2>6, <3>1, <3>2, <3>3
  <2>14. LateInv'
    BY <1>0, <1>2, <2>7 DEF LateInv
  <2>15. LogInv'
    <3>1. writes'[n].st # "landed"
      BY <2>2, <2>4
    <3>2. QED
      BY <1>0, <1>2, <2>6, <2>7, <3>1 DEF LogInv
  <2>16. OrderInv'
    <3> SUFFICES ASSUME NEW v \in DOMAIN writes', NEW w \in DOMAIN writes', v < w,
                        writes'[v].fid # NoFid, writes'[v].fid = writes'[w].fid
                 PROVE  /\ writes'[v].st \notin {"flying", "failed"}
                        /\ \A i \in Inos : \A k, l \in DOMAIN log'[i] :
                              log'[i][k] = v /\ log'[i][l] = w => k < l
      BY DEF OrderInv
    <3>1. v \in DOMAIN writes
      <4>1. v # n
        <5>1. w = n \/ w < n
          BY <2>5, <2>6
        <5>2. w \in Nat /\ v \in Nat
          BY <1>2, <2>5, <2>6
        <5>3. QED
          BY <2>5, <5>1, <5>2
      <4>2. QED
        BY <2>6, <4>1
    <3>2. CASE w = n
      <4>1. \A i \in Inos : \A l \in DOMAIN log[i] : log[i][l] # n
        BY <1>0, <2>5 DEF LogInv
      <4>2. QED
        BY <1>2, <2>2, <2>4, <2>7, <2>10, <3>1, <3>2, <4>1
    <3>3. CASE w \in DOMAIN writes
      BY <1>0, <1>2, <2>7, <3>1, <3>3 DEF OrderInv
    <3>4. QED
      BY <2>6, <3>2, <3>3
  <2>17. QED
    BY <2>7, <2>11, <2>12, <2>13, <2>14, <2>15, <2>16 DEF BufInv
<1>6. QED
  BY <1>4, <1>5

(* A write keeps its fid, until that is clunked.                           *)
FidKept(w) ==
    \/ writes'[w].fid = writes[w].fid
    \/ \E t \in Tasks : Runs(t) /\ task[t].op = "clunk" /\ writes[w].fid = task[t].fid

(* The writes, step by step. *)
LEMMA BufKept ==
    ASSUME TypeInv, UseInv, WriteInv, Next
    PROVE  BufInv' /\ Grows /\ \A w \in DOMAIN writes : FidKept(w)
<1>0. BufInv /\ LockInv /\ FidInv /\ DataInv
  BY DEF WriteInv, BufInv, TypeInv
<1> DEFINE Good == BufInv' /\ Grows /\ \A w \in DOMAIN writes : FidKept(w)
<1>1. ASSUME UNCHANGED <<log, writes>> PROVE Grows /\ \A w \in DOMAIN writes : FidKept(w)
  BY <1>1 DEF Grows, FidKept
<1>2. ASSUME UNCHANGED filevars PROVE Good
  <2>1. BufInv'
    BY <1>0, <1>2 DEF filevars, BufInv, DataInv, BufferInv, OwnInv, LateInv, LogInv, OrderInv
  <2>2. QED
    BY <1>1, <1>2, <2>1 DEF filevars
<1>3. ASSUME NEW t \in Tasks, TaskStep(t) PROVE Good
  <2> DEFINE f == task[t].fid
  <2>1. Runs(t) /\ Request(task[t]) /\ task[t].path \in Seq(Names)
    BY <1>3, Stepped DEF TypeInv, TaskInv, TaskOK
  <2>2. ASSUME Error(t) PROVE Good
    BY <1>2, <2>2 DEF Error, Still
  <2>3. CASE Seek(t)
    <3>1. HoldsLock(t)
      BY <2>3 DEF Seek, HoldsLock
    <3>2. f \in Fids /\ file[f] \in FileRec /\ file[f] # NoFile
          /\ (task[t].op # "fsync" => task[t].off \in {0, 1})
      BY <1>0, <3>1, HeldFile
    <3>0. CASE Error(t)
      BY <2>2, <3>0
    <3>3. ASSUME ~Error(t)
          PROVE  \E b \in FileRec : /\ file' = [file EXCEPT ![f] = b] /\ b.ino = file[f].ino
                                    /\ b.bg = file[f].bg /\ b.err = file[f].err
      <4>1. CASE task[t].op = "fsync"
        <5>1. file' = [file EXCEPT ![f] = file[f]]
          BY <1>0, <2>3, <3>2, <3>3, <4>1 DEF Seek, FidInv
        <5>2. QED
          BY <3>2, <5>1
      <4>2. CASE task[t].op # "fsync"
        <5> DEFINE c == [file[f] EXCEPT !.pos = task[t].off]
        <5>1. c \in FileRec /\ c.ino = file[f].ino /\ c.bg = file[f].bg /\ c.err = file[f].err
          BY <3>2, <4>2 DEF FileRec
        <5>2. file' = [file EXCEPT ![f] = c]
          BY <1>0, <2>3, <3>3, <4>2 DEF Seek, FidInv
        <5> HIDE DEF c
        <5>3. QED
          BY <5>1, <5>2
      <4>3. QED
        BY <4>1, <4>2
    <3>4. ~Error(t) => UNCHANGED <<log, writes, late>>
      BY <2>3 DEF Seek
    <3>5. CASE ~Error(t)
      <4>1. PICK b \in FileRec : /\ file' = [file EXCEPT ![f] = b] /\ b.ino = file[f].ino
                                 /\ b.bg = file[f].bg /\ b.err = file[f].err
        BY <3>3, <3>5
      <4>2. QED
        BY <1>0, <1>1, <3>2, <3>4, <3>5, <4>1, FileSet
    <3>6. QED
      BY <3>0, <3>5
  <2>4. CASE Write(t)
    BY <1>0, <2>4, WriteKept DEF FidKept
  <2>5. CASE Clunk(t)
    <3>1. f \in Fids /\ task[t].op = "clunk"
      BY <2>1, <2>5 DEF Clunk, At, Request
    <3>2. QED
      BY <1>0, <2>1, <2>5, <3>1, ClunkKept DEF FidKept
  <2>6. CASE LopenOpen(t) \/ LcreateStat(t)
    <3>1. f \in Fids /\ file[f] = NoFile
      BY <2>1, <2>6 DEF LopenOpen, LcreateStat, At, Request, UseInv, UnopenedInv
    <3>2. ASSUME NEW i \in Inos, file' = [file EXCEPT ![f] = Opened(i)],
                 UNCHANGED <<log, writes, late>>
          PROVE  Good
      <4>1. Opened(i) \in FileRec /\ Opened(i).bg = 0 /\ Opened(i).err = 0
        BY DEF Opened, FileRec
      <4>2. BufInv'
        BY <1>0, <3>1, <3>2, <4>1, FileSet
      <4>3. QED
        BY <1>1, <3>2, <4>2
    <3>3. Here(t) \in Inos \cup {NoIno} /\ (Unused # {} => Fresh \in Inos)
      BY <2>1, Resolved, FreshFree DEF TypeInv, Here
    <3>4. LcreateStat(t) => task[t].ino \in Inos
      BY <2>1 DEF LcreateStat, At, Request
    <3>5. QED
      BY <1>2, <2>2, <2>6, <3>2, <3>3, <3>4
         DEF LopenOpen, LcreateStat, MakeAt, MakeEntry, Refused, Still
  <2>7. CASE ~(Seek(t) \/ Write(t) \/ Clunk(t) \/ LopenOpen(t) \/ LcreateStat(t))
    <3>1. UNCHANGED filevars
      BY <1>3, <2>7
         DEF TaskStep, IoStep, ListStep, LockFile, Read, Fsync,
             ReaddirOpens, ReaddirEntry, ReaddirEnds, WalkStep, Bind, Look, SetattrStep,
             SetattrFails, SetattrTimes, SetattrEnds, LopenStat, MkdirStat, Refused, MakeFile,
             Renameat, UnlinkStat, UnlinkRemove, Error, Still
    <3>2. QED
      BY <1>2, <3>1
  <2>8. QED
    BY <2>3, <2>4, <2>5, <2>6, <2>7
<1>4. ASSUME NEW t \in Tasks, SendStep(t) PROVE Good
  BY <1>2, <1>4, Sent
<1>5. ASSUME NEW t \in Tasks, Receive(t) PROVE Good
  BY <1>2, <1>5 DEF Receive
<1>6. ASSUME NEW w \in DOMAIN writes, NEW s \in States, writes' = [writes EXCEPT ![w].st = s]
      PROVE  \A x \in DOMAIN writes : FidKept(x)
  <2>1. \A x \in DOMAIN writes : writes'[x].fid = writes[x].fid
    BY <1>0, <1>6, StateSet
  <2>2. QED
    BY <2>1 DEF FidKept
<1>7. ASSUME NEW f \in Fids, BackgroundWrite(f) PROVE Good
  <2>1. file[f].bg \in DOMAIN writes
    BY <1>0, <1>7 DEF BufInv, BufferInv, BackgroundWrite
  <2>2. \E s \in States : writes' = [writes EXCEPT ![file[f].bg].st = s]
    BY <1>7 DEF BackgroundWrite, WriteLands, WriteFails, States
  <2>3. QED
    BY <1>0, <1>6, <1>7, <2>1, <2>2, BackgroundKept
<1>8. ASSUME NEW w \in late, LateWrite(w) PROVE Good
  <2>1. w \in DOMAIN writes
    BY <1>0 DEF BufInv, LateInv
  <2>2. \E s \in States : writes' = [writes EXCEPT ![w].st = s]
    BY <1>8 DEF LateWrite, WriteLands, WriteFails, States
  <2>3. QED
    BY <1>0, <1>6, <1>8, <2>1, <2>2, LateKept
<1>9. ASSUME Local PROVE Good
  BY <1>2, <1>9 DEF Local
<1>10. QED
  BY <1>3, <1>4, <1>5, <1>7, <1>8, <1>9 DEF Next, SendStep

(* The mutex of a file. *)
LEMMA LockKept ==
    ASSUME TypeInv, UseInv, WriteInv, Next
    PROVE  LockInv'
<1>0. BufInv /\ LockInv /\ FidInv /\ TaskInv
  BY DEF WriteInv, BufInv, TypeInv
<1> DEFINE Held(u) ==
              /\ file'[task[u].fid] # NoFile
              /\ task[u].pc = "io" =>
                    /\ file'[task[u].fid].bg = 0
                    /\ task[u].op # "fsync" => file'[task[u].fid].pos = task[u].off
<1>1. ASSUME NEW t, \A u \in Tasks \ {t} : task'[u] = task[u] /\ (HoldsLock(u) => Held(u)),
             t \in Tasks => ~HoldsLock(t)'
      PROVE  LockInv'
  <2>1. \A u \in Tasks : HoldsLock(u)' => u # t /\ task'[u] = task[u] /\ HoldsLock(u) /\ Held(u)
    BY <1>1 DEF HoldsLock
  <2>2. QED
    BY <1>0, <2>1 DEF LockInv
<1>2. ASSUME NEW u \in Tasks, HoldsLock(u), file'[task[u].fid] = file[task[u].fid]
      PROVE  Held(u)
  BY <1>0, <1>2 DEF LockInv
<1>3. ASSUME NEW t \in Tasks, SendStep(t) PROVE LockInv'
  <2>1. Goes(t, task'[t]) /\ task'[t].pc = "ready" /\ file' = file
    BY <1>3, Sent DEF Allowed, filevars
  <2>2. ~HoldsLock(t)' /\ \A u \in Tasks \ {t} : task'[u] = task[u]
    BY <1>0, <2>1 DEF HoldsLock, Goes, TaskInv
  <2>3. QED
    BY <1>1, <1>2, <2>1, <2>2
<1>4. ASSUME NEW t \in Tasks, Receive(t) PROVE LockInv'
  <2>1. task'[t] = Free /\ file' = file /\ \A u \in Tasks \ {t} : task'[u] = task[u]
    BY <1>0, <1>4 DEF Receive, Goes, filevars, TaskInv
  <2>2. ~HoldsLock(t)'
    BY <2>1 DEF HoldsLock, Free
  <2>3. QED
    BY <1>1, <1>2, <2>1, <2>2
<1>5. ASSUME NEW t \in Tasks, TaskStep(t) PROVE LockInv'
  <2> DEFINE f == task[t].fid
  <2>1. /\ Runs(t) /\ Request(task[t]) /\ IsTask(task[t])
        /\ Goes(t, task'[t]) /\ TaskOK(task'[t]) /\ Keeps(task[t], task'[t])
    BY <1>5, Stepped
  <2>2. \A u \in Tasks \ {t} : task'[u] = task[u]
    BY <1>0, <2>1 DEF Goes, TaskInv
  <2>3. CASE LockFile(t)
    <3>1. CASE file[f] = NoFile
      <4>1. file' = file /\ Reply(t, "error")
        BY <2>3, <3>1 DEF LockFile, Error, Still, filevars
      <4>2. task'[t].pc = "done"
        BY <1>0, <2>1, <4>1, Replies
      <4>3. QED
        BY <1>1, <1>2, <2>2, <4>1, <4>2 DEF HoldsLock
    <3>2. CASE file[f] # NoFile
      <4>1. file' = file /\ Moves(t, "seek") /\ ~Locked(f)
        BY <2>3, <3>2 DEF LockFile, Still, filevars
      <4>2. task'[t].pc = "seek" /\ task'[t].fid = f
        BY <1>0, <2>1, <4>1 DEF Moves, Goes, TaskInv, IsTask, Fields, Keeps
      <4>3. \A u \in Tasks \ {t} : HoldsLock(u) => task[u].fid # f
        BY <4>1 DEF Locked, HoldsLock
      <4>4. QED
        BY <1>0, <2>2, <3>2, <4>1, <4>2, <4>3 DEF LockInv, HoldsLock
    <3>3. QED
      BY <3>1, <3>2
  <2>12. CASE Seek(t) /\ Error(t)
    <3>1. file' = file /\ Reply(t, "error")
      BY <2>12 DEF Error, Still, filevars
    <3>2. task'[t].pc = "done"
      BY <1>0, <2>1, <3>1, Replies
    <3>3. QED
      BY <1>1, <1>2, <2>2, <3>1, <3>2 DEF HoldsLock
  <2>4. CASE Seek(t) /\ ~Error(t)
    <3>1. HoldsLock(t) /\ task[t].pc = "seek" /\ Moves(t, "io") /\ NotBusy(f)
      BY <2>4 DEF Seek, HoldsLock
    <3>2. f \in Fids /\ file[f] \in FileRec /\ file[f] # NoFile /\ file[f].bg = 0
          /\ (task[t].op # "fsync" => task[t].off \in {0, 1})
      BY <1>0, <3>1, HeldFile DEF NotBusy
    <3>3. task'[t].pc = "io" /\ task'[t].fid = f /\ task'[t].op = task[t].op
          /\ task'[t].off = task[t].off
      BY <1>0, <2>1, <3>1 DEF Moves, Goes, TaskInv, IsTask, Fields
    <3>4. /\ \A g \in Fids \ {f} : file'[g] = file[g]
          /\ file'[f] # NoFile /\ file'[f].bg = 0
          /\ task[t].op # "fsync" => file'[f].pos = task[t].off
      <4>1. CASE task[t].op = "fsync"
        BY <2>4, <3>2, <4>1 DEF Seek
      <4>2. CASE task[t].op # "fsync"
        <5> DEFINE c == [file[f] EXCEPT !.pos = task[t].off]
        <5>1. c \in FileRec /\ c.bg = 0 /\ c.pos = task[t].off
          BY <3>2, <4>2 DEF FileRec
        <5>2. file' = [file EXCEPT ![f] = c]
          BY <1>0, <2>4, <4>2 DEF Seek, FidInv
        <5>3. c # NoFile
          BY <5>1, FidAssumption DEF FileRec
        <5> HIDE DEF c
        <5>4. QED
          BY <1>0, <3>2, <5>1, <5>2, <5>3 DEF FidInv
      <4>3. QED
        BY <4>1, <4>2
    <3>5. ASSUME NEW u \in Tasks, u # t, HoldsLock(u)
          PROVE  task[u].fid # f /\ file'[task[u].fid] = file[task[u].fid]
      <4>1. task[u].fid # f
        BY <1>0, <3>1, <3>5 DEF LockInv
      <4>2. task[u].fid \in Fids
        BY <1>0, <3>5, HeldFile
      <4>3. QED
        BY <3>4, <4>1, <4>2
    <3>6. \A u \in Tasks : HoldsLock(u)' => HoldsLock(u) /\ task'[u].fid = task[u].fid
      BY <2>2, <3>1, <3>3 DEF HoldsLock
    <3>7. ASSUME NEW u \in Tasks, HoldsLock(u)'
          PROVE  /\ file'[task'[u].fid] # NoFile
                 /\ task'[u].pc = "io" =>
                       /\ file'[task'[u].fid].bg = 0
                       /\ task'[u].op # "fsync" => file'[task'[u].fid].pos = task'[u].off
      <4>1. CASE u = t
        BY <3>3, <3>4, <4>1
      <4>2. CASE u # t
        BY <1>0, <2>2, <3>5, <3>6, <3>7, <4>2 DEF LockInv
      <4>3. QED
        BY <4>1, <4>2
    <3>8. QED
      BY <1>0, <3>6, <3>7 DEF LockInv
  <2>5. CASE ~(LockFile(t) \/ Seek(t))
    <3>1. ~HoldsLock(t)'
      <4>1. CASE task[t].op \in {"read", "write", "fsync"}
        <5>1. Read(t) \/ Write(t) \/ Fsync(t)
          BY <1>5, <2>5, <4>1
             DEF TaskStep, IoStep, ListStep, At, Clunk,
                 ReaddirOpens, ReaddirEntry, ReaddirEnds, WalkStep, Bind, Look, SetattrStep,
                 SetattrTimes, SetattrEnds, LopenStat, LopenOpen, LcreateStat, MkdirStat, Refused,
                 MakeFile, Renameat, UnlinkStat, UnlinkRemove
        <5>2. ASSUME NEW res \in {"ok", "error", "refused"}, Reply(t, res) PROVE ~HoldsLock(t)'
          <6>1. task'[t].pc = "done"
            BY <1>0, <2>1, <5>2, Replies
          <6>2. QED
            BY <6>1 DEF HoldsLock
        <5>3. ASSUME NEW i, Goes(t, [task[t] EXCEPT !.pc = "done", !.res = "ok", !.at = i])
              PROVE  ~HoldsLock(t)'
          <6>1. task'[t].pc = "done"
            BY <1>0, <2>1, <5>3 DEF Goes, TaskInv, IsTask, Fields
          <6>2. QED
            BY <6>1 DEF HoldsLock
        <5>4. CASE Read(t)
          BY <5>2, <5>3, <5>4 DEF Read, Error
        <5>5. CASE Write(t) \/ Fsync(t)
          <6>1. Reply(t, "ok") \/ Reply(t, "error") \/ Reply(t, "refused")
            BY <5>5 DEF Write, Fsync, Error
          <6>2. QED
            BY <5>2, <6>1
        <5>6. QED
          BY <5>1, <5>4, <5>5
      <4>2. CASE task[t].op \notin {"read", "write", "fsync"}
        <5>1. task'[t].op = task[t].op /\ task'[t].pc # "free" /\ Busy(t)'
          BY <2>1 DEF Keeps, Busy
        <5>2. Request(task'[t])
          BY <2>1, <5>1 DEF TaskOK, Free
        <5>3. QED
          BY <4>2, <5>1, <5>2 DEF Request, Stages, HoldsLock
      <4>3. QED
        BY <4>1, <4>2
    <3>2. ASSUME NEW u \in Tasks, u # t, HoldsLock(u)
          PROVE  file'[task[u].fid] = file[task[u].fid]
      <4>1. task[u].fid \in Fids /\ task[u].op # "attach" /\ Runs(u)
        BY <1>0, <3>2, HeldFile DEF HoldsLock, Runs
      <4>2. CASE file' = file
        BY <4>2
      <4>3. CASE Binds(t)
        <5>1. task[u].fid # Bound(t)
          BY <2>1, <3>2, <4>1, <4>3, BoundAlone
        <5>2. QED
          BY <4>1, <4>3, <5>1 DEF Binds
      <4>4. CASE Write(t)
        <5>1. HoldsLock(t)
          BY <4>4 DEF Write, At, HoldsLock
        <5>2. task[u].fid # f
          BY <1>0, <3>2, <5>1 DEF LockInv
        <5>3. file' = [file EXCEPT ![f].err = 0] \/ file' = [file EXCEPT ![f].bg = Len(writes')]
          BY <4>4 DEF Write
        <5>4. QED
          BY <1>0, <4>1, <5>2, <5>3 DEF FidInv
      <4>5. CASE ~Write(t) /\ ~Binds(t)
        <5>1. \/ file' = file \/ LopenOpen(t) \/ LcreateStat(t) \/ Clunk(t)
          BY <1>5, <2>5, <4>5
             DEF TaskStep, IoStep, ListStep, LockFile, Read, Fsync,
                 ReaddirOpens, ReaddirEntry, ReaddirEnds, WalkStep, Bind, Look, SetattrStep,
                 SetattrFails, SetattrTimes, SetattrEnds, LopenStat, MkdirStat, Refused, MakeFile,
                 Renameat, UnlinkStat, UnlinkRemove, Error, Still, filevars
        <5>2. CASE LopenOpen(t) \/ LcreateStat(t) \/ Clunk(t)
          <6>1. task[t].op \in Alone
            BY <5>2 DEF LopenOpen, LcreateStat, Clunk, At, Alone
          <6>2. task[u].fid # f
            BY <2>1, <3>2, <4>1, <6>1 DEF UseInv, AloneInv, Runs, Busy
          <6>3. file' = file \/ \E b : file' = [file EXCEPT ![f] = b]
            BY <5>2 DEF LopenOpen, LcreateStat, Refused, Clunk, Error, Still, filevars
          <6>4. QED
            BY <1>0, <4>1, <6>2, <6>3 DEF FidInv
        <5>3. QED
          BY <5>1, <5>2
      <4>6. QED
        BY <4>3, <4>4, <4>5
    <3>3. QED
      BY <1>1, <1>2, <2>2, <3>1, <3>2
  <2>6. QED
    BY <2>3, <2>4, <2>5, <2>12
<1>6. ASSUME task' = task, file' = file PROVE LockInv'
  BY <1>0, <1>6 DEF LockInv, HoldsLock
<1>7. ASSUME NEW f \in Fids, BackgroundWrite(f) PROVE LockInv'
  <2>1. task' = task /\ file[f] # NoFile /\ file[f] \in FileRec /\ file[f].bg # 0
    BY <1>0, <1>7 DEF BackgroundWrite, FidInv
  <2>2. \A g \in Fids \ {f} : file'[g] = file[g]
    BY <1>0, <1>7 DEF BackgroundWrite, FidInv
  <2>3. FidInv' /\ file'[f] # NoFile
    <3>1. FidInv'
      BY TypeKept DEF TypeInv
    <3>2. file'[f] # NoFile
      <4>1. CASE file' = [file EXCEPT ![f].bg = 0]
        <5>1. [file[f] EXCEPT !.bg = 0] \in FileRec
          BY <2>1 DEF FileRec
        <5>2. QED
          BY <1>0, <4>1, <5>1, FidAssumption DEF FidInv, FileRec
      <4>2. CASE file' = [file EXCEPT ![f] = ErrKept(@)]
        <5>1. ErrKept(file[f]) \in FileRec
          BY <2>1 DEF FileRec, ErrKept
        <5>2. QED
          BY <1>0, <4>2, <5>1, FidAssumption DEF FidInv, FileRec
      <4>3. QED
        BY <1>7, <4>1, <4>2 DEF BackgroundWrite
    <3>3. QED
      BY <3>1, <3>2
  <2>4. ASSUME NEW u \in Tasks, HoldsLock(u) PROVE Held(u)
    <3>1. task[u].fid \in Fids
      BY <1>0, <2>4, HeldFile
    <3>2. CASE task[u].fid = f
      <4>1. task[u].pc # "io"
        BY <1>0, <2>1, <2>4, <3>2 DEF LockInv
      <4>2. QED
        BY <2>3, <3>2, <4>1
    <3>3. CASE task[u].fid # f
      BY <1>2, <2>2, <2>4, <3>1, <3>3
    <3>4. QED
      BY <3>2, <3>3
  <2>5. QED
    BY <1>0, <2>1, <2>4 DEF LockInv, HoldsLock
<1>8. ASSUME NEW w \in late, LateWrite(w) PROVE LockInv'
  BY <1>6, <1>8 DEF LateWrite
<1>9. ASSUME Local PROVE LockInv'
  BY <1>6, <1>9 DEF Local, filevars
<1>10. QED
  BY <1>3, <1>4, <1>5, <1>7, <1>8, <1>9 DEF Next, SendStep

(* The newest write at an offset is at or behind every other. *)
LEMMA NewestLast ==
    ASSUME DataInv, NEW i \in Inos, NEW off, NEW k \in DOMAIN log[i],
           writes[log[i][k]].off = off
    PROVE  \E l \in DOMAIN log[i] : k <= l /\ log[i][l] = Newest(i, off)
<1> DEFINE I == {l \in 1..Len(log[i]) : writes[log[i][l]].off = off}
<1>1. Len(log[i]) \in Nat /\ DOMAIN log[i] = 1..Len(log[i])
  BY DEF DataInv
<1>2. I \in SUBSET (0..Len(log[i])) /\ k \in I /\ I # {}
  BY <1>1
<1>3. \E m \in I : \A j \in I : j <= m
  BY <1>1, <1>2, Greatest
<1>4. \E m \in I : \A j \in I : m >= j
  BY <1>1, <1>3
<1>5. PICK m \in I : m = Max(I) /\ \A j \in I : m >= j
  BY <1>4 DEF Max
<1>6. SelectLastInSeq(log[i], LAMBDA x : writes[x].off = off) = m
  <2>1. SelectLastInSeq(log[i], LAMBDA x : writes[x].off = off) = IF I # {} THEN Max(I) ELSE 0
    BY DEF SelectLastInSeq
  <2>2. QED
    BY <1>2, <1>5, <2>1
<1>7. m # 0 /\ m \in DOMAIN log[i] /\ k <= m
  <2>1. m \in 1..Len(log[i]) /\ k \in 1..Len(log[i]) /\ m >= k
    BY <1>1, <1>2, <1>5
  <2> HIDE DEF I
  <2>2. QED
    BY <1>1, <2>1
<1>8. Newest(i, off) = log[i][m]
  BY <1>6, <1>7 DEF Newest
<1>9. QED
  BY <1>7, <1>8

(* Reads see the writes that were answered before. *)
LEMMA ReadKept ==
    ASSUME TypeInv, UseInv, WriteInv, ReadInv, Next
    PROVE  ReadInv'
<1>0. TaskInv /\ BufInv /\ LockInv /\ BeforeInv /\ SeenInv
  BY DEF TypeInv, WriteInv, BufInv, ReadInv
<1>1. Grows /\ \A w \in DOMAIN writes : FidKept(w)
  BY BufKept
<1> DEFINE Knows(u) == task'[u].op \in {"read", "fsync"} => \A w \in task'[u].before :
              /\ w \in DOMAIN writes'
              /\ Runs(u)' => writes'[w].fid = task'[u].fid
           Seen(u) == task'[u].op \in {"read", "fsync"} /\ task'[u].pc = "done" /\ task'[u].res = "ok" =>
              \A w \in task'[u].before :
                /\ writes'[w].st # "flying"
                /\ task'[u].op = "read" /\ writes'[w].off = task'[u].off /\ writes'[w].st = "landed" =>
                     /\ task'[u].at \in DOMAIN writes' /\ writes'[task'[u].at].ino = writes'[w].ino
                     /\ \E k, l \in DOMAIN log'[writes'[w].ino] :
                           /\ log'[writes'[w].ino][k] = w /\ log'[writes'[w].ino][l] = task'[u].at
                           /\ k <= l
<1>2. SUFFICES \A u \in Tasks : Knows(u) /\ Seen(u)
  BY DEF ReadInv, BeforeInv, SeenInv
<1>3. \A w \in DOMAIN writes : writes[w].ino \in Inos
  <2>1. \A w \in DOMAIN writes : writes[w] \in WriteRec
    BY <1>0 DEF BufInv, DataInv
  <2>2. QED
    BY <2>1 DEF WriteRec
<1>4. ASSUME NEW u \in Tasks, task'[u].op = task[u].op, task'[u].fid = task[u].fid,
             task'[u].before = task[u].before, Runs(u)' => Runs(u)
      PROVE  Knows(u)
  <2> SUFFICES ASSUME task[u].op \in {"read", "fsync"}, NEW w \in task[u].before
               PROVE  w \in DOMAIN writes' /\ (Runs(u)' => writes'[w].fid = task[u].fid)
    BY <1>4
  <2>1. w \in DOMAIN writes /\ (Runs(u) => writes[w].fid = task[u].fid)
    BY <1>0 DEF BeforeInv
  <2>2. ASSUME Runs(u), NEW t \in Tasks, Runs(t), task[t].op = "clunk", writes[w].fid = task[t].fid
        PROVE  FALSE
    BY <2>1, <2>2 DEF UseInv, AloneInv, Alone, Runs, Busy
  <2>3. QED
    BY <1>1, <1>4, <2>1, <2>2 DEF Grows, FidKept
<1>5. ASSUME NEW u \in Tasks, task'[u] = task[u]
      PROVE  Knows(u) /\ Seen(u)
  <2>1. Knows(u)
    BY <1>4, <1>5 DEF Runs
  <2>2. Seen(u)
    <3> SUFFICES ASSUME task[u].op \in {"read", "fsync"}, task[u].pc = "done", task[u].res = "ok",
                        NEW w \in task[u].before
                 PROVE  /\ writes'[w].st # "flying"
                        /\ task[u].op = "read" /\ writes'[w].off = task[u].off /\ writes'[w].st = "landed" =>
                             /\ task[u].at \in DOMAIN writes' /\ writes'[task[u].at].ino = writes'[w].ino
                             /\ \E k, l \in DOMAIN log'[writes'[w].ino] :
                                   /\ log'[writes'[w].ino][k] = w /\ log'[writes'[w].ino][l] = task[u].at
                                   /\ k <= l
      BY <1>5
    <3>1. w \in DOMAIN writes /\ writes[w].st # "flying"
      BY <1>0 DEF BeforeInv, SeenInv
    <3>2. /\ writes'[w].st # "flying" /\ writes'[w].off = writes[w].off
          /\ writes'[w].ino = writes[w].ino
          /\ writes'[w].st = "landed" => writes[w].st = "landed"
      BY <1>1, <3>1 DEF Grows
    <3>3. ASSUME task[u].op = "read", writes'[w].off = task[u].off, writes'[w].st = "landed"
          PROVE  /\ task[u].at \in DOMAIN writes' /\ writes'[task[u].at].ino = writes'[w].ino
                 /\ \E k, l \in DOMAIN log'[writes'[w].ino] :
                       /\ log'[writes'[w].ino][k] = w /\ log'[writes'[w].ino][l] = task[u].at
                       /\ k <= l
      <4> DEFINE i == writes[w].ino
      <4>1. task[u].at \in DOMAIN writes /\ writes[task[u].at].ino = i
        BY <1>0, <3>2, <3>3 DEF SeenInv
      <4>2. PICK k \in DOMAIN log[i], l \in DOMAIN log[i] :
              log[i][k] = w /\ log[i][l] = task[u].at /\ k <= l
        BY <1>0, <3>2, <3>3 DEF SeenInv
      <4>3. i \in Inos
        BY <1>3, <3>1
      <4>4. /\ k \in DOMAIN log'[i] /\ l \in DOMAIN log'[i]
            /\ log'[i][k] = w /\ log'[i][l] = task[u].at
        BY <1>1, <4>2, <4>3 DEF Grows
      <4>5. task[u].at \in DOMAIN writes' /\ writes'[task[u].at].ino = i
        BY <1>1, <4>1 DEF Grows
      <4>6. QED
        BY <3>2, <4>2, <4>4, <4>5
    <3>4. QED
      BY <3>2, <3>3
  <2>3. QED
    BY <2>1, <2>2
<1>6. ASSUME NEW t \in Tasks, SendStep(t) PROVE \A u \in Tasks : Knows(u) /\ Seen(u)
  <2>1. Goes(t, task'[t]) /\ Allowed(task'[t]) /\ writes' = writes
    BY <1>6, Sent DEF filevars
  <2>2. \A u \in Tasks \ {t} : task'[u] = task[u]
    BY <1>0, <2>1 DEF Goes, TaskInv
  <2>3. Knows(t) /\ Seen(t)
    BY <2>1 DEF Allowed
  <2>4. QED
    BY <1>5, <2>2, <2>3
<1>7. ASSUME NEW t \in Tasks, Receive(t) PROVE \A u \in Tasks : Knows(u) /\ Seen(u)
  <2>1. task'[t] = Free /\ \A u \in Tasks \ {t} : task'[u] = task[u]
    BY <1>0, <1>7 DEF Receive, Goes, TaskInv
  <2>2. Knows(t) /\ Seen(t)
    BY <2>1 DEF Free
  <2>3. QED
    BY <1>5, <2>1, <2>2
<1>8. ASSUME NEW t \in Tasks, TaskStep(t) PROVE \A u \in Tasks : Knows(u) /\ Seen(u)
  <2> DEFINE f == task[t].fid
             i == file[f].ino
  <2>1. /\ Runs(t) /\ Request(task[t]) /\ IsTask(task[t])
        /\ Goes(t, task'[t]) /\ Keeps(task[t], task'[t])
    BY <1>8, Stepped
  <2>2. \A u \in Tasks \ {t} : task'[u] = task[u]
    BY <1>0, <2>1 DEF Goes, TaskInv
  <2>3. Knows(t)
    BY <1>4, <2>1 DEF Keeps
  <2>4. Seen(t)
    <3> SUFFICES ASSUME task'[t].op \in {"read", "fsync"}, task'[t].pc = "done", task'[t].res = "ok",
                        NEW w \in task'[t].before
                 PROVE  /\ writes'[w].st # "flying"
                        /\ task'[t].op = "read" /\ writes'[w].off = task'[t].off /\ writes'[w].st = "landed" =>
                             /\ task'[t].at \in DOMAIN writes' /\ writes'[task'[t].at].ino = writes'[w].ino
                             /\ \E k, l \in DOMAIN log'[writes'[w].ino] :
                                   /\ log'[writes'[w].ino][k] = w /\ log'[writes'[w].ino][l] = task'[t].at
                                   /\ k <= l
      OBVIOUS
    <3>1. task[t].op \in {"read", "fsync"} /\ w \in task[t].before
      BY <2>1 DEF Keeps
    <3>2. LockFile(t) \/ Seek(t) \/ Read(t) \/ Fsync(t)
      BY <1>8, <3>1
         DEF TaskStep, IoStep, ListStep, At, Write, Clunk,
             ReaddirOpens, ReaddirEntry, ReaddirEnds, WalkStep, Bind, Look, SetattrStep,
             SetattrTimes, SetattrEnds, LopenStat, LopenOpen, LcreateStat, MkdirStat, Refused,
             MakeFile, Renameat, UnlinkStat, UnlinkRemove
    <3>3. ~Reply(t, "error") /\ ~Moves(t, "seek") /\ ~Moves(t, "io")
      <4>1. ~Reply(t, "error")
        <5>1. ASSUME Reply(t, "error") PROVE task'[t].res = "error"
          BY <1>0, <2>1, <5>1 DEF Reply, Goes, TaskInv, IsTask, Fields
        <5>2. task'[t].res # "error"
          OBVIOUS
        <5>3. QED
          BY <5>1, <5>2
      <4>2. \A pc : Moves(t, pc) => task'[t].pc = pc
        BY <1>0, <2>1 DEF Moves, Goes, TaskInv, IsTask, Fields
      <4>3. QED
        BY <4>1, <4>2
    <3>4. Read(t) \/ Fsync(t)
      BY <3>2, <3>3 DEF LockFile, Seek, Error
    <3>5. HoldsLock(t) /\ task[t].pc = "io" /\ writes' = writes /\ log' = log
      BY <3>4 DEF Read, Fsync, At, HoldsLock, Error, Still, filevars
    <3>6. f \in Fids /\ file[f] # NoFile /\ file[f].bg = 0
          /\ (task[t].op # "fsync" => file[f].pos = task[t].off)
      BY <1>0, <3>5, HeldFile DEF LockInv
    <3>7. w \in DOMAIN writes /\ writes[w].fid = f /\ f # NoFid
      BY <1>0, <2>1, <3>1, <3>6, FidAssumption DEF BeforeInv
    <3>8. writes[w].ino = i /\ writes[w].st # "flying"
      <4>1. w # 0
        BY <1>0, <3>7 DEF BufInv, DataInv
      <4>2. QED
        BY <1>0, <3>6, <3>7, <4>1 DEF BufInv, OwnInv
    <3>9. ASSUME task'[t].op = "read", writes'[w].off = task'[t].off, writes'[w].st = "landed"
          PROVE  /\ task'[t].at \in DOMAIN writes' /\ writes'[task'[t].at].ino = writes'[w].ino
                 /\ \E k, l \in DOMAIN log'[writes'[w].ino] :
                       /\ log'[writes'[w].ino][k] = w /\ log'[writes'[w].ino][l] = task'[t].at
                       /\ k <= l
      <4>1. task[t].op = "read" /\ Read(t)
        BY <2>1, <3>4, <3>9 DEF Keeps, Fsync, At
      <4>2. Goes(t, [task[t] EXCEPT !.pc = "done", !.res = "ok", !.at = Newest(i, file[f].pos)])
        BY <3>3, <4>1 DEF Read, Error
      <4>3. task'[t].at = Newest(i, file[f].pos) /\ task'[t].off = task[t].off
        BY <1>0, <2>1, <4>2 DEF Goes, TaskInv, IsTask, Fields
      <4>4. i \in Inos
        BY <1>3, <3>7, <3>8
      <4>5. PICK k \in DOMAIN log[i] : log[i][k] = w
        BY <1>0, <3>5, <3>7, <3>8, <3>9 DEF BufInv, LogInv
      <4>6. writes[log[i][k]].off = file[f].pos
        BY <3>5, <3>6, <3>9, <4>1, <4>3, <4>5
      <4>7. PICK l \in DOMAIN log[i] : k <= l /\ log[i][l] = task'[t].at
        <5>1. PICK o : o = file[f].pos
          OBVIOUS
        <5>2. DataInv /\ writes[log[i][k]].off = o
          BY <1>0, <4>6, <5>1 DEF BufInv
        <5> HIDE DEF i
        <5>3. \E l \in DOMAIN log[i] : k <= l /\ log[i][l] = Newest(i, o)
          BY <4>4, <5>2, NewestLast
        <5>4. QED
          BY <4>3, <5>1, <5>3
      <4>8. task'[t].at \in DOMAIN writes /\ writes[task'[t].at].ino = i
        BY <1>0, <4>4, <4>7 DEF BufInv, LogInv
      <4>9. QED
        BY <3>5, <3>8, <4>5, <4>7, <4>8
    <3>10. QED
      BY <3>5, <3>8, <3>9
  <2>5. QED
    BY <1>5, <2>2, <2>3, <2>4
<1>9. ASSUME task' = task PROVE \A u \in Tasks : Knows(u) /\ Seen(u)
  BY <1>5, <1>9
<1>10. QED
  BY <1>6, <1>7, <1>8, <1>9 DEF Next, SendStep, BackgroundWrite, LateWrite, Local

-----------------------------------------------------------------------------
(* The names.                                                              *)

(* A change of the tree is only added to the marks. *)
LEMMA Noted ==
    ASSUME NEW es, Noticed(es), stale \subseteq Fids \cup Tasks
    PROVE  stale \subseteq stale' /\ stale' \subseteq Fids \cup Tasks
BY DEF Noticed

(* A task that takes a step loses its own mark, or that of the fid it has  *)
(* to itself; no other task's. *)
LEMMA Marked ==
    ASSUME TypeInv, NameInv, Next
    PROVE  /\ stale' \subseteq Fids \cup Tasks
           /\ \A t, u \in Tasks : TaskStep(t) /\ u # t /\ u \in stale => u \in stale'
           /\ (\A t \in Tasks : ~TaskStep(t) /\ ~SendStep(t)) => stale \subseteq stale'
<1>0. stale \subseteq Fids \cup Tasks /\ Fids \cap Tasks = {}
  BY FidAssumption DEF NameInv
<1>1. ASSUME NEW t \in Tasks, TaskStep(t)
      PROVE  /\ stale' \subseteq Fids \cup Tasks
             /\ \A u \in Tasks : u # t /\ u \in stale => u \in stale'
  <2>1. Runs(t) /\ Request(task[t])
    BY <1>1, Stepped
  <2>2. CASE Error(t) \/ Still
    BY <1>0, <2>2 DEF Error, Still, treevars
  <2>3. CASE \E es : Noticed(es)
    BY <1>0, <2>3, Noted
  <2>4. ASSUME NEW who, NEW f \in Fids, NEW i, Tell(who, f, i)
        PROVE  /\ stale' \subseteq Fids \cup Tasks
               /\ \A u \in Tasks : u # t /\ u \in stale => u \in stale'
    <3>1. stale' = stale \cup {f} \/ stale' = stale \ {f}
      BY <2>4 DEF Tell
    <3>2. \A u \in Tasks : u # f
      BY <1>0
    <3>3. QED
      BY <1>0, <3>1, <3>2
  <2>5. CASE WalkStep(t)
    <3>1. stale' = stale \/ stale' = stale \ {t}
      BY <2>5 DEF WalkStep, Error, Still, treevars
    <3>2. QED
      BY <1>0, <3>1
  <2>6. CASE Bind(t)
    <3>1. task[t].new \in Fids
      BY <2>1, <2>6 DEF Bind, At, Request
    <3>2. \E who, i : Tell(who, task[t].new, i)
      BY <2>6 DEF Bind
    <3>3. QED
      BY <2>4, <3>1, <3>2
  <2>7. CASE LopenStat(t) \/ Clunk(t)
    <3>1. task[t].fid \in Fids
      BY <2>1, <2>7 DEF LopenStat, Clunk, At, Request
    <3>2. \/ stale' = stale \/ stale' = stale \ {t, task[t].fid}
          \/ stale' = stale \ {t} \/ stale' = stale \ {task[t].fid}
      BY <2>7 DEF LopenStat, Clunk, Error, Still, treevars
    <3>3. \A u \in Tasks : u # task[t].fid
      BY <1>0, <3>1
    <3>4. QED
      BY <1>0, <3>2, <3>3
  <2>8. CASE LopenOpen(t) \/ LcreateStat(t)
    <3>1. task[t].fid \in Fids
      BY <2>1, <2>8 DEF LopenOpen, LcreateStat, At, Request
    <3>2. \/ Error(t) \/ Still \/ (\E i : Tell(t, task[t].fid, i)) \/ \E es : Noticed(es)
      BY <2>8 DEF LopenOpen, LcreateStat, Refused, MakeAt
    <3>3. QED
      BY <2>2, <2>3, <2>4, <3>1, <3>2
  <2>9. CASE MakeFile(t) \/ Renameat(t) \/ UnlinkRemove(t)
    <3>1. Error(t) \/ Still \/ \E es : Noticed(es)
      BY <2>9 DEF MakeFile, Renameat, UnlinkRemove, MakeAt, DropAt, RenameAt
    <3>2. QED
      BY <2>2, <2>3, <3>1
  <2>10. CASE ~(\/ WalkStep(t) \/ Bind(t) \/ LopenStat(t) \/ Clunk(t) \/ LopenOpen(t)
                \/ LcreateStat(t) \/ MakeFile(t) \/ Renameat(t) \/ UnlinkRemove(t))
    <3>1. stale' = stale
      BY <1>1, <2>10
         DEF TaskStep, IoStep, ListStep, LockFile, Seek, Read, Write, Fsync,
             ReaddirOpens, ReaddirEntry, ReaddirEnds, Look, SetattrStep,
             SetattrFails, SetattrTimes, SetattrEnds, MkdirStat, Refused,
             UnlinkStat, Error, Still, treevars
    <3>2. QED
      BY <1>0, <3>1
  <2>11. QED
    BY <2>5, <2>6, <2>7, <2>8, <2>9, <2>10
<1>2. ASSUME NEW t \in Tasks, SendStep(t)
      PROVE  stale' \subseteq Fids \cup Tasks
  BY <1>0, <1>2, Sent
<1>3. CASE Local
  <2>1. \E es : Noticed(es)
    BY <1>3 DEF Local, LocalRemove, LocalCreate, LocalRename, MakeAt, DropAt, RenameAt
  <2>2. stale \subseteq stale' /\ stale' \subseteq Fids \cup Tasks
    BY <1>0, <2>1, Noted
  <2>3. QED
    BY <1>1, <2>2
<1>4. ASSUME \/ \E t \in Tasks : Receive(t)
             \/ \E f \in Fids : BackgroundWrite(f)
             \/ \E w \in late : LateWrite(w)
      PROVE  stale' = stale
  <2>1. ASSUME NEW t \in Tasks, Receive(t) PROVE stale' = stale
    BY <2>1 DEF Receive, treevars
  <2>2. ASSUME NEW f \in Fids, BackgroundWrite(f) PROVE stale' = stale
    BY <2>2 DEF BackgroundWrite, treevars
  <2>3. ASSUME NEW w \in late, LateWrite(w) PROVE stale' = stale
    BY <2>3 DEF LateWrite, treevars
  <2>4. QED
    BY <1>4, <2>1, <2>2, <2>3
<1>5. stale' \subseteq Fids \cup Tasks
  BY <1>0, <1>1, <1>2, <1>3, <1>4 DEF Next, SendStep
<1>6. (\A t \in Tasks : ~TaskStep(t) /\ ~SendStep(t)) => stale \subseteq stale'
  BY <1>0, <1>3, <1>4, Noted DEF Next, SendStep, Local, LocalRemove, LocalCreate, LocalRename, MakeAt, DropAt, RenameAt
<1>7. QED
  BY <1>1, <1>5, <1>6

(* A fid names what the client was told, whatever step is taken. *)
LEMMA FidsKept ==
    ASSUME TypeInv, UseInv, WriteInv, NameInv, Next
    PROVE  FidNamesObject'
<1> DEFINE Fine(f) == f \notin stale' /\ told'[f] # NoIno =>
               /\ ResolveIn(dir', path'[f]) = told'[f]
               /\ file'[f] # NoFile => file'[f].ino = told'[f]
           Rests(f) ==
               /\ f \in stale => f \in stale'
               /\ path'[f] = path[f] /\ told'[f] = told[f]
               /\ file'[f] # NoFile => file[f] # NoFile /\ file'[f].ino = file[f].ino
<1>0. /\ FidInv /\ TaskInv /\ TreeInv /\ FidNamesObject /\ FoundInv
      /\ stale \subseteq Fids \cup Tasks /\ Fids \cap Tasks = {}
      /\ FidStays /\ NewInv /\ UnopenedInv /\ SamePath
  BY FidAssumption DEF TypeInv, NameInv, UseInv
<1>1. ASSUME NEW f \in Fids, Rests(f) PROVE Fine(f)
  <2> SUFFICES ASSUME f \notin stale', told'[f] # NoIno
               PROVE  /\ ResolveIn(dir', path'[f]) = told'[f]
                      /\ file'[f] # NoFile => file'[f].ino = told'[f]
    OBVIOUS
  <2>1. f \notin stale /\ told[f] # NoIno /\ path[f] # NoPath
    BY <1>0, <1>1 DEF FidInv
  <2>2. Resolve(path[f]) = told[f] /\ (file[f] # NoFile => file[f].ino = told[f])
    BY <1>0, <2>1 DEF FidNamesObject
  <2>3. ResolveIn(dir', path[f]) = Resolve(path[f])
    BY <2>1, Stands
  <2>4. QED
    BY <1>1, <2>2, <2>3
<1>2. SUFFICES \A f \in Fids : Fine(f)
  BY DEF FidNamesObject, Resolve
<1> HIDE DEF Fine
<1>3. ASSUME path' = path, told' = told, file' = file, stale \cap Fids \subseteq stale'
      PROVE  \A f \in Fids : Fine(f)
  BY <1>1, <1>3
<1>4. ASSUME Still PROVE \A f \in Fids : Fine(f)
  BY <1>3, <1>4 DEF Still, treevars, filevars
<1>5. ASSUME NEW t \in Tasks, SendStep(t) PROVE \A f \in Fids : Fine(f)
  <2>1. stale' = stale \ {t} /\ path' = path /\ told' = told /\ file' = file
    BY <1>5, Sent DEF filevars
  <2>2. t \notin Fids
    BY <1>0
  <2>3. QED
    BY <1>3, <2>1, <2>2
<1>6. ASSUME NEW t \in Tasks, Receive(t) PROVE \A f \in Fids : Fine(f)
  BY <1>3, <1>6 DEF Receive, treevars, filevars
<1>7. CASE Local
  <2>1. path' = path /\ told' = told /\ file' = file /\ \E es : Noticed(es)
    BY <1>7 DEF Local, LocalRemove, LocalCreate, LocalRename, MakeAt, DropAt, RenameAt, filevars
  <2>2. stale \subseteq stale'
    BY <1>0, <2>1, Noted
  <2>3. QED
    BY <1>3, <2>1, <2>2
<1>8. ASSUME NEW g \in Fids, BackgroundWrite(g) PROVE \A f \in Fids : Fine(f)
  <2>1. path' = path /\ told' = told /\ stale' = stale
    BY <1>8 DEF BackgroundWrite, treevars
  <2>2. file[g] # NoFile /\ file[g] \in FileRec
    BY <1>0, <1>8 DEF BackgroundWrite, FidInv
  <2>3. \A f \in Fids : file'[f] # NoFile => file[f] # NoFile /\ file'[f].ino = file[f].ino
    <3>1. \E b : file' = [file EXCEPT ![g] = b] /\ b.ino = file[g].ino
      <4>1. \/ file' = [file EXCEPT ![g] = [file[g] EXCEPT !.bg = 0]]
            \/ file' = [file EXCEPT ![g] = [file[g] EXCEPT !.err = file[g].bg, !.bg = 0]]
        BY <1>0, <1>8 DEF BackgroundWrite, ErrKept, FidInv
      <4>2. /\ [file[g] EXCEPT !.bg = 0].ino = file[g].ino
            /\ [file[g] EXCEPT !.err = file[g].bg, !.bg = 0].ino = file[g].ino
        BY <2>2 DEF FileRec
      <4>3. QED
        BY <4>1, <4>2
    <3>2. QED
      BY <1>0, <2>2, <3>1 DEF FidInv
  <2>4. QED
    BY <1>1, <2>1, <2>3
<1>9. ASSUME NEW w \in late, LateWrite(w) PROVE \A f \in Fids : Fine(f)
  BY <1>3, <1>9 DEF LateWrite, treevars
<1>10. ASSUME NEW t \in Tasks, TaskStep(t) PROVE \A f \in Fids : Fine(f)
  <2>0. /\ Runs(t) /\ Request(task[t]) /\ t \notin Fids /\ task[t].path \in Seq(Names)
    BY <1>0, <1>10, Stepped DEF TaskInv, TaskOK
  <2>1. ASSUME Error(t) PROVE \A f \in Fids : Fine(f)
    BY <1>4, <2>1 DEF Error
  <2>2. CASE Seek(t) \/ Write(t)
    <3>1. task[t].op \in {"read", "write", "fsync"}
      BY <2>0, <2>2 DEF Seek, Write, At, Request, Stages
    <3>2. Quiet
      BY <1>10, <3>1, Tabled DEF Binds, Alone
    <3>3. Error(t) \/ stale' = stale
      BY <2>2 DEF Seek, Write, treevars
    <3>4. QED
      BY <1>1, <2>1, <3>2, <3>3 DEF Quiet
  <2>3. CASE MakeFile(t) \/ Renameat(t) \/ UnlinkRemove(t)
    <3>1. \/ Error(t) \/ Still
          \/ path' = path /\ told' = told /\ file' = file /\ \E es : Noticed(es)
      BY <2>3 DEF MakeFile, Renameat, UnlinkRemove, MakeAt, DropAt, RenameAt, filevars
    <3>2. ASSUME NEW es, Noticed(es) PROVE stale \subseteq stale'
      BY <1>0, <3>2, Noted
    <3>3. QED
      BY <1>3, <1>4, <2>1, <3>1, <3>2
  <2>4. CASE WalkStep(t)
    <3>1. \/ Error(t) \/ Still
          \/ path' = path /\ told' = told /\ file' = file /\ stale' = stale \ {t}
      BY <2>4 DEF WalkStep, filevars
    <3>2. QED
      BY <1>3, <1>4, <2>0, <2>1, <3>1
  <2>5. CASE Bind(t)
    <3> DEFINE g == task[t].new
    <3>1. g \in Fids /\ task[t].op \in {"attach", "walk"}
      BY <2>0, <2>5 DEF Bind, At, Request
    <3>2. /\ path' = [path EXCEPT ![g] = task[t].path]
          /\ dir' = dir /\ file' = file
      BY <2>5 DEF Bind, filevars
    <3>3. file[g] = NoFile
      BY <1>0, <2>0, <3>1 DEF NewInv, FidInv
    <3>4. PICK who, i : Tell(who, g, i)
      BY <2>5 DEF Bind
    <3>5. \A f \in Fids \ {g} : Fine(f)
      <4>1. /\ \A f \in Fids \ {g} : path'[f] = path[f] /\ told'[f] = told[f]
            /\ \A f \in Fids \ {g} : f \in stale => f \in stale'
        BY <1>0, <3>1, <3>2, <3>4 DEF Tell, FidInv
      <4>2. QED
        BY <1>1, <3>2, <4>1
    <3>6. path'[g] = task[t].path
      BY <1>0, <3>1, <3>2 DEF FidInv
    <3>7. g \notin stale' /\ told'[g] # NoIno => Resolve(task[t].path) = told'[g]
      <4>1. CASE At(t, "walk", "ready") /\ task[t].at = NoIno
        <5>1. /\ Tell(task[t].fid, g, told[task[t].fid]) /\ task[t].fid \in Fids
              /\ path[task[t].fid] = task[t].path /\ told[task[t].fid] # NoIno
          BY <1>0, <2>0, <2>5, <4>1 DEF Bind, At, Request, SamePath, FidStays
        <5>2. told'[g] = told[task[t].fid] /\ (g \notin stale' => task[t].fid \notin stale)
          BY <1>0, <3>1, <5>1 DEF Tell, FidInv
        <5>3. QED
          BY <1>0, <5>1, <5>2 DEF FidNamesObject
      <4>2. CASE ~(At(t, "walk", "ready") /\ task[t].at = NoIno)
        <5>1. Tell(t, g, IF task[t].op = "attach" THEN Root ELSE task[t].at)
          BY <2>5, <4>2 DEF Bind
        <5>2. /\ told'[g] = IF task[t].op = "attach" THEN Root ELSE task[t].at
              /\ g \notin stale' => t \notin stale
          BY <1>0, <3>1, <5>1 DEF Tell, FidInv
        <5>3. CASE task[t].op = "attach"
          BY <2>0, <5>2, <5>3, RootPath DEF Request
        <5>4. CASE task[t].op = "walk"
          BY <1>0, <2>0, <5>2, <5>4 DEF FoundInv
        <5>5. QED
          BY <3>1, <5>3, <5>4
      <4>3. QED
        BY <4>1, <4>2
    <3>8. Fine(g)
      BY <3>2, <3>3, <3>6, <3>7 DEF Fine, Resolve
    <3>9. QED
      BY <3>5, <3>8
  <2>6. CASE LopenStat(t)
    <3> DEFINE g == task[t].fid
    <3>1. g \in Fids /\ path[g] = task[t].path /\ file[g] = NoFile
      BY <1>0, <2>0, <2>6 DEF LopenStat, At, Request, SamePath, UnopenedInv
    <3>2. CASE Error(t)
      BY <2>1, <3>2
    <3>3. CASE ~Error(t) /\ ~IsDir(Here(t))
      <4>1. path' = path /\ told' = told /\ file' = file /\ stale' = stale \ {t}
        BY <2>6, <3>3 DEF LopenStat, filevars
      <4>2. QED
        BY <1>3, <2>0, <4>1
    <3>4. CASE ~Error(t) /\ IsDir(Here(t))
      <4>1. /\ path' = path /\ told' = [told EXCEPT ![g] = Here(t)] /\ file' = file /\ dir' = dir
            /\ stale' = stale \ {t, g}
        BY <2>6, <3>4 DEF LopenStat, filevars
      <4>2. \A f \in Fids \ {g} : Fine(f)
        <5>1. \A f \in Fids \ {g} : told'[f] = told[f] /\ (f \in stale => f \in stale')
          BY <1>0, <2>0, <3>1, <4>1 DEF FidInv
        <5>2. QED
          BY <1>1, <4>1, <5>1
      <4>3. told'[g] = Resolve(path[g])
        BY <1>0, <3>1, <4>1 DEF FidInv, Here
      <4>4. Fine(g)
        BY <3>1, <4>1, <4>3 DEF Fine, Resolve
      <4>5. QED
        BY <4>2, <4>4
    <3>5. QED
      BY <3>2, <3>3, <3>4
  <2>7. CASE LopenOpen(t)
    <3> DEFINE g == task[t].fid
    <3>1. /\ g \in Fids /\ path[g] = task[t].path
          /\ t \notin stale => Here(t) = task[t].at
      BY <1>0, <2>0, <2>7 DEF LopenOpen, At, Request, SamePath, FoundInv, Here
    <3>2. CASE Here(t) # NoIno /\ file' = [file EXCEPT ![g] = Opened(Here(t))]
               /\ Tell(t, g, task[t].at) /\ path' = path /\ dir' = dir
      <4>1. /\ \A f \in Fids \ {g} : /\ file'[f] = file[f] /\ told'[f] = told[f]
                                     /\ f \in stale => f \in stale'
            /\ file'[g] = Opened(Here(t)) /\ told'[g] = task[t].at
            /\ g \notin stale' => t \notin stale
        BY <1>0, <3>1, <3>2 DEF FidInv, Tell
      <4>2. Opened(Here(t)).ino = Here(t)
        BY DEF Opened
      <4>3. Fine(g)
        BY <3>1, <3>2, <4>1, <4>2 DEF Fine, Here, Resolve
      <4>4. \A f \in Fids \ {g} : Fine(f)
        <5>1. ASSUME NEW f \in Fids \ {g} PROVE Rests(f)
          BY <3>2, <4>1
        <5>2. QED
          BY <1>1, <5>1
      <4>5. QED
        BY <4>3, <4>4
    <3>3. CASE /\ Here(t) = NoIno /\ MakeAt(task[t].path, "file")
               /\ file' = [file EXCEPT ![g] = Opened(Fresh)]
               /\ told' = [told EXCEPT ![g] = task[t].at] /\ path' = path
      <4>1. Noticed({Entry(task[t].path)})
        BY <3>3 DEF MakeAt
      <4>2. task[t].path # << >>
        BY <3>3, RootPath DEF Here
      <4>3. Entry(task[t].path) \in Edges(task[t].path)
        <5>1. Len(task[t].path) \in 1..Len(task[t].path)
          BY <2>0, <4>2
        <5>2. QED
          BY <2>0, <4>2, <5>1, EdgesAre
      <4>4. g \in stale'
        <5>1. path[g] # NoPath
          BY <2>0, <3>1, NameAssumption
        <5>2. Edges(path[g]) \cap {Entry(task[t].path)} # {}
          BY <3>1, <4>3
        <5>3. QED
          BY <3>1, <4>1, <5>1, <5>2 DEF Noticed
      <4>5. stale \subseteq stale'
        BY <1>0, <4>1, Noted
      <4>6. \A f \in Fids \ {g} : file'[f] = file[f] /\ told'[f] = told[f]
        BY <1>0, <3>1, <3>3 DEF FidInv
      <4>7. \A f \in Fids \ {g} : Fine(f)
        BY <1>1, <3>3, <4>5, <4>6
      <4>8. Fine(g)
        BY <4>4 DEF Fine
      <4>9. QED
        BY <4>7, <4>8
    <3>4. QED
      BY <2>1, <2>7, <3>2, <3>3 DEF LopenOpen
  <2>8. CASE LcreateStat(t)
    <3> DEFINE g == task[t].fid
               i == Resolve(task[t].path)
    <3>1. /\ g \in Fids
          /\ t \notin stale => i = task[t].ino
      BY <1>0, <2>0, <2>8 DEF LcreateStat, At, Request, FoundInv
    <3>2. \/ Error(t) \/ Still
          \/ /\ path' = [path EXCEPT ![g] = task[t].path] /\ dir' = dir
             /\ file' = [file EXCEPT ![g] = Opened(task[t].ino)]
             /\ Tell(t, g, i)
      BY <2>8 DEF LcreateStat, Refused, Joined, Moved
    <3>3. CASE /\ path' = [path EXCEPT ![g] = task[t].path] /\ dir' = dir
               /\ file' = [file EXCEPT ![g] = Opened(task[t].ino)]
               /\ Tell(t, g, i)
      <4>1. /\ \A f \in Fids \ {g} : /\ file'[f] = file[f] /\ told'[f] = told[f]
                                     /\ path'[f] = path[f]
                                     /\ f \in stale => f \in stale'
            /\ file'[g] = Opened(task[t].ino) /\ told'[g] = i /\ path'[g] = task[t].path
            /\ g \notin stale' => t \notin stale
        BY <1>0, <3>1, <3>3 DEF FidInv, Tell
      <4>2. Opened(task[t].ino).ino = task[t].ino
        BY DEF Opened
      <4>3. Fine(g)
        BY <3>1, <3>3, <4>1, <4>2 DEF Fine, Resolve
      <4>4. \A f \in Fids \ {g} : Fine(f)
        <5>1. ASSUME NEW f \in Fids \ {g} PROVE Rests(f)
          BY <4>1
        <5>2. QED
          BY <1>1, <5>1
      <4>5. QED
        BY <4>3, <4>4
    <3>4. QED
      BY <1>4, <2>1, <3>2, <3>3
  <2>9. CASE Clunk(t)
    <3> DEFINE g == task[t].fid
    <3>1. /\ g \in Fids /\ path' = [path EXCEPT ![g] = NoPath]
          /\ told' = [told EXCEPT ![g] = NoIno] /\ file' = [file EXCEPT ![g] = NoFile]
          /\ stale' = stale \ {g}
      BY <2>0, <2>9 DEF Clunk, At, Request
    <3>2. /\ \A f \in Fids \ {g} : /\ file'[f] = file[f] /\ told'[f] = told[f]
                                   /\ path'[f] = path[f]
                                   /\ f \in stale => f \in stale'
          /\ told'[g] = NoIno
      BY <1>0, <3>1 DEF FidInv
    <3>3. Fine(g)
      BY <3>2 DEF Fine
    <3>4. \A f \in Fids \ {g} : Fine(f)
      <4>1. ASSUME NEW f \in Fids \ {g} PROVE Rests(f)
        BY <3>2
      <4>2. QED
        BY <1>1, <4>1
    <3>5. QED
      BY <3>3, <3>4
  <2>10. CASE ~(\/ Seek(t) \/ Write(t) \/ MakeFile(t) \/ Renameat(t) \/ UnlinkRemove(t)
                \/ WalkStep(t) \/ Bind(t) \/ LopenStat(t) \/ LopenOpen(t) \/ LcreateStat(t)
                \/ Clunk(t))
    <3>1. path' = path /\ told' = told /\ file' = file /\ stale' = stale
      BY <1>10, <2>10
         DEF TaskStep, IoStep, ListStep, LockFile, Read, Fsync,
             ReaddirOpens, ReaddirEntry, ReaddirEnds, Look, SetattrStep,
             SetattrFails, SetattrTimes, SetattrEnds, MkdirStat, Refused,
             UnlinkStat, Error, Still, treevars, filevars
    <3>2. QED
      BY <1>3, <3>1
  <2>11. QED
    BY <2>2, <2>3, <2>4, <2>5, <2>6, <2>7, <2>8, <2>9, <2>10
<1>11. QED
  BY <1>5, <1>6, <1>7, <1>8, <1>9, <1>10 DEF Next, SendStep

(* What a task has found stands, and an answer of half an operation has    *)
(* its reason. *)
LEMMA FoundKept ==
    ASSUME TypeInv, UseInv, WriteInv, NameInv, Next
    PROVE  FoundInv' /\ UnansweredInv' /\ MadeEntryStands'
<1> DEFINE Finds(r) ==
               /\ r.op = "walk" /\ r.pc \notin {"free", "done"} /\ r.at # NoIno => ResolveIn(dir', r.path) = r.at
               /\ r.op = "lopen" /\ r.pc = "open" => ResolveIn(dir', r.path) = r.at
               /\ r.op \in {"lcreate", "mkdir"} /\ r.pc = "stat" => ResolveIn(dir', r.path) = r.ino
           Answered(r) ==
               r.op \in {"lcreate", "mkdir"} /\ r.pc = "done" /\ r.ino # NoIno =>
                 r.res # "error" /\ ResolveIn(dir', r.path) = r.ino
           Fine(u) ==
               /\ u \notin stale' => Finds(task'[u])
               /\ task'[u].pc \notin {"free", "done"} => task'[u].res = "none"
               /\ u \notin stale' => Answered(task'[u])
<1>0. TaskInv /\ TreeInv /\ FoundInv /\ UnansweredInv /\ MadeEntryStands
  BY DEF TypeInv, NameInv
<1>1. SUFFICES \A u \in Tasks : Fine(u)
  BY DEF FoundInv, UnansweredInv, MadeEntryStands, At, Runs, Resolve
<1>2. ASSUME NEW u \in Tasks, task'[u] = task[u], u \in stale => u \in stale'
      PROVE  Fine(u)
  <2>1. u \notin stale' => ResolveIn(dir', task[u].path) = Resolve(task[u].path)
    BY Stands
  <2>2. QED
    BY <1>0, <1>2, <2>1 DEF FoundInv, UnansweredInv, MadeEntryStands, At, Runs
<1>3. ASSUME NEW t \in Tasks, Goes(t, task'[t]), Fine(t),
             \A u \in Tasks \ {t} : u \in stale => u \in stale'
      PROVE  \A u \in Tasks : Fine(u)
  <2>1. \A u \in Tasks \ {t} : task'[u] = task[u]
    BY <1>0, <1>3 DEF Goes, TaskInv
  <2>2. ASSUME NEW u \in Tasks, u # t PROVE Fine(u)
    BY <1>2, <1>3, <2>1, <2>2
  <2>3. QED
    BY <1>3, <2>2
<1>4. ASSUME NEW t \in Tasks, SendStep(t) PROVE \A u \in Tasks : Fine(u)
  <2>1. Goes(t, task'[t]) /\ Allowed(task'[t]) /\ stale' = stale \ {t}
    BY <1>4, Sent
  <2>2. Fine(t)
    BY <2>1 DEF Allowed
  <2>3. QED
    BY <1>3, <2>1, <2>2
<1>5. ASSUME NEW t \in Tasks, Receive(t) PROVE \A u \in Tasks : Fine(u)
  <2>1. task'[t] = Free /\ Goes(t, task'[t]) /\ stale' = stale
    BY <1>0, <1>5 DEF Receive, Goes, TaskInv, treevars
  <2>2. Fine(t)
    BY <2>1 DEF Free
  <2>3. QED
    BY <1>3, <2>1, <2>2
<1>6. ASSUME task' = task, \A t \in Tasks : ~TaskStep(t) /\ ~SendStep(t)
      PROVE  \A u \in Tasks : Fine(u)
  <2>1. stale \subseteq stale'
    BY <1>6, Marked
  <2>2. QED
    BY <1>2, <1>6, <2>1
<1>7. ASSUME NEW t \in Tasks, TaskStep(t) PROVE \A u \in Tasks : Fine(u)
  <2>0. /\ Runs(t) /\ Request(task[t]) /\ IsTask(task[t]) /\ task[t].res = "none"
        /\ Goes(t, task'[t]) /\ Keeps(task[t], task'[t]) /\ task[t].path \in Seq(Names)
    BY <1>0, <1>7, Stepped DEF UnansweredInv, TaskInv, TaskOK
  <2>1. \A u \in Tasks \ {t} : u \in stale => u \in stale'
    BY <1>7, Marked
  <2>2. SUFFICES Fine(t)
    BY <1>3, <2>0, <2>1
  <2>3. ASSUME NEW r, Goes(t, r) PROVE task'[t] = r
    BY <1>0, <2>3 DEF Goes, TaskInv
  <2>4. ASSUME NEW res \in {"ok", "error", "refused"}, Reply(t, res),
               task[t].op \in {"lcreate", "mkdir"} /\ task[t].ino # NoIno /\ t \notin stale' =>
                 res # "error" /\ ResolveIn(dir', task[t].path) = task[t].ino
        PROVE  Fine(t)
    <3>1. /\ task'[t].pc = "done" /\ task'[t].res = res /\ task'[t].op = task[t].op
          /\ task'[t].ino = task[t].ino /\ task'[t].path = task[t].path
      BY <2>0, <2>3, <2>4 DEF Reply, IsTask, Fields
    <3>2. QED
      BY <2>4, <3>1
  <2>5. CASE WalkStep(t)
    <3> DEFINE p == Append(task[t].path, Head(task[t].names))
    <3>1. task[t].op = "walk" /\ task[t].pc = "ready"
      BY <2>5 DEF WalkStep, At
    <3>2. CASE Error(t)
      BY <2>4, <3>1, <3>2 DEF Error
    <3>3. CASE Goes(t, [task[t] EXCEPT !.pc = "bind", !.path = p, !.at = NoIno])
      <4>1. /\ task'[t].op = "walk" /\ task'[t].at = NoIno /\ task'[t].res = "none"
        BY <2>0, <2>3, <3>1, <3>3 DEF IsTask, Fields
      <4>2. QED
        BY <4>1
    <3>4. CASE /\ Goes(t, [task[t] EXCEPT !.path = p, !.at = Resolve(p), !.names = Tail(task[t].names)])
               /\ dir' = dir
      <4>1. /\ task'[t].op = "walk" /\ task'[t].at = Resolve(p) /\ task'[t].res = "none"
            /\ task'[t].path = p
        BY <2>0, <2>3, <3>1, <3>4 DEF IsTask, Fields
      <4>2. QED
        BY <3>4, <4>1 DEF Resolve
    <3>5. QED
      BY <2>5, <3>2, <3>3, <3>4 DEF WalkStep
  <2>6. CASE LopenStat(t)
    <3>1. task[t].op = "lopen" /\ task[t].pc = "ready"
      BY <2>6 DEF LopenStat, At
    <3>2. CASE Error(t) \/ Reply(t, "ok")
      BY <2>4, <3>1, <3>2 DEF Error
    <3>3. CASE Goes(t, [task[t] EXCEPT !.pc = "open", !.at = Here(t)]) /\ dir' = dir
      <4>1. /\ task'[t].op = "lopen" /\ task'[t].at = Here(t) /\ task'[t].res = "none"
            /\ task'[t].path = task[t].path
        BY <2>0, <2>3, <3>1, <3>3 DEF IsTask, Fields
      <4>2. QED
        BY <3>3, <4>1 DEF Here, Resolve
    <3>4. QED
      BY <2>6, <3>2, <3>3 DEF LopenStat
  <2>7. CASE MakeFile(t)
    <3> DEFINE p == task[t].path \o task[t].names
               made(i) == Goes(t, [task[t] EXCEPT !.pc = "stat", !.ino = i, !.path = p])
    <3>0. p \in Seq(Names) /\ p # << >>
      BY <2>7, MadeAt
    <3>1. task[t].op \in {"lcreate", "mkdir"} /\ task[t].ino = NoIno
      BY <2>0, <2>7 DEF MakeFile, At, Request
    <3>2. CASE Error(t)
      BY <2>4, <3>1, <3>2 DEF Error
    <3>3. ASSUME NEW i, made(i), ResolveIn(dir', p) = i PROVE Fine(t)
      <4>1. /\ task'[t].op = task[t].op /\ task'[t].ino = i /\ task'[t].res = "none"
            /\ task'[t].path = p
        BY <2>0, <2>3, <3>3 DEF IsTask, Fields
      <4> HIDE DEF p, made
      <4>2. QED
        BY <3>1, <3>3, <4>1
    <3>4. \/ Error(t)
          \/ /\ IsDir(Parent(p)) /\ Resolve(p) = NoIno
             /\ \E as \in {"dir", "file"} : MakeAt(p, as)
             /\ made(Fresh)
          \/ made(Resolve(p)) /\ dir' = dir
      BY <2>7 DEF MakeFile, Still, treevars
    <3> HIDE DEF made, p
    <3>5. CASE /\ IsDir(Parent(p)) /\ Resolve(p) = NoIno
               /\ \E as \in {"dir", "file"} : MakeAt(p, as)
               /\ made(Fresh)
      <4>1. PICK q : q = p
        OBVIOUS
      <4>2. PICK as \in {"dir", "file"} : MakeAt(q, as)
        BY <3>5, <4>1
      <4>3. /\ q \in Seq(Names) /\ q # << >> /\ IsDir(Parent(q)) /\ Resolve(q) = NoIno
            /\ MakeEntry(q, as)
        BY <3>0, <3>5, <4>1, <4>2 DEF MakeAt
      <4>4. Resolve(q)' = Fresh
        BY <1>0, <4>3, Made
      <4>5. ResolveIn(dir', p) = Fresh
        BY <4>1, <4>4 DEF Resolve
      <4>6. QED
        BY <3>3, <3>5, <4>5
    <3>6. CASE made(Resolve(p)) /\ dir' = dir
      BY <3>3, <3>6 DEF Resolve
    <3>7. QED
      BY <3>2, <3>4, <3>5, <3>6
  <2>8. CASE LcreateStat(t) \/ MkdirStat(t)
    <3>1. /\ task[t].op \in {"lcreate", "mkdir"} /\ task[t].pc = "stat" /\ task[t].ino \in Inos
      BY <2>0, <2>8 DEF LcreateStat, MkdirStat, Refused, At, Request
    <3>2. t \notin stale => Resolve(task[t].path) = task[t].ino
      BY <1>0, <3>1 DEF FoundInv
    <3>3. dir' = dir /\ (t \in stale => t \in stale')
      <4>1. LcreateStat(t) => task[t].fid # t
        BY <2>0, <1>0, FidAssumption DEF LcreateStat, At, Request
      <4>2. QED
        BY <2>8, <4>1 DEF LcreateStat, MkdirStat, Refused, Error, Still, treevars, Tell
    <3>4. t \notin stale' => ResolveIn(dir', task[t].path) = task[t].ino
      BY <3>2, <3>3 DEF Resolve
    <3>5. CASE Reply(t, "ok") \/ Reply(t, "refused")
      BY <2>4, <3>4, <3>5
    <3>6. CASE Here(t) = NoIno /\ Error(t)
      <4>1. t \in stale'
        BY <3>1, <3>2, <3>3, <3>6, TreeAssumption DEF Here
      <4>2. QED
        BY <2>4, <3>6, <4>1 DEF Error
    <3>7. Reply(t, "ok") \/ Reply(t, "refused") \/ (Here(t) = NoIno /\ Error(t))
      BY <2>8 DEF LcreateStat, MkdirStat, Refused, Joined, Here
    <3>8. QED
      BY <3>5, <3>6, <3>7
  <2>9. CASE task[t].op \notin {"walk", "lopen", "lcreate", "mkdir"}
    <3>1. task'[t].pc = "done" \/ task'[t].res = "none"
      <4>1. CASE Reply(t, "ok") \/ Reply(t, "error") \/ Reply(t, "refused")
        BY <2>0, <2>3, <4>1 DEF Reply, IsTask, Fields
      <4>2. CASE ~(Reply(t, "ok") \/ Reply(t, "error") \/ Reply(t, "refused"))
        <5>1. \/ LockFile(t) \/ Seek(t) \/ Read(t) \/ ReaddirOpens(t) \/ ReaddirEntry(t)
              \/ SetattrStep(t) \/ SetattrTimes(t) \/ UnlinkStat(t)
          BY <1>7, <2>9, <4>2
             DEF TaskStep, IoStep, ListStep, At, Write, Fsync, Clunk, ReaddirEnds, WalkStep,
                 Bind, Look, SetattrEnds, LopenStat, LopenOpen, LcreateStat, MkdirStat, Refused, MakeFile,
                 Renameat, UnlinkRemove, Error
        <5>2. CASE LockFile(t) \/ Seek(t)
          BY <2>0, <2>3, <4>2, <5>2 DEF LockFile, Seek, Error, Moves, IsTask, Fields
        <5>3. CASE Read(t)
          BY <2>0, <2>3, <4>2, <5>3 DEF Read, Error, IsTask, Fields
        <5>4. CASE ReaddirOpens(t)
          BY <2>0, <2>3, <4>2, <5>4 DEF ReaddirOpens, Error, IsTask, Fields
        <5>5. CASE ReaddirEntry(t)
          BY <2>0, <2>3, <4>2, <5>5 DEF ReaddirEntry, Error, IsTask, Fields
        <5>6. CASE SetattrStep(t) \/ SetattrTimes(t)
          BY <2>0, <2>3, <4>2, <5>6 DEF SetattrStep, SetattrTimes, SetattrFails, Error, Moves, IsTask, Fields
        <5>7. CASE UnlinkStat(t)
          BY <2>0, <2>3, <4>2, <5>7 DEF UnlinkStat, Error, IsTask, Fields
        <5>8. QED
          BY <5>1, <5>2, <5>3, <5>4, <5>5, <5>6, <5>7
      <4>3. QED
        BY <4>1, <4>2
    <3>2. task'[t].op = task[t].op
      BY <2>0 DEF Keeps
    <3>3. QED
      BY <2>9, <3>1, <3>2
  <2>10. CASE Bind(t) \/ LopenOpen(t)
    <3>1. Reply(t, "ok") \/ Reply(t, "error") \/ Reply(t, "refused")
      BY <2>10 DEF Bind, LopenOpen, Error
    <3>2. task[t].op \notin {"lcreate", "mkdir"}
      BY <2>10 DEF Bind, LopenOpen, At
    <3>3. QED
      BY <2>4, <3>1, <3>2
  <2>11. QED
    BY <1>7, <2>0, <2>5, <2>6, <2>7, <2>8, <2>9, <2>10
       DEF TaskStep, IoStep, ListStep, At, LockFile, Seek, Read, Write, Fsync, Clunk,
           ReaddirOpens, ReaddirEntry, ReaddirEnds, Look, SetattrStep,
           SetattrTimes, SetattrEnds, Renameat, UnlinkStat, UnlinkRemove, Request, Stages
<1>8. ASSUME ~\E t \in Tasks : SendStep(t) \/ TaskStep(t) \/ Receive(t)
      PROVE  task' = task
  BY <1>8 DEF Next, SendStep, BackgroundWrite, LateWrite, Local
<1>9. QED
  BY <1>4, <1>5, <1>6, <1>7, <1>8

(* The names hold, step by step. *)
LEMMA NameKept ==
    ASSUME TypeInv, UseInv, WriteInv, NameInv, Next
    PROVE  NameInv'
BY Marked, FidsKept, FoundKept DEF NameInv

-----------------------------------------------------------------------------
(* The attributes.                                                         *)

(* Those that a request has set are its first, whatever step is taken. *)
LEMMA AttrKept ==
    ASSUME TypeInv, UseInv, WriteInv, NameInv, AttrInv, Next
    PROVE  AttrInv'
<1> DEFINE Typed == attr' \in [Inos -> SUBSET (Tasks \X Attrs)]
           None(u) == \A i \in Inos : \A a \in Attrs : <<u, a>> \notin attr'[i]
           SoFar(u, r, x) ==
               /\ \A i \in Inos : \A a \in Attrs : <<u, a>> \in attr'[i] =>
                     i = x /\ \E k \in 1..r.off : r.want[k] = a
               /\ \A k \in 1..r.off : r.want[k] # "times" =>
                     x \in Inos /\ <<u, r.want[k]>> \in attr'[x]
               /\ r.pc = "done" => IF r.res = "ok" THEN r.off = Len(r.want) ELSE r.off < Len(r.want)
           TimesLast(r) == r.op = "setattr" /\ r.pc = "times" => r.want[r.off + 1] = "times"
           Fine(u) ==
               /\ IF task'[u].op # "setattr" THEN None(u)
                  ELSE u \notin stale' => SoFar(u, task'[u], ResolveIn(dir', task'[u].path))
               /\ TimesLast(task'[u])
<1>0. /\ TaskInv /\ TreeInv /\ attr \in [Inos -> SUBSET (Tasks \X Attrs)]
      /\ \A u \in Tasks : At(u, "setattr", "times") => NextAttr(u) = "times"
      /\ \A u \in Tasks : IF task[u].op # "setattr" THEN SetByNone(u)
                          ELSE u \notin stale => SetSoFar(u)
  BY DEF TypeInv, AttrInv
<1>1. SUFFICES Typed /\ \A u \in Tasks : Fine(u)
  BY DEF AttrInv, SetByNone, SetSoFar, At, NextAttr, Resolve
<1>2. ASSUME NEW u \in Tasks, task'[u] = task[u], u \in stale => u \in stale',
             \A i \in Inos : \A a \in Attrs : <<u, a>> \in attr'[i] <=> <<u, a>> \in attr[i]
      PROVE  Fine(u)
  <2>1. u \notin stale' => ResolveIn(dir', task[u].path) = Resolve(task[u].path)
    BY Stands
  <2>2. TimesLast(task'[u])
    BY <1>0, <1>2 DEF At, NextAttr
  <2>3. CASE task[u].op # "setattr"
    BY <1>0, <1>2, <2>2, <2>3 DEF SetByNone
  <2>4. CASE task[u].op = "setattr" /\ u \notin stale'
    <3>1. SetSoFar(u)
      BY <1>0, <1>2, <2>4
    <3>2. \A k \in 1..task[u].off : task[u].want[k] \in Attrs
      <4>1. Request(task[u])
        BY <1>0, <2>4 DEF TaskInv, TaskOK, Free
      <4>2. task[u].want \in Seq(Attrs) /\ task[u].off \in 0..Len(task[u].want)
        BY <2>4, <4>1, WantAssumption DEF Request, Attrs
      <4>3. QED
        BY <4>2
    <3>3. SoFar(u, task[u], Resolve(task[u].path))
      BY <1>2, <3>1, <3>2 DEF SetSoFar
    <3>4. QED
      BY <1>2, <2>1, <2>2, <2>4, <3>3
  <2>5. CASE task[u].op = "setattr" /\ u \in stale'
    BY <1>2, <2>2, <2>5
  <2>6. QED
    BY <2>3, <2>4, <2>5
<1> HIDE DEF Fine
<1>3. ASSUME NEW t \in Tasks, Goes(t, task'[t]), Typed, Fine(t),
             \A u \in Tasks \ {t} : u \in stale => u \in stale',
             \A u \in Tasks \ {t} : \A i \in Inos : \A a \in Attrs :
                <<u, a>> \in attr'[i] <=> <<u, a>> \in attr[i]
      PROVE  Typed /\ \A u \in Tasks : Fine(u)
  <2>1. \A u \in Tasks \ {t} : task'[u] = task[u]
    BY <1>0, <1>3 DEF Goes, TaskInv
  <2>2. ASSUME NEW u \in Tasks, u # t PROVE Fine(u)
    BY <1>2, <1>3, <2>1, <2>2
  <2>3. QED
    BY <1>3, <2>2
<1>4. ASSUME NEW t \in Tasks, SendStep(t) PROVE Typed /\ \A u \in Tasks : Fine(u)
  <2>1. /\ task[t] = Free /\ Goes(t, task'[t]) /\ Allowed(task'[t])
        /\ stale' = stale \ {t} /\ attr' = attr
    BY <1>4, Sent
  <2>2. None(t)
    BY <1>0, <2>1 DEF Free, SetByNone
  <2>3. task'[t].pc = "ready" /\ (task'[t].op = "setattr" => task'[t].off = 0)
    BY <2>1 DEF Allowed
  <2>4. Fine(t)
    BY <2>2, <2>3 DEF Fine
  <2>5. QED
    BY <1>0, <1>3, <2>1, <2>4
<1>5. ASSUME NEW t \in Tasks, Receive(t) PROVE Typed /\ \A u \in Tasks : Fine(u)
  <2>1. /\ task'[t] = Free /\ Goes(t, task'[t]) /\ stale' = stale
        /\ attr' = [i \in Inos |-> {a \in attr[i] : a[1] # t}]
    BY <1>0, <1>5 DEF Receive, Goes, TaskInv, treevars
  <2>2. Typed
    BY <1>0, <2>1
  <2>3. \A u \in Tasks : \A i \in Inos : \A a \in Attrs :
            <<u, a>> \in attr'[i] <=> <<u, a>> \in attr[i] /\ u # t
    BY <2>1
  <2>4. Fine(t)
    BY <2>1, <2>3 DEF Fine, Free
  <2>5. QED
    BY <1>3, <2>1, <2>2, <2>3, <2>4
<1>6. ASSUME task' = task, attr' = attr, \A t \in Tasks : ~TaskStep(t) /\ ~SendStep(t)
      PROVE  Typed /\ \A u \in Tasks : Fine(u)
  <2>1. stale \subseteq stale'
    BY <1>6, Marked
  <2>2. QED
    BY <1>0, <1>2, <1>6, <2>1
<1>7. ASSUME NEW t \in Tasks, TaskStep(t) PROVE Typed /\ \A u \in Tasks : Fine(u)
  <2>0. /\ Runs(t) /\ Request(task[t]) /\ IsTask(task[t]) /\ TaskOK(task'[t])
        /\ Goes(t, task'[t]) /\ Keeps(task[t], task'[t]) /\ task[t].path \in Seq(Names)
    BY <1>0, <1>7, Stepped DEF TaskInv, TaskOK
  <2>1. \A u \in Tasks \ {t} : u \in stale => u \in stale'
    BY <1>7, Marked
  <2>2. ASSUME NEW r, Goes(t, r) PROVE task'[t] = r
    BY <1>0, <2>2 DEF Goes, TaskInv
  <2>3. CASE task[t].op # "setattr"
    <3>1. attr' = attr
      BY <1>7, <2>3
         DEF TaskStep, IoStep, ListStep, LockFile, Seek, Read, Write, Fsync, Clunk,
             ReaddirOpens, ReaddirEntry, ReaddirEnds, WalkStep, Bind, Look, SetattrStep,
             SetattrTimes, SetattrEnds, LopenStat, LopenOpen, LcreateStat, MkdirStat, Refused, MakeFile,
             Renameat, UnlinkStat, UnlinkRemove, Error, Still, At
    <3>2. Fine(t)
      BY <1>0, <2>0, <2>3, <3>1 DEF Fine, SetByNone, Keeps
    <3>3. QED
      BY <1>0, <1>3, <2>0, <2>1, <3>1, <3>2
  <2>4. CASE task[t].op = "setattr"
    <3> DEFINE i == Here(t)
               n == Len(task[t].want)
               o == task[t].off
    <3>0. SetattrStep(t) \/ SetattrTimes(t) \/ SetattrEnds(t)
      BY <1>7, <2>0, <2>4
         DEF TaskStep, IoStep, ListStep, LockFile, Seek, Read, Write, Fsync, Clunk,
             ReaddirOpens, ReaddirEntry, ReaddirEnds, WalkStep, Bind, Look,
             LopenStat, LopenOpen, LcreateStat, MkdirStat, Refused, MakeFile,
             Renameat, UnlinkStat, UnlinkRemove, At, Request, Stages
    <3>1. /\ task[t].want \in Seq(Attrs) /\ o \in 0..n /\ n \in Nat
          /\ i \in Inos \cup {NoIno}
      <4>1. task[t].want \in Seq(Attrs) /\ o \in 0..n
        BY <2>0, <2>4, WantAssumption DEF Request, Attrs
      <4>2. i \in Inos \cup {NoIno}
        BY <1>0, <2>0, Resolved DEF Here
      <4>3. QED
        BY <4>1, <4>2
    <3>2. dir' = dir /\ stale' = stale
      BY <3>0 DEF SetattrStep, SetattrTimes, SetattrEnds, SetattrFails, Error, Still, treevars
    <3>3. t \notin stale => SetSoFar(t)
      BY <1>0, <2>4
    <3>4. ASSUME attr' = attr, task'[t].path = task[t].path, task'[t].off = o,
                 task'[t].pc = "done" => IF task'[t].res = "ok" THEN o = n ELSE o < n,
                 task'[t].pc = "times" => task[t].want[o + 1] = "times"
          PROVE  Typed /\ \A u \in Tasks : Fine(u)
      <4>1. task'[t].op = "setattr" /\ task'[t].want = task[t].want
        BY <2>0, <2>4 DEF Keeps
      <4>2. ResolveIn(dir', task'[t].path) = Resolve(task[t].path)
        BY <3>2, <3>4 DEF Resolve
      <4>3. t \notin stale => SoFar(t, task'[t], Resolve(task[t].path))
        BY <3>3, <3>4, <4>1 DEF SetSoFar
      <4>4. Fine(t)
        BY <3>2, <3>4, <4>1, <4>2, <4>3 DEF Fine
      <4>5. QED
        BY <1>0, <1>3, <2>0, <2>1, <3>4, <4>4
    <3>5. ASSUME o < n, (i # NoIno /\ SetIt(t)) \/ (NextAttr(t) = "times" /\ attr' = attr),
                 task'[t].path = task[t].path, task'[t].off = o + 1, task'[t].pc = "ready"
          PROVE  Typed /\ \A u \in Tasks : Fine(u)
      <4> DEFINE a1 == task[t].want[o + 1]
      <4>1. task'[t].op = "setattr" /\ task'[t].want = task[t].want
        BY <2>0, <2>4 DEF Keeps
      <4>2. ResolveIn(dir', task'[t].path) = i
        BY <3>2, <3>5 DEF Resolve, Here
      <4>3. a1 \in Attrs /\ o + 1 \in 1..n
        BY <3>1, <3>5
      <4>4. \/ attr' = attr /\ a1 = "times"
            \/ i \in Inos /\ attr' = [attr EXCEPT ![i] = @ \cup {<<t, a1>>}]
        BY <1>0, <3>1, <3>5 DEF SetIt, NextAttr
      <4>5. Typed
        BY <1>0, <4>3, <4>4
      <4>6. \A j \in Inos : attr[j] \subseteq attr'[j] /\
               \A x : x \in attr'[j] => x \in attr[j] \/ (x = <<t, a1>> /\ j = i)
        BY <1>0, <4>4
      <4>7. \A u \in Tasks \ {t} : \A j \in Inos : \A a \in Attrs :
                <<u, a>> \in attr'[j] <=> <<u, a>> \in attr[j]
        BY <4>6
      <4>8. a1 # "times" => i \in Inos /\ <<t, a1>> \in attr'[i]
        BY <1>0, <4>4
      <4>9. ASSUME t \notin stale PROVE SoFar(t, task'[t], i)
        <5>1. SetSoFar(t) /\ Resolve(task[t].path) = i
          BY <3>3, <4>9 DEF Here
        <5> HIDE DEF i, a1
        <5>2. ASSUME NEW j \in Inos, NEW a \in Attrs, <<t, a>> \in attr'[j]
              PROVE  j = i /\ \E k \in 1..(o + 1) : task[t].want[k] = a
          <6>1. CASE <<t, a>> \in attr[j]
            <7>1. j = i /\ \E k \in 1..o : task[t].want[k] = a
              BY <5>1, <6>1 DEF SetSoFar
            <7>2. QED
              BY <3>1, <7>1
          <6>2. CASE a = a1 /\ j = i
            BY <3>1, <6>2 DEF a1
          <6>3. QED
            BY <4>6, <5>2, <6>1, <6>2
        <5>3. ASSUME NEW k \in 1..(o + 1), task[t].want[k] # "times"
              PROVE  i \in Inos /\ <<t, task[t].want[k]>> \in attr'[i]
          <6>1. CASE k = o + 1
            BY <4>8, <5>3, <6>1 DEF a1
          <6>2. CASE k \in 1..o
            BY <4>6, <5>1, <5>3, <6>2 DEF SetSoFar
          <6>3. QED
            BY <3>1, <6>1, <6>2
        <5>4. QED
          BY <3>5, <4>1, <5>2, <5>3
      <4>10. Fine(t)
        BY <3>2, <3>5, <4>1, <4>2, <4>9 DEF Fine
      <4>11. QED
        BY <1>3, <2>0, <2>1, <4>5, <4>7, <4>10
    <3>6. CASE SetattrStep(t)
      <4>1. o < n /\ task[t].pc = "ready"
        BY <3>6 DEF SetattrStep, At
      <4>2. CASE SetattrFails(t)
        <5>1. /\ attr' = attr /\ task'[t].path = task[t].path /\ task'[t].off = o
              /\ task'[t].pc = "done" /\ task'[t].res = "error"
          BY <2>0, <2>2, <4>2 DEF SetattrFails, Error, Still, Reply, IsTask, Fields
        <5>2. QED
          BY <3>4, <4>1, <5>1
      <4>3. CASE NextAttr(t) = "times" /\ Moves(t, "times") /\ Still
        <5>1. /\ attr' = attr /\ task'[t].path = task[t].path /\ task'[t].off = o
              /\ task'[t].pc = "times"
          BY <2>0, <2>2, <4>3 DEF Moves, Still, IsTask, Fields
        <5>2. QED
          BY <3>4, <4>3, <5>1 DEF NextAttr
      <4>4. CASE /\ Here(t) # NoIno /\ SetIt(t)
                 /\ Goes(t, [task[t] EXCEPT !.off = @ + 1])
        <5>1. task'[t].path = task[t].path /\ task'[t].off = o + 1 /\ task'[t].pc = "ready"
          BY <2>0, <2>2, <4>1, <4>4 DEF IsTask, Fields
        <5>2. QED
          BY <3>5, <4>1, <4>4, <5>1
      <4>5. QED
        BY <3>6, <4>2, <4>3, <4>4 DEF SetattrStep
    <3>7. CASE SetattrTimes(t)
      <4>1. o < n /\ NextAttr(t) = "times"
        BY <1>0, <2>0, <3>7 DEF SetattrTimes, At, Request
      <4>2. /\ task'[t].path = task[t].path /\ task'[t].off = o + 1 /\ task'[t].pc = "ready"
        BY <2>0, <2>2, <3>7 DEF SetattrTimes, IsTask, Fields
      <4>3. (i # NoIno /\ SetIt(t)) \/ attr' = attr
        BY <3>7 DEF SetattrTimes
      <4>4. QED
        BY <3>5, <4>1, <4>2, <4>3
    <3>8. CASE SetattrEnds(t)
      <4>1. o = n /\ Reply(t, "ok") /\ attr' = attr
        BY <3>8 DEF SetattrEnds, Still
      <4>2. /\ task'[t].path = task[t].path /\ task'[t].off = o
            /\ task'[t].pc = "done" /\ task'[t].res = "ok"
        BY <2>0, <2>2, <4>1 DEF Reply, IsTask, Fields
      <4>3. QED
        BY <3>4, <4>1, <4>2
    <3>9. QED
      BY <3>0, <3>6, <3>7, <3>8
  <2>5. QED
    BY <2>3, <2>4
<1>8. ASSUME ~\E t \in Tasks : SendStep(t) \/ TaskStep(t) \/ Receive(t)
      PROVE  task' = task /\ attr' = attr
  BY <1>8 DEF Next, SendStep, BackgroundWrite, LateWrite, Local
<1>9. QED
  BY <1>4, <1>5, <1>6, <1>7, <1>8

-----------------------------------------------------------------------------
(* The invariant holds.                                                    *)

(* It holds at the start. *)
LEMMA Starts == Init => IInv
<1> SUFFICES ASSUME Init PROVE IInv
  OBVIOUS
<1>0. /\ load \in Loads /\ TreeInit
      /\ attr = [i \in Inos |-> {}] /\ log = [i \in Inos |-> << >>]
      /\ path = [f \in Fids |-> IF f \in DOMAIN load.paths THEN load.paths[f][1] ELSE NoPath]
      /\ told = [f \in Fids |-> IF f \in DOMAIN load.paths THEN load.paths[f][2] ELSE NoIno]
      /\ file = [f \in Fids |-> IF f \in load.open THEN Opened(told[f]) ELSE NoFile]
      /\ task = [t \in Tasks |-> Free]
      /\ late = {} /\ writes = << >> /\ list = NoList /\ stale = {}
  BY DEF Init
<1>1. /\ load = [ops |-> load.ops, paths |-> load.paths, open |-> load.open,
                 reqs |-> load.reqs, env |-> load.env]
      /\ load.ops \subseteq Ops /\ load.reqs \in Nat /\ load.env \in Nat
      /\ DOMAIN load.paths \subseteq Fids /\ load.open \subseteq DOMAIN load.paths
      /\ \A f \in DOMAIN load.paths :
            /\ load.paths[f] \in Seq(Names) \X Inos
            /\ ResolveIn(TreeAtStart, load.paths[f][1]) = load.paths[f][2]
  BY <1>0, LoadAssumption
<1>2. TreeInv
  <2>1. \A i \in Inos : dir[i] = IF i \in DOMAIN Tree THEN Tree[i] ELSE << >>
    BY <1>0 DEF TreeInit, TreeAtStart
  <2>2. \A d \in DOMAIN Tree : Tree[d] \in Seq(EntryRec)
    BY TreeAssumption DEF EntryRec
  <2>3. dir \in [Inos -> Seq(EntryRec)]
    BY <1>0, <2>1, <2>2 DEF TreeInit, TreeAtStart
  <2>4. /\ kind \in [Inos -> {"dir", "file", "free"}]
        /\ \A i \in Inos : kind[i] # "dir" => i \notin DOMAIN Tree
    BY <1>0 DEF TreeInit
  <2>5. DistinctNames
    <3>1. \A d \in DOMAIN Tree : Distinct(Tree[d])
      <4>1. \A d \in DOMAIN Tree : DOMAIN Tree[d] = 1..Len(Tree[d])
        BY <2>2
      <4>2. QED
        BY <4>1, EntryAssumption DEF Distinct
    <3>2. Distinct(<< >>)
      BY DEF Distinct
    <3>3. QED
      BY <2>1, <3>1, <3>2 DEF DistinctNames
  <2>6. QED
    BY <2>1, <2>3, <2>4, <2>5 DEF TreeInv
<1>3. \A f \in DOMAIN load.paths :
          /\ f \in Fids /\ path[f] = load.paths[f][1] /\ told[f] = load.paths[f][2]
          /\ path[f] \in Seq(Names) /\ told[f] \in Inos /\ path[f] # NoPath
  BY <1>0, <1>1, NameAssumption
<1>4. \A f \in Fids : f \notin DOMAIN load.paths => path[f] = NoPath /\ told[f] = NoIno
  BY <1>0
<1>5. \A f \in Fids :
          IF f \in load.open
          THEN /\ told[f] \in Inos /\ file[f] = Opened(told[f]) /\ file[f] \in FileRec
               /\ file[f] # NoFile /\ file[f].ino = told[f] /\ file[f].bg = 0 /\ file[f].err = 0
          ELSE file[f] = NoFile
  <2>1. \A i \in Inos : Opened(i).bg = 0 /\ Opened(i).err = 0
    BY DEF Opened
  <2>2. QED
    BY <1>0, <1>1, <1>3, <2>1, OpenedFile
<1>6. FidInv
  <2>1. path \in [Fids -> Seq(Names) \cup {NoPath}] /\ told \in [Fids -> Inos \cup {NoIno}]
    BY <1>0, <1>3, <1>4
  <2>2. file \in [Fids -> FileRec \cup {NoFile}]
    BY <1>0, <1>5
  <2>3. ASSUME NEW f \in Fids
        PROVE  (told[f] # NoIno => path[f] # NoPath) /\ (file[f] # NoFile => told[f] # NoIno)
    BY <1>3, <1>4, <1>5, TreeAssumption
  <2>4. QED
    BY <2>1, <2>2, <2>3 DEF FidInv
<1>7. LoadInv
  BY <1>1 DEF LoadInv
<1>8. ListInv
  BY <1>0 DEF ListInv, NoList
<1>9. \A t \in Tasks : task[t] = Free
  BY <1>0
<1>10. /\ IsTask(Free) /\ Free.path \in Seq(Names) /\ Free.res = "none"
       /\ Free.op = "none" /\ Free.pc = "free"
  BY DEF IsTask, Fields, Free
<1>11. TaskInv
  BY <1>0, <1>9, <1>10 DEF TaskInv, TaskOK
<1>12. UseInv
  BY <1>9, <1>10 DEF UseInv, FidStays, AloneInv, NewInv, UnopenedInv, SamePath, Runs, Busy
<1>13. WriteInv
  <2>1. DataInv /\ DOMAIN writes = {} /\ \A i \in Inos : DOMAIN log[i] = {}
    BY <1>0 DEF DataInv
  <2>2. BufferInv
    BY <1>5 DEF BufferInv
  <2>3. OwnInv /\ LateInv /\ LogInv /\ OrderInv
    BY <1>0, <2>1 DEF OwnInv, LateInv, LogInv, OrderInv
  <2>4. LockInv
    BY <1>9, <1>10 DEF LockInv, HoldsLock
  <2>5. QED
    BY <2>1, <2>2, <2>3, <2>4 DEF WriteInv
<1>14. ReadInv
  BY <1>9, <1>10 DEF ReadInv, BeforeInv, SeenInv
<1>15. NameInv
  <2>1. FidNamesObject
    <3> SUFFICES ASSUME NEW f \in Fids, told[f] # NoIno
                 PROVE  Resolve(path[f]) = told[f] /\ (file[f] # NoFile => file[f].ino = told[f])
      BY DEF FidNamesObject
    <3>1. f \in DOMAIN load.paths
      BY <1>4
    <3>2. Resolve(path[f]) = told[f]
      BY <1>0, <1>1, <1>3, <3>1 DEF Resolve, TreeInit
    <3>3. QED
      BY <1>5, <3>2
  <2>2. FoundInv /\ UnansweredInv /\ MadeEntryStands
    BY <1>9, <1>10 DEF FoundInv, UnansweredInv, MadeEntryStands, At, Runs
  <2>3. QED
    BY <1>0, <2>1, <2>2 DEF NameInv
<1>16. AttrInv
  BY <1>0, <1>9, <1>10 DEF AttrInv, SetByNone, At
<1>17. QED
  BY <1>2, <1>6, <1>7, <1>8, <1>11, <1>12, <1>13, <1>14, <1>15, <1>16 DEF IInv, TypeInv

(* Each step keeps it. *)
LEMMA StepKept == IInv /\ [Next]_vars => IInv'
<1> SUFFICES ASSUME IInv, [Next]_vars PROVE IInv'
  OBVIOUS
<1>0. TypeInv /\ UseInv /\ WriteInv /\ ReadInv /\ NameInv /\ AttrInv
  BY DEF IInv
<1>1. CASE Next
  <2>1. BufInv' /\ LockInv'
    BY <1>0, <1>1, BufKept, LockKept
  <2>2. WriteInv'
    BY <2>1 DEF WriteInv, BufInv
  <2>3. QED
    BY <1>0, <1>1, <2>2, TypeKept, UseKept, ReadKept, NameKept, AttrKept DEF IInv
<1>2. CASE UNCHANGED vars
  <2>1. /\ load' = load /\ dir' = dir /\ kind' = kind /\ stale' = stale /\ attr' = attr
        /\ path' = path /\ file' = file /\ log' = log /\ writes' = writes /\ late' = late
        /\ told' = told /\ task' = task /\ list' = list
    BY <1>2 DEF vars, treevars, filevars
  <2>2. TypeInv'
    BY <1>0, <2>1 DEF TypeInv, TreeInv, DistinctNames, FidInv, LoadInv, ListInv, TaskInv
  <2>3. UseInv'
    BY <1>0, <2>1 DEF UseInv, FidStays, AloneInv, NewInv, UnopenedInv, SamePath, Runs, Busy, At
  <2>4. WriteInv'
    BY <1>0, <2>1 DEF WriteInv, DataInv, BufferInv, OwnInv, LateInv, LogInv, OrderInv, LockInv, HoldsLock
  <2>5. ReadInv'
    BY <1>0, <2>1 DEF ReadInv, BeforeInv, SeenInv, Runs
  <2>6. NameInv'
    BY <1>0, <2>1 DEF NameInv, FidNamesObject, FoundInv, UnansweredInv, MadeEntryStands, Runs, At, Resolve
  <2>7. AttrInv'
    BY <1>0, <2>1 DEF AttrInv, SetByNone, SetSoFar, At, NextAttr, Resolve
  <2>8. QED
    BY <2>2, <2>3, <2>4, <2>5, <2>6, <2>7 DEF IInv
<1>3. QED
  BY <1>1, <1>2

(* The inductive invariant of the exported file system (unpfs.rs). *)
THEOREM Invariant == Spec => []IInv
BY Starts, StepKept, PTL DEF Spec

-----------------------------------------------------------------------------
(* What follows from it.                                                   *)

(* The position of a write in its file. *)
LEMMA PositionIs ==
    ASSUME DataInv, LogInv, NEW w \in DOMAIN writes, NEW k \in DOMAIN log[writes[w].ino],
           log[writes[w].ino][k] = w
    PROVE  Position(w) = k
<1> DEFINE i == writes[w].ino
           I == {j \in 1..Len(log[i]) : log[i][j] = w}
<1>0. i \in Inos
  <2>1. writes[w] \in WriteRec
    BY DEF DataInv
  <2>2. QED
    BY <2>1 DEF WriteRec
<1> HIDE DEF i
<1>1. Len(log[i]) \in Nat /\ DOMAIN log[i] = 1..Len(log[i])
  BY <1>0 DEF DataInv
<1>2. k \in I /\ \A j \in I : j = k
  BY <1>0, <1>1 DEF LogInv, i
<1>3. I = {k} /\ k \in Nat
  BY <1>1, <1>2
<1>4. Min(I) = k
  BY <1>3 DEF Min
<1>5. SelectInSeq(log[i], LAMBDA x : x = w) = k
  BY <1>3, <1>4 DEF SelectInSeq
<1>6. QED
  BY <1>5 DEF Position, i

(* The types and the names, of the invariant. *)
LEMMA Types == IInv => UnpfsInv
<1> SUFFICES ASSUME IInv PROVE UnpfsInv
  OBVIOUS
<1>0. /\ TreeInv /\ FidInv /\ LoadInv /\ TaskInv /\ DataInv /\ BufferInv /\ LateInv /\ LogInv
      /\ stale \subseteq Fids \cup Tasks /\ FidNamesObject
  BY DEF IInv, TypeInv, WriteInv, NameInv
<1>1. ASSUME NEW i \in Inos
      PROVE  /\ \A k \in DOMAIN dir[i] : dir[i][k] \in [name: Names, ino: Inos]
             /\ kind[i] # "dir" => dir[i] = << >>
             /\ \A k \in DOMAIN log[i] : log[i][k] \in DOMAIN writes
  <2>1. dir[i] \in Seq(EntryRec)
    BY <1>0 DEF TreeInv
  <2>2. \A k \in DOMAIN dir[i] : dir[i][k] \in EntryRec
    BY <2>1
  <2>3. QED
    BY <1>0, <2>2 DEF TreeInv, EntryRec, LogInv
<1>2. ASSUME NEW f \in Fids, file[f] # NoFile
      PROVE  file[f] \in [ino: Inos, pos: {0, 1}, bg: 0..Len(writes), err: 0..Len(writes)]
  <2>1. DOMAIN writes = 1..Len(writes) /\ Len(writes) \in Nat
    BY <1>0 DEF DataInv
  <2>2. file[f] \in FileRec
    BY <1>0, <1>2 DEF FidInv
  <2>3. file[f].bg \in 0..Len(writes) /\ file[f].err \in 0..Len(writes)
    BY <1>0, <1>2, <2>1, <2>2 DEF BufferInv, FileRec
  <2>4. QED
    BY <2>2, <2>3 DEF FileRec
<1>3. \A t \in Tasks : task[t].op \in Ops \cup {"none"} /\ task[t].res \in {"none", "ok", "error", "refused"}
  BY <1>0 DEF TaskInv, TaskOK, Request, Free
<1>4. late \subseteq DOMAIN writes
  BY <1>0 DEF LateInv
<1>5. TypeOK
  BY <1>0, <1>1, <1>2, <1>3, <1>4 DEF TypeOK, LoadInv, TreeInv, FidInv
<1>6. QED
  BY <1>0, <1>5 DEF UnpfsInv

(* The fids of unpfs.rs name what the client was told: UnpfsFid::realpath  *)
(* resolves to the inode of the last qid, and the open File is that inode, *)
(* unless an entry on the path was changed; and all keeps its type.        *)
THEOREM FidsRight == Spec => []UnpfsInv
BY Invariant, Types, PTL

(* rlcreate and rmkdir fail halfway, with the file made, only if another   *)
(* actor has changed an entry on its path before their get_qid.            *)
THEOREM MadeStands == Spec => []MadeEntryStands
<1>1. IInv => MadeEntryStands
  BY DEF IInv, NameInv
<1>2. QED
  BY <1>1, Invariant, PTL

(* The writes of one fid reach the file in the order in which rwrite has   *)
(* answered them, none behind one whose error was not reported, of the     *)
(* invariant. *)
LEMMA Ordered == IInv => WritesInOrder
<1> SUFFICES ASSUME IInv, NEW v \in DOMAIN writes, NEW w \in DOMAIN writes, v < w,
                    writes[v].fid # NoFid, writes[v].fid = writes[w].fid
             PROVE  /\ writes[v].st \notin {"flying", "failed"}
                    /\ writes[v].st = "landed" /\ writes[w].st = "landed" => Position(v) < Position(w)
  BY DEF WritesInOrder
<1>0. DataInv /\ OwnInv /\ LogInv /\ OrderInv
  BY DEF IInv, WriteInv
<1>1. writes[v].st \notin {"flying", "failed"}
  BY <1>0 DEF OrderInv
<1>2. writes[v].ino = writes[w].ino /\ writes[v].ino \in Inos
  <2>1. writes[v] \in WriteRec /\ writes[w] \in WriteRec
    BY <1>0 DEF DataInv
  <2>2. QED
    BY <1>0, <2>1 DEF OwnInv, WriteRec
<1>3. ASSUME writes[v].st = "landed", writes[w].st = "landed" PROVE Position(v) < Position(w)
  <2>1. PICK k \in DOMAIN log[writes[v].ino] : log[writes[v].ino][k] = v
    BY <1>0, <1>3 DEF LogInv
  <2>2. PICK l \in DOMAIN log[writes[w].ino] : log[writes[w].ino][l] = w
    BY <1>0, <1>3 DEF LogInv
  <2>3. Position(v) = k /\ Position(w) = l
    BY <1>0, <2>1, <2>2, PositionIs
  <2>4. k < l
    BY <1>0, <1>2, <2>1, <2>2 DEF OrderInv
  <2>5. QED
    BY <2>3, <2>4
<1>4. QED
  BY <1>1, <1>3

(* rwrite: the writes of one fid reach the file in the order in which they *)
(* were answered, although tokio's File answers a write before its thread  *)
(* has done it.                                                            *)
THEOREM WritesOrdered == Spec => []WritesInOrder
BY Ordered, Invariant, PTL

(* A read has seen the writes before it, of the invariant. *)
LEMMA ReadsSee == IInv => ReadYourWrites
<1> SUFFICES ASSUME IInv, NEW t \in Tasks, At(t, "read", "done") \/ At(t, "fsync", "done"),
                    NEW w \in task[t].before, task[t].res = "ok"
             PROVE  /\ writes[w].st # "flying"
                    /\ At(t, "read", "done") /\ writes[w].off = task[t].off /\ writes[w].st = "landed"
                          => task[t].at # 0 /\ Position(w) <= Position(task[t].at)
  BY DEF ReadYourWrites
<1>0. DataInv /\ LogInv /\ SeenInv /\ BeforeInv
  BY DEF IInv, WriteInv, ReadInv
<1>1. task[t].op \in {"read", "fsync"} /\ task[t].pc = "done" /\ w \in DOMAIN writes
  BY <1>0 DEF At, BeforeInv
<1>2. writes[w].st # "flying"
  BY <1>0, <1>1 DEF SeenInv
<1>3. ASSUME At(t, "read", "done"), writes[w].off = task[t].off, writes[w].st = "landed"
      PROVE  task[t].at # 0 /\ Position(w) <= Position(task[t].at)
  <2>1. /\ task[t].at \in DOMAIN writes /\ writes[task[t].at].ino = writes[w].ino
        /\ \E k, l \in DOMAIN log[writes[w].ino] :
              /\ log[writes[w].ino][k] = w /\ log[writes[w].ino][l] = task[t].at
              /\ k <= l
    BY <1>0, <1>1, <1>3 DEF SeenInv, At
  <2>2. PICK k \in DOMAIN log[writes[w].ino], l \in DOMAIN log[writes[w].ino] :
              /\ log[writes[w].ino][k] = w /\ log[writes[w].ino][l] = task[t].at
              /\ k <= l
    BY <2>1
  <2>3. PICK x : x = task[t].at
    OBVIOUS
  <2>4. Position(w) = k /\ Position(x) = l
    BY <1>0, <1>1, <2>1, <2>2, <2>3, PositionIs
  <2>5. task[t].at # 0
    BY <1>0, <2>1 DEF DataInv
  <2>6. QED
    BY <2>2, <2>3, <2>4, <2>5
<1>4. QED
  BY <1>2, <1>3

(* rread never returns data older than a write that was answered on the    *)
(* same fid before the read was sent, and rfsync leaves none under way.    *)
THEOREM ReadsOwnWrites == Spec => []ReadYourWrites
BY ReadsSee, Invariant, PTL

(* What rsetattr has set, of the invariant. *)
LEMMA Prefix == IInv => SetattrPrefix
<1> SUFFICES ASSUME IInv PROVE SetattrPrefix
  OBVIOUS
<1> SUFFICES ASSUME NEW t \in Tasks, t \notin stale, At(t, "setattr", "done")
             PROVE  LET set(i) == {a \in ToSet(task[t].want) : i # NoIno /\ <<t, a>> \in attr[i]}
                        at == Resolve(task[t].path)
                    IN /\ \A i \in Inos \ {at} : set(i) = {}
                       /\ IF task[t].res = "ok" THEN ToSet(task[t].want) \ {"times"} \subseteq set(at)
                          ELSE \E k \in 0..(Len(task[t].want) - 1) :
                                   set(at) = ToSet(SubSeq(task[t].want, 1, k))
  BY DEF SetattrPrefix
<1> DEFINE at == Resolve(task[t].path)
           want == task[t].want
           o == task[t].off
           set(i) == {a \in ToSet(want) : i # NoIno /\ <<t, a>> \in attr[i]}
<1>0. SetSoFar(t) /\ Request(task[t])
  BY DEF IInv, AttrInv, TypeInv, TaskInv, TaskOK, Free, At
<1>1. /\ want \in Seq(Attrs) /\ Len(want) \in Nat /\ DOMAIN want = 1..Len(want) /\ o \in 0..Len(want)
      /\ \A k \in DOMAIN want : want[k] = "times" => k = Len(want)
  BY <1>0, WantAssumption DEF Request, At, Attrs
<1>2. /\ \A i \in Inos : \A a \in Attrs : <<t, a>> \in attr[i] =>
            i = at /\ \E k \in 1..o : want[k] = a
      /\ \A k \in 1..o : want[k] # "times" => at \in Inos /\ <<t, want[k]>> \in attr[at]
      /\ IF task[t].res = "ok" THEN o = Len(want) ELSE o < Len(want)
  BY <1>0 DEF SetSoFar, At
<1>3. at \in Inos \cup {NoIno} /\ NoIno \notin Inos
  BY Resolved, TreeAssumption DEF IInv, TypeInv, TaskInv, TaskOK
<1> HIDE DEF at, want, o
<1>4. ToSet(want) = {want[k] : k \in 1..Len(want)} /\ ToSet(want) \subseteq Attrs
  BY <1>1 DEF ToSet
<1>5. \A i \in Inos \ {at} : set(i) = {}
  BY <1>2, <1>4
<1>6. CASE task[t].res = "ok"
  <2>1. ToSet(want) \ {"times"} \subseteq set(at)
    BY <1>1, <1>2, <1>3, <1>4, <1>6
  <2>2. QED
    BY <1>5, <1>6, <2>1 DEF at, want
<1>7. CASE task[t].res # "ok"
  <2>1. o \in 0..(Len(want) - 1)
    BY <1>1, <1>2, <1>7
  <2>2. ToSet(SubSeq(want, 1, o)) = {want[k] : k \in 1..o}
    <3>1. PICK s : s = SubSeq(want, 1, o)
      OBVIOUS
    <3>2. DOMAIN s = 1..o /\ \A k \in 1..o : s[k] = want[k]
      BY <1>1, <2>1, <3>1
    <3>3. ToSet(s) = {want[k] : k \in 1..o}
      BY <3>2 DEF ToSet
    <3>4. QED
      BY <3>1, <3>3
  <2>3. set(at) \subseteq {want[k] : k \in 1..o}
    BY <1>2, <1>3, <1>4
  <2>4. ASSUME NEW k \in 1..o PROVE want[k] \in set(at)
    <3>1. k \in 1..Len(want) /\ want[k] # "times"
      BY <1>1, <2>1
    <3>2. QED
      BY <1>2, <1>3, <1>4, <3>1
  <2>5. set(at) = ToSet(SubSeq(want, 1, o))
    BY <2>2, <2>3, <2>4
  <2>6. QED
    BY <1>5, <1>7, <2>1, <2>5 DEF at, want
<1>8. QED
  BY <1>6, <1>7

(* rsetattr sets on one file what comes first of mode, owner and size, and *)
(* all of it if it does not fail, unless an entry on its path is changed.  *)
THEOREM SetsPrefix == Spec => []SetattrPrefix
BY Prefix, Invariant, PTL

-----------------------------------------------------------------------------
(* Listings.                                                               *)

Listing(t) == Busy(t) /\ task[t].op = "readdir"
Shown == Names \cup {".", ".."}

(* What a listing keeps between its replies, and its request with it: the  *)
(* client goes on where the last reply ended.                              *)
KeptInv == LET es == dir[told[list.fid]]
           IN \A e \in list.kept : e[2] \in 1..Len(es) /\ es[e[2]].name = e[1]
PageInv ==
    /\ list.st \in {"none", "on", "ended"} /\ (list.st = "none" <=> list.fid = NoFid)
    /\ list.fid # NoFid =>
          /\ list.got \in Seq(Shown) /\ list.off \in Nat
          /\ IF list.off = 0 THEN list.got = << >> /\ list.st = "on"
             ELSE Len(list.got) = list.off + 1
          /\ KeptInv
    /\ \A t \in Tasks : Listing(t) =>
          /\ list.st = "on" /\ task[t].fid = list.fid /\ task[t].off = list.off
          /\ task[t].path = path[list.fid]
          /\ \A u \in Tasks : Listing(u) => u = t
          /\ task[t].names \in Seq(Shown)
          /\ task[t].pc = "ready" => task[t].names = << >>
          /\ task[t].pc = "entry" => task[t].ents \in Seq(EntryRec)
          /\ list.off = 0 /\ (task[t].pc = "entry" \/ (task[t].pc = "done" /\ task[t].res = "ok")) =>
                Len(task[t].names) >= 2
    /\ \A t \in Tasks : Busy(t) /\ task[t].op \in {"lopen", "lcreate"} => task[t].fid # list.fid

(* The place that a steady entry has in the whole listing, after the dots; *)
(* a part of the listing that begins after the first n names has it there  *)
(* and nowhere else.                                                       *)
Expected == {<<".", 1>>, <<"..", 2>>} \cup {<<e[1], e[2] + 2>> : e \in list.kept}
InPlace(s, n) == \A x \in Expected : \A i \in 1..Len(s) : s[i] = x[1] <=> n + i = x[2]
Complete(n) == \A x \in Expected : x[2] <= n
NamesOf(es) == [i \in 1..Len(es) |-> es[i].name]

PlaceOf(r) ==
    LET n == Len(list.got) + Len(r.names)
    IN /\ InPlace(r.names, Len(list.got))
       /\ r.pc = "entry" => InPlace(NamesOf(r.ents), n) /\ Complete(n + Len(r.ents))
       /\ r.pc = "done" /\ r.res = "ok" /\ r.names = << >> => Complete(Len(list.got))
PlaceInv ==
    list.fid # NoFid /\ list.fid \notin stale =>
        /\ InPlace(list.got, 0)
        /\ list.st = "ended" => Complete(Len(list.got))
        /\ \A t \in Tasks : Listing(t) => PlaceOf(task[t])

ListIInv == IInv /\ PageInv /\ PlaceInv

(* What a step that has nothing to do with the listing leaves alone. *)
Aside ==
    /\ list'.st = list.st /\ list'.fid = list.fid /\ list'.off = list.off /\ list'.got = list.got
    /\ list'.kept \subseteq list.kept
    /\ list.fid # NoFid =>
          /\ path'[list.fid] = path[list.fid] /\ KeptInv'
          /\ list.fid \in stale => list.fid \in stale'
    /\ \A t \in Tasks : Listing(t)' => task'[t] = task[t]
    /\ \A t \in Tasks : (Busy(t) /\ task[t].op \in {"lopen", "lcreate"})' => task'[t].fid # list.fid

LEMMA AsideKept ==
    ASSUME PageInv, PlaceInv, Aside
    PROVE  PageInv' /\ PlaceInv'
<1>1. \A t \in Tasks : Listing(t)' => Listing(t) /\ task'[t] = task[t]
  BY DEF Aside, Listing, Busy
<1>2. Expected' \subseteq Expected
  BY DEF Aside, Expected
<1>3. PageInv'
  <2>1. list'.fid # NoFid => KeptInv' /\ path'[list'.fid] = path[list.fid]
    BY DEF Aside
  <2>2. ASSUME NEW t \in Tasks, Listing(t)'
        PROVE  /\ list'.st = "on" /\ task'[t].fid = list'.fid /\ task'[t].off = list'.off
               /\ task'[t].path = path'[list'.fid]
               /\ \A u \in Tasks : Listing(u)' => u = t
               /\ task'[t].names \in Seq(Shown)
               /\ task'[t].pc = "ready" => task'[t].names = << >>
               /\ task'[t].pc = "entry" => task'[t].ents \in Seq(EntryRec)
               /\ list'.off = 0 /\ (task'[t].pc = "entry" \/ (task'[t].pc = "done" /\ task'[t].res = "ok")) =>
                     Len(task'[t].names) >= 2
    <3>1. Listing(t) /\ task'[t] = task[t]
      BY <1>1, <2>2
    <3>2. list.fid # NoFid
      BY <3>1 DEF PageInv
    <3>3. \A u \in Tasks : Listing(u)' => u = t
      BY <1>1, <3>1 DEF PageInv
    <3>4. QED
      BY <2>1, <3>1, <3>2, <3>3 DEF PageInv, Aside
  <2>3. QED
    BY <2>1, <2>2 DEF PageInv, Aside
<1>4. ASSUME list'.fid # NoFid, list'.fid \notin stale'
      PROVE  /\ InPlace(list.got, 0)'
             /\ list'.st = "ended" => Complete(Len(list.got))'
             /\ \A t \in Tasks : Listing(t)' => PlaceOf(task[t])'
  <2>1. list.fid # NoFid /\ list.fid \notin stale /\ list'.got = list.got /\ list'.st = list.st
    BY <1>4 DEF Aside
  <2>2. ASSUME NEW s, NEW n, InPlace(s, n) PROVE \A x \in Expected' : \A i \in 1..Len(s) : s[i] = x[1] <=> n + i = x[2]
    BY <1>2, <2>2 DEF InPlace
  <2>3. ASSUME NEW n, Complete(n) PROVE \A x \in Expected' : x[2] <= n
    BY <1>2, <2>3 DEF Complete
  <2>4. InPlace(list.got, 0)'
    <3>1. InPlace(list.got, 0)
      BY <2>1 DEF PlaceInv
    <3>2. \A x \in Expected' : \A i \in 1..Len(list.got) : list.got[i] = x[1] <=> 0 + i = x[2]
      BY <2>2, <3>1
    <3>3. QED
      BY <2>1, <3>2 DEF InPlace
  <2>5. list'.st = "ended" => Complete(Len(list.got))'
    BY <2>1, <2>3 DEF PlaceInv, Complete
  <2>6. ASSUME NEW t \in Tasks, Listing(t)' PROVE PlaceOf(task[t])'
    <3>1. PlaceOf(task[t]) /\ task'[t] = task[t]
      BY <1>1, <2>1, <2>6 DEF PlaceInv
    <3> DEFINE r == task[t]
               n == Len(list.got) + Len(r.names)
    <3>2. InPlace(r.names, Len(list.got))'
      <4>1. InPlace(r.names, Len(list.got))
        BY <3>1 DEF PlaceOf
      <4>2. \A x \in Expected' : \A i \in 1..Len(r.names) :
               r.names[i] = x[1] <=> Len(list.got) + i = x[2]
        BY <2>2, <4>1
      <4>3. QED
        BY <2>1, <3>1, <4>2 DEF InPlace
    <3>3. r.pc = "entry" => InPlace(NamesOf(r.ents), n)'
      <4> SUFFICES ASSUME r.pc = "entry"
                   PROVE  (r.pc = "entry")' => InPlace(NamesOf(r.ents), n)'
        BY <3>1
      <4> DEFINE m == NamesOf(r.ents)
      <4>1. InPlace(m, n)
        BY <3>1 DEF PlaceOf
      <4>3. m' = m /\ n' = n
        BY <2>1, <3>1 DEF NamesOf
      <4> HIDE DEF m, n
      <4>2. \A x \in Expected' : \A i \in 1..Len(m) : m[i] = x[1] <=> n + i = x[2]
        BY <2>2, <4>1
      <4>4. QED
        BY <4>2, <4>3 DEF InPlace, m
    <3>4. r.pc = "entry" => Complete(n + Len(r.ents))'
      BY <2>1, <2>3, <3>1 DEF PlaceOf, Complete
    <3>5. r.pc = "done" /\ r.res = "ok" /\ r.names = << >> => Complete(Len(list.got))'
      BY <2>1, <2>3, <3>1 DEF PlaceOf, Complete
    <3>6. QED
      BY <3>1, <3>2, <3>3, <3>4, <3>5 DEF PlaceOf
  <2>7. QED
    BY <2>4, <2>5, <2>6
<1>5. QED
  BY <1>3, <1>4 DEF PlaceInv

(* What moves in the listed directory is no longer expected. *)
LEMMA ListNoticed ==
    ASSUME TypeInv, UseInv, PageInv, Next,
           list' = list \/ \E C : Noticed(C),
           list.fid # NoFid => told'[list.fid] = told[list.fid]
    PROVE  /\ list'.st = list.st /\ list'.fid = list.fid /\ list'.off = list.off
           /\ list'.got = list.got /\ list'.kept \subseteq list.kept
           /\ list.fid # NoFid => KeptInv'
<1> DEFINE now == dir'[told[list.fid]]
<1>0. DOMAIN list = {"st", "fid", "off", "got", "kept"}
  BY DEF TypeInv, ListInv
<1>1. ASSUME NEW C, Noticed(C), list.fid # NoFid
      PROVE  list' = [list EXCEPT !.kept = {e \in list.kept : e[2] <= Len(now) /\ now[e[2]].name = e[1]}]
  BY <1>1 DEF Noticed
<1>2. ASSUME list' = list
      PROVE  dir' = dir \/ \E C : Noticed(C)
  BY TreeKept DEF Changed
<1>3. CASE list.fid = NoFid
  BY <1>3 DEF Noticed
<1>4. CASE list.fid # NoFid /\ \E C : Noticed(C)
  <2> DEFINE ks == {e \in list.kept : e[2] <= Len(now) /\ now[e[2]].name = e[1]}
  <2>1. list' = [list EXCEPT !.kept = ks]
    BY <1>1, <1>4
  <2> HIDE DEF ks
  <2>2. /\ list'.st = list.st /\ list'.fid = list.fid /\ list'.off = list.off
        /\ list'.got = list.got /\ list'.kept = ks
    BY <1>0, <2>1
  <2>3. dir'[told'[list'.fid]] = now
    BY <1>4, <2>2
  <2>4. Len(now) \in Nat
    <3>1. told[list.fid] \in Inos
      BY <1>4 DEF TypeInv, FidInv, ListInv
    <3>2. now \in Seq(EntryRec)
      BY <3>1, TreeKept DEF TreeInv
    <3>3. QED
      BY <3>2
  <2>5. KeptInv'
    <3>1. ASSUME NEW e \in ks PROVE e[2] \in 1..Len(now) /\ now[e[2]].name = e[1]
      <4>1. e[2] \in 1..Len(dir[told[list.fid]]) /\ e[2] <= Len(now) /\ now[e[2]].name = e[1]
        BY <1>4 DEF PageInv, KeptInv, ks
      <4>2. QED
        BY <2>4, <4>1
    <3> HIDE DEF now
    <3>2. QED
      BY <2>2, <2>3, <3>1 DEF KeptInv
  <2>6. ks \subseteq list.kept
    BY DEF ks
  <2>7. QED
    BY <2>2, <2>5, <2>6
<1>5. CASE list.fid # NoFid /\ list' = list /\ dir' = dir
  <2>1. KeptInv
    BY <1>5 DEF PageInv
  <2>2. QED
    BY <1>5, <2>1 DEF KeptInv
<1>6. QED
  BY <1>2, <1>3, <1>4, <1>5

(* A task that neither lists nor clunks leaves the listing alone. *)
LEMMA TaskAside ==
    ASSUME IInv, PageInv, Next, NEW t \in Tasks, TaskStep(t),
           task[t].op \notin {"readdir", "clunk"}
    PROVE  Aside
<1> DEFINE f == task[t].fid
<1>0. TypeInv /\ UseInv /\ WriteInv /\ NameInv
  BY DEF IInv
<1>1. /\ Runs(t) /\ Busy(t) /\ Request(task[t]) /\ IsTask(task[t])
      /\ Goes(t, task'[t]) /\ Keeps(task[t], task'[t])
  BY <1>0, Stepped DEF Runs, Busy
<1>2. list' = list \/ \E C : Noticed(C)
  BY <1>1
     DEF TaskStep, IoStep, ListStep, LockFile, Seek, Read, Write, Fsync, Clunk,
         ReaddirOpens, ReaddirEntry, ReaddirEnds, WalkStep, Bind, Look, SetattrStep,
         SetattrFails, SetattrTimes, SetattrEnds, LopenStat, LopenOpen, LcreateStat,
         MkdirStat, Refused, MakeFile, Renameat, UnlinkStat, UnlinkRemove, Error, Still,
         MakeAt, DropAt, RenameAt, At
<1>3. \A u \in Tasks \ {t} : task'[u] = task[u]
  BY <1>0, <1>1 DEF Goes, TypeInv, TaskInv
<1>4. ASSUME NEW u \in Tasks, Listing(u)' PROVE task'[u] = task[u]
  BY <1>1, <1>3, <1>4 DEF Listing, Keeps
<1>5. ASSUME NEW u \in Tasks, (Busy(u) /\ task[u].op \in {"lopen", "lcreate"})'
      PROVE  task'[u].fid # list.fid
  BY <1>1, <1>3, <1>5 DEF PageInv, Keeps, Busy
<1>6. ASSUME list.fid # NoFid
      PROVE  /\ list.fid \in Fids
             /\ task[t].op \in {"attach", "walk"} => task[t].new # list.fid
             /\ task[t].op \in {"lopen", "lcreate"} => f # list.fid
  <2>1. list.fid \in Fids /\ told[list.fid] # NoIno
    BY <1>0, <1>6 DEF TypeInv, ListInv
  <2>2. path[list.fid] # NoPath
    BY <1>0, <2>1 DEF TypeInv, FidInv
  <2>3. QED
    BY <1>0, <1>1, <2>1, <2>2 DEF UseInv, NewInv, PageInv
<1>7. ASSUME list.fid # NoFid
      PROVE  path'[list.fid] = path[list.fid] /\ told'[list.fid] = told[list.fid]
  <2>1. CASE Quiet
    BY <2>1 DEF Quiet
  <2>2. CASE Binds(t)
    <3>1. task[t].op \in {"attach", "walk", "lopen", "lcreate"}
      BY <2>2 DEF Binds, Alone
    <3>2. Bound(t) # list.fid
      BY <1>6, <1>7, <3>1 DEF Bound
    <3>3. QED
      BY <1>6, <1>7, <2>2, <3>2 DEF Binds
  <2>3. QED
    BY <1>0, <2>1, <2>2, Tabled
<1>8. ASSUME list.fid # NoFid, list.fid \in stale PROVE list.fid \in stale'
  <2>0. list.fid \in Fids /\ list.fid # t
    BY <1>6, <1>8, FidAssumption
  <2>1. CASE Error(t) \/ Still
    BY <1>8, <2>1 DEF Error, Still, treevars
  <2>2. CASE \E es : Noticed(es)
    BY <1>8, <2>2 DEF Noticed
  <2>3. ASSUME NEW who, NEW g, NEW i, Tell(who, g, i), g # list.fid PROVE list.fid \in stale'
    BY <1>8, <2>3 DEF Tell
  <2>4. CASE WalkStep(t)
    <3>1. stale' = stale \/ stale' = stale \ {t}
      BY <2>4 DEF WalkStep, Error, Still, treevars
    <3>2. QED
      BY <1>8, <2>0, <3>1
  <2>5. CASE Bind(t)
    <3>1. task[t].new # list.fid
      BY <1>6, <1>8, <2>5 DEF Bind, At
    <3>2. \E who, i : Tell(who, task[t].new, i)
      BY <2>5 DEF Bind
    <3>3. QED
      BY <2>3, <3>1, <3>2
  <2>6. CASE LopenStat(t)
    <3>1. f # list.fid
      BY <1>6, <1>8, <2>6 DEF LopenStat, At
    <3>2. stale' = stale \/ stale' = stale \ {t, f} \/ stale' = stale \ {t}
      BY <2>6 DEF LopenStat, Error, Still, treevars
    <3>3. QED
      BY <1>8, <2>0, <3>1, <3>2
  <2>7. CASE LopenOpen(t) \/ LcreateStat(t)
    <3>1. f # list.fid
      BY <1>6, <1>8, <2>7 DEF LopenOpen, LcreateStat, At
    <3>2. \/ Error(t) \/ Still \/ (\E i : Tell(t, f, i)) \/ \E es : Noticed(es)
      BY <2>7 DEF LopenOpen, LcreateStat, Refused, MakeAt
    <3>3. QED
      BY <2>1, <2>2, <2>3, <3>1, <3>2
  <2>8. CASE MakeFile(t) \/ Renameat(t) \/ UnlinkRemove(t)
    <3>1. Error(t) \/ Still \/ \E es : Noticed(es)
      BY <2>8 DEF MakeFile, Renameat, UnlinkRemove, MakeAt, DropAt, RenameAt
    <3>2. QED
      BY <2>1, <2>2, <3>1
  <2>9. CASE ~(\/ WalkStep(t) \/ Bind(t) \/ LopenStat(t) \/ LopenOpen(t)
               \/ LcreateStat(t) \/ MakeFile(t) \/ Renameat(t) \/ UnlinkRemove(t))
    <3>1. ~Clunk(t)
      BY DEF Clunk, At
    <3>2. stale' = stale
      BY <2>9, <3>1
         DEF TaskStep, IoStep, ListStep, LockFile, Seek, Read, Write, Fsync,
             ReaddirOpens, ReaddirEntry, ReaddirEnds, Look, SetattrStep,
             SetattrFails, SetattrTimes, SetattrEnds, MkdirStat, Refused,
             UnlinkStat, Error, Still, treevars
    <3>3. QED
      BY <1>8, <3>2
  <2>10. QED
    BY <2>4, <2>5, <2>6, <2>7, <2>8, <2>9
<1>9. QED
  BY <1>0, <1>2, <1>4, <1>5, <1>7, <1>8, ListNoticed DEF Aside

(* So does what is not done by a task of the server or for a listing. *)
LEMMA OthersAside ==
    ASSUME IInv, PageInv, Next,
           \/ \E t \in Tasks : Receive(t) /\ task[t].op # "readdir"
           \/ \E f \in Fids : BackgroundWrite(f)
           \/ \E w \in late : LateWrite(w)
           \/ Local
    PROVE  Aside
<1>0. TypeInv /\ UseInv /\ TaskInv
  BY DEF IInv, TypeInv
<1>1. list' = list \/ \E C : Noticed(C)
  BY DEF Receive, BackgroundWrite, LateWrite, Local, LocalRemove, LocalCreate, LocalRename,
         MakeAt, DropAt, RenameAt
<1>2. path' = path /\ told' = told
  BY DEF Receive, BackgroundWrite, LateWrite, Local
<1>3. stale \subseteq stale'
  <2>1. stale' = stale \/ \E C : Noticed(C)
    BY DEF Receive, BackgroundWrite, LateWrite, Local, LocalRemove, LocalCreate, LocalRename,
           MakeAt, DropAt, RenameAt, treevars
  <2>2. QED
    BY <2>1 DEF Noticed
<1>4. \A u \in Tasks : task'[u] = task[u] \/ task'[u].pc = "free"
  <2>1. task' = task \/ \E t \in Tasks : Goes(t, Free)
    BY DEF Receive, BackgroundWrite, LateWrite, Local
  <2>2. Free.pc = "free"
    BY DEF Free
  <2>3. QED
    BY <1>0, <2>1, <2>2 DEF Goes, TaskInv
<1>5. ASSUME NEW u \in Tasks, (Busy(u) /\ task[u].op \in {"lopen", "lcreate"})'
      PROVE  task'[u].fid # list.fid
  BY <1>4, <1>5 DEF PageInv, Busy
<1>6. QED
  BY <1>0, <1>1, <1>2, <1>3, <1>4, <1>5, ListNoticed DEF Aside, Listing, Busy

(* What else the client sends leaves it alone too: it does not open a      *)
(* directory that it lists.                                                *)
LEMMA SendAside ==
    ASSUME IInv, PageInv, Next, NEW t \in Tasks, LowestFree(t),
           NEW op \in load.ops \ {"readdir"}, NEW a \in Requests[op], Send(t, op, a),
           load.reqs > 0
    PROVE  Aside
<1>0. TypeInv /\ UseInv /\ TaskInv
  BY DEF IInv, TypeInv
<1>1. SendStep(t)
  BY DEF SendStep
<1>2. /\ Goes(t, task'[t]) /\ stale' = stale \ {t}
      /\ UNCHANGED <<dir, kind, path, told>> /\ list' = list
  BY <1>0, <1>1, Sent DEF Send
<1>3. task'[t].op = op /\ task'[t].fid = a.fid
  BY <1>0 DEF Send, Goes, TaskInv, Free
<1>4. op \in {"lopen", "lcreate"} => a.fid # list.fid
  BY DEF Send, MaySend
<1>5. \A u \in Tasks \ {t} : task'[u] = task[u]
  BY <1>0, <1>2 DEF Goes, TaskInv
<1>6. \A u \in Tasks : Listing(u)' => task'[u] = task[u]
  BY <1>3, <1>5 DEF Listing
<1>7. ASSUME NEW u \in Tasks, (Busy(u) /\ task[u].op \in {"lopen", "lcreate"})'
      PROVE  task'[u].fid # list.fid
  BY <1>3, <1>4, <1>5, <1>7 DEF PageInv, Busy
<1>8. list.fid # NoFid => list.fid # t
  BY <1>0, FidAssumption DEF TypeInv, ListInv
<1>9. QED
  BY <1>0, <1>2, <1>6, <1>7, <1>8, ListNoticed DEF Aside

(* The listing is given up. *)
LEMMA GivenUp ==
    ASSUME IInv, TypeInv', list' = NoList, \A u \in Tasks : ~Listing(u)'
    PROVE  PageInv' /\ PlaceInv'
<1>1. list'.st = "none" /\ list'.fid = NoFid
  BY DEF NoList
<1>2. ASSUME NEW u \in Tasks, (Busy(u) /\ task[u].op \in {"lopen", "lcreate"})'
      PROVE  task'[u].fid # NoFid
  <2>1. Request(task[u])'
    BY <1>2 DEF TypeInv, TaskInv, TaskOK, Busy, Free
  <2>2. task'[u].fid \in Fids
    BY <1>2, <2>1 DEF Request
  <2>3. QED
    BY <2>2, FidAssumption
<1>3. QED
  BY <1>1, <1>2 DEF PageInv, PlaceInv

(* rclunk, of the listed fid or of another. *)
LEMMA ClunkList ==
    ASSUME IInv, PageInv, PlaceInv, Next, TypeInv', NEW t \in Tasks, Clunk(t)
    PROVE  PageInv' /\ PlaceInv'
<1> DEFINE f == task[t].fid
<1>0. TypeInv /\ UseInv /\ TaskInv /\ AloneInv
  BY DEF IInv, TypeInv, UseInv
<1>1. TaskStep(t)
  BY DEF TaskStep, IoStep
<1>2. /\ Runs(t) /\ Busy(t) /\ Goes(t, task'[t]) /\ Keeps(task[t], task'[t])
      /\ task[t].op = "clunk" /\ Request(task[t])
  BY <1>0, <1>1, Stepped DEF Runs, Busy, Clunk, At
<1>3. \A u \in Tasks \ {t} : task'[u] = task[u]
  BY <1>0, <1>2 DEF Goes, TaskInv
<1>4. /\ path' = [path EXCEPT ![f] = NoPath] /\ told' = [told EXCEPT ![f] = NoIno]
      /\ list' = (IF list.fid = f THEN NoList ELSE list) /\ stale' = stale \ {f}
  BY DEF Clunk
<1>5. ASSUME NEW u \in Tasks, Listing(u)' PROVE Listing(u) /\ u # t /\ task'[u] = task[u]
  BY <1>2, <1>3, <1>5 DEF Listing, Keeps, Busy
<1>6. CASE list.fid = f
  <2>1. ASSUME NEW u \in Tasks, Listing(u)' PROVE FALSE
    <3>1. task[u].fid = f
      BY <1>5, <1>6, <2>1 DEF PageInv
    <3>2. QED
      BY <1>0, <1>2, <1>5, <2>1, <3>1 DEF AloneInv, Alone, Listing
  <2>2. QED
    BY <1>4, <1>6, <2>1, GivenUp
<1>7. CASE list.fid # f
  <2>1. list.fid # NoFid => list.fid \in Fids
    BY <1>0 DEF TypeInv, ListInv
  <2>2. list.fid # NoFid => path'[list.fid] = path[list.fid] /\ told'[list.fid] = told[list.fid]
    BY <1>0, <1>4, <1>7, <2>1 DEF TypeInv, FidInv
  <2>3. \A u \in Tasks : (Busy(u) /\ task[u].op \in {"lopen", "lcreate"})' => task'[u].fid # list.fid
    BY <1>2, <1>3 DEF PageInv, Busy, Keeps
  <2>4. Aside
    BY <1>0, <1>4, <1>5, <1>7, <2>2, <2>3, ListNoticed DEF Aside
  <2>5. QED
    BY <2>4, AsideKept
<1>8. QED
  BY <1>6, <1>7

(* What is expected: the dots, and names of the directory behind them. *)
LEMMA ExpectedAre ==
    ASSUME TypeInv, PageInv, list.fid # NoFid, NEW x \in Expected
    PROVE  \/ x[1] = "." /\ x[2] = 1
           \/ x[1] = ".." /\ x[2] = 2
           \/ /\ x[1] \in Names /\ x[1] # "." /\ x[1] # ".."
              /\ \E k \in 1..Len(dir[told[list.fid]]) :
                    x[2] = k + 2 /\ dir[told[list.fid]][k].name = x[1]
<1>1. CASE x = <<".", 1>> \/ x = <<"..", 2>>
  BY <1>1
<1>2. ASSUME NEW e \in list.kept, x = <<e[1], e[2] + 2>>
      PROVE  /\ x[1] \in Names /\ x[1] # "." /\ x[1] # ".."
             /\ \E k \in 1..Len(dir[told[list.fid]]) :
                    x[2] = k + 2 /\ dir[told[list.fid]][k].name = x[1]
  <2> DEFINE es == dir[told[list.fid]]
  <2>1. e[2] \in 1..Len(es) /\ es[e[2]].name = e[1]
    BY <1>2 DEF PageInv, KeptInv
  <2>2. es \in Seq(EntryRec)
    BY DEF TypeInv, FidInv, ListInv, TreeInv
  <2> HIDE DEF es
  <2>3. es[e[2]] \in EntryRec
    BY <2>1, <2>2
  <2>4. e[1] \in Names
    BY <2>1, <2>3 DEF EntryRec
  <2>5. x[1] = e[1] /\ x[2] = e[2] + 2
    BY <1>2
  <2>6. x[1] # "." /\ x[1] # ".."
    BY <2>4, <2>5, NameAssumption
  <2>7. QED
    BY <2>1, <2>4, <2>5, <2>6 DEF es
<1>3. QED
  BY <1>1, <1>2 DEF Expected

(* The names of entries. *)
LEMMA NamesAre ==
    ASSUME NEW es \in Seq(EntryRec)
    PROVE  Len(NamesOf(es)) = Len(es) /\ \A i \in 1..Len(es) : NamesOf(es)[i] = es[i].name
BY DEF NamesOf

(* What is left of a sequence after its first k elements. *)
LEMMA RestIs ==
    ASSUME NEW S, NEW s \in Seq(S), NEW k \in Nat, NEW es, es = SubSeq(s, k + 1, Len(s))
    PROVE  /\ es \in Seq(S) /\ Len(es) = IF k < Len(s) THEN Len(s) - k ELSE 0
           /\ \A i \in 1..Len(es) : k + i \in 1..Len(s) /\ es[i] = s[k + i] /\ es[i] \in S
<1>1. PICK m \in Int, n \in Int : m = k + 1 /\ n = Len(s)
  OBVIOUS
<1>2. \A i \in m..n : s[i] \in S
  BY <1>1
<1>3. /\ SubSeq(s, m, n) \in Seq(S) /\ Len(SubSeq(s, m, n)) = (IF m <= n THEN n - m + 1 ELSE 0)
      /\ \A i \in 1..(n - m + 1) : SubSeq(s, m, n)[i] = s[m + i - 1]
  BY <1>2, SubSeqProperties
<1>4. es = SubSeq(s, m, n)
  BY <1>1
<1>5. es \in Seq(S) /\ Len(es) = IF k < n THEN n - k ELSE 0
  BY <1>1, <1>3, <1>4
<1>6. ASSUME NEW i \in 1..Len(es) PROVE k + i \in 1..Len(s) /\ es[i] = s[k + i] /\ es[i] \in S
  <2>1. i \in 1..(n - m + 1) /\ m + i - 1 = k + i /\ k + i \in m..n /\ k + i \in 1..n
    BY <1>1, <1>5
  <2>2. es[i] = s[m + i - 1]
    BY <1>3, <1>4, <2>1
  <2>3. QED
    BY <1>1, <1>2, <2>1, <2>2
<1>7. QED
  BY <1>1, <1>5, <1>6

(* The first page begins with the dots, and goes on where the last ended.  *)
LEMMA PageDots ==
    ASSUME PageInv, list.fid # NoFid,
           NEW ns, ns = IF list.off = 0 THEN <<".", "..">> ELSE << >>
    PROVE  /\ ns \in Seq(Shown) /\ Skip(list.off) \in Nat
           /\ Len(list.got) \in Nat /\ Len(list.got) + Len(ns) = Skip(list.off) + 2
           /\ list.off = 0 => Len(list.got) = 0 /\ Len(ns) = 2 /\ ns[1] = "." /\ ns[2] = ".."
           /\ list.off # 0 => Len(ns) = 0
<1>1. list.off \in Nat /\ list.got \in Seq(Shown)
  BY DEF PageInv
<1>2. Len(list.got) \in Nat
  BY <1>1
<1>3. CASE list.off = 0
  <2>1. list.got = << >>
    BY <1>3 DEF PageInv
  <2>2. "." \in Shown /\ ".." \in Shown
    BY DEF Shown
  <2>3. ns = <<".", "..">>
    BY <1>3
  <2>4. ns \in Seq(Shown) /\ Len(ns) = 2 /\ ns[1] = "." /\ ns[2] = ".."
    BY <2>2, <2>3
  <2>5. Skip(list.off) = 0
    BY <1>3 DEF Skip
  <2>6. Len(list.got) = 0
    BY <2>1
  <2>7. QED
    BY <1>3, <2>4, <2>5, <2>6
<1>4. CASE list.off # 0
  <2>1. Len(list.got) = list.off + 1
    BY <1>4 DEF PageInv
  <2>2. ns = << >>
    BY <1>4
  <2>3. ns \in Seq(Shown) /\ Len(ns) = 0
    BY <2>2
  <2>4. Skip(list.off) = list.off - 1
    BY <1>4 DEF Skip
  <2>5. QED
    BY <1>1, <1>2, <1>4, <2>1, <2>3, <2>4
<1>5. QED
  BY <1>3, <1>4

(* A page begins: the dots, if it is the first, and the entries of the     *)
(* directory from the offset on are at their places.                       *)
LEMMA PageStart ==
    ASSUME TypeInv, PageInv, list.fid # NoFid,
           NEW ns, NEW es,
           ns = IF list.off = 0 THEN <<".", "..">> ELSE << >>,
           es = SubSeq(dir[told[list.fid]], Skip(list.off) + 1, Len(dir[told[list.fid]]))
    PROVE  /\ InPlace(ns, Len(list.got)) /\ InPlace(NamesOf(es), Len(list.got) + Len(ns))
           /\ Complete(Len(list.got) + Len(ns) + Len(es))
<1>1. PICK D : D = dir[told[list.fid]]
  OBVIOUS
<1>2. D \in Seq(EntryRec) /\ Distinct(D)
  BY <1>1 DEF TypeInv, FidInv, ListInv, TreeInv, DistinctNames
<1>3. PICK k : k = Skip(list.off)
  OBVIOUS
<1>4. PICK b : b = Len(list.got) + Len(ns)
  OBVIOUS
<1>12. k \in Nat /\ b \in Nat /\ b = k + 2
  <2>1. k \in Nat
    BY <1>3, PageDots
  <2>2. b = k + 2
    BY <1>3, <1>4, PageDots
  <2>3. QED
    BY <2>1, <2>2
<1>5. /\ es \in Seq(EntryRec) /\ Len(es) = IF k < Len(D) THEN Len(D) - k ELSE 0
      /\ \A i \in 1..Len(es) : k + i \in 1..Len(D) /\ es[i] = D[k + i] /\ es[i] \in EntryRec
  <2>1. es = SubSeq(D, k + 1, Len(D))
    BY <1>1, <1>3
  <2>2. QED
    BY <1>2, <1>12, <2>1, RestIs
<1>6. Len(D) \in Nat /\ Len(es) \in Nat
  BY <1>2, <1>5
<1>7. \A x \in Expected :
         \/ x[1] = "." /\ x[2] = 1
         \/ x[1] = ".." /\ x[2] = 2
         \/ x[1] # "." /\ x[1] # ".." /\ \E j \in 1..Len(D) : x[2] = j + 2 /\ D[j].name = x[1]
  BY <1>1, ExpectedAre
<1>8. InPlace(ns, Len(list.got))
  <2> SUFFICES ASSUME NEW x \in Expected, NEW i \in 1..Len(ns)
               PROVE  ns[i] = x[1] <=> Len(list.got) + i = x[2]
    BY DEF InPlace
  <2>1. CASE list.off # 0
    BY <2>1, PageDots
  <2>2. CASE list.off = 0
    <3>1. Len(list.got) = 0 /\ ns[1] = "." /\ ns[2] = ".." /\ i \in 1..2
      BY <2>2, PageDots
    <3>2. (i = 1 /\ ns[i] = ".") \/ (i = 2 /\ ns[i] = "..")
      BY <3>1
    <3>3. CASE (x[1] = "." /\ x[2] = 1) \/ (x[1] = ".." /\ x[2] = 2)
      BY <3>1, <3>2, <3>3
    <3>4. CASE x[1] # "." /\ x[1] # ".." /\ \E j \in 1..Len(D) : x[2] = j + 2
      BY <1>6, <3>1, <3>2, <3>4
    <3>5. QED
      BY <1>7, <3>3, <3>4
  <2>3. QED
    BY <2>1, <2>2
<1>9. InPlace(NamesOf(es), b)
  <2> SUFFICES ASSUME NEW x \in Expected, NEW i \in 1..Len(NamesOf(es))
               PROVE  NamesOf(es)[i] = x[1] <=> b + i = x[2]
    BY DEF InPlace
  <2>1. i \in 1..Len(es) /\ NamesOf(es)[i] = es[i].name
    BY <1>5, NamesAre
  <2>2. k + i \in 1..Len(D) /\ es[i] = D[k + i] /\ es[i] \in EntryRec
    BY <1>5, <2>1
  <2>3. es[i].name \in Names
    BY <2>2 DEF EntryRec
  <2>4. es[i].name # "." /\ es[i].name # ".."
    BY <2>3, NameAssumption
  <2>5. i \in Nat /\ i >= 1
    BY <1>6, <2>1
  <2>6. CASE (x[1] = "." /\ x[2] = 1) \/ (x[1] = ".." /\ x[2] = 2)
    <3>1. b + i # 1 /\ b + i # 2
      BY <1>12, <2>5
    <3>2. QED
      BY <2>1, <2>4, <2>6, <3>1
  <2>7. ASSUME NEW j \in 1..Len(D), x[2] = j + 2, D[j].name = x[1]
        PROVE  NamesOf(es)[i] = x[1] <=> b + i = x[2]
    <3>1. D[k + i].name = D[j].name <=> k + i = j
      BY <1>2, <2>2 DEF Distinct
    <3>2. j \in Nat
      BY <1>6
    <3>3. b + i = j + 2 <=> k + i = j
      BY <1>12, <2>5, <3>2
    <3>4. QED
      BY <2>1, <2>2, <2>7, <3>1, <3>3
  <2>8. QED
    BY <1>7, <2>6, <2>7
<1>10. Complete(b + Len(es))
  <2> DEFINE l == Len(es)
             d == Len(D)
  <2>1. l \in Nat /\ d \in Nat /\ l = IF k < d THEN d - k ELSE 0
    BY <1>5, <1>6
  <2>2. \A x \in Expected : x[2] = 1 \/ x[2] = 2 \/ \E j \in 1..d : x[2] = j + 2
    BY <1>7
  <2> HIDE DEF l, d
  <2>3. b + l >= 2 /\ b + l >= d + 2
    BY <1>12, <2>1
  <2>4. \A x \in Expected : x[2] <= b + l
    BY <1>12, <2>1, <2>2, <2>3
  <2>5. QED
    BY <2>4 DEF Complete, l
<1>11. QED
  BY <1>4, <1>8, <1>9, <1>10

(* The next entry is put on the page. *)
LEMMA PageStep ==
    ASSUME NEW ns \in Seq(Shown), NEW es \in Seq(EntryRec), es # << >>, NEW g \in Nat,
           InPlace(ns, g), InPlace(NamesOf(es), g + Len(ns)), Complete(g + Len(ns) + Len(es))
    PROVE  LET ms == Append(ns, Head(es).name)
               fs == Tail(es)
           IN /\ ms \in Seq(Shown) /\ Len(ms) = Len(ns) + 1 /\ fs \in Seq(EntryRec)
              /\ InPlace(ms, g) /\ InPlace(NamesOf(fs), g + Len(ms))
              /\ Complete(g + Len(ms) + Len(fs))
<1> DEFINE n == Head(es).name
           ms == Append(ns, n)
           fs == Tail(es)
<1>1. /\ Head(es) \in EntryRec /\ Head(es) = es[1] /\ fs \in Seq(EntryRec) /\ Len(fs) = Len(es) - 1
      /\ \A i \in 1..Len(fs) : fs[i] = es[i + 1]
  BY HeadTailProperties
<1>2. n \in Shown
  BY <1>1 DEF EntryRec, Shown
<1>3. /\ ms \in Seq(Shown) /\ Len(ms) = Len(ns) + 1 /\ ms[Len(ns) + 1] = n
      /\ \A i \in 1..Len(ns) : ms[i] = ns[i]
  BY <1>2, AppendProperties
<1>4. Len(ns) \in Nat /\ Len(es) \in Nat \ {0} /\ Len(fs) \in Nat
  BY <1>1, EmptySeq
<1>5. /\ Len(NamesOf(es)) = Len(es) /\ \A i \in 1..Len(es) : NamesOf(es)[i] = es[i].name
      /\ Len(NamesOf(fs)) = Len(fs) /\ \A i \in 1..Len(fs) : NamesOf(fs)[i] = fs[i].name
  BY <1>4 DEF NamesOf
<1> HIDE DEF ms, fs
<1>6. InPlace(ms, g)
  <2> SUFFICES ASSUME NEW x \in Expected, NEW i \in 1..Len(ms)
               PROVE  ms[i] = x[1] <=> g + i = x[2]
    BY DEF InPlace
  <2>1. CASE i \in 1..Len(ns)
    BY <1>3, <2>1 DEF InPlace
  <2>2. CASE i = Len(ns) + 1
    <3>1. 1 \in 1..Len(NamesOf(es)) /\ NamesOf(es)[1] = n
      BY <1>1, <1>4, <1>5
    <3>2. NamesOf(es)[1] = x[1] <=> g + Len(ns) + 1 = x[2]
      BY <3>1 DEF InPlace
    <3>3. g + i = g + Len(ns) + 1
      BY <1>4, <2>2
    <3>4. QED
      BY <1>3, <2>2, <3>1, <3>2, <3>3
  <2>3. QED
    BY <1>3, <1>4, <2>1, <2>2
<1>7. InPlace(NamesOf(fs), g + Len(ms))
  <2> SUFFICES ASSUME NEW x \in Expected, NEW i \in 1..Len(NamesOf(fs))
               PROVE  NamesOf(fs)[i] = x[1] <=> g + Len(ms) + i = x[2]
    BY DEF InPlace
  <2>1. i \in 1..Len(fs) /\ i + 1 \in 1..Len(NamesOf(es)) /\ i + 1 \in 1..Len(es)
    BY <1>1, <1>4, <1>5
  <2>2. NamesOf(fs)[i] = NamesOf(es)[i + 1]
    BY <1>1, <1>5, <2>1
  <2>3. NamesOf(es)[i + 1] = x[1] <=> g + Len(ns) + (i + 1) = x[2]
    BY <2>1 DEF InPlace
  <2>4. g + Len(ns) + (i + 1) = g + Len(ms) + i
    BY <1>3, <1>4, <2>1
  <2>5. QED
    BY <2>2, <2>3, <2>4
<1>8. g + Len(ms) + Len(fs) = g + Len(ns) + Len(es)
  BY <1>1, <1>3, <1>4
<1>9. QED
  BY <1>1, <1>3, <1>6, <1>7, <1>8 DEF ms, fs

(* A page is put behind those before. *)
LEMMA PageAdded ==
    ASSUME NEW gs \in Seq(Shown), NEW ns \in Seq(Shown),
           InPlace(gs, 0), InPlace(ns, Len(gs))
    PROVE  InPlace(gs \o ns, 0)
<1> SUFFICES ASSUME NEW x \in Expected, NEW i \in 1..Len(gs \o ns)
             PROVE  (gs \o ns)[i] = x[1] <=> 0 + i = x[2]
  BY DEF InPlace
<1>1. /\ Len(gs \o ns) = Len(gs) + Len(ns) /\ Len(gs) \in Nat /\ Len(ns) \in Nat
      /\ \A j \in 1..(Len(gs) + Len(ns)) :
            (gs \o ns)[j] = IF j <= Len(gs) THEN gs[j] ELSE ns[j - Len(gs)]
  BY ConcatProperties
<1>2. CASE i <= Len(gs)
  <2>1. i \in 1..Len(gs) /\ (gs \o ns)[i] = gs[i]
    BY <1>1, <1>2
  <2>2. QED
    BY <2>1 DEF InPlace
<1>3. CASE ~(i <= Len(gs))
  <2>1. i - Len(gs) \in 1..Len(ns) /\ (gs \o ns)[i] = ns[i - Len(gs)]
    BY <1>1, <1>3
  <2>2. ns[i - Len(gs)] = x[1] <=> Len(gs) + (i - Len(gs)) = x[2]
    BY <2>1 DEF InPlace
  <2>3. Len(gs) + (i - Len(gs)) = 0 + i
    BY <1>1
  <2>4. QED
    BY <2>1, <2>2, <2>3
<1>4. QED
  BY <1>2, <1>3

(* A listing begins. *)
LEMMA ListBegins ==
    ASSUME IInv, PageInv, TypeInv', NEW t \in Tasks, LowestFree(t), load.reqs > 0,
           "readdir" \in load.ops, NEW a \in Requests["readdir"], Send(t, "readdir", a)
    PROVE  PageInv' /\ PlaceInv'
<1> DEFINE f == a.fid
           es == dir[told[f]]
           ks == {<<es[k].name, k>> : k \in DOMAIN es}
           l == [NoList EXCEPT !.st = "on", !.fid = f, !.kept = ks]
           r == [Free EXCEPT !.op = "readdir", !.pc = "ready", !.fid = f, !.new = a.new,
                             !.names = a.names, !.want = a.want, !.off = a.off,
                             !.path = PathOf("readdir", a), !.before = Before("readdir", a)]
<1>0. TypeInv /\ TaskInv
  BY DEF IInv, TypeInv
<1>1. SendStep(t)
  BY DEF SendStep
<1>2. dir' = dir /\ path' = path /\ told' = told
  BY <1>0, <1>1, Sent
<1>3. f \in Fids /\ a.names = << >> /\ a.off = 0 /\ f # NoFid
  BY FidAssumption DEF Requests, Args, Ops
<1>4. MaySend("readdir", a) /\ list' = l
  BY DEF Send
<1>5. list.st # "on" /\ Shared(f) /\ told[f] # NoIno
  BY <1>3, <1>4 DEF MaySend
<1>6. Goes(t, r)
  BY DEF Send
<1>7. task'[t] = r /\ \A u \in Tasks \ {t} : task'[u] = task[u]
  BY <1>0, <1>6 DEF TaskInv, Goes
<1>8. r.op = "readdir" /\ r.pc = "ready" /\ r.fid = f /\ r.names = << >> /\ r.off = 0 /\ r.path = path[f]
  BY <1>3 DEF Free, PathOf
<1>9. es \in Seq(EntryRec)
  BY <1>0, <1>3, <1>5 DEF TypeInv, TreeInv, FidInv
<1>10. \A e \in ks : e[2] \in 1..Len(es) /\ es[e[2]].name = e[1]
  BY <1>9
<1>11. ASSUME NEW u \in Tasks, Listing(u)' PROVE u = t
  BY <1>5, <1>7, <1>11 DEF PageInv, Listing, Busy
<1> HIDE DEF r, es, ks
<1>12. l.st = "on" /\ l.fid = f /\ l.off = 0 /\ l.got = << >> /\ l.kept = ks
  BY DEF NoList
<1> HIDE DEF l
<1>13. ASSUME NEW u \in Tasks, (Busy(u) /\ task[u].op \in {"lopen", "lcreate"})'
       PROVE  task'[u].fid # f
  BY <1>5, <1>7, <1>8, <1>13 DEF Busy, Shared, Uses, Alone
<1>14. KeptInv'
  BY <1>2, <1>4, <1>10, <1>12 DEF KeptInv, es
<1>15. << >> \in Seq(Shown)
  OBVIOUS
<1>16. PageInv'
  <2>1. ASSUME NEW u \in Tasks, Listing(u)'
        PROVE  /\ list'.st = "on" /\ task'[u].fid = list'.fid /\ task'[u].off = list'.off
               /\ task'[u].path = path'[list'.fid]
               /\ \A v \in Tasks : Listing(v)' => v = u
               /\ task'[u].names \in Seq(Shown)
               /\ task'[u].pc = "ready" => task'[u].names = << >>
               /\ task'[u].pc = "entry" => task'[u].ents \in Seq(EntryRec)
               /\ list'.off = 0 /\ (task'[u].pc = "entry" \/ (task'[u].pc = "done" /\ task'[u].res = "ok")) =>
                     Len(task'[u].names) >= 2
    <3>1. task'[u] = r
      BY <1>7, <1>11, <2>1
    <3>2. \A v \in Tasks : Listing(v)' => v = u
      BY <1>11, <2>1
    <3>3. QED
      BY <1>2, <1>4, <1>8, <1>12, <1>15, <3>1, <3>2
  <2>2. list'.st \in {"none", "on", "ended"} /\ (list'.st = "none" <=> list'.fid = NoFid)
    BY <1>3, <1>4, <1>12
  <2>3. list'.got \in Seq(Shown) /\ list'.off \in Nat /\ list'.got = << >> /\ list'.st = "on" /\ list'.off = 0
    BY <1>4, <1>12, <1>15
  <2>4. QED
    BY <1>4, <1>12, <1>13, <1>14, <2>1, <2>2, <2>3 DEF PageInv
<1>17. PlaceInv'
  <2>1. InPlace(list.got, 0)'
    BY <1>4, <1>12 DEF InPlace
  <2>2. ASSUME NEW u \in Tasks, Listing(u)' PROVE PlaceOf(task[u])'
    <3>1. task'[u] = r
      BY <1>7, <1>11, <2>2
    <3>2. InPlace(task[u].names, Len(list.got))'
      BY <1>8, <3>1 DEF InPlace
    <3>3. QED
      BY <1>8, <3>1, <3>2 DEF PlaceOf
  <2>3. QED
    BY <1>4, <1>12, <2>1, <2>2 DEF PlaceInv
<1>18. QED
  BY <1>16, <1>17

(* A listing goes on. *)
LEMMA ListGoesOn ==
    ASSUME IInv, PageInv, PlaceInv, TypeInv', NEW t \in Tasks, LowestFree(t), SendNext(t)
    PROVE  PageInv' /\ PlaceInv'
<1> DEFINE r == [Free EXCEPT !.op = "readdir", !.pc = "ready", !.fid = list.fid,
                             !.path = path[list.fid], !.off = list.off]
<1>0. TypeInv /\ TaskInv
  BY DEF IInv, TypeInv
<1>1. SendStep(t)
  BY DEF SendStep
<1>2. dir' = dir /\ path' = path /\ told' = told /\ list' = list /\ stale' = stale \ {t}
  BY <1>0, <1>1, Sent DEF SendNext
<1>3. list.st = "on" /\ Shared(list.fid) /\ \A u \in Tasks : task[u].op # "readdir"
  BY DEF SendNext
<1>4. list.fid \in Fids /\ list.fid # NoFid /\ list.fid # t
  BY <1>0, <1>3, FidAssumption DEF TypeInv, ListInv
<1>5. task'[t] = r /\ \A u \in Tasks \ {t} : task'[u] = task[u]
  BY <1>0 DEF TaskInv, Goes, SendNext
<1>6. /\ r.op = "readdir" /\ r.pc = "ready" /\ r.fid = list.fid /\ r.names = << >>
      /\ r.off = list.off /\ r.path = path[list.fid]
  BY DEF Free
<1> HIDE DEF r
<1>7. ASSUME NEW u \in Tasks, Listing(u)' PROVE u = t
  BY <1>3, <1>5, <1>7 DEF Listing
<1>8. ASSUME NEW u \in Tasks, (Busy(u) /\ task[u].op \in {"lopen", "lcreate"})'
      PROVE  task'[u].fid # list.fid
  BY <1>5, <1>6, <1>8 DEF Busy, PageInv
<1>9. KeptInv'
  BY <1>2, <1>4 DEF KeptInv, PageInv
<1>10. << >> \in Seq(Shown)
  OBVIOUS
<1>11. PageInv'
  <2>1. ASSUME NEW u \in Tasks, Listing(u)'
        PROVE  /\ list'.st = "on" /\ task'[u].fid = list'.fid /\ task'[u].off = list'.off
               /\ task'[u].path = path'[list'.fid]
               /\ \A v \in Tasks : Listing(v)' => v = u
               /\ task'[u].names \in Seq(Shown)
               /\ task'[u].pc = "ready" => task'[u].names = << >>
               /\ task'[u].pc = "entry" => task'[u].ents \in Seq(EntryRec)
               /\ list'.off = 0 /\ (task'[u].pc = "entry" \/ (task'[u].pc = "done" /\ task'[u].res = "ok")) =>
                     Len(task'[u].names) >= 2
    <3>1. task'[u] = r
      BY <1>5, <1>7, <2>1
    <3>2. \A v \in Tasks : Listing(v)' => v = u
      BY <1>7, <2>1
    <3>3. QED
      BY <1>2, <1>3, <1>6, <1>10, <3>1, <3>2
  <2>2. QED
    BY <1>2, <1>8, <1>9, <2>1 DEF PageInv
<1>12. PlaceInv'
  <2> SUFFICES ASSUME list.fid \notin stale
               PROVE  /\ InPlace(list.got, 0)' /\ list.st # "ended"
                      /\ \A u \in Tasks : Listing(u)' => PlaceOf(task[u])'
    BY <1>2, <1>4 DEF PlaceInv
  <2>1. InPlace(list.got, 0)'
    BY <1>2, <1>4 DEF PlaceInv, InPlace, Expected
  <2>2. ASSUME NEW u \in Tasks, Listing(u)' PROVE PlaceOf(task[u])'
    <3>1. task'[u] = r
      BY <1>5, <1>7, <2>2
    <3>2. InPlace(task[u].names, Len(list.got))'
      BY <1>6, <3>1 DEF InPlace
    <3>3. QED
      BY <1>6, <3>1, <3>2 DEF PlaceOf
  <2>3. QED
    BY <1>3, <2>1, <2>2
<1>13. QED
  BY <1>11, <1>12

(* The answer to a request of the listing. *)
LEMMA ListAnswer ==
    ASSUME IInv, PageInv, PlaceInv, TypeInv', NEW t \in Tasks, Receive(t), task[t].op = "readdir"
    PROVE  PageInv' /\ PlaceInv'
<1> DEFINE ns == task[t].names
           gs == list.got
           off == list.off
           new == LastOffset(t)
<1>0. TypeInv /\ TaskInv /\ DOMAIN list = {"st", "fid", "off", "got", "kept"}
  BY DEF IInv, TypeInv, ListInv
<1>1. Listing(t)
  BY DEF Receive, Listing, Busy
<1>2. /\ list.st = "on" /\ list.fid # NoFid /\ task[t].off = off /\ ns \in Seq(Shown)
      /\ gs \in Seq(Shown) /\ off \in Nat
      /\ IF off = 0 THEN gs = << >> ELSE Len(gs) = off + 1
      /\ \A u \in Tasks : Listing(u) => u = t
      /\ off = 0 /\ task[t].res = "ok" => Len(ns) >= 2
  BY <1>1 DEF PageInv, Receive
<1>3. dir' = dir /\ path' = path /\ told' = told /\ stale' = stale
  BY DEF Receive, treevars
<1>4. Goes(t, Free) /\ Free.pc = "free"
  BY DEF Receive, Free
<1>5. task'[t] = Free /\ \A u \in Tasks \ {t} : task'[u] = task[u]
  BY <1>0, <1>4 DEF TaskInv, Goes
<1>6. \A u \in Tasks : ~Listing(u)'
  BY <1>2, <1>4, <1>5 DEF Listing, Busy
<1>7. ASSUME NEW u \in Tasks, (Busy(u) /\ task[u].op \in {"lopen", "lcreate"})'
      PROVE  task'[u].fid # list.fid
  BY <1>4, <1>5, <1>7 DEF Busy, PageInv
<1>8. ASSUME list'.fid = list.fid, list'.kept = list.kept PROVE KeptInv'
  BY <1>2, <1>3, <1>8 DEF KeptInv, PageInv
<1>9. CASE task[t].res # "ok"
  BY <1>6, <1>9, GivenUp DEF Receive
<1>10. CASE task[t].res = "ok" /\ ns = << >>
  <2>1. list' = [list EXCEPT !.st = "ended"]
    BY <1>10 DEF Receive
  <2>2. /\ list'.st = "ended" /\ list'.fid = list.fid /\ list'.off = off /\ list'.got = gs
        /\ list'.kept = list.kept
    BY <1>0, <2>1
  <2>3. off # 0
    BY <1>2, <1>10
  <2>4. PageInv'
    BY <1>2, <1>6, <1>7, <1>8, <2>2, <2>3 DEF PageInv
  <2>5. ASSUME list.fid \notin stale PROVE InPlace(gs, 0) /\ Complete(Len(gs))
    BY <1>1, <1>2, <1>10, <2>5 DEF PlaceInv, PlaceOf, Receive
  <2>6. Expected' = Expected
    BY <2>2 DEF Expected
  <2>7. PlaceInv'
    BY <1>3, <1>6, <2>2, <2>5, <2>6 DEF PlaceInv, InPlace, Complete
  <2>8. QED
    BY <2>4, <2>7
<1>11. CASE task[t].res = "ok" /\ ns # << >>
  <2>1. list' = [list EXCEPT !.got = gs \o ns, !.off = new]
    BY <1>11 DEF Receive
  <2> HIDE DEF new
  <2>2. /\ list'.st = "on" /\ list'.fid = list.fid /\ list'.off = new /\ list'.got = gs \o ns
        /\ list'.kept = list.kept
    BY <1>0, <1>2, <2>1
  <2>3. gs \o ns \in Seq(Shown) /\ Len(gs \o ns) = Len(gs) + Len(ns)
    BY <1>2, ConcatProperties
  <2>4. new \in Nat /\ new # 0 /\ Len(gs) + Len(ns) = new + 1
    <3>1. Len(ns) \in Nat /\ Len(ns) # 0
      BY <1>2, <1>11, EmptySeq
    <3> DEFINE n == Len(ns)
               g == Len(gs)
    <3>2. g = (IF off = 0 THEN 0 ELSE off + 1)
      BY <1>2
    <3>3. new = IF off = 0 THEN n - 1 ELSE 1 + (off - 1) + n
      BY <1>2 DEF new, LastOffset, Skip
    <3>4. off = 0 => n >= 2
      BY <1>2, <1>11
    <3> HIDE DEF n, g
    <3>5. n \in Nat /\ n # 0
      BY <3>1 DEF n
    <3>6. off \in Nat
      BY <1>2
    <3> HIDE DEF off
    <3>7. new \in Nat /\ new # 0 /\ g + n = new + 1
      BY <3>2, <3>3, <3>4, <3>5, <3>6
    <3>8. QED
      BY <3>7 DEF n, g
  <2>5. PageInv'
    BY <1>2, <1>6, <1>7, <1>8, <2>2, <2>3, <2>4 DEF PageInv
  <2>6. ASSUME list.fid \notin stale PROVE InPlace(gs \o ns, 0)
    <3>1. InPlace(gs, 0) /\ InPlace(ns, Len(gs))
      BY <1>1, <1>2, <2>6 DEF PlaceInv, PlaceOf
    <3>2. QED
      BY <1>2, <3>1, PageAdded
  <2>7. Expected' = Expected
    BY <2>2 DEF Expected
  <2>8. InPlace(gs \o ns, 0) => InPlace(list.got, 0)'
    <3>1. PICK s : s = gs \o ns
      OBVIOUS
    <3>2. list'.got = s
      BY <2>2, <3>1
    <3>3. InPlace(s, 0) => InPlace(list.got, 0)'
      BY <2>7, <3>2 DEF InPlace
    <3>4. QED
      BY <3>1, <3>3
  <2>9. PlaceInv'
    BY <1>3, <1>6, <2>2, <2>6, <2>8 DEF PlaceInv
  <2>10. QED
    BY <2>5, <2>9
<1>12. QED
  BY <1>9, <1>10, <1>11

(* A step of a request of the listing changes only the request. *)
LEMMA Paged ==
    ASSUME IInv, PageInv, PlaceInv, NEW t \in Tasks, Listing(t), NEW r, Goes(t, r), Still,
           r.op = "readdir", r.fid = task[t].fid, r.off = task[t].off, r.path = task[t].path,
           r.pc \in {"entry", "done"}, r.names \in Seq(Shown),
           r.pc = "entry" => r.ents \in Seq(EntryRec),
           list.off = 0 /\ (r.pc = "entry" \/ r.res = "ok") => Len(r.names) >= 2,
           list.fid \notin stale => PlaceOf(r)
    PROVE  PageInv' /\ PlaceInv'
<1>0. TaskInv
  BY DEF IInv, TypeInv
<1>1. dir' = dir /\ path' = path /\ told' = told /\ list' = list /\ stale' = stale
  BY DEF Still, treevars
<1>2. task'[t] = r /\ \A u \in Tasks \ {t} : task'[u] = task[u]
  BY <1>0 DEF TaskInv, Goes
<1>3. ASSUME NEW u \in Tasks, Listing(u)' PROVE u = t
  BY <1>2, <1>3 DEF PageInv, Listing, Busy
<1>4. ASSUME NEW u \in Tasks, (Busy(u) /\ task[u].op \in {"lopen", "lcreate"})'
      PROVE  task'[u].fid # list.fid
  BY <1>2, <1>4 DEF Busy, PageInv
<1>5. KeptInv' <=> KeptInv
  BY <1>1 DEF KeptInv
<1>6. ASSUME NEW u \in Tasks, Listing(u)'
      PROVE  /\ list'.st = "on" /\ task'[u].fid = list'.fid /\ task'[u].off = list'.off
             /\ task'[u].path = path'[list'.fid]
             /\ \A v \in Tasks : Listing(v)' => v = u
             /\ task'[u].names \in Seq(Shown)
             /\ task'[u].pc = "ready" => task'[u].names = << >>
             /\ task'[u].pc = "entry" => task'[u].ents \in Seq(EntryRec)
             /\ list'.off = 0 /\ (task'[u].pc = "entry" \/ (task'[u].pc = "done" /\ task'[u].res = "ok")) =>
                   Len(task'[u].names) >= 2
  <2>1. task'[u] = r
    BY <1>2, <1>3, <1>6
  <2>2. \A v \in Tasks : Listing(v)' => v = u
    BY <1>3, <1>6
  <2>3. /\ list.st = "on" /\ task[t].fid = list.fid /\ task[t].off = list.off
        /\ task[t].path = path[list.fid]
    BY DEF PageInv
  <2>4. QED
    BY <1>1, <2>1, <2>2, <2>3
<1>7. PageInv'
  BY <1>1, <1>4, <1>5, <1>6 DEF PageInv
<1>8. PlaceInv'
  <2> SUFFICES ASSUME list.fid # NoFid, list.fid \notin stale
               PROVE  /\ InPlace(list.got, 0)' /\ (list.st = "ended" => Complete(Len(list.got))')
                      /\ \A u \in Tasks : Listing(u)' => PlaceOf(task[u])'
    BY <1>1 DEF PlaceInv
  <2>1. Expected' = Expected
    BY <1>1 DEF Expected
  <2>2. InPlace(list.got, 0)' /\ (list.st = "ended" => Complete(Len(list.got))')
    BY <1>1, <2>1 DEF PlaceInv, InPlace, Complete
  <2>3. ASSUME NEW u \in Tasks, Listing(u)' PROVE PlaceOf(task[u])'
    <3>1. task'[u] = r
      BY <1>2, <1>3, <2>3
    <3>2. PlaceOf(r)
      OBVIOUS
    <3>3. PlaceOf(task[u])' <=> PlaceOf(r)
      BY <1>1, <2>1, <3>1 DEF PlaceOf, InPlace, Complete, NamesOf
    <3>4. QED
      BY <3>2, <3>3
  <2>4. QED
    BY <2>2, <2>3
<1>9. QED
  BY <1>7, <1>8

(* A request of the listing reads its page. *)
LEMMA ListReads ==
    ASSUME IInv, PageInv, PlaceInv, NEW t \in Tasks, ListStep(t)
    PROVE  PageInv' /\ PlaceInv'
<1> DEFINE r == task[t]
           ns == r.names
           es == r.ents
           g == Len(list.got)
<1>0. TypeInv /\ TaskInv
  BY DEF IInv, TypeInv
<1>1. r.op = "readdir" /\ r.pc \in {"ready", "entry"} /\ Busy(t) /\ Listing(t)
  BY DEF ListStep, ReaddirOpens, ReaddirEntry, ReaddirEnds, At, Busy, Listing
<1>2. DOMAIN r = Fields
  BY <1>0, <1>1, Placed DEF IsTask
<1>3. /\ list.fid # NoFid /\ r.fid = list.fid /\ r.off = list.off /\ r.path = path[list.fid]
      /\ ns \in Seq(Shown) /\ (r.pc = "ready" => ns = << >>)
      /\ (r.pc = "entry" => es \in Seq(EntryRec))
      /\ (list.off = 0 /\ r.pc = "entry" => Len(ns) >= 2)
      /\ g \in Nat
  BY <1>1 DEF PageInv
<1>4. list.fid \notin stale => PlaceOf(r)
  BY <1>1, <1>3 DEF PlaceInv
<1> HIDE DEF r
<1>5. CASE Error(t)
  <2> DEFINE s == [r EXCEPT !.pc = "done", !.res = "error"]
  <2>1. Goes(t, s) /\ Still
    BY <1>5 DEF Error, Reply, r
  <2>2. /\ s.op = r.op /\ s.fid = r.fid /\ s.off = r.off /\ s.path = r.path /\ s.pc = "done"
        /\ s.names = ns /\ s.res = "error"
    BY <1>2 DEF Fields
  <2> HIDE DEF s
  <2>3. list.fid \notin stale => PlaceOf(s)
    BY <1>4, <2>2 DEF PlaceOf
  <2>4. QED
    BY <1>1, <1>3, <2>1, <2>2, <2>3, Paged DEF r
<1>6. ASSUME Reply(t, "ok"), Still, r.pc = "entry", ns # << >> \/ es = << >>
      PROVE  PageInv' /\ PlaceInv'
  <2> DEFINE s == [r EXCEPT !.pc = "done", !.res = "ok"]
  <2>1. Goes(t, s)
    BY <1>6 DEF Reply, r
  <2>2. /\ s.op = r.op /\ s.fid = r.fid /\ s.off = r.off /\ s.path = r.path /\ s.pc = "done"
        /\ s.names = ns /\ s.res = "ok"
    BY <1>2 DEF Fields
  <2> HIDE DEF s
  <2>3. ASSUME list.fid \notin stale PROVE PlaceOf(s)
    <3>1. InPlace(ns, g) /\ Complete(g + Len(ns) + Len(es))
      BY <1>4, <1>6, <2>3 DEF PlaceOf
    <3>2. ASSUME ns = << >> PROVE Complete(g)
      <4>1. Len(ns) = 0 /\ Len(es) = 0
        BY <1>6, <3>2
      <4>2. g + Len(ns) + Len(es) = g
        BY <1>3, <4>1
      <4>3. QED
        BY <3>1, <4>2
    <3>3. QED
      BY <2>2, <3>1, <3>2 DEF PlaceOf
  <2>4. list.off = 0 => Len(ns) >= 2
    BY <1>3, <1>6
  <2>5. QED
    BY <1>1, <1>3, <1>6, <2>1, <2>2, <2>3, <2>4, Paged DEF r
<1>7. CASE ReaddirEnds(t)
  BY <1>6, <1>7 DEF ReaddirEnds, At, r
<1>8. CASE ReaddirEntry(t)
  <2> DEFINE n == Head(es).name
             ms == Append(ns, n)
             fs == Tail(es)
             s == [r EXCEPT !.names = ms, !.ents = fs]
  <2>1. r.pc = "entry" /\ es # << >>
    BY <1>8 DEF ReaddirEntry, At, r
  <2>2. \/ Error(t)
        \/ Len(ns) + 1 > Count /\ Reply(t, "ok") /\ Still
        \/ Goes(t, s) /\ Still
    BY <1>8 DEF ReaddirEntry, r
  <2>3. CASE Len(ns) + 1 > Count /\ Reply(t, "ok") /\ Still
    <3>1. ns # << >>
      <4> SUFFICES ASSUME ns = << >> PROVE FALSE
        OBVIOUS
      <4>1. Len(ns) = 0
        OBVIOUS
      <4>2. QED
        BY <2>3, <4>1, CountAssumption
    <3>2. QED
      BY <1>6, <2>1, <2>3, <3>1
  <2>4. CASE Goes(t, s) /\ Still
    <3>1. /\ s.op = r.op /\ s.fid = r.fid /\ s.off = r.off /\ s.path = r.path /\ s.pc = "entry"
          /\ s.names = ms /\ s.ents = fs
      BY <1>2, <2>1 DEF Fields
    <3>2. /\ es \in Seq(EntryRec) /\ ns \in Seq(Shown) /\ Len(ns) \in Nat
          /\ (list.off = 0 => Len(ns) >= 2)
      BY <1>3, <2>1
    <3>3. n \in Shown /\ fs \in Seq(EntryRec)
      <4>1. Head(es) \in EntryRec /\ fs \in Seq(EntryRec)
        BY <2>1, <3>2, HeadTailProperties
      <4>2. n \in Names
        BY <4>1 DEF EntryRec
      <4>3. QED
        BY <4>1, <4>2 DEF Shown
    <3>4. ms \in Seq(Shown) /\ Len(ms) = Len(ns) + 1
      BY <3>2, <3>3, AppendProperties
    <3> HIDE DEF s
    <3>5. ASSUME list.fid \notin stale PROVE PlaceOf(s)
      <4>1. InPlace(ns, g) /\ InPlace(NamesOf(es), g + Len(ns)) /\ Complete(g + Len(ns) + Len(es))
        BY <1>4, <2>1, <3>5 DEF PlaceOf
      <4>2. InPlace(ms, g) /\ InPlace(NamesOf(fs), g + Len(ms)) /\ Complete(g + Len(ms) + Len(fs))
        BY <1>3, <2>1, <3>2, <4>1, PageStep
      <4>3. QED
        BY <3>1, <4>2 DEF PlaceOf
    <3>6. list.off = 0 => Len(ms) >= 2
      BY <3>2, <3>4
    <3> HIDE DEF ms, fs
    <3>7. QED
      BY <1>1, <1>3, <2>4, <3>1, <3>3, <3>4, <3>5, <3>6, Paged DEF r
  <2>5. QED
    BY <1>5, <2>2, <2>3, <2>4
<1>9. CASE ReaddirOpens(t) /\ ~Error(t)
  <2> DEFINE D == dir[Here(t)]
             ms == IF list.off = 0 THEN <<".", "..">> ELSE << >>
             k == Skip(list.off)
             fs == SubSeq(D, k + 1, Len(D))
             s == [r EXCEPT !.pc = "entry", !.ino = Here(t), !.names = ms, !.ents = fs]
  <2>1. r.pc = "ready" /\ IsDir(Here(t)) /\ Goes(t, s) /\ Still
    BY <1>3, <1>9 DEF ReaddirOpens, At, r
  <2>2. D \in Seq(EntryRec)
    <3>1. r.path \in Seq(Names)
      BY <1>0, <1>1, Placed DEF r
    <3>2. Here(t) \in Inos
      BY <1>0, <2>1, <3>1, Resolved DEF Here, IsDir, r, TypeInv
    <3>3. QED
      BY <1>0, <3>2 DEF TypeInv, TreeInv
  <2>3. ms \in Seq(Shown) /\ k \in Nat /\ (list.off = 0 => Len(ms) >= 2)
    <3>1. ms = IF list.off = 0 THEN <<".", "..">> ELSE << >>
      OBVIOUS
    <3> HIDE DEF ms
    <3>2. ms \in Seq(Shown) /\ Skip(list.off) \in Nat /\ (list.off = 0 => Len(ms) = 2)
      BY <1>3, <3>1, PageDots
    <3>3. Len(ms) = 2 => Len(ms) >= 2
      OBVIOUS
    <3>4. QED
      BY <3>2, <3>3
  <2>4. fs \in Seq(EntryRec)
    <3> HIDE DEF D, k
    <3>1. QED
      BY <2>2, <2>3, RestIs
  <2>5. ASSUME list.fid \notin stale
        PROVE  InPlace(ms, g) /\ InPlace(NamesOf(fs), g + Len(ms)) /\ Complete(g + Len(ms) + Len(fs))
    <3>1. list.fid \in Fids /\ told[list.fid] # NoIno
      BY <1>0, <1>3 DEF TypeInv, ListInv
    <3>2. Here(t) = told[list.fid]
      BY <1>3, <2>5, <3>1 DEF Here, IInv, NameInv, FidNamesObject, r
    <3>3. fs = SubSeq(dir[told[list.fid]], Skip(list.off) + 1, Len(dir[told[list.fid]]))
      BY <3>2
    <3> HIDE DEF ms, fs, D
    <3>4. ms = IF list.off = 0 THEN <<".", "..">> ELSE << >>
      BY DEF ms
    <3>5. QED
      BY <1>0, <1>3, <3>3, <3>4, PageStart
  <2>6. /\ s.op = r.op /\ s.fid = r.fid /\ s.off = r.off /\ s.path = r.path /\ s.pc = "entry"
        /\ s.names = ms /\ s.ents = fs
    BY <1>2, <2>1 DEF Fields
  <2> HIDE DEF s, ms, fs
  <2>7. list.fid \notin stale => PlaceOf(s)
    BY <2>5, <2>6 DEF PlaceOf
  <2>8. QED
    BY <1>1, <1>3, <2>1, <2>3, <2>4, <2>6, <2>7, Paged DEF r
<1>10. QED
  BY <1>5, <1>7, <1>8, <1>9 DEF ListStep

(* The listing in the inductive invariant. *)
LEMMA ListStarts == Init => ListIInv
<1> SUFFICES ASSUME Init PROVE ListIInv
  OBVIOUS
<1>1. list.st = "none" /\ list.fid = NoFid /\ \A t \in Tasks : task[t] = Free
  BY DEF Init, NoList
<1>2. Free.pc = "free"
  BY DEF Free
<1>3. QED
  BY <1>1, <1>2, Starts DEF ListIInv, PageInv, PlaceInv, Listing, Busy

LEMMA ListStepKept == ListIInv /\ [Next]_vars => ListIInv'
<1> SUFFICES ASSUME ListIInv, [Next]_vars PROVE PageInv' /\ PlaceInv'
  BY StepKept DEF ListIInv
<1>0. IInv /\ PageInv /\ PlaceInv /\ IInv' /\ TypeInv /\ TypeInv'
  BY StepKept DEF ListIInv, IInv
<1>1. CASE Next
  <2>1. ASSUME NEW t \in Tasks, LowestFree(t), SendNext(t) PROVE PageInv' /\ PlaceInv'
    BY <1>0, <2>1, ListGoesOn
  <2>2. ASSUME NEW t \in Tasks, LowestFree(t), load.reqs > 0,
               NEW op \in load.ops, NEW a \in Requests[op], Send(t, op, a)
        PROVE  PageInv' /\ PlaceInv'
    <3>1. CASE op = "readdir"
      BY <1>0, <2>2, <3>1, ListBegins
    <3>2. CASE op # "readdir"
      BY <1>0, <1>1, <2>2, <3>2, SendAside, AsideKept
    <3>3. QED
      BY <3>1, <3>2
  <2>3. ASSUME NEW t \in Tasks, Receive(t) PROVE PageInv' /\ PlaceInv'
    <3>1. CASE task[t].op = "readdir"
      BY <1>0, <2>3, <3>1, ListAnswer
    <3>2. CASE task[t].op # "readdir"
      BY <1>0, <1>1, <2>3, <3>2, OthersAside, AsideKept
    <3>3. QED
      BY <3>1, <3>2
  <2>4. ASSUME NEW t \in Tasks, TaskStep(t) PROVE PageInv' /\ PlaceInv'
    <3>1. Request(task[t])
      BY <1>0, <2>4, Stepped
    <3>2. CASE task[t].op = "readdir"
      <4>1. task[t].pc \in {"ready", "done", "entry"}
        BY <3>1, <3>2 DEF Request, Stages
      <4>2. ListStep(t)
        BY <2>4, <3>2, <4>1
           DEF TaskStep, IoStep, At, LockFile, Seek, Read, Write, Fsync, Clunk, WalkStep, Bind,
               Look, SetattrStep, SetattrTimes, SetattrEnds, LopenStat, LopenOpen, LcreateStat,
               MkdirStat, Refused, MakeFile, Renameat, UnlinkStat, UnlinkRemove
      <4>3. QED
        BY <1>0, <4>2, ListReads
    <3>3. CASE task[t].op = "clunk"
      <4>1. task[t].pc \in {"ready", "done"}
        BY <3>1, <3>3 DEF Request, Stages
      <4>2. Clunk(t)
        BY <2>4, <3>3, <4>1
           DEF TaskStep, IoStep, At, LockFile, Seek, Read, Write, Fsync, WalkStep, Bind, Look,
               SetattrStep, SetattrTimes, SetattrEnds, LopenStat, LopenOpen, LcreateStat,
               MkdirStat, Refused, MakeFile, Renameat, UnlinkStat, UnlinkRemove,
               ListStep, ReaddirOpens, ReaddirEntry, ReaddirEnds
      <4>3. QED
        BY <1>0, <1>1, <4>2, ClunkList
    <3>4. CASE task[t].op \notin {"readdir", "clunk"}
      BY <1>0, <1>1, <2>4, <3>4, TaskAside, AsideKept
    <3>5. QED
      BY <3>2, <3>3, <3>4
  <2>5. CASE (\E f \in Fids : BackgroundWrite(f)) \/ (\E w \in late : LateWrite(w)) \/ Local
    BY <1>0, <1>1, <2>5, OthersAside, AsideKept
  <2>6. QED
    BY <1>1, <2>1, <2>2, <2>3, <2>4, <2>5 DEF Next
<1>2. CASE UNCHANGED vars
  <2>1. /\ dir' = dir /\ stale' = stale /\ path' = path /\ told' = told /\ task' = task /\ list' = list
    BY <1>2 DEF vars, treevars
  <2>2. KeptInv' <=> KeptInv
    BY <2>1 DEF KeptInv
  <2>3. Aside
    BY <1>0, <2>1, <2>2 DEF Aside, PageInv, Busy, Listing
  <2>4. QED
    BY <1>0, <2>3, AsideKept
<1>3. QED
  BY <1>1, <1>2

(* At its end a listing is exact. *)
LEMMA Exact == ListIInv => ListingExact
<1> SUFFICES ASSUME ListIInv, list.st = "ended", list.fid \notin stale,
                    NEW n \in {".", ".."} \cup {e[1] : e \in list.kept}
             PROVE  Times(n) = 1
  BY DEF ListingExact
<1>1. PageInv /\ PlaceInv /\ TypeInv
  BY DEF ListIInv, IInv
<1>2. list.fid # NoFid /\ list.got \in Seq(Shown)
  BY <1>1 DEF PageInv
<1>3. InPlace(list.got, 0) /\ Complete(Len(list.got))
  BY <1>1, <1>2 DEF PlaceInv
<1>4. PICK x \in Expected : x[1] = n
  <2>1. CASE n = "." \/ n = ".."
    <3>1. <<".", 1>> \in Expected /\ <<"..", 2>> \in Expected
      BY DEF Expected
    <3>2. <<".", 1>>[1] = "." /\ <<"..", 2>>[1] = ".."
      OBVIOUS
    <3>3. QED
      BY <2>1, <3>1, <3>2
  <2>2. ASSUME NEW e \in list.kept, n = e[1] PROVE \E x \in Expected : x[1] = n
    <3>1. <<e[1], e[2] + 2>> \in Expected
      BY DEF Expected
    <3>2. <<e[1], e[2] + 2>>[1] = n
      BY <2>2
    <3>3. QED
      BY <3>1, <3>2
  <2>3. QED
    BY <2>1, <2>2
<1>5. x[2] \in Nat /\ x[2] >= 1
  <2>1. \A k \in 1..Len(dir[told[list.fid]]) : k + 2 \in Nat /\ k + 2 >= 1
    BY <1>1, <1>2 DEF TypeInv, FidInv, ListInv, TreeInv
  <2>2. QED
    BY <1>1, <1>2, <2>1, ExpectedAre
<1>6. x[2] <= Len(list.got) /\ Len(list.got) \in Nat
  BY <1>2, <1>3 DEF Complete
<1>7. x[2] \in 1..Len(list.got)
  BY <1>5, <1>6
<1>8. \A i \in 1..Len(list.got) : list.got[i] = n <=> i = x[2]
  BY <1>3, <1>4, <1>6 DEF InPlace
<1>9. DOMAIN list.got = 1..Len(list.got)
  BY <1>2
<1>10. {k \in DOMAIN list.got : list.got[k] = n} = {x[2]}
  BY <1>7, <1>8, <1>9
<1>11. QED
  BY <1>10, FS_Singleton DEF Times

(* rreaddir (unpfs.rs): at the end of a listing every entry that stayed at *)
(* its place, and the dots, have been returned once, in pages of any size. *)
THEOREM ListingComplete == Spec => []ListingExact
BY ListStarts, ListStepKept, Exact, PTL DEF Spec
=============================================================================
