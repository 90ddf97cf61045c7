------------------------------ MODULE NinepSrv ------------------------------
(***************************************************************************)
(* The request dispatcher of the 9P server (crates/9p/src/srv.rs).         *)
(*                                                                         *)
(* `dispatch` spawns one task for each request it reads, so requests that  *)
(* are outstanding together run in any order.  A task looks its fids up    *)
(* and runs the file system's operation under the read lock of the fid     *)
(* table, drops that lock, changes the table under the write lock          *)
(* (Tclunk removes, a new fid is inserted), and only then sends the reply. *)
(*                                                                         *)
(* The client is the kernel's 9p file system.  It is modelled by the rules *)
(* it keeps: one request for each tag, a new fid is one that it does not   *)
(* use, and a fid is clunked, or made into a file it creates, only when no *)
(* other request names it.                                                 *)
(***************************************************************************)
EXTENDS Naturals, FiniteSets

CONSTANTS
    Tags,     \* tags, at most one outstanding request each
    Fids,     \* fid numbers
    Paths,    \* paths of the exported tree, existing or not
    Root,     \* Unpfs::realroot
    NoPath,   \* the fid is not a key of the table
    NoFid     \* the request has no such fid

ASSUME PathAssumption ==
    Root \in Paths /\ NoPath \notin Paths /\ NoFid \notin Fids

VARIABLES
    fids,     \* the table: fid -> UnpfsFid::realpath
    req,      \* the request of each tag and the task that handles it
    view      \* client: the fids it holds, and the paths it believes they are

vars == <<fids, req, view>>

PathOrNone == Paths \cup {NoPath}

(* The requests, by what they do to the table: Tattach; Twalk (and         *)
(* Txattrwalk, which unpfs refuses); Tlcreate, which moves its fid to the  *)
(* new file; Tclunk; and the ones that only look a fid up.                 *)
Ops == {"attach", "walk", "create", "clunk", "use"}

Request == [st: {"free", "sent", "running", "ran", "queued", "applied"},
            op: Ops,
            fid: Fids \cup {NoFid}, newfid: Fids \cup {NoFid},
            path: PathOrNone, res: {"none", "ok", "error", "EBADF"}]

Free == [st |-> "free", op |-> "use", fid |-> NoFid, newfid |-> NoFid,
         path |-> NoPath, res |-> "none"]

(* One type invariant.                                                     *)
TypeOK ==
    /\ fids \in [Fids -> PathOrNone]
    /\ req \in [Tags -> Request]
    /\ view \in [Fids -> PathOrNone]

Init ==
    /\ fids = [f \in Fids |-> NoPath]
    /\ req = [t \in Tags |-> Free]
    /\ view = [f \in Fids |-> NoPath]

(* Fcall::newfid and the fids each request looks up.                       *)
Looks(op) == op # "attach"
Creates(op) == op \in {"attach", "walk"}
Moves(op) == op \in {"create", "clunk"}

-----------------------------------------------------------------------------
(* The client.                                                             *)

Outstanding(t) == req[t].st # "free"
Names(t, f) == Outstanding(t) /\ (req[t].fid = f \/ req[t].newfid = f)

Idle(f) == \A t \in Tags : ~Names(t, f)

(* A request is sent.  While a fid is being clunked or created into the    *)
(* client does not count on it; what it stood for is kept with a create.   *)
Send(t, op, f, g) ==
    /\ req[t].st = "free"
    /\ IF Looks(op) THEN f \in Fids /\ view[f] # NoPath ELSE f = NoFid
    /\ Moves(op) => Idle(f)
    /\ IF Creates(op) THEN g \in Fids /\ view[g] = NoPath /\ Idle(g)
                      ELSE g = NoFid
    /\ req' = [req EXCEPT ![t] = [st |-> "sent", op |-> op, fid |-> f,
                                  newfid |-> g, res |-> "none",
                                  path |-> IF op = "create" THEN view[f] ELSE NoPath]]
    /\ view' = IF Moves(op) THEN [view EXCEPT ![f] = NoPath] ELSE view
    /\ UNCHANGED fids

(* The reply arrives.  A walk that stopped early also leaves a new fid,    *)
(* for a path that need not exist, which the client has to clunk.  A       *)
(* failed create leaves its fid where it was.                              *)
Receive(t) ==
    /\ req[t].st = "applied"
    /\ req' = [req EXCEPT ![t] = Free]
    /\ view' = IF Creates(req[t].op) /\ req[t].res = "ok"
               THEN [view EXCEPT ![req[t].newfid] = req[t].path]
               ELSE IF req[t].op = "create"
               THEN [view EXCEPT ![req[t].fid] = req[t].path] ELSE view
    /\ UNCHANGED fids

-----------------------------------------------------------------------------
(* dispatch_once.                                                          *)

(* tokio's RwLock is fair: a reader waits while a writer is queued.        *)
Queued == {t \in Tags : req[t].st = "queued"}
Readers == {t \in Tags : req[t].st = "running"}

(* Faulty variant: a lock that lets readers pass a queued writer.          *)
LookupPastWriters(t) ==
    /\ req[t].st = "sent"
    /\ IF Looks(req[t].op) /\ fids[req[t].fid] = NoPath
       THEN req' = [req EXCEPT ![t].st = "applied", ![t].res = "EBADF"]
       ELSE req' = [req EXCEPT ![t].st = "running"]
    /\ UNCHANGED <<fids, view>>

(* The read lock is granted and the fid is looked up; an unknown one is an *)
(* error at once.                                                          *)
Lookup(t) ==
    /\ req[t].st = "sent"
    /\ Queued = {}
    /\ IF Looks(req[t].op) /\ fids[req[t].fid] = NoPath
       THEN req' = [req EXCEPT ![t].st = "applied", ![t].res = "EBADF"]
       ELSE req' = [req EXCEPT ![t].st = "running"]
    /\ UNCHANGED <<fids, view>>

(* The operation of the file system ends, and with it the read lock.  A    *)
(* walk reaches some path; attach is at the root; a create moves its fid,  *)
(* whose realpath has a lock of its own; an error returns early, before    *)
(* anything is changed.  rclunk does not fail.                             *)
OpEnds(t, p) ==
    /\ req[t].st = "running"
    /\ req[t].op \notin {"walk", "create"} => p = Root
    /\ req' = [req EXCEPT ![t].st = "ran", ![t].path = p]
    /\ fids' = IF req[t].op = "create" THEN [fids EXCEPT ![req[t].fid] = p] ELSE fids
    /\ UNCHANGED view

OpFails(t) ==
    /\ req[t].st = "running"
    /\ req[t].op # "clunk"
    /\ req' = [req EXCEPT ![t].st = "applied", ![t].res = "error"]
    /\ UNCHANGED <<fids, view>>

(* Faulty variants: the new fid is never inserted; Tclunk removes nothing. *)
AfterOpNoInsert(t) ==
    /\ req[t].st = "ran"
    /\ req' = IF req[t].op # "clunk"
              THEN [req EXCEPT ![t].st = "applied", ![t].res = "ok"]
              ELSE [req EXCEPT ![t].st = "queued"]
    /\ UNCHANGED <<fids, view>>

AfterOpNoClunk(t) ==
    /\ req[t].st = "ran"
    /\ req' = IF ~Creates(req[t].op)
              THEN [req EXCEPT ![t].st = "applied", ![t].res = "ok"]
              ELSE [req EXCEPT ![t].st = "queued"]
    /\ UNCHANGED <<fids, view>>

(* Only Tclunk and the requests with a new fid change the table; the       *)
(* others are ready to be answered.                                        *)
AfterOp(t) ==
    /\ req[t].st = "ran"
    /\ req' = IF req[t].op \in {"use", "create"}
              THEN [req EXCEPT ![t].st = "applied", ![t].res = "ok"]
              ELSE [req EXCEPT ![t].st = "queued"]
    /\ UNCHANGED <<fids, view>>

(* Faulty variants: the path of the fid that was walked from is inserted;  *)
(* the fid is inserted in place of its path; Tclunk clears the table.      *)
ApplyOldPath(t) ==
    /\ req[t].st = "queued"
    /\ Readers = {}
    /\ fids' = IF req[t].op = "clunk"
               THEN [fids EXCEPT ![req[t].fid] = NoPath]
               ELSE [fids EXCEPT ![req[t].newfid] =
                        IF req[t].op = "walk" THEN fids[req[t].fid] ELSE Root]
    /\ req' = [req EXCEPT ![t].st = "applied", ![t].res = "ok"]
    /\ UNCHANGED view

ApplyFid(t) ==
    /\ req[t].st = "queued"
    /\ Readers = {}
    /\ fids' = IF req[t].op = "clunk"
               THEN [fids EXCEPT ![req[t].fid] = NoPath]
               ELSE [fids EXCEPT ![req[t].newfid] = req[t].fid]
    /\ req' = [req EXCEPT ![t].st = "applied", ![t].res = "ok"]
    /\ UNCHANGED view

ApplyClears(t) ==
    /\ req[t].st = "queued"
    /\ Readers = {}
    /\ fids' = IF req[t].op = "clunk"
               THEN [f \in Fids |-> NoPath]
               ELSE [fids EXCEPT ![req[t].newfid] = req[t].path]
    /\ req' = [req EXCEPT ![t].st = "applied", ![t].res = "ok"]
    /\ UNCHANGED view

(* Under the write lock, which waits for every reader: Tclunk removes its  *)
(* fid, a new fid is inserted (replacing what it stood for).               *)
Apply(t) ==
    /\ req[t].st = "queued"
    /\ Readers = {}
    /\ fids' = IF req[t].op = "clunk"
               THEN [fids EXCEPT ![req[t].fid] = NoPath]
               ELSE [fids EXCEPT ![req[t].newfid] = req[t].path]
    /\ req' = [req EXCEPT ![t].st = "applied", ![t].res = "ok"]
    /\ UNCHANGED view

-----------------------------------------------------------------------------
TaskStep(t) ==
    \/ Lookup(t) \/ (\E p \in Paths : OpEnds(t, p)) \/ OpFails(t) \/ AfterOp(t)
    \/ Apply(t)

Next ==
    \/ \E t \in Tags, op \in Ops, f, g \in Fids \cup {NoFid} : Send(t, op, f, g)
    \/ \E t \in Tags : Receive(t) \/ TaskStep(t)

Spec == Init /\ [][Next]_vars

(* Every task is scheduled and every operation of the file system ends;    *)
(* the write lock of the table, wanted again and again, is granted.        *)
FairSpec == Spec /\ \A t \in Tags : SF_vars(TaskStep(t)) /\ WF_vars(Receive(t))

-----------------------------------------------------------------------------
(* A client that keeps to the rules is never told that a fid it holds is   *)
(* unknown, however its requests overtake one another: the reply that      *)
(* makes a fid known to it is sent after the table was changed.            *)
NoBadFid == \A t \in Tags : req[t].res # "EBADF"

(* A fid the client holds stands for the path it was walked to, or for the *)
(* file it was created into.                                               *)
ViewMatches == \A f \in Fids : view[f] # NoPath => fids[f] = view[f]

(* When nothing is outstanding the server holds no fid that the client has *)
(* given up: clunked fids are gone, failed walks leave none behind.        *)
NoFidLeak ==
    (\A t \in Tags : ~Outstanding(t)) =>
        \A f \in Fids : fids[f] # NoPath => view[f] # NoPath

(* The inductive invariant behind the properties above.  Before: the table *)
(* has not been changed for the request; After: it has.                    *)
Before(t) == req[t].st \in {"sent", "running", "ran", "queued"}
             \/ req[t].res = "error"
After(t) == req[t].st = "applied" /\ req[t].res = "ok"

(* The shape of a request at each stage of its task.                       *)
StageInv ==
    \A t \in Tags :
      /\ Outstanding(t) => /\ Looks(req[t].op) => req[t].fid \in Fids
                           /\ ~Looks(req[t].op) => req[t].fid = NoFid
                           /\ Creates(req[t].op) => req[t].newfid \in Fids
                           /\ ~Creates(req[t].op) => req[t].newfid = NoFid
                           /\ Before(t) \/ After(t)
      /\ ~Outstanding(t) => req[t] = Free
      /\ req[t].st \in {"sent", "running", "ran", "queued"} => req[t].res = "none"
      /\ req[t].st \in {"ran", "queued", "applied"} /\ req[t].res # "error" =>
            /\ req[t].path \in Paths
            /\ req[t].op = "attach" => req[t].path = Root
      /\ req[t].op = "clunk" => req[t].res # "error"
      /\ req[t].st = "queued" => req[t].op \notin {"use", "create"}

(* A fid that a request makes, moves or clunks is named by no other request,    *)
(* and the client does not count on it.                                    *)
ExclusiveInv ==
    \A t, u \in Tags :
      t # u /\ Outstanding(t) /\ Outstanding(u) =>
        /\ Creates(req[t].op) => ~Names(u, req[t].newfid)
        /\ Moves(req[t].op) => ~Names(u, req[t].fid)

(* How far the table has followed each outstanding request.                *)
FollowInv ==
    \A t \in Tags : Outstanding(t) =>
      /\ Creates(req[t].op) => /\ view[req[t].newfid] = NoPath
                               /\ Before(t) => fids[req[t].newfid] = NoPath
                               /\ After(t) => fids[req[t].newfid] = req[t].path
      /\ req[t].op = "clunk" => /\ view[req[t].fid] = NoPath
                                /\ Before(t) => fids[req[t].fid] # NoPath
                                /\ After(t) => fids[req[t].fid] = NoPath
      /\ req[t].op = "create" => /\ view[req[t].fid] = NoPath
                                 /\ fids[req[t].fid] = req[t].path
                                 /\ req[t].path # NoPath
      /\ req[t].op \in {"walk", "use"} => view[req[t].fid] # NoPath

(* A fid in the table that the client does not hold is on its way.         *)
NoOrphan ==
    \A f \in Fids : fids[f] # NoPath /\ view[f] = NoPath =>
        \E t \in Tags : Names(t, f)

(* Together with ViewMatches they are inductive: the fids in the table are *)
(* the client's, up to the requests that are on their way.                 *)
SrvInv == StageInv /\ ExclusiveInv /\ FollowInv /\ ViewMatches /\ NoOrphan

(* The look-up and the insertion of a walk are two steps under two locks;  *)
(* to the client it is as if they were one.                                *)
Table == INSTANCE FidTable WITH table <- fids
ImplementsFidTable == Table!TableSpec

(* Every request is answered.                                              *)
Answered == \A t \in Tags : req[t].st = "sent" ~> req[t].st = "free"
=============================================================================
