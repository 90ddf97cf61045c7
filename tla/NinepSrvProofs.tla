--------------------------- MODULE NinepSrvProofs ---------------------------
(***************************************************************************)
(* Theorems about NinepSrv, for any sets of tags, fids and paths.          *)
(***************************************************************************)
EXTENDS NinepSrv, TLAPS

(* A step of task t changes stage, path and result of its own request, and *)
(* leaves the other requests alone.                                        *)
Becomes(t, st, path, res) ==
    /\ req'[t].st = st /\ req'[t].path = path /\ req'[t].res = res
    /\ req'[t].op = req[t].op /\ req'[t].fid = req[t].fid
    /\ req'[t].newfid = req[t].newfid
    /\ \A u \in Tags \ {t} : req'[u] = req[u]

(* The fields of a request have their types.                               *)
LEMMA Fields ==
    ASSUME TypeOK, NEW t \in Tags
    PROVE  /\ req[t].fid \in Fids \cup {NoFid}
           /\ req[t].newfid \in Fids \cup {NoFid}
           /\ req[t].path \in PathOrNone
           /\ req[t].op \in Ops
           /\ req[t].st \in {"free", "sent", "running", "ran", "queued", "applied"}
           /\ req[t].res \in {"none", "ok", "error", "EBADF"}
<1>1. req[t] \in Request
    BY DEF TypeOK
<1> QED BY <1>1 DEF Request

(* Updates of some fields, seen field by field.                            *)
LEMMA Updates ==
    ASSUME TypeOK, NEW t \in Tags, NEW st, NEW x
    PROVE  /\ req' = [req EXCEPT ![t].st = st] =>
                Becomes(t, st, req[t].path, req[t].res)
           /\ req' = [req EXCEPT ![t].st = st, ![t].res = x] =>
                Becomes(t, st, req[t].path, x)
           /\ req' = [req EXCEPT ![t].st = st, ![t].path = x] =>
                Becomes(t, st, x, req[t].res)
<1>1. req[t] \in Request
    BY DEF TypeOK
<1>2. ASSUME req' = [req EXCEPT ![t].st = st]
      PROVE  Becomes(t, st, req[t].path, req[t].res)
  <2>1. req'[t] = [req[t] EXCEPT !.st = st]
      BY <1>2 DEF TypeOK
  <2> QED BY <1>1, <1>2, <2>1 DEF Request, TypeOK, Becomes
<1>3. ASSUME req' = [req EXCEPT ![t].st = st, ![t].res = x]
      PROVE  Becomes(t, st, req[t].path, x)
  <2>1. req'[t] = [[req[t] EXCEPT !.st = st] EXCEPT !.res = x]
      BY <1>3 DEF TypeOK
  <2> QED BY <1>1, <1>3, <2>1 DEF Request, TypeOK, Becomes
<1>4. ASSUME req' = [req EXCEPT ![t].st = st, ![t].path = x]
      PROVE  Becomes(t, st, x, req[t].res)
  <2>1. req'[t] = [[req[t] EXCEPT !.st = st] EXCEPT !.path = x]
      BY <1>4 DEF TypeOK
  <2> QED BY <1>1, <1>4, <2>1 DEF Request, TypeOK, Becomes
<1> QED BY <1>2, <1>3, <1>4

(* ... and they keep the type.                                             *)
LEMMA UpdateType ==
    ASSUME TypeOK, NEW t \in Tags,
           NEW st \in {"free", "sent", "running", "ran", "queued", "applied"}
    PROVE  /\ [req EXCEPT ![t].st = st] \in [Tags -> Request]
           /\ \A x \in {"none", "ok", "error", "EBADF"} :
                [req EXCEPT ![t].st = st, ![t].res = x] \in [Tags -> Request]
           /\ \A x \in PathOrNone :
                [req EXCEPT ![t].st = st, ![t].path = x] \in [Tags -> Request]
<1>1. req[t] \in Request
    BY DEF TypeOK
<1>2. /\ [req[t] EXCEPT !.st = st] \in Request
      /\ \A x \in {"none", "ok", "error", "EBADF"} :
            [[req[t] EXCEPT !.st = st] EXCEPT !.res = x] \in Request
      /\ \A x \in PathOrNone :
            [[req[t] EXCEPT !.st = st] EXCEPT !.path = x] \in Request
    BY <1>1 DEF Request
<1> QED BY <1>2 DEF TypeOK

-----------------------------------------------------------------------------
(* The dispatcher keeps its types.                                         *)
THEOREM TypeCorrect == Spec => []TypeOK
<1>1. Init => TypeOK
    BY DEF Init, TypeOK, Free, Request, PathOrNone, Ops
<1>2. TypeOK /\ [Next]_vars => TypeOK'
  <2> SUFFICES ASSUME TypeOK, [Next]_vars PROVE TypeOK'
      OBVIOUS
  <2> USE PathAssumption
  <2>1. CASE UNCHANGED vars
      BY <2>1 DEF vars, TypeOK
  <2>2. ASSUME NEW t \in Tags, NEW op \in Ops,
               NEW f \in Fids \cup {NoFid}, NEW g \in Fids \cup {NoFid},
               Send(t, op, f, g)
        PROVE  TypeOK'
    <3> DEFINE p == IF op = "create" THEN view[f] ELSE NoPath
    <3>1. p \in PathOrNone
        BY <2>2 DEF Send, Looks, TypeOK, PathOrNone
    <3>2. [st |-> "sent", op |-> op, fid |-> f, newfid |-> g,
           res |-> "none", path |-> p] \in Request
        BY <3>1 DEF Request
    <3> HIDE DEF p
    <3>3. req' = [req EXCEPT ![t] = [st |-> "sent", op |-> op, fid |-> f,
                                     newfid |-> g, res |-> "none", path |-> p]]
        BY <2>2 DEF Send, p
    <3> QED BY <2>2, <3>2, <3>3 DEF Send, TypeOK, PathOrNone
  <2>3. ASSUME NEW t \in Tags, Receive(t) PROVE TypeOK'
    <3>1. Free \in Request
        BY DEF Free, Request, PathOrNone, Ops
    <3>2. req' \in [Tags -> Request] /\ fids' \in [Fids -> PathOrNone]
        BY <2>3, <3>1 DEF Receive, TypeOK
    <3>3. view' \in [Fids -> PathOrNone]
      <4>1. CASE view' = view
          BY <4>1 DEF TypeOK
      <4>2. CASE view' = [view EXCEPT ![req[t].newfid] = req[t].path]
          BY <4>2, Fields DEF TypeOK
      <4>3. CASE view' = [view EXCEPT ![req[t].fid] = req[t].path]
          BY <4>3, Fields DEF TypeOK
      <4> QED BY <2>3, <4>1, <4>2, <4>3 DEF Receive
    <3> QED BY <3>2, <3>3 DEF TypeOK
  <2>4. ASSUME NEW t \in Tags, TaskStep(t) PROVE TypeOK'
    <3>1. CASE Lookup(t)
      <4>1. CASE Looks(req[t].op) /\ fids[req[t].fid] = NoPath
        <5>1. req' = [req EXCEPT ![t].st = "applied", ![t].res = "EBADF"]
            BY <3>1, <4>1 DEF Lookup
        <5> QED BY <3>1, <5>1, UpdateType DEF Lookup, TypeOK
      <4>2. CASE ~(Looks(req[t].op) /\ fids[req[t].fid] = NoPath)
        <5>1. req' = [req EXCEPT ![t].st = "running"]
            BY <3>1, <4>2 DEF Lookup
        <5> QED BY <3>1, <5>1, UpdateType DEF Lookup, TypeOK
      <4> QED BY <4>1, <4>2
    <3>2. ASSUME NEW p \in Paths, OpEnds(t, p) PROVE TypeOK'
      <4>1. req' \in [Tags -> Request]
          BY <3>2, UpdateType DEF OpEnds, PathOrNone
      <4>2. fids' \in [Fids -> PathOrNone]
          BY <3>2 DEF OpEnds, TypeOK, PathOrNone
      <4> QED BY <3>2, <4>1, <4>2 DEF OpEnds, TypeOK
    <3>3. CASE OpFails(t)
        BY <3>3, UpdateType DEF OpFails, TypeOK
    <3>4. CASE AfterOp(t)
        BY <3>4, UpdateType DEF AfterOp, TypeOK
    <3>5. CASE Apply(t)
      <4>1. req' \in [Tags -> Request]
          BY <3>5, UpdateType DEF Apply
      <4>2. fids' \in [Fids -> PathOrNone]
          BY <3>5, Fields DEF Apply, TypeOK, PathOrNone
      <4> QED BY <3>5, <4>1, <4>2 DEF Apply, TypeOK
    <3> QED BY <2>4, <3>1, <3>2, <3>3, <3>4, <3>5 DEF TaskStep
  <2> QED BY <2>1, <2>2, <2>3, <2>4 DEF Next
<1> QED BY <1>1, <1>2, PTL DEF Spec

-----------------------------------------------------------------------------
(* SrvInv is inductive: one lemma for the steps that leave the table and   *)
(* the client's view alone, and one for each of the others.                *)

(* A task goes on without touching the table.                              *)
LEMMA InvTask ==
    ASSUME TypeOK, SrvInv, NEW t \in Tags,
           \/ Lookup(t) \/ OpFails(t) \/ AfterOp(t)
           \/ req[t].op # "create" /\ \E p \in Paths : OpEnds(t, p)
    PROVE  SrvInv'
<1> USE Fields, PathAssumption DEF Ops, Looks, Creates, Moves, Outstanding
<1>1. UNCHANGED <<fids, view>>
    BY DEF Lookup, OpEnds, OpFails, AfterOp
<1>2. /\ Outstanding(t) /\ Before(t) /\ Outstanding(t)'
      /\ \A u \in Tags \ {t} : req'[u] = req[u]
      /\ req'[t].op = req[t].op /\ req'[t].fid = req[t].fid
      /\ req'[t].newfid = req[t].newfid
      /\ Before(t)' \/ (After(t)' /\ req[t].op \in {"use", "create"})
      /\ req[t].op = "create" => req'[t].path = req[t].path
      /\ req'[t].st \in {"sent", "running", "ran", "queued"} => req'[t].res = "none"
      /\ req'[t].st \in {"ran", "queued", "applied"} /\ req'[t].res # "error" =>
            /\ req'[t].path \in Paths
            /\ req'[t].op = "attach" => req'[t].path = Root
      /\ req'[t].op = "clunk" => req'[t].res # "error"
      /\ req'[t].st = "queued" => req'[t].op \notin {"use", "create"}
  <2>1. CASE Lookup(t)
    <3>1. ~(Looks(req[t].op) /\ fids[req[t].fid] = NoPath)
        BY <2>1, PathAssumption
           DEF Lookup, SrvInv, StageInv, FollowInv, ViewMatches, Before, TypeOK
    <3>2. Becomes(t, "running", req[t].path, req[t].res)
        BY <2>1, <3>1, Updates DEF Lookup
    <3> QED BY <2>1, <3>2 DEF Lookup, Becomes, SrvInv, StageInv, Before, After
  <2>2. ASSUME NEW p \in Paths, OpEnds(t, p), req[t].op # "create" PROVE <1>2!:
    <3>1. Becomes(t, "ran", p, req[t].res)
        BY <2>2, Updates DEF OpEnds
    <3> QED BY <2>2, <3>1 DEF OpEnds, Becomes, SrvInv, StageInv, Before, After
  <2>3. CASE OpFails(t)
    <3>1. Becomes(t, "applied", req[t].path, "error")
        BY <2>3, Updates DEF OpFails
    <3> QED BY <2>3, <3>1 DEF OpFails, Becomes, SrvInv, StageInv, Before, After
  <2>4. CASE AfterOp(t)
    <3>1. CASE req[t].op \in {"use", "create"}
      <4>1. Becomes(t, "applied", req[t].path, "ok")
          BY <2>4, <3>1, Updates DEF AfterOp
      <4> QED BY <2>4, <3>1, <4>1
              DEF AfterOp, Becomes, SrvInv, StageInv, Before, After
    <3>2. CASE req[t].op \notin {"use", "create"}
      <4>1. Becomes(t, "queued", req[t].path, req[t].res)
          BY <2>4, <3>2, Updates DEF AfterOp
      <4> QED BY <2>4, <3>2, <4>1
              DEF AfterOp, Becomes, SrvInv, StageInv, Before, After
    <3> QED BY <3>1, <3>2
  <2> QED BY <2>1, <2>2, <2>3, <2>4
<1>3. \A u \in Tags : \A f : Names(u, f)' = Names(u, f)
    BY <1>2 DEF Names
<1>4. StageInv'
    BY <1>2 DEF SrvInv, StageInv, Before, After
<1>5. ExclusiveInv'
    BY <1>2, <1>3 DEF SrvInv, ExclusiveInv
<1>6. FollowInv'
    BY <1>1, <1>2 DEF SrvInv, FollowInv, Before, After
<1>7. ViewMatches' /\ NoOrphan'
    BY <1>1, <1>3 DEF SrvInv, ViewMatches, NoOrphan
<1> QED BY <1>4, <1>5, <1>6, <1>7 DEF SrvInv

(* A create moves its fid, which only its request names.                   *)
LEMMA InvCreate ==
    ASSUME TypeOK, SrvInv, NEW t \in Tags, NEW p \in Paths, OpEnds(t, p),
           req[t].op = "create"
    PROVE  SrvInv'
<1> USE Fields, PathAssumption DEF Ops, Looks, Creates, Moves, Outstanding
<1>1. Becomes(t, "ran", p, req[t].res) /\ UNCHANGED view
    BY Updates DEF OpEnds
<1>2. /\ Outstanding(t) /\ Outstanding(t)' /\ Before(t)
      /\ req[t].res = "none" /\ req'[t].op = "create" /\ Before(t)' /\ ~After(t)'
    BY <1>1 DEF OpEnds, Becomes, SrvInv, StageInv, Before, After
<1>3. \A u \in Tags : \A f : Names(u, f)' = Names(u, f)
    BY <1>1, <1>2 DEF Names, Becomes
<1>4. \A u \in Tags \ {t} : (Before(u)' <=> Before(u)) /\ (After(u)' <=> After(u))
    BY <1>1 DEF Becomes, Before, After
<1>5. StageInv'
    BY <1>1, <1>2 DEF SrvInv, StageInv, Before, After, Becomes
<1>6. ExclusiveInv'
    BY <1>1, <1>2, <1>3 DEF SrvInv, ExclusiveInv, Becomes
<1> DEFINE x == req[t].fid
<1>7. /\ x \in Fids /\ Names(t, x) /\ view[x] = NoPath
      /\ fids'[x] = p /\ \A f \in Fids \ {x} : fids'[f] = fids[f]
      /\ \A u \in Tags \ {t} : ~Names(u, x)
  <2>1. x \in Fids /\ Names(t, x) /\ view[x] = NoPath
      BY <1>2 DEF SrvInv, StageInv, FollowInv, Names
  <2>2. \A u \in Tags \ {t} : ~Names(u, x)
      BY <1>2 DEF SrvInv, ExclusiveInv, Names
  <2> QED BY <1>2, <2>1, <2>2 DEF OpEnds, TypeOK
<1>8. FollowInv'
  <2>1. ASSUME NEW u \in Tags \ {t}, Outstanding(u)
        PROVE  /\ req[u].fid \in Fids => fids'[req[u].fid] = fids[req[u].fid]
               /\ req[u].newfid \in Fids => fids'[req[u].newfid] = fids[req[u].newfid]
      BY <1>7, <2>1 DEF Names
  <2> QED BY <1>1, <1>2, <1>4, <1>7, <2>1
          DEF SrvInv, StageInv, FollowInv, Becomes
<1>9. ViewMatches'
    BY <1>1, <1>7 DEF SrvInv, ViewMatches
<1>10. NoOrphan'
    BY <1>1, <1>2, <1>3, <1>7 DEF SrvInv, NoOrphan
<1> QED BY <1>5, <1>6, <1>8, <1>9, <1>10 DEF SrvInv

(* The table changes under the write lock.                                 *)
LEMMA InvApply ==
    ASSUME TypeOK, SrvInv, NEW t \in Tags, Apply(t)
    PROVE  SrvInv'
<1> USE Fields, PathAssumption DEF Ops, Looks, Creates, Moves, Outstanding
<1>1. Becomes(t, "applied", req[t].path, "ok") /\ UNCHANGED view
    BY Updates DEF Apply
<1>2. /\ req[t].st = "queued" /\ Outstanding(t) /\ Outstanding(t)'
      /\ Before(t) /\ ~Before(t)' /\ After(t)'
      /\ req[t].op \in {"attach", "walk", "clunk"}
      /\ req[t].path \in Paths
    BY <1>1 DEF Apply, Becomes, SrvInv, StageInv, Before, After
<1>3. \A u \in Tags : \A f : Names(u, f)' = Names(u, f)
    BY <1>1, <1>2 DEF Names, Becomes
<1>4. \A u \in Tags \ {t} : (Before(u)' <=> Before(u)) /\ (After(u)' <=> After(u))
    BY <1>1 DEF Becomes, Before, After
<1>5. StageInv'
    BY <1>1, <1>2 DEF SrvInv, StageInv, Before, After, Becomes
<1>6. ExclusiveInv'
    BY <1>1, <1>2, <1>3 DEF SrvInv, ExclusiveInv, Becomes
<1> DEFINE x == IF req[t].op = "clunk" THEN req[t].fid ELSE req[t].newfid
<1>7. /\ x \in Fids /\ Names(t, x) /\ view[x] = NoPath
      /\ fids'[x] = IF req[t].op = "clunk" THEN NoPath ELSE req[t].path
      /\ \A f \in Fids \ {x} : fids'[f] = fids[f]
      /\ \A u \in Tags \ {t} : ~Names(u, x)
  <2>1. x \in Fids /\ Names(t, x) /\ view[x] = NoPath
      BY <1>2 DEF SrvInv, StageInv, FollowInv, Names
  <2>2. \A u \in Tags \ {t} : ~Names(u, x)
      BY <1>2 DEF SrvInv, ExclusiveInv, Names
  <2> QED BY <1>2, <2>1, <2>2 DEF Apply, TypeOK
<1>8. FollowInv'
  <2>1. ASSUME NEW u \in Tags \ {t}, Outstanding(u)
        PROVE  /\ req[u].fid \in Fids => fids'[req[u].fid] = fids[req[u].fid]
               /\ req[u].newfid \in Fids => fids'[req[u].newfid] = fids[req[u].newfid]
      BY <1>7, <2>1 DEF Names
  <2> QED BY <1>1, <1>2, <1>4, <1>7, <2>1
          DEF SrvInv, StageInv, FollowInv, Becomes
<1>9. ViewMatches'
    BY <1>1, <1>7 DEF SrvInv, ViewMatches
<1>10. NoOrphan'
    BY <1>1, <1>2, <1>3, <1>7 DEF SrvInv, NoOrphan
<1> QED BY <1>5, <1>6, <1>8, <1>9, <1>10 DEF SrvInv

(* The client sends a request.                                             *)
LEMMA InvSend ==
    ASSUME TypeOK, SrvInv, NEW t \in Tags,
           NEW op \in Ops,
           NEW f \in Fids \cup {NoFid}, NEW g \in Fids \cup {NoFid},
           Send(t, op, f, g)
    PROVE  SrvInv'
<1> USE Fields, PathAssumption DEF Ops, Looks, Creates, Moves, Outstanding
<1>1. /\ req'[t].st = "sent" /\ req'[t].op = op /\ req'[t].fid = f
      /\ req'[t].newfid = g /\ req'[t].res = "none"
      /\ op = "create" => req'[t].path = view[f]
      /\ \A u \in Tags \ {t} : req'[u] = req[u]
      /\ UNCHANGED fids
    BY DEF Send, TypeOK
<1>2. ~Outstanding(t) /\ Outstanding(t)' /\ Before(t)' /\ ~After(t)'
    BY <1>1 DEF Send, Before, After
<1>3. \A u \in Tags \ {t} :
        /\ Before(u)' <=> Before(u)
        /\ After(u)' <=> After(u)
        /\ \A h : Names(u, h)' <=> Names(u, h)
    BY <1>1 DEF Names, Before, After
<1>4. \A h : Names(t, h)' <=> h = f \/ h = g
    BY <1>1, <1>2 DEF Names
<1>5. /\ op # "attach" => f \in Fids /\ view[f] # NoPath
      /\ op = "attach" => f = NoFid
      /\ Moves(op) => g = NoFid /\ \A u \in Tags : ~Names(u, f)
      /\ op = "use" => g = NoFid
      /\ op \in {"attach", "walk"} =>
            g \in Fids /\ view[g] = NoPath /\ \A u \in Tags : ~Names(u, g)
      /\ ~Moves(op) => view' = view
      /\ Moves(op) =>   /\ view'[f] = NoPath
                         /\ \A h \in Fids \ {f} : view'[h] = view[h]
    BY DEF Send, Idle, TypeOK
<1>6. StageInv'
    BY <1>1, <1>2, <1>3, <1>5 DEF SrvInv, StageInv, Before
<1>7. ExclusiveInv'
  <2> DEFINE Apart(v, x) == x # req'[v].fid /\ x # req'[v].newfid
  <2> SUFFICES ASSUME NEW u \in Tags, NEW v \in Tags, u # v,
                      Outstanding(u)', Outstanding(v)'
               PROVE  /\ Creates(req'[u].op) => Apart(v, req'[u].newfid)
                      /\ Moves(req'[u].op) => Apart(v, req'[u].fid)
      BY DEF ExclusiveInv, Names
  <2>1. CASE u = t
      BY <1>1, <1>5, <2>1 DEF Names
  <2>2. CASE v = t
    <3>1. /\ Creates(req[u].op) => req[u].newfid \in Fids /\ view[req[u].newfid] = NoPath
                                   /\ Names(u, req[u].newfid)
          /\ Moves(req[u].op) => req[u].fid \in Fids /\ view[req[u].fid] = NoPath
                                   /\ Names(u, req[u].fid)
        BY <1>1, <2>2 DEF SrvInv, StageInv, FollowInv, Names
    <3> QED BY <1>1, <1>5, <2>2, <3>1
  <2>3. CASE u # t /\ v # t
      BY <1>1, <2>3 DEF SrvInv, ExclusiveInv, Names
  <2> QED BY <2>1, <2>2, <2>3
<1>8. FollowInv'
  <2>1. ASSUME NEW u \in Tags \ {t}, Outstanding(u), Moves(op)
        PROVE  /\ req[u].fid \in Fids => view'[req[u].fid] = view[req[u].fid]
               /\ req[u].newfid \in Fids => view'[req[u].newfid] = view[req[u].newfid]
      BY <1>5, <2>1 DEF Names
  <2>2. /\ op \in {"attach", "walk"} => fids[g] = NoPath
        /\ op # "attach" => fids[f] # NoPath /\ fids[f] = view[f]
      BY <1>5 DEF SrvInv, NoOrphan, ViewMatches
  <2>3. ASSUME NEW u \in Tags \ {t}, Outstanding(u)'
        PROVE  FollowInv!(u)!2'
      BY <1>1, <1>3, <1>5, <2>1, <2>3 DEF SrvInv, StageInv, FollowInv
  <2>4. FollowInv!(t)!2'
      BY <1>1, <1>2, <1>5, <2>2
  <2> QED BY <2>3, <2>4 DEF FollowInv
<1>9. ViewMatches'
    BY <1>1, <1>5 DEF SrvInv, ViewMatches
<1>10. NoOrphan'
  <2> SUFFICES ASSUME NEW h \in Fids, fids'[h] # NoPath, view'[h] = NoPath
               PROVE  \E u \in Tags : Names(u, h)'
      BY DEF NoOrphan
  <2>1. CASE view[h] = NoPath
    <3>1. PICK u \in Tags : Names(u, h)
        BY <1>1, <2>1 DEF SrvInv, NoOrphan
    <3> QED BY <1>2, <1>3, <3>1 DEF Names
  <2>2. CASE view[h] # NoPath
      BY <1>4, <1>5, <2>2
  <2> QED BY <2>1, <2>2
<1> QED BY <1>6, <1>7, <1>8, <1>9, <1>10 DEF SrvInv

(* The client receives a reply.                                            *)
LEMMA InvReceive ==
    ASSUME TypeOK, SrvInv, NEW t \in Tags, Receive(t)
    PROVE  SrvInv'
<1> USE Fields, PathAssumption DEF Ops, Looks, Creates, Moves, Outstanding
<1>1. /\ req'[t] = Free /\ \A u \in Tags \ {t} : req'[u] = req[u]
      /\ UNCHANGED fids
    BY DEF Receive, TypeOK
<1>2. Outstanding(t) /\ ~Outstanding(t)' /\ req[t].st = "applied"
      /\ req[t].res \in {"ok", "error"}
    BY <1>1 DEF Receive, Free, SrvInv, StageInv, Before, After
<1>3. \A u \in Tags \ {t} :
        /\ Before(u)' <=> Before(u)
        /\ After(u)' <=> After(u)
        /\ \A h : Names(u, h)' <=> Names(u, h)
    BY <1>1 DEF Names, Before, After
<1>4. \A h : ~Names(t, h)'
    BY <1>2 DEF Names
<1> DEFINE g == req[t].newfid
           made == Creates(req[t].op) /\ req[t].res = "ok"
           x == IF made THEN g ELSE req[t].fid
           set == made \/ req[t].op = "create"
<1>5. /\ ~set => view' = view
      /\ set => /\ x \in Fids /\ view'[x] = req[t].path
                /\ fids[x] = req[t].path
                /\ \A u \in Tags \ {t} : ~Names(u, x)
                /\ \A h \in Fids \ {x} : view'[h] = view[h]
  <2>1. set => x \in Fids /\ \A u \in Tags \ {t} : ~Names(u, x)
      BY <1>2 DEF SrvInv, StageInv, ExclusiveInv, Names
  <2>2. set => fids[x] = req[t].path
      BY <1>2 DEF SrvInv, FollowInv, After
  <2> QED BY <2>1, <2>2 DEF Receive, TypeOK
<1>6. StageInv'
    BY <1>1, <1>2, <1>3 DEF SrvInv, StageInv, Free
<1>7. ExclusiveInv'
    BY <1>1, <1>2, <1>3 DEF SrvInv, ExclusiveInv
<1>8. FollowInv'
  <2>1. ASSUME NEW u \in Tags \ {t}, Outstanding(u)
        PROVE  /\ req[u].fid \in Fids => view'[req[u].fid] = view[req[u].fid]
               /\ req[u].newfid \in Fids => view'[req[u].newfid] = view[req[u].newfid]
      BY <1>5, <2>1 DEF Names
  <2> QED BY <1>1, <1>2, <1>3, <2>1 DEF SrvInv, StageInv, FollowInv
<1>9. ViewMatches'
    BY <1>1, <1>5 DEF SrvInv, ViewMatches
<1>10. NoOrphan'
  <2> SUFFICES ASSUME NEW h \in Fids, fids[h] # NoPath, view'[h] = NoPath
               PROVE  \E u \in Tags : Names(u, h)'
      BY <1>1 DEF NoOrphan
  <2>1. view[h] = NoPath
      BY <1>5 DEF SrvInv
  <2>2. PICK u \in Tags : Names(u, h)
      BY <2>1 DEF SrvInv, NoOrphan
  <2>3. u # t
    <3>1. SUFFICES ASSUME u = t PROVE FALSE
        OBVIOUS
    <3>2. CASE Creates(req[t].op) /\ h = g
        BY <1>2, <1>5, <3>2 DEF SrvInv, FollowInv, Before
    <3>3. CASE ~(Creates(req[t].op) /\ h = g)
      <4>1. h = req[t].fid
          BY <2>2, <3>1, <3>3, <1>2 DEF Names, SrvInv, StageInv
      <4>2. req[t].op # "create"
          BY <1>2, <1>5, <4>1 DEF SrvInv, FollowInv
      <4> QED BY <1>2, <2>1, <4>1, <4>2
              DEF SrvInv, StageInv, FollowInv, After, Before
    <3> QED BY <3>2, <3>3
  <2> QED BY <1>3, <2>2, <2>3
<1> QED BY <1>6, <1>7, <1>8, <1>9, <1>10 DEF SrvInv

(* SrvInv holds when dispatch begins, with an empty table.                 *)
LEMMA InvInit == Init => SrvInv
BY PathAssumption
   DEF Moves, Init, Free, SrvInv, StageInv, ExclusiveInv, FollowInv, ViewMatches,
       NoOrphan, Outstanding, Creates, Looks

(* The table is the client's view of it, up to the requests on their way.  *)
THEOREM Invariant == Spec => []SrvInv
<1>1. SrvInv /\ TypeOK /\ [Next]_vars => SrvInv'
  <2> SUFFICES ASSUME SrvInv, TypeOK, [Next]_vars PROVE SrvInv'
      OBVIOUS
  <2>1. CASE UNCHANGED vars
      BY <2>1 DEF vars, SrvInv, StageInv, ExclusiveInv, FollowInv, ViewMatches,
                  NoOrphan, Outstanding, Names, Before, After
  <2>2. ASSUME NEW t \in Tags, NEW op \in Ops,
               NEW f \in Fids \cup {NoFid}, NEW g \in Fids \cup {NoFid},
               Send(t, op, f, g)
        PROVE  SrvInv'
      BY <2>2, InvSend
  <2>3. ASSUME NEW t \in Tags, Receive(t) PROVE SrvInv'
      BY <2>3, InvReceive
  <2>4. ASSUME NEW t \in Tags, TaskStep(t) PROVE SrvInv'
      BY <2>4, InvTask, InvCreate, InvApply DEF TaskStep
  <2> QED BY <2>1, <2>2, <2>3, <2>4 DEF Next
<1> QED BY <1>1, InvInit, TypeCorrect, PTL DEF Spec

(* A client that keeps to the rules never gets EBADF from get_fid.         *)
THEOREM NoBadFidHolds == Spec => []NoBadFid
<1>1. SrvInv => NoBadFid
    BY DEF SrvInv, StageInv, NoBadFid, Before, After, Outstanding, Free
<1> QED BY <1>1, Invariant, PTL

(* The table gives every fid of the client the path it was walked to.      *)
THEOREM ViewMatchesHolds == Spec => []ViewMatches
<1>1. SrvInv => ViewMatches
    BY DEF SrvInv
<1> QED BY <1>1, Invariant, PTL

(* Nothing stays in the table once its fid is clunked.                     *)
THEOREM NoFidLeakHolds == Spec => []NoFidLeak
<1>1. SrvInv => NoFidLeak
    BY DEF SrvInv, NoOrphan, NoFidLeak, Names
<1> QED BY <1>1, Invariant, PTL

(* The dispatcher implements the table its client counts on: the only      *)
(* steps that change it are those under the write lock, and the end of a   *)
(* create; at each the fid that was looked up earlier is still there.      *)
THEOREM Refinement == Spec => ImplementsFidTable
<1>1. Init => Table!TableInit
    BY DEF Init, Table!TableInit
<1>2. TypeOK /\ SrvInv /\ [Next]_vars => [Table!TableNext]_fids
  <2> SUFFICES ASSUME TypeOK, SrvInv, [Next]_vars, fids' # fids
               PROVE  Table!TableNext
      OBVIOUS
  <2>1. PICK t \in Tags : Apply(t) \/ \E p \in Paths : OpEnds(t, p)
      BY DEF vars, Next, Send, Receive, TaskStep, Lookup, OpFails, AfterOp
  <2> DEFINE f == req[t].fid
             g == req[t].newfid
             p == req[t].path
  <2>2. ASSUME NEW q \in Paths, OpEnds(t, q) PROVE Table!TableNext
    <3>1. req[t].op = "create" /\ Outstanding(t)
        BY <2>2 DEF OpEnds, Outstanding
    <3>2. f \in Fids /\ fids[f] # NoPath
        BY <3>1 DEF SrvInv, StageInv, FollowInv, Looks
    <3>3. Table!Create(f, q)
        BY <2>2, <3>1, <3>2 DEF OpEnds, Table!Create
    <3> QED BY <3>2, <3>3 DEF Table!TableNext
  <2>3. CASE Apply(t)
    <3>1. /\ Outstanding(t) /\ Before(t) /\ p \in Paths
          /\ req[t].op \in {"attach", "walk", "clunk"}
          /\ req[t].op = "attach" => p = Root
        BY <2>3, Fields DEF Apply, SrvInv, StageInv, Outstanding, Before, Ops
    <3>2. CASE req[t].op = "clunk"
      <4>1. f \in Fids /\ fids[f] # NoPath
          BY <3>1, <3>2 DEF SrvInv, StageInv, FollowInv, Looks
      <4>2. Table!Clunk(f)
          BY <2>3, <3>2, <4>1 DEF Apply, Table!Clunk
      <4> QED BY <4>1, <4>2 DEF Table!TableNext
    <3>3. CASE req[t].op = "attach"
      <4>1. g \in Fids /\ fids[g] = NoPath
          BY <3>1, <3>3 DEF SrvInv, StageInv, FollowInv, Creates
      <4>2. Table!Attach(g)
          BY <2>3, <3>1, <3>3, <4>1 DEF Apply, Table!Attach
      <4> QED BY <4>1, <4>2 DEF Table!TableNext
    <3>4. CASE req[t].op = "walk"
      <4>1. g \in Fids /\ fids[g] = NoPath /\ f \in Fids /\ fids[f] # NoPath
          BY <3>1, <3>4
             DEF SrvInv, StageInv, FollowInv, ViewMatches, Creates, Looks
      <4>2. Table!Walk(f, g, p)
          BY <2>3, <3>4, <4>1 DEF Apply, Table!Walk
      <4> QED BY <3>1, <4>1, <4>2 DEF Table!TableNext
    <3> QED BY <3>1, <3>2, <3>3, <3>4
  <2> QED BY <2>1, <2>2, <2>3
<1> QED BY <1>1, <1>2, TypeCorrect, Invariant, PTL
        DEF Spec, ImplementsFidTable, Table!TableSpec
=============================================================================
