------------------------ MODULE SessionServerProofs ------------------------
(***************************************************************************)
(* Theorems about SessionServer, for any sets of ids and calls.            *)
(***************************************************************************)
EXTENDS SessionServer, TLAPS

-----------------------------------------------------------------------------
(* Updating one field of the record of a call keeps its type.              *)

(* The record of a start call.                                             *)
LEMMA StartUpdate ==
    ASSUME NEW f \in [Starts -> StartCall], NEW c \in Starts
    PROVE  \A p \in StartPcs : [f EXCEPT ![c].pc = p] \in [Starts -> StartCall]
BY DEF StartCall

(* The record of a stdin, stdout or stderr call.                           *)
LEMMA StreamUpdate ==
    ASSUME NEW f \in [Streams -> StreamCall], NEW r \in Streams
    PROVE  /\ \A p \in StreamPcs :
                 [f EXCEPT ![r].pc = p] \in [Streams -> StreamCall]
           /\ \A s \in Sids : [f EXCEPT ![r].sid = s] \in [Streams -> StreamCall]
           /\ \A fd \in {"stdin", "stdout", "stderr"} :
                 [f EXCEPT ![r].fd = fd] \in [Streams -> StreamCall]
           /\ \A c \in Starts \cup {NoSession} :
                 /\ [f EXCEPT ![r].src = c] \in [Streams -> StreamCall]
                 /\ [f EXCEPT ![r].of = c] \in [Streams -> StreamCall]
BY DEF StreamCall

(* The record of a wait call.                                              *)
LEMMA WaitUpdate ==
    ASSUME NEW f \in [Waits -> WaitCall], NEW w \in Waits
    PROVE  /\ \A p \in WaitPcs : [f EXCEPT ![w].pc = p] \in [Waits -> WaitCall]
           /\ \A s \in Sids : [f EXCEPT ![w].sid = s] \in [Waits -> WaitCall]
           /\ \A c \in Starts \cup {NoSession} :
                 /\ [f EXCEPT ![w].src = c] \in [Waits -> WaitCall]
                 /\ [f EXCEPT ![w].of = c] \in [Waits -> WaitCall]
           /\ \A i \in Nat \ {0} : [f EXCEPT ![w].i = i] \in [Waits -> WaitCall]
           /\ \A T \in SUBSET Tasks :
                 [f EXCEPT ![w].opened = T] \in [Waits -> WaitCall]
BY DEF WaitCall

(* The program counters the actions use.                                   *)
LEMMA Pcs ==
    /\ {"idle", "lock", "accept", "ok", "error", "cancelled"} \subseteq StartPcs
    /\ {"idle", "get", "stdin", "writing", "register", "push", "ok", "error",
        "cancelled"} \subseteq StreamPcs
    /\ {"idle", "get", "child", "handles", "lock", "join", "remove", "ok",
        "error", "panicked", "cancelled"} \subseteq WaitPcs
BY DEF StartPcs, StreamPcs, WaitPcs, Finished

(* The fields of the calls have their types.                               *)
LEMMA Fields ==
    ASSUME TypeOK
    PROVE  /\ \A c \in Starts : /\ start[c].sid \in Sids
                                /\ start[c].fwd \in Forwards \cup {NoTask}
           /\ \A r \in Streams : /\ stream[r].sid \in Sids
                                 /\ stream[r].src \in Starts \cup {NoSession}
                                 /\ stream[r].of \in Starts \cup {NoSession}
           /\ \A w \in Waits : /\ wait[w].sid \in Sids
                               /\ wait[w].src \in Starts \cup {NoSession}
                               /\ wait[w].of \in Starts \cup {NoSession}
                               /\ wait[w].i \in Nat \ {0}
<1>1. \A c \in Starts : start[c] \in StartCall
    BY DEF TypeOK
<1>2. \A r \in Streams : stream[r] \in StreamCall
    BY DEF TypeOK
<1>3. \A w \in Waits : wait[w] \in WaitCall
    BY DEF TypeOK
<1> QED
  <2>1. \A c \in Starts : /\ start[c].sid \in Sids
                          /\ start[c].fwd \in Forwards \cup {NoTask}
      BY <1>1 DEF StartCall
  <2>2. \A r \in Streams : /\ stream[r].sid \in Sids
                           /\ stream[r].src \in Starts \cup {NoSession}
                           /\ stream[r].of \in Starts \cup {NoSession}
      BY <1>2 DEF StreamCall
  <2>3. \A w \in Waits : /\ wait[w].sid \in Sids
                         /\ wait[w].src \in Starts \cup {NoSession}
                         /\ wait[w].of \in Starts \cup {NoSession}
                         /\ wait[w].i \in Nat \ {0}
      BY <1>3 DEF WaitCall
  <2> QED BY <2>1, <2>2, <2>3

-----------------------------------------------------------------------------
(* Type correctness, one lemma for each group of handlers.                 *)

(* dial, ninep_forward and start.                                          *)
LEMMA TypeStart ==
    ASSUME TypeOK, NEW c \in Starts,
           StartStep(c) \/ StartCancelled(c) \/ ChildStep(c)
    PROVE  TypeOK'
<1> USE Fields, Pcs, StartUpdate DEF TypeOK, StartVars
<1>1. CASE StartFails(c)
    BY <1>1 DEF StartFails
<1>2. CASE StartLaunches(c)
  <2>1. start' \in [Starts -> StartCall]
      BY <1>2 DEF StartLaunches
  <2>2. <<start[c].fwd>> \in Seq(Tasks) \/ start[c].fwd = NoTask
      BY DEF Tasks
  <2>3. handles' \in [Starts -> Seq(Tasks)]
      BY <1>2, <2>2 DEF StartLaunches
  <2> QED BY <1>2, <2>1, <2>3 DEF StartLaunches
<1>3. CASE StartInserts(c)
    BY <1>3 DEF StartInserts
<1>4. CASE StartSendFails(c)
    BY <1>4 DEF StartSendFails
<1>5. CASE StartCancelled(c)
    BY <1>5 DEF StartCancelled
<1>6. CASE ChildStep(c)
    BY <1>6 DEF ChildStep, LauncherConnects, LauncherAborts, ChildExits,
                ChildVars
<1> QED BY <1>1, <1>2, <1>3, <1>4, <1>5, <1>6 DEF StartStep

(* The calls that arrive: dial, ninep_forward and the first step of start. *)
LEMMA TypeArrive ==
    ASSUME TypeOK, NEW s \in Sids,
           \/ Dial(s)
           \/ \E f \in Forwards : NinepForward(f, s)
           \/ \E c \in Starts, np \in BOOLEAN :
                    StartTakesPending(c, s, np) \/ StartNotPending(c, s, np)
    PROVE  TypeOK'
<1>1. CASE Dial(s)
    BY <1>1 DEF Dial, TypeOK
<1>2. ASSUME NEW f \in Forwards, NinepForward(f, s) PROVE TypeOK'
    BY <1>2 DEF NinepForward, TypeOK, Tasks
<1>3. ASSUME NEW c \in Starts, NEW np \in BOOLEAN, StartTakesPending(c, s, np)
      PROVE TypeOK'
  <2>1. [pc |-> "lock", sid |-> s, ninep |-> np, fwd |-> ninep[s]] \in StartCall
      BY Pcs DEF StartCall, TypeOK
  <2> QED BY <1>3, <2>1 DEF StartTakesPending, StartVars, TypeOK
<1>4. ASSUME NEW c \in Starts, NEW np \in BOOLEAN, StartNotPending(c, s, np)
      PROVE TypeOK'
  <2>1. [pc |-> "error", sid |-> s, ninep |-> np, fwd |-> NoTask] \in StartCall
      BY Pcs DEF StartCall
  <2> QED BY <1>4, <2>1 DEF StartNotPending, StartVars, TypeOK
<1> QED BY <1>1, <1>2, <1>3, <1>4

(* stdin, stdout, stderr and the forwarding tasks.                         *)
LEMMA TypeStream ==
    ASSUME TypeOK, NEW r \in Streams,
           \/ \E s \in Sids, fd \in {"stdin", "stdout", "stderr"} :
                    StreamCalled(r, s, fd)
           \/ StreamStep(r) \/ StdinEnds(r) \/ StreamCancelled(r) \/ CopyEnds(r)
    PROVE  TypeOK'
<1> USE Fields, Pcs, StreamUpdate DEF TypeOK, StreamVars
<1>1. ASSUME NEW s \in Sids, NEW fd \in {"stdin", "stdout", "stderr"},
             StreamCalled(r, s, fd)
      PROVE TypeOK'
    BY <1>1 DEF StreamCalled
<1>2. CASE StreamGets(r)
  <2>1. stream' \in [Streams -> StreamCall]
      BY <1>2 DEF StreamGets
  <2> QED BY <1>2, <2>1 DEF StreamGets, Tasks
<1>3. CASE StreamGetsHandles(r)
    BY <1>3 DEF StreamGetsHandles
<1>4. CASE StreamNoSession(r)
    BY <1>4 DEF StreamNoSession
<1>5. CASE StreamPushes(r)
  <2>1. stream' \in [Streams -> StreamCall]
      BY <1>5 DEF StreamPushes
  <2>2. \A hs \in Seq(Tasks) : Append(hs, r) \in Seq(Tasks)
      BY DEF Tasks
  <2>3. handles' \in [Starts -> Seq(Tasks)]
      BY <1>5, <2>2 DEF StreamPushes
  <2> QED BY <1>5, <2>1, <2>3 DEF StreamPushes
<1>6. CASE StdinLocks(r)
    BY <1>6 DEF StdinLocks
<1>7. CASE StdinEnds(r)
  <2>1. PICK res \in {"ok", "error"} : stream' = [stream EXCEPT ![r].pc = res]
      BY <1>7 DEF StdinEnds
  <2>2. stream' \in [Streams -> StreamCall]
      BY <2>1
  <2> QED BY <1>7, <2>2 DEF StdinEnds
<1>8. CASE StreamCancelled(r)
    BY <1>8 DEF StreamCancelled
<1>9. CASE CopyEnds(r)
    BY <1>9 DEF CopyEnds, TaskVars, Tasks
<1> QED BY <1>1, <1>2, <1>3, <1>4, <1>5, <1>6, <1>7, <1>8, <1>9 DEF StreamStep

(* A wait call that locks a vector of handles knows whose it is.           *)
Owner == \A w \in Waits :
    wait[w].pc \in {"lock", "join"} => wait[w].of \in Starts

(* wait.                                                                   *)
LEMMA TypeWait ==
    ASSUME TypeOK, Owner, NEW w \in Waits,
           \/ \E s \in Sids : WaitCalled(w, s)
           \/ WaitStep(w) \/ WaitCancelled(w)
    PROVE  TypeOK'
<1> USE Fields, Pcs, WaitUpdate DEF TypeOK, WaitVars
<1>1. ASSUME NEW s \in Sids, WaitCalled(w, s) PROVE TypeOK'
    BY <1>1 DEF WaitCalled
<1>2. CASE WaitGetsChild(w)
    BY <1>2 DEF WaitGetsChild
<1>3. CASE WaitChildDone(w)
    BY <1>3 DEF WaitChildDone
<1>4. CASE WaitGetsHandles(w)
    BY <1>4 DEF WaitGetsHandles
<1>5. CASE WaitNoSession(w)
    BY <1>5 DEF WaitNoSession
<1>6. CASE WaitLocksHandles(w)
  <2>1. 1 \in Nat \ {0}
      OBVIOUS
  <2> QED BY <1>6, <2>1 DEF WaitLocksHandles
<1>7. CASE WaitJoins(w)
  <2>1. wait' \in [Waits -> WaitCall]
    <3>1. wait[w].i + 1 \in Nat \ {0}
        OBVIOUS
    <3>2. wait' = [wait EXCEPT ![w].i = wait[w].i + 1]
        BY <1>7 DEF WaitJoins
    <3> QED BY <3>1, <3>2
  <2>2. joined' \subseteq Tasks
    <3> DEFINE h == handles[wait[w].of][wait[w].i]
    <3>1. handles[wait[w].of] \in Seq(Tasks)
        BY <1>7 DEF Owner, WaitJoins
    <3>2. h \in Tasks
        BY <1>7, <3>1 DEF WaitJoins
    <3> QED BY <1>7, <3>2 DEF WaitJoins
  <2> QED BY <1>7, <2>1, <2>2 DEF WaitJoins
<1>8. CASE WaitPanics(w)
    BY <1>8 DEF WaitPanics
<1>9. CASE WaitUnlocksHandles(w)
    BY <1>9 DEF WaitUnlocksHandles
<1>10. CASE WaitRemoves(w)
    BY <1>10 DEF WaitRemoves
<1>11. CASE WaitCancelled(w)
    BY <1>11 DEF WaitCancelled
<1> QED BY <1>1, <1>2, <1>3, <1>4, <1>5, <1>6, <1>7, <1>8, <1>9, <1>10, <1>11
        DEF WaitStep

(* Only the second get_session of wait sets it.                            *)
LEMMA OwnerStep == TypeOK /\ Owner /\ [Next]_vars => Owner'
<1> SUFFICES ASSUME TypeOK, Owner, [Next]_vars PROVE Owner'
    OBVIOUS
<1> USE Fields DEF Owner
<1>1. CASE UNCHANGED wait
    BY <1>1
<1>2. ASSUME NEW w \in Waits, NEW s \in Sids, WaitCalled(w, s) PROVE Owner'
    BY <1>2 DEF WaitCalled, TypeOK, WaitCall
<1>3. ASSUME NEW w \in Waits, WaitStep(w) PROVE Owner'
  <2>1. CASE WaitGetsChild(w)
      BY <2>1 DEF WaitGetsChild, TypeOK, WaitCall
  <2>2. CASE WaitChildDone(w)
      BY <2>2 DEF WaitChildDone, TypeOK, WaitCall
  <2>3. CASE WaitGetsHandles(w)
      BY <2>3 DEF WaitGetsHandles, TypeOK, WaitCall
  <2>4. CASE WaitNoSession(w)
      BY <2>4 DEF WaitNoSession, TypeOK, WaitCall
  <2>5. CASE WaitLocksHandles(w)
      BY <2>5 DEF WaitLocksHandles, TypeOK, WaitCall
  <2>6. CASE WaitJoins(w)
      BY <2>6 DEF WaitJoins, TypeOK, WaitCall
  <2>7. CASE WaitPanics(w)
      BY <2>7 DEF WaitPanics, TypeOK, WaitCall
  <2>8. CASE WaitUnlocksHandles(w)
      BY <2>8 DEF WaitUnlocksHandles, TypeOK, WaitCall
  <2>9. CASE WaitRemoves(w)
      BY <2>9 DEF WaitRemoves, TypeOK, WaitCall
  <2> QED BY <1>3, <2>1, <2>2, <2>3, <2>4, <2>5, <2>6, <2>7, <2>8, <2>9
          DEF WaitStep
<1>4. ASSUME NEW w \in Waits, WaitCancelled(w) PROVE Owner'
    BY <1>4 DEF WaitCancelled, TypeOK, WaitCall
<1> QED
    BY <1>1, <1>2, <1>3, <1>4 DEF Next, vars, Dial, NinepForward,
       StartTakesPending, StartNotPending, StartStep, StartFails, StartLaunches,
       StartInserts, StartSendFails, StartCancelled, StartVars, ChildStep,
       LauncherConnects, LauncherAborts, ChildExits, ChildVars, StreamCalled,
       StreamStep, StreamGets, StreamGetsHandles, StreamNoSession, StreamPushes,
       StdinLocks, StdinEnds, StreamCancelled, StreamVars, CopyEnds, ForwardEnds,
       TaskVars

(* Every step of every handler keeps the types.                            *)
LEMMA TypeStep == TypeOK /\ Owner /\ [Next]_vars => TypeOK'
<1> SUFFICES ASSUME TypeOK, Owner, [Next]_vars PROVE TypeOK'
    OBVIOUS
<1>1. CASE UNCHANGED vars
    BY <1>1 DEF vars, TypeOK
<1>2. ASSUME NEW f \in Forwards, ForwardEnds(f) PROVE TypeOK'
    BY <1>2 DEF ForwardEnds, TaskVars, TypeOK, Tasks
<1> QED
    BY <1>1, <1>2, TypeArrive, TypeStart, TypeStream, TypeWait DEF Next

(* The tables, locks and calls of server.rs keep their types.              *)
THEOREM TypeCorrect == Spec => []TypeOK
<1>1. Init => TypeOK /\ Owner
  <2> SUFFICES ASSUME Init PROVE TypeOK /\ Owner
      OBVIOUS
  <2>1. PICK s0 \in Sids :
          /\ start = [c \in Starts |-> [pc |-> "idle", sid |-> s0,
                          ninep |-> FALSE, fwd |-> NoTask]]
          /\ stream = [r \in Streams |-> [pc |-> "idle", sid |-> s0,
                          fd |-> "stdin", src |-> NoSession, of |-> NoSession]]
          /\ wait = [w \in Waits |-> [pc |-> "idle", sid |-> s0,
                          src |-> NoSession, of |-> NoSession, i |-> 1,
                          opened |-> {}]]
      BY DEF Init
  <2>2. start \in [Starts -> StartCall]
      BY <2>1, Pcs DEF StartCall
  <2>3. stream \in [Streams -> StreamCall]
      BY <2>1, Pcs DEF StreamCall
  <2>4. wait \in [Waits -> WaitCall]
      BY <2>1, Pcs DEF WaitCall
  <2>5. Owner
      BY <2>1 DEF Owner
  <2>6. handles \in [Starts -> Seq(Tasks)]
      BY DEF Init
  <2> QED BY <2>2, <2>3, <2>4, <2>5, <2>6 DEF Init, TypeOK
<1>2. TypeOK /\ Owner /\ [Next]_vars => TypeOK' /\ Owner'
    BY TypeStep, OwnerStep
<1> QED BY <1>1, <1>2, PTL DEF Spec

-----------------------------------------------------------------------------
(* The lock and the table.                                                 *)

(* What a change of a start call's program counter leaves alone.           *)
LEMMA StartPc ==
    ASSUME TypeOK, NEW c \in Starts, NEW p,
           start' = [start EXCEPT ![c].pc = p]
    PROVE  /\ start'[c].pc = p
           /\ \A d \in Starts : start'[d].sid = start[d].sid
           /\ \A d \in Starts \ {c} : start'[d] = start[d]
<1>1. start[c] \in StartCall
    BY DEF TypeOK
<1>2. start'[c] = [start[c] EXCEPT !.pc = p]
    BY DEF TypeOK
<1> QED BY <1>1, <1>2 DEF StartCall, TypeOK

(* LockInv is kept by every step: it does not depend on where ids come     *)
(* from.                                                                   *)
LEMMA LockStep == TypeOK /\ LockInv /\ [Next]_vars => LockInv'
<1> SUFFICES ASSUME TypeOK, LockInv, [Next]_vars PROVE LockInv'
    OBVIOUS
<1> USE Fields, NoneAssumption
<1>1. CASE UNCHANGED <<start, writer, sessions>>
    BY <1>1 DEF LockInv
<1>2. ASSUME NEW c \in Starts, NEW s \in Sids, NEW np \in BOOLEAN,
             StartTakesPending(c, s, np) \/ StartNotPending(c, s, np)
      PROVE LockInv'
  <2>1. /\ start[c].pc = "idle"
        /\ start'[c].pc # "accept"
        /\ \A d \in Starts \ {c} : start'[d] = start[d]
        /\ UNCHANGED <<writer, sessions>>
      BY <1>2 DEF StartTakesPending, StartNotPending, TypeOK
  <2> QED BY <2>1, ZenonT(60) DEF LockInv, TypeOK
<1>3. ASSUME NEW c \in Starts, StartStep(c) PROVE LockInv'
  <2>1. CASE StartFails(c)
      BY <2>1, StartPc DEF StartFails, LockInv, TypeOK
  <2>2. CASE StartLaunches(c)
      BY <2>2, StartPc DEF StartLaunches, LockInv, TypeOK
  <2>3. CASE StartInserts(c)
      BY <2>3, StartPc DEF StartInserts, LockInv, TypeOK
  <2>4. CASE StartSendFails(c)
      BY <2>4, StartPc DEF StartSendFails, LockInv, TypeOK
  <2> QED BY <1>3, <2>1, <2>2, <2>3, <2>4 DEF StartStep
<1>4. ASSUME NEW c \in Starts, StartCancelled(c) PROVE LockInv'
    BY <1>4, StartPc DEF StartCancelled, LockInv, TypeOK
<1>5. ASSUME NEW w \in Waits, WaitRemoves(w) PROVE LockInv'
    BY <1>5 DEF WaitRemoves, WaitVars, LockInv, Readable, TypeOK
<1>6. ASSUME NEW w \in Waits, WaitStep(w), ~WaitRemoves(w) PROVE LockInv'
  <2>1. UNCHANGED <<start, writer, sessions>>
      BY <1>6 DEF WaitStep, WaitGetsChild, WaitChildDone, WaitGetsHandles,
         WaitNoSession, WaitLocksHandles, WaitJoins, WaitPanics,
         WaitUnlocksHandles, WaitVars
  <2> QED BY <1>1, <2>1
<1>7. ASSUME NEW r \in Streams, StreamStep(r) PROVE LockInv'
  <2>1. UNCHANGED <<start, writer, sessions>>
      BY <1>7 DEF StreamStep, StreamGets, StreamGetsHandles, StreamNoSession,
         StreamPushes, StdinLocks, StreamVars
  <2> QED BY <1>1, <2>1
<1> QED
    BY <1>1, <1>2, <1>3, <1>4, <1>5, <1>6, <1>7 DEF Next, vars, Dial,
       NinepForward, ChildStep, LauncherConnects, LauncherAborts, ChildExits,
       ChildVars, StreamCalled, StdinEnds, StreamCancelled, StreamVars, CopyEnds,
       ForwardEnds, TaskVars, WaitCalled, WaitCancelled, WaitVars

(* A new Server holds no lock.                                             *)
LEMMA LockInit == Init => LockInv
BY DEF Init, LockInv

(* start never replaces the session of an id (server.rs, the check for     *)
(* DuplicateId and the insertion under one write lock), whether or not     *)
(* ids are reused.                                                         *)
THEOREM NotReplaced == Spec => LiveSessionNotReplaced
<1> DEFINE NotReplacedStep == \A s \in Sids : sessions[s] # NoSession
                                  => sessions'[s] \in {sessions[s], NoSession}
<1>1. TypeOK /\ LockInv /\ [Next]_vars => [NotReplacedStep]_vars
  <2> SUFFICES ASSUME TypeOK, LockInv, Next PROVE NotReplacedStep
      BY DEF vars
  <2>1. CASE UNCHANGED sessions
      BY <2>1
  <2>2. ASSUME NEW c \in Starts, StartInserts(c) PROVE NotReplacedStep
      BY <2>2, Fields DEF StartInserts, LockInv, TypeOK
  <2>3. ASSUME NEW w \in Waits, WaitRemoves(w) PROVE NotReplacedStep
      BY <2>3, Fields DEF WaitRemoves, TypeOK
  <2>4. ASSUME NEW w \in Waits, WaitStep(w), ~WaitRemoves(w)
        PROVE UNCHANGED sessions
      BY <2>4 DEF WaitStep, WaitGetsChild, WaitChildDone, WaitGetsHandles,
         WaitNoSession, WaitLocksHandles, WaitJoins, WaitPanics,
         WaitUnlocksHandles
  <2> QED
      BY <2>1, <2>2, <2>3, <2>4 DEF Next, Dial, NinepForward,
         StartTakesPending, StartNotPending, StartStep, StartFails,
         StartLaunches, StartSendFails, StartCancelled, ChildStep,
         LauncherConnects, LauncherAborts, ChildExits, ChildVars, StreamCalled,
         StreamStep, StreamGets, StreamGetsHandles, StreamNoSession,
         StreamPushes, StdinLocks, StdinEnds, StreamCancelled, StreamVars,
         CopyEnds, ForwardEnds, TaskVars, WaitCalled, WaitCancelled
<1>2. Spec => []LockInv
  <2>1. TypeOK /\ LockInv /\ [Next]_vars => LockInv'
      BY LockStep
  <2> QED BY LockInit, <2>1, TypeCorrect, PTL DEF Spec
<1> QED BY <1>1, <1>2, TypeCorrect, PTL DEF Spec, LiveSessionNotReplaced

-----------------------------------------------------------------------------
(* Fresh ids: one process for each id, and no program without a session.   *)

(* What a change of a wait call's record leaves alone.                     *)
LEMMA WaitPc ==
    ASSUME TypeOK, NEW w \in Waits, NEW p, wait' = [wait EXCEPT ![w].pc = p]
    PROVE  /\ wait'[w].pc = p
           /\ \A v \in Waits : wait'[v].sid = wait[v].sid
           /\ \A v \in Waits : wait'[v].src = wait[v].src
           /\ \A v \in Waits \ {w} : wait'[v] = wait[v]
<1>1. wait[w] \in WaitCall
    BY DEF TypeOK
<1>2. wait'[w] = [wait[w] EXCEPT !.pc = p]
    BY DEF TypeOK
<1> QED BY <1>1, <1>2 DEF WaitCall, TypeOK

(* The sessions in the table belong to start calls that spawned a child.   *)
LEMMA TableOwner ==
    ASSUME TypeOK, IdInv, NEW s \in Sids, sessions[s] # NoSession
    PROVE  /\ sessions[s] \in Starts
           /\ start[sessions[s]].sid = s
           /\ child[sessions[s]] # "none"
BY DEF TypeOK, IdInv

(* The handlers of start and the child keep who owns an id.                *)
LEMMA IdStep ==
    ASSUME FreshIds
    PROVE  TypeOK /\ TableInv /\ [Next]_vars => IdInv'
<1> SUFFICES ASSUME TypeOK, TableInv, [Next]_vars PROVE IdInv'
    OBVIOUS
<1> USE Fields, NoneAssumption DEF TableInv
<1>1. CASE UNCHANGED <<pending, dialed, start, child, sessions>>
    BY <1>1 DEF IdInv, Owns
<1>2. ASSUME NEW s \in Sids, Dial(s) PROVE IdInv'
    BY <1>2 DEF Dial, IdInv, Owns, TypeOK
<1>3. ASSUME NEW c \in Starts, NEW s \in Sids, NEW np \in BOOLEAN,
             StartTakesPending(c, s, np)
      PROVE IdInv'
  <2>1. /\ start[c].pc = "idle"
        /\ start'[c].pc = "lock" /\ start'[c].sid = s
        /\ \A d \in Starts \ {c} : start'[d] = start[d]
        /\ s \in pending /\ pending' = pending \ {s}
        /\ UNCHANGED <<dialed, child, sessions>>
      BY <1>3 DEF StartTakesPending, StartVars, TypeOK
  <2>2. child[c] = "none" /\ s \in dialed
      BY <2>1 DEF IdInv
  <2>3. \A d \in Starts \ {c} : Owns(d)' = Owns(d)
      BY <2>1 DEF Owns
  <2>4. \A d \in Starts \ {c} : Owns(d) => start[d].sid # s
      BY <2>1 DEF IdInv
  <2>5. \A e \in Sids : sessions[e] # NoSession =>
            sessions[e] \in Starts \ {c} /\ start[sessions[e]].sid = e
      BY <2>2, TableOwner
  <2>6. (\A d \in Starts :
            /\ start[d].pc \in {"idle", "lock"} => child[d] = "none"
            /\ start[d].pc = "accept" => child[d] # "running"
            /\ Owns(d) => start[d].sid \in dialed \ pending
            /\ child[d] = "running" => sessions[start[d].sid] = d)'
      BY <2>1, <2>2, <2>3, <2>4 DEF IdInv
  <2>7. (\A d, e \in Starts :
            Owns(d) /\ Owns(e) /\ start[d].sid = start[e].sid => d = e)'
      BY <2>1, <2>3, <2>4 DEF IdInv
  <2>8. (\A e \in Sids : sessions[e] # NoSession =>
            start[sessions[e]].sid = e /\ child[sessions[e]] # "none")'
      BY <2>1, <2>5, TableOwner
  <2> QED BY <2>1, <2>6, <2>7, <2>8 DEF IdInv
<1>4. ASSUME NEW c \in Starts, NEW s \in Sids, NEW np \in BOOLEAN,
             StartNotPending(c, s, np)
      PROVE IdInv'
  <2>1. /\ start[c].pc = "idle"
        /\ start'[c].pc = "error"
        /\ \A d \in Starts \ {c} : start'[d] = start[d]
        /\ UNCHANGED <<pending, dialed, child, sessions>>
      BY <1>4 DEF StartNotPending, StartVars, TypeOK
  <2>2. child[c] = "none"
      BY <2>1 DEF IdInv
  <2>3. /\ ~Owns(c)'
        /\ \A d \in Starts \ {c} : Owns(d)' = Owns(d)
      BY <2>1, <2>2 DEF Owns
  <2>4. \A e \in Sids : sessions[e] # NoSession =>
            sessions[e] \in Starts \ {c} /\ start[sessions[e]].sid = e
      BY <2>2, TableOwner
  <2>5. (\A e \in Sids : sessions[e] # NoSession =>
            start[sessions[e]].sid = e /\ child[sessions[e]] # "none")'
      BY <2>1, <2>4, TableOwner
  <2> QED BY <2>1, <2>2, <2>3, <2>5 DEF IdInv
<1>5. ASSUME NEW c \in Starts, StartStep(c) PROVE IdInv'
  <2>1. CASE StartFails(c)
      BY <2>1, StartPc DEF StartFails, StartVars, IdInv, Owns, TypeOK
  <2>2. CASE StartLaunches(c)
      BY <2>2, StartPc DEF StartLaunches, StartVars, IdInv, Owns, TypeOK
  <2>3. CASE StartInserts(c)
    <3>1. /\ start[c].pc = "accept" /\ start'[c].pc = "ok"
          /\ \A d \in Starts : start'[d].sid = start[d].sid
          /\ \A d \in Starts \ {c} : start'[d] = start[d]
          /\ child[c] # "none" /\ child'[c] # "none"
          /\ \A d \in Starts \ {c} : child'[d] = child[d]
          /\ sessions'[start[c].sid] = c
          /\ \A s \in Sids \ {start[c].sid} : sessions'[s] = sessions[s]
          /\ UNCHANGED <<pending, dialed>>
        BY <2>3, StartPc DEF StartInserts, StartVars, TypeOK
    <3>2. \A d \in Starts : Owns(d)' = Owns(d)
        BY <3>1 DEF Owns
    <3>3. \A d \in Starts \ {c} : Owns(d) => start[d].sid # start[c].sid
        BY <3>1 DEF IdInv, Owns
    <3>4. (\A d \in Starts :
              /\ start[d].pc \in {"idle", "lock"} => child[d] = "none"
              /\ start[d].pc = "accept" => child[d] # "running"
              /\ Owns(d) => start[d].sid \in dialed \ pending)'
        BY <3>1, <3>2 DEF IdInv
    <3>5. (\A d \in Starts : child[d] = "running" => sessions[start[d].sid] = d)'
        BY <3>1, <3>3 DEF IdInv, Owns
    <3>6. (\A d, e \in Starts :
              Owns(d) /\ Owns(e) /\ start[d].sid = start[e].sid => d = e)'
        BY <3>1, <3>2 DEF IdInv
    <3>7. (\A e \in Sids : sessions[e] # NoSession =>
              start[sessions[e]].sid = e /\ child[sessions[e]] # "none")'
      <4> SUFFICES ASSUME NEW e \in Sids, sessions'[e] # NoSession
                   PROVE  start'[sessions'[e]].sid = e /\ child'[sessions'[e]] # "none"
          OBVIOUS
      <4>1. CASE e = start[c].sid
          BY <3>1, <4>1
      <4>2. CASE e # start[c].sid
          BY <3>1, <4>2, TableOwner
      <4> QED BY <4>1, <4>2
    <3> QED BY <3>1, <3>4, <3>5, <3>6, <3>7 DEF IdInv
  <2>4. CASE StartSendFails(c)
      BY <2>4, StartPc DEF StartSendFails, StartVars, IdInv, Owns, TypeOK
  <2> QED BY <1>5, <2>1, <2>2, <2>3, <2>4 DEF StartStep
<1>6. ASSUME NEW c \in Starts, StartCancelled(c) PROVE IdInv'
    BY <1>6, StartPc DEF StartCancelled, StartVars, IdInv, Owns, TypeOK
<1>7. ASSUME NEW c \in Starts, ChildStep(c) PROVE IdInv'
    BY <1>7 DEF ChildStep, LauncherConnects, LauncherAborts, ChildExits,
                ChildVars, IdInv, Owns, TypeOK
<1>8. ASSUME NEW w \in Waits, WaitRemoves(w) PROVE IdInv'
  <2>1. /\ wait[w].src \in Starts
        /\ start[wait[w].src].sid = wait[w].sid
        /\ child[wait[w].src] = "exited"
      BY <1>8 DEF WaitRemoves, WaitInv
  <2>2. \A c \in Starts : start[c].sid = wait[w].sid => child[c] # "running"
      BY <2>1 DEF IdInv, Owns
  <2> QED BY <1>8, <2>2 DEF WaitRemoves, WaitVars, IdInv, Owns, TypeOK
<1>9. ASSUME NEW w \in Waits, WaitStep(w), ~WaitRemoves(w) PROVE IdInv'
  <2>1. UNCHANGED <<pending, dialed, start, child, sessions>>
      BY <1>9 DEF WaitStep, WaitGetsChild, WaitChildDone, WaitGetsHandles,
         WaitNoSession, WaitLocksHandles, WaitJoins, WaitPanics,
         WaitUnlocksHandles, WaitVars
  <2> QED BY <1>1, <2>1
<1>10. ASSUME NEW r \in Streams, StreamStep(r) PROVE IdInv'
  <2>1. UNCHANGED <<pending, dialed, start, child, sessions>>
      BY <1>10 DEF StreamStep, StreamGets, StreamGetsHandles, StreamNoSession,
         StreamPushes, StdinLocks, StreamVars
  <2> QED BY <1>1, <2>1
<1> QED
    BY <1>1, <1>2, <1>3, <1>4, <1>5, <1>6, <1>7, <1>8, <1>9, <1>10
       DEF Next, vars, NinepForward, StreamCalled, StdinEnds, StreamCancelled,
           StreamVars, CopyEnds, ForwardEnds, TaskVars, WaitCalled,
           WaitCancelled, WaitVars

(* A wait call keeps the child it waited for.                              *)
LEMMA WaitInvStep == TypeOK /\ TableInv /\ [Next]_vars => WaitInv'
<1> SUFFICES ASSUME TypeOK, TableInv, [Next]_vars PROVE WaitInv'
    OBVIOUS
<1> USE Fields, NoneAssumption DEF TableInv
<1>1. CASE UNCHANGED <<start, child, wait>>
    BY <1>1 DEF WaitInv
<1>2. ASSUME NEW c \in Starts, NEW s \in Sids, NEW np \in BOOLEAN,
             StartTakesPending(c, s, np) \/ StartNotPending(c, s, np)
      PROVE WaitInv'
  <2>1. /\ start[c].pc = "idle"
        /\ \A d \in Starts \ {c} : start'[d] = start[d]
        /\ UNCHANGED <<child, wait>>
      BY <1>2 DEF StartTakesPending, StartNotPending, StartVars, TypeOK
  <2>2. child[c] = "none"
      BY <2>1 DEF IdInv
  <2> QED BY <2>1, <2>2 DEF WaitInv
<1>3. ASSUME NEW c \in Starts, StartStep(c) \/ StartCancelled(c) PROVE WaitInv'
  <2>1. /\ \A d \in Starts : start'[d].sid = start[d].sid
        /\ \A d \in Starts : child[d] # "none" => child'[d] # "none"
        /\ \A d \in Starts : child[d] = "exited" => child'[d] = "exited"
        /\ UNCHANGED wait
    <3>1. CASE StartFails(c)
        BY <3>1, StartPc DEF StartFails, StartVars
    <3>2. CASE StartLaunches(c)
        BY <3>2, StartPc DEF StartLaunches, StartVars, IdInv, TypeOK
    <3>3. CASE StartInserts(c)
        BY <3>3, StartPc DEF StartInserts, StartVars, TypeOK
    <3>4. CASE StartSendFails(c)
        BY <3>4, StartPc DEF StartSendFails, StartVars
    <3>5. CASE StartCancelled(c)
        BY <3>5, StartPc DEF StartCancelled, StartVars
    <3> QED BY <1>3, <3>1, <3>2, <3>3, <3>4, <3>5 DEF StartStep
  <2> QED BY <2>1 DEF WaitInv
<1>4. ASSUME NEW c \in Starts, ChildStep(c) PROVE WaitInv'
    BY <1>4 DEF ChildStep, LauncherConnects, LauncherAborts, ChildExits,
                ChildVars, WaitInv, TypeOK
<1>5. ASSUME NEW w \in Waits, NEW s \in Sids, WaitCalled(w, s) PROVE WaitInv'
  <2>1. /\ wait'[w].pc = "get"
        /\ \A v \in Waits \ {w} : wait'[v] = wait[v]
        /\ UNCHANGED <<start, child>>
      BY <1>5 DEF WaitCalled, WaitVars, TypeOK, WaitCall
  <2> QED BY <2>1 DEF WaitInv
<1>6. ASSUME NEW w \in Waits, WaitStep(w) PROVE WaitInv'
  <2> DEFINE Others == /\ \A v \in Waits \ {w} : wait'[v] = wait[v]
                       /\ UNCHANGED <<start, child>>
  <2>1. CASE WaitGetsChild(w)
    <3>1. /\ wait'[w].pc = "child"
          /\ wait'[w].sid = wait[w].sid
          /\ wait'[w].src = sessions[wait[w].sid]
          /\ wait'[w].src \in Starts
          /\ Others
        BY <2>1 DEF WaitGetsChild, WaitVars, TypeOK, WaitCall
    <3> QED BY <3>1 DEF WaitInv, IdInv
  <2>2. CASE WaitChildDone(w)
      BY <2>2, WaitPc DEF WaitChildDone, WaitVars, WaitInv
  <2>3. CASE WaitGetsHandles(w)
    <3>1. /\ wait[w].pc = "handles" /\ wait'[w].pc = "lock"
          /\ wait'[w].sid = wait[w].sid
          /\ wait'[w].src = wait[w].src
          /\ Others
        BY <2>3 DEF WaitGetsHandles, WaitVars, TypeOK, WaitCall
    <3> QED BY <3>1 DEF WaitInv
  <2>4. CASE WaitNoSession(w)
      BY <2>4, WaitPc DEF WaitNoSession, WaitVars, WaitInv
  <2>5. CASE WaitLocksHandles(w)
    <3>1. /\ wait[w].pc = "lock" /\ wait'[w].pc = "join"
          /\ wait'[w].sid = wait[w].sid
          /\ wait'[w].src = wait[w].src
          /\ Others
        BY <2>5 DEF WaitLocksHandles, WaitVars, TypeOK, WaitCall
    <3> QED BY <3>1 DEF WaitInv
  <2>6. CASE WaitJoins(w)
    <3>1. /\ wait'[w].pc = wait[w].pc
          /\ wait'[w].sid = wait[w].sid
          /\ wait'[w].src = wait[w].src
          /\ Others
        BY <2>6 DEF WaitJoins, WaitVars, TypeOK, WaitCall
    <3> QED BY <3>1 DEF WaitInv
  <2>7. CASE WaitPanics(w)
      BY <2>7, WaitPc DEF WaitPanics, WaitVars, WaitInv
  <2>8. CASE WaitUnlocksHandles(w)
      BY <2>8, WaitPc DEF WaitUnlocksHandles, WaitVars, WaitInv
  <2>9. CASE WaitRemoves(w)
      BY <2>9, WaitPc DEF WaitRemoves, WaitVars, WaitInv
  <2> QED BY <1>6, <2>1, <2>2, <2>3, <2>4, <2>5, <2>6, <2>7, <2>8, <2>9
          DEF WaitStep
<1>7. ASSUME NEW w \in Waits, WaitCancelled(w) PROVE WaitInv'
    BY <1>7, WaitPc DEF WaitCancelled, WaitVars, WaitInv
<1>8. ASSUME NEW r \in Streams, StreamStep(r) PROVE WaitInv'
  <2>1. UNCHANGED <<start, child, wait>>
      BY <1>8 DEF StreamStep, StreamGets, StreamGetsHandles, StreamNoSession,
         StreamPushes, StdinLocks, StreamVars
  <2> QED BY <1>1, <2>1
<1> QED
    BY <1>1, <1>2, <1>3, <1>4, <1>5, <1>6, <1>7, <1>8
       DEF Next, vars, Dial, NinepForward, StreamCalled, StdinEnds,
           StreamCancelled, StreamVars, CopyEnds, ForwardEnds, TaskVars

(* The tables of a new Server are empty.                                   *)
LEMMA TableInit == Init => TableInv
<1> SUFFICES ASSUME Init PROVE TableInv
    OBVIOUS
<1>1. IdInv
    BY DEF Init, IdInv, Owns
<1>2. WaitInv
    BY DEF Init, WaitInv
<1> QED BY <1>1, <1>2, LockInit DEF TableInv

(* The inductive invariant of the session table, when ids are fresh        *)
(* (rpc_server.rs draws them with Uuid::new_v4).                           *)
THEOREM TableInvariant == ASSUME FreshIds PROVE Spec => []TableInv
<1>1. TypeOK /\ TableInv /\ [Next]_vars => TableInv'
    BY LockStep, IdStep, WaitInvStep DEF TableInv
<1> QED BY <1>1, TableInit, TypeCorrect, PTL DEF Spec

(* A program runs only while its session can be waited for.                *)
THEOREM Registered == ASSUME FreshIds PROVE Spec => []RunningIsRegistered
<1>1. TableInv => RunningIsRegistered
    BY DEF TableInv, IdInv, RunningIsRegistered
<1> QED BY <1>1, TableInvariant, PTL

(* An id launches at most one process.                                     *)
THEOREM OneLaunch == ASSUME FreshIds PROVE Spec => []OneLaunchPerId
<1>1. TableInv => OneLaunchPerId
    BY DEF TableInv, IdInv, Owns, OneLaunchPerId
<1> QED BY <1>1, TableInvariant, PTL

-----------------------------------------------------------------------------
(* SessionServer with fresh ids implements SessionLifecycle, for any sets  *)
(* of ids and calls.  A step of a handler either moves one id by one step  *)
(* of its life, or ends a program, or changes neither.                     *)

(* A start call has claimed id s and has not returned. *)
Claimed(s) == \E c \in Starts : /\ start[c].sid = s
                                /\ start[c].pc \in {"lock", "accept"}

(* A program runs under id s. *)
Runs(s) == \E c \in Starts : start[c].sid = s /\ child[c] = "running"

Life == [s \in Sids |-> LifeOf(s)]
Running == {s \in Sids : Runs(s)}

(* Id s goes from one stage of its life to another, and no other id moves. *)
Moves(s, from, to) ==
    /\ LifeOf(s) = from /\ LifeOf(s)' = to
    /\ \A e \in Sids \ {s} : LifeOf(e)' = LifeOf(e)

SameRunning == \A e \in Sids : Runs(e)' = Runs(e)

-----------------------------------------------------------------------------
(* The refinement mapping, one id at a time.                               *)

(* What the stages of an id mean. *)
LEMMA Stages ==
    ASSUME NEW s \in Sids
    PROVE  /\ s \in pending => LifeOf(s) = "dialed"
           /\ s \notin pending /\ sessions[s] # NoSession => LifeOf(s) = "live"
           /\ s \notin pending /\ sessions[s] = NoSession /\ Claimed(s)
                => LifeOf(s) = "starting"
           /\ s \notin pending /\ sessions[s] = NoSession /\ ~Claimed(s)
                => LifeOf(s) = (IF s \in dialed THEN "gone" ELSE "unknown")
BY DEF LifeOf, Claimed

(* And after a step. *)
LEMMA StagesAfter ==
    ASSUME NEW s \in Sids
    PROVE  /\ s \in pending' => LifeOf(s)' = "dialed"
           /\ s \notin pending' /\ sessions'[s] # NoSession => LifeOf(s)' = "live"
           /\ s \notin pending' /\ sessions'[s] = NoSession /\ Claimed(s)'
                => LifeOf(s)' = "starting"
           /\ s \notin pending' /\ sessions'[s] = NoSession /\ ~Claimed(s)'
                => LifeOf(s)' = (IF s \in dialed' THEN "gone" ELSE "unknown")
BY DEF LifeOf, Claimed

(* An id that nothing has touched stays where it is. *)
LEMMA LifeFrame ==
    ASSUME NEW e \in Sids, (e \in pending') = (e \in pending),
           (e \in dialed') = (e \in dialed), sessions'[e] = sessions[e],
           Claimed(e)' = Claimed(e)
    PROVE  LifeOf(e)' = LifeOf(e)
BY Stages, StagesAfter

(* A step that moves one id, or none, is a step of the life cycle. *)
LEMMA MoveStep ==
    ASSUME NEW s \in Sids, SameRunning,
           \/ Moves(s, "unknown", "dialed") \/ Moves(s, "dialed", "starting")
           \/ Moves(s, "starting", "gone")
           \/ Moves(s, "live", "gone") /\ ~Runs(s)
    PROVE  Lifecycle!LifeNext
<1>1. Running' = Running
  BY DEF SameRunning, Running
<1>2. ASSUME NEW from, NEW to, Moves(s, from, to)
      PROVE  Life[s] = from /\ Life' = [Life EXCEPT ![s] = to]
  BY <1>2 DEF Moves, Life
<1>3. ~Runs(s) => s \notin Running
  BY DEF Running
<1>4. CASE Moves(s, "unknown", "dialed")
  BY <1>1, <1>2, <1>4 DEF Life, Running, Runs, Lifecycle!LifeNext, Lifecycle!Dialed
<1>5. CASE Moves(s, "dialed", "starting")
  BY <1>1, <1>2, <1>5 DEF Life, Running, Runs, Lifecycle!LifeNext, Lifecycle!Claimed
<1>6. CASE Moves(s, "starting", "gone")
  BY <1>1, <1>2, <1>6 DEF Life, Running, Runs, Lifecycle!LifeNext, Lifecycle!StartFailed
<1>7. CASE Moves(s, "live", "gone") /\ ~Runs(s)
  BY <1>1, <1>2, <1>3, <1>7 DEF Life, Running, Runs, Lifecycle!LifeNext, Lifecycle!Reaped
<1>8. QED
  BY <1>4, <1>5, <1>6, <1>7

-----------------------------------------------------------------------------
(* Which start call stands for an id.                                      *)

(* The start call that has claimed an id is the only one that has, it has  *)
(* no session yet, and its id is dialed and no longer pending.             *)
LEMMA Claimant ==
    ASSUME TypeOK, TableInv, NEW c \in Starts, start[c].pc \in {"lock", "accept"}
    PROVE  /\ start[c].sid \in dialed \ pending
           /\ sessions[start[c].sid] = NoSession
           /\ \A d \in Starts : Owns(d) /\ start[d].sid = start[c].sid => d = c
           /\ child[c] # "running"
<1>1. Owns(c) /\ start[c].sid \in Sids
  BY Fields DEF Owns
<1>2. /\ start[c].sid \in dialed \ pending
      /\ \A d \in Starts : Owns(d) /\ start[d].sid = start[c].sid => d = c
  BY <1>1 DEF TableInv, IdInv
<1>3. sessions[start[c].sid] = NoSession
  <2>1. CASE start[c].pc = "accept"
    BY <2>1 DEF TableInv, LockInv
  <2>2. CASE start[c].pc = "lock"
    <3>1. child[c] = "none"
      BY <2>2 DEF TableInv, IdInv
    <3>2. SUFFICES ASSUME sessions[start[c].sid] # NoSession PROVE FALSE
      OBVIOUS
    <3>3. PICK d \in Starts : d = sessions[start[c].sid] /\ start[d].sid = start[c].sid
                              /\ child[d] # "none"
      BY <1>1, <3>2, TableOwner DEF TableInv
    <3>4. QED
      BY <1>2, <3>1, <3>3 DEF Owns
  <2>3. QED
    BY <2>1, <2>2
<1>4. child[c] # "running"
  BY DEF TableInv, IdInv
<1>5. QED
  BY <1>2, <1>3, <1>4

(* The id of a session is dialed and no longer pending, and no start call  *)
(* claims it.                                                              *)
LEMMA LiveId ==
    ASSUME TypeOK, TableInv, NEW s \in Sids, sessions[s] # NoSession
    PROVE  s \in dialed \ pending /\ ~Claimed(s)
<1>1. PICK c \in Starts : c = sessions[s] /\ start[c].sid = s /\ child[c] # "none"
  BY TableOwner DEF TableInv
<1>2. s \in dialed \ pending
  BY <1>1 DEF TableInv, IdInv, Owns
<1>3. ~Claimed(s)
  BY Claimant DEF Claimed
<1>4. QED
  BY <1>2, <1>3

(* An id that was never dialed is unknown to every table. *)
LEMMA UnknownId ==
    ASSUME TypeOK, TableInv, NEW s \in Sids, s \notin dialed
    PROVE  s \notin pending /\ sessions[s] = NoSession /\ ~Claimed(s)
<1>1. s \notin pending
  BY DEF TableInv, IdInv
<1>2. QED
  BY <1>1, LiveId, Claimant DEF Claimed

(* A pending id has no session and no claim. *)
LEMMA PendingId ==
    ASSUME TypeOK, TableInv, NEW s \in Sids, s \in pending
    PROVE  s \in dialed /\ sessions[s] = NoSession /\ ~Claimed(s)
<1>1. s \in dialed
  BY DEF TableInv, IdInv
<1>2. QED
  BY <1>1, LiveId, Claimant DEF Claimed

-----------------------------------------------------------------------------
(* The steps.                                                              *)

(* dial hands out an id that was unknown. *)
LEMMA DialStep ==
    ASSUME FreshIds, TypeOK, TableInv, NEW s \in Sids, Dial(s)
    PROVE  Lifecycle!LifeNext
<1>1. s \notin dialed
  BY DEF Dial
<1>2. /\ pending' = pending \cup {s} /\ dialed' = dialed \cup {s}
      /\ UNCHANGED <<sessions, start, child>>
  BY DEF Dial
<1>3. LifeOf(s) = "unknown"
  BY <1>1, UnknownId, Stages
<1>4. LifeOf(s)' = "dialed"
  BY <1>2, StagesAfter
<1>5. \A e \in Sids \ {s} : LifeOf(e)' = LifeOf(e)
  BY <1>2, LifeFrame DEF Claimed
<1>6. SameRunning
  BY <1>2 DEF SameRunning, Runs
<1>7. QED
  BY <1>3, <1>4, <1>5, <1>6, MoveStep DEF Moves

(* start takes an id from `pending`. *)
LEMMA TakeStep ==
    ASSUME TypeOK, TableInv, NEW c \in Starts, NEW s \in Sids, NEW np \in BOOLEAN,
           StartTakesPending(c, s, np)
    PROVE  Lifecycle!LifeNext
<1>1. /\ start[c].pc = "idle"
      /\ start'[c].pc = "lock" /\ start'[c].sid = s
      /\ \A d \in Starts \ {c} : start'[d] = start[d]
      /\ s \in pending /\ pending' = pending \ {s}
      /\ UNCHANGED <<dialed, child, sessions>>
  BY DEF StartTakesPending, StartVars, TypeOK
<1>2. LifeOf(s) = "dialed"
  BY <1>1, Stages
<1>3. Claimed(s)'
  BY <1>1 DEF Claimed
<1>4. LifeOf(s)' = "starting"
  BY <1>1, <1>3, PendingId, StagesAfter
<1>5. ASSUME NEW e \in Sids \ {s} PROVE LifeOf(e)' = LifeOf(e)
  <2>1. Claimed(e)' = Claimed(e)
    BY <1>1 DEF Claimed
  <2>2. QED
    BY <1>1, <2>1, LifeFrame
<1>6. SameRunning
  <2>1. child[c] # "running"
    BY <1>1 DEF TableInv, IdInv
  <2>2. QED
    BY <1>1, <2>1 DEF SameRunning, Runs
<1>7. QED
  BY <1>2, <1>4, <1>5, <1>6, MoveStep DEF Moves

(* start returns an error, or is dropped with its connection. *)
LEMMA FailStep ==
    ASSUME TypeOK, TableInv, NEW c \in Starts,
           StartFails(c) \/ StartSendFails(c) \/ StartCancelled(c)
    PROVE  Lifecycle!LifeNext
<1> PICK s \in Sids : s = start[c].sid
  BY Fields
<1>1. PICK p \in {"error", "cancelled"} :
        /\ start[c].pc \in {"lock", "accept"}
        /\ start' = [start EXCEPT ![c].pc = p]
        /\ UNCHANGED <<pending, dialed, child, sessions>>
  BY DEF StartFails, StartSendFails, StartCancelled, StartVars
<1>2. /\ start'[c].pc = p
      /\ \A d \in Starts : start'[d].sid = start[d].sid
      /\ \A d \in Starts \ {c} : start'[d] = start[d]
  BY <1>1, StartPc
<1>3. s \in Sids /\ Claimed(s)
  BY <1>1, Fields DEF Claimed
<1>4. /\ s \in dialed \ pending /\ sessions[s] = NoSession
      /\ \A d \in Starts : Owns(d) /\ start[d].sid = s => d = c
  BY <1>1, Claimant
<1>5. LifeOf(s) = "starting"
  BY <1>3, <1>4, Stages
<1>6. ~Claimed(s)'
  BY <1>1, <1>2, <1>4 DEF Claimed, Owns
<1>7. LifeOf(s)' = "gone"
  BY <1>1, <1>3, <1>4, <1>6, StagesAfter
<1>8. ASSUME NEW e \in Sids \ {s} PROVE LifeOf(e)' = LifeOf(e)
  <2>1. Claimed(e)' = Claimed(e)
    BY <1>2 DEF Claimed
  <2>2. QED
    BY <1>1, <2>1, LifeFrame
<1>9. SameRunning
  BY <1>1, <1>2 DEF SameRunning, Runs
<1>10. Moves(s, "starting", "gone")
  BY <1>5, <1>7, <1>8 DEF Moves
<1>11. QED
  BY <1>3, <1>9, <1>10, MoveStep

(* start inserts the session; the program runs unless it has died. *)
LEMMA InsertStep ==
    ASSUME TypeOK, TableInv, NEW c \in Starts, StartInserts(c)
    PROVE  Lifecycle!LifeNext
<1> PICK s \in Sids : s = start[c].sid
  BY Fields
<1>1. /\ start[c].pc = "accept"
      /\ start' = [start EXCEPT ![c].pc = "ok"]
      /\ sessions' = [sessions EXCEPT ![s] = c]
      /\ child' = [child EXCEPT ![c] = IF @ = "connected" THEN "running" ELSE @]
      /\ child[c] \in {"connected", "exited"}
      /\ UNCHANGED <<pending, dialed>>
  BY DEF StartInserts, StartVars
<1>2. /\ start'[c].pc = "ok"
      /\ \A d \in Starts : start'[d].sid = start[d].sid
      /\ \A d \in Starts \ {c} : start'[d] = start[d] /\ child'[d] = child[d]
      /\ child'[c] \in {"running", "exited"}
  BY <1>1, StartPc DEF TypeOK
<1>3. s \in Sids /\ Claimed(s)
  BY <1>1, Fields DEF Claimed
<1>4. /\ s \in dialed \ pending /\ sessions[s] = NoSession
      /\ \A d \in Starts : Owns(d) /\ start[d].sid = s => d = c
      /\ child[c] # "running"
  BY <1>1, Claimant
<1>5. /\ sessions'[s] = c /\ c # NoSession
      /\ \A e \in Sids \ {s} : sessions'[e] = sessions[e]
  BY <1>1, <1>3, NoneAssumption DEF TypeOK
<1>6. LifeOf(s) = "starting" /\ LifeOf(s)' = "live"
  BY <1>1, <1>3, <1>4, <1>5, Stages, StagesAfter
<1>7. ASSUME NEW e \in Sids \ {s} PROVE LifeOf(e)' = LifeOf(e)
  <2>1. Claimed(e)' = Claimed(e)
    BY <1>2 DEF Claimed
  <2>2. QED
    BY <1>1, <1>5, <2>1, LifeFrame
<1>8. \A e \in Sids \ {s} : Runs(e)' = Runs(e)
  BY <1>2 DEF Runs
<1>9. Life[s] = "starting" /\ Life' = [Life EXCEPT ![s] = "live"]
  BY <1>3, <1>6, <1>7 DEF Life
<1>10. Running' \in {Running, Running \cup {s}}
  <2>1. ~Runs(s)
    BY <1>4 DEF Runs, Owns
  <2>2. CASE Runs(s)'
    BY <1>3, <1>8, <2>2 DEF Running
  <2>3. CASE ~Runs(s)'
    BY <1>3, <1>8, <2>1, <2>3 DEF Running
  <2>4. QED
    BY <2>2, <2>3
<1>11. QED
  BY <1>3, <1>9, <1>10
     DEF Life, Running, Runs, Lifecycle!LifeNext, Lifecycle!Registered

(* A program ends. *)
LEMMA ExitStep ==
    ASSUME TypeOK, TableInv, NEW c \in Starts, ChildExits(c), child[c] = "running"
    PROVE  Lifecycle!LifeNext
<1> PICK s \in Sids : s = start[c].sid
  BY Fields
<1>1. /\ child' = [child EXCEPT ![c] = "exited"]
      /\ UNCHANGED <<pending, dialed, sessions, start>>
  BY DEF ChildExits, ChildVars
<1>2. child'[c] = "exited" /\ \A d \in Starts \ {c} : child'[d] = child[d]
  BY <1>1 DEF TypeOK
<1>3. s \in Sids /\ Runs(s)
  BY Fields DEF Runs
<1>4. \A d \in Starts : Owns(d) /\ start[d].sid = s => d = c
  BY DEF TableInv, IdInv, Owns
<1>5. ~Runs(s)'
  BY <1>1, <1>2, <1>4 DEF Runs, Owns
<1>6. \A e \in Sids \ {s} : Runs(e)' = Runs(e)
  BY <1>1, <1>2 DEF Runs
<1>7. s \in Running /\ Running' = Running \ {s}
  BY <1>3, <1>5, <1>6 DEF Running
<1>8. Life' = Life
  BY <1>1, LifeFrame DEF Life, Claimed
<1>9. QED
  BY <1>3, <1>7, <1>8
     DEF Life, Running, Runs, Lifecycle!LifeNext, Lifecycle!ProgramEnds

(* wait removes the session; another call of wait may have done it before. *)
LEMMA RemoveStep ==
    ASSUME TypeOK, TableInv, NEW w \in Waits, WaitRemoves(w)
    PROVE  [Lifecycle!LifeNext]_(Lifecycle!lvars)
<1> PICK s \in Sids : s = wait[w].sid
  BY Fields
<1>1. /\ wait[w].pc = "remove"
      /\ sessions' = [sessions EXCEPT ![s] = NoSession]
      /\ UNCHANGED <<pending, dialed, start, child>>
  BY DEF WaitRemoves, WaitVars
<1>2. s \in Sids
  BY Fields
<1>3. /\ sessions'[s] = NoSession
      /\ \A e \in Sids \ {s} : sessions'[e] = sessions[e]
  BY <1>1, <1>2 DEF TypeOK
<1>4. \A e \in Sids : Claimed(e)' = Claimed(e)
  BY <1>1 DEF Claimed
<1>5. SameRunning
  BY <1>1 DEF SameRunning, Runs
<1>6. ~Runs(s)
  <2>1. PICK c \in Starts : start[c].sid = s /\ child[c] = "exited"
    BY <1>1 DEF TableInv, WaitInv
  <2>2. QED
    BY <2>1 DEF TableInv, IdInv, Owns, Runs
<1>7. \A e \in Sids \ {s} : LifeOf(e)' = LifeOf(e)
  BY <1>1, <1>3, <1>4, LifeFrame
<1>8. CASE sessions[s] # NoSession
  <2>1. s \in dialed \ pending /\ ~Claimed(s)
    BY <1>2, <1>8, LiveId
  <2>2. LifeOf(s) = "live"
    BY <1>2, <1>8, <2>1, Stages
  <2>3. LifeOf(s)' = "gone"
    BY <1>1, <1>2, <1>3, <1>4, <2>1, StagesAfter
  <2>4. Moves(s, "live", "gone")
    BY <1>7, <2>2, <2>3 DEF Moves
  <2>5. QED
    BY <1>2, <1>5, <1>6, <2>4, MoveStep
<1>9. CASE sessions[s] = NoSession
  <2>1. LifeOf(s)' = LifeOf(s)
    BY <1>1, <1>2, <1>3, <1>4, <1>9, LifeFrame
  <2>2. Life' = Life /\ Running' = Running
    BY <1>5, <1>7, <2>1 DEF Life, Running, SameRunning
  <2>3. QED
    BY <2>2 DEF Life, Running, Runs, Lifecycle!lvars
<1>10. QED
  BY <1>8, <1>9

(* A step that changes neither tables nor claims nor programs is not seen. *)
LEMMA Stutter ==
    ASSUME UNCHANGED <<pending, dialed, sessions>>,
           \A e \in Sids : Claimed(e)' = Claimed(e), SameRunning
    PROVE  UNCHANGED Lifecycle!lvars
<1>1. Life' = Life
  BY LifeFrame DEF Life
<1>2. Running' = Running
  BY DEF Running, SameRunning
<1>3. QED
  BY <1>1, <1>2 DEF Life, Running, Runs, Lifecycle!lvars

(* Every step of every handler is a step of the life cycle or a stutter. *)
LEMMA RefinementStep ==
    ASSUME FreshIds
    PROVE  TypeOK /\ TableInv /\ [Next]_vars => [Lifecycle!LifeNext]_(Lifecycle!lvars)
<1> SUFFICES ASSUME TypeOK, TableInv, [Next]_vars
             PROVE  [Lifecycle!LifeNext]_(Lifecycle!lvars)
  OBVIOUS
<1>1. CASE UNCHANGED <<pending, dialed, start, child, sessions>>
  BY <1>1, Stutter DEF Claimed, SameRunning, Runs
<1>2. ASSUME NEW c \in Starts, NEW s \in Sids, NEW np \in BOOLEAN,
             StartNotPending(c, s, np)
      PROVE  UNCHANGED Lifecycle!lvars
  <2>1. /\ start[c].pc = "idle" /\ start'[c].pc = "error"
        /\ \A d \in Starts \ {c} : start'[d] = start[d]
        /\ UNCHANGED <<pending, dialed, child, sessions>>
    BY <1>2 DEF StartNotPending, StartVars, TypeOK
  <2>2. child[c] # "running"
    BY <2>1 DEF TableInv, IdInv
  <2>3. QED
    BY <2>1, <2>2, Stutter DEF Claimed, SameRunning, Runs
<1>3. ASSUME NEW c \in Starts, StartLaunches(c) PROVE UNCHANGED Lifecycle!lvars
  <2>1. /\ start[c].pc = "lock" /\ start' = [start EXCEPT ![c].pc = "accept"]
        /\ child' = [child EXCEPT ![c] = "launched"]
        /\ UNCHANGED <<pending, dialed, sessions>>
    BY <1>3 DEF StartLaunches, StartVars
  <2>2. /\ start'[c].pc = "accept" /\ child'[c] = "launched"
        /\ \A d \in Starts : start'[d].sid = start[d].sid
        /\ \A d \in Starts \ {c} : start'[d] = start[d] /\ child'[d] = child[d]
    BY <2>1, StartPc DEF TypeOK
  <2>3. child[c] # "running"
    BY <2>1 DEF TableInv, IdInv
  <2>4. QED
    BY <2>1, <2>2, <2>3, Stutter DEF Claimed, SameRunning, Runs
<1>4. ASSUME NEW c \in Starts, ChildStep(c), ~(ChildExits(c) /\ child[c] = "running")
      PROVE  UNCHANGED Lifecycle!lvars
  <2>1. /\ child[c] # "running" /\ child'[c] # "running"
        /\ \A d \in Starts \ {c} : child'[d] = child[d]
        /\ UNCHANGED <<pending, dialed, sessions, start>>
    BY <1>4 DEF ChildStep, LauncherConnects, LauncherAborts, ChildExits, ChildVars,
                TypeOK
  <2>2. QED
    BY <2>1, Stutter DEF Claimed, SameRunning, Runs
<1>5. ASSUME NEW w \in Waits, WaitStep(w), ~WaitRemoves(w)
      PROVE  UNCHANGED <<pending, dialed, start, child, sessions>>
  BY <1>5 DEF WaitStep, WaitGetsChild, WaitChildDone, WaitGetsHandles, WaitNoSession,
     WaitLocksHandles, WaitJoins, WaitPanics, WaitUnlocksHandles, WaitVars
<1>6. ASSUME NEW r \in Streams, StreamStep(r)
      PROVE  UNCHANGED <<pending, dialed, start, child, sessions>>
  BY <1>6 DEF StreamStep, StreamGets, StreamGetsHandles, StreamNoSession,
     StreamPushes, StdinLocks, StreamVars
<1>7. ASSUME NEW c \in Starts, StartStep(c) \/ StartCancelled(c) \/ ChildStep(c)
      PROVE  [Lifecycle!LifeNext]_(Lifecycle!lvars)
  BY <1>3, <1>4, <1>7, FailStep, InsertStep, ExitStep DEF StartStep
<1>8. QED
  BY <1>1, <1>2, <1>5, <1>6, <1>7, DialStep, TakeStep, RemoveStep
     DEF Next, vars, NinepForward, StreamCalled, StdinEnds, StreamCancelled,
         StreamVars, CopyEnds, ForwardEnds, TaskVars, WaitCalled, WaitCancelled,
         WaitVars

(* In a new Server every id is unknown and nothing runs. *)
LEMMA RefinementInit == Init => Lifecycle!LifeInit
<1> SUFFICES ASSUME Init PROVE Lifecycle!LifeInit
  OBVIOUS
<1>1. /\ pending = {} /\ dialed = {} /\ sessions = [s \in Sids |-> NoSession]
      /\ \A c \in Starts : start[c].pc = "idle" /\ child[c] = "none"
  BY DEF Init
<1>2. \A s \in Sids : LifeOf(s) = "unknown" /\ ~Runs(s)
  BY <1>1, Stages DEF Claimed, Runs
<1>3. QED
  BY <1>2 DEF Runs, Lifecycle!LifeInit

(* With fresh ids (Uuid::new_v4 in rpc_server.rs) the handlers of          *)
(* server.rs, interleaved in any way and dropped at any await, implement   *)
(* the life cycle: an id goes one way from dial over start to wait, and is *)
(* reaped only when no program runs under it.                              *)
THEOREM Refinement == ASSUME FreshIds PROVE Spec => ImplementsLifecycle
<1>1. TypeOK /\ TableInv /\ [Next]_vars => [Lifecycle!LifeNext]_(Lifecycle!lvars)
  BY RefinementStep
<1>2. QED
  BY <1>1, RefinementInit, TypeCorrect, TableInvariant, PTL
     DEF Spec, ImplementsLifecycle, Lifecycle!LifeSpec

-----------------------------------------------------------------------------
(* What Server::wait relies on: who is in which vector of handles, which   *)
(* of them have been awaited, and by whom.  Two theorems: a wait that      *)
(* answers has seen the streams opened before it end, and it panics on a   *)
(* JoinHandle only if the session is waited for twice.                     *)

(* The inductive invariant.                                                *)

(* The vector of a session exists from the launch on, and only streams of  *)
(* launched sessions are pushed.                                           *)
VectorInv ==
    /\ \A c \in Starts : child[c] = "none" => handles[c] = << >>
    /\ \A r \in Streams : stream[r].pc = "push" =>
          stream[r].of \in Starts /\ child[stream[r].of] # "none"

(* A vector holds streams whose call has returned, and before them the 9p  *)
(* forwarder of its start call, if there is one.                           *)
Entry(t, c, i) ==
    \/ t \in Streams /\ stream[t].pc = "ok"
    \/ t \in Forwards /\ start[c].fwd = t /\ i = 1

EntryInv == \A c \in Starts : \A i \in DOMAIN handles[c] : Entry(handles[c][i], c, i)

(* A forwarder belongs to one pending id or to one start call. *)
ForwarderInv ==
    /\ \A s \in Sids : ninep[s] # NoTask =>
          /\ task[ninep[s]] # "none"
          /\ \A c \in Starts : start[c].fwd # ninep[s]
          /\ \A e \in Sids : ninep[e] = ninep[s] => e = s
    /\ \A c \in Starts : start[c].fwd # NoTask =>
          /\ task[start[c].fwd] # "none"
          /\ \A d \in Starts : start[d].fwd = start[c].fwd => d = c

(* So a task is in at most one vector, and there once. *)
DistinctInv ==
    \A c, d \in Starts : \A i \in DOMAIN handles[c], j \in DOMAIN handles[d] :
        handles[c][i] = handles[d][j] => c = d /\ i = j

(* The task of a stream does not exist before its call got the session. *)
UnspawnedInv ==
    \A r \in Streams : stream[r].pc \in {"idle", "get"} => task[r] = "none"

HandlesInv == VectorInv /\ EntryInv /\ ForwarderInv /\ DistinctInv /\ UnspawnedInv

(* The vector a wait call works on is that of the session it waits for. *)
OfInv ==
    \A w \in Waits : wait[w].pc \in {"lock", "join"} =>
        /\ wait[w].of \in Starts
        /\ start[wait[w].of].sid = wait[w].sid
        /\ child[wait[w].of] # "none"

(* The loop of wait: the handles before the current one have ended. *)
LoopInv ==
    \A w \in Waits : wait[w].pc = "join" =>
        /\ wait[w].i <= Len(handles[wait[w].of]) + 1
        /\ \A j \in DOMAIN handles[wait[w].of] :
              j < wait[w].i => task[handles[wait[w].of][j]] = "done"

(* The streams opened before a call of wait are in the vector of its       *)
(* session, and have ended when the loop is over.                          *)
OpenedInv ==
    \A w \in Waits :
      /\ \A t \in wait[w].opened : \E c \in Starts :
            /\ start[c].sid = wait[w].sid /\ child[c] # "none"
            /\ \E i \in DOMAIN handles[c] : handles[c][i] = t
      /\ wait[w].pc \in {"remove", "ok"} =>
            \A t \in wait[w].opened : task[t] = "done"

(* A wait call v has awaited task t. *)
Joined(v, t) ==
    /\ wait[v].pc \notin {"idle", "get", "child", "handles", "lock"}
    /\ wait[v].of \in Starts
    /\ start[wait[v].of].sid = wait[v].sid
    /\ child[wait[v].of] # "none"
    /\ \E j \in DOMAIN handles[wait[v].of] :
          j < wait[v].i /\ handles[wait[v].of][j] = t

JoinedInv == \A t \in joined : \E v \in Waits : Joined(v, t)

LoopsInv == OfInv /\ LoopInv /\ OpenedInv /\ JoinedInv /\ PanicNeedsSecondWait

DrainInv == HandlesInv /\ LoopsInv

-----------------------------------------------------------------------------
(* The vectors of handles.                                                 *)

(* A change of a start call's program counter keeps its forwarder. *)
LEMMA StartFwd ==
    ASSUME TypeOK, NEW c \in Starts, NEW p, start' = [start EXCEPT ![c].pc = p]
    PROVE  \A d \in Starts : start'[d].fwd = start[d].fwd
<1>1. start[c] \in StartCall
  BY DEF TypeOK
<1>2. start'[c] = [start[c] EXCEPT !.pc = p]
  BY DEF TypeOK
<1>3. QED
  BY <1>1, <1>2 DEF StartCall, TypeOK

(* A change of a stream call's program counter leaves the other calls. *)
LEMMA StreamPc ==
    ASSUME TypeOK, NEW r \in Streams, NEW p, stream' = [stream EXCEPT ![r].pc = p]
    PROVE  /\ stream'[r].pc = p /\ stream'[r].of = stream[r].of
           /\ \A q \in Streams \ {r} : stream'[q] = stream[q]
<1>1. stream[r] \in StreamCall
  BY DEF TypeOK
<1>2. stream'[r] = [stream[r] EXCEPT !.pc = p]
  BY DEF TypeOK
<1>3. QED
  BY <1>1, <1>2 DEF StreamCall, TypeOK

(* dial and ninep_forward. *)
LEMMA HandlesArrive ==
    ASSUME TypeOK, HandlesInv, NEW s \in Sids,
           Dial(s) \/ \E f \in Forwards : NinepForward(f, s)
    PROVE  HandlesInv'
<1> USE CallAssumption, NoneAssumption
    DEF HandlesInv, VectorInv, EntryInv, Entry, DistinctInv, UnspawnedInv
<1>1. CASE Dial(s)
  <2>1. /\ ninep' = [ninep EXCEPT ![s] = NoTask]
        /\ UNCHANGED <<start, child, handles, stream, task>>
    BY <1>1 DEF Dial
  <2>2. ForwarderInv'
    BY <2>1 DEF ForwarderInv, TypeOK
  <2>3. QED
    BY <2>1, <2>2
<1>2. ASSUME NEW f \in Forwards, NinepForward(f, s) PROVE HandlesInv'
  <2>1. /\ task[f] = "none"
        /\ task'[f] = "running" /\ \A t \in Tasks \ {f} : task'[t] = task[t]
        /\ ninep'[s] = f /\ \A e \in Sids \ {s} : ninep'[e] = ninep[e]
        /\ UNCHANGED <<start, child, handles, stream>>
    BY <1>2 DEF NinepForward, TypeOK, Tasks
  <2>2. f # NoTask /\ f \notin Streams /\ Streams \subseteq Tasks
    BY DEF Tasks
  <2>3. /\ \A e \in Sids : ninep[e] # f /\ ninep[e] \in Tasks \cup {NoTask}
        /\ \A c \in Starts : start[c].fwd # f /\ start[c].fwd \in Tasks \cup {NoTask}
    BY <2>1, <2>2, Fields DEF ForwarderInv, TypeOK, Tasks
  <2>4. ForwarderInv'
    BY <2>1, <2>2, <2>3 DEF ForwarderInv
  <2>5. UnspawnedInv'
    BY <2>1, <2>2
  <2>6. QED
    BY <2>1, <2>4, <2>5
<1>3. QED
  BY <1>1, <1>2

(* The first step of start: the call takes the forwarder over. *)
LEMMA HandlesTake ==
    ASSUME TypeOK, TableInv, HandlesInv, NEW c \in Starts, NEW s \in Sids,
           NEW np \in BOOLEAN,
           StartTakesPending(c, s, np) \/ StartNotPending(c, s, np)
    PROVE  HandlesInv'
<1> USE NoneAssumption DEF HandlesInv
<1>1. /\ start[c].pc = "idle"
      /\ \A d \in Starts \ {c} : start'[d] = start[d]
      /\ UNCHANGED <<child, handles, stream, task>>
      /\ \/ start'[c].fwd = ninep[s] /\ ninep' = [ninep EXCEPT ![s] = NoTask]
         \/ start'[c].fwd = NoTask /\ ninep' = ninep
  BY DEF StartTakesPending, StartNotPending, StartVars, TypeOK
<1>2. handles[c] = << >>
  BY <1>1 DEF TableInv, IdInv, VectorInv
<1>3. EntryInv'
  BY <1>1, <1>2 DEF EntryInv, Entry
<1>4. ForwarderInv'
  <2>1. CASE start'[c].fwd = ninep[s] /\ ninep' = [ninep EXCEPT ![s] = NoTask]
    <3>1. ninep'[s] = NoTask /\ \A e \in Sids \ {s} : ninep'[e] = ninep[e]
      BY <2>1 DEF TypeOK
    <3>2. \A e \in Sids : ninep'[e] # NoTask =>
            /\ task'[ninep'[e]] # "none"
            /\ \A d \in Starts : start'[d].fwd # ninep'[e]
            /\ \A g \in Sids : ninep'[g] = ninep'[e] => g = e
      BY <1>1, <2>1, <3>1 DEF ForwarderInv
    <3>3. \A d \in Starts : start'[d].fwd # NoTask =>
            /\ task'[start'[d].fwd] # "none"
            /\ \A g \in Starts : start'[g].fwd = start'[d].fwd => g = d
      <4>1. \A d \in Starts \ {c} : start'[d].fwd = start[d].fwd
        BY <1>1
      <4>2. QED
        BY <1>1, <2>1, <4>1 DEF ForwarderInv
    <3>4. QED
      BY <3>2, <3>3 DEF ForwarderInv
  <2>2. CASE start'[c].fwd = NoTask /\ ninep' = ninep
    BY <1>1, <2>2 DEF ForwarderInv
  <2>3. QED
    BY <1>1, <2>1, <2>2
<1>5. QED
  BY <1>1, <1>3, <1>4 DEF VectorInv, DistinctInv, UnspawnedInv

(* The other steps of start, and the child. *)
LEMMA HandlesStart ==
    ASSUME TypeOK, TableInv, HandlesInv, NEW c \in Starts,
           StartStep(c) \/ StartCancelled(c) \/ ChildStep(c)
    PROVE  HandlesInv'
<1> USE DEF HandlesInv
<1>1. CASE StartLaunches(c)
  <2>1. /\ start[c].pc = "lock"
        /\ start' = [start EXCEPT ![c].pc = "accept"]
        /\ child' = [child EXCEPT ![c] = "launched"]
        /\ handles' = [handles EXCEPT ![c] = IF start[c].fwd = NoTask
                                             THEN << >> ELSE <<start[c].fwd>>]
        /\ UNCHANGED <<stream, task, ninep>>
    BY <1>1 DEF StartLaunches, StartVars
  <2>2. \A d \in Starts : start'[d].fwd = start[d].fwd
    BY <2>1, StartFwd
  <2>3. /\ \A d \in Starts \ {c} : handles'[d] = handles[d] /\ child'[d] = child[d]
        /\ child'[c] # "none"
        /\ \A i \in DOMAIN handles'[c] :
              i = 1 /\ handles'[c][i] = start[c].fwd /\ start[c].fwd # NoTask
    <3>1. handles'[c] = IF start[c].fwd = NoTask THEN << >> ELSE <<start[c].fwd>>
      BY <2>1 DEF TypeOK
    <3>2. \A i \in DOMAIN handles'[c] :
              i = 1 /\ handles'[c][i] = start[c].fwd /\ start[c].fwd # NoTask
      BY <3>1
    <3>3. QED
      BY <2>1, <3>2 DEF TypeOK
  <2>4. start[c].fwd # NoTask => start[c].fwd \in Forwards
    BY Fields
  <2>5. VectorInv'
    BY <2>1, <2>3 DEF VectorInv
  <2>6. EntryInv'
    BY <2>1, <2>2, <2>3, <2>4 DEF EntryInv, Entry
  <2>7. ForwarderInv'
    BY <2>1, <2>2 DEF ForwarderInv
  <2>8. DistinctInv'
    <3>1. \A d \in Starts \ {c} : \A j \in DOMAIN handles[d] :
              start[c].fwd # NoTask => handles[d][j] # start[c].fwd
      BY <2>4, CallAssumption DEF EntryInv, Entry, ForwarderInv
    <3>2. QED
      BY <2>3, <3>1 DEF DistinctInv
  <2>9. QED
    BY <2>1, <2>5, <2>6, <2>7, <2>8 DEF UnspawnedInv
<1>2. CASE ~StartLaunches(c)
  <2>1. /\ \A d \in Starts : start'[d].fwd = start[d].fwd
        /\ \A d \in Starts : child[d] # "none" => child'[d] # "none"
        /\ \A d \in Starts : child'[d] = "none" => child[d] = "none"
        /\ UNCHANGED <<handles, stream, task, ninep>>
    <3>1. CASE StartFails(c)
      BY <3>1, StartFwd DEF StartFails, StartVars
    <3>2. CASE StartInserts(c)
      BY <3>2, StartFwd DEF StartInserts, StartVars, TypeOK
    <3>3. CASE StartSendFails(c)
      BY <3>3, StartFwd DEF StartSendFails, StartVars
    <3>4. CASE StartCancelled(c)
      BY <3>4, StartFwd DEF StartCancelled, StartVars
    <3>5. CASE ChildStep(c)
      BY <3>5 DEF ChildStep, LauncherConnects, LauncherAborts, ChildExits, ChildVars,
                  TypeOK
    <3>6. QED
      BY <1>2, <3>1, <3>2, <3>3, <3>4, <3>5 DEF StartStep
  <2>2. QED
    BY <2>1 DEF VectorInv, EntryInv, Entry, ForwarderInv, DistinctInv, UnspawnedInv
<1>3. QED
  BY <1>1, <1>2

(* The calls of stdin, stdout and stderr, and the ends of the tasks. *)
LEMMA HandlesStream ==
    ASSUME TypeOK, TableInv, HandlesInv, NEW r \in Streams,
           \/ \E s \in Sids, fd \in {"stdin", "stdout", "stderr"} :
                    StreamCalled(r, s, fd)
           \/ StreamStep(r) \/ StdinEnds(r) \/ StreamCancelled(r) \/ CopyEnds(r)
    PROVE  HandlesInv'
<1> USE DEF HandlesInv
<1>1. CASE StreamPushes(r)
  <2> DEFINE c == stream[r].of
  <2>1. /\ stream[r].pc = "push"
        /\ stream' = [stream EXCEPT ![r].pc = "ok"]
        /\ handles' = [handles EXCEPT ![c] = Append(@, r)]
        /\ UNCHANGED <<start, child, task, ninep>>
    BY <1>1 DEF StreamPushes, StreamVars
  <2>2. stream'[r].pc = "ok" /\ \A q \in Streams \ {r} : stream'[q] = stream[q]
    BY <2>1, StreamPc
  <2>3. PICK d \in Starts : d = stream[r].of /\ child[d] # "none"
    BY <2>1 DEF VectorInv
  <2>4. /\ handles[d] \in Seq(Tasks)
        /\ handles'[d] = Append(handles[d], r)
        /\ \A e \in Starts \ {d} : handles'[e] = handles[e]
    BY <2>1, <2>3 DEF TypeOK
  <2> HIDE DEF c
  <2>5. /\ DOMAIN handles'[d] = DOMAIN handles[d] \cup {Len(handles[d]) + 1}
        /\ Len(handles[d]) + 1 \notin DOMAIN handles[d]
        /\ handles'[d][Len(handles[d]) + 1] = r
        /\ \A i \in DOMAIN handles[d] : handles'[d][i] = handles[d][i]
    BY <2>4
  <2>6. VectorInv'
    BY <2>1, <2>2, <2>3, <2>4 DEF VectorInv
  <2>7. EntryInv'
    BY <2>1, <2>2, <2>4, <2>5 DEF EntryInv, Entry
  <2>8. DistinctInv'
    <3>1. \A e \in Starts : \A i \in DOMAIN handles[e] : handles[e][i] # r
      BY <2>1, CallAssumption DEF EntryInv, Entry
    <3> SUFFICES ASSUME NEW e \in Starts, NEW g \in Starts,
                        NEW i \in DOMAIN handles'[e], NEW j \in DOMAIN handles'[g],
                        handles'[e][i] = handles'[g][j]
                 PROVE  e = g /\ i = j
      BY DEF DistinctInv
    <3>2. \/ i \in DOMAIN handles[e] /\ handles'[e][i] = handles[e][i]
          \/ e = d /\ i = Len(handles[d]) + 1 /\ handles'[e][i] = r
      BY <2>4, <2>5
    <3>3. \/ j \in DOMAIN handles[g] /\ handles'[g][j] = handles[g][j]
          \/ g = d /\ j = Len(handles[d]) + 1 /\ handles'[g][j] = r
      BY <2>4, <2>5
    <3>4. QED
      BY <3>1, <3>2, <3>3 DEF DistinctInv
  <2>9. ForwarderInv' /\ UnspawnedInv'
    BY <2>1, <2>2 DEF ForwarderInv, UnspawnedInv
  <2>10. QED
    BY <2>6, <2>7, <2>8, <2>9
<1>2. CASE StreamGets(r)
  <2>1. /\ stream[r].pc = "get" /\ stream'[r].pc \in {"stdin", "register"}
        /\ \A q \in Streams \ {r} : stream'[q] = stream[q]
        /\ \A t \in Tasks \ {r} : task'[t] = task[t]
        /\ task[r] # "none" => task'[r] # "none"
        /\ UNCHANGED <<start, child, handles, ninep>>
    BY <1>2 DEF StreamGets, StreamVars, TypeOK, StreamCall, Tasks
  <2>2. \A t \in Tasks : task[t] # "none" => task'[t] # "none"
    BY <2>1
  <2>3. ForwarderInv'
    BY <2>1, <2>2, Fields DEF ForwarderInv, TypeOK, Tasks
  <2>4. UnspawnedInv'
    BY <2>1 DEF UnspawnedInv, Tasks
  <2>5. QED
    BY <2>1, <2>3, <2>4 DEF VectorInv, EntryInv, Entry, DistinctInv
<1>3. CASE StreamGetsHandles(r)
  <2>1. /\ stream[r].pc = "register" /\ stream'[r].pc = "push"
        /\ stream'[r].of = sessions[stream[r].sid]
        /\ sessions[stream[r].sid] # NoSession
        /\ \A q \in Streams \ {r} : stream'[q] = stream[q]
        /\ UNCHANGED <<start, child, handles, ninep, task>>
    BY <1>3 DEF StreamGetsHandles, StreamVars, TypeOK, StreamCall
  <2>2. stream'[r].of \in Starts /\ child[stream'[r].of] # "none"
    BY <2>1, Fields, TableOwner DEF TableInv
  <2>3. VectorInv'
    BY <2>1, <2>2 DEF VectorInv
  <2>4. QED
    BY <2>1, <2>3 DEF EntryInv, Entry, ForwarderInv, DistinctInv, UnspawnedInv
<1>4. CASE \/ \E s \in Sids, fd \in {"stdin", "stdout", "stderr"} : StreamCalled(r, s, fd)
           \/ StreamNoSession(r) \/ StdinLocks(r) \/ StdinEnds(r) \/ StreamCancelled(r)
  <2>1. /\ stream[r].pc # "ok" /\ stream'[r].pc # "push"
        /\ stream'[r].pc \in {"idle", "get"} => stream[r].pc = "idle"
        /\ \A q \in Streams \ {r} : stream'[q] = stream[q]
        /\ UNCHANGED <<start, child, handles, ninep, task>>
    <3>1. CASE \E s \in Sids, fd \in {"stdin", "stdout", "stderr"} : StreamCalled(r, s, fd)
      <4>1. PICK s \in Sids, fd \in {"stdin", "stdout", "stderr"} : StreamCalled(r, s, fd)
        BY <3>1
      <4>2. stream[r] \in StreamCall
        BY DEF TypeOK
      <4>3. /\ stream[r].pc = "idle"
            /\ stream'[r] = [stream[r] EXCEPT !.pc = "get", !.sid = s, !.fd = fd]
            /\ \A q \in Streams \ {r} : stream'[q] = stream[q]
            /\ UNCHANGED <<start, child, handles, ninep, task>>
        BY <4>1 DEF StreamCalled, StreamVars, TypeOK
      <4>4. stream'[r].pc = "get"
        BY <4>2, <4>3 DEF StreamCall
      <4>5. QED
        BY <4>3, <4>4
    <3>2. CASE StreamNoSession(r)
      <4>1. /\ stream[r].pc \in {"get", "register"}
            /\ stream' = [stream EXCEPT ![r].pc = "error"]
            /\ UNCHANGED <<start, child, handles, ninep, task>>
        BY <3>2 DEF StreamNoSession, StreamVars
      <4>2. /\ stream'[r].pc = "error"
            /\ \A q \in Streams \ {r} : stream'[q] = stream[q]
        BY <4>1, StreamPc
      <4>3. QED
        BY <4>1, <4>2
    <3>3. CASE StdinLocks(r)
      BY <3>3, StreamPc DEF StdinLocks, StreamVars
    <3>4. CASE StdinEnds(r)
      BY <3>4, StreamPc DEF StdinEnds, StreamVars
    <3>5. CASE StreamCancelled(r)
      <4>1. /\ stream[r].pc \in {"get", "stdin", "writing", "register", "push"}
            /\ stream' = [stream EXCEPT ![r].pc = "cancelled"]
            /\ UNCHANGED <<start, child, handles, ninep, task>>
        BY <3>5 DEF StreamCancelled, StreamVars
      <4>2. /\ stream'[r].pc = "cancelled"
            /\ \A q \in Streams \ {r} : stream'[q] = stream[q]
        BY <4>1, StreamPc
      <4>3. QED
        BY <4>1, <4>2
    <3>6. QED
      BY <1>4, <3>1, <3>2, <3>3, <3>4, <3>5
  <2>2. QED
    BY <2>1 DEF VectorInv, EntryInv, Entry, ForwarderInv, DistinctInv, UnspawnedInv
<1>5. CASE CopyEnds(r)
  <2>1. /\ \A t \in Tasks : task[t] # "none" => task'[t] # "none"
        /\ \A t \in Tasks : task[t] = "none" => task'[t] = "none"
        /\ UNCHANGED <<start, child, handles, ninep, stream>>
    BY <1>5 DEF CopyEnds, TaskVars, TypeOK, Tasks
  <2>2. ForwarderInv'
    BY <2>1, Fields DEF ForwarderInv, TypeOK, Tasks
  <2>3. QED
    BY <2>1, <2>2 DEF VectorInv, EntryInv, Entry, DistinctInv, UnspawnedInv, Tasks
<1>6. QED
  BY <1>1, <1>2, <1>3, <1>4, <1>5 DEF StreamStep

(* Every step keeps what the vectors of handles hold. *)
LEMMA HandlesStep ==
    ASSUME TypeOK, TableInv, HandlesInv, [Next]_vars
    PROVE  HandlesInv'
<1>1. CASE UNCHANGED <<start, child, handles, ninep, stream, task>>
  BY <1>1 DEF HandlesInv, VectorInv, EntryInv, Entry, ForwarderInv, DistinctInv,
              UnspawnedInv
<1>2. ASSUME NEW f \in Forwards, ForwardEnds(f) PROVE HandlesInv'
  <2>1. /\ \A t \in Tasks : task[t] # "none" => task'[t] # "none"
        /\ \A t \in Tasks : task[t] = "none" => task'[t] = "none"
        /\ UNCHANGED <<start, child, handles, ninep, stream>>
    BY <1>2 DEF ForwardEnds, TaskVars, TypeOK, Tasks
  <2>2. ForwarderInv'
    BY <2>1, Fields DEF HandlesInv, ForwarderInv, TypeOK, Tasks
  <2>3. QED
    BY <2>1, <2>2 DEF HandlesInv, VectorInv, EntryInv, Entry, DistinctInv,
                      UnspawnedInv, Tasks
<1>3. ASSUME NEW w \in Waits, (\E s \in Sids : WaitCalled(w, s)) \/ WaitStep(w)
                              \/ WaitCancelled(w)
      PROVE  UNCHANGED <<start, child, handles, ninep, stream, task>>
  BY <1>3 DEF WaitCalled, WaitCancelled, WaitStep, WaitGetsChild, WaitChildDone,
     WaitGetsHandles, WaitNoSession, WaitLocksHandles, WaitJoins, WaitPanics,
     WaitUnlocksHandles, WaitRemoves, WaitVars
<1>4. QED
  BY <1>1, <1>2, <1>3, HandlesArrive, HandlesTake, HandlesStart, HandlesStream
     DEF Next, vars

-----------------------------------------------------------------------------
(* What the other calls do under a running wait.                           *)

(* Launched sessions keep their id, vectors only grow, and a task that has *)
(* ended stays so.                                                         *)
Kept ==
    /\ \A c \in Starts : child[c] # "none" =>
          child'[c] # "none" /\ start'[c].sid = start[c].sid
    /\ \A c \in Starts : \A i \in DOMAIN handles[c] :
          i \in DOMAIN handles'[c] /\ handles'[c][i] = handles[c][i]
    /\ \A c \in Starts : Len(handles[c]) <= Len(handles'[c])
    /\ \A t \in Tasks : task[t] = "done" => task'[t] = "done"

(* Steps that leave the vectors alone keep their entries and lengths. *)
LEMMA VectorsKept ==
    ASSUME TypeOK, UNCHANGED handles
    PROVE  /\ \A c \in Starts : \A i \in DOMAIN handles[c] :
                 i \in DOMAIN handles'[c] /\ handles'[c][i] = handles[c][i]
           /\ \A c \in Starts : Len(handles[c]) <= Len(handles'[c])
<1>1. \A c \in Starts : handles[c] \in Seq(Tasks)
  BY DEF TypeOK
<1>2. QED
  BY <1>1

(* dial, ninep_forward and start. *)
LEMMA StartKeeps ==
    ASSUME TypeOK, TableInv, HandlesInv,
           \/ \E s \in Sids : Dial(s) \/ \E f \in Forwards : NinepForward(f, s)
           \/ \E c \in Starts, s \in Sids, np \in BOOLEAN :
                    StartTakesPending(c, s, np) \/ StartNotPending(c, s, np)
           \/ \E c \in Starts : StartStep(c) \/ StartCancelled(c) \/ ChildStep(c)
    PROVE  Kept /\ UNCHANGED <<wait, joined>>
<1>1. CASE \E s \in Sids : Dial(s) \/ \E f \in Forwards : NinepForward(f, s)
  <2>1. UNCHANGED <<start, child, handles, wait, joined>>
    BY <1>1 DEF Dial, NinepForward
  <2>2. \A t \in Tasks : task[t] = "done" => task'[t] = "done"
    BY <1>1 DEF Dial, NinepForward, TypeOK, Tasks
  <2>3. QED
    BY <2>1, <2>2, VectorsKept DEF Kept
<1>2. ASSUME NEW c \in Starts, NEW s \in Sids, NEW np \in BOOLEAN,
             StartTakesPending(c, s, np) \/ StartNotPending(c, s, np)
      PROVE  Kept /\ UNCHANGED <<wait, joined>>
  <2>1. /\ start[c].pc = "idle" /\ \A d \in Starts \ {c} : start'[d] = start[d]
        /\ UNCHANGED <<child, handles, task, wait, joined>>
    BY <1>2 DEF StartTakesPending, StartNotPending, StartVars, TypeOK
  <2>2. child[c] = "none"
    BY <2>1 DEF TableInv, IdInv
  <2>3. QED
    BY <2>1, <2>2, VectorsKept DEF Kept
<1>3. ASSUME NEW c \in Starts, StartLaunches(c)
      PROVE  Kept /\ UNCHANGED <<wait, joined>>
  <2>1. /\ start[c].pc = "lock"
        /\ start' = [start EXCEPT ![c].pc = "accept"]
        /\ \A d \in Starts \ {c} : child'[d] = child[d] /\ handles'[d] = handles[d]
        /\ handles'[c] = IF start[c].fwd = NoTask THEN << >> ELSE <<start[c].fwd>>
        /\ UNCHANGED <<task, wait, joined>>
    BY <1>3 DEF StartLaunches, StartVars, TypeOK
  <2>2. child[c] = "none" /\ handles[c] = << >>
    BY <2>1 DEF TableInv, IdInv, HandlesInv, VectorInv
  <2>3. \A d \in Starts : start'[d].sid = start[d].sid
    BY <2>1, StartPc
  <2>4. \A d \in Starts : handles[d] \in Seq(Tasks)
    BY DEF TypeOK
  <2>5. \A d \in Starts : Len(handles[d]) <= Len(handles'[d])
    <3>1. Len(handles'[c]) \in Nat /\ Len(handles[c]) = 0
      BY <2>1, <2>2
    <3>2. QED
      BY <2>1, <2>4, <3>1
  <2>6. QED
    BY <2>1, <2>2, <2>3, <2>5 DEF Kept
<1>4. ASSUME NEW c \in Starts, StartStep(c) \/ StartCancelled(c) \/ ChildStep(c),
             ~StartLaunches(c)
      PROVE  Kept /\ UNCHANGED <<wait, joined>>
  <2>1. /\ \A d \in Starts : start'[d].sid = start[d].sid
        /\ \A d \in Starts : child[d] # "none" => child'[d] # "none"
        /\ UNCHANGED <<handles, task, wait, joined>>
    <3>1. CASE StartFails(c)
      BY <3>1, StartPc DEF StartFails, StartVars
    <3>2. CASE StartInserts(c)
      BY <3>2, StartPc DEF StartInserts, StartVars, TypeOK
    <3>3. CASE StartSendFails(c)
      BY <3>3, StartPc DEF StartSendFails, StartVars
    <3>4. CASE StartCancelled(c)
      BY <3>4, StartPc DEF StartCancelled, StartVars
    <3>5. CASE ChildStep(c)
      BY <3>5 DEF ChildStep, LauncherConnects, LauncherAborts, ChildExits, ChildVars,
                  TypeOK
    <3>6. QED
      BY <1>4, <3>1, <3>2, <3>3, <3>4, <3>5 DEF StartStep
  <2>2. QED
    BY <2>1, VectorsKept DEF Kept
<1>5. QED
  BY <1>1, <1>2, <1>3, <1>4

(* The calls of stdin, stdout and stderr, and the ends of the tasks. *)
LEMMA StreamKeeps ==
    ASSUME TypeOK, HandlesInv,
           \/ \E f \in Forwards : ForwardEnds(f)
           \/ \E r \in Streams :
                 \/ \E s \in Sids, fd \in {"stdin", "stdout", "stderr"} :
                          StreamCalled(r, s, fd)
                 \/ StreamStep(r) \/ StdinEnds(r) \/ StreamCancelled(r) \/ CopyEnds(r)
    PROVE  Kept /\ UNCHANGED <<wait, joined>>
<1>1. ASSUME NEW f \in Forwards, ForwardEnds(f)
      PROVE  Kept /\ UNCHANGED <<wait, joined>>
  <2>1. /\ UNCHANGED <<start, child, handles, wait, joined>>
        /\ \A t \in Tasks : task[t] = "done" => task'[t] = "done"
    BY <1>1 DEF ForwardEnds, TaskVars, TypeOK
  <2>2. QED
    BY <2>1, VectorsKept DEF Kept
<1>2. ASSUME NEW r \in Streams, CopyEnds(r)
      PROVE  Kept /\ UNCHANGED <<wait, joined>>
  <2>1. /\ UNCHANGED <<start, child, handles, wait, joined>>
        /\ \A t \in Tasks : task[t] = "done" => task'[t] = "done"
    BY <1>2 DEF CopyEnds, TaskVars, TypeOK
  <2>2. QED
    BY <2>1, VectorsKept DEF Kept
<1>3. ASSUME NEW r \in Streams, StreamGets(r)
      PROVE  Kept /\ UNCHANGED <<wait, joined>>
  <2>1. /\ stream[r].pc = "get" /\ \A t \in Tasks \ {r} : task'[t] = task[t]
        /\ UNCHANGED <<start, child, handles, wait, joined>>
    BY <1>3 DEF StreamGets, StreamVars, TypeOK, Tasks
  <2>2. task[r] = "none"
    BY <2>1 DEF HandlesInv, UnspawnedInv
  <2>3. QED
    BY <2>1, <2>2, VectorsKept DEF Kept
<1>4. ASSUME NEW r \in Streams, StreamPushes(r)
      PROVE  Kept /\ UNCHANGED <<wait, joined>>
  <2>1. /\ stream[r].pc = "push" /\ UNCHANGED <<start, child, task, wait, joined>>
        /\ handles' = [handles EXCEPT ![stream[r].of] = Append(@, r)]
    BY <1>4 DEF StreamPushes, StreamVars
  <2>2. PICK d \in Starts : d = stream[r].of
    BY <2>1 DEF HandlesInv, VectorInv
  <2>3. \A e \in Starts : handles[e] \in Seq(Tasks)
    BY DEF TypeOK
  <2>4. /\ handles'[d] = Append(handles[d], r)
        /\ \A e \in Starts \ {d} : handles'[e] = handles[e]
    BY <2>1, <2>2 DEF TypeOK
  <2>5. /\ \A i \in DOMAIN handles[d] :
              i \in DOMAIN handles'[d] /\ handles'[d][i] = handles[d][i]
        /\ Len(handles[d]) <= Len(handles'[d])
    BY <2>3, <2>4 DEF Tasks
  <2>6. /\ \A c \in Starts : \A i \in DOMAIN handles[c] :
              i \in DOMAIN handles'[c] /\ handles'[c][i] = handles[c][i]
        /\ \A c \in Starts : Len(handles[c]) <= Len(handles'[c])
    <3>1. ASSUME NEW c \in Starts \ {d}
          PROVE  /\ \A i \in DOMAIN handles[c] :
                       i \in DOMAIN handles'[c] /\ handles'[c][i] = handles[c][i]
                 /\ Len(handles[c]) <= Len(handles'[c])
      BY <2>3, <2>4
    <3>2. QED
      BY <2>5, <3>1
  <2>7. QED
    BY <2>1, <2>6 DEF Kept
<1>5. ASSUME NEW r \in Streams,
             \/ \E s \in Sids, fd \in {"stdin", "stdout", "stderr"} :
                      StreamCalled(r, s, fd)
             \/ StreamGetsHandles(r) \/ StreamNoSession(r) \/ StdinLocks(r)
             \/ StdinEnds(r) \/ StreamCancelled(r)
      PROVE  Kept /\ UNCHANGED <<wait, joined>>
  <2>1. UNCHANGED <<start, child, handles, task, wait, joined>>
    BY <1>5 DEF StreamCalled, StreamGetsHandles, StreamNoSession, StdinLocks,
                StdinEnds, StreamCancelled, StreamVars
  <2>2. QED
    BY <2>1, VectorsKept DEF Kept
<1>6. QED
  BY <1>1, <1>2, <1>3, <1>4, <1>5 DEF StreamStep

(* A step that keeps the vectors and is none of wait keeps the loops. *)
LEMMA LoopsKept ==
    ASSUME TypeOK, TypeOK', LoopsInv, Kept, UNCHANGED <<wait, joined>>
    PROVE  LoopsInv'
<1>1. OfInv'
  BY DEF LoopsInv, OfInv, Kept
<1>2. LoopInv'
  <2> SUFFICES ASSUME NEW w \in Waits, wait[w].pc = "join"
               PROVE  /\ wait[w].i <= Len(handles'[wait[w].of]) + 1
                      /\ \A j \in DOMAIN handles'[wait[w].of] :
                            j < wait[w].i => task'[handles'[wait[w].of][j]] = "done"
    BY DEF LoopInv
  <2>1. PICK c \in Starts : c = wait[w].of
    BY DEF LoopsInv, OfInv
  <2>2. /\ handles[c] \in Seq(Tasks) /\ handles'[c] \in Seq(Tasks)
        /\ wait[w].i \in Nat
    BY Fields DEF TypeOK
  <2>3. /\ wait[w].i <= Len(handles[c]) + 1
        /\ \A j \in DOMAIN handles[c] : j < wait[w].i => task[handles[c][j]] = "done"
    BY <2>1 DEF LoopsInv, LoopInv
  <2>4. Len(handles[c]) <= Len(handles'[c])
    BY DEF Kept
  <2>5. ASSUME NEW j \in DOMAIN handles'[c], j < wait[w].i
        PROVE  task'[handles'[c][j]] = "done"
    <3>1. j \in DOMAIN handles[c]
      BY <2>2, <2>3, <2>5
    <3>2. handles[c][j] \in Tasks /\ task[handles[c][j]] = "done"
      BY <2>2, <2>3, <2>5, <3>1
    <3>3. QED
      BY <3>1, <3>2 DEF Kept
  <2>6. wait[w].i <= Len(handles'[c]) + 1
    BY <2>2, <2>3, <2>4
  <2>7. QED
    BY <2>1, <2>5, <2>6
<1>3. OpenedInv'
  <2>1. \A w \in Waits : wait[w].opened \subseteq Tasks
    BY DEF TypeOK, WaitCall
  <2>2. QED
    BY <2>1 DEF LoopsInv, OpenedInv, Kept
<1>4. JoinedInv'
  <2> SUFFICES ASSUME NEW t \in joined PROVE \E v \in Waits : Joined(v, t)'
    BY DEF JoinedInv
  <2>1. PICK v \in Waits : Joined(v, t)
    BY DEF LoopsInv, JoinedInv
  <2>2. Joined(v, t)'
    BY <2>1 DEF Joined, Kept
  <2>3. QED
    BY <2>2
<1>5. PanicNeedsSecondWait'
  BY DEF LoopsInv, PanicNeedsSecondWait
<1>6. QED
  BY <1>1, <1>2, <1>3, <1>4, <1>5 DEF LoopsInv

-----------------------------------------------------------------------------
(* The steps of wait.                                                      *)

(* The program counters before the loop over the handles. *)
BeforeLoop == {"idle", "get", "child", "handles", "lock"}

(* What a step of wait call w must do to its record for the loops to stay  *)
(* right: one conjunct for each part of LoopsInv.                          *)
GoodStep(w) ==
    /\ wait'[w].pc \in {"lock", "join"} =>
          /\ wait'[w].of \in Starts
          /\ start[wait'[w].of].sid = wait'[w].sid
          /\ child[wait'[w].of] # "none"
    /\ wait'[w].pc = "join" =>
          /\ wait'[w].i <= Len(handles[wait'[w].of]) + 1
          /\ \A j \in DOMAIN handles[wait'[w].of] :
                j < wait'[w].i => task[handles[wait'[w].of][j]] = "done"
    /\ \A t \in wait'[w].opened : \E c \in Starts :
          /\ start[c].sid = wait'[w].sid /\ child[c] # "none"
          /\ \E i \in DOMAIN handles[c] : handles[c][i] = t
    /\ wait'[w].pc \in {"remove", "ok"} =>
          \A t \in wait'[w].opened : task[t] = "done"
    /\ wait[w].pc \notin BeforeLoop =>
          /\ wait'[w].pc \notin BeforeLoop
          /\ wait'[w].of = wait[w].of /\ wait'[w].i >= wait[w].i
    /\ wait[w].pc # "idle" => wait'[w].pc # "idle" /\ wait'[w].sid = wait[w].sid
    /\ wait'[w].pc = "panicked" => \E v \in Waits \ {w} :
          wait[v].sid = wait'[w].sid /\ wait[v].pc # "idle"
    /\ joined \subseteq joined'
    /\ \A t \in joined' \ joined : Joined(w, t)'

(* Nothing else changes. *)
OnlyWait(w) ==
    /\ \A v \in Waits \ {w} : wait'[v] = wait[v]
    /\ UNCHANGED <<start, child, handles, task>>

(* Such a step keeps the loops. *)
LEMMA GoodStepKeeps ==
    ASSUME TypeOK, TypeOK', LoopsInv, NEW w \in Waits, OnlyWait(w), GoodStep(w)
    PROVE  LoopsInv'
<1>1. OfInv'
  BY DEF LoopsInv, OfInv, OnlyWait, GoodStep
<1>2. LoopInv'
  BY DEF LoopsInv, LoopInv, OnlyWait, GoodStep
<1>3. OpenedInv'
  BY DEF LoopsInv, OpenedInv, OnlyWait, GoodStep
<1>4. JoinedInv'
  <2> SUFFICES ASSUME NEW t \in joined' PROVE \E v \in Waits : Joined(v, t)'
    BY DEF JoinedInv
  <2>1. CASE t \in joined
    <3>1. PICK v \in Waits : Joined(v, t)
      BY <2>1 DEF LoopsInv, JoinedInv
    <3>2. CASE v = w
      <4>1. /\ wait[w].pc \notin BeforeLoop /\ wait'[w].pc \notin BeforeLoop
            /\ wait'[w].of = wait[w].of /\ wait'[w].sid = wait[w].sid
        BY <3>1, <3>2 DEF Joined, GoodStep, BeforeLoop
      <4>2. wait[w].i \in Nat /\ wait'[w].i \in Nat /\ wait'[w].i >= wait[w].i
        BY <4>1, Fields DEF GoodStep, TypeOK, WaitCall
      <4>3. handles[wait[w].of] \in Seq(Tasks)
        BY <3>1, <3>2 DEF Joined, TypeOK
      <4>4. PICK j \in DOMAIN handles[wait[w].of] :
                j < wait[w].i /\ handles[wait[w].of][j] = t
        BY <3>1, <3>2 DEF Joined
      <4>5. j < wait'[w].i
        BY <4>2, <4>3, <4>4
      <4>6. QED
        BY <3>1, <3>2, <4>1, <4>4, <4>5 DEF Joined, OnlyWait, BeforeLoop
    <3>3. CASE v # w
      BY <3>1, <3>3 DEF Joined, OnlyWait
    <3>4. QED
      BY <3>2, <3>3
  <2>2. CASE t \notin joined
    BY <2>2 DEF GoodStep
  <2>3. QED
    BY <2>1, <2>2
<1>5. PanicNeedsSecondWait'
  <2> SUFFICES ASSUME NEW x \in Waits, wait'[x].pc = "panicked"
               PROVE  \E v \in Waits \ {x} : /\ wait'[v].sid = wait'[x].sid
                                             /\ wait'[v].pc # "idle"
    BY DEF PanicNeedsSecondWait
  <2>1. PICK v \in Waits \ {x} : wait[v].sid = wait'[x].sid /\ wait[v].pc # "idle"
    BY DEF LoopsInv, PanicNeedsSecondWait, OnlyWait, GoodStep
  <2>2. wait'[v].sid = wait[v].sid /\ wait'[v].pc # "idle"
    BY <2>1 DEF OnlyWait, GoodStep
  <2>3. QED
    BY <2>1, <2>2
<1>6. QED
  BY <1>1, <1>2, <1>3, <1>4, <1>5 DEF LoopsInv

(* What a change of a wait call's program counter leaves alone. *)
LEMMA WaitRest ==
    ASSUME TypeOK, NEW w \in Waits, NEW p, wait' = [wait EXCEPT ![w].pc = p]
    PROVE  /\ wait'[w].pc = p /\ wait'[w].sid = wait[w].sid
           /\ wait'[w].of = wait[w].of /\ wait'[w].i = wait[w].i
           /\ wait'[w].opened = wait[w].opened
           /\ \A v \in Waits \ {w} : wait'[v] = wait[v]
<1>1. wait[w] \in WaitCall
  BY DEF TypeOK
<1>2. wait'[w] = [wait[w] EXCEPT !.pc = p]
  BY DEF TypeOK
<1>3. QED
  BY <1>1, <1>2 DEF WaitCall, TypeOK

(* A step that only moves the program counter, and neither into the loop   *)
(* nor to the removal nor back. *)
LEMMA PcStep ==
    ASSUME TypeOK, LoopsInv, NEW w \in Waits,
           NEW p \in {"handles", "error", "ok", "cancelled"},
           wait' = [wait EXCEPT ![w].pc = p],
           wait[w].pc # "idle", p = "handles" => wait[w].pc = "child",
           p = "ok" => wait[w].pc = "remove", UNCHANGED joined
    PROVE  GoodStep(w)
<1>1. /\ wait'[w].pc = p /\ wait'[w].sid = wait[w].sid
      /\ wait'[w].of = wait[w].of /\ wait'[w].i = wait[w].i
      /\ wait'[w].opened = wait[w].opened
  BY WaitRest
<1>2. wait[w].i \in Nat
  BY Fields
<1>3. \A t \in wait'[w].opened : \E c \in Starts :
          /\ start[c].sid = wait'[w].sid /\ child[c] # "none"
          /\ \E i \in DOMAIN handles[c] : handles[c][i] = t
  BY <1>1 DEF LoopsInv, OpenedInv
<1>4. wait'[w].pc \in {"remove", "ok"} => \A t \in wait'[w].opened : task[t] = "done"
  BY <1>1 DEF LoopsInv, OpenedInv
<1>5. /\ wait'[w].pc \notin {"lock", "join", "panicked", "idle"}
      /\ wait[w].pc \notin BeforeLoop => wait'[w].pc \notin BeforeLoop
  BY <1>1 DEF BeforeLoop
<1>6. wait'[w].i >= wait[w].i
  BY <1>1, <1>2
<1>7. QED
  BY <1>1, <1>3, <1>4, <1>5, <1>6 DEF GoodStep

(* The call arrives, and the two calls of get_session. *)
LEMMA WaitEnters ==
    ASSUME TypeOK, TableInv, LoopsInv, NEW w \in Waits,
           (\E s \in Sids : WaitCalled(w, s)) \/ WaitGetsChild(w) \/ WaitGetsHandles(w)
    PROVE  GoodStep(w) /\ OnlyWait(w)
<1>0. wait[w] \in WaitCall /\ wait[w].sid \in Sids
  BY Fields DEF TypeOK
<1>1. ASSUME NEW s \in Sids, WaitCalled(w, s) PROVE GoodStep(w) /\ OnlyWait(w)
  <2>1. /\ wait[w].pc = "idle" /\ OnlyWait(w) /\ UNCHANGED joined
        /\ wait'[w] = [wait[w] EXCEPT !.pc = "get", !.sid = s, !.opened =
              {t \in Tasks : /\ sessions[s] # NoSession
                             /\ \E i \in DOMAIN handles[sessions[s]] :
                                    handles[sessions[s]][i] = t}]
    BY <1>1 DEF WaitCalled, WaitVars, OnlyWait, TypeOK
  <2>2. /\ wait'[w].pc = "get" /\ wait'[w].sid = s
        /\ \A t \in wait'[w].opened : /\ sessions[s] # NoSession
                                      /\ \E i \in DOMAIN handles[sessions[s]] :
                                             handles[sessions[s]][i] = t
    BY <1>0, <2>1 DEF WaitCall
  <2>3. \A t \in wait'[w].opened : \E c \in Starts :
              /\ start[c].sid = wait'[w].sid /\ child[c] # "none"
              /\ \E i \in DOMAIN handles[c] : handles[c][i] = t
    BY <2>2, TableOwner DEF TableInv
  <2>4. QED
    BY <2>1, <2>2, <2>3 DEF GoodStep, BeforeLoop
<1>2. CASE WaitGetsChild(w)
  <2>1. /\ wait[w].pc = "get" /\ OnlyWait(w) /\ UNCHANGED joined
        /\ wait'[w] = [wait[w] EXCEPT !.pc = "child", !.src = sessions[wait[w].sid]]
    BY <1>2 DEF WaitGetsChild, WaitVars, OnlyWait, TypeOK
  <2>2. /\ wait'[w].pc = "child" /\ wait'[w].sid = wait[w].sid
        /\ wait'[w].opened = wait[w].opened
    BY <1>0, <2>1 DEF WaitCall
  <2>3. \A t \in wait'[w].opened : \E c \in Starts :
              /\ start[c].sid = wait'[w].sid /\ child[c] # "none"
              /\ \E i \in DOMAIN handles[c] : handles[c][i] = t
    BY <2>2 DEF LoopsInv, OpenedInv
  <2>4. QED
    BY <2>1, <2>2, <2>3 DEF GoodStep, BeforeLoop
<1>3. CASE WaitGetsHandles(w)
  <2>1. /\ wait[w].pc = "handles" /\ OnlyWait(w) /\ UNCHANGED joined
        /\ sessions[wait[w].sid] # NoSession
        /\ wait'[w] = [wait[w] EXCEPT !.pc = "lock", !.of = sessions[wait[w].sid]]
    BY <1>3 DEF WaitGetsHandles, WaitVars, OnlyWait, TypeOK
  <2>2. /\ wait'[w].pc = "lock" /\ wait'[w].sid = wait[w].sid
        /\ wait'[w].of = sessions[wait[w].sid]
        /\ wait'[w].opened = wait[w].opened
    BY <1>0, <2>1 DEF WaitCall
  <2>3. \A t \in wait'[w].opened : \E c \in Starts :
              /\ start[c].sid = wait'[w].sid /\ child[c] # "none"
              /\ \E i \in DOMAIN handles[c] : handles[c][i] = t
    BY <2>2 DEF LoopsInv, OpenedInv
  <2>4. /\ wait'[w].of \in Starts /\ start[wait'[w].of].sid = wait'[w].sid
        /\ child[wait'[w].of] # "none"
    BY <1>0, <2>1, <2>2, TableOwner DEF TableInv
  <2>5. QED
    BY <2>1, <2>2, <2>3, <2>4 DEF GoodStep, BeforeLoop
<1>4. QED
  BY <1>1, <1>2, <1>3

(* The loop begins, and one turn of it. *)
LEMMA WaitLoops ==
    ASSUME TypeOK, LoopsInv, NEW w \in Waits, WaitLocksHandles(w) \/ WaitJoins(w)
    PROVE  GoodStep(w) /\ OnlyWait(w)
<1>0. wait[w] \in WaitCall /\ wait[w].i \in Nat \ {0}
  BY Fields DEF TypeOK
<1>1. wait[w].pc \in {"lock", "join"}
  BY DEF WaitLocksHandles, WaitJoins
<1>2. PICK c \in Starts : /\ c = wait[w].of /\ start[c].sid = wait[w].sid
                          /\ child[c] # "none"
  BY <1>1 DEF LoopsInv, OfInv
<1>3. handles[c] \in Seq(Tasks)
  BY DEF TypeOK
<1>4. CASE WaitLocksHandles(w)
  <2>1. /\ wait[w].pc = "lock" /\ OnlyWait(w) /\ UNCHANGED joined
        /\ wait'[w] = [wait[w] EXCEPT !.pc = "join", !.i = 1]
    BY <1>4 DEF WaitLocksHandles, WaitVars, OnlyWait, TypeOK
  <2>2. /\ wait'[w].pc = "join" /\ wait'[w].sid = wait[w].sid
        /\ wait'[w].of = c /\ wait'[w].i = 1
        /\ wait'[w].opened = wait[w].opened
    BY <1>0, <1>2, <2>1 DEF WaitCall
  <2>3. \A t \in wait'[w].opened : \E d \in Starts :
              /\ start[d].sid = wait'[w].sid /\ child[d] # "none"
              /\ \E i \in DOMAIN handles[d] : handles[d][i] = t
    BY <2>2 DEF LoopsInv, OpenedInv
  <2>4. 1 <= Len(handles[c]) + 1 /\ \A j \in DOMAIN handles[c] : ~(j < 1)
    BY <1>3
  <2>5. QED
    BY <1>2, <2>1, <2>2, <2>3, <2>4 DEF GoodStep, BeforeLoop
<1>5. CASE WaitJoins(w)
  <2> DEFINE i == wait[w].i
  <2>1. /\ wait[w].pc = "join" /\ OnlyWait(w) /\ i \in DOMAIN handles[c]
        /\ task[handles[c][i]] = "done" /\ joined' = joined \cup {handles[c][i]}
        /\ wait'[w] = [wait[w] EXCEPT !.i = i + 1]
    BY <1>2, <1>5 DEF WaitJoins, WaitVars, OnlyWait, TypeOK
  <2>2. /\ wait'[w].pc = "join" /\ wait'[w].sid = wait[w].sid
        /\ wait'[w].of = c /\ wait'[w].i = i + 1
        /\ wait'[w].opened = wait[w].opened
    BY <1>0, <1>2, <2>1 DEF WaitCall
  <2>3. \A t \in wait'[w].opened : \E d \in Starts :
              /\ start[d].sid = wait'[w].sid /\ child[d] # "none"
              /\ \E k \in DOMAIN handles[d] : handles[d][k] = t
    BY <2>2 DEF LoopsInv, OpenedInv
  <2>4. \A j \in DOMAIN handles[c] : j < i => task[handles[c][j]] = "done"
    BY <1>2, <2>1 DEF LoopsInv, LoopInv
  <2>5. /\ i + 1 <= Len(handles[c]) + 1 /\ i < i + 1 /\ i + 1 >= i
        /\ \A j \in DOMAIN handles[c] : j < i + 1 => task[handles[c][j]] = "done"
    <3>1. \A j \in DOMAIN handles[c] : j < i + 1 => j < i \/ j = i
      BY <1>0, <1>3
    <3>2. QED
      BY <1>0, <1>3, <2>1, <2>4, <3>1
  <2>6. \A t \in joined' \ joined : Joined(w, t)'
    BY <1>2, <2>1, <2>2, <2>5 DEF Joined, OnlyWait
  <2> HIDE DEF i
  <2>7. QED
    BY <1>2, <2>1, <2>2, <2>3, <2>5, <2>6, SMTT(30) DEF GoodStep, BeforeLoop, i
<1>6. QED
  BY <1>4, <1>5

(* The loop ends, one way or the other. *)
LEMMA WaitLeaves ==
    ASSUME TypeOK, TableInv, HandlesInv, LoopsInv, NEW w \in Waits,
           WaitPanics(w) \/ WaitUnlocksHandles(w)
    PROVE  GoodStep(w) /\ OnlyWait(w)
<1>0. wait[w].i \in Nat \ {0}
  BY Fields
<1>1. wait[w].pc = "join" /\ UNCHANGED joined
  BY DEF WaitPanics, WaitUnlocksHandles
<1>2. PICK c \in Starts : /\ c = wait[w].of /\ start[c].sid = wait[w].sid
                          /\ child[c] # "none"
  BY <1>1 DEF LoopsInv, OfInv
<1>3. handles[c] \in Seq(Tasks)
  BY DEF TypeOK
<1>4. \A t \in wait[w].opened : \E d \in Starts :
          /\ start[d].sid = wait[w].sid /\ child[d] # "none"
          /\ \E k \in DOMAIN handles[d] : handles[d][k] = t
  BY DEF LoopsInv, OpenedInv
<1>5. CASE WaitPanics(w)
  <2>1. /\ OnlyWait(w) /\ wait[w].i \in DOMAIN handles[c]
        /\ handles[c][wait[w].i] \in joined
        /\ wait' = [wait EXCEPT ![w].pc = "panicked"]
    BY <1>2, <1>5 DEF WaitPanics, WaitVars, OnlyWait, TypeOK
  <2>2. /\ wait'[w].pc = "panicked" /\ wait'[w].sid = wait[w].sid
        /\ wait'[w].of = wait[w].of /\ wait'[w].i = wait[w].i
        /\ wait'[w].opened = wait[w].opened
    BY <2>1, WaitRest
  <2>3. PICK v \in Waits : Joined(v, handles[c][wait[w].i])
    BY <2>1 DEF LoopsInv, JoinedInv
  <2>4. PICK d \in Starts : /\ d = wait[v].of /\ start[d].sid = wait[v].sid
                            /\ \E j \in DOMAIN handles[d] : j < wait[v].i /\
                                  handles[d][j] = handles[c][wait[w].i]
    BY <2>3 DEF Joined
  <2>5. d = c /\ wait[w].i < wait[v].i
    BY <2>1, <2>4 DEF HandlesInv, DistinctInv
  <2>6. v # w /\ wait[v].sid = wait[w].sid /\ wait[v].pc # "idle"
    BY <1>0, <1>2, <2>3, <2>4, <2>5 DEF Joined
  <2>7. wait'[w].i >= wait[w].i
    BY <1>0, <2>2
  <2>8. QED
    BY <1>1, <1>4, <2>1, <2>2, <2>6, <2>7 DEF GoodStep, BeforeLoop
<1>6. CASE WaitUnlocksHandles(w)
  <2>1. /\ OnlyWait(w) /\ wait[w].i \notin DOMAIN handles[c]
        /\ wait' = [wait EXCEPT ![w].pc = "remove"]
    BY <1>2, <1>6 DEF WaitUnlocksHandles, WaitVars, OnlyWait, TypeOK
  <2>2. /\ wait'[w].pc = "remove" /\ wait'[w].sid = wait[w].sid
        /\ wait'[w].of = wait[w].of /\ wait'[w].i = wait[w].i
        /\ wait'[w].opened = wait[w].opened
    BY <2>1, WaitRest
  <2>3. /\ wait[w].i <= Len(handles[c]) + 1
        /\ \A j \in DOMAIN handles[c] : j < wait[w].i => task[handles[c][j]] = "done"
    BY <1>1, <1>2 DEF LoopsInv, LoopInv
  <2>4. \A j \in DOMAIN handles[c] : j < wait[w].i
    BY <1>0, <1>3, <2>1, <2>3
  <2>5. ASSUME NEW t \in wait[w].opened PROVE task[t] = "done"
    <3>1. PICK d \in Starts : /\ start[d].sid = wait[w].sid /\ child[d] # "none"
                              /\ \E k \in DOMAIN handles[d] : handles[d][k] = t
      BY <1>4
    <3>2. d = c
      BY <1>2, <3>1 DEF TableInv, IdInv, Owns
    <3>3. QED
      BY <2>3, <2>4, <3>1, <3>2
  <2>6. wait'[w].i >= wait[w].i
    BY <1>0, <2>2
  <2>7. QED
    BY <1>1, <1>4, <2>1, <2>2, <2>5, <2>6 DEF GoodStep, BeforeLoop
<1>7. QED
  BY <1>5, <1>6

(* The other steps of wait. *)
LEMMA WaitMoves ==
    ASSUME TypeOK, LoopsInv, NEW w \in Waits,
           \/ WaitChildDone(w) \/ WaitNoSession(w) \/ WaitRemoves(w)
           \/ WaitCancelled(w)
    PROVE  GoodStep(w) /\ OnlyWait(w)
<1>1. PICK p \in {"handles", "error", "ok", "cancelled"} :
          /\ wait' = [wait EXCEPT ![w].pc = p] /\ wait[w].pc # "idle"
          /\ p = "handles" => wait[w].pc = "child"
          /\ p = "ok" => wait[w].pc = "remove"
  <2>1. CASE WaitChildDone(w)
    BY <2>1 DEF WaitChildDone
  <2>2. CASE WaitNoSession(w)
    BY <2>2 DEF WaitNoSession
  <2>3. CASE WaitRemoves(w)
    BY <2>3 DEF WaitRemoves
  <2>4. CASE WaitCancelled(w)
    BY <2>4 DEF WaitCancelled
  <2>5. QED
    BY <2>1, <2>2, <2>3, <2>4
<1>2. UNCHANGED <<start, child, handles, task, joined>>
  BY DEF WaitChildDone, WaitNoSession, WaitRemoves, WaitCancelled, WaitVars
<1>3. GoodStep(w)
  BY <1>1, <1>2, PcStep
<1>4. QED
  BY <1>1, <1>2, <1>3, WaitRest DEF OnlyWait

-----------------------------------------------------------------------------
(* Every step keeps the loops of wait. *)
LEMMA LoopsStep ==
    ASSUME TypeOK, TypeOK', TableInv, HandlesInv, LoopsInv, [Next]_vars
    PROVE  LoopsInv'
<1>1. ASSUME NEW w \in Waits, (\E s \in Sids : WaitCalled(w, s)) \/ WaitStep(w)
                              \/ WaitCancelled(w)
      PROVE  LoopsInv'
  <2>1. GoodStep(w) /\ OnlyWait(w)
    BY <1>1, WaitEnters, WaitLoops, WaitLeaves, WaitMoves DEF WaitStep
  <2>2. QED
    BY <2>1, GoodStepKeeps
<1>2. CASE UNCHANGED vars
  BY <1>2 DEF vars, LoopsInv, OfInv, LoopInv, OpenedInv, JoinedInv, Joined,
              PanicNeedsSecondWait
<1>3. CASE \/ \E s \in Sids : Dial(s) \/ \E f \in Forwards : NinepForward(f, s)
           \/ \E c \in Starts, s \in Sids, np \in BOOLEAN :
                    StartTakesPending(c, s, np) \/ StartNotPending(c, s, np)
           \/ \E c \in Starts : StartStep(c) \/ StartCancelled(c) \/ ChildStep(c)
  BY <1>3, StartKeeps, LoopsKept
<1>4. CASE \/ \E f \in Forwards : ForwardEnds(f)
           \/ \E r \in Streams :
                 \/ \E s \in Sids, fd \in {"stdin", "stdout", "stderr"} :
                          StreamCalled(r, s, fd)
                 \/ StreamStep(r) \/ StdinEnds(r) \/ StreamCancelled(r) \/ CopyEnds(r)
  BY <1>4, StreamKeeps, LoopsKept
<1>5. QED
  BY <1>1, <1>2, <1>3, <1>4 DEF Next

(* A new Server has no handles and no calls. *)
LEMMA DrainInit == Init => DrainInv
<1> SUFFICES ASSUME Init PROVE DrainInv
  OBVIOUS
<1>1. HandlesInv
  BY NoneAssumption DEF Init, HandlesInv, VectorInv, EntryInv, ForwarderInv,
     DistinctInv, UnspawnedInv, Tasks
<1>2. LoopsInv
  BY DEF Init, LoopsInv, OfInv, LoopInv, OpenedInv, JoinedInv, PanicNeedsSecondWait
<1>3. QED
  BY <1>1, <1>2 DEF DrainInv

(* The inductive invariant of the handles and the loops of wait holds when *)
(* ids are fresh.                                                          *)
THEOREM DrainInvariant == ASSUME FreshIds PROVE Spec => []DrainInv
<1>1. TypeOK /\ TypeOK' /\ TableInv /\ DrainInv /\ [Next]_vars => DrainInv'
  BY HandlesStep, LoopsStep DEF DrainInv
<1>2. QED
  BY <1>1, DrainInit, TypeCorrect, TableInvariant, PTL DEF Spec

(* When wait answers, the streams that were registered when it was called  *)
(* have been forwarded to their end, whatever other calls did meanwhile.   *)
THEOREM Drains == ASSUME FreshIds PROVE Spec => []WaitDrains
<1>1. DrainInv => WaitDrains
  BY DEF DrainInv, LoopsInv, OpenedInv, WaitDrains
<1>2. QED
  BY <1>1, DrainInvariant, PTL

(* wait panics on a JoinHandle only if the session is waited for twice.    *)
THEOREM PanicsOnlyTwice == ASSUME FreshIds PROVE Spec => []PanicNeedsSecondWait
<1>1. DrainInv => PanicNeedsSecondWait
  BY DEF DrainInv, LoopsInv
<1>2. QED
  BY <1>1, DrainInvariant, PTL
=============================================================================
