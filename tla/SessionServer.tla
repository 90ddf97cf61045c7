---------------------------- MODULE SessionServer ----------------------------
(***************************************************************************)
(* The session table of p9cpud (crates/libp9cpu/src/server.rs) and the     *)
(* handlers that share it.                                                 *)
(*                                                                         *)
(* `Server` keeps two maps: `pending` (ids that were dialed and not yet    *)
(* started) and `sessions` (commands that were started and not yet waited  *)
(* for).  Every RPC runs as a task of its own, so the handlers interleave  *)
(* at each `.await`.  The lock of `pending` is never held across an await  *)
(* that can block, so each access to it is one atomic step.  The lock of   *)
(* `sessions` IS held across one: `start` takes the write lock before it   *)
(* launches the child and keeps it until the child has connected back and  *)
(* the session is inserted.                                                *)
(*                                                                         *)
(* A call is used once.  A session is named by the `start` call that made  *)
(* it (one call spawns at most one child), a forwarding task by the call   *)
(* that spawned it.                                                        *)
(***************************************************************************)
EXTENDS Naturals, Sequences

CONSTANTS
    Sids,              \* session ids
    Starts,            \* `start` calls; also the names of children and sessions
    Waits,             \* `wait` calls
    Streams,           \* `stdin`, `stdout` and `stderr` calls
    Forwards,          \* `ninep_forward` calls
    NoSession,         \* the id is not a key of `sessions`
    NoCall,            \* nobody holds the lock
    NoTask,            \* no 9p forwarder was set up
    FreshIds,          \* TRUE: ids come from Uuid::new_v4 (rpc_server.rs)
    LauncherMayAbort,  \* TRUE: a launcher may die before it connects back
    MayCancel          \* TRUE: a client may drop a call, or its connection

ASSUME NoneAssumption ==
    /\ NoSession \notin Starts
    /\ NoCall \notin Starts \cup Waits
    /\ NoTask \notin Streams \cup Forwards

ASSUME CallAssumption == Streams \cap Forwards = {}

ASSUME FlagAssumption ==
    /\ FreshIds \in BOOLEAN
    /\ LauncherMayAbort \in BOOLEAN
    /\ MayCancel \in BOOLEAN

VARIABLES
    pending,      \* keys of Server::pending
    ninep,        \* PendingSession::ninep, the forwarder set up for a pending id
    dialed,       \* ids handed out so far
    sessions,     \* Server::sessions
    writer,       \* the start call that holds the write lock of `sessions`
    start,        \* progress of each start call
    child,        \* life of the process each start call spawned
    handles,      \* Session::handles, in the order of the vector
    handlesLock,  \* the wait call that holds the write lock of Session::handles
    stream,       \* progress of each stdin, stdout or stderr call
    task,         \* life of each forwarding task
    joined,       \* tasks whose JoinHandle has already been awaited to the end
    wait          \* progress of each wait call

vars == <<pending, ninep, dialed, sessions, writer, start, child, handles,
          handlesLock, stream, task, joined, wait>>

Tasks == Streams \cup Forwards
Finished == {"ok", "error", "panicked", "cancelled"}

StartPcs == {"idle", "lock", "accept"} \cup Finished
StreamPcs == {"idle", "get", "stdin", "writing", "register", "push"}
             \cup Finished
WaitPcs == {"idle", "get", "child", "handles", "lock", "join", "remove"}
           \cup Finished

StartCall == [pc: StartPcs,
              sid: Sids, ninep: BOOLEAN, fwd: Forwards \cup {NoTask}]

StreamCall == [pc: StreamPcs,
               sid: Sids, fd: {"stdin", "stdout", "stderr"},
               src: Starts \cup {NoSession}, of: Starts \cup {NoSession}]

WaitCall == [pc: WaitPcs,
             sid: Sids, src: Starts \cup {NoSession},
             of: Starts \cup {NoSession}, i: Nat \ {0}, opened: SUBSET Tasks]

(* One type invariant: the calls, the tables and the locks keep their      *)
(* types (server.rs, the structs Session, PendingSession and Server).      *)
TypeOK ==
    /\ pending \subseteq Sids
    /\ ninep \in [Sids -> Forwards \cup {NoTask}]
    /\ dialed \subseteq Sids
    /\ sessions \in [Sids -> Starts \cup {NoSession}]
    /\ writer \in Starts \cup {NoCall}
    /\ start \in [Starts -> StartCall]
    /\ child \in [Starts -> {"none", "launched", "connected", "running",
                             "exited", "aborted"}]
    /\ handles \in [Starts -> Seq(Tasks)]
    /\ handlesLock \in [Starts -> Waits \cup {NoCall}]
    /\ stream \in [Streams -> StreamCall]
    /\ task \in [Tasks -> {"none", "running", "done"}]
    /\ joined \subseteq Tasks
    /\ wait \in [Waits -> WaitCall]

Init ==
    \E s0 \in Sids :
    /\ pending = {}
    /\ ninep = [s \in Sids |-> NoTask]
    /\ dialed = {}
    /\ sessions = [s \in Sids |-> NoSession]
    /\ writer = NoCall
    /\ start = [c \in Starts |-> [pc |-> "idle", sid |-> s0, ninep |-> FALSE,
                                  fwd |-> NoTask]]
    /\ child = [c \in Starts |-> "none"]
    /\ handles = [c \in Starts |-> << >>]
    /\ handlesLock = [c \in Starts |-> NoCall]
    /\ stream = [r \in Streams |-> [pc |-> "idle", sid |-> s0, fd |-> "stdin",
                                    src |-> NoSession, of |-> NoSession]]
    /\ task = [t \in Tasks |-> "none"]
    /\ joined = {}
    /\ wait = [w \in Waits |-> [pc |-> "idle", sid |-> s0, src |-> NoSession,
                                of |-> NoSession, i |-> 1, opened |-> {}]]

-----------------------------------------------------------------------------
(* Server::dial and RpcServer::dial.  Only `pending` is searched for a     *)
(* duplicate; an id that is already in use answers DuplicateId and changes *)
(* nothing.                                                                *)
Dial(s) ==
    /\ s \notin pending
    /\ FreshIds => s \notin dialed
    /\ pending' = pending \cup {s}
    /\ ninep' = [ninep EXCEPT ![s] = NoTask]
    /\ dialed' = dialed \cup {s}
    /\ UNCHANGED <<sessions, writer, start, child, handles, handlesLock,
                   stream, task, joined, wait>>

(* Server::ninep_forward: under the write lock of `pending` it binds a     *)
(* listener, spawns the forwarder and stores it.  A second call for the    *)
(* same id replaces the first forwarder, which goes on detached.           *)
NinepForward(f, s) ==
    /\ task[f] = "none"
    /\ s \in pending
    /\ task' = [task EXCEPT ![f] = "running"]
    /\ ninep' = [ninep EXCEPT ![s] = f]
    /\ UNCHANGED <<pending, dialed, sessions, writer, start, child, handles,
                   handlesLock, stream, joined, wait>>

-----------------------------------------------------------------------------
(* Server::start.                                                          *)

StartVars == <<dialed, handlesLock, stream, task, joined, wait>>

(* Faulty variant: the id is looked up in `pending` and left there.        *)
StartKeepsPending(c, s, np) ==
    /\ start[c].pc = "idle"
    /\ s \in pending
    /\ start' = [start EXCEPT ![c] = [pc |-> "lock", sid |-> s, ninep |-> np,
                                     fwd |-> ninep[s]]]
    /\ UNCHANGED <<pending, ninep, sessions, writer, child, handles>>
    /\ UNCHANGED StartVars

(* The call arrives (rpc_server.rs, start) and its id leaves `pending`:    *)
(* from here on no second start gets it.                                   *)
StartTakesPending(c, s, np) ==
    /\ start[c].pc = "idle"
    /\ s \in pending
    /\ pending' = pending \ {s}
    /\ ninep' = [ninep EXCEPT ![s] = NoTask]
    /\ start' = [start EXCEPT ![c] = [pc |-> "lock", sid |-> s, ninep |-> np,
                                     fwd |-> ninep[s]]]
    /\ UNCHANGED <<sessions, writer, child, handles>>
    /\ UNCHANGED StartVars

(* SessionNotExist.                                                        *)
StartNotPending(c, s, np) ==
    /\ start[c].pc = "idle"
    /\ s \notin pending
    /\ start' = [start EXCEPT ![c] = [pc |-> "error", sid |-> s, ninep |-> np,
                                     fwd |-> NoTask]]
    /\ UNCHANGED <<pending, ninep, sessions, writer, child, handles>>
    /\ UNCHANGED StartVars

(* The write lock of `sessions` is granted, but the id has a live session  *)
(* (DuplicateId); or binding, No9pPort, the pty or the pipes, or spawn     *)
(* fails.  The lock is dropped with the error, the id stays consumed, and  *)
(* the 9p forwarder is detached.                                           *)
StartFails(c) ==
    /\ start[c].pc = "lock"
    /\ writer = NoCall
    /\ start' = [start EXCEPT ![c].pc = "error"]
    /\ UNCHANGED <<pending, ninep, sessions, writer, child, handles>>
    /\ UNCHANGED StartVars

(* Faulty variant: the lock is dropped between the check for DuplicateId   *)
(* and the insertion.                                                      *)
StartLaunchesUnlocked(c) ==
    /\ start[c].pc = "lock"
    /\ writer = NoCall
    /\ sessions[start[c].sid] = NoSession
    /\ start[c].ninep => start[c].fwd # NoTask
    /\ handles' = [handles EXCEPT ![c] = IF start[c].fwd = NoTask
                                         THEN << >> ELSE <<start[c].fwd>>]
    /\ child' = [child EXCEPT ![c] = "launched"]
    /\ start' = [start EXCEPT ![c].pc = "accept"]
    /\ UNCHANGED <<pending, ninep, sessions, writer>>
    /\ UNCHANGED StartVars

(* The write lock is granted, the id is new, the child is spawned.  The    *)
(* lock stays held.                                                        *)
StartLaunches(c) ==
    /\ start[c].pc = "lock"
    /\ writer = NoCall
    /\ sessions[start[c].sid] = NoSession
    /\ start[c].ninep => start[c].fwd # NoTask
    /\ writer' = c
    /\ handles' = [handles EXCEPT ![c] = IF start[c].fwd = NoTask
                                         THEN << >> ELSE <<start[c].fwd>>]
    /\ child' = [child EXCEPT ![c] = "launched"]
    /\ start' = [start EXCEPT ![c].pc = "accept"]
    /\ UNCHANGED <<pending, ninep, sessions>>
    /\ UNCHANGED StartVars

(* accept() returned, the command was written and the stream shut down:    *)
(* the launcher sees the end of the command and goes on to run it.  No     *)
(* await separates the shutdown from the insertion.                        *)
StartInserts(c) ==
    /\ start[c].pc = "accept"
    /\ child[c] \in {"connected", "exited"}
    /\ sessions' = [sessions EXCEPT ![start[c].sid] = c]
    /\ child' = [child EXCEPT ![c] = IF @ = "connected" THEN "running" ELSE @]
    /\ writer' = NoCall
    /\ start' = [start EXCEPT ![c].pc = "ok"]
    /\ UNCHANGED <<pending, ninep, handles>>
    /\ UNCHANGED StartVars

(* Faulty variant: the error path keeps the lock.                          *)
StartSendFailsLocked(c) ==
    /\ start[c].pc = "accept"
    /\ child[c] = "exited"
    /\ start' = [start EXCEPT ![c].pc = "error"]
    /\ UNCHANGED <<pending, ninep, sessions, writer, child, handles>>
    /\ UNCHANGED StartVars

(* A write fails because the launcher died after it had connected.         *)
StartSendFails(c) ==
    /\ start[c].pc = "accept"
    /\ child[c] = "exited"
    /\ writer' = NoCall
    /\ start' = [start EXCEPT ![c].pc = "error"]
    /\ UNCHANGED <<pending, ninep, sessions, child, handles>>
    /\ UNCHANGED StartVars

(* The client goes away: the handler's future is dropped, and with it the  *)
(* guard of `sessions`, the listener and the Child (which is not killed).  *)
StartCancelled(c) ==
    /\ MayCancel
    /\ start[c].pc \in {"lock", "accept"}
    /\ writer' = IF writer = c THEN NoCall ELSE writer
    /\ start' = [start EXCEPT ![c].pc = "cancelled"]
    /\ UNCHANGED <<pending, ninep, sessions, child, handles>>
    /\ UNCHANGED StartVars

-----------------------------------------------------------------------------
(* The spawned process, as far as the server sees it (launcher.rs).        *)

ChildVars == <<pending, ninep, dialed, sessions, writer, start, handles,
               handlesLock, stream, task, joined, wait>>

LauncherConnects(c) ==
    /\ child[c] = "launched"
    /\ start[c].pc = "accept"
    /\ child' = [child EXCEPT ![c] = "connected"]
    /\ UNCHANGED ChildVars

(* unshare or connect fails; without a listener connect always fails.      *)
LauncherAborts(c) ==
    /\ child[c] = "launched"
    /\ LauncherMayAbort \/ start[c].pc # "accept"
    /\ child' = [child EXCEPT ![c] = "aborted"]
    /\ UNCHANGED ChildVars

(* A later step of the launcher fails, or the program ends.                *)
ChildExits(c) ==
    /\ child[c] \in {"connected", "running"}
    /\ child' = [child EXCEPT ![c] = "exited"]
    /\ UNCHANGED ChildVars

-----------------------------------------------------------------------------
(* Server::get_session: the read lock of `sessions` is free.               *)
Readable == writer = NoCall

(* Server::stdin, Server::stdout and Server::stderr.                       *)

StreamVars == <<pending, ninep, dialed, sessions, writer, start, child,
                handlesLock, joined, wait>>

StreamCalled(r, s, fd) ==
    /\ stream[r].pc = "idle"
    /\ stream' = [stream EXCEPT ![r].pc = "get", ![r].sid = s, ![r].fd = fd]
    /\ UNCHANGED <<handles, task>>
    /\ UNCHANGED StreamVars

(* The first get_session.  stdout and stderr then spawn the copying task,  *)
(* stdin goes on to write itself.                                          *)
StreamGets(r) ==
    /\ stream[r].pc = "get"
    /\ Readable
    /\ sessions[stream[r].sid] # NoSession
    /\ stream' = [stream EXCEPT
            ![r].src = sessions[stream[r].sid],
            ![r].pc = IF stream[r].fd = "stdin" THEN "stdin" ELSE "register"]
    /\ task' = [task EXCEPT ![r] =
                    IF stream[r].fd = "stdin" THEN @ ELSE "running"]
    /\ UNCHANGED handles
    /\ UNCHANGED StreamVars

(* The second get_session, for the vector of handles.                      *)
StreamGetsHandles(r) ==
    /\ stream[r].pc = "register"
    /\ Readable
    /\ sessions[stream[r].sid] # NoSession
    /\ stream' = [stream EXCEPT ![r].of = sessions[stream[r].sid],
                                ![r].pc = "push"]
    /\ UNCHANGED <<handles, task>>
    /\ UNCHANGED StreamVars

(* SessionNotExist, at either get_session: the task that the second one    *)
(* was to register goes on detached.                                       *)
StreamNoSession(r) ==
    /\ stream[r].pc \in {"get", "register"}
    /\ Readable
    /\ sessions[stream[r].sid] = NoSession
    /\ stream' = [stream EXCEPT ![r].pc = "error"]
    /\ UNCHANGED <<handles, task>>
    /\ UNCHANGED StreamVars

StreamPushes(r) ==
    /\ stream[r].pc = "push"
    /\ handlesLock[stream[r].of] = NoCall
    /\ handles' = [handles EXCEPT ![stream[r].of] = Append(@, r)]
    /\ stream' = [stream EXCEPT ![r].pc = "ok"]
    /\ UNCHANGED task
    /\ UNCHANGED StreamVars

(* stdin: the write lock of the child's stdin is granted.                  *)
StdinLocks(r) ==
    /\ stream[r].pc = "stdin"
    /\ \A q \in Streams :
            ~(stream[q].pc = "writing" /\ stream[q].src = stream[r].src)
    /\ stream' = [stream EXCEPT ![r].pc = "writing"]
    /\ UNCHANGED <<handles, task>>
    /\ UNCHANGED StreamVars

(* stdin: the client's stream ended, or writing to the child failed.       *)
StdinEnds(r) ==
    /\ stream[r].pc = "writing"
    /\ \E res \in {"ok", "error"} : stream' = [stream EXCEPT ![r].pc = res]
    /\ UNCHANGED <<handles, task>>
    /\ UNCHANGED StreamVars

StreamCancelled(r) ==
    /\ MayCancel
    /\ stream[r].pc \in {"get", "stdin", "writing", "register", "push"}
    /\ stream' = [stream EXCEPT ![r].pc = "cancelled"]
    /\ UNCHANGED <<handles, task>>
    /\ UNCHANGED StreamVars

-----------------------------------------------------------------------------
(* The forwarding tasks.                                                   *)

TaskVars == <<pending, ninep, dialed, sessions, writer, start, child, handles,
              handlesLock, stream, joined, wait>>

(* copy_to ends at the end of the child's output, or when its receiver is  *)
(* gone; if the session has a pty it has no stderr and the task ends.      *)
CopyEnds(r) ==
    /\ task[r] = "running"
    /\ \/ child[stream[r].src] = "exited"
       \/ stream[r].pc \in {"error", "cancelled"}
       \/ MayCancel /\ stream[r].pc = "ok"
       \/ stream[r].fd = "stderr"
    /\ task' = [task EXCEPT ![r] = "done"]
    /\ UNCHANGED TaskVars

(* The 9p forwarder ends when accept times out, when either side closes,   *)
(* or on an error.                                                         *)
ForwardEnds(f) ==
    /\ task[f] = "running"
    /\ task' = [task EXCEPT ![f] = "done"]
    /\ UNCHANGED TaskVars

-----------------------------------------------------------------------------
(* Server::wait.                                                           *)

WaitVars == <<pending, ninep, dialed, writer, start, child, handles, stream,
              task>>

(* `opened` remembers which streams were registered when the call came.    *)
WaitCalled(w, s) ==
    /\ wait[w].pc = "idle"
    /\ wait' = [wait EXCEPT ![w].pc = "get", ![w].sid = s,
          ![w].opened = {t \in Tasks : /\ sessions[s] # NoSession
                                       /\ \E i \in DOMAIN handles[sessions[s]] :
                                              handles[sessions[s]][i] = t}]
    /\ UNCHANGED <<sessions, handlesLock, joined>>
    /\ UNCHANGED WaitVars

WaitGetsChild(w) ==
    /\ wait[w].pc = "get"
    /\ Readable
    /\ sessions[wait[w].sid] # NoSession
    /\ wait' = [wait EXCEPT ![w].pc = "child",
                            ![w].src = sessions[wait[w].sid]]
    /\ UNCHANGED <<sessions, handlesLock, joined>>
    /\ UNCHANGED WaitVars

(* Faulty variant: the child is not waited for.                            *)
WaitChildNot(w) ==
    /\ wait[w].pc = "child"
    /\ wait' = [wait EXCEPT ![w].pc = "handles"]
    /\ UNCHANGED <<sessions, handlesLock, joined>>
    /\ UNCHANGED WaitVars

(* child.write().await.wait().await                                        *)
WaitChildDone(w) ==
    /\ wait[w].pc = "child"
    /\ child[wait[w].src] = "exited"
    /\ wait' = [wait EXCEPT ![w].pc = "handles"]
    /\ UNCHANGED <<sessions, handlesLock, joined>>
    /\ UNCHANGED WaitVars

WaitGetsHandles(w) ==
    /\ wait[w].pc = "handles"
    /\ Readable
    /\ sessions[wait[w].sid] # NoSession
    /\ wait' = [wait EXCEPT ![w].pc = "lock", ![w].of = sessions[wait[w].sid]]
    /\ UNCHANGED <<sessions, handlesLock, joined>>
    /\ UNCHANGED WaitVars

(* SessionNotExist, at either get_session.                                 *)
WaitNoSession(w) ==
    /\ wait[w].pc \in {"get", "handles"}
    /\ Readable
    /\ sessions[wait[w].sid] = NoSession
    /\ wait' = [wait EXCEPT ![w].pc = "error"]
    /\ UNCHANGED <<sessions, handlesLock, joined>>
    /\ UNCHANGED WaitVars

(* Faulty variant: the loop starts one too early.                          *)
WaitLocksHandlesOff(w) ==
    /\ wait[w].pc = "lock"
    /\ handlesLock[wait[w].of] = NoCall
    /\ handlesLock' = [handlesLock EXCEPT ![wait[w].of] = w]
    /\ wait' = [wait EXCEPT ![w].pc = "join", ![w].i = 0]
    /\ UNCHANGED <<sessions, joined>>
    /\ UNCHANGED WaitVars

WaitLocksHandles(w) ==
    /\ wait[w].pc = "lock"
    /\ handlesLock[wait[w].of] = NoCall
    /\ handlesLock' = [handlesLock EXCEPT ![wait[w].of] = w]
    /\ wait' = [wait EXCEPT ![w].pc = "join", ![w].i = 1]
    /\ UNCHANGED <<sessions, joined>>
    /\ UNCHANGED WaitVars

(* Faulty variant: the same handle is awaited again.                       *)
WaitJoinsAgain(w) ==
    LET hs == handles[wait[w].of] IN
    /\ wait[w].pc = "join"
    /\ wait[w].i \in DOMAIN hs
    /\ task[hs[wait[w].i]] = "done"
    /\ hs[wait[w].i] \notin joined
    /\ joined' = joined \cup {hs[wait[w].i]}
    /\ UNCHANGED <<wait, sessions, handlesLock>>
    /\ UNCHANGED WaitVars

(* One turn of the loop: await the next handle.                            *)
WaitJoins(w) ==
    LET hs == handles[wait[w].of] IN
    /\ wait[w].pc = "join"
    /\ wait[w].i \in DOMAIN hs
    /\ task[hs[wait[w].i]] = "done"
    /\ hs[wait[w].i] \notin joined
    /\ joined' = joined \cup {hs[wait[w].i]}
    /\ wait' = [wait EXCEPT ![w].i = @ + 1]
    /\ UNCHANGED <<sessions, handlesLock>>
    /\ UNCHANGED WaitVars

(* A JoinHandle that another wait has already awaited panics when polled.  *)
WaitPanics(w) ==
    LET hs == handles[wait[w].of] IN
    /\ wait[w].pc = "join"
    /\ wait[w].i \in DOMAIN hs
    /\ hs[wait[w].i] \in joined
    /\ wait' = [wait EXCEPT ![w].pc = "panicked"]
    /\ handlesLock' = [handlesLock EXCEPT ![wait[w].of] = NoCall]
    /\ UNCHANGED <<sessions, joined>>
    /\ UNCHANGED WaitVars

(* Faulty variant: the handles are not all awaited.                        *)
WaitUnlocksHandlesEarly(w) ==
    /\ wait[w].pc = "join"
    /\ wait' = [wait EXCEPT ![w].pc = "remove"]
    /\ handlesLock' = [handlesLock EXCEPT ![wait[w].of] = NoCall]
    /\ UNCHANGED <<sessions, joined>>
    /\ UNCHANGED WaitVars

(* The loop is over; the guard of the vector is dropped.                   *)
WaitUnlocksHandles(w) ==
    /\ wait[w].pc = "join"
    /\ wait[w].i \notin DOMAIN handles[wait[w].of]
    /\ wait' = [wait EXCEPT ![w].pc = "remove"]
    /\ handlesLock' = [handlesLock EXCEPT ![wait[w].of] = NoCall]
    /\ UNCHANGED <<sessions, joined>>
    /\ UNCHANGED WaitVars

(* sessions.write().await.remove(sid)                                      *)
WaitRemoves(w) ==
    /\ wait[w].pc = "remove"
    /\ Readable
    /\ sessions' = [sessions EXCEPT ![wait[w].sid] = NoSession]
    /\ wait' = [wait EXCEPT ![w].pc = "ok"]
    /\ UNCHANGED <<handlesLock, joined>>
    /\ UNCHANGED WaitVars

WaitCancelled(w) ==
    /\ MayCancel
    /\ wait[w].pc \in {"get", "child", "handles", "lock", "join", "remove"}
    /\ wait' = [wait EXCEPT ![w].pc = "cancelled"]
    /\ handlesLock' = [c \in Starts |->
                        IF handlesLock[c] = w THEN NoCall ELSE handlesLock[c]]
    /\ UNCHANGED <<sessions, joined>>
    /\ UNCHANGED WaitVars

-----------------------------------------------------------------------------
StartStep(c) ==
    StartFails(c) \/ StartLaunches(c) \/ StartInserts(c) \/ StartSendFails(c)

StreamStep(r) ==
    \/ StreamGets(r) \/ StreamGetsHandles(r) \/ StreamNoSession(r)
    \/ StreamPushes(r) \/ StdinLocks(r)

WaitStep(w) ==
    \/ WaitGetsChild(w) \/ WaitChildDone(w) \/ WaitGetsHandles(w)
    \/ WaitNoSession(w) \/ WaitLocksHandles(w) \/ WaitJoins(w)
    \/ WaitPanics(w) \/ WaitUnlocksHandles(w) \/ WaitRemoves(w)

ChildStep(c) == LauncherConnects(c) \/ LauncherAborts(c) \/ ChildExits(c)

Next ==
    \/ \E s \in Sids : Dial(s)
    \/ \E f \in Forwards, s \in Sids : NinepForward(f, s)
    \/ \E c \in Starts, s \in Sids, np \in BOOLEAN :
            StartTakesPending(c, s, np) \/ StartNotPending(c, s, np)
    \/ \E c \in Starts : StartStep(c) \/ StartCancelled(c) \/ ChildStep(c)
    \/ \E r \in Streams, s \in Sids, fd \in {"stdin", "stdout", "stderr"} :
            StreamCalled(r, s, fd)
    \/ \E r \in Streams :
            StreamStep(r) \/ StdinEnds(r) \/ StreamCancelled(r) \/ CopyEnds(r)
    \/ \E f \in Forwards : ForwardEnds(f)
    \/ \E w \in Waits, s \in Sids : WaitCalled(w, s)
    \/ \E w \in Waits : WaitStep(w) \/ WaitCancelled(w)

Spec == Init /\ [][Next]_vars

(* What the runtime and the outside world are trusted with: every task is  *)
(* scheduled, tokio's RwLock queues are first come first served (so a lock *)
(* that is free again and again is granted: strong fairness), the client   *)
(* ends its stdin, and a process that was spawned connects or ends, and    *)
(* once it ended closes its output.                                        *)
Fairness ==
    /\ \A c \in Starts : SF_vars(StartStep(c)) /\ WF_vars(ChildStep(c))
    /\ \A r \in Streams : /\ SF_vars(StreamStep(r))
                           /\ WF_vars(StdinEnds(r))
                           /\ WF_vars(CopyEnds(r))
    /\ \A f \in Forwards : WF_vars(ForwardEnds(f))
    /\ \A w \in Waits : SF_vars(WaitStep(w))

FairSpec == Spec /\ Fairness

-----------------------------------------------------------------------------
(* start never replaces the session of an id, not even when the id is      *)
(* dialed and started again while its first session is live: a session     *)
(* leaves the table only by being removed.  The check for DuplicateId in   *)
(* start and the insertion are far apart; what makes it true is the lock   *)
(* held between them, across accept().                                     *)
LiveSessionNotReplaced ==
    [][\A s \in Sids : sessions[s] # NoSession
                          => sessions'[s] \in {sessions[s], NoSession}]_vars

(* A program runs only while its session is in the table, so somebody can  *)
(* always wait for it.  It needs that the launcher waits for the end of    *)
(* the command, that nothing can fail between the shutdown in start and    *)
(* the insertion, and that wait removes the session it waited for.         *)
RunningIsRegistered ==
    \A c \in Starts : child[c] = "running" => sessions[start[c].sid] = c

(* An id that was dialed launches at most one process, however many start  *)
(* calls race for it: start removes the id from `pending` first.           *)
OneLaunchPerId ==
    \A c, d \in Starts : /\ child[c] # "none" /\ child[d] # "none"
                         /\ start[c].sid = start[d].sid
                         => c = d

(* When wait answers, the streams opened before it was called have been    *)
(* forwarded to their end: a client that opens its streams first and then  *)
(* waits misses none of the output (setup_stdio before wait in client.rs). *)
WaitDrains ==
    \A w \in Waits : wait[w].pc = "ok" =>
        \A t \in wait[w].opened : task[t] = "done"

(* wait panics on a JoinHandle only if the session was waited for twice.   *)
PanicNeedsSecondWait ==
    \A w \in Waits : wait[w].pc = "panicked" =>
        \E v \in Waits \ {w} : /\ wait[v].sid = wait[w].sid
                               /\ wait[v].pc # "idle"

(* The inductive invariant behind the properties above, in three parts.    *)

(* The write lock of `sessions` is held exactly from the launch to the     *)
(* return of a start call, and the id is absent from the table meanwhile.  *)
LockInv ==
    /\ \A c \in Starts : start[c].pc = "accept" =>
            writer = c /\ sessions[start[c].sid] = NoSession
    /\ writer # NoCall => start[writer].pc = "accept"

(* A start call owns its id from the moment it takes it from `pending`.    *)
Owns(c) == start[c].pc \in {"lock", "accept"} \/ child[c] # "none"

IdInv ==
    /\ pending \subseteq dialed
    /\ \A c \in Starts :
          /\ start[c].pc \in {"idle", "lock"} => child[c] = "none"
          /\ start[c].pc = "accept" => child[c] # "running"
          /\ Owns(c) => start[c].sid \in dialed \ pending
          /\ child[c] = "running" => sessions[start[c].sid] = c
    /\ \A c, d \in Starts :
          Owns(c) /\ Owns(d) /\ start[c].sid = start[d].sid => c = d
    /\ \A s \in Sids : sessions[s] # NoSession =>
          start[sessions[s]].sid = s /\ child[sessions[s]] # "none"

(* A wait call that goes on to the handles has seen its own child exit.    *)
WaitInv ==
    \A w \in Waits :
      /\ wait[w].pc \in {"child", "handles", "lock", "join", "remove"} =>
            /\ wait[w].src \in Starts
            /\ start[wait[w].src].sid = wait[w].sid
            /\ child[wait[w].src] # "none"
      /\ wait[w].pc \in {"handles", "lock", "join", "remove"} =>
            child[wait[w].src] = "exited"

(* With fresh ids the three parts hold together: together they say why a   *)
(* wait call can only remove a session whose program has ended.            *)
TableInv == LockInv /\ IdInv /\ WaitInv

(* The life of an id, and the ids under which a program runs, as the       *)
(* table and the calls in flight determine them.                           *)
LifeOf(s) ==
    IF s \in pending THEN "dialed"
    ELSE IF sessions[s] # NoSession THEN "live"
    ELSE IF \E c \in Starts : /\ start[c].sid = s
                              /\ start[c].pc \in {"lock", "accept"}
         THEN "starting"
    ELSE IF s \in dialed THEN "gone" ELSE "unknown"

Lifecycle == INSTANCE SessionLifecycle WITH
    life <- [s \in Sids |-> LifeOf(s)],
    running <- {s \in Sids : \E c \in Starts : /\ start[c].sid = s
                                               /\ child[c] = "running"}

(* With fresh ids the handlers of server.rs, interleaved in any way, do    *)
(* what SessionLifecycle says: an id goes one way from dial over start to  *)
(* wait, and is reaped only when no program runs under it.                 *)
ImplementsLifecycle == Lifecycle!LifeSpec

(* client.rs on start: "This method should return as long as the command   *)
(* is spawned successfully."                                               *)
StartReturns ==
    \A c \in Starts : start[c].pc = "accept" ~> start[c].pc \in Finished

(* No call waits for ever: the locks of the table, of the vector of        *)
(* handles and of a child's stdin are taken in an order without a cycle,   *)
(* and nothing that wait waits for waits for wait.                         *)
CallsReturn ==
    /\ \A c \in Starts : start[c].pc # "idle" ~> start[c].pc \in Finished
    /\ \A r \in Streams : stream[r].pc # "idle" ~> stream[r].pc \in Finished
    /\ \A w \in Waits : wait[w].pc # "idle" ~> wait[w].pc \in Finished
=============================================================================
