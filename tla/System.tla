-------------------------------- MODULE System --------------------------------
(***************************************************************************)
(* One run of a command, end to end: P9cpuClient (client.rs) and the       *)
(* program that uses it (p9cpu.rs), the RPCs (rpc_client.rs), the server   *)
(* with its sessions and the launcher that it starts.                      *)
(*                                                                         *)
(* The server's handlers are atomic here, but for start and wait, which    *)
(* wait for the launcher and for the program: `life` is the state of each  *)
(* session id, as in SessionLifecycle, which SessionServer implements.     *)
(* The data of the streams is Stdio's, that of the 9P relay NinepRelay's.  *)
(* An RPC may fail before the server acts on it, or its answer be lost.    *)
(***************************************************************************)
EXTENDS Launcher

CONSTANTS
    Plans,    \* what is run: [args, calls, faults]
    NoSid

ASSUME SidAssumption == NoSid \notin Sids

ASSUME PlanAssumption ==
    \A p \in Plans : /\ p = [args |-> p.args, calls |-> p.calls, faults |-> p.faults]
                      /\ p.calls \in Nat /\ p.faults \in Nat

(* A part has a first field; ids may be root's.                            *)
ASSUME ArgsAssumption ==
    \A p \in Plans : \A a \in p.args :
      /\ a.namespace \in Seq(Seq(Path) \ {<< >>})
      /\ a.lines \in Seq([comment: BOOLEAN, fields: Nat, numbers: BOOLEAN, tab: FsTab])
      /\ a.uid \in Nat /\ a.gid \in Nat

VARIABLES
    plan,     \* the plan, with what is left of its calls
    faults,   \* failures of RPCs and of the terminal so far
    client,   \* the call of P9cpuClient in progress, or what it returned
    info,     \* P9cpuClient::session_info
    term,     \* the mode of the client's terminal; "lost": not restored
    life,     \* server: where each session id is
    forwards  \* server: the ids with a 9p forwarder

vars == <<plan, faults, client, info, term, life, forwards, proc, host>>

NoInfo == [sid |-> NoSid, tty |-> FALSE]
NoCall == [sid |-> NoSid, tty |-> FALSE, pc |-> "idle", cmd |-> NoCmd, stop |-> FALSE,
           res |-> "none"]

Init ==
    /\ plan \in Plans /\ faults = 0
    /\ client = [NoCall EXCEPT !.pc = "connect"]
    /\ info = NoInfo /\ term = "cooked"
    /\ life = [s \in Sids |-> "unknown"] /\ forwards = {}
    /\ LauncherInit

At(pc) == client.pc = pc
Sid == client.sid
To(pc) == client' = [client EXCEPT !.pc = pc]
Returns(r) == client' = [NoCall EXCEPT !.res = r]
Panics == To("panicked")
Lives(st) == life' = [life EXCEPT ![Sid] = st]
Fault == faults < plan.faults /\ faults' = faults + 1
Well == UNCHANGED faults

(* An RPC without an effect on the server's state: it works, or it fails.  *)
Works(ok, failed) == (ok /\ Well) \/ (failed /\ Fault)

-----------------------------------------------------------------------------
(* app: a line of the fstab file that is not one ends the program before   *)
(* it connects.                                                            *)
Refused(a) == \E k \in DOMAIN a.lines : BadLine(a.lines[k])

FileRefused(a) ==
    /\ At("connect") /\ Refused(a)
    /\ To("quit")
    /\ UNCHANGED <<plan, faults, info, term, life, forwards, proc, host>>

(* rpc_based: a connection that fails is unwrapped.                        *)
Connects ==
    /\ At("connect")
    /\ Works(Returns("ok"), Panics)
    /\ UNCHANGED <<plan, info, term, life, forwards, proc, host>>

(* P9cpuClient::start: one session at a time.  Calls and ids are bounded.  *)
CallStart(a) ==
    /\ At("idle") /\ ~Refused(a) /\ plan.calls > 0 /\ \E s \in Sids : life[s] = "unknown"
    /\ plan' = [plan EXCEPT !.calls = @ - 1]
    /\ IF info # NoInfo THEN Returns("AlreadyStarted")
       ELSE client' = [NoCall EXCEPT !.pc = "dial", !.cmd = MakeCmd(a), !.tty = a.tty]
    /\ UNCHANGED <<faults, info, term, life, forwards, proc, host>>

(* Faulty variant: the session is started before its 9p server is reached. *)
StartFirst(cmd) == "start"

(* Where start goes when it has an id.                                     *)
AfterDial(cmd) == IF cmd.ninep THEN "forward" ELSE "start"

Dial ==
    /\ At("dial")
    /\ \E s \in {x \in Sids : life[x] = "unknown"} :
          /\ \A x \in Sids : life[x] = "unknown" => s <= x
          /\ life' = [life EXCEPT ![s] = "dialed"]
          /\ Works(client' = [client EXCEPT !.pc = AfterDial(client.cmd), !.sid = s],
                   Returns("error"))
    /\ UNCHANGED <<plan, info, term, forwards, proc, host>>

(* ninep_forward, whose error is unwrapped and not returned.               *)
Forward ==
    /\ At("forward")
    /\ forwards' = forwards \cup {Sid}
    /\ Works(To("start"), Panics)
    /\ UNCHANGED <<plan, info, term, life, proc, host>>

(* Server::start takes the pending id, and spawns the launcher unless the  *)
(* forwarder that the command needs is missing.                            *)
StartClaims ==
    /\ At("start")
    /\ Lives("starting") /\ To("launch")
    /\ UNCHANGED <<plan, faults, info, term, forwards, proc, host>>

StartLaunches ==
    /\ At("launch")
    /\ IF client.cmd.ninep /\ Sid \notin forwards
       THEN Lives("gone") /\ Returns("No9pPort") /\ UNCHANGED proc
       ELSE To("starting") /\ Spawn(Sid) /\ UNCHANGED life
    /\ UNCHANGED <<plan, faults, info, term, forwards, host>>

(* It sends the command to the launcher that has connected, and registers  *)
(* the session; or the launcher is not there any more.                     *)
StartSends ==
    /\ At("starting") /\ proc[Sid].conn
    /\ \/ /\ Goes(Sid, [proc[Sid] EXCEPT !.cmd = Patched(client.cmd)])
          /\ Lives("live")
          /\ Works(To("stdout"), Returns("error"))
       \/ /\ proc[Sid].pc = "exited"
          /\ Lives("gone") /\ Returns("error") /\ Well /\ UNCHANGED proc
    /\ UNCHANGED <<plan, info, term, forwards, host>>

(* An RPC fails before the server has acted on it; or start fails on the   *)
(* server (no port, no pty, no process), or is dropped while it waits: the *)
(* id is gone then.                                                        *)
RpcFails ==
    /\ client.pc \in {"dial", "forward", "start", "launch", "starting", "stdout", "stderr"}
    /\ Fault
    /\ IF At("forward") THEN Panics ELSE Returns("error")
    /\ IF At("launch") \/ At("starting") THEN Lives("gone") ELSE UNCHANGED life
    /\ UNCHANGED <<plan, info, term, forwards, proc, host>>

(* Faulty variant: the session is not kept.                                *)
Forgets == NoInfo
SessionInfo == [sid |-> Sid, tty |-> client.tty]

(* setup_stdio: stdout, and stderr unless the program has a terminal;      *)
(* stdin is opened by a task of its own.                                   *)
SetupStdio ==
    /\ \/ /\ At("stdout") /\ ~client.tty
          /\ To("stderr") /\ UNCHANGED info
       \/ /\ At("stderr") \/ (At("stdout") /\ client.tty)
          /\ info' = SessionInfo
          /\ Returns("ok")
    /\ UNCHANGED <<plan, faults, term, life, forwards, proc, host>>

-----------------------------------------------------------------------------
(* P9cpuClient::wait takes session_info.                                   *)
CallWait ==
    /\ At("idle") /\ plan.calls > 0
    /\ plan' = [plan EXCEPT !.calls = @ - 1]
    /\ info' = NoInfo
    /\ IF info = NoInfo THEN Returns("NotStarted")
       ELSE client' = [NoCall EXCEPT !.pc = IF info.tty THEN "raw" ELSE "wait",
                                     !.sid = info.sid, !.tty = info.tty]
    /\ UNCHANGED <<faults, term, life, forwards, proc, host>>

(* tcgetattr and tcsetattr: an error is returned, and the session is lost. *)
RawMode ==
    /\ At("raw")
    /\ Works(To("wait") /\ term' = "raw", Returns("error") /\ UNCHANGED term)
    /\ UNCHANGED <<plan, info, life, forwards, proc, host>>

(* wait_inner.  Faulty variant: what is no status of the program is none.  *)
CodeOfFailure(why) == IF why = "nonzero" THEN "nonzero" ELSE "ok"
Code(why) == CASE why = "zero" -> "ok" [] why = "signal" -> "error" [] OTHER -> "nonzero"

(* Faulty variant: the server removes the session at once.                 *)
NotYet(s) == TRUE
Ended(s) == proc[s].pc = "exited"

(* Server::wait, whose answer may be lost; or the call fails before.       *)
WaitInner ==
    /\ At("wait")
    /\ \/ /\ Ended(Sid) /\ Lives("gone")
          /\ Works(client' = [client EXCEPT !.pc = "stop", !.res = Code(proc[Sid].why)],
                   client' = [client EXCEPT !.pc = "stop", !.res = "error"])
       \/ /\ client' = [client EXCEPT !.pc = "stop", !.res = "error"]
          /\ Fault /\ UNCHANGED life
    /\ UNCHANGED <<plan, info, term, forwards, proc, host>>

(* stop_tx.send.  Faulty variant: not sent.                                *)
NotSent == FALSE
Sent == TRUE

SendStop ==
    /\ At("stop")
    /\ client' = [client EXCEPT !.pc = "join", !.stop = Sent]
    /\ UNCHANGED <<plan, faults, info, term, life, forwards, proc, host>>

(* The copiers end with the program's output, or with a connection that    *)
(* breaks, as it may have done for wait; the reader of stdin when it is    *)
(* told to.                                                                *)
JoinHandles ==
    /\ At("join") /\ client.stop
    /\ ((proc[Sid].pc = "exited" \/ client.res = "error") /\ Well) \/ Fault
    /\ IF client.tty THEN To("restore") ELSE Returns(client.res)
    /\ UNCHANGED <<plan, info, term, life, forwards, proc, host>>

(* Faulty variant: an error of the program is returned at once.            *)
RestoredIfOk == IF client.res = "ok" THEN "cooked" ELSE "raw"
Restored == "cooked"

RestoreTerminal ==
    /\ At("restore")
    /\ Works(term' = Restored, term' = "lost")
    /\ Returns(client.res)
    /\ UNCHANGED <<plan, info, life, forwards, proc, host>>

-----------------------------------------------------------------------------
ClientStep ==
    \/ Connects \/ Dial \/ Forward \/ StartClaims \/ StartLaunches \/ StartSends
    \/ SetupStdio \/ RawMode \/ WaitInner \/ SendStop \/ JoinHandles \/ RestoreTerminal

ProcStep(s) ==
    /\ LauncherStep(s, life[s] = "starting")
    /\ UNCHANGED <<plan, faults, client, info, term, life, forwards>>

Next ==
    \/ \E a \in plan.args : FileRefused(a) \/ CallStart(a)
    \/ CallWait \/ ClientStep \/ RpcFails
    \/ \E s \in Sids : ProcStep(s)

Spec == Init /\ [][Next]_vars

(* The client's task and the launchers are scheduled, and programs end.    *)
FairSpec == Spec /\ WF_vars(ClientStep) /\ \A s \in Sids : WF_vars(ProcStep(s))

-----------------------------------------------------------------------------
(* One type invariant.                                                     *)
TypeOK ==
    /\ plan.calls \in Nat /\ faults \in 0..plan.faults
    /\ client.sid \in Sids \cup {NoSid} /\ info.sid \in Sids \cup {NoSid}
    /\ client.res \in {"none", "ok", "error", "nonzero", "AlreadyStarted", "NotStarted",
                       "No9pPort"}
    /\ term \in {"cooked", "raw", "lost"} /\ forwards \subseteq Sids
    /\ \A s \in Sids : /\ life[s] \in {"unknown", "dialed", "starting", "live", "gone"}
                      /\ proc[s].pc \in ToSet(Steps) \cup {"none", "exited"}
                      /\ proc[s].cmd # NoCmd =>
                            /\ proc[s].line \in {k + 1 : k \in DOMAIN proc[s].cmd.fstab} \cup {1}
                            /\ proc[s].warned \subseteq DOMAIN proc[s].cmd.fstab

(* What a session mounts stays in its own namespace: unshare alone does    *)
(* not do that, it needs MS_REC | MS_PRIVATE before the first mount, on    *)
(* every path through the launcher.                                        *)
HostUntouched == host = << >>

(* When the program runs, a target of the namespace that was mounted and   *)
(* not covered later shows the client's source, if the 9p mount was made   *)
(* and nothing was mounted over the source in between; and whatever        *)
(* failed, it never shows the server's own files as if they were the       *)
(* client's.  The lines of the fstab file come after the namespace's, so a *)
(* target is one of the first binds of what is below the 9p mount.         *)
(* This is so if no line that was mounted has '..' or a symbolic link in   *)
(* its paths: nothing in the code looks at that, and the kernel follows    *)
(* both from the server's root, so /../../etc as a source, or an absolute  *)
(* link on the client, shows the server's files.                           *)
Straight(tab, up) ==
    /\ Plain(Local)
    /\ \A k \in up : Plain(tab[k].file) /\ ("bind" \in tab[k].opts => Plain(tab[k].spec))
Bind9p(l) == "bind" \in l.opts /\ IsPrefix(Mnt9p, l.spec)
FromClient(p) == [tree |-> "client", path |-> SubSeq(p, Len(Mnt9p) + 1, Len(p))]
ShowsClient ==
    \A s \in Sids : proc[s].pc = "running" /\ proc[s].cmd.ninep =>
      LET tab == proc[s].cmd.fstab
          up == DOMAIN tab \ proc[s].warned
          covered(p, js) == \E j \in js : IsPrefix(tab[j].file, p)
          shown(k) == Show(proc[s].mounts, tab[k].file)
      IN Straight(tab, up) => \A k \in up \ {1} :
           (\A j \in 2..k : Bind9p(tab[j])) /\ ~covered(tab[k].file, {j \in up : j > k}) =>
             /\ shown(k).tree # "local"
             /\ 1 \in up /\ ~covered(tab[k].spec, {j \in up : 1 < j /\ j < k}) =>
                  shown(k) = FromClient(tab[k].spec)

(* parse_namespace against its definition: the 9p line, then a line for    *)
(* every part of one or two fields whose target no such part before it     *)
(* names, in their order; nothing if there is no such part.  Checked once  *)
(* for all the arguments of a plan.                                        *)
NamespaceLines ==
    At("connect") => \A a \in plan.args :
      LET ps == a.namespace
          good == {k \in DOMAIN ps : Len(ps[k]) <= 2}
          first == {k \in good : \A j \in good : j < k => ps[j][1] # ps[k][1]}
          tab == ParseNamespace(ps)
      IN /\ Len(tab) = IF first = {} THEN 0 ELSE Cardinality(first) + 1
         /\ \A k \in first : tab[1 + Cardinality({j \in first : j <= k})] = BindLine(ps[k])
         /\ tab # << >> => tab[1] = NinepLine

(* The launcher gives up only when a system call fails for a reason of its *)
(* own: it never takes itself the rights that its next step needs; and the *)
(* program has the user's ids, and a terminal if it was asked for.         *)
RunsAsUser ==
    \A s \in Sids :
      /\ proc[s].why # "rights"
      /\ proc[s].pc = "running" => /\ proc[s].uid = proc[s].cmd.uid
                                  /\ proc[s].gid = proc[s].cmd.gid
                                  /\ proc[s].ctty = proc[s].cmd.tty

(* What the launcher may do on the server and no more.                     *)
LaunchInv == TypeOK /\ HostUntouched /\ RunsAsUser

(* The 9p forwarder is there when start needs it, so that the client never *)
(* gets No9pPort; and the panic of ninep_forward comes before anything     *)
(* runs on the server.                                                     *)
ForwardedFirst ==
    /\ client.res # "No9pPort"
    /\ At("panicked") /\ Sid # NoSid => life[Sid] = "dialed" /\ proc[Sid].pc = "none"

(* A session that the client neither holds nor is working on stays with    *)
(* the server for ever: each one takes a failed RPC or a terminal error.   *)
Held(s) == info.sid = s \/ (Sid = s /\ ~At("panicked"))
LeftBehind == {s \in Sids : life[s] \in {"dialed", "starting", "live"} /\ ~Held(s)}
OrphansNeedFaults == Cardinality(LeftBehind) <= faults

(* wait returns Ok only if the program itself ran and ended with status 0: *)
(* start has returned Ok before the launcher's mounts, ids and exec, so    *)
(* their errors are told by the exit status alone.                         *)
OkMeansZero ==
    client.pc \in {"join", "restore"} /\ client.res = "ok" => proc[Sid].why = "zero"

(* The terminal is in raw mode only while wait is under way, however the   *)
(* call ends, unless the system call that restores it fails.               *)
TerminalRestored ==
    client.pc \notin {"wait", "stop", "join", "restore"} => term # "raw"

(* The composition keeps the promise of the session table.                 *)
Lifecycle == INSTANCE SessionLifecycle WITH
    running <- {s \in Sids : life[s] = "live" /\ proc[s].pc # "exited"}
ImplementsLifecycle == Lifecycle!LifeSpec

(* start and wait return, or the program has ended, whatever fails, but    *)
(* for a launcher that ends before it connects back: start waits for it    *)
(* for ever.                                                               *)
StartHangs == At("starting") /\ proc[Sid].pc = "exited" /\ ~proc[Sid].conn
CallsReturn == ~At("idle") ~> (client.pc \in {"idle", "quit", "panicked"} \/ StartHangs)
=============================================================================
