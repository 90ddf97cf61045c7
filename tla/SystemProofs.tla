----------------------------- MODULE SystemProofs -----------------------------
(***************************************************************************)
(* Theorems about one run of a command end to end: the client, the         *)
(* sessions of the server and the launchers, for any plans and any ids.    *)
(***************************************************************************)
EXTENDS System, SequenceLemmas, FiniteSetTheorems, TLAPS

-----------------------------------------------------------------------------
(* The inductive invariant.                                                *)

(* The record of a process, of a call and of a plan.                       *)
Process(pc, conn, ns, cmd, mounts, made, line, warned, uid, gid, ctty, why) ==
    [pc |-> pc, conn |-> conn, ns |-> ns, cmd |-> cmd, mounts |-> mounts,
     made |-> made, line |-> line, warned |-> warned, uid |-> uid, gid |-> gid,
     ctty |-> ctty, why |-> why]

IsProcess(p) ==
    p = Process(p.pc, p.conn, p.ns, p.cmd, p.mounts, p.made, p.line, p.warned,
                p.uid, p.gid, p.ctty, p.why)

IsCall(c) == c = [sid |-> c.sid, tty |-> c.tty, pc |-> c.pc, cmd |-> c.cmd,
                  stop |-> c.stop, res |-> c.res]

(* A launcher, by the step it has reached: it has a command from `read`    *)
(* on, its own mounts when it mounts, root's rights until it gives them    *)
(* up, and the user's ids and terminal from the step that takes them.      *)
Early == {"none", "unshare", "connect", "read", "exited"}

LauncherOK(p) ==
    /\ IsProcess(p)
    /\ p.pc \in ToSet(Steps) \cup {"none", "exited"}
    /\ p.pc = "none" => p = Dead
    /\ p.cmd = NoCmd => p.pc \in Early
    /\ p.pc \in Early => p.line = 1 /\ p.warned = {}
    /\ p.pc \notin Early => /\ p.line \in {k + 1 : k \in DOMAIN p.cmd.fstab} \cup {1}
                            /\ p.warned \subseteq DOMAIN p.cmd.fstab
    /\ p.pc \in {"tmp", "local", "fstab"} => p.ns = "private"
    /\ p.uid = IF p.pc \in {"exec", "running"} THEN p.cmd.uid ELSE 0
    /\ p.pc \in {"uid", "exec", "running"} => p.gid = p.cmd.gid
    /\ p.pc \in {"gid", "uid", "exec", "running"} => p.ctty = p.cmd.tty
    /\ p.why # "rights"

LaunchersInv ==
    /\ proc = [s \in Sids |-> proc[s]]
    /\ \A s \in Sids : LauncherOK(proc[s])
    /\ host = << >>

(* The plan, and how far it is used up. *)
PlanInv ==
    /\ plan = [args |-> plan.args, calls |-> plan.calls, faults |-> plan.faults]
    /\ plan.calls \in Nat /\ plan.faults \in Nat /\ faults \in 0..plan.faults

(* The client has an id from the dial to the end of the call, and keeps    *)
(* one between start and wait.                                             *)
StartPcs == {"forward", "start", "launch", "starting", "stdout", "stderr"}
WaitPcs == {"raw", "wait", "stop", "join", "restore"}
Results == {"none", "ok", "error", "nonzero", "AlreadyStarted", "NotStarted"}

ClientInv ==
    /\ IsCall(client) /\ info = [sid |-> info.sid, tty |-> info.tty]
    /\ client.pc \in {"connect", "idle", "dial", "quit", "panicked"} \cup StartPcs \cup WaitPcs
    /\ client.pc \in {"connect", "idle", "dial", "quit"} => Sid = NoSid
    /\ client.pc \in StartPcs \cup WaitPcs => Sid \in Sids
    /\ Sid \in Sids \cup {NoSid}
    /\ client.pc # "idle" => info = NoInfo
    /\ info = NoInfo \/ info.sid \in Sids
    /\ client.res \in Results

(* Where the server has that id. *)
LifeInv ==
    /\ life = [s \in Sids |-> life[s]] /\ forwards \subseteq Sids
    /\ \A s \in Sids : life[s] \in {"unknown", "dialed", "starting", "live", "gone"}
    /\ client.pc \in {"forward", "start"} => life[Sid] = "dialed"
    /\ client.pc \in {"launch", "starting"} => life[Sid] = "starting"
    /\ client.pc \in {"stdout", "stderr", "raw", "wait"} => life[Sid] = "live"
    /\ info # NoInfo => life[info.sid] = "live"
    /\ client.pc \in {"start", "launch"} /\ client.cmd.ninep => Sid \in forwards
    /\ client.pc = "panicked" /\ Sid # NoSid => life[Sid] = "dialed"

(* Nothing runs before start has taken the id, and nothing has a command   *)
(* before start has sent it.                                               *)
SpawnInv ==
    /\ \A s \in Sids : life[s] \in {"unknown", "dialed"} => proc[s].pc = "none"
    /\ \A s \in Sids : life[s] \in {"unknown", "dialed", "starting"} => proc[s].cmd = NoCmd
    /\ client.pc = "launch" => proc[Sid].pc = "none"

(* What wait has been told, and the mode of the terminal. *)
AnswerInv ==
    client.pc \in {"stop", "join", "restore"} /\ client.res = "ok" =>
        proc[Sid].pc = "exited" /\ proc[Sid].why = "zero"

TermInv ==
    /\ term \in {"cooked", "raw", "lost"}
    /\ term = "raw" => client.pc \in {"wait", "stop", "join", "restore"} /\ client.tty
    /\ client.pc = "raw" => client.tty

(* The sessions that are lost, or will be when wait returns. *)
Working(s) == Sid = s /\ client.pc \notin {"panicked", "stop", "join", "restore"}
Lost == {s \in Sids : /\ life[s] \in {"dialed", "starting", "live"}
                      /\ info.sid # s /\ ~Working(s)}
LostInv == IsFiniteSet(Lost) /\ Cardinality(Lost) <= faults

IInv == /\ LaunchersInv /\ PlanInv /\ ClientInv /\ LifeInv /\ SpawnInv
        /\ AnswerInv /\ TermInv /\ LostInv

-----------------------------------------------------------------------------
(* The order of the launcher's steps.                                      *)

(* The thirteen steps are distinct, and come one after the other. *)
LEMMA StepSet ==
    /\ ToSet(Steps) = {"unshare", "connect", "read", "private", "tmp", "local", "fstab",
                       "args", "tty", "gid", "uid", "exec", "running"}
    /\ \A s \in Sids, k \in 1..12 : proc[s].pc = Steps[k] => NextPc(s) = Steps[k + 1]
<1>1. Len(Steps) = 13 /\ DOMAIN Steps = 1..13
  BY DEF Steps
<1>2. ToSet(Steps) = {"unshare", "connect", "read", "private", "tmp", "local", "fstab",
                      "args", "tty", "gid", "uid", "exec", "running"}
  BY <1>1 DEF ToSet, Steps
<1>3. ASSUME NEW s \in Sids, NEW k \in 1..12, proc[s].pc = Steps[k]
      PROVE  NextPc(s) = Steps[k + 1]
  <2>1. \A i, j \in 1..13 : Steps[i] = Steps[j] => i = j
    BY DEF Steps
  <2>2. {i \in 1..Len(Steps) : Steps[i] = proc[s].pc} = {k}
    BY <1>1, <1>3, <2>1
  <2>3. SelectInSeq(Steps, LAMBDA x : x = proc[s].pc) = k
    <3>1. Min({k}) = k
      BY DEF Min
    <3>2. QED
      BY <2>2, <3>1 DEF SelectInSeq
  <2>4. QED
    BY <2>3 DEF NextPc
<1>4. QED
  BY <1>2, <1>3

(* Each step by name. *)
LEMMA NextStep ==
    ASSUME NEW s \in Sids
    PROVE  /\ proc[s].pc = "unshare" => NextPc(s) = "connect"
           /\ proc[s].pc = "connect" => NextPc(s) = "read"
           /\ proc[s].pc = "read" => NextPc(s) = "private"
           /\ proc[s].pc = "private" => NextPc(s) = "tmp"
           /\ proc[s].pc = "tmp" => NextPc(s) = "local"
           /\ proc[s].pc = "local" => NextPc(s) = "fstab"
           /\ proc[s].pc = "fstab" => NextPc(s) = "args"
           /\ proc[s].pc = "args" => NextPc(s) = "tty"
           /\ proc[s].pc = "tty" => NextPc(s) = "gid"
           /\ proc[s].pc = "gid" => NextPc(s) = "uid"
           /\ proc[s].pc = "uid" => NextPc(s) = "exec"
           /\ proc[s].pc = "exec" => NextPc(s) = "running"
<1>1. /\ Steps[1] = "unshare" /\ Steps[2] = "connect" /\ Steps[3] = "read"
      /\ Steps[4] = "private" /\ Steps[5] = "tmp" /\ Steps[6] = "local"
      /\ Steps[7] = "fstab" /\ Steps[8] = "args" /\ Steps[9] = "tty"
      /\ Steps[10] = "gid" /\ Steps[11] = "uid" /\ Steps[12] = "exec"
      /\ Steps[13] = "running"
  BY DEF Steps
<1>2. \A k \in 1..12 : proc[s].pc = Steps[k] => NextPc(s) = Steps[k + 1]
  BY StepSet
<1>3. QED
  BY <1>1, <1>2

(* Updates of a process, field by field. *)
LEMMA ProcessUpdate ==
    ASSUME NEW p, IsProcess(p), NEW v
    PROVE  /\ [p EXCEPT !.pc = v] = Process(v, p.conn, p.ns, p.cmd, p.mounts,
                 p.made, p.line, p.warned, p.uid, p.gid, p.ctty, p.why)
           /\ [p EXCEPT !.conn = v] = Process(p.pc, v, p.ns, p.cmd, p.mounts,
                 p.made, p.line, p.warned, p.uid, p.gid, p.ctty, p.why)
           /\ [p EXCEPT !.ns = v] = Process(p.pc, p.conn, v, p.cmd, p.mounts,
                 p.made, p.line, p.warned, p.uid, p.gid, p.ctty, p.why)
           /\ [p EXCEPT !.cmd = v] = Process(p.pc, p.conn, p.ns, v, p.mounts,
                 p.made, p.line, p.warned, p.uid, p.gid, p.ctty, p.why)
           /\ [p EXCEPT !.mounts = v] = Process(p.pc, p.conn, p.ns, p.cmd, v,
                 p.made, p.line, p.warned, p.uid, p.gid, p.ctty, p.why)
           /\ [p EXCEPT !.made = v] = Process(p.pc, p.conn, p.ns, p.cmd, p.mounts,
                 v, p.line, p.warned, p.uid, p.gid, p.ctty, p.why)
           /\ [p EXCEPT !.line = v] = Process(p.pc, p.conn, p.ns, p.cmd, p.mounts,
                 p.made, v, p.warned, p.uid, p.gid, p.ctty, p.why)
           /\ [p EXCEPT !.warned = v] = Process(p.pc, p.conn, p.ns, p.cmd, p.mounts,
                 p.made, p.line, v, p.uid, p.gid, p.ctty, p.why)
           /\ [p EXCEPT !.uid = v] = Process(p.pc, p.conn, p.ns, p.cmd, p.mounts,
                 p.made, p.line, p.warned, v, p.gid, p.ctty, p.why)
           /\ [p EXCEPT !.gid = v] = Process(p.pc, p.conn, p.ns, p.cmd, p.mounts,
                 p.made, p.line, p.warned, p.uid, v, p.ctty, p.why)
           /\ [p EXCEPT !.ctty = v] = Process(p.pc, p.conn, p.ns, p.cmd, p.mounts,
                 p.made, p.line, p.warned, p.uid, p.gid, v, p.why)
BY DEF IsProcess, Process

-----------------------------------------------------------------------------
(* The steps of a launcher.                                                *)

(* What a step of launcher s may do. *)
LauncherMoves(s) ==
    /\ proc[s].pc \in ToSet(Steps)
    /\ LauncherOK(proc'[s]) /\ proc'[s].pc # "none"
    /\ proc'[s].cmd = proc[s].cmd
    /\ \A r \in Sids \ {s} : proc'[r] = proc[r]
    /\ proc' = [r \in Sids |-> proc'[r]]
    /\ UNCHANGED host

(* A new record for one process leaves the others. *)
LEMMA GoesOne ==
    ASSUME LaunchersInv, NEW s \in Sids, NEW p, Goes(s, p)
    PROVE  /\ proc'[s] = p
           /\ \A r \in Sids \ {s} : proc'[r] = proc[r]
           /\ proc' = [r \in Sids |-> proc'[r]]
BY DEF LaunchersInv, Goes

(* A step that goes on to the next, with q as the new record of s. *)
LEMMA DoesMoves ==
    ASSUME LaunchersInv, NEW s \in Sids, NEW q, IsProcess(q), Does(s, q),
           proc[s].pc \in ToSet(Steps), NextPc(s) # "none", q.cmd = proc[s].cmd,
           LauncherOK(Process(NextPc(s), q.conn, q.ns, q.cmd, q.mounts, q.made,
                              q.line, q.warned, q.uid, q.gid, q.ctty, q.why))
    PROVE  LauncherMoves(s)
<1>1. PICK p : p = [q EXCEPT !.pc = NextPc(s)]
  OBVIOUS
<1>2. Goes(s, p) /\ UNCHANGED host
  BY <1>1 DEF Does
<1>3. p = Process(NextPc(s), q.conn, q.ns, q.cmd, q.mounts, q.made,
                  q.line, q.warned, q.uid, q.gid, q.ctty, q.why)
  BY <1>1, ProcessUpdate
<1>4. LauncherOK(p) /\ p.pc # "none" /\ p.cmd = proc[s].cmd
  BY <1>3 DEF Process
<1>5. QED
  BY <1>2, <1>4, GoesOne DEF LauncherMoves

(* The steps that do not mount. *)
LEMMA DoesStep ==
    ASSUME LaunchersInv, NEW s \in Sids, NEW l,
           \/ Unshare(s) \/ Connect(s, l) \/ ReadCmd(s) \/ MakePrivate(s)
           \/ LinesDone(s) \/ MakeArgs(s) \/ TakeTty(s) \/ SetGid(s) \/ SetUid(s)
           \/ Exec(s)
    PROVE  LauncherMoves(s)
<1> DEFINE p == proc[s]
<1>1. LauncherOK(p) /\ IsProcess(p)
  BY DEF LaunchersInv, LauncherOK
<1>2. CASE Unshare(s)
  <2>1. p.pc = "unshare" /\ Does(s, [p EXCEPT !.ns = "shared"]) /\ NextPc(s) = "connect"
    BY <1>1, <1>2, NextStep DEF Unshare
  <2>2. PICK q : q = [p EXCEPT !.ns = "shared"]
    OBVIOUS
  <2>3. q = Process(p.pc, p.conn, "shared", p.cmd, p.mounts,
                    p.made, p.line, p.warned, p.uid, p.gid, p.ctty, p.why)
    BY <1>1, <2>2, ProcessUpdate
  <2>4. LauncherOK(Process("connect", q.conn, q.ns, q.cmd, q.mounts, q.made,
                           q.line, q.warned, q.uid, q.gid, q.ctty, q.why))
    BY <1>1, <2>1, <2>3, StepSet DEF LauncherOK, Process, IsProcess, Early
  <2>5. IsProcess(q) /\ q.cmd = p.cmd
    BY <2>3 DEF IsProcess, Process
  <2>6. QED
    BY <2>1, <2>2, <2>4, <2>5, StepSet, DoesMoves
<1>3. CASE Connect(s, l)
  <2>1. p.pc = "connect" /\ Does(s, [p EXCEPT !.conn = TRUE]) /\ NextPc(s) = "read"
    BY <1>1, <1>3, NextStep DEF Connect
  <2>2. PICK q : q = [p EXCEPT !.conn = TRUE]
    OBVIOUS
  <2>3. q = Process(p.pc, TRUE, p.ns, p.cmd, p.mounts,
                    p.made, p.line, p.warned, p.uid, p.gid, p.ctty, p.why)
    BY <1>1, <2>2, ProcessUpdate
  <2>4. LauncherOK(Process("read", q.conn, q.ns, q.cmd, q.mounts, q.made,
                           q.line, q.warned, q.uid, q.gid, q.ctty, q.why))
    BY <1>1, <2>1, <2>3, StepSet DEF LauncherOK, Process, IsProcess, Early
  <2>5. IsProcess(q) /\ q.cmd = p.cmd
    BY <2>3 DEF IsProcess, Process
  <2>6. QED
    BY <2>1, <2>2, <2>4, <2>5, StepSet, DoesMoves
<1>4. CASE MakePrivate(s)
  <2>1. p.pc = "private" /\ Does(s, [p EXCEPT !.ns = "private"]) /\ NextPc(s) = "tmp"
    BY <1>1, <1>4, NextStep DEF MakePrivate
  <2>2. PICK q : q = [p EXCEPT !.ns = "private"]
    OBVIOUS
  <2>3. q = Process(p.pc, p.conn, "private", p.cmd, p.mounts,
                    p.made, p.line, p.warned, p.uid, p.gid, p.ctty, p.why)
    BY <1>1, <2>2, ProcessUpdate
  <2>4. LauncherOK(Process("tmp", q.conn, q.ns, q.cmd, q.mounts, q.made,
                           q.line, q.warned, q.uid, q.gid, q.ctty, q.why))
    BY <1>1, <2>1, <2>3, StepSet DEF LauncherOK, Process, IsProcess, Early
  <2>5. IsProcess(q) /\ q.cmd = p.cmd
    BY <2>3 DEF IsProcess, Process
  <2>6. QED
    BY <2>1, <2>2, <2>4, <2>5, StepSet, DoesMoves
<1>5. CASE TakeTty(s)
  <2>1. p.pc = "tty" /\ Does(s, [p EXCEPT !.ctty = p.cmd.tty]) /\ NextPc(s) = "gid"
    BY <1>1, <1>5, NextStep DEF TakeTty
  <2>2. PICK q : q = [p EXCEPT !.ctty = p.cmd.tty]
    OBVIOUS
  <2>3. q = Process(p.pc, p.conn, p.ns, p.cmd, p.mounts,
                    p.made, p.line, p.warned, p.uid, p.gid, p.cmd.tty, p.why)
    BY <1>1, <2>2, ProcessUpdate
  <2>4. LauncherOK(Process("gid", q.conn, q.ns, q.cmd, q.mounts, q.made,
                           q.line, q.warned, q.uid, q.gid, q.ctty, q.why))
    BY <1>1, <2>1, <2>3, StepSet DEF LauncherOK, Process, IsProcess, Early
  <2>5. IsProcess(q) /\ q.cmd = p.cmd
    BY <2>3 DEF IsProcess, Process
  <2>6. QED
    BY <2>1, <2>2, <2>4, <2>5, StepSet, DoesMoves
<1>6. CASE SetGid(s)
  <2>1. p.pc = "gid" /\ Does(s, [p EXCEPT !.gid = p.cmd.gid]) /\ NextPc(s) = "uid"
    BY <1>1, <1>6, NextStep DEF SetGid, LauncherOK
  <2>2. PICK q : q = [p EXCEPT !.gid = p.cmd.gid]
    OBVIOUS
  <2>3. q = Process(p.pc, p.conn, p.ns, p.cmd, p.mounts,
                    p.made, p.line, p.warned, p.uid, p.cmd.gid, p.ctty, p.why)
    BY <1>1, <2>2, ProcessUpdate
  <2>4. LauncherOK(Process("uid", q.conn, q.ns, q.cmd, q.mounts, q.made,
                           q.line, q.warned, q.uid, q.gid, q.ctty, q.why))
    BY <1>1, <2>1, <2>3, StepSet DEF LauncherOK, Process, IsProcess, Early
  <2>5. IsProcess(q) /\ q.cmd = p.cmd
    BY <2>3 DEF IsProcess, Process
  <2>6. QED
    BY <2>1, <2>2, <2>4, <2>5, StepSet, DoesMoves
<1>7. CASE SetUid(s)
  <2>1. p.pc = "uid" /\ Does(s, [p EXCEPT !.uid = p.cmd.uid]) /\ NextPc(s) = "exec"
    BY <1>1, <1>7, NextStep DEF SetUid, LauncherOK
  <2>2. PICK q : q = [p EXCEPT !.uid = p.cmd.uid]
    OBVIOUS
  <2>3. q = Process(p.pc, p.conn, p.ns, p.cmd, p.mounts,
                    p.made, p.line, p.warned, p.cmd.uid, p.gid, p.ctty, p.why)
    BY <1>1, <2>2, ProcessUpdate
  <2>4. LauncherOK(Process("exec", q.conn, q.ns, q.cmd, q.mounts, q.made,
                           q.line, q.warned, q.uid, q.gid, q.ctty, q.why))
    BY <1>1, <2>1, <2>3, StepSet DEF LauncherOK, Process, IsProcess, Early
  <2>5. IsProcess(q) /\ q.cmd = p.cmd
    BY <2>3 DEF IsProcess, Process
  <2>6. QED
    BY <2>1, <2>2, <2>4, <2>5, StepSet, DoesMoves
<1>8. CASE ReadCmd(s)
  <2>1. p.pc = "read" /\ Does(s, p) /\ NextPc(s) = "private" /\ p.cmd # NoCmd
    BY <1>8, NextStep DEF ReadCmd
  <2>2. LauncherOK(Process("private", p.conn, p.ns, p.cmd, p.mounts,
                    p.made, p.line, p.warned, p.uid, p.gid, p.ctty, p.why))
    BY <1>1, <2>1, StepSet DEF LauncherOK, Process, IsProcess, Early
  <2>3. QED
    BY <1>1, <2>1, <2>2, StepSet, DoesMoves
<1>9. CASE LinesDone(s)
  <2>1. p.pc = "fstab" /\ Does(s, p) /\ NextPc(s) = "args"
    BY <1>9, NextStep DEF LinesDone
  <2>2. LauncherOK(Process("args", p.conn, p.ns, p.cmd, p.mounts,
                    p.made, p.line, p.warned, p.uid, p.gid, p.ctty, p.why))
    BY <1>1, <2>1, StepSet DEF LauncherOK, Process, IsProcess, Early
  <2>3. QED
    BY <1>1, <2>1, <2>2, StepSet, DoesMoves
<1>10. CASE MakeArgs(s)
  <2>1. p.pc = "args" /\ Does(s, p) /\ NextPc(s) = "tty"
    BY <1>10, NextStep DEF MakeArgs
  <2>2. LauncherOK(Process("tty", p.conn, p.ns, p.cmd, p.mounts,
                    p.made, p.line, p.warned, p.uid, p.gid, p.ctty, p.why))
    BY <1>1, <2>1, StepSet DEF LauncherOK, Process, IsProcess, Early
  <2>3. QED
    BY <1>1, <2>1, <2>2, StepSet, DoesMoves
<1>11. CASE Exec(s)
  <2>1. p.pc = "exec" /\ Does(s, p) /\ NextPc(s) = "running"
    BY <1>11, NextStep DEF Exec
  <2>2. LauncherOK(Process("running", p.conn, p.ns, p.cmd, p.mounts,
                    p.made, p.line, p.warned, p.uid, p.gid, p.ctty, p.why))
    BY <1>1, <2>1, StepSet DEF LauncherOK, Process, IsProcess, Early
  <2>3. QED
    BY <1>1, <2>1, <2>2, StepSet, DoesMoves
<1>12. QED
  BY <1>2, <1>3, <1>4, <1>5, <1>6, <1>7, <1>8, <1>9, <1>10, <1>11

(* Updates of two fields. *)
LEMMA ProcessUpdates ==
    ASSUME NEW p, IsProcess(p), NEW a, NEW b
    PROVE  /\ [p EXCEPT !.pc = a, !.made = b] = Process(a, p.conn, p.ns, p.cmd,
                 p.mounts, b, p.line, p.warned, p.uid, p.gid, p.ctty, p.why)
           /\ [p EXCEPT !.line = a, !.made = b] = Process(p.pc, p.conn, p.ns, p.cmd,
                 p.mounts, b, a, p.warned, p.uid, p.gid, p.ctty, p.why)
<1>1. [p EXCEPT !.pc = a, !.made = b] = Process(a, p.conn, p.ns, p.cmd,
          p.mounts, b, p.line, p.warned, p.uid, p.gid, p.ctty, p.why)
  <2>1. PICK q : q = [p EXCEPT !.pc = a]
    OBVIOUS
  <2>2. q = Process(a, p.conn, p.ns, p.cmd, p.mounts, p.made, p.line, p.warned,
                    p.uid, p.gid, p.ctty, p.why)
    BY <2>1, ProcessUpdate
  <2>3. IsProcess(q)
    BY <2>2 DEF IsProcess, Process
  <2>4. [p EXCEPT !.pc = a, !.made = b] = [q EXCEPT !.made = b]
    BY <2>1
  <2>5. [q EXCEPT !.made = b] = Process(q.pc, q.conn, q.ns, q.cmd, q.mounts, b,
                    q.line, q.warned, q.uid, q.gid, q.ctty, q.why)
    BY <2>3, ProcessUpdate
  <2>6. QED
    BY <2>2, <2>4, <2>5 DEF Process
<1>2. [p EXCEPT !.line = a, !.made = b] = Process(p.pc, p.conn, p.ns, p.cmd,
          p.mounts, b, a, p.warned, p.uid, p.gid, p.ctty, p.why)
  <2>1. PICK q : q = [p EXCEPT !.line = a]
    OBVIOUS
  <2>2. q = Process(p.pc, p.conn, p.ns, p.cmd, p.mounts, p.made, a, p.warned,
                    p.uid, p.gid, p.ctty, p.why)
    BY <2>1, ProcessUpdate
  <2>3. IsProcess(q)
    BY <2>2 DEF IsProcess, Process
  <2>4. [p EXCEPT !.line = a, !.made = b] = [q EXCEPT !.made = b]
    BY <2>1
  <2>5. [q EXCEPT !.made = b] = Process(q.pc, q.conn, q.ns, q.cmd, q.mounts, b,
                    q.line, q.warned, q.uid, q.gid, q.ctty, q.why)
    BY <2>3, ProcessUpdate
  <2>6. QED
    BY <2>2, <2>4, <2>5 DEF Process
<1>3. QED
  BY <1>1, <1>2

(* A mount, with q as the record of s before the mount is appended. *)
LEMMA MountedMoves ==
    ASSUME LaunchersInv, NEW s \in Sids, NEW q, IsProcess(q), NEW m, Mounted(s, m, q),
           proc[s].pc \in ToSet(Steps), proc[s].ns = "private",
           q.pc # "none", q.cmd = proc[s].cmd,
           LauncherOK(Process(q.pc, q.conn, q.ns, q.cmd, Append(q.mounts, m), q.made,
                              q.line, q.warned, q.uid, q.gid, q.ctty, q.why))
    PROVE  LauncherMoves(s)
<1>1. PICK p : p = [q EXCEPT !.mounts = Append(q.mounts, m)]
  OBVIOUS
<1>2. Goes(s, p) /\ UNCHANGED host
  BY <1>1 DEF Mounted
<1>3. p = Process(q.pc, q.conn, q.ns, q.cmd, Append(q.mounts, m), q.made,
                  q.line, q.warned, q.uid, q.gid, q.ctty, q.why)
  BY <1>1, ProcessUpdate
<1>4. LauncherOK(p) /\ p.pc # "none" /\ p.cmd = proc[s].cmd
  BY <1>3 DEF Process
<1>5. QED
  BY <1>2, <1>4, GoesOne DEF LauncherMoves

(* The mounts: the launcher has made its mounts private by then. *)
LEMMA MountStep ==
    ASSUME LaunchersInv, NEW s \in Sids, MountTmp(s) \/ MountLocal(s) \/ MountLine(s)
    PROVE  LauncherMoves(s)
<1> DEFINE p == proc[s]
<1>1. LauncherOK(p) /\ IsProcess(p)
  BY DEF LaunchersInv, LauncherOK
<1>2. /\ p.pc \in {"tmp", "local", "fstab"} /\ p.ns = "private"
      /\ p.pc \in ToSet(Steps) /\ p.cmd # NoCmd
  BY <1>1, StepSet DEF MountTmp, MountLocal, MountLine, LauncherOK, Early
<1>3. ASSUME NEW b \in {"local", "fstab"}, NEW m, NEW v, NEW q,
             q = Process(b, p.conn, p.ns, p.cmd, p.mounts, v, p.line, p.warned,
                         p.uid, p.gid, p.ctty, p.why),
             Mounted(s, m, q)
      PROVE  LauncherMoves(s)
  <2>3. LauncherOK(Process(q.pc, q.conn, q.ns, q.cmd, Append(q.mounts, m), q.made,
                           q.line, q.warned, q.uid, q.gid, q.ctty, q.why))
    BY <1>1, <1>2, <1>3, StepSet DEF LauncherOK, Process, IsProcess, Early
  <2>4. IsProcess(q) /\ q.cmd = p.cmd /\ q.pc # "none"
    BY <1>3 DEF IsProcess, Process
  <2>5. QED
    BY <1>2, <1>3, <2>3, <2>4, MountedMoves
<1>4. CASE MountTmp(s)
  <2>1. PICK m, v, q : q = [p EXCEPT !.pc = "local", !.made = v] /\ Mounted(s, m, q)
    BY <1>4, NextStep DEF MountTmp
  <2>2. q = Process("local", p.conn, p.ns, p.cmd, p.mounts, v, p.line, p.warned,
                    p.uid, p.gid, p.ctty, p.why)
    BY <1>1, <2>1, ProcessUpdates
  <2>3. QED
    BY <1>3, <2>1, <2>2
<1>5. CASE MountLocal(s)
  <2>1. PICK m, v, q : q = [p EXCEPT !.pc = "fstab", !.made = v] /\ Mounted(s, m, q)
    BY <1>5, NextStep DEF MountLocal
  <2>2. q = Process("fstab", p.conn, p.ns, p.cmd, p.mounts, v, p.line, p.warned,
                    p.uid, p.gid, p.ctty, p.why)
    BY <1>1, <2>1, ProcessUpdates
  <2>3. QED
    BY <1>3, <2>1, <2>2
<1>6. CASE MountLine(s)
  <2> DEFINE k == p.line
             l == p.cmd.fstab[k]
             q == [p EXCEPT !.line = k + 1, !.made = MadeBy(s, l.file)]
  <2>1. /\ p.pc = "fstab" /\ k \in DOMAIN p.cmd.fstab
        /\ \/ Goes(s, [q EXCEPT !.warned = q.warned \cup {k}]) /\ UNCHANGED host
           \/ \E m : Mounted(s, m, q)
    BY <1>6 DEF MountLine
  <2>2. PICK r : r = q
    OBVIOUS
  <2>3. r = Process(p.pc, p.conn, p.ns, p.cmd, p.mounts, MadeBy(s, l.file), k + 1,
                    p.warned, p.uid, p.gid, p.ctty, p.why)
    BY <1>1, <2>2, ProcessUpdates, ZenonT(60)
  <2> HIDE DEF l, q
  <2>4. IsProcess(r) /\ r.cmd = p.cmd /\ r.pc # "none"
    BY <2>1, <2>3 DEF IsProcess, Process
  <2>5. \A w \in {p.warned, p.warned \cup {k}} : \A ms :
            LauncherOK(Process(r.pc, r.conn, r.ns, r.cmd, ms, r.made,
                               r.line, w, r.uid, r.gid, r.ctty, r.why))
    BY <1>1, <1>2, <2>1, <2>3, StepSet DEF LauncherOK, Process, IsProcess, Early
  <2>6. r.warned = p.warned
    BY <2>3 DEF Process
  <2>7. CASE Goes(s, [q EXCEPT !.warned = q.warned \cup {k}]) /\ UNCHANGED host
    <3>1. PICK t : t = [r EXCEPT !.warned = r.warned \cup {k}]
      OBVIOUS
    <3>2. t = Process(r.pc, r.conn, r.ns, r.cmd, r.mounts, r.made, r.line,
                      r.warned \cup {k}, r.uid, r.gid, r.ctty, r.why)
      BY <2>4, <3>1, ProcessUpdate
    <3>3. LauncherOK(t) /\ t.pc # "none" /\ t.cmd = p.cmd
      <4>1. LauncherOK(t)
        BY <2>5, <2>6, <3>2
      <4>2. QED
        BY <2>4, <3>2, <4>1 DEF Process
    <3>4. Goes(s, t) /\ UNCHANGED host
      BY <2>2, <2>7, <3>1
    <3>5. QED
      BY <1>2, <3>3, <3>4, GoesOne DEF LauncherMoves
  <2>8. ASSUME NEW m, Mounted(s, m, q) PROVE LauncherMoves(s)
    BY <1>2, <2>2, <2>4, <2>5, <2>6, <2>8, MountedMoves
  <2>9. QED
    BY <2>1, <2>7, <2>8
<1>7. QED
  BY <1>4, <1>5, <1>6

(* The end of a process, for a reason that is none of rights. *)
LEMMA ExitMoves ==
    ASSUME LaunchersInv, NEW s \in Sids, proc[s].pc \in ToSet(Steps),
           NEW why, why # "rights", Exits(s, why)
    PROVE  LauncherMoves(s) /\ proc'[s].pc = "exited"
<1>1. PICK p : p = [Dead EXCEPT !.pc = "exited", !.why = why,
                                !.conn = proc[s].conn, !.cmd = proc[s].cmd]
  OBVIOUS
<1>2. Goes(s, p) /\ UNCHANGED host
  BY <1>1 DEF Exits, Goes
<1>3. p = Process("exited", proc[s].conn, "host", proc[s].cmd, << >>, {}, 1, {},
                  0, 0, FALSE, why)
  BY <1>1 DEF Dead, Process
<1>4. LauncherOK(p) /\ p.pc = "exited" /\ p.cmd = proc[s].cmd
  BY <1>3 DEF LauncherOK, IsProcess, Process, Early
<1>5. QED
  BY <1>2, <1>4, GoesOne DEF LauncherMoves

(* Every step of a launcher. *)
LEMMA LauncherMove ==
    ASSUME LaunchersInv, NEW s \in Sids, NEW l, LauncherStep(s, l)
    PROVE  LauncherMoves(s)
<1>1. CASE StepFails(s) \/ ProgramEnds(s)
  BY <1>1, StepSet, ExitMoves DEF StepFails, ProgramEnds
<1>2. QED
  BY <1>1, DoesStep, MountStep DEF LauncherStep

-----------------------------------------------------------------------------
(* What the steps of the client have in common.                            *)

(* A change of the program counter keeps the rest of the call. *)
LEMMA CallMoves ==
    ASSUME IsCall(client), NEW p, To(p)
    PROVE  /\ client'.pc = p /\ client'.sid = client.sid /\ client'.tty = client.tty
           /\ client'.cmd = client.cmd /\ client'.res = client.res
           /\ IsCall(client')
<1>1. client' = [sid |-> client.sid, tty |-> client.tty, pc |-> p, cmd |-> client.cmd,
                 stop |-> client.stop, res |-> client.res]
  BY DEF IsCall, To
<1>2. QED
  BY <1>1 DEF IsCall

(* A return leaves no call. *)
LEMMA CallReturns ==
    ASSUME NEW r, Returns(r)
    PROVE  /\ client'.pc = "idle" /\ client'.sid = NoSid /\ client'.tty = FALSE
           /\ client'.res = r /\ IsCall(client')
<1>1. client' = [sid |-> NoSid, tty |-> FALSE, pc |-> "idle", cmd |-> NoCmd,
                 stop |-> FALSE, res |-> r]
  BY DEF Returns, NoCall
<1>2. QED
  BY <1>1 DEF IsCall

(* One id moves. *)
LEMMA LifeMoves ==
    ASSUME LifeInv, NEW s \in Sids, NEW st, life' = [life EXCEPT ![s] = st]
    PROVE  /\ life'[s] = st /\ \A r \in Sids \ {s} : life'[r] = life[r]
           /\ life' = [r \in Sids |-> life'[r]]
BY DEF LifeInv

(* The faults are counted. *)
Counted == UNCHANGED faults \/ Fault

(* Counting a fault keeps the plan's bounds, and the count only grows. *)
LEMMA PlanKept ==
    ASSUME PlanInv, Counted, UNCHANGED plan
    PROVE  PlanInv' /\ faults \in Nat /\ faults' \in Nat /\ faults <= faults'
BY DEF PlanInv, Counted, Fault

(* A step that loses no session keeps the count of them. *)
LEMMA LostKept ==
    ASSUME LostInv, Lost' \subseteq Lost, faults \in Nat, faults' \in Nat,
           faults <= faults'
    PROVE  LostInv'
<1>1. IsFiniteSet(Lost') /\ Cardinality(Lost') <= Cardinality(Lost)
  BY FS_Subset DEF LostInv
<1>2. Cardinality(Lost') \in Nat /\ Cardinality(Lost) \in Nat
  BY <1>1, FS_CardinalityType DEF LostInv
<1>3. Cardinality(Lost') <= faults'
  BY <1>1, <1>2 DEF LostInv
<1>4. QED
  BY <1>1, <1>3 DEF LostInv

(* A step that loses one session, with a fault, keeps it too. *)
LEMMA LostOne ==
    ASSUME LostInv, NEW s, Lost' \subseteq Lost \cup {s}, faults \in Nat, Fault
    PROVE  LostInv'
<1>1. IsFiniteSet(Lost \cup {s}) /\ Cardinality(Lost \cup {s}) <= Cardinality(Lost) + 1
  <2>1. Cardinality(Lost) \in Nat
    BY FS_CardinalityType DEF LostInv
  <2>2. QED
    BY <2>1, FS_AddElement DEF LostInv
<1>2. /\ IsFiniteSet(Lost')
      /\ Cardinality(Lost') <= Cardinality(Lost \cup {s})
  BY <1>1, FS_Subset
<1>3. /\ Cardinality(Lost') \in Nat /\ Cardinality(Lost) \in Nat
      /\ Cardinality(Lost \cup {s}) \in Nat
  BY <1>1, <1>2, FS_CardinalityType DEF LostInv
<1>4. faults' = faults + 1
  BY DEF Fault
<1>5. Cardinality(Lost') <= faults'
  BY <1>1, <1>2, <1>3, <1>4 DEF LostInv
<1>6. QED
  BY <1>2, <1>5 DEF LostInv

(* Steps that leave the processes alone. *)
LEMMA LaunchersKept ==
    ASSUME LaunchersInv, UNCHANGED <<proc, host>>
    PROVE  LaunchersInv'
BY DEF LaunchersInv

-----------------------------------------------------------------------------
(* The steps of P9cpuClient::start.                                        *)

(* The connection, the end before it, and the call of start. *)
LEMMA ConnectStep ==
    ASSUME IInv, Connects \/ \E a \in plan.args : FileRefused(a) \/ CallStart(a)
    PROVE  IInv'
<1> USE SidAssumption DEF IInv
<1>1. IsCall(client) /\ faults \in Nat
  BY DEF ClientInv, PlanInv
<1>2. CASE Connects
  <2>1. /\ client.pc = "connect" /\ Counted
        /\ (Returns("ok") \/ To("panicked"))
        /\ UNCHANGED <<plan, info, term, life, forwards, proc, host>>
    BY <1>2 DEF Connects, At, Works, Counted, Well, Panics
  <2>2. /\ client'.pc \in {"idle", "panicked"} /\ client'.sid = NoSid
        /\ IsCall(client') /\ client'.res \in Results /\ client.sid = NoSid
    BY <1>1, <2>1, CallMoves, CallReturns DEF ClientInv, Sid, Results
  <2>3. LaunchersInv' /\ PlanInv' /\ faults' \in Nat /\ faults <= faults'
    BY <2>1, LaunchersKept, PlanKept
  <2>4. ClientInv' /\ LifeInv' /\ SpawnInv' /\ AnswerInv' /\ TermInv'
    BY <2>1, <2>2 DEF ClientInv, LifeInv, SpawnInv, AnswerInv, TermInv, StartPcs, WaitPcs, Sid
  <2>5. Lost' \subseteq Lost
    BY <2>1, <2>2 DEF Lost, Working, Sid
  <2>6. QED
    BY <1>1, <2>3, <2>4, <2>5, LostKept
<1>5. ASSUME NEW a \in plan.args, FileRefused(a) PROVE IInv'
  <2>1. /\ client.pc = "connect" /\ To("quit")
        /\ UNCHANGED <<plan, faults, info, term, life, forwards, proc, host>>
    BY <1>5 DEF FileRefused, At
  <2>2. /\ client'.pc = "quit" /\ client'.sid = NoSid /\ client.sid = NoSid
        /\ IsCall(client') /\ client'.res \in Results
    BY <1>1, <2>1, CallMoves DEF ClientInv, Sid
  <2>3. LaunchersInv' /\ PlanInv' /\ faults' \in Nat /\ faults <= faults'
    BY <2>1, LaunchersKept, PlanKept DEF Counted
  <2>4. ClientInv' /\ LifeInv' /\ SpawnInv' /\ AnswerInv' /\ TermInv'
    BY <2>1, <2>2 DEF ClientInv, LifeInv, SpawnInv, AnswerInv, TermInv, StartPcs, WaitPcs, Sid
  <2>5. Lost' \subseteq Lost
    BY <2>1, <2>2 DEF Lost, Working, Sid
  <2>6. QED
    BY <1>1, <2>3, <2>4, <2>5, LostKept
<1>3. ASSUME NEW a \in plan.args, CallStart(a) PROVE IInv'
  <2>1. /\ client.pc = "idle" /\ plan.calls > 0
        /\ plan' = [plan EXCEPT !.calls = @ - 1]
        /\ \/ Returns("AlreadyStarted")
           \/ info = NoInfo /\ client' = [NoCall EXCEPT !.pc = "dial", !.cmd = MakeCmd(a),
                                                        !.tty = a.tty]
        /\ UNCHANGED <<faults, info, term, life, forwards, proc, host>>
    BY <1>3 DEF CallStart, At
  <2>2. /\ client'.pc = "idle" \/ (client'.pc = "dial" /\ info = NoInfo)
        /\ client'.sid = NoSid /\ client.sid = NoSid
        /\ IsCall(client') /\ client'.res \in Results
    <3>1. CASE Returns("AlreadyStarted")
      BY <2>1, <3>1, CallReturns DEF ClientInv, Sid, Results
    <3>2. CASE info = NoInfo /\ client' = [NoCall EXCEPT !.pc = "dial", !.cmd = MakeCmd(a),
                                                         !.tty = a.tty]
      <4>1. client' = [sid |-> NoSid, tty |-> a.tty, pc |-> "dial", cmd |-> MakeCmd(a),
                       stop |-> FALSE, res |-> "none"]
        BY <3>2 DEF NoCall
      <4>2. client.sid = NoSid
        BY <2>1 DEF ClientInv, Sid
      <4>3. IsCall(client')
        BY <4>1 DEF IsCall
      <4>4. client'.pc = "dial" /\ client'.sid = NoSid /\ client'.res \in Results
        BY <4>1 DEF Results
      <4>5. QED
        BY <3>2, <4>2, <4>3, <4>4
    <3>3. QED
      BY <2>1, <3>1, <3>2
  <2>3. plan' = [args |-> plan.args, calls |-> plan.calls - 1, faults |-> plan.faults]
    BY <2>1 DEF PlanInv
  <2>4. PlanInv'
    <3>1. /\ plan'.args = plan.args /\ plan'.calls = plan.calls - 1
          /\ plan'.faults = plan.faults
      BY <2>3
    <3>2. plan.calls - 1 \in Nat /\ plan.faults \in Nat /\ faults' \in 0..plan.faults
      <4>1. plan.calls \in Nat /\ plan.faults \in Nat /\ faults \in 0..plan.faults
        BY DEF PlanInv
      <4>2. plan.calls > 0 /\ faults' = faults
        BY <2>1
      <4>3. QED
        BY <4>1, <4>2
    <3>3. QED
      BY <2>3, <3>1, <3>2 DEF PlanInv
  <2>5. LaunchersInv'
    BY <2>1, LaunchersKept
  <2>6. ClientInv' /\ LifeInv' /\ SpawnInv' /\ AnswerInv' /\ TermInv'
    BY <2>1, <2>2 DEF ClientInv, LifeInv, SpawnInv, AnswerInv, TermInv, StartPcs, WaitPcs, Sid
  <2>7. Lost' \subseteq Lost
    BY <2>1, <2>2 DEF Lost, Working, Sid
  <2>8. QED
    <3>1. faults' \in Nat /\ faults <= faults'
      <4>1. faults' = faults
        BY <2>1
      <4>2. QED
        BY <1>1, <4>1
    <3>2. LostInv'
      BY <1>1, <2>7, <3>1, LostKept
    <3>3. QED
      BY <2>4, <2>5, <2>6, <3>2
<1>4. QED
  BY <1>2, <1>3, <1>5

(* dial: an id is new, and the client has it unless the answer is lost. *)
LEMMA DialStep ==
    ASSUME IInv, Dial
    PROVE  IInv'
<1>1. /\ LaunchersInv /\ PlanInv /\ ClientInv /\ LifeInv /\ SpawnInv /\ AnswerInv
      /\ TermInv /\ LostInv /\ IsCall(client) /\ faults \in Nat
  BY DEF IInv, ClientInv, PlanInv
<1>2. PICK s \in Sids :
        /\ life[s] = "unknown" /\ life' = [life EXCEPT ![s] = "dialed"]
        /\ \/ /\ client' = [client EXCEPT !.pc = AfterDial(client.cmd), !.sid = s]
              /\ UNCHANGED faults
           \/ Returns("error") /\ Fault
  BY DEF Dial, Works, Well
<1>3. /\ client.pc = "dial" /\ UNCHANGED <<plan, info, term, forwards, proc, host>>
  BY DEF Dial, At
<1>4. client.sid = NoSid /\ info = NoInfo /\ client.res \in Results
  BY <1>1, <1>3 DEF ClientInv, Sid
<1>5. /\ life'[s] = "dialed" /\ \A r \in Sids \ {s} : life'[r] = life[r]
      /\ life' = [r \in Sids |-> life'[r]]
  BY <1>1, <1>2, LifeMoves
<1>6. Counted
  BY <1>2 DEF Counted
<1>7. LaunchersInv' /\ PlanInv' /\ faults' \in Nat /\ faults <= faults'
  BY <1>1, <1>3, <1>6, LaunchersKept, PlanKept
<1>8. CASE /\ client' = [client EXCEPT !.pc = AfterDial(client.cmd), !.sid = s]
           /\ UNCHANGED faults
  <2>1. client' = [sid |-> s, tty |-> client.tty, pc |-> AfterDial(client.cmd),
                   cmd |-> client.cmd, stop |-> client.stop, res |-> client.res]
    BY <1>1, <1>8 DEF IsCall
  <2>2. /\ IsCall(client') /\ client'.sid = s /\ client'.pc = AfterDial(client.cmd)
        /\ client'.cmd = client.cmd /\ client'.res = client.res
    BY <2>1 DEF IsCall
  <2>3. /\ client'.pc \in {"forward", "start"}
        /\ client'.pc = "start" => ~client'.cmd.ninep
    BY <2>2 DEF AfterDial
  <2>4. ClientInv'
    BY <1>1, <1>3, <1>4, <2>2, <2>3 DEF ClientInv, StartPcs, WaitPcs, Sid
  <2>5. LifeInv'
    BY <1>1, <1>3, <1>4, <1>5, <2>2, <2>3 DEF LifeInv, Sid
  <2>6. SpawnInv' /\ AnswerInv' /\ TermInv'
    BY <1>1, <1>2, <1>3, <1>5, <2>3 DEF SpawnInv, AnswerInv, TermInv
  <2>7. Lost' \subseteq Lost
    BY <1>3, <1>4, <1>5, <2>2, <2>3, SidAssumption DEF Lost, Working, Sid
  <2>8. QED
    BY <1>1, <1>7, <2>4, <2>5, <2>6, <2>7, LostKept DEF IInv
<1>9. CASE Returns("error") /\ Fault
  <2>1. /\ IsCall(client') /\ client'.sid = NoSid /\ client'.pc = "idle"
        /\ client'.res \in Results
    BY <1>9, CallReturns DEF Results
  <2>2. ClientInv'
    BY <1>1, <1>3, <1>4, <2>1 DEF ClientInv, StartPcs, WaitPcs, Sid
  <2>3. LifeInv'
    BY <1>1, <1>3, <1>4, <1>5, <2>1 DEF LifeInv, Sid
  <2>4. SpawnInv' /\ AnswerInv' /\ TermInv'
    BY <1>1, <1>2, <1>3, <1>5, <2>1 DEF SpawnInv, AnswerInv, TermInv
  <2>5. Lost' \subseteq Lost \cup {s}
    BY <1>3, <1>4, <1>5, <2>1 DEF Lost, Working, Sid
  <2>6. QED
    BY <1>1, <1>7, <1>9, <2>2, <2>3, <2>4, <2>5, LostOne DEF IInv
<1>10. QED
  BY <1>2, <1>8, <1>9

(* ninep_forward: the forwarder is there, or the client panics. *)
LEMMA ForwardStep ==
    ASSUME IInv, Forward
    PROVE  IInv'
<1>1. /\ LaunchersInv /\ PlanInv /\ ClientInv /\ LifeInv /\ SpawnInv /\ AnswerInv
      /\ TermInv /\ LostInv /\ IsCall(client) /\ faults \in Nat
  BY DEF IInv, ClientInv, PlanInv
<1>2. /\ client.pc = "forward" /\ forwards' = forwards \cup {client.sid}
      /\ (To("start") /\ UNCHANGED faults) \/ (To("panicked") /\ Fault)
      /\ UNCHANGED <<plan, info, term, life, proc, host>>
  BY DEF Forward, At, Works, Well, Sid, Panics
<1>3. client.sid \in Sids /\ info = NoInfo /\ life[client.sid] = "dialed"
  BY <1>1, <1>2 DEF ClientInv, LifeInv, StartPcs, WaitPcs, Sid
<1>4. /\ client'.pc \in {"start", "panicked"} /\ client'.sid = client.sid
      /\ client'.res = client.res /\ IsCall(client')
      /\ client'.pc = "panicked" => Fault
      /\ client'.pc = "start" => UNCHANGED faults
  BY <1>1, <1>2, CallMoves
<1>5. LaunchersInv' /\ PlanInv' /\ faults' \in Nat /\ faults <= faults'
  BY <1>1, <1>2, LaunchersKept, PlanKept DEF Counted
<1>6. ClientInv'
  BY <1>1, <1>2, <1>3, <1>4 DEF ClientInv, StartPcs, WaitPcs, Sid
<1>7. LifeInv'
  BY <1>1, <1>2, <1>3, <1>4 DEF LifeInv, Sid
<1>8. SpawnInv' /\ AnswerInv' /\ TermInv'
  BY <1>1, <1>2, <1>4 DEF SpawnInv, AnswerInv, TermInv
<1>9. LostInv'
  <2>1. CASE client'.pc = "start"
    <3>1. Lost' \subseteq Lost
      BY <1>2, <1>4, <2>1 DEF Lost, Working, Sid
    <3>2. QED
      BY <1>1, <1>5, <3>1, LostKept
  <2>2. CASE client'.pc = "panicked"
    <3>1. Lost' \subseteq Lost \cup {client.sid}
      BY <1>2, <1>4, <2>2 DEF Lost, Working, Sid
    <3>2. QED
      BY <1>1, <1>4, <2>2, <3>1, LostOne
  <2>3. QED
    BY <1>4, <2>1, <2>2
<1>10. QED
  BY <1>5, <1>6, <1>7, <1>8, <1>9 DEF IInv

(* Server::start takes the id, and spawns the launcher: never is the       *)
(* forwarder missing that the command needs.                               *)
LEMMA ClaimStep ==
    ASSUME IInv, StartClaims \/ StartLaunches
    PROVE  IInv'
<1>1. /\ LaunchersInv /\ PlanInv /\ ClientInv /\ LifeInv /\ SpawnInv /\ AnswerInv
      /\ TermInv /\ LostInv /\ IsCall(client) /\ faults \in Nat
  BY DEF IInv, ClientInv, PlanInv
<1>2. CASE StartClaims
  <2>1. /\ client.pc = "start" /\ life' = [life EXCEPT ![client.sid] = "starting"]
        /\ To("launch") /\ UNCHANGED <<plan, faults, info, term, forwards, proc, host>>
    BY <1>2 DEF StartClaims, At, Lives, Sid
  <2>2. client.sid \in Sids /\ info = NoInfo /\ life[client.sid] = "dialed"
    BY <1>1, <2>1 DEF ClientInv, LifeInv, StartPcs, WaitPcs, Sid
  <2>3. /\ client'.pc = "launch" /\ client'.sid = client.sid
        /\ client'.res = client.res /\ client'.cmd = client.cmd /\ IsCall(client')
    BY <1>1, <2>1, CallMoves
  <2>4. /\ life'[client.sid] = "starting"
        /\ \A r \in Sids \ {client.sid} : life'[r] = life[r]
        /\ life' = [r \in Sids |-> life'[r]]
    BY <1>1, <2>1, <2>2, LifeMoves
  <2>5. LaunchersInv' /\ PlanInv' /\ faults' \in Nat /\ faults <= faults'
    BY <1>1, <2>1, LaunchersKept, PlanKept DEF Counted
  <2>6. ClientInv'
    BY <1>1, <2>1, <2>2, <2>3 DEF ClientInv, StartPcs, WaitPcs, Sid
  <2>7. LifeInv'
    BY <1>1, <2>1, <2>2, <2>3, <2>4 DEF LifeInv, Sid
  <2>8. SpawnInv' /\ AnswerInv' /\ TermInv'
    BY <1>1, <2>1, <2>2, <2>3, <2>4 DEF SpawnInv, AnswerInv, TermInv, Sid
  <2>9. Lost' \subseteq Lost
    BY <2>1, <2>3, <2>4 DEF Lost, Working, Sid
  <2>10. QED
    BY <1>1, <2>5, <2>6, <2>7, <2>8, <2>9, LostKept DEF IInv
<1>3. CASE StartLaunches
  <2>1. /\ client.pc = "launch" /\ To("starting") /\ Spawn(client.sid)
        /\ UNCHANGED <<plan, faults, info, term, life, forwards, host>>
    BY <1>1, <1>3 DEF StartLaunches, At, Sid, LifeInv
  <2>2. /\ client.sid \in Sids /\ info = NoInfo /\ life[client.sid] = "starting"
        /\ proc[client.sid].pc = "none"
    BY <1>1, <2>1 DEF ClientInv, LifeInv, SpawnInv, StartPcs, WaitPcs, Sid
  <2>3. /\ client'.pc = "starting" /\ client'.sid = client.sid
        /\ client'.res = client.res /\ IsCall(client')
    BY <1>1, <2>1, CallMoves
  <2>4. PICK s \in Sids : s = client.sid
    BY <2>2
  <2>5. proc[s] = Dead /\ Goes(s, [Dead EXCEPT !.pc = "unshare"])
    BY <1>1, <2>1, <2>2, <2>4 DEF LaunchersInv, LauncherOK, Spawn, Steps
  <2>6. PICK p : p = [Dead EXCEPT !.pc = "unshare"]
    OBVIOUS
  <2>7. p = Process("unshare", FALSE, "host", NoCmd, << >>, {}, 1, {}, 0, 0, FALSE, "none")
    BY <2>6 DEF Dead, Process
  <2>8. LauncherOK(p) /\ p.pc = "unshare" /\ p.cmd = NoCmd
    BY <2>7, StepSet DEF LauncherOK, IsProcess, Process, Early
  <2>9. /\ proc'[s] = p /\ \A r \in Sids \ {s} : proc'[r] = proc[r]
        /\ proc' = [r \in Sids |-> proc'[r]]
    BY <1>1, <2>5, <2>6, GoesOne
  <2>10. LaunchersInv'
    BY <1>1, <2>1, <2>8, <2>9 DEF LaunchersInv
  <2>11. PlanInv' /\ faults' \in Nat /\ faults <= faults'
    BY <1>1, <2>1, PlanKept DEF Counted
  <2>12. ClientInv' /\ LifeInv'
    BY <1>1, <2>1, <2>2, <2>3 DEF ClientInv, LifeInv, StartPcs, WaitPcs, Sid
  <2>13. SpawnInv' /\ AnswerInv' /\ TermInv'
    BY <1>1, <2>1, <2>2, <2>3, <2>4, <2>8, <2>9 DEF SpawnInv, AnswerInv, TermInv, Sid
  <2>14. Lost' \subseteq Lost
    BY <2>1, <2>3 DEF Lost, Working, Sid
  <2>15. QED
    BY <1>1, <2>10, <2>11, <2>12, <2>13, <2>14, LostKept DEF IInv
<1>4. QED
  BY <1>2, <1>3

(* The command is sent and the session is registered, or the launcher is   *)
(* gone.                                                                   *)
LEMMA SendStep ==
    ASSUME IInv, StartSends
    PROVE  IInv'
<1>1. /\ LaunchersInv /\ PlanInv /\ ClientInv /\ LifeInv /\ SpawnInv /\ AnswerInv
      /\ TermInv /\ LostInv /\ IsCall(client) /\ faults \in Nat
  BY DEF IInv, ClientInv, PlanInv
<1>2. /\ client.pc = "starting" /\ UNCHANGED <<plan, info, term, forwards, host>>
  BY DEF StartSends, At
<1>3. client.sid \in Sids /\ info = NoInfo /\ life[client.sid] = "starting"
  BY <1>1, <1>2 DEF ClientInv, LifeInv, StartPcs, WaitPcs, Sid
<1>4. PICK s \in Sids : s = client.sid
  BY <1>3
<1>5. /\ LauncherOK(proc[s]) /\ IsProcess(proc[s]) /\ proc[s].cmd = NoCmd
      /\ proc[s].pc \in Early
  BY <1>1, <1>3, <1>4 DEF LaunchersInv, LauncherOK, SpawnInv
<1>6. CASE /\ Goes(s, [proc[s] EXCEPT !.cmd = Patched(client.cmd)])
           /\ life' = [life EXCEPT ![s] = "live"]
           /\ (To("stdout") /\ UNCHANGED faults) \/ (Returns("error") /\ Fault)
  <2>1. PICK p : p = [proc[s] EXCEPT !.cmd = Patched(client.cmd)]
    OBVIOUS
  <2>2. PICK c : c = Patched(client.cmd)
    OBVIOUS
  <2>3. p = Process(proc[s].pc, proc[s].conn, proc[s].ns, c, proc[s].mounts,
                    proc[s].made, proc[s].line, proc[s].warned, proc[s].uid,
                    proc[s].gid, proc[s].ctty, proc[s].why)
    BY <1>5, <2>1, <2>2, ProcessUpdate, ZenonT(60)
  <2>4. /\ proc'[s] = p /\ \A r \in Sids \ {s} : proc'[r] = proc[r]
        /\ proc' = [r \in Sids |-> proc'[r]]
    BY <1>1, <1>6, <2>1, GoesOne
  <2>5. p.pc = proc[s].pc /\ p.why = proc[s].why
    BY <2>3 DEF Process
  <2>6. proc[s].pc # "none"
    <3>1. proc[s].conn
      BY <1>4 DEF StartSends, Sid
    <3>2. QED
      BY <1>5, <3>1 DEF LauncherOK, Dead
  <2>7. LauncherOK(p)
    BY <1>5, <2>3, <2>6, StepSet DEF LauncherOK, IsProcess, Process, Early
  <2>8. LaunchersInv'
    BY <1>1, <1>2, <2>4, <2>7 DEF LaunchersInv
  <2>9. /\ life'[s] = "live" /\ \A r \in Sids \ {s} : life'[r] = life[r]
        /\ life' = [r \in Sids |-> life'[r]]
    BY <1>1, <1>6, LifeMoves
  <2>10. PlanInv' /\ faults' \in Nat /\ faults <= faults'
    BY <1>1, <1>2, <1>6, PlanKept DEF Counted
  <2>11. CASE To("stdout") /\ UNCHANGED faults
    <3>1. /\ client'.pc = "stdout" /\ client'.sid = client.sid
          /\ client'.res = client.res /\ IsCall(client')
      BY <1>1, <2>11, CallMoves
    <3>2. ClientInv'
      BY <1>1, <1>2, <1>3, <3>1 DEF ClientInv, StartPcs, WaitPcs, Sid
    <3>3. LifeInv'
      BY <1>1, <1>2, <1>3, <1>4, <2>9, <3>1 DEF LifeInv, Sid
    <3>4. SpawnInv' /\ AnswerInv' /\ TermInv'
      BY <1>1, <1>2, <1>4, <2>4, <2>9, <3>1 DEF SpawnInv, AnswerInv, TermInv, Sid
    <3>5. Lost' \subseteq Lost
      BY <1>2, <1>4, <2>9, <3>1 DEF Lost, Working, Sid
    <3>6. QED
      BY <1>1, <2>8, <2>10, <3>2, <3>3, <3>4, <3>5, LostKept DEF IInv
  <2>12. CASE Returns("error") /\ Fault
    <3>1. /\ client'.pc = "idle" /\ client'.sid = NoSid
          /\ client'.res \in Results /\ IsCall(client')
      BY <1>1, <2>12, CallReturns DEF Results
    <3>2. ClientInv'
      BY <1>1, <1>2, <1>3, <3>1 DEF ClientInv, StartPcs, WaitPcs, Sid
    <3>3. LifeInv'
      BY <1>1, <1>2, <1>3, <1>4, <2>9, <3>1 DEF LifeInv, Sid
    <3>4. SpawnInv' /\ AnswerInv' /\ TermInv'
      BY <1>1, <1>2, <1>4, <2>4, <2>9, <3>1 DEF SpawnInv, AnswerInv, TermInv, Sid
    <3>5. Lost' \subseteq Lost \cup {s}
      BY <1>2, <1>4, <2>9, <3>1, SidAssumption DEF Lost, Working, Sid
    <3>6. QED
      BY <1>1, <2>8, <2>10, <2>12, <3>2, <3>3, <3>4, <3>5, LostOne DEF IInv
  <2>13. QED
    BY <1>6, <2>11, <2>12
<1>7. CASE /\ life' = [life EXCEPT ![s] = "gone"] /\ Returns("error")
           /\ UNCHANGED <<faults, proc>>
  <2>1. /\ life'[s] = "gone" /\ \A r \in Sids \ {s} : life'[r] = life[r]
        /\ life' = [r \in Sids |-> life'[r]]
    BY <1>1, <1>7, LifeMoves
  <2>2. /\ client'.pc = "idle" /\ client'.sid = NoSid
        /\ client'.res \in Results /\ IsCall(client')
    BY <1>1, <1>7, CallReturns DEF Results
  <2>3. LaunchersInv' /\ PlanInv' /\ faults' \in Nat /\ faults <= faults'
    BY <1>1, <1>2, <1>7, LaunchersKept, PlanKept DEF Counted
  <2>4. ClientInv'
    BY <1>1, <1>2, <1>3, <2>2 DEF ClientInv, StartPcs, WaitPcs, Sid
  <2>5. LifeInv'
    BY <1>1, <1>2, <1>3, <1>4, <2>1, <2>2 DEF LifeInv, Sid
  <2>6. SpawnInv' /\ AnswerInv' /\ TermInv'
    BY <1>1, <1>2, <1>4, <1>7, <2>1, <2>2 DEF SpawnInv, AnswerInv, TermInv, Sid
  <2>7. Lost' \subseteq Lost
    BY <1>2, <1>4, <2>1, <2>2, SidAssumption DEF Lost, Working, Sid
  <2>8. QED
    BY <1>1, <2>3, <2>4, <2>5, <2>6, <2>7, LostKept DEF IInv
<1>8. QED
  BY <1>4, <1>6, <1>7 DEF StartSends, Lives, Sid, Works, Well

(* A failure of an RPC: the server keeps what it had, or gives the id up. *)
LEMMA FailStep ==
    ASSUME IInv, RpcFails
    PROVE  IInv'
<1>1. /\ LaunchersInv /\ PlanInv /\ ClientInv /\ LifeInv /\ SpawnInv /\ AnswerInv
      /\ TermInv /\ LostInv /\ IsCall(client) /\ faults \in Nat
  BY DEF IInv, ClientInv, PlanInv
<1>2. /\ client.pc \in {"dial", "forward", "start", "launch", "starting", "stdout", "stderr"}
      /\ Fault /\ UNCHANGED <<plan, info, term, forwards, proc, host>>
      /\ (client.pc = "forward" /\ To("panicked")) \/ Returns("error")
      /\ \/ client.pc \in {"launch", "starting"} /\ life' = [life EXCEPT ![client.sid] = "gone"]
         \/ client.pc \notin {"launch", "starting"} /\ life' = life
  BY DEF RpcFails, At, Panics, Lives, Sid
<1>3. /\ info = NoInfo /\ client.res \in Results /\ client.sid \in Sids \cup {NoSid}
      /\ client.pc # "dial" => client.sid \in Sids
  BY <1>1, <1>2 DEF ClientInv, StartPcs, WaitPcs, Sid
<1>4. /\ IsCall(client') /\ client'.res \in Results
      /\ \/ client'.pc = "idle" /\ client'.sid = NoSid
         \/ client.pc = "forward" /\ client'.pc = "panicked" /\ client'.sid = client.sid
  BY <1>1, <1>2, <1>3, CallMoves, CallReturns DEF Results
<1>5. /\ life' = [r \in Sids |-> life'[r]]
      /\ \A r \in Sids : life'[r] = life[r] \/ (life'[r] = "gone" /\ client.sid = r)
      /\ client.pc \notin {"launch", "starting"} => life' = life
  BY <1>1, <1>2, <1>3, LifeMoves DEF LifeInv
<1>6. LaunchersInv' /\ PlanInv'
  BY <1>1, <1>2, LaunchersKept, PlanKept DEF Counted
<1>7. ClientInv'
  BY <1>1, <1>2, <1>3, <1>4 DEF ClientInv, StartPcs, WaitPcs, Sid
<1>8. LifeInv'
  BY <1>1, <1>2, <1>3, <1>4, <1>5 DEF LifeInv, Sid
<1>9. SpawnInv' /\ AnswerInv' /\ TermInv'
  BY <1>1, <1>2, <1>4, <1>5 DEF SpawnInv, AnswerInv, TermInv, Sid
<1>10. Lost' \subseteq Lost \cup {client.sid}
  BY <1>2, <1>4, <1>5 DEF Lost, Working, Sid
<1>11. LostInv'
  BY <1>1, <1>2, <1>10, LostOne
<1>12. QED
  BY <1>6, <1>7, <1>8, <1>9, <1>11 DEF IInv

(* setup_stdio, at whose end the client keeps the session. *)
LEMMA StdioStep ==
    ASSUME IInv, SetupStdio
    PROVE  IInv'
<1>1. /\ LaunchersInv /\ PlanInv /\ ClientInv /\ LifeInv /\ SpawnInv /\ AnswerInv
      /\ TermInv /\ LostInv /\ IsCall(client) /\ faults \in Nat
  BY DEF IInv, ClientInv, PlanInv
<1>2. /\ client.pc \in {"stdout", "stderr"}
      /\ \/ To("stderr") /\ UNCHANGED info
         \/ info' = [sid |-> client.sid, tty |-> client.tty] /\ Returns("ok")
      /\ UNCHANGED <<plan, faults, term, life, forwards, proc, host>>
  BY DEF SetupStdio, At, SessionInfo, Sid
<1>3. client.sid \in Sids /\ info = NoInfo /\ life[client.sid] = "live"
  BY <1>1, <1>2 DEF ClientInv, LifeInv, StartPcs, WaitPcs, Sid
<1>4. LaunchersInv' /\ PlanInv' /\ faults' \in Nat /\ faults <= faults'
  BY <1>1, <1>2, LaunchersKept, PlanKept DEF Counted
<1>5. CASE To("stderr") /\ UNCHANGED info
  <2>1. /\ client'.pc = "stderr" /\ client'.sid = client.sid
        /\ client'.res = client.res /\ IsCall(client')
    BY <1>1, <1>5, CallMoves
  <2>2. ClientInv' /\ LifeInv'
    BY <1>1, <1>2, <1>3, <1>5, <2>1 DEF ClientInv, LifeInv, StartPcs, WaitPcs, Sid
  <2>3. SpawnInv' /\ AnswerInv' /\ TermInv'
    BY <1>1, <1>2, <2>1 DEF SpawnInv, AnswerInv, TermInv, Sid
  <2>4. Lost' \subseteq Lost
    BY <1>2, <1>5, <2>1 DEF Lost, Working, Sid
  <2>5. QED
    BY <1>1, <1>4, <2>2, <2>3, <2>4, LostKept DEF IInv
<1>6. CASE info' = [sid |-> client.sid, tty |-> client.tty] /\ Returns("ok")
  <2>1. /\ client'.pc = "idle" /\ client'.sid = NoSid
        /\ client'.res \in Results /\ IsCall(client')
    BY <1>1, <1>6, CallReturns DEF Results
  <2>2. info'.sid = client.sid /\ info' = [sid |-> info'.sid, tty |-> info'.tty]
    BY <1>6
  <2>3. ClientInv'
    BY <1>1, <1>2, <1>3, <2>1, <2>2 DEF ClientInv, StartPcs, WaitPcs, Sid
  <2>4. LifeInv'
    BY <1>1, <1>2, <1>3, <2>1, <2>2 DEF LifeInv, Sid
  <2>5. SpawnInv' /\ AnswerInv' /\ TermInv'
    BY <1>1, <1>2, <2>1 DEF SpawnInv, AnswerInv, TermInv, Sid
  <2>6. Lost' \subseteq Lost
    BY <1>2, <1>3, <2>1, <2>2, SidAssumption DEF Lost, Working, Sid, NoInfo
  <2>7. QED
    BY <1>1, <1>4, <2>3, <2>4, <2>5, <2>6, LostKept DEF IInv
<1>7. QED
  BY <1>2, <1>5, <1>6

-----------------------------------------------------------------------------
(* The steps of P9cpuClient::wait.                                         *)

(* wait takes the session, and sets the terminal to raw mode. *)
LEMMA CallWaitStep ==
    ASSUME IInv, CallWait
    PROVE  IInv'
<1>1. /\ LaunchersInv /\ PlanInv /\ ClientInv /\ LifeInv /\ SpawnInv /\ AnswerInv
      /\ TermInv /\ LostInv /\ IsCall(client) /\ faults \in Nat
  BY DEF IInv, ClientInv, PlanInv
<1>2. /\ client.pc = "idle" /\ plan.calls > 0 /\ plan' = [plan EXCEPT !.calls = @ - 1]
      /\ info' = NoInfo /\ UNCHANGED <<faults, term, life, forwards, proc, host>>
      /\ \/ info = NoInfo /\ Returns("NotStarted")
         \/ /\ info # NoInfo
            /\ client' = [NoCall EXCEPT !.pc = IF info.tty THEN "raw" ELSE "wait",
                                        !.sid = info.sid, !.tty = info.tty]
  BY DEF CallWait, At
<1>3. client.sid = NoSid /\ term # "raw"
  BY <1>1, <1>2 DEF ClientInv, TermInv, Sid
<1>4. /\ IsCall(client') /\ client'.res \in Results
      /\ client'.pc = "raw" => client'.tty
      /\ \/ info = NoInfo /\ client'.pc = "idle" /\ client'.sid = NoSid
         \/ info # NoInfo /\ client'.pc \in {"raw", "wait"} /\ client'.sid = info.sid
  <2>1. CASE info = NoInfo /\ Returns("NotStarted")
    BY <2>1, CallReturns DEF Results
  <2>2. CASE /\ info # NoInfo
             /\ client' = [NoCall EXCEPT !.pc = IF info.tty THEN "raw" ELSE "wait",
                                         !.sid = info.sid, !.tty = info.tty]
    <3>1. client' = [sid |-> info.sid, tty |-> info.tty,
                     pc |-> IF info.tty THEN "raw" ELSE "wait", cmd |-> NoCmd,
                     stop |-> FALSE, res |-> "none"]
      BY <2>2 DEF NoCall
    <3>2. IsCall(client')
      BY <3>1 DEF IsCall
    <3>3. /\ client'.pc = IF info.tty THEN "raw" ELSE "wait"
          /\ client'.sid = info.sid /\ client'.res = "none"
      BY <3>1
    <3>4. client'.pc \in {"raw", "wait"} /\ (client'.pc = "raw" => client'.tty)
      BY <3>1
    <3>5. QED
      BY <2>2, <3>2, <3>3, <3>4 DEF Results
  <2>3. QED
    BY <1>2, <2>1, <2>2
<1>5. PlanInv'
  <2>1. plan' = [args |-> plan.args, calls |-> plan.calls - 1, faults |-> plan.faults]
    BY <1>1, <1>2 DEF PlanInv
  <2>2. /\ plan'.args = plan.args /\ plan'.calls = plan.calls - 1
        /\ plan'.faults = plan.faults
    BY <2>1
  <2>3. plan.calls \in Nat /\ plan.faults \in Nat /\ faults \in 0..plan.faults
    BY <1>1 DEF PlanInv
  <2>4. plan.calls > 0 /\ faults' = faults
    BY <1>2
  <2>5. plan.calls - 1 \in Nat
    BY <2>3, <2>4
  <2>6. QED
    BY <2>1, <2>2, <2>3, <2>4, <2>5 DEF PlanInv
<1>6. LaunchersInv'
  BY <1>1, <1>2, LaunchersKept
<1>7. ClientInv'
  <2>1. NoInfo = [sid |-> NoInfo.sid, tty |-> NoInfo.tty]
    BY DEF NoInfo
  <2>2. QED
    BY <1>1, <1>2, <1>3, <1>4, <2>1 DEF ClientInv, StartPcs, WaitPcs, Sid
<1>8. LifeInv'
  BY <1>1, <1>2, <1>4 DEF LifeInv, Sid
<1>9. SpawnInv' /\ AnswerInv' /\ TermInv'
  BY <1>1, <1>2, <1>3, <1>4 DEF SpawnInv, AnswerInv, TermInv, Sid
<1>10. Lost' \subseteq Lost
  BY <1>2, <1>3, <1>4, SidAssumption DEF Lost, Working, Sid, NoInfo
<1>11. LostInv'
  <2>1. faults' = faults
    BY <1>2
  <2>2. faults' \in Nat /\ faults <= faults'
    BY <1>1, <2>1
  <2>3. QED
    BY <1>1, <1>10, <2>2, LostKept
<1>12. QED
  BY <1>5, <1>6, <1>7, <1>8, <1>9, <1>11 DEF IInv

(* The terminal is set to raw mode, or the session is lost. *)
LEMMA RawStep ==
    ASSUME IInv, RawMode
    PROVE  IInv'
<1>1. /\ LaunchersInv /\ PlanInv /\ ClientInv /\ LifeInv /\ SpawnInv /\ AnswerInv
      /\ TermInv /\ LostInv /\ IsCall(client) /\ faults \in Nat
  BY DEF IInv, ClientInv, PlanInv
<1>2. /\ client.pc = "raw" /\ UNCHANGED <<plan, info, life, forwards, proc, host>>
      /\ \/ To("wait") /\ term' = "raw" /\ UNCHANGED faults
         \/ Returns("error") /\ UNCHANGED term /\ Fault
  BY DEF RawMode, At, Works, Well
<1>3. client.sid \in Sids /\ info = NoInfo /\ life[client.sid] = "live" /\ client.tty
  BY <1>1, <1>2 DEF ClientInv, LifeInv, TermInv, StartPcs, WaitPcs, Sid
<1>4. LaunchersInv' /\ PlanInv' /\ faults' \in Nat /\ faults <= faults'
  BY <1>1, <1>2, LaunchersKept, PlanKept DEF Counted
<1>5. CASE To("wait") /\ term' = "raw" /\ UNCHANGED faults
  <2>1. /\ client'.pc = "wait" /\ client'.sid = client.sid /\ client'.tty = client.tty
        /\ client'.res = client.res /\ IsCall(client')
    BY <1>1, <1>5, CallMoves
  <2>2. ClientInv' /\ LifeInv'
    BY <1>1, <1>2, <1>3, <2>1 DEF ClientInv, LifeInv, StartPcs, WaitPcs, Sid
  <2>3. SpawnInv' /\ AnswerInv' /\ TermInv'
    BY <1>1, <1>2, <1>3, <1>5, <2>1 DEF SpawnInv, AnswerInv, TermInv, Sid
  <2>4. Lost' \subseteq Lost
    BY <1>2, <2>1 DEF Lost, Working, Sid
  <2>5. QED
    BY <1>1, <1>4, <2>2, <2>3, <2>4, LostKept DEF IInv
<1>6. CASE Returns("error") /\ UNCHANGED term /\ Fault
  <2>1. /\ client'.pc = "idle" /\ client'.sid = NoSid
        /\ client'.res \in Results /\ IsCall(client')
    BY <1>6, CallReturns DEF Results
  <2>2. ClientInv' /\ LifeInv'
    BY <1>1, <1>2, <1>3, <2>1 DEF ClientInv, LifeInv, StartPcs, WaitPcs, Sid
  <2>3. SpawnInv' /\ AnswerInv' /\ TermInv'
    BY <1>1, <1>2, <1>6, <2>1 DEF SpawnInv, AnswerInv, TermInv, Sid
  <2>4. Lost' \subseteq Lost \cup {client.sid}
    BY <1>2, <2>1 DEF Lost, Working, Sid
  <2>5. QED
    BY <1>1, <1>4, <1>6, <2>2, <2>3, <2>4, LostOne DEF IInv
<1>7. QED
  BY <1>2, <1>5, <1>6

(* wait_inner: the answer of the server, or a failure. *)
LEMMA AnswerStep ==
    ASSUME IInv, WaitInner
    PROVE  IInv'
<1>1. /\ LaunchersInv /\ PlanInv /\ ClientInv /\ LifeInv /\ SpawnInv /\ AnswerInv
      /\ TermInv /\ LostInv /\ IsCall(client) /\ faults \in Nat
  BY DEF IInv, ClientInv, PlanInv
<1>2. PICK r : /\ client' = [client EXCEPT !.pc = "stop", !.res = r]
               /\ \/ /\ proc[client.sid].pc = "exited" /\ UNCHANGED faults
                     /\ r = Code(proc[client.sid].why)
                     /\ life' = [life EXCEPT ![client.sid] = "gone"]
                  \/ r = "error" /\ Fault /\ (\/ UNCHANGED life
                        \/ life' = [life EXCEPT ![client.sid] = "gone"])
  BY DEF WaitInner, Ended, Lives, Works, Well, Sid
<1>3. client.pc = "wait" /\ UNCHANGED <<plan, info, term, forwards, proc, host>>
  BY DEF WaitInner, At
<1>4. client.sid \in Sids /\ info = NoInfo /\ life[client.sid] = "live"
  BY <1>1, <1>3 DEF ClientInv, LifeInv, StartPcs, WaitPcs, Sid
<1>5. client' = [sid |-> client.sid, tty |-> client.tty, pc |-> "stop", cmd |-> client.cmd,
                 stop |-> client.stop, res |-> r]
  BY <1>1, <1>2 DEF IsCall
<1>6. /\ client'.pc = "stop" /\ client'.sid = client.sid /\ client'.tty = client.tty
      /\ client'.res = r /\ IsCall(client')
  BY <1>5 DEF IsCall
<1>7. /\ r \in Results
      /\ r = "ok" => proc[client.sid].pc = "exited" /\ proc[client.sid].why = "zero"
  BY <1>2 DEF Code, Results
<1>8. /\ life' = [s \in Sids |-> life'[s]]
      /\ \A s \in Sids \ {client.sid} : life'[s] = life[s]
      /\ life'[client.sid] \in {"live", "gone"}
      /\ Fault \/ (UNCHANGED faults /\ life'[client.sid] = "gone")
  <2>1. CASE life' = [life EXCEPT ![client.sid] = "gone"]
    BY <1>1, <1>2, <1>4, <2>1, LifeMoves
  <2>2. CASE UNCHANGED life /\ Fault
    BY <1>1, <1>4, <2>2 DEF LifeInv
  <2>3. QED
    BY <1>2, <2>1, <2>2
<1>9. LaunchersInv' /\ PlanInv' /\ faults' \in Nat /\ faults <= faults'
  BY <1>1, <1>3, <1>8, LaunchersKept, PlanKept DEF Counted
<1>10. ClientInv'
  BY <1>1, <1>3, <1>4, <1>6, <1>7 DEF ClientInv, StartPcs, WaitPcs, Sid
<1>11. LifeInv'
  BY <1>1, <1>3, <1>4, <1>6, <1>8 DEF LifeInv, Sid
<1>12. SpawnInv' /\ AnswerInv' /\ TermInv'
  <2>1. SpawnInv'
    BY <1>1, <1>3, <1>6, <1>8 DEF SpawnInv, Sid
  <2>2. AnswerInv' /\ TermInv'
    BY <1>1, <1>3, <1>6, <1>7 DEF AnswerInv, TermInv, Sid
  <2>3. QED
    BY <2>1, <2>2
<1>13. LostInv'
  <2>1. CASE Fault
    <3>1. Lost' \subseteq Lost \cup {client.sid}
      BY <1>3, <1>6, <1>8 DEF Lost, Working, Sid
    <3>2. QED
      BY <1>1, <2>1, <3>1, LostOne
  <2>2. CASE UNCHANGED faults /\ life'[client.sid] = "gone"
    <3>1. Lost' \subseteq Lost
      BY <1>3, <1>6, <1>8, <2>2 DEF Lost, Working, Sid
    <3>2. QED
      BY <1>1, <1>9, <3>1, LostKept
  <2>3. QED
    BY <1>8, <2>1, <2>2
<1>14. QED
  BY <1>9, <1>10, <1>11, <1>12, <1>13 DEF IInv

(* The rest of wait: the readers are stopped and joined, the terminal is   *)
(* restored.                                                               *)
LEMMA FinishStep ==
    ASSUME IInv, SendStop \/ JoinHandles \/ RestoreTerminal
    PROVE  IInv'
<1>1. /\ LaunchersInv /\ PlanInv /\ ClientInv /\ LifeInv /\ SpawnInv /\ AnswerInv
      /\ TermInv /\ LostInv /\ IsCall(client) /\ faults \in Nat
  BY DEF IInv, ClientInv, PlanInv
<1>2. /\ client.pc \in {"stop", "join", "restore"} /\ Counted
      /\ UNCHANGED <<plan, info, life, forwards, proc, host>>
  <2>1. CASE SendStop
    BY <2>1 DEF SendStop, At, Counted
  <2>2. CASE JoinHandles
    BY <2>2 DEF JoinHandles, At, Well, Counted
  <2>3. CASE RestoreTerminal
    BY <2>3 DEF RestoreTerminal, At, Works, Well, Counted
  <2>4. QED
    BY <2>1, <2>2, <2>3
<1>3. client.sid \in Sids /\ info = NoInfo /\ client.res \in Results
  BY <1>1, <1>2 DEF ClientInv, StartPcs, WaitPcs, Sid
<1>4. \/ /\ client'.pc \in {"join", "restore"} /\ client'.sid = client.sid
         /\ client'.tty = client.tty /\ client'.res = client.res /\ IsCall(client')
         /\ UNCHANGED term
      \/ /\ client'.pc = "idle" /\ client'.sid = NoSid /\ client'.res = client.res
         /\ IsCall(client')
         /\ term' \in {"cooked", "lost"} \/ (UNCHANGED term /\ ~client.tty)
  <2>1. CASE SendStop
    <3>1. client' = [sid |-> client.sid, tty |-> client.tty, pc |-> "join",
                     cmd |-> client.cmd, stop |-> Sent, res |-> client.res]
      BY <1>1, <2>1 DEF SendStop, IsCall
    <3>2. QED
      BY <2>1, <3>1 DEF SendStop, IsCall
  <2>2. CASE JoinHandles
    BY <1>1, <2>2, CallMoves, CallReturns DEF JoinHandles
  <2>3. CASE RestoreTerminal
    BY <1>1, <2>3, CallReturns DEF RestoreTerminal, Works, Restored
  <2>4. QED
    BY <2>1, <2>2, <2>3
<1>5. LaunchersInv' /\ PlanInv' /\ faults' \in Nat /\ faults <= faults'
  BY <1>1, <1>2, LaunchersKept, PlanKept
<1>6. ClientInv'
  BY <1>1, <1>2, <1>3, <1>4 DEF ClientInv, StartPcs, WaitPcs, Sid
<1>7. LifeInv' /\ SpawnInv'
  BY <1>1, <1>2, <1>3, <1>4 DEF LifeInv, SpawnInv, Sid
<1>8. AnswerInv'
  BY <1>1, <1>2, <1>4 DEF AnswerInv, Sid
<1>9. TermInv'
  BY <1>1, <1>2, <1>4 DEF TermInv
<1>10. Lost' \subseteq Lost
  BY <1>2, <1>4, SidAssumption DEF Lost, Working, Sid
<1>11. QED
  BY <1>1, <1>5, <1>6, <1>7, <1>8, <1>9, <1>10, LostKept DEF IInv

-----------------------------------------------------------------------------
(* A step of a launcher changes no id and no call. *)
LEMMA ProcKeeps ==
    ASSUME IInv, NEW s \in Sids, ProcStep(s)
    PROVE  IInv'
<1>1. /\ LaunchersInv /\ PlanInv /\ ClientInv /\ LifeInv /\ SpawnInv /\ AnswerInv
      /\ TermInv /\ LostInv
  BY DEF IInv
<1>2. UNCHANGED <<plan, faults, client, info, term, life, forwards>>
  BY DEF ProcStep
<1>3. LauncherMoves(s)
  BY <1>1, LauncherMove DEF ProcStep
<1>4. /\ proc[s].pc \notin {"none", "exited"} /\ LauncherOK(proc'[s])
      /\ proc'[s].cmd = proc[s].cmd /\ proc'[s].pc # "none"
      /\ \A r \in Sids \ {s} : proc'[r] = proc[r]
      /\ proc' = [r \in Sids |-> proc'[r]] /\ host' = host
  BY <1>3, StepSet DEF LauncherMoves
<1>5. LaunchersInv'
  BY <1>1, <1>4 DEF LaunchersInv
<1>6. PlanInv' /\ ClientInv' /\ LifeInv' /\ TermInv'
  BY <1>1, <1>2 DEF PlanInv, ClientInv, LifeInv, TermInv, Sid
<1>7. SpawnInv'
  <2>1. client.pc = "launch" => Sid \in Sids
    BY <1>1 DEF ClientInv, StartPcs
  <2>2. QED
    BY <1>1, <1>2, <1>4, <2>1 DEF SpawnInv, Sid
<1>8. AnswerInv'
  <2>1. client.pc \in {"stop", "join", "restore"} => Sid \in Sids
    BY <1>1 DEF ClientInv, WaitPcs
  <2>2. QED
    BY <1>1, <1>2, <1>4, <2>1 DEF AnswerInv, Sid
<1>9. LostInv'
  BY <1>1, <1>2 DEF LostInv, Lost, Working, Sid
<1>10. QED
  BY <1>5, <1>6, <1>7, <1>8, <1>9 DEF IInv

(* Every step keeps the invariant. *)
LEMMA InvStep == IInv /\ [Next]_vars => IInv'
<1> SUFFICES ASSUME IInv, [Next]_vars PROVE IInv'
  OBVIOUS
<1>1. CASE UNCHANGED vars
  BY <1>1 DEF vars, IInv, LaunchersInv, PlanInv, ClientInv, LifeInv, SpawnInv,
              AnswerInv, TermInv, LostInv, Lost, Working, Sid
<1>2. QED
  BY <1>1, ConnectStep, DialStep, ForwardStep, ClaimStep, SendStep, FailStep, StdioStep,
     CallWaitStep, RawStep, AnswerStep, FinishStep, ProcKeeps DEF Next, ClientStep

(* A new client, a server without sessions. *)
LEMMA InvInit == Init => IInv
<1> SUFFICES ASSUME Init PROVE IInv
  OBVIOUS
<1>1. /\ plan \in Plans /\ faults = 0 /\ info = NoInfo /\ term = "cooked"
      /\ life = [s \in Sids |-> "unknown"] /\ forwards = {}
      /\ proc = [s \in Sids |-> Dead] /\ host = << >>
      /\ client = [sid |-> NoSid, tty |-> FALSE, pc |-> "connect", cmd |-> NoCmd,
                   stop |-> FALSE, res |-> "none"]
  BY DEF Init, LauncherInit, NoCall
<1>2. /\ client.sid = NoSid /\ client.pc = "connect" /\ client.res = "none"
      /\ IsCall(client)
  BY <1>1 DEF IsCall
<1>3. Dead = Process("none", FALSE, "host", NoCmd, << >>, {}, 1, {}, 0, 0, FALSE, "none")
  BY DEF Dead, Process
<1>4. LauncherOK(Dead)
  <2>1. Dead.pc = "none"
    BY DEF Dead
  <2>2. QED
    BY <1>3, <2>1 DEF LauncherOK, IsProcess, Process, Early
<1>5. LaunchersInv
  BY <1>1, <1>4 DEF LaunchersInv
<1>6. PlanInv
  BY <1>1, PlanAssumption DEF PlanInv
<1>7. ClientInv
  BY <1>1, <1>2 DEF ClientInv, StartPcs, WaitPcs, Sid, NoInfo, Results
<1>8. LifeInv
  BY <1>1, <1>2 DEF LifeInv, Sid
<1>9. SpawnInv /\ AnswerInv /\ TermInv
  BY <1>1, <1>2, <1>3 DEF SpawnInv, AnswerInv, TermInv, Process
<1>10. LostInv
  <2>1. Lost = {}
    BY <1>1 DEF Lost
  <2>2. IsFiniteSet(Lost) /\ Cardinality(Lost) = 0
    BY <2>1, FS_EmptySet
  <2>3. QED
    BY <1>1, <2>2 DEF LostInv
<1>11. QED
  BY <1>5, <1>6, <1>7, <1>8, <1>9, <1>10 DEF IInv

(* The inductive invariant holds. *)
LEMMA Invariant == Spec => []IInv
BY InvInit, InvStep, PTL DEF Spec

-----------------------------------------------------------------------------
(* The theorems.                                                           *)

(* Whatever plans, ids and failures: what the launcher keeps has its type, *)
(* no mount of a session reaches the server's own namespace, and a program *)
(* runs with the user's ids and terminal.                                  *)
THEOREM LaunchesRight == Spec => []LaunchInv
<1>1. IInv => LaunchInv
  <2> SUFFICES ASSUME IInv PROVE LaunchInv
    OBVIOUS
  <2>1. /\ LaunchersInv /\ PlanInv /\ ClientInv /\ LifeInv /\ TermInv
    BY DEF IInv
  <2>2. plan.calls \in Nat /\ faults \in 0..plan.faults
    BY <2>1 DEF PlanInv
  <2>3. client.sid \in Sids \cup {NoSid} /\ info.sid \in Sids \cup {NoSid}
    BY <2>1 DEF ClientInv, Sid, NoInfo
  <2>4. client.res \in {"none", "ok", "error", "nonzero", "AlreadyStarted",
                        "NotStarted", "No9pPort"}
    BY <2>1 DEF ClientInv, Results
  <2>5. \A s \in Sids :
          /\ proc[s].pc \in ToSet(Steps) \cup {"none", "exited"}
          /\ proc[s].cmd # NoCmd =>
                /\ proc[s].line \in {k + 1 : k \in DOMAIN proc[s].cmd.fstab} \cup {1}
                /\ proc[s].warned \subseteq DOMAIN proc[s].cmd.fstab
    BY <2>1 DEF LaunchersInv, LauncherOK
  <2>6. TypeOK
    BY <2>1, <2>2, <2>3, <2>4, <2>5 DEF TypeOK, TermInv, LifeInv
  <2>7. HostUntouched /\ RunsAsUser
    BY <2>1 DEF HostUntouched, RunsAsUser, LaunchersInv, LauncherOK
  <2>8. QED
    BY <2>6, <2>7 DEF LaunchInv
<1>2. QED
  BY <1>1, Invariant, PTL

(* The client sets the 9p forwarder up before start needs it, and its      *)
(* panic comes before anything runs on the server.                         *)
THEOREM ForwardsFirst == Spec => []ForwardedFirst
<1>1. IInv => ForwardedFirst
  BY DEF IInv, ClientInv, LifeInv, SpawnInv, ForwardedFirst, Results, At, Sid
<1>2. QED
  BY <1>1, Invariant, PTL

(* A session that the client has lost sight of cost a failure: there are   *)
(* never more of them than failed RPCs and terminal errors.                *)
THEOREM OrphansCounted == Spec => []OrphansNeedFaults
<1>1. IInv => OrphansNeedFaults
  <2> SUFFICES ASSUME IInv PROVE OrphansNeedFaults
    OBVIOUS
  <2>1. LostInv /\ faults \in Nat
    BY DEF IInv, PlanInv
  <2>2. LeftBehind \subseteq Lost
    BY DEF LeftBehind, Held, Lost, Working, At
  <2>3. Cardinality(LeftBehind) <= Cardinality(Lost) /\ IsFiniteSet(LeftBehind)
    BY <2>1, <2>2, FS_Subset DEF LostInv
  <2>4. Cardinality(LeftBehind) \in Nat /\ Cardinality(Lost) \in Nat
    BY <2>1, <2>3, FS_CardinalityType DEF LostInv
  <2>5. QED
    BY <2>1, <2>3, <2>4 DEF LostInv, OrphansNeedFaults
<1>2. QED
  BY <1>1, Invariant, PTL

(* wait returns Ok only if the program itself ended with status 0. *)
THEOREM OkIsZero == Spec => []OkMeansZero
<1>1. IInv => OkMeansZero
  BY DEF IInv, AnswerInv, OkMeansZero
<1>2. QED
  BY <1>1, Invariant, PTL

(* The terminal is in raw mode only while wait is under way. *)
THEOREM TerminalBack == Spec => []TerminalRestored
<1>1. IInv => TerminalRestored
  BY DEF IInv, TermInv, TerminalRestored
<1>2. QED
  BY <1>1, Invariant, PTL

-----------------------------------------------------------------------------
(* The composition implements the life cycle of a session.                 *)

Running == {s \in Sids : life[s] = "live" /\ proc[s].pc # "exited"}

(* A step that moves no id and ends no program stutters. *)
LEMMA Stutters ==
    ASSUME UNCHANGED life,
           \A s \in Sids : life[s] = "live" =>
               (proc'[s].pc # "exited") = (proc[s].pc # "exited")
    PROVE  UNCHANGED Lifecycle!lvars
BY DEF Lifecycle!lvars

(* A step that moves one id, other than to live, and whose processes stay. *)
LEMMA MovesOne ==
    ASSUME LifeInv, NEW s \in Sids, NEW st, st # "live", UNCHANGED proc,
           life' = [life EXCEPT ![s] = st],
           \/ life[s] = "unknown" /\ st = "dialed"
           \/ life[s] = "dialed" /\ st = "starting"
           \/ life[s] = "starting" /\ st = "gone"
           \/ life[s] = "live" /\ proc[s].pc = "exited" /\ st = "gone"
    PROVE  Lifecycle!LifeNext
<1>1. life'[s] = st /\ \A r \in Sids \ {s} : life'[r] = life[r]
  BY LifeMoves
<1>2. Running' = Running
  BY <1>1 DEF Running
<1>3. s \notin Running \/ life[s] # "live" \/ proc[s].pc # "exited"
  BY DEF Running
<1>4. QED
  BY <1>2, <1>3 DEF Running, Lifecycle!LifeNext, Lifecycle!Dialed, Lifecycle!Claimed,
     Lifecycle!StartFailed, Lifecycle!Reaped

(* The session is registered. *)
LEMMA SendRegisters ==
    ASSUME IInv, StartSends
    PROVE  Lifecycle!LifeNext
<1>1. LaunchersInv /\ LifeInv /\ client.pc = "starting"
  BY DEF IInv, StartSends, At
<1>2. PICK s \in Sids : s = client.sid /\ life[s] = "starting"
  BY <1>1 DEF IInv, ClientInv, LifeInv, StartPcs, Sid
<1>3. \/ \E p : Goes(s, p) /\ life' = [life EXCEPT ![s] = "live"]
      \/ life' = [life EXCEPT ![s] = "gone"] /\ UNCHANGED proc
  BY <1>2 DEF StartSends, Lives, Sid
<1>4. CASE \E p : Goes(s, p) /\ life' = [life EXCEPT ![s] = "live"]
  <2>1. /\ life' = [life EXCEPT ![s] = "live"] /\ life'[s] = "live"
        /\ \A r \in Sids \ {s} : life'[r] = life[r] /\ proc'[r] = proc[r]
    BY <1>1, <1>4, LifeMoves, GoesOne
  <2>2. Running' \in {Running, Running \cup {s}}
    <3>1. \A r \in Sids \ {s} : (r \in Running') = (r \in Running)
      BY <2>1 DEF Running
    <3>2. s \notin Running /\ Running \subseteq Sids /\ Running' \subseteq Sids
      BY <1>2 DEF Running
    <3>3. Running' = Running \/ Running' = Running \cup {s}
      BY <3>1, <3>2
    <3>4. QED
      BY <3>3
  <2>3. QED
    BY <1>2, <2>1, <2>2 DEF Running, Lifecycle!LifeNext, Lifecycle!Registered
<1>5. CASE life' = [life EXCEPT ![s] = "gone"] /\ UNCHANGED proc
  BY <1>1, <1>2, <1>5, MovesOne
<1>6. QED
  BY <1>3, <1>4, <1>5

(* A launcher moves, or ends. *)
LEMMA ProcEnds ==
    ASSUME IInv, NEW s \in Sids, ProcStep(s)
    PROVE  Lifecycle!LifeNext \/ UNCHANGED Lifecycle!lvars
<1>1. LauncherMoves(s) /\ UNCHANGED life
  BY LauncherMove DEF ProcStep, IInv
<1>2. proc[s].pc # "exited" /\ \A r \in Sids \ {s} : proc'[r] = proc[r]
  BY <1>1, StepSet DEF LauncherMoves
<1>3. CASE life[s] = "live" /\ proc'[s].pc = "exited"
  <2>1. s \in Running /\ Running' = Running \ {s}
    BY <1>1, <1>2, <1>3 DEF Running
  <2>2. QED
    BY <1>1, <2>1 DEF Running, Lifecycle!LifeNext, Lifecycle!ProgramEnds
<1>4. CASE ~(life[s] = "live" /\ proc'[s].pc = "exited")
  BY <1>1, <1>2, <1>4, Stutters
<1>5. QED
  BY <1>3, <1>4

(* Every step of the composition is one of the life cycle, or none. *)
LEMMA LifeStep ==
    ASSUME IInv, [Next]_vars
    PROVE  [Lifecycle!LifeNext]_(Lifecycle!lvars)
<1>1. LifeInv /\ ClientInv
  BY DEF IInv
<1>2. CASE UNCHANGED <<life, proc>>
  BY <1>2, Stutters
<1>3. CASE Dial
  <2>1. PICK s \in Sids : life[s] = "unknown" /\ life' = [life EXCEPT ![s] = "dialed"]
    BY <1>3 DEF Dial
  <2>2. UNCHANGED proc
    BY <1>3 DEF Dial
  <2>3. QED
    BY <1>1, <2>1, <2>2, MovesOne
<1>4. CASE StartClaims
  <2>1. PICK s \in Sids : s = client.sid /\ life[s] = "dialed"
    BY <1>1, <1>4 DEF StartClaims, At, ClientInv, LifeInv, StartPcs, Sid
  <2>2. life' = [life EXCEPT ![s] = "starting"] /\ UNCHANGED proc
    BY <1>4, <2>1 DEF StartClaims, Lives, Sid
  <2>3. QED
    BY <1>1, <2>1, <2>2, MovesOne
<1>5. CASE StartLaunches
  <2>1. PICK s \in Sids : s = client.sid /\ life[s] = "starting"
    BY <1>1, <1>5 DEF StartLaunches, At, ClientInv, LifeInv, StartPcs, Sid
  <2>2. Goes(s, [proc[s] EXCEPT !.pc = Steps[1]]) /\ UNCHANGED life
    BY <1>1, <1>5, <2>1 DEF StartLaunches, At, LifeInv, Sid, Spawn
  <2>3. \A r \in Sids \ {s} : proc'[r] = proc[r]
    BY <2>2, GoesOne DEF IInv
  <2>4. QED
    BY <2>1, <2>2, <2>3, Stutters
<1>6. CASE StartSends
  BY <1>6, SendRegisters
<1>7. CASE RpcFails
  <2>1. CASE client.pc \in {"launch", "starting"}
    <3>1. PICK s \in Sids : s = client.sid /\ life[s] = "starting"
      BY <1>1, <2>1 DEF ClientInv, LifeInv, StartPcs, Sid
    <3>2. life' = [life EXCEPT ![s] = "gone"] /\ UNCHANGED proc
      BY <1>7, <2>1, <3>1 DEF RpcFails, At, Lives, Sid
    <3>3. QED
      BY <1>1, <3>1, <3>2, MovesOne
  <2>2. CASE client.pc \notin {"launch", "starting"}
    BY <1>2, <1>7, <2>2 DEF RpcFails, At
  <2>3. QED
    BY <2>1, <2>2
<1>8. CASE WaitInner
  <2>1. PICK s \in Sids : s = client.sid /\ life[s] = "live"
    BY <1>1, <1>8 DEF WaitInner, At, ClientInv, LifeInv, WaitPcs, Sid
  <2>2. /\ UNCHANGED proc
        /\ \/ proc[s].pc = "exited" /\ life' = [life EXCEPT ![s] = "gone"]
           \/ UNCHANGED life
    BY <1>8, <2>1 DEF WaitInner, Ended, Lives, Sid
  <2>3. QED
    BY <1>1, <1>2, <2>1, <2>2, MovesOne
<1>9. ASSUME NEW s \in Sids, ProcStep(s)
      PROVE  [Lifecycle!LifeNext]_(Lifecycle!lvars)
  BY <1>9, ProcEnds
<1>10. CASE \/ Connects \/ Forward \/ SetupStdio \/ RawMode \/ SendStop \/ JoinHandles
            \/ RestoreTerminal \/ CallWait \/ \E a \in plan.args : FileRefused(a) \/ CallStart(a)
  <2>1. UNCHANGED <<life, proc>>
    BY <1>10 DEF Connects, Forward, SetupStdio, RawMode, SendStop, JoinHandles,
       RestoreTerminal, CallWait, CallStart, FileRefused
  <2>2. QED
    BY <1>2, <2>1
<1>11. CASE UNCHANGED vars
  BY <1>2, <1>11 DEF vars
<1>12. QED
  BY <1>3, <1>4, <1>5, <1>6, <1>7, <1>8, <1>9, <1>10, <1>11 DEF Next, ClientStep

(* Client, RPCs, server and launchers together keep the promise of the     *)
(* session table: an id goes one way from dial over start to wait, and is  *)
(* reaped only when its process has ended, whatever fails in between.      *)
THEOREM Composes == Spec => ImplementsLifecycle
<1>1. Init => Lifecycle!LifeInit
  BY DEF Init, Lifecycle!LifeInit
<1>2. QED
  BY <1>1, LifeStep, Invariant, PTL DEF Spec, ImplementsLifecycle, Lifecycle!LifeSpec

-----------------------------------------------------------------------------
(* Paths and mount tables.                                                 *)

(* Strings and paths.  The provers do not know that a literal is a string, *)
(* so those that the code itself puts into a line are named. *)
Str == STRING \cup {"", "mnt9p", "local", "tmpfs", "client", "other", "127.0.0.1", "9p",
                    "none", "defaults", "bind", "port"}
Route == Seq(Str)

LEMMA Strings == /\ STRING \subseteq Str /\ Path \subseteq Route
                 /\ "mnt9p" \in Str /\ "local" \in Str /\ "tmpfs" \in Str
                 /\ "client" \in Str /\ "other" \in Str
<1>1. STRING \subseteq Str
  BY DEF Str
<1>2. ASSUME NEW s \in Path PROVE s \in Route
  BY <1>1, SeqMonotonic DEF Path, Route
<1>3. QED
  BY <1>1, <1>2 DEF Str

(* A prefix, name by name. *)
LEMMA PrefixIs ==
    ASSUME NEW s \in Route, NEW t \in Route
    PROVE  IsPrefix(s, t) <=> Len(s) <= Len(t) /\ \A i \in 1..Len(s) : s[i] = t[i]
<1>1. Len(s) \in Nat /\ Len(t) \in Nat
  BY DEF Route
<1>2. SUFFICES ASSUME Len(s) <= Len(t)
               PROVE  SubSeq(s, 1, Len(s)) = SubSeq(t, 1, Len(s))
                         <=> \A i \in 1..Len(s) : s[i] = t[i]
  BY <1>1 DEF IsPrefix
<1>3. /\ \A i \in 1..Len(s) : SubSeq(s, 1, Len(s))[i] = s[i]
      /\ \A i \in 1..Len(s) : SubSeq(t, 1, Len(s))[i] = t[i]
      /\ SubSeq(s, 1, Len(s)) = [i \in 1..Len(s) |-> s[i]]
      /\ SubSeq(t, 1, Len(s)) = [i \in 1..Len(s) |-> t[i]]
  BY <1>1, <1>2 DEF Route
<1>4. QED
  BY <1>3

(* A path is below itself, at no distance. *)
LEMMA PrefixSelf ==
    ASSUME NEW s \in Route
    PROVE  IsPrefix(s, s) /\ SubSeq(s, Len(s) + 1, Len(s)) = << >>
<1>1. Len(s) \in Nat
  BY DEF Route
<1>2. IsPrefix(s, s)
  BY <1>1, PrefixIs
<1>3. SubSeq(s, Len(s) + 1, Len(s)) = << >>
  BY <1>1 DEF Route
<1>4. QED
  BY <1>2, <1>3

(* The directory of the client's files is in the tmpfs, and the one of the *)
(* server's is another. *)
LEMMA MountPoints ==
    /\ TmpMnt \in Route /\ Mnt9p \in Route /\ Local \in Route
    /\ ~IsPrefix(TmpMnt, << >>)
    /\ \A q \in Route : IsPrefix(Mnt9p, q) => IsPrefix(TmpMnt, q) /\ ~IsPrefix(Local, q)
<1> DEFINE n == Len(TmpMnt)
<1>1. /\ TmpMnt \in Route /\ n \in Nat /\ n # 0 /\ << >> \in Route
  <2>1. TmpMnt \in Route /\ TmpMnt # << >>
    BY TmpAssumption, Strings DEF Path
  <2>2. QED
    BY <2>1, EmptySeq DEF Route
<1> HIDE DEF n
<1>0. /\ TmpMnt \in Seq(Str) /\ "mnt9p" \in Str /\ "local" \in Str
      /\ n = Len(TmpMnt)
  BY TmpAssumption, Strings DEF n, Path, Route
<1>2. /\ Mnt9p \in Route /\ Len(Mnt9p) = n + 1 /\ Mnt9p[n + 1] = "mnt9p"
      /\ \A i \in 1..n : Mnt9p[i] = TmpMnt[i]
  BY ONLY <1>0, AppendProperties DEF Mnt9p, Route
<1>3. /\ Local \in Route /\ Len(Local) = n + 1 /\ Local[n + 1] = "local"
  BY ONLY <1>0, AppendProperties DEF Local, Route
<1>4. ~IsPrefix(TmpMnt, << >>)
  <2>1. ~(n <= Len(<< >>))
    BY <1>1
  <2>2. QED
    BY <2>1 DEF IsPrefix, n
<1>5. ASSUME NEW q \in Route, IsPrefix(Mnt9p, q)
      PROVE  IsPrefix(TmpMnt, q) /\ ~IsPrefix(Local, q)
  <2>1. n + 1 <= Len(q) /\ \A i \in 1..(n + 1) : Mnt9p[i] = q[i]
    BY <1>2, <1>5, PrefixIs
  <2>2. Len(q) \in Nat
    BY DEF Route
  <2>3. n + 1 \in 1..(n + 1) /\ \A i \in 1..n : i \in 1..(n + 1)
    BY <1>1
  <2>4. n <= Len(q) /\ \A i \in 1..n : TmpMnt[i] = q[i]
    BY <1>1, <1>2, <2>1, <2>2, <2>3
  <2>5. IsPrefix(TmpMnt, q)
    BY <1>1, <2>4, PrefixIs DEF n
  <2>6. q[n + 1] = "mnt9p"
    BY <1>2, <2>1, <2>3
  <2>7. ~IsPrefix(Local, q)
    <3>1. SUFFICES ASSUME IsPrefix(Local, q) PROVE FALSE
      OBVIOUS
    <3>2. Local[n + 1] = q[n + 1]
      BY <1>3, <2>3, <3>1, PrefixIs
    <3>3. QED
      BY <1>3, <2>6, <3>2
  <2>8. QED
    BY <2>5, <2>7
<1>6. QED
  BY <1>1, <1>2, <1>3, <1>4, <1>5

(* The tables that launchers build. *)
MountRec == [at : Route, tree : Str, path : Route]
Over(ms, p) == {k \in DOMAIN ms : IsPrefix(ms[k].at, p)}

(* The last mount over a path, if there is one. *)
LEMMA Topmost ==
    ASSUME NEW ms \in Seq(MountRec), NEW p, Over(ms, p) # {}
    PROVE  /\ Max(Over(ms, p)) \in Over(ms, p)
           /\ \A k \in Over(ms, p) : k <= Max(Over(ms, p))
<1> DEFINE S == Over(ms, p)
<1>1. Len(ms) \in Nat /\ S \in SUBSET (0..Len(ms)) /\ S # {}
  BY DEF Over
<1> HIDE DEF S
<1>2. PICK m \in S : \A k \in S : k <= m
  BY <1>1, Greatest
<1>3. \A x, y \in S : (x >= y) <=> (y <= x)
  BY <1>1
<1>4. \E x \in S : \A y \in S : x >= y
  BY <1>2, <1>3
<1>5. Max(S) \in S /\ \A y \in S : Max(S) >= y
  BY <1>4 DEF Max
<1>6. QED
  BY <1>3, <1>5 DEF S

(* What a path shows is a tree and a path in it. *)
LEMMA ShowType ==
    ASSUME NEW ms \in Seq(MountRec), NEW p \in Route
    PROVE  /\ Show(ms, p).tree \in Str /\ Show(ms, p).path \in Route
           /\ Show(ms, p) = [tree |-> Show(ms, p).tree, path |-> Show(ms, p).path]
<1>1. CASE Over(ms, p) = {}
  <2>1. Show(ms, p) = [tree |-> "local", path |-> p]
    BY <1>1 DEF Show, Over
  <2>2. Show(ms, p).tree = "local" /\ Show(ms, p).path = p
    BY <2>1
  <2>3. QED
    BY <2>1, <2>2, Strings
<1>2. CASE Over(ms, p) # {}
  <2>1. PICK k \in Over(ms, p) : k = Max(Over(ms, p))
    BY <1>2, Topmost
  <2>2. Show(ms, p) = [tree |-> ms[k].tree,
                       path |-> ms[k].path \o SubSeq(p, Len(ms[k].at) + 1, Len(p))]
    BY <1>2, <2>1 DEF Show, Over
  <2>3. ms[k] \in MountRec
    BY DEF Over
  <2>4. /\ ms[k].tree \in Str /\ ms[k].path \in Route /\ ms[k].at \in Route
        /\ Len(ms[k].at) \in Nat /\ Len(p) \in Nat
    BY <2>3 DEF MountRec, Route
  <2>5. SubSeq(p, Len(ms[k].at) + 1, Len(p)) \in Route
    <3>1. \A i \in (Len(ms[k].at) + 1)..Len(p) : p[i] \in Str
      BY <2>4 DEF Route
    <3>2. QED
      BY <2>4, <3>1, SubSeqProperties DEF Route
  <2>6. QED
    BY <2>2, <2>4, <2>5, ConcatProperties DEF Route
<1>3. QED
  BY <1>1, <1>2

(* A new mount hides what was there, and nothing else. *)
LEMMA ShowNew ==
    ASSUME NEW ms \in Seq(MountRec), NEW m \in MountRec, NEW p \in Route, IsPrefix(m.at, p)
    PROVE  Show(Append(ms, m), p)
              = [tree |-> m.tree, path |-> m.path \o SubSeq(p, Len(m.at) + 1, Len(p))]
<1> DEFINE r == Append(ms, m)
           n == Len(ms) + 1
<1>1. r \in Seq(MountRec) /\ Len(r) = n /\ r[n] = m /\ n \in Nat /\ n >= 1
  BY AppendProperties
<1> HIDE DEF r, n
<1>2. n \in Over(r, p) /\ DOMAIN r = 1..n
  BY <1>1 DEF Over
<1>3. Max(Over(r, p)) \in Over(r, p) /\ n <= Max(Over(r, p))
  BY <1>1, <1>2, Topmost
<1>4. Max(Over(r, p)) = n
  BY <1>1, <1>2, <1>3 DEF Over
<1>5. Over(r, p) # {} /\ r[Max(Over(r, p))] = m
  BY <1>1, <1>2, <1>4
<1>6. QED
  BY <1>5 DEF Show, Over, r

LEMMA ShowOld ==
    ASSUME NEW ms \in Seq(MountRec), NEW m \in MountRec, NEW p \in Route, ~IsPrefix(m.at, p)
    PROVE  Show(Append(ms, m), p) = Show(ms, p)
<1> DEFINE r == Append(ms, m)
<1>1. /\ r \in Seq(MountRec) /\ DOMAIN ms = 1..Len(ms) /\ Len(ms) \in Nat
      /\ DOMAIN r = 1..(Len(ms) + 1) /\ r[Len(ms) + 1] = m
      /\ \A k \in 1..Len(ms) : r[k] = ms[k]
  BY AppendProperties
<1> HIDE DEF r
<1>2. Over(r, p) = Over(ms, p)
  BY <1>1 DEF Over
<1>3. CASE Over(ms, p) = {}
  BY <1>2, <1>3 DEF Show, Over, r
<1>4. CASE Over(ms, p) # {}
  <2>1. Max(Over(ms, p)) \in 1..Len(ms)
    BY <1>1, <1>4, Topmost DEF Over
  <2>2. r[Max(Over(r, p))] = ms[Max(Over(ms, p))]
    BY <1>1, <1>2, <2>1
  <2>3. QED
    BY <1>2, <1>4, <2>2 DEF Show, Over, r
<1>5. QED
  BY <1>3, <1>4

(* If no mount over a path is of the server's own files, it shows none. *)
LEMMA ShowTree ==
    ASSUME NEW ms \in Seq(MountRec), NEW p \in Route, Over(ms, p) # {},
           \A k \in Over(ms, p) : ms[k].tree # "local"
    PROVE  Show(ms, p).tree # "local"
<1>1. PICK k \in Over(ms, p) : k = Max(Over(ms, p))
  BY Topmost
<1>2. Show(ms, p).tree = ms[k].tree
  BY <1>1 DEF Show, Over
<1>3. QED
  BY <1>2

-----------------------------------------------------------------------------
(* Lookups.                                                                *)

(* The recursion over the names has a solution. *)
LEMMA LookupDef ==
    ASSUME NEW ms, NEW p
    PROVE  /\ Lookup(ms, p)[0] = {[at |-> << >>, todo |-> p]}
           /\ \A k \in 1..WalkMax :
                 Lookup(ms, p)[k] = UNION {LookupStep(ms, x) : x \in Lookup(ms, p)[k - 1]}
<1> DEFINE n == WalkMax
           On(S) == UNION {LookupStep(ms, x) : x \in S}
           At0(w, k) == IF k = 0 THEN {[at |-> << >>, todo |-> p]} ELSE On(w[k - 1])
           Good(w, m) == w = [k \in 0..m |-> At0(w, k)]
           S == {m \in 0..n : \E w : Good(w, m)}
<1>0. n \in Nat
  BY LinkAssumption
<1>5. Lookup(ms, p) = CHOOSE w : Good(w, n)
  BY DEF Lookup
<1>8. \A w, k : At0(w, k) = IF k = 0 THEN {[at |-> << >>, todo |-> p]} ELSE On(w[k - 1])
  OBVIOUS
<1>9. \A S0 : On(S0) = UNION {LookupStep(ms, x) : x \in S0}
  OBVIOUS
<1> HIDE DEF n, On
<1>1. 0 \in S
  <2> DEFINE v == [k \in 0..0 |-> {[at |-> << >>, todo |-> p]}]
  <2>1. Good(v, 0)
    OBVIOUS
  <2> HIDE DEF v, Good
  <2>2. (\E w : Good(w, 0)) /\ 0 \in 0..n
    BY <1>0, <2>1
  <2>3. QED
    BY <2>2
<1>2. ASSUME NEW m \in 0..n, m + 1 \in 0..n, m \in S
      PROVE  m + 1 \in S
  <2>1. PICK w : Good(w, m)
    BY <1>2
  <2> DEFINE v == [k \in 0..(m + 1) |-> IF k <= m THEN w[k] ELSE On(w[m])]
  <2>2. ASSUME NEW k \in 0..(m + 1) PROVE v[k] = At0(v, k)
    <3>1. CASE k = 0
      BY <2>1, <3>1
    <3>2. CASE k \in 1..m
      <4>0. m \in Nat /\ k \in 0..m /\ k - 1 \in 0..m /\ k \in 0..(m + 1) /\ k - 1 \in 0..(m + 1)
        BY <1>0, <3>2
      <4>1. v[k] = w[k] /\ v[k - 1] = w[k - 1]
        BY <4>0
      <4>2. w[k] = At0(w, k)
        BY <2>1, <4>0
      <4>3. QED
        BY <4>1, <4>2, <3>2
    <3>3. CASE k = m + 1
      <4>1. v[k] = On(w[m]) /\ v[k - 1] = w[m]
        BY <1>0, <3>3
      <4>2. QED
        BY <4>1, <3>3
    <3>4. QED
      BY <1>0, <3>1, <3>2, <3>3
  <2>3. Good(v, m + 1)
    BY <2>2
  <2>4. QED
    BY <2>3, <1>2
<1>3. n \in S
  <2>1. n \in 0..n
    BY <1>0
  <2> HIDE DEF S
  <2>2. QED
    BY <1>0, <1>1, <1>2, <2>1, Climb
<1>4. \E w : Good(w, n)
  BY <1>3
<1>6. Good(Lookup(ms, p), n)
  BY <1>4, <1>5
<1>7. QED
  BY <1>0, <1>6, <1>9 DEF n

(* The first name of what is left to look up. *)
LEMMA HeadNext ==
    ASSUME NEW S, NEW a \in Seq(S), NEW t \in Seq(S), t # << >>
    PROVE  /\ Head(t) \in S /\ Tail(t) \in Seq(S) /\ Append(a, Head(t)) \in Seq(S)
           /\ Append(a, Head(t)) \o Tail(t) = a \o t
           /\ \E k \in DOMAIN (a \o t) : (a \o t)[k] = Head(t)
<1>1. /\ Head(t) \in S /\ Tail(t) \in Seq(S) /\ Len(Tail(t)) = Len(t) - 1 /\ Len(t) >= 1
      /\ Len(t) \in Nat /\ Len(a) \in Nat /\ Head(t) = t[1]
      /\ \A i \in 1..Len(Tail(t)) : Tail(t)[i] = t[i + 1]
  BY EmptySeq
<1>2. /\ Append(a, Head(t)) \in Seq(S) /\ Len(Append(a, Head(t))) = Len(a) + 1
      /\ Append(a, Head(t))[Len(a) + 1] = Head(t)
      /\ \A i \in 1..Len(a) : Append(a, Head(t))[i] = a[i]
  BY <1>1, AppendProperties
<1>3. PICK b, c : b = Append(a, Head(t)) /\ c = Tail(t)
  OBVIOUS
<1>4. /\ b \o c \in Seq(S) /\ Len(b \o c) = Len(b) + Len(c)
      /\ \A i \in 1..(Len(b) + Len(c)) :
            (b \o c)[i] = IF i <= Len(b) THEN b[i] ELSE c[i - Len(b)]
  BY <1>1, <1>2, <1>3, ConcatProperties
<1>5. /\ a \o t \in Seq(S) /\ Len(a \o t) = Len(a) + Len(t)
      /\ \A i \in 1..(Len(a) + Len(t)) :
            (a \o t)[i] = IF i <= Len(a) THEN a[i] ELSE t[i - Len(a)]
  BY ConcatProperties
<1>6. Len(b \o c) = Len(a \o t)
  BY <1>1, <1>2, <1>3, <1>4, <1>5
<1>7. ASSUME NEW i \in 1..Len(a \o t) PROVE (b \o c)[i] = (a \o t)[i]
  <2>1. CASE i <= Len(a)
    BY <1>1, <1>2, <1>3, <1>4, <1>5, <2>1
  <2>2. CASE i = Len(a) + 1
    BY <1>1, <1>2, <1>3, <1>4, <1>5, <2>2
  <2>3. CASE i > Len(a) + 1
    <3>1. i - (Len(a) + 1) \in 1..Len(c) /\ (i - (Len(a) + 1)) + 1 = i - Len(a)
      BY <1>1, <1>3, <1>5, <2>3
    <3>2. (b \o c)[i] = c[i - (Len(a) + 1)]
      BY <1>1, <1>2, <1>3, <1>4, <1>5, <2>3
    <3>3. (a \o t)[i] = t[i - Len(a)]
      BY <1>1, <1>5, <2>3
    <3>4. QED
      BY <1>1, <1>3, <3>1, <3>2, <3>3
  <2>4. i \in Nat /\ Len(a) \in Nat
    BY <1>1, <1>5
  <2>5. i <= Len(a) \/ i = Len(a) + 1 \/ i > Len(a) + 1
    BY <2>4
  <2>6. QED
    BY <2>1, <2>2, <2>3, <2>5
<1>8. b \o c = a \o t
  BY <1>4, <1>5, <1>6, <1>7, SeqEqual
<1>9. Len(a) + 1 \in DOMAIN (a \o t) /\ (a \o t)[Len(a) + 1] = Head(t)
  BY <1>1, <1>5
<1>10. QED
  BY <1>1, <1>2, <1>3, <1>8, <1>9

(* Names that are neither '..' nor links are taken one after the other. *)
OnPath(p, x) == x.at \in Route /\ x.todo \in Route /\ x.at \o x.todo = p

LEMMA PlainStep ==
    ASSUME NEW ms, NEW p \in Route, Plain(p), NEW x, OnPath(p, x), NEW y \in LookupStep(ms, x)
    PROVE  OnPath(p, y)
<1>1. CASE x.todo = << >>
  BY <1>1 DEF LookupStep
<1>2. CASE x.todo # << >>
  <2>1. PICK at, todo : at = x.at /\ todo = x.todo
    OBVIOUS
  <2>2. at \in Seq(Str) /\ todo \in Seq(Str) /\ todo # << >> /\ at \o todo = p
    BY <1>2, <2>1 DEF OnPath, Route
  <2>3. /\ Head(todo) \in Str /\ Tail(todo) \in Seq(Str)
        /\ Append(at, Head(todo)) \in Seq(Str)
        /\ Append(at, Head(todo)) \o Tail(todo) = at \o todo
    BY <2>2, HeadNext
  <2>4. \E k \in DOMAIN p : p[k] = Head(todo)
    BY <2>2, HeadNext
  <2>5. Head(todo) # ".." /\ LinksAt(ms, at, Head(todo)) = {}
    BY <2>4 DEF Plain, LinksAt
  <2>6. y = [at |-> Append(at, Head(todo)), todo |-> Tail(todo)]
    BY <1>2, <2>1, <2>5 DEF LookupStep
  <2>7. QED
    BY <2>2, <2>3, <2>6 DEF OnPath, Route
<1>3. QED
  BY <1>1, <1>2

(* Such a path leads to where it says, if anywhere. *)
LEMMA PlainPlaces ==
    ASSUME NEW ms, NEW p \in Route, Plain(p)
    PROVE  Places(ms, p) \subseteq {p}
<1> DEFINE S == {k \in 0..WalkMax : \A x \in Lookup(ms, p)[k] : OnPath(p, x)}
<1>0. WalkMax \in Nat
  BY LinkAssumption
<1>1. 0 \in S
  <2>1. PICK x : x = [at |-> << >>, todo |-> p]
    OBVIOUS
  <2>2. x.at = << >> /\ x.todo = p
    BY <2>1
  <2>3. << >> \in Seq(Str) /\ << >> \o p = p
    BY EmptySeq, ConcatEmptySeq DEF Route
  <2>4. OnPath(p, x)
    BY <2>2, <2>3 DEF OnPath, Route
  <2>5. QED
    BY <1>0, <2>1, <2>4, LookupDef
<1>2. ASSUME NEW k \in 0..WalkMax, k + 1 \in 0..WalkMax, k \in S
      PROVE  k + 1 \in S
  <2>1. k + 1 \in 1..WalkMax /\ (k + 1) - 1 = k
    BY <1>0, <1>2
  <2>2. Lookup(ms, p)[k + 1] = UNION {LookupStep(ms, x) : x \in Lookup(ms, p)[k]}
    BY <2>1, LookupDef
  <2>3. ASSUME NEW y \in Lookup(ms, p)[k + 1] PROVE OnPath(p, y)
    <3>1. PICK x \in Lookup(ms, p)[k] : y \in LookupStep(ms, x)
      BY <2>2, <2>3
    <3>2. OnPath(p, x)
      BY <1>2
    <3>3. QED
      BY <3>1, <3>2, PlainStep
  <2>4. QED
    BY <1>2, <2>3
<1>3. 0..WalkMax \subseteq S
  <2> HIDE DEF S
  <2>1. QED
    BY <1>0, <1>1, <1>2, Climb
<1>4. \A x \in Lookup(ms, p)[WalkMax] : OnPath(p, x)
  BY <1>0, <1>3
<1>5. ASSUME NEW x \in Lookup(ms, p)[WalkMax], x.todo = << >>
      PROVE  x.at = p
  <2>1. x.at \in Seq(Str) /\ x.at \o << >> = p
    BY <1>4, <1>5 DEF OnPath, Route
  <2>2. QED
    BY <2>1, ConcatEmptySeq
<1>6. QED
  BY <1>5 DEF Places

-----------------------------------------------------------------------------
(* The mounts of a session, line by line of its fstab.                     *)

(* An fstab whose first line mounts what the forwarder serves. *)
FsLine == [spec : Route, file : Route, type : Str, opts : SUBSET Str]
SentTab(tab) ==
    /\ tab \in Seq(FsLine) /\ tab # << >>
    /\ tab[1].file = Mnt9p /\ tab[1].type = "9p"
    /\ "port" \in tab[1].opts /\ "bind" \notin tab[1].opts

(* The lines before line n that were mounted, and what they cover. *)
Up(n, w) == (1..(n - 1)) \ w
Covers(tab, js, p) == \E j \in js : IsPrefix(tab[j].file, p)

(* As long as the lines bind what is below the 9p mount, the only mount of *)
(* the server's own files is the second one. *)
OwnTree(tab, ms, n) ==
    (\A j \in 2..(n - 1) : Bind9p(tab[j])) =>
        \A i \in DOMAIN ms : i # 2 => ms[i].tree # "local"

(* What is below the 9p mount and was not covered is the client's. *)
Forwarded(tab, ms, up) ==
    1 \in up => \A q \in Route : IsPrefix(Mnt9p, q) /\ ~Covers(tab, up \ {1}, q) =>
                    Show(ms, q) = FromClient(q)

(* What ShowsClient says of the lines so far. *)
Targets(tab, ms, up) ==
    \A k \in up \ {1} :
      (\A j \in 2..k : Bind9p(tab[j])) /\ ~Covers(tab, {j \in up : j > k}, tab[k].file) =>
        /\ Show(ms, tab[k].file).tree # "local"
        /\ 1 \in up /\ ~Covers(tab, {j \in up : 1 < j /\ j < k}, tab[k].spec) =>
              Show(ms, tab[k].file) = FromClient(tab[k].spec)

TableRight(tab, ms, n, w) ==
    /\ n \in 1..(Len(tab) + 1) /\ w \subseteq 1..(n - 1)
    /\ ms \in Seq(MountRec) /\ Len(ms) >= 2 /\ ms[1].at = TmpMnt /\ ms[2].at = Local
    /\ OwnTree(tab, ms, n) /\ Forwarded(tab, ms, Up(n, w)) /\ Targets(tab, ms, Up(n, w))

(* The table before the first line. *)
TmpMount == [at |-> TmpMnt, tree |-> "tmpfs", path |-> << >>]
LocalMount == [at |-> Local, tree |-> "local", path |-> << >>]

LEMMA TableStarts ==
    ASSUME NEW tab, SentTab(tab)
    PROVE  TableRight(tab, <<TmpMount, LocalMount>>, 1, {})
<1> DEFINE ms == <<TmpMount, LocalMount>>
<1>1. Len(tab) \in Nat
  BY DEF SentTab
<1>2. << >> \in Route
  BY EmptySeq DEF Route
<1>3. TmpMount \in MountRec /\ LocalMount \in MountRec
  BY <1>2, Strings, MountPoints DEF TmpMount, LocalMount, MountRec
<1>4. /\ ms \in Seq(MountRec) /\ Len(ms) = 2 /\ DOMAIN ms = 1..2
      /\ ms[1] = TmpMount /\ ms[2] = LocalMount
  BY <1>3
<1> HIDE DEF ms
<1>5. Up(1, {}) = {}
  BY DEF Up
<1>6. ms[1].at = TmpMnt /\ ms[2].at = Local /\ ms[1].tree # "local"
  BY <1>4 DEF TmpMount, LocalMount
<1>7. OwnTree(tab, ms, 1)
  BY <1>4, <1>6 DEF OwnTree
<1>8. Forwarded(tab, ms, {}) /\ Targets(tab, ms, {})
  BY DEF Forwarded, Targets
<1>9. QED
  BY <1>1, <1>4, <1>5, <1>6, <1>7, <1>8 DEF TableRight, ms

(* A line that is only warned of. *)
LEMMA LineSkipped ==
    ASSUME NEW tab, SentTab(tab), NEW ms, NEW n \in 1..Len(tab), NEW w, TableRight(tab, ms, n, w)
    PROVE  TableRight(tab, ms, n + 1, w \cup {n})
<1>1. Len(tab) \in Nat /\ n + 1 \in 1..(Len(tab) + 1)
  BY DEF SentTab
<1>2. Up(n + 1, w \cup {n}) = Up(n, w)
  BY <1>1 DEF Up
<1>3. OwnTree(tab, ms, n) => OwnTree(tab, ms, n + 1)
  <2>1. \A j \in 2..(n - 1) : j \in 2..((n + 1) - 1)
    BY <1>1
  <2>2. QED
    BY <2>1 DEF OwnTree
<1>4. w \cup {n} \subseteq 1..((n + 1) - 1)
  BY <1>1 DEF TableRight
<1>5. QED
  BY <1>1, <1>2, <1>3, <1>4 DEF TableRight

(* What a bind of something below the 9p mount shows is not the server's. *)
LEMMA BindShows ==
    ASSUME NEW tab, SentTab(tab), NEW ms, NEW n \in 1..Len(tab), NEW w, TableRight(tab, ms, n, w),
           \A j \in 2..(n - 1) : Bind9p(tab[j]), NEW p \in Route, IsPrefix(Mnt9p, p)
    PROVE  Show(ms, p).tree # "local"
<1>1. ms \in Seq(MountRec) /\ Len(ms) >= 2 /\ ms[1].at = TmpMnt /\ ms[2].at = Local
  BY DEF TableRight
<1>2. \A i \in DOMAIN ms : i # 2 => ms[i].tree # "local"
  BY DEF TableRight, OwnTree
<1>3. IsPrefix(TmpMnt, p) /\ ~IsPrefix(Local, p)
  BY MountPoints
<1>4. 1 \in Over(ms, p) /\ 2 \notin Over(ms, p)
  BY <1>1, <1>3 DEF Over
<1>5. \A k \in Over(ms, p) : ms[k].tree # "local"
  BY <1>2, <1>4 DEF Over
<1>6. QED
  BY <1>1, <1>4, <1>5, ShowTree

(* The paths of a line. *)
LEMMA LineType ==
    ASSUME NEW tab, SentTab(tab), NEW k \in 1..Len(tab)
    PROVE  tab[k].file \in Route /\ tab[k].spec \in Route
<1>1. tab[k] \in FsLine
  BY DEF SentTab
<1>2. QED
  BY <1>1 DEF FsLine

(* What a line shows if its paths are plain. *)
Shown(ms, l) ==
    IF "bind" \in l.opts THEN Show(ms, l.spec)
    ELSE [tree |-> IF l.type = "9p" /\ "port" \in l.opts THEN "client" ELSE "other",
          path |-> << >>]

(* The mount that a line makes. *)
LEMMA LineMount ==
    ASSUME NEW tab, SentTab(tab), NEW ms \in Seq(MountRec), NEW k \in 1..Len(tab),
           NEW m, m = Mount(tab[k].file, Shown(ms, tab[k]))
    PROVE  /\ m \in MountRec /\ m.at = tab[k].file
           /\ "bind" \in tab[k].opts => [tree |-> m.tree, path |-> m.path] = Show(ms, tab[k].spec)
           /\ k = 1 => m.tree = "client" /\ m.path = << >>
<1>1. tab[k].file \in Route /\ tab[k].spec \in Route
  BY LineType
<1>2. PICK v : v = Shown(ms, tab[k])
  OBVIOUS
<1>3. m = [at |-> tab[k].file, tree |-> v.tree, path |-> v.path]
  BY <1>2 DEF Mount
<1>4. m.at = tab[k].file /\ m.tree = v.tree /\ m.path = v.path
  BY <1>3
<1>5. CASE "bind" \in tab[k].opts
  <2>1. v = Show(ms, tab[k].spec)
    BY <1>2, <1>5 DEF Shown
  <2>2. v.tree \in Str /\ v.path \in Route /\ v = [tree |-> v.tree, path |-> v.path]
    BY <1>1, <2>1, ShowType
  <2>3. m \in MountRec
    BY <1>1, <1>3, <2>2 DEF MountRec
  <2>4. k # 1
    BY <1>5 DEF SentTab
  <2>5. QED
    BY <1>4, <2>1, <2>2, <2>3, <2>4
<1>6. CASE "bind" \notin tab[k].opts
  <2>1. PICK t : t = IF tab[k].type = "9p" /\ "port" \in tab[k].opts THEN "client" ELSE "other"
    OBVIOUS
  <2>2. v = [tree |-> t, path |-> << >>]
    BY <1>2, <1>6, <2>1 DEF Shown
  <2>3. v.tree = t /\ v.path = << >>
    BY <2>2
  <2>4. t \in Str
    BY <2>1, Strings
  <2>5. << >> \in Route
    BY EmptySeq DEF Route
  <2>6. m \in MountRec
    BY <1>1, <1>3, <2>3, <2>4, <2>5 DEF MountRec
  <2>7. k = 1 => t = "client"
    BY <2>1 DEF SentTab
  <2>8. QED
    BY <1>4, <1>6, <2>3, <2>6, <2>7
<1>7. QED
  BY <1>5, <1>6

(* A line that is mounted. *)
LEMMA LineMounted ==
    ASSUME NEW tab, SentTab(tab), NEW ms, NEW n \in 1..Len(tab), NEW w,
           TableRight(tab, ms, n, w),
           NEW m, m = Mount(tab[n].file, Shown(ms, tab[n]))
    PROVE  TableRight(tab, Append(ms, m), n + 1, w)
<1> DEFINE r == Append(ms, m)
           up == Up(n, w)
           now == Up(n + 1, w)
<1>1. /\ ms \in Seq(MountRec) /\ Len(ms) \in Nat /\ Len(ms) >= 2
      /\ ms[1].at = TmpMnt /\ ms[2].at = Local
      /\ OwnTree(tab, ms, n) /\ Forwarded(tab, ms, up) /\ Targets(tab, ms, up)
  BY DEF TableRight
<1>2. /\ m \in MountRec /\ m.at = tab[n].file
      /\ "bind" \in tab[n].opts => [tree |-> m.tree, path |-> m.path] = Show(ms, tab[n].spec)
      /\ n = 1 => m.tree = "client" /\ m.path = << >>
  BY <1>1, LineMount
<1>3. /\ r \in Seq(MountRec) /\ Len(r) = Len(ms) + 1 /\ DOMAIN r = 1..(Len(ms) + 1)
      /\ \A i \in 1..Len(ms) : r[i] = ms[i]
      /\ r[Len(ms) + 1] = m
  BY <1>1, <1>2, AppendProperties
<1>0. w \subseteq 1..(n - 1) /\ w \subseteq 1..((n + 1) - 1)
  BY DEF TableRight
<1>4. now = up \cup {n} /\ n \notin up /\ up \subseteq 1..(n - 1) /\ n \in Nat /\ n >= 1
  BY <1>0 DEF Up
<1>5. \A k \in 1..Len(tab) : tab[k].file \in Route /\ tab[k].spec \in Route
  BY LineType
<1>6. \A q \in Route : ~IsPrefix(tab[n].file, q) => Show(r, q) = Show(ms, q)
  BY <1>1, <1>2, ShowOld
<1>7. Len(tab) \in Nat /\ n + 1 \in 1..(Len(tab) + 1)
  BY DEF SentTab
<1>8. Show(r, tab[n].file) = [tree |-> m.tree, path |-> m.path]
  <2>1. PICK f \in Route : f = tab[n].file
    BY <1>5
  <2>2. IsPrefix(f, f) /\ SubSeq(f, Len(f) + 1, Len(f)) = << >>
    BY PrefixSelf
  <2>3. Show(r, f) = [tree |-> m.tree, path |-> m.path \o << >>]
    <3>1. IsPrefix(m.at, f) /\ SubSeq(f, Len(m.at) + 1, Len(f)) = << >>
      BY <1>2, <2>1, <2>2
    <3>2. QED
      BY <1>1, <1>2, <3>1, ShowNew
  <2>4. m.path \o << >> = m.path
    <3>1. m.path \in Route
      BY <1>2 DEF MountRec
    <3>2. QED
      BY <3>1, ConcatEmptySeq DEF Route
  <2>5. QED
    BY <2>1, <2>3, <2>4
<1> HIDE DEF r, up, now
<1>9. OwnTree(tab, r, n + 1)
  <2>1. SUFFICES ASSUME \A j \in 2..n : Bind9p(tab[j]), NEW i \in DOMAIN r, i # 2
                 PROVE  r[i].tree # "local"
    BY <1>4 DEF OwnTree
  <2>2. \A j \in 2..(n - 1) : Bind9p(tab[j])
    BY <1>4, <2>1
  <2>3. CASE i \in 1..Len(ms)
    BY <1>1, <1>3, <2>1, <2>2, <2>3 DEF OwnTree
  <2>4. CASE i = Len(ms) + 1 /\ n = 1
    BY <1>2, <1>3, <2>4
  <2>5. CASE i = Len(ms) + 1 /\ n # 1
    <3>1. n \in 2..n
      BY <1>4, <2>5
    <3>2. "bind" \in tab[n].opts /\ IsPrefix(Mnt9p, tab[n].spec)
      BY <2>1, <3>1 DEF Bind9p
    <3>3. Show(ms, tab[n].spec).tree # "local"
      BY <1>5, <2>2, <3>2, BindShows
    <3>4. QED
      BY <1>2, <1>3, <2>5, <3>2, <3>3
  <2>6. QED
    BY <1>3, <2>3, <2>4, <2>5
<1>10. Forwarded(tab, r, now)
  <2>1. SUFFICES ASSUME 1 \in now, NEW q \in Route, IsPrefix(Mnt9p, q), ~Covers(tab, now \ {1}, q)
                 PROVE  Show(r, q) = FromClient(q)
    BY DEF Forwarded
  <2>2. CASE n = 1
    <3>1. m.at = Mnt9p /\ m.tree = "client" /\ m.path = << >>
      BY <1>2, <2>2 DEF SentTab
    <3>2. Show(r, q) = [tree |-> "client", path |-> << >> \o SubSeq(q, Len(Mnt9p) + 1, Len(q))]
      BY <1>1, <1>2, <2>1, <3>1, ShowNew DEF r
    <3>3. << >> \o SubSeq(q, Len(Mnt9p) + 1, Len(q)) = SubSeq(q, Len(Mnt9p) + 1, Len(q))
      <4>1. Len(Mnt9p) \in Nat /\ Len(q) \in Nat
        BY MountPoints DEF Route
      <4>2. \A i \in (Len(Mnt9p) + 1)..Len(q) : q[i] \in Str
        BY <4>1 DEF Route
      <4>3. SubSeq(q, Len(Mnt9p) + 1, Len(q)) \in Seq(Str)
        BY <4>1, <4>2, SubSeqProperties
      <4>4. QED
        BY <4>3, ConcatEmptySeq
    <3>4. QED
      BY <3>2, <3>3 DEF FromClient
  <2>3. CASE n # 1
    <3>1. 1 \in up /\ n \in now \ {1}
      BY <1>4, <2>1, <2>3
    <3>2. ~IsPrefix(tab[n].file, q) /\ ~Covers(tab, up \ {1}, q)
      BY <1>4, <2>1, <3>1 DEF Covers
    <3>3. QED
      BY <1>1, <1>6, <3>1, <3>2, <2>1 DEF Forwarded
  <2>4. QED
    BY <2>2, <2>3
<1>11. Targets(tab, r, now)
  <2>1. SUFFICES ASSUME NEW k \in now \ {1}, \A j \in 2..k : Bind9p(tab[j]),
                        ~Covers(tab, {j \in now : j > k}, tab[k].file)
                 PROVE  /\ Show(r, tab[k].file).tree # "local"
                        /\ 1 \in now /\ ~Covers(tab, {j \in now : 1 < j /\ j < k}, tab[k].spec) =>
                              Show(r, tab[k].file) = FromClient(tab[k].spec)
    BY DEF Targets
  <2>2. CASE k = n
    <3>1. n # 1 /\ k \in 2..k /\ \A j \in 2..(n - 1) : Bind9p(tab[j])
      BY <1>4, <2>1, <2>2
    <3>2. "bind" \in tab[n].opts /\ IsPrefix(Mnt9p, tab[n].spec)
      BY <2>1, <2>2, <3>1 DEF Bind9p
    <3>3. Show(r, tab[n].file) = Show(ms, tab[n].spec)
      BY <1>2, <1>8, <3>2
    <3>4. Show(ms, tab[n].spec).tree # "local"
      BY <1>5, <3>1, <3>2, BindShows
    <3>5. ASSUME 1 \in now, ~Covers(tab, {j \in now : 1 < j /\ j < n}, tab[n].spec)
          PROVE  Show(ms, tab[n].spec) = FromClient(tab[n].spec)
      <4>1. 1 \in up /\ up \ {1} = {j \in now : 1 < j /\ j < n}
        <5>1. 1 \in up
          BY <1>4, <3>1, <3>5
        <5>2. \A j \in up : j \in Nat /\ j >= 1 /\ j < n
          BY <1>4
        <5>3. ASSUME NEW j \in up, j # 1 PROVE j \in now /\ 1 < j /\ j < n
          BY <1>4, <5>2, <5>3
        <5>4. ASSUME NEW j \in now, 1 < j, j < n PROVE j \in up /\ j # 1
          BY <1>4, <5>4
        <5>5. up \ {1} = {j \in now : 1 < j /\ j < n}
          BY <5>3, <5>4
        <5>6. QED
          BY <5>1, <5>5
      <4>2. QED
        BY <1>1, <1>5, <3>2, <3>5, <4>1 DEF Forwarded
    <3>6. QED
      BY <2>2, <3>3, <3>4, <3>5
  <2>3. CASE k # n
    <3>1. k \in up \ {1} /\ k < n /\ n \in {j \in now : j > k}
      BY <1>4, <2>1, <2>3
    <3>2. ~IsPrefix(tab[n].file, tab[k].file) /\ ~Covers(tab, {j \in up : j > k}, tab[k].file)
      BY <1>4, <2>1, <3>1 DEF Covers
    <3>3. k \in 1..Len(tab)
      BY <1>4, <1>7, <3>1
    <3>4. Show(r, tab[k].file) = Show(ms, tab[k].file)
      BY <1>5, <1>6, <3>2, <3>3
    <3>5. {j \in now : 1 < j /\ j < k} = {j \in up : 1 < j /\ j < k}
      BY <1>4, <3>1
    <3>6. 1 \in now => 1 \in up
      BY <1>4, <3>1
    <3>7. QED
      BY <1>1, <2>1, <3>1, <3>2, <3>4, <3>5, <3>6 DEF Targets
  <2>4. QED
    BY <2>2, <2>3
<1>12. Len(r) >= 2 /\ r[1].at = TmpMnt /\ r[2].at = Local
  BY <1>1, <1>3
<1>13. QED
  BY <1>0, <1>3, <1>7, <1>9, <1>10, <1>11, <1>12 DEF TableRight, r, now

(* The same as long as the paths are straight: a mount is then where its   *)
(* line says, and of what it says. *)
TableOK(tab, ms, n, w) ==
    /\ n \in 1..(Len(tab) + 1) /\ w \subseteq 1..(n - 1)
    /\ Straight(tab, Up(n, w)) => TableRight(tab, ms, n, w)

LEMMA SkipOK ==
    ASSUME NEW tab, SentTab(tab), NEW ms, NEW n \in 1..Len(tab), NEW w, TableOK(tab, ms, n, w)
    PROVE  TableOK(tab, ms, n + 1, w \cup {n})
<1>1. Len(tab) \in Nat /\ n + 1 \in 1..(Len(tab) + 1)
  BY DEF SentTab
<1>2. Up(n + 1, w \cup {n}) = Up(n, w) /\ w \cup {n} \subseteq 1..((n + 1) - 1)
  BY <1>1 DEF Up, TableOK
<1>3. Straight(tab, Up(n, w)) => TableRight(tab, ms, n + 1, w \cup {n})
  BY LineSkipped DEF TableOK
<1>4. QED
  BY <1>1, <1>2, <1>3 DEF TableOK

LEMMA LineOK ==
    ASSUME NEW tab, SentTab(tab), NEW ms, NEW n \in 1..Len(tab), NEW w,
           TableOK(tab, ms, n, w),
           NEW at \in Places(ms, tab[n].file), NEW v \in LineShows(ms, tab[n]),
           NEW m, m = Mount(at, v)
    PROVE  TableOK(tab, Append(ms, m), n + 1, w)
<1>1. /\ Len(tab) \in Nat /\ n + 1 \in 1..(Len(tab) + 1) /\ w \subseteq 1..((n + 1) - 1)
      /\ w \subseteq 1..(n - 1)
  BY DEF SentTab, TableOK
<1>2. ASSUME Straight(tab, Up(n + 1, w)) PROVE TableRight(tab, Append(ms, m), n + 1, w)
  <2>1. Up(n, w) \subseteq Up(n + 1, w) /\ n \in Up(n + 1, w)
    BY <1>1 DEF Up
  <2>2. /\ Straight(tab, Up(n, w)) /\ Plain(tab[n].file)
        /\ "bind" \in tab[n].opts => Plain(tab[n].spec)
    <3>1. /\ Plain(Local)
          /\ \A k \in Up(n + 1, w) :
                Plain(tab[k].file) /\ ("bind" \in tab[k].opts => Plain(tab[k].spec))
      BY <1>2 DEF Straight
    <3>2. Straight(tab, Up(n, w))
      BY <2>1, <3>1 DEF Straight
    <3>3. PICK k \in Up(n + 1, w) : k = n
      BY <2>1
    <3>4. Plain(tab[k].file) /\ ("bind" \in tab[k].opts => Plain(tab[k].spec))
      BY <3>1
    <3>5. QED
      BY <3>2, <3>3, <3>4
  <2>3. TableRight(tab, ms, n, w)
    BY <2>2 DEF TableOK
  <2>4. tab[n].file \in Route /\ tab[n].spec \in Route
    BY LineType
  <2>5. at = tab[n].file
    BY <2>2, <2>4, PlainPlaces
  <2>6. v = Shown(ms, tab[n])
    <3>1. CASE "bind" \in tab[n].opts
      <4>1. Places(ms, tab[n].spec) \subseteq {tab[n].spec}
        BY <2>2, <2>4, <3>1, PlainPlaces
      <4>2. QED
        BY <3>1, <4>1 DEF LineShows, Shown
    <3>2. CASE "bind" \notin tab[n].opts
      BY <3>2 DEF LineShows, Shown
    <3>3. QED
      BY <3>1, <3>2
  <2>7. QED
    BY <2>3, <2>5, <2>6, LineMounted
<1>3. QED
  BY <1>1, <1>2 DEF TableOK

-----------------------------------------------------------------------------
(* The command, as p9cpu makes it and as the server sends it.              *)

(* The arguments of a call, as ArgsAssumption has them. *)
FileLine == [comment: BOOLEAN, fields: Nat, numbers: BOOLEAN, tab: FsTab]
ArgsOK(a) ==
    /\ a.namespace \in Seq(Seq(Path) \ {<< >>})
    /\ a.lines \in Seq(FileLine)

MadeTab(tab) == tab \in Seq(FsLine) /\ tab # << >> /\ tab[1] = NinepLine

LEMMA NinepType == NinepLine \in FsLine
<1>1. "" \in Str /\ "9p" \in Str
  BY DEF Str
<1>2. <<"">> \in Route
  <2>1. \A x \in Str : <<x>> \in Seq(Str)
    OBVIOUS
  <2>2. QED
    BY <1>1, <2>1, Zenon DEF Route
<1>3. QED
  BY <1>1, <1>2, MountPoints DEF NinepLine, Line, FsLine, Empty

LEMMA BindType ==
    ASSUME NEW part \in Seq(Path) \ {<< >>}
    PROVE  BindLine(part) \in FsLine /\ part[1] \in Route
<1>1. Len(part) \in 1..Len(part) /\ 1 \in 1..Len(part)
  BY EmptySeq
<1>2. part[1] \in Route /\ part[Len(part)] \in Route
  <2>1. part[1] \in Path /\ part[Len(part)] \in Path
    BY <1>1
  <2>2. QED
    BY <2>1, Strings
<1>3. PICK b : b = IF part[Len(part)] = Empty THEN << >> ELSE part[Len(part)]
  OBVIOUS
<1>4. b \in Route
  BY <1>2, <1>3, EmptySeq DEF Route
<1>5. PICK spec : spec = Mnt9p \o b
  OBVIOUS
<1>6. spec \in Route
  BY <1>4, <1>5, MountPoints, ConcatProperties DEF Route
<1>7. "none" \in Str /\ {"defaults", "bind"} \in SUBSET Str
  BY DEF Str
<1>8. BindLine(part) = [spec |-> spec, file |-> part[1], type |-> "none",
                        opts |-> {"defaults", "bind"}]
  BY <1>3, <1>5 DEF BindLine, Line
<1>9. QED
  BY <1>2, <1>6, <1>7, <1>8 DEF FsLine

(* A turn of the loop of parse_namespace. *)
LEMMA AddPartType ==
    ASSUME NEW tab, MadeTab(tab), NEW part \in Seq(Path) \ {<< >>}
    PROVE  MadeTab(AddPart(tab, part))
<1>1. CASE AddPart(tab, part) = tab
  BY <1>1
<1>2. CASE AddPart(tab, part) = Append(tab, BindLine(part))
  <2>1. tab \in Seq(FsLine) /\ BindLine(part) \in FsLine /\ 1 \in 1..Len(tab)
    BY BindType, EmptySeq DEF MadeTab
  <2>2. QED
    BY <1>2, <2>1, AppendProperties DEF MadeTab
<1>3. QED
  BY <1>1, <1>2 DEF AddPart

(* The recursion over the parts has a solution. *)
LEMMA TurnsDef ==
    ASSUME NEW p, Len(p) \in Nat
    PROVE  /\ Turns(p)[0] = <<NinepLine>>
           /\ \A k \in 1..Len(p) : Turns(p)[k] = AddPart(Turns(p)[k - 1], p[k])
<1> DEFINE n == Len(p)
           At0(w, k) == IF k = 0 THEN <<NinepLine>> ELSE AddPart(w[k - 1], p[k])
           Good(w, m) == w = [k \in 0..m |-> At0(w, k)]
           S == {m \in 0..n : \E w : Good(w, m)}
<1>1. 0 \in S
  <2> DEFINE v == [k \in 0..0 |-> <<NinepLine>>]
  <2>1. Good(v, 0)
    OBVIOUS
  <2> HIDE DEF v, Good
  <2>2. (\E w : Good(w, 0)) /\ 0 \in 0..n
    BY <2>1
  <2>3. QED
    BY <2>2
<1>2. ASSUME NEW m \in 0..n, m + 1 \in 0..n, m \in S
      PROVE  m + 1 \in S
  <2>1. PICK w : Good(w, m)
    BY <1>2
  <2> DEFINE v == [k \in 0..(m + 1) |-> IF k <= m THEN w[k] ELSE AddPart(w[m], p[m + 1])]
  <2>2. ASSUME NEW k \in 0..(m + 1) PROVE v[k] = At0(v, k)
    <3>1. CASE k = 0
      BY <2>1, <3>1
    <3>2. CASE k \in 1..m
      <4>1. v[k] = w[k] /\ v[k - 1] = w[k - 1] /\ w[k] = At0(w, k)
        BY <2>1, <3>2
      <4>2. QED
        BY <4>1, <3>2
    <3>3. CASE k = m + 1
      <4>1. v[k] = AddPart(w[m], p[m + 1]) /\ v[k - 1] = w[m]
        BY <3>3
      <4>2. QED
        BY <4>1, <3>3
    <3>4. QED
      BY <3>1, <3>2, <3>3
  <2>3. Good(v, m + 1)
    BY <2>2
  <2>4. QED
    BY <2>3, <1>2
<1>3. n \in S
  <2>1. n \in Nat /\ n \in 0..n
    OBVIOUS
  <2> HIDE DEF S, n
  <2>2. QED
    BY <1>1, <1>2, <2>1, Climb
<1>4. \E w : Good(w, n)
  BY <1>3
<1>5. Turns(p) = CHOOSE w : Good(w, n)
  BY DEF Turns
<1>6. Good(Turns(p), n)
  BY <1>4, <1>5
<1>7. QED
  BY <1>6

LEMMA TurnsType ==
    ASSUME NEW p \in Seq(Seq(Path) \ {<< >>})
    PROVE  \A k \in 0..Len(p) : MadeTab(Turns(p)[k])
<1> DEFINE S == {k \in 0..Len(p) : MadeTab(Turns(p)[k])}
<1>0. Len(p) \in Nat
  OBVIOUS
<1>1. 0 \in S
  <2>1. MadeTab(<<NinepLine>>)
    BY NinepType DEF MadeTab
  <2>2. Turns(p)[0] = <<NinepLine>>
    BY <1>0, TurnsDef
  <2>3. MadeTab(Turns(p)[0])
    BY ONLY <2>1, <2>2
  <2>4. 0 \in 0..Len(p)
    BY <1>0
  <2>5. QED
    BY <2>3, <2>4
<1>2. ASSUME NEW k \in 0..Len(p), k + 1 \in 0..Len(p), k \in S
      PROVE  k + 1 \in S
  <2>1. k + 1 \in 1..Len(p) /\ (k + 1) - 1 = k
    BY <1>0, <1>2
  <2>2. Turns(p)[k + 1] = AddPart(Turns(p)[k], p[k + 1])
    BY <1>0, <2>1, TurnsDef
  <2>3. p[k + 1] \in Seq(Path) \ {<< >>}
    BY <2>1
  <2>4. QED
    BY <1>2, <2>2, <2>3, AddPartType
<1>3. 0..Len(p) \subseteq S
  BY <1>0, <1>1, <1>2, Climb
<1>4. QED
  BY <1>3

(* The lines of the fstab file. *)
LEMMA FileType ==
    ASSUME NEW ls \in Seq(FileLine)
    PROVE  FileLines(ls) \in Seq(FsLine)
<1> DEFINE q == [k \in DOMAIN ls |-> IF ls[k].comment THEN << >> ELSE <<ls[k].tab>>]
<1>1. DOMAIN ls = 1..Len(ls) /\ Len(ls) \in Nat
  OBVIOUS
<1>2. ASSUME NEW k \in 1..Len(ls) PROVE q[k] \in Seq(FsLine)
  <2>1. ls[k] \in FileLine
    OBVIOUS
  <2>2. ls[k].tab \in FsTab
    BY <2>1 DEF FileLine
  <2>3. \A o \in SUBSET STRING : o \in SUBSET Str
    BY Strings
  <2>4. ls[k].tab \in FsLine
    BY <2>2, <2>3, Strings DEF FsTab, FsLine
  <2>5. << >> \in Seq(FsLine) /\ <<ls[k].tab>> \in Seq(FsLine)
    BY <2>4
  <2>6. QED
    BY <1>1, <2>5
<1>3. q \in Seq(Seq(FsLine))
  BY <1>1, <1>2
<1> HIDE DEF q
<1>4. FlattenSeq(q) \in Seq(FsLine)
  BY <1>3, FlattenType
<1>5. QED
  BY <1>4 DEF FileLines, q

(* What app sends to the server. *)
IsCommand(c) == c = [ninep |-> c.ninep, fstab |-> c.fstab, tty |-> c.tty,
                     uid |-> c.uid, gid |-> c.gid]
MadeCmd(c) == IsCommand(c) /\ (c.ninep => MadeTab(c.fstab))
SentCmd(c) == c.ninep => SentTab(c.fstab)

LEMMA CommandMade ==
    ASSUME NEW a, ArgsOK(a)
    PROVE  MadeCmd(MakeCmd(a))
<1>1. PICK tab : tab = ParseNamespace(a.namespace)
  OBVIOUS
<1>2. PICK fs : fs = FileLines(a.lines)
  OBVIOUS
<1>3. fs \in Seq(FsLine)
  BY <1>2, FileType DEF ArgsOK
<1>4. tab = << >> \/ MadeTab(tab)
  <2>1. PICK p \in Seq(Seq(Path) \ {<< >>}) : p = a.namespace
    BY DEF ArgsOK
  <2>2. MadeTab(Turns(p)[Len(p)])
    <3>1. Len(p) \in 0..Len(p)
      OBVIOUS
    <3>2. QED
      BY <3>1, TurnsType
  <2>3. QED
    BY <1>1, <2>1, <2>2 DEF ParseNamespace
<1>5. MakeCmd(a) = [ninep |-> tab # << >>, fstab |-> tab \o fs, tty |-> a.tty,
                    uid |-> a.uid, gid |-> a.gid]
  BY <1>1, <1>2 DEF MakeCmd
<1>6. ASSUME MadeTab(tab) PROVE MadeTab(tab \o fs)
  <2>1. /\ tab \in Seq(FsLine) /\ tab[1] = NinepLine
        /\ Len(tab) \in Nat /\ Len(tab) >= 1 /\ Len(fs) \in Nat
    BY <1>3, <1>6, EmptySeq DEF MadeTab
  <2>2. tab \o fs \in Seq(FsLine) /\ Len(tab \o fs) = Len(tab) + Len(fs) /\ (tab \o fs)[1] = tab[1]
    <3>1. 1 \in 1..(Len(tab) + Len(fs))
      BY <2>1
    <3>2. QED
      BY <1>3, <2>1, <3>1, ConcatProperties
  <2>3. tab \o fs # << >>
    <3>1. Len(tab \o fs) # 0
      BY <2>1, <2>2
    <3>2. QED
      BY <3>1, EmptySeq
  <2>4. QED
    BY <2>1, <2>2, <2>3 DEF MadeTab
<1>7. PICK c : c = MakeCmd(a)
  OBVIOUS
<1>8. c.ninep = (tab # << >>) /\ c.fstab = tab \o fs /\ IsCommand(c)
  BY <1>5, <1>7 DEF IsCommand
<1>9. QED
  BY <1>4, <1>6, <1>7, <1>8 DEF MadeCmd

(* What the server sends on to the launcher. *)
LEMMA CommandSent ==
    ASSUME NEW c, MadeCmd(c)
    PROVE  SentCmd(Patched(c))
<1> DEFINE T == {i \in 1..Len(c.fstab) : c.fstab[i].type = "9p" /\ c.fstab[i].file = Mnt9p}
<1>1. CASE ~c.ninep
  BY <1>1 DEF Patched, SentCmd
<1>2. CASE c.ninep
  <2>1. PICK tab : tab = c.fstab
    OBVIOUS
  <2>2. MadeTab(tab) /\ tab \in Seq(FsLine) /\ tab # << >> /\ tab[1] = NinepLine
    BY <1>2, <2>1 DEF MadeCmd, MadeTab
  <2>3. Len(tab) \in Nat /\ 1 \in 1..Len(tab)
    BY <2>2, EmptySeq
  <2>4. NinepLine.type = "9p" /\ NinepLine.file = Mnt9p
    BY DEF NinepLine, Line
  <2>5. 1 \in T /\ \A i \in T : i \in Nat /\ 1 <= i
    BY <2>1, <2>2, <2>3, <2>4
  <2> HIDE DEF T
  <2>6. Min(T) = 1
    <3>1. Min(T) \in T /\ \A y \in T : Min(T) <= y
      BY <2>5 DEF Min
    <3>2. QED
      BY <2>5, <3>1
  <2>7. SelectInSeq(c.fstab, LAMBDA l : l.type = "9p" /\ l.file = Mnt9p) = 1
    BY <2>5, <2>6 DEF SelectInSeq, T
  <2>8. PICK l : l = [tab[1] EXCEPT !.spec = <<"127.0.0.1">>, !.opts = {"port"}]
    OBVIOUS
  <2>9. PICK d : d = [tab EXCEPT ![1] = l]
    OBVIOUS
  <2>10. Patched(c) = [c EXCEPT !.fstab = d]
    <3>1. PICK k : k = SelectInSeq(c.fstab, LAMBDA x : x.type = "9p" /\ x.file = Mnt9p)
      OBVIOUS
    <3>2. Patched(c) = IF ~c.ninep \/ k = 0 THEN c
                       ELSE [c EXCEPT !.fstab[k] = [@ EXCEPT !.spec = <<"127.0.0.1">>,
                                                              !.opts = {"port"}]]
      BY <3>1 DEF Patched
    <3>3. k = 1
      BY <2>7, <3>1
    <3>4. Patched(c) = [c EXCEPT !.fstab[1] = [@ EXCEPT !.spec = <<"127.0.0.1">>,
                                                        !.opts = {"port"}]]
      BY <1>2, <3>2, <3>3
    <3>5. QED
      BY <2>1, <2>8, <2>9, <3>4
  <2>11. Patched(c).fstab = d
    BY <2>10 DEF MadeCmd, IsCommand
  <2>12. l = [spec |-> <<"127.0.0.1">>, file |-> Mnt9p, type |-> "9p", opts |-> {"port"}]
    <3>1. tab[1] = [spec |-> Empty, file |-> Mnt9p, type |-> "9p", opts |-> {}]
      BY <2>2 DEF NinepLine, Line
    <3>2. PICK e : e = [tab[1] EXCEPT !.spec = <<"127.0.0.1">>]
      OBVIOUS
    <3>3. e = [spec |-> <<"127.0.0.1">>, file |-> Mnt9p, type |-> "9p", opts |-> {}]
      BY <3>1, <3>2
    <3>4. l = [e EXCEPT !.opts = {"port"}]
      BY <2>8, <3>2
    <3>5. QED
      BY <3>3, <3>4
  <2>13. l \in FsLine
    <3>1. "127.0.0.1" \in Str /\ "9p" \in Str /\ {"port"} \in SUBSET Str
      BY DEF Str
    <3>2. <<"127.0.0.1">> \in Route
      BY <3>1 DEF Route
    <3>3. QED
      BY <2>12, <3>1, <3>2, MountPoints DEF FsLine
  <2>14. d \in Seq(FsLine) /\ d[1] = l /\ Len(d) = Len(tab)
    BY <2>2, <2>3, <2>9, <2>13
  <2>15. d # << >>
    BY <2>3, <2>14, EmptySeq
  <2>16. SentTab(d)
    BY <2>12, <2>14, <2>15 DEF SentTab
  <2>17. QED
    BY <2>11, <2>16 DEF SentCmd
<1>3. QED
  BY <1>1, <1>2

-----------------------------------------------------------------------------
(* The invariant about the mounts.                                         *)

Later == {"args", "tty", "gid", "uid", "exec", "running"}

MountsOK(p) ==
    /\ p.cmd # NoCmd => SentCmd(p.cmd)
    /\ p.pc \in {"none", "unshare", "connect", "read", "private", "tmp"} => p.mounts = << >>
    /\ p.pc = "local" /\ Plain(Local) => p.mounts = <<TmpMount>>
    /\ p.pc \in {"private", "tmp", "local"} => p.line = 1 /\ p.warned = {}
    /\ p.pc \in {"fstab"} \cup Later /\ p.cmd.ninep =>
          TableOK(p.cmd.fstab, p.mounts, p.line, p.warned)
    /\ p.pc \in Later /\ p.cmd.ninep => p.line = Len(p.cmd.fstab) + 1

MountInv ==
    /\ \A a \in plan.args : ArgsOK(a)
    /\ client.pc \in {"dial"} \cup StartPcs => MadeCmd(client.cmd)
    /\ \A s \in Sids : MountsOK(proc[s])

(* The steps that go on without a mount keep what is mounted. *)
LEMMA DoesFields ==
    ASSUME LaunchersInv, NEW s \in Sids, NEW q, IsProcess(q), Does(s, q)
    PROVE  /\ proc'[s].pc = NextPc(s) /\ proc'[s].cmd = q.cmd /\ proc'[s].mounts = q.mounts
           /\ proc'[s].line = q.line /\ proc'[s].warned = q.warned
<1>1. PICK p : p = [q EXCEPT !.pc = NextPc(s)]
  OBVIOUS
<1>2. Goes(s, p)
  BY <1>1 DEF Does
<1>3. p = Process(NextPc(s), q.conn, q.ns, q.cmd, q.mounts, q.made,
                  q.line, q.warned, q.uid, q.gid, q.ctty, q.why)
  BY <1>1, ProcessUpdate
<1>4. proc'[s] = p
  BY <1>2, GoesOne
<1>5. QED
  BY <1>3, <1>4 DEF Process

SameMounts(s) ==
    /\ proc'[s].pc = NextPc(s) /\ proc'[s].cmd = proc[s].cmd
    /\ proc'[s].mounts = proc[s].mounts
    /\ proc'[s].line = proc[s].line /\ proc'[s].warned = proc[s].warned

LEMMA DoesSame ==
    ASSUME LaunchersInv, NEW s \in Sids, NEW l,
           \/ Unshare(s) \/ Connect(s, l) \/ ReadCmd(s) \/ MakePrivate(s)
           \/ LinesDone(s) \/ MakeArgs(s) \/ TakeTty(s)
           \/ SetGid(s) \/ SetUid(s) \/ Exec(s)
    PROVE  SameMounts(s)
<1> DEFINE p == proc[s]
<1>1. LauncherOK(p) /\ IsProcess(p)
  BY DEF LaunchersInv, LauncherOK
<1>2. p.pc \in {"gid", "uid"} => p.uid = 0
  BY <1>1 DEF LauncherOK
<1>3. \/ Does(s, p)
      \/ \E v : \/ Does(s, [p EXCEPT !.ns = v]) \/ Does(s, [p EXCEPT !.conn = v])
                \/ Does(s, [p EXCEPT !.ctty = v]) \/ Does(s, [p EXCEPT !.gid = v])
                \/ Does(s, [p EXCEPT !.uid = v])
  BY <1>2 DEF Unshare, Connect, ReadCmd, MakePrivate, LinesDone, MakeArgs, TakeTty,
              SetGid, SetUid, Exec
<1> HIDE DEF p
<1>4. PICK q : /\ Does(s, q) /\ IsProcess(q) /\ q.cmd = p.cmd /\ q.mounts = p.mounts
               /\ q.line = p.line /\ q.warned = p.warned
  <2>1. CASE Does(s, p)
    BY <1>1, <2>1
  <2>2. ASSUME NEW v, NEW q,
               \/ q = [p EXCEPT !.ns = v] \/ q = [p EXCEPT !.conn = v]
               \/ q = [p EXCEPT !.ctty = v] \/ q = [p EXCEPT !.gid = v]
               \/ q = [p EXCEPT !.uid = v]
        PROVE  /\ IsProcess(q) /\ q.cmd = p.cmd /\ q.mounts = p.mounts
               /\ q.line = p.line /\ q.warned = p.warned
    <3>1. CASE q = [p EXCEPT !.ns = v]
      <4>1. q = Process(p.pc, p.conn, v, p.cmd, p.mounts, p.made, p.line, p.warned,
                        p.uid, p.gid, p.ctty, p.why)
        BY <1>1, <3>1, ProcessUpdate
      <4>2. QED
        BY <4>1 DEF Process, IsProcess
    <3>2. CASE q = [p EXCEPT !.conn = v]
      <4>1. q = Process(p.pc, v, p.ns, p.cmd, p.mounts, p.made, p.line, p.warned,
                        p.uid, p.gid, p.ctty, p.why)
        BY <1>1, <3>2, ProcessUpdate
      <4>2. QED
        BY <4>1 DEF Process, IsProcess
    <3>3. CASE q = [p EXCEPT !.ctty = v]
      <4>1. q = Process(p.pc, p.conn, p.ns, p.cmd, p.mounts, p.made, p.line, p.warned,
                        p.uid, p.gid, v, p.why)
        BY <1>1, <3>3, ProcessUpdate
      <4>2. QED
        BY <4>1 DEF Process, IsProcess
    <3>4. CASE q = [p EXCEPT !.gid = v]
      <4>1. q = Process(p.pc, p.conn, p.ns, p.cmd, p.mounts, p.made, p.line, p.warned,
                        p.uid, v, p.ctty, p.why)
        BY <1>1, <3>4, ProcessUpdate
      <4>2. QED
        BY <4>1 DEF Process, IsProcess
    <3>5. CASE q = [p EXCEPT !.uid = v]
      <4>1. q = Process(p.pc, p.conn, p.ns, p.cmd, p.mounts, p.made, p.line, p.warned,
                        v, p.gid, p.ctty, p.why)
        BY <1>1, <3>5, ProcessUpdate
      <4>2. QED
        BY <4>1 DEF Process, IsProcess
    <3>6. QED
      BY <2>2, <3>1, <3>2, <3>3, <3>4, <3>5
  <2>3. QED
    BY <1>3, <2>1, <2>2
<1>5. QED
  BY <1>4, DoesFields DEF SameMounts, p

LEMMA DoesKeeps ==
    ASSUME LaunchersInv, NEW s \in Sids, NEW l, MountsOK(proc[s]),
           \/ Unshare(s) \/ Connect(s, l) \/ ReadCmd(s) \/ MakePrivate(s)
           \/ LinesDone(s) \/ MakeArgs(s) \/ TakeTty(s)
           \/ SetGid(s) \/ SetUid(s) \/ Exec(s)
    PROVE  MountsOK(proc'[s])
<1>1. PICK p : p = proc[s]
  OBVIOUS
<1>2. PICK q : q = proc'[s]
  OBVIOUS
<1>3. /\ q.pc = NextPc(s) /\ q.cmd = p.cmd /\ q.mounts = p.mounts
      /\ q.line = p.line /\ q.warned = p.warned
  BY <1>1, <1>2, DoesSame DEF SameMounts
<1>4. LauncherOK(p) /\ MountsOK(p)
  BY <1>1 DEF LaunchersInv
<1>5. CASE Unshare(s) \/ Connect(s, l) \/ ReadCmd(s) \/ MakePrivate(s)
  <2>1. \/ p.pc = "unshare" /\ q.pc = "connect"
        \/ p.pc = "connect" /\ q.pc = "read"
        \/ p.pc = "read" /\ q.pc = "private"
        \/ p.pc = "private" /\ q.pc = "tmp"
    BY <1>1, <1>3, <1>5, NextStep DEF Unshare, Connect, ReadCmd, MakePrivate
  <2>2. p.pc = "read" => p.line = 1 /\ p.warned = {}
    BY <1>4 DEF LauncherOK, Early
  <2>3. QED
    BY <1>2, <1>3, <1>4, <2>1, <2>2 DEF MountsOK, Later
<1>6. CASE LinesDone(s)
  <2>1. p.pc = "fstab" /\ p.line \notin DOMAIN p.cmd.fstab /\ q.pc = "args" /\ p.cmd # NoCmd
    BY <1>1, <1>3, <1>4, <1>6, NextStep DEF LinesDone, LauncherOK, Early
  <2>2. ASSUME p.cmd.ninep
        PROVE  /\ TableOK(p.cmd.fstab, p.mounts, p.line, p.warned)
               /\ p.line = Len(p.cmd.fstab) + 1
    <3>1. TableOK(p.cmd.fstab, p.mounts, p.line, p.warned) /\ SentTab(p.cmd.fstab)
      BY <1>4, <2>1, <2>2 DEF MountsOK, SentCmd
    <3>2. /\ DOMAIN p.cmd.fstab = 1..Len(p.cmd.fstab) /\ Len(p.cmd.fstab) \in Nat
          /\ p.line \in 1..(Len(p.cmd.fstab) + 1)
      BY <3>1 DEF SentTab, TableOK
    <3>3. QED
      BY <2>1, <3>1, <3>2
  <2>3. QED
    BY <1>2, <1>3, <1>4, <2>1, <2>2 DEF MountsOK, Later
<1>7. CASE MakeArgs(s) \/ TakeTty(s) \/ SetGid(s) \/ SetUid(s) \/ Exec(s)
  <2>1. p.pc \in Later /\ q.pc \in Later
    BY <1>1, <1>3, <1>7, NextStep DEF MakeArgs, TakeTty, SetGid, SetUid, Exec, Later
  <2>2. QED
    BY <1>2, <1>3, <1>4, <2>1 DEF MountsOK, Later
<1>8. QED
  BY <1>5, <1>6, <1>7

(* A mount, field by field. *)
LEMMA MountedFields ==
    ASSUME LaunchersInv, NEW s \in Sids, NEW q, IsProcess(q), NEW m, Mounted(s, m, q)
    PROVE  /\ proc'[s].pc = q.pc /\ proc'[s].cmd = q.cmd
           /\ proc'[s].mounts = Append(q.mounts, m)
           /\ proc'[s].line = q.line /\ proc'[s].warned = q.warned
<1>1. PICK p : p = [q EXCEPT !.mounts = Append(q.mounts, m)]
  OBVIOUS
<1>2. Goes(s, p)
  BY <1>1 DEF Mounted
<1>3. p = Process(q.pc, q.conn, q.ns, q.cmd, Append(q.mounts, m), q.made,
                  q.line, q.warned, q.uid, q.gid, q.ctty, q.why)
  BY <1>1, ProcessUpdate
<1>4. proc'[s] = p
  BY <1>2, GoesOne
<1>5. QED
  BY <1>3, <1>4 DEF Process

(* A sequence of two items. *)
LEMMA Two ==
    ASSUME NEW a, NEW b
    PROVE  Append(<<a>>, b) = <<a, b>>
<1>1. <<a>> \in Seq({a, b}) /\ <<a, b>> \in Seq({a, b}) /\ b \in {a, b}
  OBVIOUS
<1>2. Len(<<a>>) = 1 /\ <<a>>[1] = a /\ Len(<<a, b>>) = 2 /\ <<a, b>>[1] = a /\ <<a, b>>[2] = b
  OBVIOUS
<1>3. /\ Append(<<a>>, b) \in Seq({a, b}) /\ Len(Append(<<a>>, b)) = 2
      /\ Append(<<a>>, b)[1] = a /\ Append(<<a>>, b)[2] = b
  BY <1>1, <1>2, AppendProperties
<1>4. \A i \in 1..2 : i = 1 \/ i = 2
  OBVIOUS
<1>5. \A i \in 1..2 : Append(<<a>>, b)[i] = <<a, b>>[i]
  BY <1>2, <1>3, <1>4
<1>6. QED
  BY <1>1, <1>2, <1>3, <1>5, SeqEqual

(* The tmpfs and the server's root. *)
LEMMA PlainTmp == Plain(Local) => Plain(TmpMnt)
<1>1. TmpMnt \in Seq(Str) /\ "local" \in Str
  BY TmpAssumption, Strings DEF Path, Route
<1>2. /\ Len(TmpMnt) \in Nat /\ DOMAIN TmpMnt = 1..Len(TmpMnt)
      /\ DOMAIN Local = 1..(Len(TmpMnt) + 1)
      /\ \A k \in 1..Len(TmpMnt) : Local[k] = TmpMnt[k]
  BY <1>1, AppendProperties DEF Local
<1>3. QED
  BY <1>2 DEF Plain

LEMMA RootsKeep ==
    ASSUME LaunchersInv, NEW s \in Sids, MountsOK(proc[s]), MountTmp(s) \/ MountLocal(s)
    PROVE  MountsOK(proc'[s])
<1>1. PICK p : p = proc[s]
  OBVIOUS
<1>2. PICK r : r = proc'[s]
  OBVIOUS
<1>3. LauncherOK(p) /\ IsProcess(p) /\ MountsOK(p)
  BY <1>1 DEF LaunchersInv, LauncherOK
<1>4. CASE MountTmp(s)
  <2>1. PICK at \in Places(p.mounts, TmpMnt) :
          /\ p.pc = "tmp" /\ NextPc(s) = "local"
          /\ Mounted(s, [at |-> at, tree |-> "tmpfs", path |-> << >>],
                     [p EXCEPT !.pc = NextPc(s), !.made = {<< >>}])
    BY <1>1, <1>4, NextStep DEF MountTmp
  <2>2. PICK q : q = [p EXCEPT !.pc = "local", !.made = {<< >>}]
    OBVIOUS
  <2>9. PICK m : m = [at |-> at, tree |-> "tmpfs", path |-> << >>]
    OBVIOUS
  <2>3. q = Process("local", p.conn, p.ns, p.cmd, p.mounts, {<< >>}, p.line, p.warned,
                    p.uid, p.gid, p.ctty, p.why)
    BY <1>3, <2>2, ProcessUpdates
  <2>4. /\ IsProcess(q) /\ q.pc = "local" /\ q.cmd = p.cmd /\ q.mounts = p.mounts
        /\ q.line = p.line /\ q.warned = p.warned
    BY <2>3 DEF Process, IsProcess
  <2>5. Mounted(s, m, q)
    BY <2>1, <2>2, <2>9
  <2>6. /\ r.pc = "local" /\ r.cmd = p.cmd /\ r.mounts = Append(p.mounts, m)
        /\ r.line = p.line /\ r.warned = p.warned
    BY <1>2, <2>4, <2>5, MountedFields
  <2>7. Plain(Local) => Append(p.mounts, m) = <<TmpMount>>
    <3>1. p.mounts = << >>
      BY <1>3, <2>1 DEF MountsOK
    <3>2. Append(<< >>, TmpMount) = <<TmpMount>>
      OBVIOUS
    <3>3. Plain(Local) => at = TmpMnt
      BY PlainTmp, PlainPlaces, MountPoints
    <3>4. QED
      BY <2>9, <3>1, <3>2, <3>3 DEF TmpMount
  <2>8. QED
    BY <1>2, <1>3, <2>1, <2>6, <2>7 DEF MountsOK, Later
<1>5. CASE MountLocal(s)
  <2>1. PICK at \in Places(p.mounts, Local) :
          /\ p.pc = "local" /\ NextPc(s) = "fstab" /\ p.cmd # NoCmd
          /\ Mounted(s, Mount(at, Show(p.mounts, << >>)),
                     [p EXCEPT !.pc = NextPc(s), !.made = MadeBy(s, Local)])
    BY <1>1, <1>3, <1>5, NextStep DEF MountLocal, LauncherOK, Early
  <2>2. PICK made : made = MadeBy(s, Local)
    OBVIOUS
  <2>3. PICK q : q = [p EXCEPT !.pc = "fstab", !.made = made]
    OBVIOUS
  <2>12. PICK m : m = Mount(at, Show(p.mounts, << >>))
    OBVIOUS
  <2>4. q = Process("fstab", p.conn, p.ns, p.cmd, p.mounts, made, p.line, p.warned,
                    p.uid, p.gid, p.ctty, p.why)
    BY <1>3, <2>3, ProcessUpdates
  <2>5. /\ IsProcess(q) /\ q.pc = "fstab" /\ q.cmd = p.cmd /\ q.mounts = p.mounts
        /\ q.line = p.line /\ q.warned = p.warned
    BY <2>4 DEF Process, IsProcess
  <2>6. Mounted(s, m, q)
    BY <2>1, <2>2, <2>3, <2>12
  <2>7. ASSUME Plain(Local) PROVE p.mounts = <<TmpMount>> /\ m = LocalMount
    <3>1. p.mounts = <<TmpMount>>
      BY <1>3, <2>1, <2>7 DEF MountsOK
    <3>2. {k \in DOMAIN <<TmpMount>> : IsPrefix(<<TmpMount>>[k].at, << >>)} = {}
      <4>1. DOMAIN <<TmpMount>> = {1} /\ <<TmpMount>>[1].at = TmpMnt
        BY DEF TmpMount
      <4>2. QED
        BY <4>1, MountPoints
    <3>3. Show(<<TmpMount>>, << >>) = [tree |-> "local", path |-> << >>]
      BY <3>2 DEF Show
    <3>4. at = Local
      BY <2>7, PlainPlaces, MountPoints
    <3>5. QED
      BY <2>12, <3>1, <3>3, <3>4 DEF Mount, LocalMount
  <2>8. /\ r.pc = "fstab" /\ r.cmd = p.cmd /\ r.mounts = Append(p.mounts, m)
        /\ r.line = p.line /\ r.warned = p.warned
    BY <1>2, <2>5, <2>6, MountedFields
  <2>9. p.line = 1 /\ p.warned = {}
    BY <1>3, <2>1 DEF MountsOK
  <2>10. p.cmd.ninep => TableOK(p.cmd.fstab, Append(p.mounts, m), 1, {})
    <3>1. ASSUME p.cmd.ninep, Plain(Local)
          PROVE  TableRight(p.cmd.fstab, Append(p.mounts, m), 1, {})
      <4>1. Append(<<TmpMount>>, LocalMount) = <<TmpMount, LocalMount>>
        BY Two
      <4>2. SentTab(p.cmd.fstab)
        BY <1>3, <2>1, <3>1 DEF MountsOK, SentCmd
      <4>3. QED
        BY <2>7, <3>1, <4>1, <4>2, TableStarts
    <3>2. ASSUME p.cmd.ninep
          PROVE  1 \in 1..(Len(p.cmd.fstab) + 1) /\ {} \subseteq 1..(1 - 1)
      <4>1. SentTab(p.cmd.fstab)
        BY <1>3, <2>1, <3>2 DEF MountsOK, SentCmd
      <4>2. Len(p.cmd.fstab) \in Nat
        BY <4>1 DEF SentTab
      <4>3. QED
        BY <4>2
    <3>3. QED
      BY <3>1, <3>2 DEF TableOK, Straight
  <2>11. QED
    BY <1>2, <1>3, <2>1, <2>8, <2>9, <2>10 DEF MountsOK, Later
<1>6. QED
  BY <1>4, <1>5

(* A line of the fstab. *)
LEMMA LineKeeps ==
    ASSUME LaunchersInv, NEW s \in Sids, MountsOK(proc[s]), MountLine(s)
    PROVE  MountsOK(proc'[s])
<1>1. PICK p : p = proc[s]
  OBVIOUS
<1>2. PICK r : r = proc'[s]
  OBVIOUS
<1>3. LauncherOK(p) /\ IsProcess(p) /\ MountsOK(p)
  BY <1>1 DEF LaunchersInv, LauncherOK
<1>4. p.pc = "fstab" /\ p.cmd # NoCmd
  BY <1>1, <1>3 DEF MountLine, LauncherOK, Early
<1>5. PICK k : k = p.line
  OBVIOUS
<1>6. PICK l : l = p.cmd.fstab[k]
  OBVIOUS
<1>7. PICK made : made = MadeBy(s, l.file)
  OBVIOUS
<1>8. PICK q : q = [p EXCEPT !.line = k + 1, !.made = made]
  OBVIOUS
<1>10. /\ k \in DOMAIN p.cmd.fstab
       /\ \/ Goes(s, [q EXCEPT !.warned = @ \cup {k}])
          \/ \E at \in Places(p.mounts, l.file), v \in LineShows(p.mounts, l) :
                Mounted(s, Mount(at, v), q)
  BY <1>1, <1>5, <1>6, <1>7, <1>8 DEF MountLine
<1>11. q = Process(p.pc, p.conn, p.ns, p.cmd, p.mounts, made, k + 1, p.warned,
                   p.uid, p.gid, p.ctty, p.why)
  BY <1>3, <1>8, ProcessUpdates
<1>12. /\ IsProcess(q) /\ q.pc = "fstab" /\ q.cmd = p.cmd /\ q.mounts = p.mounts
       /\ q.line = k + 1 /\ q.warned = p.warned
  BY <1>4, <1>11 DEF Process, IsProcess
<1>13. ASSUME p.cmd.ninep
       PROVE  /\ SentTab(p.cmd.fstab) /\ k \in 1..Len(p.cmd.fstab)
              /\ TableOK(p.cmd.fstab, p.mounts, k, p.warned)
  BY <1>3, <1>4, <1>5, <1>10, <1>13 DEF MountsOK, SentCmd, SentTab
<1>14. CASE Goes(s, [q EXCEPT !.warned = @ \cup {k}])
  <2>1. PICK d : d = [q EXCEPT !.warned = q.warned \cup {k}]
    OBVIOUS
  <2>2. d = Process(q.pc, q.conn, q.ns, q.cmd, q.mounts, q.made, q.line, q.warned \cup {k},
                    q.uid, q.gid, q.ctty, q.why)
    BY <1>12, <2>1, ProcessUpdate
  <2>3. r = d
    BY <1>2, <1>14, <2>1, GoesOne
  <2>4. /\ r.pc = "fstab" /\ r.cmd = p.cmd /\ r.mounts = p.mounts
        /\ r.line = k + 1 /\ r.warned = p.warned \cup {k}
    BY <1>12, <2>2, <2>3 DEF Process
  <2>5. p.cmd.ninep => TableOK(p.cmd.fstab, p.mounts, k + 1, p.warned \cup {k})
    BY <1>13, SkipOK
  <2>6. QED
    BY <1>2, <1>3, <2>4, <2>5 DEF MountsOK, Later
<1>15. ASSUME NEW at \in Places(p.mounts, l.file), NEW v \in LineShows(p.mounts, l),
              Mounted(s, Mount(at, v), q)
       PROVE  MountsOK(proc'[s])
  <2>4. PICK m : m = Mount(at, v)
    OBVIOUS
  <2>1. /\ r.pc = "fstab" /\ r.cmd = p.cmd /\ r.mounts = Append(p.mounts, m)
        /\ r.line = k + 1 /\ r.warned = p.warned
    BY <1>2, <1>12, <1>15, <2>4, MountedFields
  <2>2. p.cmd.ninep => TableOK(p.cmd.fstab, Append(p.mounts, m), k + 1, p.warned)
    BY <1>6, <1>13, <2>4, LineOK
  <2>3. QED
    BY <1>2, <1>3, <2>1, <2>2 DEF MountsOK, Later
<1>16. QED
  BY <1>10, <1>14, <1>15

(* The end of a process. *)
LEMMA ExitKeeps ==
    ASSUME LaunchersInv, NEW s \in Sids, MountsOK(proc[s]), NEW why, Exits(s, why)
    PROVE  MountsOK(proc'[s])
<1>1. PICK p : p = [Dead EXCEPT !.pc = "exited", !.why = why,
                                !.conn = proc[s].conn, !.cmd = proc[s].cmd]
  OBVIOUS
<1>2. proc'[s] = p
  BY <1>1, GoesOne DEF Exits, Goes
<1>3. p.pc = "exited" /\ p.cmd = proc[s].cmd
  BY <1>1 DEF Dead
<1>4. QED
  BY <1>2, <1>3 DEF MountsOK, Later

LEMMA ProcMounts ==
    ASSUME LaunchersInv, NEW s \in Sids, NEW l, LauncherStep(s, l),
           \A r \in Sids : MountsOK(proc[r])
    PROVE  \A r \in Sids : MountsOK(proc'[r])
<1>1. MountsOK(proc'[s])
  <2>1. CASE StepFails(s) \/ ProgramEnds(s)
    BY <2>1, ExitKeeps DEF StepFails, ProgramEnds
  <2>2. CASE MountTmp(s) \/ MountLocal(s)
    BY <2>2, RootsKeep
  <2>3. CASE MountLine(s)
    BY <2>3, LineKeeps
  <2>4. CASE \/ Unshare(s) \/ Connect(s, l) \/ ReadCmd(s) \/ MakePrivate(s)
             \/ LinesDone(s) \/ MakeArgs(s) \/ TakeTty(s)
             \/ SetGid(s) \/ SetUid(s) \/ Exec(s)
    BY <2>4, DoesKeeps
  <2>5. QED
    BY <2>1, <2>2, <2>3, <2>4 DEF LauncherStep
<1>2. \A r \in Sids \ {s} : proc'[r] = proc[r]
  BY LauncherMove DEF LauncherMoves
<1>3. QED
  BY <1>1, <1>2

(* The steps of the client and of the server. *)
LEMMA SameProc ==
    ASSUME MountInv, UNCHANGED proc, UNCHANGED plan,
           client'.pc \in {"dial"} \cup StartPcs =>
               /\ client.pc \in {"dial"} \cup StartPcs /\ client'.cmd = client.cmd
    PROVE  MountInv'
BY DEF MountInv, StartPcs

(* A call keeps its command. *)
LEMMA ToMounts ==
    ASSUME IInv, MountInv, UNCHANGED proc, UNCHANGED plan,
           \/ \E r : Returns(r)
           \/ \E p : To(p) /\ (p \in StartPcs => client.pc \in {"dial"} \cup StartPcs)
                           /\ p # "dial"
    PROVE  MountInv'
<1>1. IsCall(client)
  BY DEF IInv, ClientInv
<1>2. CASE \E r : Returns(r)
  <2>1. client'.pc = "idle"
    BY <1>2, CallReturns
  <2>2. QED
    BY <2>1, SameProc DEF StartPcs
<1>3. ASSUME NEW p, To(p), p \in StartPcs => client.pc \in {"dial"} \cup StartPcs, p # "dial"
      PROVE  MountInv'
  <2>1. client'.pc = p /\ client'.cmd = client.cmd
    BY <1>1, <1>3, CallMoves
  <2>2. QED
    BY <1>3, <2>1, SameProc
<1>4. QED
  BY <1>2, <1>3

(* The call of start, with any arguments. *)
LEMMA CallMounts ==
    ASSUME IInv, MountInv, (\E a \in plan.args : CallStart(a)) \/ CallWait
    PROVE  MountInv'
<1>1. plan = [args |-> plan.args, calls |-> plan.calls, faults |-> plan.faults]
  BY DEF IInv, PlanInv
<1>2. plan' = [plan EXCEPT !.calls = @ - 1] /\ UNCHANGED proc
  BY DEF CallStart, CallWait
<1>3. plan'.args = plan.args
  BY <1>1, <1>2
<1>4. (client'.pc \in {"dial"} \cup StartPcs) => MadeCmd(client'.cmd)
  <2>1. ASSUME NEW a \in plan.args, CallStart(a)
        PROVE  client'.pc \in {"dial"} \cup StartPcs => MadeCmd(client'.cmd)
    <3>1. MadeCmd(MakeCmd(a))
      BY CommandMade DEF MountInv
    <3>2. PICK c : c = MakeCmd(a)
      OBVIOUS
    <3>3. (\E r : Returns(r)) \/ client' = [NoCall EXCEPT !.pc = "dial", !.cmd = c, !.tty = a.tty]
      BY <2>1, <3>2 DEF CallStart
    <3>4. CASE \E r : Returns(r)
      BY <3>4, CallReturns DEF StartPcs
    <3>5. CASE client' = [NoCall EXCEPT !.pc = "dial", !.cmd = c, !.tty = a.tty]
      <4>1. client' = [sid |-> NoSid, tty |-> a.tty, pc |-> "dial", cmd |-> c,
                       stop |-> FALSE, res |-> "none"]
        BY <3>5 DEF NoCall
      <4>2. client'.cmd = c
        BY <4>1
      <4>3. QED
        BY <3>1, <3>2, <4>2
    <3>6. QED
      BY <3>3, <3>4, <3>5
  <2>2. CASE CallWait
    <3>1. CASE \E r : Returns(r)
      BY <3>1, CallReturns DEF StartPcs
    <3>2. CASE client' = [NoCall EXCEPT !.pc = IF info.tty THEN "raw" ELSE "wait",
                                        !.sid = info.sid, !.tty = info.tty]
      <4>1. client' = [sid |-> info.sid, tty |-> info.tty,
                       pc |-> IF info.tty THEN "raw" ELSE "wait",
                       cmd |-> NoCmd, stop |-> FALSE, res |-> "none"]
        BY <3>2 DEF NoCall
      <4>2. client'.pc \in {"raw", "wait"}
        BY <4>1
      <4>3. QED
        BY <4>2 DEF StartPcs
    <3>3. QED
      BY <2>2, <3>1, <3>2 DEF CallWait
  <2>3. QED
    BY <2>1, <2>2
<1>5. QED
  BY <1>2, <1>3, <1>4 DEF MountInv

(* The dial, which gives the call its id. *)
LEMMA DialMounts ==
    ASSUME IInv, MountInv, Dial
    PROVE  MountInv'
<1>1. IsCall(client) /\ client.pc = "dial" /\ UNCHANGED <<proc, plan>>
  BY DEF IInv, ClientInv, Dial, At
<1>2. \/ \E s : client' = [client EXCEPT !.pc = AfterDial(client.cmd), !.sid = s]
      \/ Returns("error")
  BY DEF Dial, Works
<1>3. ASSUME NEW s, client' = [client EXCEPT !.pc = AfterDial(client.cmd), !.sid = s]
      PROVE  MountInv'
  <2>1. client' = [sid |-> s, tty |-> client.tty, pc |-> AfterDial(client.cmd),
                   cmd |-> client.cmd, stop |-> client.stop, res |-> client.res]
    BY <1>1, <1>3 DEF IsCall
  <2>2. client'.cmd = client.cmd
    BY <2>1
  <2>3. QED
    BY <1>1, <2>2, SameProc
<1>4. QED
  BY <1>1, <1>2, <1>3, ToMounts

(* Server::start: the launcher is there, and is sent the command. *)
LEMMA StartMounts ==
    ASSUME IInv, MountInv, StartLaunches \/ StartSends
    PROVE  MountInv'
<1>1. /\ IsCall(client) /\ LaunchersInv /\ UNCHANGED plan /\ client.pc \in StartPcs
      /\ client.sid \in Sids
  BY DEF IInv, ClientInv, StartLaunches, StartSends, At, StartPcs, Sid
<1> DEFINE s == client.sid
<1>2. /\ (\E r : Returns(r)) \/ (\E p \in StartPcs : To(p))
      /\ UNCHANGED proc \/ \E p : Goes(s, p) /\ MountsOK(p)
  <2>1. CASE StartLaunches
    <3>1. /\ client.pc = "launch"
          /\ (Returns("No9pPort") /\ UNCHANGED proc) \/ (To("starting") /\ Spawn(s))
      BY <2>1 DEF StartLaunches, At, Sid
    <3>2. ASSUME Spawn(s) PROVE \E p : Goes(s, p) /\ MountsOK(p)
      <4>1. PICK p : p = [proc[s] EXCEPT !.pc = Steps[1]]
        OBVIOUS
      <4>2. Goes(s, p)
        BY <3>2, <4>1 DEF Spawn
      <4>3. proc[s] = Dead
        BY <1>1, <3>1 DEF IInv, SpawnInv, LaunchersInv, LauncherOK, Sid
      <4>4. p.pc = "unshare" /\ p.cmd = NoCmd /\ p.mounts = << >>
        BY <4>1, <4>3 DEF Dead, Steps
      <4>5. MountsOK(p)
        BY <4>4 DEF MountsOK, Later
      <4>6. QED
        BY <4>2, <4>5
    <3>3. QED
      BY <3>1, <3>2 DEF StartPcs
  <2>2. CASE StartSends
    <3>1. /\ client.pc = "starting"
          /\ \/ Goes(s, [proc[s] EXCEPT !.cmd = Patched(client.cmd)])
             \/ UNCHANGED proc
          /\ (\E r : Returns(r)) \/ To("stdout")
      BY <2>2 DEF StartSends, At, Sid, Works
    <3>2. PICK p : p = [proc[s] EXCEPT !.cmd = Patched(client.cmd)]
      OBVIOUS
    <3>3. LauncherOK(proc[s]) /\ IsProcess(proc[s]) /\ MountsOK(proc[s])
      BY <1>1 DEF LaunchersInv, LauncherOK, MountInv
    <3>4. proc[s].cmd = NoCmd /\ proc[s].pc \in Early
      BY <1>1, <3>1, <3>3 DEF IInv, LifeInv, SpawnInv, LauncherOK, Sid
    <3>5. p.pc = proc[s].pc /\ p.cmd = Patched(client.cmd) /\ p.mounts = proc[s].mounts
      <4>1. PICK q : q = proc[s]
        OBVIOUS
      <4>2. PICK c : c = Patched(client.cmd)
        OBVIOUS
      <4>3. IsProcess(q) /\ p = [q EXCEPT !.cmd = c]
        BY <3>2, <3>3, <4>1, <4>2
      <4>4. p = Process(q.pc, q.conn, q.ns, c, q.mounts, q.made, q.line,
                        q.warned, q.uid, q.gid, q.ctty, q.why)
        BY <4>3, ProcessUpdate
      <4>5. QED
        BY <4>1, <4>2, <4>4 DEF Process
    <3>6. SentCmd(p.cmd)
      BY <1>1, <3>1, <3>5, CommandSent DEF MountInv, StartPcs
    <3>7. MountsOK(p)
      BY <3>3, <3>4, <3>5, <3>6 DEF MountsOK, Early, Later
    <3>8. QED
      BY <3>1, <3>2, <3>7 DEF StartPcs
  <2>3. QED
    BY <2>1, <2>2
<1>3. \A r \in Sids : MountsOK(proc'[r])
  <2>1. CASE UNCHANGED proc
    BY <2>1 DEF MountInv
  <2>2. ASSUME NEW p, Goes(s, p), MountsOK(p) PROVE \A r \in Sids : MountsOK(proc'[r])
    <3>1. proc'[s] = p /\ \A r \in Sids \ {s} : proc'[r] = proc[r]
      BY <1>1, <2>2, GoesOne
    <3>2. QED
      BY <2>2, <3>1 DEF MountInv
  <2>3. QED
    BY <1>2, <2>1, <2>2
<1>4. client'.pc \in {"dial"} \cup StartPcs => client'.cmd = client.cmd
  <2>1. CASE \E r : Returns(r)
    BY <2>1, CallReturns DEF StartPcs
  <2>2. CASE \E p \in StartPcs : To(p)
    BY <1>1, <2>2, CallMoves
  <2>3. QED
    BY <1>2, <2>1, <2>2
<1>5. QED
  BY <1>1, <1>3, <1>4 DEF MountInv

LEMMA MountStepKeeps == IInv /\ MountInv /\ [Next]_vars => MountInv'
<1> SUFFICES ASSUME IInv, MountInv, [Next]_vars PROVE MountInv'
  OBVIOUS
<1>1. CASE UNCHANGED vars
  BY <1>1 DEF vars, MountInv
<1>2. ASSUME NEW s \in Sids, ProcStep(s) PROVE MountInv'
  <2>1. LaunchersInv /\ LauncherStep(s, life[s] = "starting") /\ UNCHANGED <<plan, client>>
    BY <1>2 DEF IInv, ProcStep
  <2>2. \A r \in Sids : MountsOK(proc'[r])
    BY <2>1, ProcMounts DEF MountInv
  <2>3. QED
    BY <2>1, <2>2 DEF MountInv
<1>3. CASE \/ Connects \/ Forward \/ StartClaims \/ SetupStdio \/ RpcFails
           \/ \E a \in plan.args : FileRefused(a)
  <2>1. UNCHANGED <<plan, proc>>
    BY <1>3 DEF Connects, Forward, StartClaims, SetupStdio, RpcFails, FileRefused
  <2>2. \/ \E r : Returns(r)
        \/ To("panicked") \/ To("quit")
        \/ client.pc \in StartPcs /\ \E p \in StartPcs : To(p)
    BY <1>3 DEF Connects, Forward, StartClaims, SetupStdio, RpcFails, Works, Panics, At, StartPcs,
                FileRefused
  <2>3. QED
    BY <2>1, <2>2, ToMounts DEF StartPcs
<1>4. CASE RawMode \/ SendStop \/ JoinHandles \/ RestoreTerminal \/ WaitInner
  <2>1. UNCHANGED <<plan, proc>>
    BY <1>4 DEF RawMode, SendStop, JoinHandles, RestoreTerminal, WaitInner
  <2>2. \/ \E r : Returns(r)
        \/ \E p \in {"wait", "restore"} : To(p)
        \/ client'.pc \in {"stop", "join"}
    BY <1>4 DEF RawMode, SendStop, JoinHandles, RestoreTerminal, WaitInner, Works,
                IInv, ClientInv, IsCall
  <2>3. client'.pc \in {"stop", "join"} => MountInv'
    BY <2>1, SameProc DEF StartPcs
  <2>4. QED
    BY <2>1, <2>2, <2>3, ToMounts DEF StartPcs
<1>5. QED
  BY <1>1, <1>2, <1>3, <1>4, CallMounts, DialMounts, StartMounts DEF Next, ClientStep

LEMMA MountInit == Init => MountInv
<1> SUFFICES ASSUME Init PROVE MountInv
  OBVIOUS
<1>1. \A a \in plan.args : ArgsOK(a)
  BY ArgsAssumption DEF Init, ArgsOK, FileLine
<1>2. client = [sid |-> NoSid, tty |-> FALSE, pc |-> "connect", cmd |-> NoCmd,
                stop |-> FALSE, res |-> "none"]
  BY DEF Init, NoCall
<1>3. client.pc = "connect"
  BY <1>2
<1>4. Dead.pc = "none" /\ Dead.cmd = NoCmd /\ Dead.mounts = << >>
  BY DEF Dead
<1>5. MountsOK(Dead)
  BY <1>4 DEF MountsOK, Later
<1>6. \A s \in Sids : proc[s] = Dead
  BY DEF Init, LauncherInit
<1>7. QED
  BY <1>1, <1>3, <1>5, <1>6 DEF MountInv, StartPcs

(* Whatever is mounted and whatever fails: a target that the user named    *)
(* shows the client's files, and never the server's own in their place, if *)
(* no line that was mounted has '..' or a symbolic link in its paths.      *)
THEOREM ClientShown == Spec => []ShowsClient
<1>1. IInv /\ MountInv => ShowsClient
  <2> SUFFICES ASSUME MountInv, NEW s \in Sids, proc[s].pc = "running", proc[s].cmd.ninep,
                      LauncherOK(proc[s]),
                      Straight(proc[s].cmd.fstab, DOMAIN proc[s].cmd.fstab \ proc[s].warned)
               PROVE  LET tab == proc[s].cmd.fstab
                          up == DOMAIN tab \ proc[s].warned
                          covered(p, js) == \E j \in js : IsPrefix(tab[j].file, p)
                          shown(k) == Show(proc[s].mounts, tab[k].file)
                      IN \A k \in up \ {1} :
                           (/\ \A j \in 2..k : Bind9p(tab[j])
                            /\ ~covered(tab[k].file, {j \in up : j > k})) =>
                             /\ shown(k).tree # "local"
                             /\ 1 \in up /\ ~covered(tab[k].spec, {j \in up : 1 < j /\ j < k}) =>
                                  shown(k) = FromClient(tab[k].spec)
    BY DEF ShowsClient, IInv, LaunchersInv
  <2>1. PICK tab : tab = proc[s].cmd.fstab
    OBVIOUS
  <2>2. PICK ms : ms = proc[s].mounts
    OBVIOUS
  <2>3. PICK up : up = DOMAIN tab \ proc[s].warned
    OBVIOUS
  <2>4. proc[s].cmd # NoCmd
    BY DEF LauncherOK, Early
  <2>5. /\ SentTab(tab) /\ proc[s].line = Len(tab) + 1
        /\ TableOK(tab, ms, proc[s].line, proc[s].warned)
    BY <2>1, <2>2, <2>4 DEF MountInv, MountsOK, SentCmd, Later
  <2>6. DOMAIN tab = 1..Len(tab) /\ Len(tab) \in Nat
    BY <2>5 DEF SentTab
  <2>7. up = Up(proc[s].line, proc[s].warned)
    BY <2>3, <2>5, <2>6 DEF Up
  <2>8. Targets(tab, ms, up)
    BY <2>1, <2>3, <2>5, <2>7 DEF TableOK, TableRight
  <2>9. QED
    BY <2>1, <2>2, <2>3, <2>8 DEF Targets, Covers
<1>2. QED
  BY <1>1, Invariant, InvStep, MountInit, MountStepKeeps, PTL DEF Spec

-----------------------------------------------------------------------------
(* parse_namespace.                                                        *)

(* How many numbers of F are at most k, one turn after the other. *)
UpTo(F, k) == {i \in F : i <= k}

LEMMA UpToCount ==
    ASSUME NEW n \in Nat, NEW F \in SUBSET (1..n), NEW k \in 0..n
    PROVE  /\ IsFiniteSet(UpTo(F, k)) /\ Cardinality(UpTo(F, k)) \in Nat
           /\ \A j \in 0..k : Cardinality(UpTo(F, j)) <= Cardinality(UpTo(F, k))
           /\ k = 0 => Cardinality(UpTo(F, k)) = 0
           /\ k = n => UpTo(F, k) = F
           /\ k # 0 => Cardinality(UpTo(F, k))
                         = Cardinality(UpTo(F, k - 1)) + IF k \in F THEN 1 ELSE 0
<1>0. \A i \in F : i \in 1..n /\ i \in Nat /\ 1 <= i /\ i <= n
  OBVIOUS
<1>1. IsFiniteSet(1..n)
  BY FS_Interval
<1>2. \A j \in 0..n : IsFiniteSet(UpTo(F, j)) /\ Cardinality(UpTo(F, j)) \in Nat
  <2>1. \A j \in 0..n : UpTo(F, j) \subseteq 1..n
    <3>1. \A j, i : i \in UpTo(F, j) => i \in F
      BY DEF UpTo
    <3>2. QED
      BY <1>0, <3>1
  <2>2. QED
    BY <1>1, <2>1, FS_Subset, FS_CardinalityType
<1>3. ASSUME NEW j \in 0..k PROVE Cardinality(UpTo(F, j)) <= Cardinality(UpTo(F, k))
  <2>1. UpTo(F, j) \subseteq UpTo(F, k)
    <3>1. ASSUME NEW i \in F, i <= j PROVE i <= k
      BY <1>0, <3>1
    <3>2. QED
      BY <3>1 DEF UpTo
  <2>2. QED
    BY <1>2, <2>1, FS_Subset
<1>4. k = 0 => Cardinality(UpTo(F, k)) = 0
  <2>1. k = 0 => UpTo(F, k) = {}
    <3>1. k = 0 => \A i \in F : ~(i <= k)
      BY <1>0
    <3>2. QED
      BY <3>1 DEF UpTo
  <2>2. QED
    BY <2>1, FS_EmptySet
<1>5. k = n => UpTo(F, k) = F
  BY <1>0 DEF UpTo
<1>6. ASSUME k # 0
      PROVE  Cardinality(UpTo(F, k)) = Cardinality(UpTo(F, k - 1)) + IF k \in F THEN 1 ELSE 0
  <2>1. k - 1 \in 0..n
    BY <1>6
  <2>2. CASE k \in F
    <3>1. UpTo(F, k) = UpTo(F, k - 1) \cup {k} /\ k \notin UpTo(F, k - 1)
      <4>1. \A i \in F : (i <= k <=> i = k \/ i <= k - 1) /\ ~(k <= k - 1)
        BY <1>0
      <4>2. QED
        BY <2>2, <4>1 DEF UpTo
    <3>2. QED
      BY <1>2, <2>1, <2>2, <3>1, FS_AddElement
  <2>3. CASE k \notin F
    <3>1. UpTo(F, k) = UpTo(F, k - 1)
      <4>1. \A i \in F : i # k => (i <= k <=> i <= k - 1)
        BY <1>0
      <4>2. QED
        BY <2>3, <4>1 DEF UpTo
    <3>2. Cardinality(UpTo(F, k - 1)) \in Nat
      BY <1>2, <2>1
    <3>3. QED
      BY <2>3, <3>1, <3>2
  <2>4. QED
    BY <2>2, <2>3
<1>7. QED
  BY <1>2, <1>3, <1>4, <1>5, <1>6

(* The parts that become lines. *)
GoodParts(ps) == {k \in DOMAIN ps : Len(ps[k]) <= 2}
FirstParts(ps) == {k \in GoodParts(ps) : \A j \in GoodParts(ps) : j < k => ps[j][1] # ps[k][1]}
Place(ps, k) == Cardinality(UpTo(FirstParts(ps), k))

(* The lines after k turns. *)
TurnOK(ps, k, tab) ==
    /\ MadeTab(tab) /\ Len(tab) = Place(ps, k) + 1
    /\ \A j \in FirstParts(ps) : j <= k => tab[Place(ps, j) + 1] = BindLine(ps[j])
    /\ \A i \in 2..Len(tab) : \E j \in GoodParts(ps) : j <= k /\ tab[i].file = ps[j][1]
    /\ \A j \in GoodParts(ps) : j <= k => \E i \in 2..Len(tab) : tab[i].file = ps[j][1]

LEMMA TurnStep ==
    ASSUME NEW ps \in Seq(Seq(Path) \ {<< >>}), NEW k \in 1..Len(ps),
           NEW tab, TurnOK(ps, k - 1, tab)
    PROVE  TurnOK(ps, k, AddPart(tab, ps[k]))
<1> DEFINE F == FirstParts(ps)
           G == GoodParts(ps)
           n == Len(ps)
           old == \E i \in 2..Len(tab) : tab[i].file = ps[k][1]
<1>1. /\ n \in Nat /\ DOMAIN ps = 1..n /\ G \in SUBSET (1..n) /\ F \in SUBSET (1..n)
      /\ k - 1 \in 0..n /\ k \in 0..n /\ k # 0
  BY DEF FirstParts, GoodParts
<1>2. /\ \A j \in 0..n : Place(ps, j) \in Nat
      /\ \A j \in 0..(k - 1) : Place(ps, j) <= Place(ps, k - 1)
      /\ Place(ps, k) = Place(ps, k - 1) + IF k \in F THEN 1 ELSE 0
  <2> HIDE DEF F, n
  <2>1. \A j \in 0..n : Cardinality(UpTo(F, j)) \in Nat
    BY <1>1, UpToCount
  <2>2. Cardinality(UpTo(F, k)) = Cardinality(UpTo(F, k - 1)) + IF k \in F THEN 1 ELSE 0
    BY <1>1, UpToCount
  <2>3. \A j \in 0..(k - 1) : Cardinality(UpTo(F, j)) <= Cardinality(UpTo(F, k - 1))
    <3>1. PICK m \in 0..n : m = k - 1
      BY <1>1
    <3>2. \A j \in 0..m : Cardinality(UpTo(F, j)) <= Cardinality(UpTo(F, m))
      BY <1>1, UpToCount
    <3>3. QED
      BY <3>1, <3>2
  <2>4. QED
    BY <2>1, <2>2, <2>3 DEF Place, F
<1>3. PICK part \in Seq(Path) \ {<< >>} : part = ps[k]
  OBVIOUS
<1>4. PICK b \in FsLine : b = BindLine(part)
  BY BindType
<1>5. b.file = part[1]
  BY <1>4 DEF BindLine, Line
<1>6. /\ MadeTab(tab) /\ Len(tab) \in Nat /\ Len(tab) = Place(ps, k - 1) + 1
      /\ \A j \in F : j <= k - 1 => tab[Place(ps, j) + 1] = BindLine(ps[j])
      /\ \A i \in 2..Len(tab) : \E j \in G : j <= k - 1 /\ tab[i].file = ps[j][1]
      /\ \A j \in G : j <= k - 1 => \E i \in 2..Len(tab) : tab[i].file = ps[j][1]
  BY DEF TurnOK, MadeTab
<1>7. k \in G <=> ~(Len(part) > 2)
  <2>1. Len(part) \in Nat
    OBVIOUS
  <2>2. QED
    BY <1>1, <1>3, <2>1 DEF GoodParts
<1>8. old <=> \E j \in G : j < k /\ ps[j][1] = ps[k][1]
  <2>1. \A j \in G : j < k <=> j <= k - 1
    BY <1>1
  <2>2. QED
    BY <1>6, <2>1
<1>9. k \in F <=> k \in G /\ ~old
  BY <1>8 DEF FirstParts
<1>10. AddPart(tab, part) = IF k \notin G \/ old THEN tab ELSE Append(tab, b)
  BY <1>3, <1>4, <1>7 DEF AddPart
<1> HIDE DEF F, G, n, old
<1>11. \A j \in 1..n : j <= k => j = k \/ j <= k - 1
  BY <1>1
<1>0. \A j \in F \cup G : j \in 1..n /\ j \in Nat /\ 1 <= j
  BY <1>1
<1>12. CASE k \notin F
  <2>1. AddPart(tab, part) = tab
    BY <1>9, <1>10, <1>12
  <2>2. Len(tab) = Place(ps, k) + 1
    BY <1>1, <1>2, <1>6, <1>12
  <2>3. \A j \in F : j <= k => tab[Place(ps, j) + 1] = BindLine(ps[j])
    BY <1>1, <1>6, <1>11, <1>12
  <2>4. \A i \in 2..Len(tab) : \E j \in G : j <= k /\ tab[i].file = ps[j][1]
    <3>1. \A j \in G : j <= k - 1 => j <= k
      BY <1>1
    <3>2. QED
      BY <1>6, <3>1
  <2>5. \A j \in G : j <= k => \E i \in 2..Len(tab) : tab[i].file = ps[j][1]
    <3>1. k \in G => \E i \in 2..Len(tab) : tab[i].file = ps[k][1]
      BY <1>9, <1>12 DEF old
    <3>2. QED
      BY <1>1, <1>6, <1>11, <3>1
  <2>6. QED
    BY <1>3, <1>6, <2>1, <2>2, <2>3, <2>4, <2>5 DEF TurnOK, F, G
<1>13. CASE k \in F
  <2> DEFINE r == Append(tab, b)
             m == Len(tab)
  <2>1. AddPart(tab, part) = r /\ k \in G
    BY <1>9, <1>10, <1>13
  <2>2. MadeTab(r)
    BY <1>3, <1>6, <2>1, AddPartType
  <2>3. /\ Len(r) = m + 1 /\ r[m + 1] = b /\ \A i \in 1..m : r[i] = tab[i]
        /\ m \in Nat /\ m >= 1
    <3>1. tab \in Seq(FsLine) /\ tab # << >>
      BY <1>6 DEF MadeTab
    <3>2. m \in Nat /\ m # 0
      BY <3>1, EmptySeq
    <3>3. QED
      BY <3>1, <3>2, AppendProperties
  <2>4. Place(ps, k) = m /\ m = Place(ps, k - 1) + 1
    BY <1>1, <1>2, <1>6, <1>13
  <2> HIDE DEF r, m
  <2>5. ASSUME NEW j \in F, j <= k PROVE r[Place(ps, j) + 1] = BindLine(ps[j])
    <3>1. CASE j = k
      BY <1>3, <1>4, <2>3, <2>4, <3>1
    <3>2. CASE j <= k - 1
      <4>1. j \in 0..(k - 1) /\ j \in 0..n
        BY <1>0, <1>1, <3>2
      <4>2. Place(ps, j) + 1 \in 1..m
        <5>1. /\ Place(ps, j) \in Nat /\ Place(ps, k - 1) \in Nat
              /\ Place(ps, j) <= Place(ps, k - 1)
          BY <1>1, <1>2, <4>1
        <5>2. QED
          BY <2>4, <5>1
      <4>3. QED
        BY <1>6, <2>3, <3>2, <4>2
    <3>3. QED
      BY <1>1, <1>11, <2>5, <3>1, <3>2
  <2>6. ASSUME NEW i \in 2..(m + 1) PROVE \E j \in G : j <= k /\ r[i].file = ps[j][1]
    <3>1. CASE i = m + 1
      <4>1. r[i].file = ps[k][1] /\ k <= k
        BY <1>1, <1>3, <1>5, <2>3, <3>1
      <4>2. QED
        BY <2>1, <4>1
    <3>2. CASE i # m + 1
      <4>1. i \in 2..m /\ i \in 1..m
        BY <2>3, <3>2
      <4>2. PICK j \in G : j <= k - 1 /\ tab[i].file = ps[j][1]
        BY <1>6, <4>1 DEF m
      <4>3. j <= k
        BY <1>0, <1>1, <4>2
      <4>4. r[i] = tab[i]
        BY <2>3, <4>1
      <4>5. QED
        BY <4>2, <4>3, <4>4
    <3>3. QED
      BY <3>1, <3>2
  <2>7. ASSUME NEW j \in G, j <= k PROVE \E i \in 2..(m + 1) : r[i].file = ps[j][1]
    <3>1. CASE j = k
      <4>1. m + 1 \in 2..(m + 1) /\ r[m + 1].file = ps[k][1]
        BY <1>3, <1>5, <2>3
      <4>2. QED
        BY <3>1, <4>1
    <3>2. CASE j <= k - 1
      <4>1. PICK i \in 2..m : tab[i].file = ps[j][1]
        BY <1>6, <3>2 DEF m
      <4>2. i \in 2..(m + 1) /\ r[i] = tab[i]
        BY <2>3
      <4>3. QED
        BY <4>1, <4>2
    <3>3. QED
      BY <1>1, <1>11, <2>7, <3>1, <3>2
  <2>8. Len(r) = Place(ps, k) + 1
    BY <2>3, <2>4
  <2>9. AddPart(tab, ps[k]) = r
    BY <1>3, <2>1
  <2>10. QED
    BY <2>2, <2>3, <2>5, <2>6, <2>7, <2>8, <2>9 DEF TurnOK, F, G
<1>14. QED
  BY <1>12, <1>13

LEMMA AllTurns ==
    ASSUME NEW ps \in Seq(Seq(Path) \ {<< >>})
    PROVE  TurnOK(ps, Len(ps), Turns(ps)[Len(ps)])
<1> DEFINE n == Len(ps)
           S == {k \in 0..n : TurnOK(ps, k, Turns(ps)[k])}
<1>1. n \in Nat /\ FirstParts(ps) \in SUBSET (1..n) /\ GoodParts(ps) \in SUBSET (1..n)
  BY DEF FirstParts, GoodParts
<1>2. TurnOK(ps, 0, Turns(ps)[0])
  <2>1. PICK tab : tab = <<NinepLine>>
    OBVIOUS
  <2>2. Turns(ps)[0] = tab
    BY <1>1, <2>1, TurnsDef
  <2>3. MadeTab(tab) /\ Len(tab) = 1
    BY <2>1, NinepType DEF MadeTab
  <2>4. Place(ps, 0) = 0
    <3>1. PICK F \in SUBSET (1..n) : F = FirstParts(ps)
      BY <1>1
    <3> HIDE DEF n
    <3>2. n \in Nat /\ 0 \in 0..n
      BY <1>1
    <3>3. Cardinality(UpTo(F, 0)) = 0
      BY <3>2, UpToCount
    <3>4. QED
      BY <3>1, <3>3 DEF Place
  <2>5. \A j \in 1..n : ~(j <= 0)
    BY <1>1
  <2>6. \A i \in 2..Len(tab) : FALSE
    BY <2>3
  <2>7. QED
    BY <1>1, <2>2, <2>3, <2>4, <2>5, <2>6 DEF TurnOK
<1>3. ASSUME NEW k \in 0..n, k + 1 \in 0..n, k \in S
      PROVE  k + 1 \in S
  <2>1. k + 1 \in 1..n /\ (k + 1) - 1 = k
    BY <1>1, <1>3
  <2>2. Turns(ps)[k + 1] = AddPart(Turns(ps)[k], ps[k + 1])
    BY <1>1, <2>1, TurnsDef
  <2>3. TurnOK(ps, (k + 1) - 1, Turns(ps)[k])
    BY <1>3, <2>1
  <2>4. TurnOK(ps, k + 1, Turns(ps)[k + 1])
    BY <2>1, <2>2, <2>3, TurnStep
  <2>5. QED
    BY <1>3, <2>4
<1>4. 0 \in S
  BY <1>1, <1>2
<1> HIDE DEF S
<1>5. 0..n \subseteq S
  BY <1>1, <1>3, <1>4, Climb
<1>6. n \in S
  BY <1>1, <1>5
<1>7. QED
  BY <1>6 DEF S

(* Whatever the namespace argument: the 9p line and a line for each part   *)
(* that names a new target, in their order, or nothing.                    *)
THEOREM NamespaceParsed == Spec => []NamespaceLines
<1>1. ASSUME NEW ps \in Seq(Seq(Path) \ {<< >>})
      PROVE  LET tab == ParseNamespace(ps)
                 first == FirstParts(ps)
             IN /\ Len(tab) = IF first = {} THEN 0 ELSE Cardinality(first) + 1
                /\ \A k \in first : tab[1 + Cardinality({j \in first : j <= k})] = BindLine(ps[k])
                /\ tab # << >> => tab[1] = NinepLine
  <2>1. PICK n : n = Len(ps)
    OBVIOUS
  <2>2. PICK F : F = FirstParts(ps)
    OBVIOUS
  <2>3. PICK t : t = Turns(ps)[n]
    OBVIOUS
  <2>4. n \in Nat /\ n \in 0..n /\ F \in SUBSET (1..n)
    BY <2>1, <2>2 DEF FirstParts, GoodParts
  <2>5. TurnOK(ps, n, t)
    BY <2>1, <2>3, AllTurns
  <2>6. Place(ps, n) = Cardinality(F) /\ IsFiniteSet(F) /\ Cardinality(F) \in Nat
    <3>1. UpTo(F, n) = F /\ IsFiniteSet(UpTo(F, n)) /\ Cardinality(UpTo(F, n)) \in Nat
      BY <2>4, UpToCount
    <3>2. QED
      BY <2>2, <3>1 DEF Place
  <2>7. Len(t) = Cardinality(F) + 1 /\ t[1] = NinepLine
    BY <2>5, <2>6 DEF TurnOK, MadeTab
  <2>8. \A k \in F : k <= n /\ t[1 + Cardinality({j \in F : j <= k})] = BindLine(ps[k])
    <3> TAKE k \in F
    <3>1. k <= n /\ k \in 0..n
      BY <2>4
    <3>2. t[Place(ps, k) + 1] = BindLine(ps[k])
      BY <2>2, <2>5, <3>1 DEF TurnOK
    <3>3. Place(ps, k) = Cardinality({j \in F : j <= k}) /\ Place(ps, k) \in Nat
      BY <2>2, <2>4, <3>1, UpToCount DEF Place, UpTo
    <3>4. Place(ps, k) + 1 = 1 + Cardinality({j \in F : j <= k})
      BY <3>3
    <3>5. QED
      BY <3>1, <3>2, <3>4
  <2>9. CASE F = {}
    <3>1. Len(t) = 1
      BY <2>7, <2>9, FS_EmptySet
    <3>2. ParseNamespace(ps) = << >>
      BY <2>1, <2>3, <3>1 DEF ParseNamespace
    <3>3. QED
      BY <2>2, <2>9, <3>2
  <2>10. CASE F # {}
    <3>1. Len(t) # 1 /\ ps # << >>
      <4>1. Cardinality(F) # 0
        BY <2>6, <2>10, FS_EmptySet
      <4>2. n # 0
        <5>1. PICK x \in F : x \in 1..n
          BY <2>4, <2>10
        <5>2. QED
          BY <2>4, <5>1
      <4>3. QED
        BY <2>1, <2>6, <2>7, <4>1, <4>2
    <3>2. ParseNamespace(ps) = t
      BY <2>1, <2>3, <3>1 DEF ParseNamespace
    <3>3. QED
      BY <2>2, <2>7, <2>8, <2>10, <3>2
  <2>11. QED
    BY <2>9, <2>10
<1>2. MountInv => NamespaceLines
  <2> SUFFICES ASSUME MountInv, NEW a \in plan.args
               PROVE  LET ps == a.namespace
                          good == {k \in DOMAIN ps : Len(ps[k]) <= 2}
                          first == {k \in good : \A j \in good : j < k => ps[j][1] # ps[k][1]}
                          tab == ParseNamespace(ps)
                      IN /\ Len(tab) = IF first = {} THEN 0 ELSE Cardinality(first) + 1
                         /\ \A k \in first :
                               tab[1 + Cardinality({j \in first : j <= k})] = BindLine(ps[k])
                         /\ tab # << >> => tab[1] = NinepLine
    BY DEF NamespaceLines
  <2>1. PICK ps \in Seq(Seq(Path) \ {<< >>}) : ps = a.namespace
    BY DEF MountInv, ArgsOK
  <2>2. QED
    BY <1>1, <2>1 DEF FirstParts, GoodParts
<1>3. QED
  BY <1>2, Invariant, InvStep, MountInit, MountStepKeeps, PTL DEF Spec
=============================================================================
