------------------------------- MODULE Launcher -------------------------------
(***************************************************************************)
(* The launcher (crates/libp9cpu/src/launcher.rs, connect): the process    *)
(* that p9cpud starts for a session.  It leaves the mount namespace of the *)
(* server, reads its command, mounts, takes the user's ids and becomes the *)
(* program.  One step is one group of system calls; each may fail, which   *)
(* ends the process, except that a mount of the fstab is only warned of.   *)
(***************************************************************************)
EXTENDS Namespace

CONSTANTS Sids, NoCmd

VARIABLES
    proc,     \* the process of each session
    host      \* mounts that were made, or propagated, outside of it

Dead == [pc |-> "none", conn |-> FALSE, ns |-> "host", cmd |-> NoCmd, mounts |-> << >>, made |-> {},
         line |-> 1, warned |-> {}, uid |-> 0, gid |-> 0, ctty |-> FALSE, why |-> "none"]

LauncherInit == proc = [s \in Sids |-> Dead] /\ host = << >>

(* Faulty variants: MS_PRIVATE is forgotten; the tmpfs is.                 *)
StepsShared == <<"unshare", "connect", "read", "tmp", "local", "fstab", "args", "tty",
                 "gid", "uid", "exec", "running">>
StepsNoTmp == <<"unshare", "connect", "read", "private", "local", "fstab", "args", "tty",
                "gid", "uid", "exec", "running">>

(* The order of connect.                                                   *)
Steps == <<"unshare", "connect", "read", "private", "tmp", "local", "fstab", "args",
           "tty", "gid", "uid", "exec", "running">>

Goes(s, p) == proc' = [proc EXCEPT ![s] = p]
NextPc(s) == Steps[SelectInSeq(Steps, LAMBDA x : x = proc[s].pc) + 1]
Does(s, p) == Goes(s, [p EXCEPT !.pc = NextPc(s)]) /\ UNCHANGED host

(* The process ends, and its mount namespace with it.                      *)
Exits(s, why) ==
    /\ proc' = [proc EXCEPT ![s] = [Dead EXCEPT !.pc = "exited", !.why = why,
                                               !.conn = proc[s].conn, !.cmd = proc[s].cmd]]
    /\ UNCHANGED host

Spawn(s) == Goes(s, [proc[s] EXCEPT !.pc = Steps[1]])

(* mount(2) in the process's namespace; as long as its mounts are shared   *)
(* with the host's it happens there too.                                   *)
Mount(at, v) == [at |-> at, tree |-> v.tree, path |-> v.path]

Mounted(s, m, p) ==
    /\ Goes(s, [p EXCEPT !.mounts = Append(@, m)])
    /\ host' = IF proc[s].ns = "private" THEN host ELSE Append(host, m)

(* create_dir_all makes the directories on a path one by one: what it      *)
(* makes in the tmpfs is known to be there.                                *)
MadeBy(s, p) ==
    LET ms == proc[s].mounts
        dirs == UNION {Places(ms, SubSeq(p, 1, k)) : k \in 0..Len(p)}
    IN proc[s].made \cup {Show(ms, q).path : q \in {d \in dirs : Show(ms, d).tree = "tmpfs"}}

Exists(s, v) == v.tree = "tmpfs" => v.path \in proc[s].made

-----------------------------------------------------------------------------
Unshare(s) == proc[s].pc = "unshare" /\ Does(s, [proc[s] EXCEPT !.ns = "shared"])

Connect(s, listening) ==
    proc[s].pc = "connect" /\ listening /\ Does(s, [proc[s] EXCEPT !.conn = TRUE])

(* The length, the command and the end of the stream.                      *)
ReadCmd(s) == proc[s].pc = "read" /\ proc[s].cmd # NoCmd /\ Does(s, proc[s])

MakePrivate(s) == proc[s].pc = "private" /\ Does(s, [proc[s] EXCEPT !.ns = "private"])

MountTmp(s) ==
    /\ proc[s].pc = "tmp"
    /\ \E at \in Places(proc[s].mounts, TmpMnt) :
          Mounted(s, [at |-> at, tree |-> "tmpfs", path |-> << >>],
                  [proc[s] EXCEPT !.pc = NextPc(s), !.made = {<< >>}])

MountLocal(s) ==
    /\ proc[s].pc = "local"
    /\ \E at \in Places(proc[s].mounts, Local) :
          Mounted(s, Mount(at, Show(proc[s].mounts, << >>)),
                  [proc[s] EXCEPT !.pc = NextPc(s), !.made = MadeBy(s, Local)])

(* A line of the fstab: its directory is made, then it is mounted, or the  *)
(* failure is logged and the next line is taken.                           *)
MountLine(s) ==
    LET k == proc[s].line
        l == proc[s].cmd.fstab[k]
        ms == proc[s].mounts
        p == [proc[s] EXCEPT !.line = k + 1, !.made = MadeBy(s, l.file)]
    IN /\ proc[s].pc = "fstab" /\ k \in DOMAIN proc[s].cmd.fstab
       /\ \/ Goes(s, [p EXCEPT !.warned = @ \cup {k}]) /\ UNCHANGED host
          \/ /\ l.file # Empty
             /\ \E at \in Places(ms, l.file), v \in LineShows(ms, l) :
                   Exists(s, v) /\ Mounted(s, Mount(at, v), p)

LinesDone(s) ==
    /\ proc[s].pc = "fstab" /\ proc[s].line \notin DOMAIN proc[s].cmd.fstab
    /\ Does(s, proc[s])

MakeArgs(s) == proc[s].pc = "args" /\ Does(s, proc[s])

(* setsid and TIOCSCTTY.                                                   *)
TakeTty(s) == proc[s].pc = "tty" /\ Does(s, [proc[s] EXCEPT !.ctty = proc[s].cmd.tty])

(* setgid needs root's rights, or the same id; so does setuid.             *)
SetGid(s) ==
    /\ proc[s].pc = "gid"
    /\ IF proc[s].uid = 0 THEN Does(s, [proc[s] EXCEPT !.gid = proc[s].cmd.gid]) ELSE Exits(s, "rights")

SetUid(s) ==
    /\ proc[s].pc = "uid"
    /\ IF proc[s].uid = 0 THEN Does(s, [proc[s] EXCEPT !.uid = proc[s].cmd.uid]) ELSE Exits(s, "rights")

Exec(s) == proc[s].pc = "exec" /\ Does(s, proc[s])

(* A system call fails, and connect returns its error: exit status 1.      *)
StepFails(s) == proc[s].pc \in ToSet(Steps) \ {"running"} /\ Exits(s, "failed")

(* The program ends with a status, or by a signal.                         *)
ProgramEnds(s) == proc[s].pc = "running" /\ \E why \in {"zero", "nonzero", "signal"} : Exits(s, why)

LauncherStep(s, listening) ==
    \/ Unshare(s) \/ Connect(s, listening) \/ ReadCmd(s) \/ MakePrivate(s)
    \/ MountTmp(s) \/ MountLocal(s) \/ MountLine(s) \/ LinesDone(s)
    \/ MakeArgs(s) \/ TakeTty(s) \/ SetGid(s) \/ SetUid(s) \/ Exec(s)
    \/ StepFails(s) \/ ProgramEnds(s)
=============================================================================
