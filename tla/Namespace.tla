------------------------------ MODULE Namespace ------------------------------
(***************************************************************************)
(* The command that p9cpu sends: its fstab, from the namespace argument    *)
(* and the fstab file (p9cpu.rs, parse_namespace in lib.rs, FsTab in       *)
(* cmd.rs), the server's patch of the 9p line (server.rs), and what the    *)
(* mounts of the launcher show.                                            *)
(*                                                                         *)
(* A path is a sequence of names, an absolute one; the namespace argument  *)
(* is a sequence of parts (split at ':'), a part the sequence of its       *)
(* fields (split at '=').  The empty string is a path of its own.          *)
(***************************************************************************)
EXTENDS Naturals, Sequences, FiniteSets, SequencesExt, FiniteSetsExt

CONSTANTS
    TmpMnt,   \* --tmp-mnt, not empty (app bails out otherwise)
    Links,    \* symbolic links: [tree, dir, name, abs, to]
    WalkMax   \* names that the kernel walks for a path, links included

Empty == <<"">>
Path == Seq(STRING)

ASSUME TmpAssumption == TmpMnt \in Path /\ TmpMnt # << >>
ASSUME LinkAssumption ==
    /\ Links \subseteq [tree: STRING, dir: Path, name: STRING, abs: BOOLEAN, to: Path]
    /\ WalkMax \in Nat

Mnt9p == Append(TmpMnt, "mnt9p")
Local == Append(TmpMnt, "local")

FsTab == [spec: Path, file: Path, type: STRING, opts: SUBSET STRING]
Line(spec, at, type, opts) == [spec |-> spec, file |-> at, type |-> type, opts |-> opts]
NinepLine == Line(Empty, Mnt9p, "9p", {})

(* format!("{}/{}{}", tmp_mnt, NINEP_MOUNT, source).                       *)
BindLine(part) ==
    LET source == part[Len(part)]
    IN Line(Mnt9p \o IF source = Empty THEN << >> ELSE source, part[1], "none",
            {"defaults", "bind"})

(* Faulty variant: a target that is named again is mounted again.          *)
AddPartAgain(tab, part) == IF Len(part) > 2 THEN tab ELSE Append(tab, BindLine(part))

(* The body of the loop: `targets` are the files of the lines after the    *)
(* first.                                                                  *)
AddPart(tab, part) ==
    IF Len(part) > 2 \/ \E k \in 2..Len(tab) : tab[k].file = part[1] THEN tab
    ELSE Append(tab, BindLine(part))

(* The lines after each turn of the loop.                                  *)
Turns(parts) ==
    LET tab[k \in 0..Len(parts)] == IF k = 0 THEN <<NinepLine>> ELSE AddPart(tab[k - 1], parts[k])
    IN tab

ParseNamespace(parts) ==
    LET tab == Turns(parts)[Len(parts)]
    IN IF parts = << >> \/ Len(tab) = 1 THEN << >> ELSE tab

(* FsTab::try_from: a line of the file is [comment, fields, numbers, tab]. *)
BadLine(l) == ~l.comment /\ (l.fields # 6 \/ ~l.numbers)
FileLines(ls) == FlattenSeq([k \in DOMAIN ls |-> IF ls[k].comment THEN << >> ELSE <<ls[k].tab>>])

(* The Command that app builds; its ids are the caller's unless given.     *)
MakeCmd(a) ==
    LET tab == ParseNamespace(a.namespace)
    IN [ninep |-> tab # << >>, fstab |-> tab \o FileLines(a.lines), tty |-> a.tty,
        uid |-> a.uid, gid |-> a.gid]

(* Server::start: the 9p line gets the address of the forwarder.           *)
Patched(cmd) ==
    LET k == SelectInSeq(cmd.fstab, LAMBDA l : l.type = "9p" /\ l.file = Mnt9p)
    IN IF ~cmd.ninep \/ k = 0 THEN cmd
       ELSE [cmd EXCEPT !.fstab[k] = [@ EXCEPT !.spec = <<"127.0.0.1">>, !.opts = {"port"}]]

-----------------------------------------------------------------------------
(* A mount table is a sequence of [at, tree, path], oldest first: the tree *)
(* "client" is what the client exports, "tmpfs" what is mounted at TmpMnt, *)
(* "local" the server's own; bind mounts are not recursive.  The kernel is *)
(* external.                                                               *)
Show(ms, p) ==
    LET over == {k \in DOMAIN ms : IsPrefix(ms[k].at, p)}
        m == ms[Max(over)]
    IN IF over = {} THEN [tree |-> "local", path |-> p]
       ELSE [tree |-> m.tree, path |-> m.path \o SubSeq(p, Len(m.at) + 1, Len(p))]

(* mount(2) looks its paths up from the root of the server, name by name:  *)
(* '..' and the symbolic links of every tree are followed, and a lookup    *)
(* that is too long, or goes round, finds nothing.                         *)
LinksAt(ms, at, n) ==
    {l \in Links : l.name = n /\ Show(ms, at) = [tree |-> l.tree, path |-> l.dir]}

LookupStep(ms, w) ==
    LET n == Head(w.todo)
        rest == Tail(w.todo)
        links == LinksAt(ms, w.at, n)
    IN CASE w.todo = << >> -> {w}
         [] w.todo # << >> /\ n = ".." ->
              {[at |-> IF w.at = << >> THEN << >> ELSE Front(w.at), todo |-> rest]}
         [] w.todo # << >> /\ n # ".." /\ links = {} -> {[at |-> Append(w.at, n), todo |-> rest]}
         [] OTHER -> {[at |-> IF l.abs THEN << >> ELSE w.at, todo |-> l.to \o rest] : l \in links}

Lookup(ms, p) ==
    LET w[k \in 0..WalkMax] ==
          IF k = 0 THEN {[at |-> << >>, todo |-> p]}
          ELSE UNION {LookupStep(ms, x) : x \in w[k - 1]}
    IN w

(* Where a path leads: to one place, or nowhere.                           *)
Places(ms, p) == {w.at : w \in {x \in Lookup(ms, p)[WalkMax] : x.todo = << >>}}

(* A path that means what its names say, whatever is mounted.              *)
Plain(p) == \A k \in DOMAIN p : p[k] # ".." /\ \A l \in Links : l.name # p[k]

(* parse_fstab_opt finds MS_BIND among the options; then the type has no   *)
(* meaning.  Other file systems are one tree.                              *)
LineShows(ms, l) ==
    IF "bind" \in l.opts THEN {Show(ms, q) : q \in Places(ms, l.spec)}
    ELSE {[tree |-> IF l.type = "9p" /\ "port" \in l.opts THEN "client" ELSE "other",
           path |-> << >>]}
=============================================================================
