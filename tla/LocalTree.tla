------------------------------ MODULE LocalTree ------------------------------
(***************************************************************************)
(* The directory tree of the local machine, as the system calls of unpfs   *)
(* change it (the kernel: external).  A directory is the sequence of its   *)
(* entries, in the order in which read_dir returns them.                   *)
(***************************************************************************)
EXTENDS Naturals, Sequences, FiniteSets, SequencesExt

CONSTANTS
    Names,    \* names of directory entries
    Inos,     \* inode numbers, an interval from 1
    Tree,     \* the directories at the start: inode -> sequence of entries
    Files     \* the inodes that are regular files at the start

Root == 1
NoIno == 0

(* The tree has a root, and what its directories list is there.            *)
ASSUME TreeAssumption ==
    /\ Inos \subseteq Nat /\ NoIno \notin Inos
    /\ Root \in DOMAIN Tree /\ DOMAIN Tree \cap Files = {}
    /\ DOMAIN Tree \cup Files \subseteq Inos
    /\ \A d \in DOMAIN Tree : Tree[d] \in Seq([name: Names, ino: Inos])
(* A name is in a directory once.                                          *)
ASSUME EntryAssumption ==
    \A d \in DOMAIN Tree : \A j, k \in DOMAIN Tree[d] : Tree[d][j].name = Tree[d][k].name => j = k

VARIABLES
    dir,      \* the entries of each directory
    kind      \* "dir", "file" or "free", for each inode

TreeAtStart == [i \in Inos |-> IF i \in DOMAIN Tree THEN Tree[i] ELSE << >>]

TreeInit ==
    /\ dir = TreeAtStart
    /\ kind = [i \in Inos |-> IF i \in DOMAIN Tree THEN "dir"
                              ELSE IF i \in Files THEN "file" ELSE "free"]

Paths == {<<n>> : n \in Names} \cup Names \X Names

IndexIn(es, n) == SelectInSeq(es, LAMBDA e : e.name = n)

(* What a name stands for in a directory, and the inodes that a path goes  *)
(* through, when the directories are D.                                    *)
Child(D, d, n) ==
    IF d = NoIno \/ IndexIn(D[d], n) = 0 THEN NoIno
    ELSE D[d][IndexIn(D[d], n)].ino

Through(D, p) ==
    LET w[k \in 0..Len(p)] == IF k = 0 THEN Root ELSE Child(D, w[k - 1], p[k])
    IN w

(* The inode that a path names, not following a link at its end.           *)
ResolveIn(D, p) == Through(D, p)[Len(p)]
Resolve(p) == ResolveIn(dir, p)
Parent(p) == Resolve(Front(p))
IsDir(i) == i # NoIno /\ kind[i] = "dir"

(* The entry that a path ends in, and those that its resolution looks up.  *)
Entry(p) == <<Parent(p), Last(p)>>
Edges(p) == {Entry(SubSeq(p, 1, k)) : k \in DOMAIN p}

Unused == {i \in Inos : kind[i] = "free"}
Fresh == CHOOSE i \in Unused : \A j \in Unused : i <= j
Places(d) == 1..(Len(dir[d]) + 1)

(* open(O_CREAT) of a name that does not exist, and mkdir: the new entry   *)
(* takes some place in the order of the directory.                         *)
MakeEntry(p, as) ==
    /\ Unused # {}
    /\ kind' = [kind EXCEPT ![Fresh] = as]
    /\ \E k \in Places(Parent(p)) :
          dir' = [dir EXCEPT ![Parent(p)] = InsertAt(@, k, [name |-> Last(p), ino |-> Fresh])]

(* unlink(2) and rmdir(2).                                                 *)
DropEntry(p) ==
    /\ dir' = [dir EXCEPT ![Parent(p)] = RemoveAt(@, IndexIn(@, Last(p)))]
    /\ UNCHANGED kind

(* rename(2): what it refuses, and what it does.  An entry with the new    *)
(* name is replaced in its place.                                          *)
MayRename(p, q) ==
    /\ Resolve(p) # NoIno /\ IsDir(Parent(q))
    /\ \A k \in 0..(Len(q) - 1) : Resolve(SubSeq(q, 1, k)) # Resolve(p)
    /\ Resolve(q) # NoIno =>
          IF IsDir(Resolve(p)) THEN IsDir(Resolve(q)) /\ dir[Resolve(q)] = << >>
          ELSE ~IsDir(Resolve(q))

RenameEntry(p, q) ==
    LET e == [name |-> Last(q), ino |-> Resolve(p)]
        into(es, k) == IF Resolve(q) = NoIno THEN InsertAt(es, k, e)
                       ELSE [es EXCEPT ![IndexIn(es, Last(q))] = e]
        from(es) == RemoveAt(es, IndexIn(es, Last(p)))
    IN /\ UNCHANGED kind
       /\ \/ p = q /\ UNCHANGED dir
          \/ /\ p # q
             /\ \E k \in Places(Parent(q)) :
                  dir' = [[dir EXCEPT ![Parent(q)] = into(@, k)] EXCEPT ![Parent(p)] = from(@)]
=============================================================================
