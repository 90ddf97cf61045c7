------------------------------ MODULE MCUnpfs ------------------------------
(* The tree and the workloads of the run.                                  *)
EXTENDS Unpfs

CONSTANTS f1, f2, f3

(* /: d (a directory), a, b; /d: a.                                        *)
MCTree == 1 :> <<[name |-> "d", ino |-> 2], [name |-> "a", ino |-> 3], [name |-> "b", ino |-> 4]>>
          @@ 2 :> <<[name |-> "a", ino |-> 5]>>
MCFiles == {3, 4, 5}

AtRoot == f1 :> << << >>, 1>>
InTree == AtRoot @@ f2 :> << <<"d">>, 2>>
OneFile == AtRoot @@ f2 :> << <<"a">>, 3>>
Twice == f2 :> << <<"a">>, 3>> @@ f3 :> << <<"a">>, 3>>
OnFile == OneFile @@ Twice

MCWalks == {<< >>, <<"d">>, <<"a">>, <<"d", "a">>, <<"d", "b">>}
MCWants == {<<"mode", "owner", "size", "times">>, <<"mode", "size">>}

(* Data of a file that is opened once, or twice; walking and opening;      *)
(* changes of the tree; changes of attributes; listings.                   *)
MCLoads == {
    [ops |-> {"read", "write", "fsync", "clunk"}, paths |-> OneFile, open |-> {f2},
     reqs |-> 3, env |-> 0],
    [ops |-> {"read", "write", "clunk"}, paths |-> Twice, open |-> {f2, f3},
     reqs |-> 3, env |-> 0],
    [ops |-> {"attach", "walk", "lopen", "look", "clunk"}, paths |-> InTree, open |-> {},
     reqs |-> 2, env |-> 1],
    [ops |-> {"lcreate", "mkdir", "unlinkat", "renameat"}, paths |-> InTree, open |-> {},
     reqs |-> 2, env |-> 0],
    [ops |-> {"setattr"}, paths |-> OnFile, open |-> {}, reqs |-> 1, env |-> 1],
    [ops |-> {"readdir"}, paths |-> AtRoot, open |-> {}, reqs |-> 1, env |-> 2]}
=============================================================================
