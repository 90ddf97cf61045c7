------------------------------ MODULE MCSystem ------------------------------
(* The commands of the run.                                                *)
EXTENDS System

A == <<"a">>
B == <<"b">>
MCTmp == <<"tmp">>

(* On the client an absolute link, a relative one and one that goes round; *)
(* on the server one in the root.                                          *)
Link(tree, name, abs, to) == [tree |-> tree, dir |-> << >>, name |-> name, abs |-> abs, to |-> to]
MCLinks == {Link("client", "l", TRUE, B), Link("client", "u", FALSE, <<"..", "..">>),
            Link("client", "o", FALSE, <<"o">>), Link("local", "r", FALSE, A)}

(* A target, with and without a source; the root as a source; a directory  *)
(* below another target; the directory of the mounts; a part with three    *)
(* fields and an empty one; a target below the 9p mount.                   *)
MCParts == {<<A>>, <<A, B>>, <<B, << >>>>, <<A \o B>>, <<MCTmp>>, <<A, B, B>>, <<Empty>>}
MCSpaces == {<< >>} \cup {<<p>> : p \in MCParts} \cup MCParts \X MCParts
            \cup {<<<<A, B>>, <<MCTmp>>, <<B>>>>, <<<<A>>, <<B>>, <<A, B>>>>,
                  <<<<Mnt9p \o A, B>>, <<B, A \o B>>>>,
                  <<<<A, <<"..", "..", "b">>>>>>, <<<<A, <<"l">>>>, <<B>>>>, <<<<A, <<"u", "b">>>>>>,
                  <<<<A, <<"o">>>>>>, <<<<<<"r", "b">>, B>>>>}

Good(l) == [comment |-> FALSE, fields |-> 6, numbers |-> TRUE, tab |-> l]
Scratch == Good(Line(<<"none">>, A, "tmpfs", {"defaults"}))
BindB == Good(Line(B, A, "none", {"bind"}))
Own9p == Good(Line(<<"127.0.0.1">>, B, "9p", {"trans=tcp"}))
MCLines == {<< >>, <<Scratch>>, <<[Scratch EXCEPT !.comment = TRUE], BindB>>, <<Own9p, Scratch>>,
            <<[Scratch EXCEPT !.fields = 5]>>, <<[Scratch EXCEPT !.numbers = FALSE]>>}

Args(ns, ls, ttys) == [namespace: ns, lines: ls, tty: ttys, uid: {1}, gid: {2}]
Root(as) == {[a EXCEPT !.uid = 0, !.gid = 0] : a \in as}
MCPlans == {
    [args |-> Args(MCSpaces, {<< >>}, {FALSE}), calls |-> 2, faults |-> 0],
    [args |-> Args({<< >>, <<<<A>>>>}, MCLines, {FALSE}), calls |-> 2, faults |-> 0],
    [args |-> Root(Args({<< >>}, {<< >>}, {TRUE})) \cup Args({<<<<A>>>>}, {<< >>}, {FALSE}),
     calls |-> 4, faults |-> 2]}
=============================================================================
