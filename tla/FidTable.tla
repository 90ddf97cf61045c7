------------------------------ MODULE FidTable ------------------------------
(***************************************************************************)
(* What the fid table of a 9P server promises to its client: attach and    *)
(* walk bind an unused fid, in one step, create moves a bound one, clunk   *)
(* unbinds it, and nothing else changes the table.                         *)
(***************************************************************************)
CONSTANTS Fids, Paths, Root, NoPath

VARIABLE table    \* the path each fid stands for

TableInit == table = [f \in Fids |-> NoPath]

Attach(f) ==
    /\ table[f] = NoPath
    /\ table' = [table EXCEPT ![f] = Root]

Walk(f, g, p) ==
    /\ table[f] # NoPath
    /\ table[g] = NoPath
    /\ table' = [table EXCEPT ![g] = p]

Create(f, p) ==
    /\ table[f] # NoPath
    /\ table' = [table EXCEPT ![f] = p]

Clunk(f) ==
    /\ table[f] # NoPath
    /\ table' = [table EXCEPT ![f] = NoPath]

TableNext ==
    \/ \E f \in Fids : Attach(f) \/ Clunk(f)
    \/ \E f \in Fids, p \in Paths : Create(f, p)
    \/ \E f, g \in Fids, p \in Paths : Walk(f, g, p)

TableSpec == TableInit /\ [][TableNext]_table
=============================================================================
