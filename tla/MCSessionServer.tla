--------------------------- MODULE MCSessionServer ---------------------------
(* SessionServer on small instances.  Calls of one kind are                *)
(* interchangeable, and so are the ids.                                    *)
EXTENDS SessionServer, TLC

Symmetry == Permutations(Sids) \cup Permutations(Starts)
            \cup Permutations(Waits) \cup Permutations(Streams)
=============================================================================
