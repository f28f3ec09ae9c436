----------------------------- MODULE MCProjector -----------------------------
(* Projector on small instances: two threads of one process, or of two. *)
EXTENDS Projector, TLC

CONSTANTS t, u

OneProcess == [x \in Thread |-> 1]

TwoProcesses == [x \in Thread |-> IF x = t THEN 1 ELSE 2]

\* Nothing tells threads of one process apart, nor cells.
Alike == {f \in Permutations(Thread \cup Cell) : \A c \in Cell : f[c] \in Cell}

=============================================================================
