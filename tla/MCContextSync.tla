--------------------------- MODULE MCContextSync ---------------------------
(* ContextSync on small instances: two machines, with one or two processes. *)
EXTENDS ContextSync, TLC

CONSTANTS draft, m1, m2, a, b, c

MCAddress == {draft}

MCKindOf == draft :> "edit"

OnOneEach == (a :> m1) @@ (c :> m2)

OnTwo == (a :> m1) @@ (b :> m1)

\* Machines that run alike are interchangeable, with their processes.
Interchange ==
    {f \in Permutations(Machine \cup Process) :
        \A p \in Process : f[p] \in Process /\ On[f[p]] = f[On[p]]}
=============================================================================
