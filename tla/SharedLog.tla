----------------------------- MODULE SharedLog -----------------------------
(***************************************************************************)
(* What sharing a project's context through a remote promises: machines    *)
(* say things, what was said is published, and each machine comes to hold  *)
(* what was published.  Only the removal of the project from a machine     *)
(* takes anything away from it, and it takes everything.                   *)
(***************************************************************************)
CONSTANTS
    Machine,
    Statement   \* what an operation says, whichever id it goes by

VARIABLES
    said,       \* what any machine has said
    published,  \* what the remote offers
    holds       \* per machine, what its context is made of

vars == <<said, published, holds>>

Init ==
    /\ said = {}
    /\ published = {}
    /\ holds = [m \in Machine |-> {}]

Say(m) ==
    /\ \E s \in Statement \ holds[m] :
        /\ said' = said \cup {s}
        /\ holds' = [holds EXCEPT ![m] = @ \cup {s}]
    /\ UNCHANGED published

Publish ==
    /\ \E S \in SUBSET said : published' = published \cup S
    /\ UNCHANGED <<said, holds>>

Receive(m) ==
    /\ \E S \in SUBSET published : holds' = [holds EXCEPT ![m] = @ \cup S]
    /\ UNCHANGED <<said, published>>

Remove(m) ==
    /\ holds' = [holds EXCEPT ![m] = {}]
    /\ UNCHANGED <<said, published>>

Next == Publish \/ \E m \in Machine : Say(m) \/ Receive(m) \/ Remove(m)

Spec == Init /\ [][Next]_vars
=============================================================================
