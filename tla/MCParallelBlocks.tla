--------------------------- MODULE MCParallelBlocks ---------------------------
(***************************************************************************)
(* ParallelBlocks with two workers and two permits for other Parts, which  *)
(* makes a ring of four slots.  The streams are long enough to fill either *)
(* window, to go once around the ring, and to put blocks on both sides of  *)
(* a structural Part; at most one Part of a stream is dropped or fails.    *)
(***************************************************************************)
EXTENDS ParallelBlocks

Types(word) == [i \in DOMAIN word |-> [type |-> word[i], fate |-> "keep"]]

\* A stream, and the same with its second or fourth Part dropped or failing.
WithOneFate(str) ==
    {str} \cup
    {[str EXCEPT ![i].fate = f] :
        i \in {j \in {2, 4} \cap DOMAIN str : str[j].type # "passed"}, f \in {"drop", "error"}}

Words == {
    <<>>,
    <<"block", "block", "block", "block", "block">>,
    <<"block", "handled", "block", "block", "handled">>,
    <<"passed", "passed", "passed", "block", "block">>,
    <<"passed", "block", "handled", "block", "passed">>}

MCStreams == UNION {WithOneFate(Types(word)) : word \in Words}

=============================================================================
