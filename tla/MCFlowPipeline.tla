---------------------------- MODULE MCFlowPipeline ----------------------------
(* FlowPipeline on small instances. *)
EXTENDS FlowPipeline

\* Of a slice anything may fail but the reader, which is done.  A writer that takes
\* Parts as they come, and the commit, do not see how a document was fed.
AllFaults ==
    [slice    |-> {"feeder", "tool", "writer", "commit"},
     reader   |-> {"reader", "feeder", "tool"},
     skeleton |-> {"tool", "writer"}]

OnlyTools == [how \in Feeds |-> {"tool"}]

=============================================================================
