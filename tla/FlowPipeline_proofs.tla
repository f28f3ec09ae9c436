-------------------------- MODULE FlowPipeline_proofs --------------------------
(***************************************************************************)
(* What FlowPipeline promises of a document, for documents, flows and      *)
(* channels of every size and for every way of feeding it.                 *)
(*                                                                         *)
(* The argument follows a Part down the links.  As long as nothing failed  *)
(* and the caller's context stands, a stage closes its link only when the  *)
(* link before it is closed and empty, so what the reader has read has     *)
(* been sent on every closed link or was dropped by a tool (Whole).  Two   *)
(* stages lose Parts without an error, the feeder and the seed relay, and  *)
(* both take the feeder's context for it: that is called off with the      *)
(* caller's, or by the run once its tools are done, when both are done     *)
(* too unless a tool failed (FeedIsOver).  So a feeder that ends otherwise *)
(* has come to the end of the reader's link and has heard its error, if    *)
(* there was one (Heard); and a skeleton that such a feeder has closed has *)
(* all its entries (Rendered).                                             *)
(***************************************************************************)
EXTENDS FlowPipeline, TLAPS

\* How the pieces of a stage's state go together.
Stages ==
    /\ failed \subseteq {Reader, Feeder} \cup Tool
    /\ \A k \in Link :
        /\ closed[k] <=> at[k] \in {"failing", "closing", "done"}
        /\ at[k] = "failing" => k \in Tool /\ k \in failed
        /\ at[k] = "closing" => k = Feeder
        /\ at[k] = "drain" => k = Seed /\ "feed" \in called

\* What a stage has received it has sent, has in hand or has dropped; so it is with
\* what the reader has read.
Passed ==
    /\ parsed \subseteq sent[Reader] \cup {hand[Reader]} \/ "run" \in called
    /\ \A k \in Link \ {Reader} :
        \/ got[k - 1] \subseteq sent[k] \cup dropped \cup {hand[k]}
        \/ k \in failed
        \/ k \in {Feeder, Seed} /\ "feed" \in called

\* A relay or a tool that is done without an error has come to the end of its input.
Ended ==
    \A k \in Link \ {Reader, Feeder} : at[k] = "done" /\ k \notin failed => AtEnd(k - 1)

\* Unless the caller calls the run off, the feeder is called off by the run.
CalledOff ==
    "feed" \in called /\ "run" \notin called => main \in {"joining", "committing", "returned"}

\* Nothing but the reader has failed, and nobody has called the run off.
Clean == failed \cap (Tool \cup {Feeder}) = {} /\ "run" \notin called

\* Then a feeder that ends has read the reader's link to its end.
Heard == Clean /\ closed[Feeder] => AtEnd(Reader) /\ Reader \notin failed

\* In a run in which nothing failed and that nobody called off, a closed link
\* has carried the document, but for what the tools have dropped.
Whole ==
    failed = {} /\ "run" \notin called =>
        /\ closed[Reader] => parsed = Part
        /\ \A k \in Link : closed[k] => Part \subseteq sent[k] \cup dropped

\* What the run has seen when it gets to a place.
Waited ==
    /\ main \in {"waiting", "joining", "committing", "returned"} => AtEnd(Tap)
    /\ main \in {"joining", "committing", "returned"} => ToolsDone
    /\ main \in {"committing", "returned"} => Joined
    /\ main = "committing" => Succeeded
    /\ main = "returned" => at[Reader] = "done" \/ outcome = "error"

\* The writer has taken what has left the tap, until it fails.
Taken == writer = "ok" => written = got[Tap] /\ main # "draining"

\* A streaming writer is past the skeleton when the feeder has closed it, and then
\* there are no entries to come.
Rendered ==
    feed = "skeleton" /\ writer = "ok" /\ main # "writing" =>
        at[Feeder] = "done" /\ (Clean => rendered = parsed)

Committed ==
    CommittedIsWhole /\ (doc = "committed" => main = "returned" /\ outcome = "ok")

IInv ==
    /\ TypeOK /\ Stages /\ Passed /\ Ended /\ CalledOff /\ Heard /\ Whole
    /\ Waited /\ Taken /\ Rendered /\ Committed

\* What a step of the stages never takes back.
Grows ==
    /\ \A k \in Link :
        /\ closed[k] => closed'[k] /\ sent'[k] = sent[k]
        /\ sent[k] \subseteq sent'[k] /\ got[k] \subseteq got'[k]
        /\ at[k] = "done" => at'[k] = "done"
    /\ dropped \subseteq dropped'
    /\ parsed \subseteq parsed' /\ feed' = feed
    /\ failed \subseteq failed'

----------------------------------------------------------------------------
(* The links *)

\* Where the stages stand in the row of links.
LEMMA LinkFacts ==
    /\ Reader \in Link /\ Feeder \in Link \ {Reader}
    /\ Seed \in Link \ {Reader, Feeder} /\ Tap \in Link \ {Reader, Feeder}
    /\ Tool \subseteq Link \ {Reader, Feeder, Seed, Tap}
    /\ Reader # Feeder /\ Seed # Tap
    /\ \A k \in Link : k = Reader \/ k = Feeder \/ k = Seed \/ k \in Tool \/ k = Tap
    /\ \A k \in Link \ {Reader} : k - 1 \in Link /\ k - 1 # k /\ k - 1 # Tap
    /\ \A j, k \in Link \ {Reader} : j - 1 = k - 1 => j = k
    /\ Feeder - 1 = Reader /\ Seed - 1 = Feeder
    /\ None \notin Part
BY ToolsAssumption, PartsAssumption DEF Reader, Feeder, Seed, Tap, Tool, Link, Part, None

\* A link that is closed and empty stays so.
LEMMA EndStays ==
    ASSUME TypeOK', Grows, NEW k \in Link, AtEnd(k)
    PROVE  AtEnd(k)'
BY DEF TypeOK, Grows, AtEnd, InTransit

\* When the run has waited and no tool failed, the feeder and its relay are done.
LEMMA FeedIsOver ==
    ASSUME IInv, failed \cap Tool = {}, main \in {"joining", "committing", "returned"}
    PROVE  closed[Feeder] /\ closed[Seed]
<1>1. 2 \in Tool /\ 2 \in Link \ {Reader, Feeder} /\ 2 - 1 = Seed
  BY ToolsAssumption DEF Tool, Link, Tap, Reader, Feeder, Seed
<1>2. at[2] = "done"
  BY <1>1 DEF IInv, Waited, ToolsDone
<1>3. closed[Seed]
  BY <1>1, <1>2 DEF IInv, Ended, AtEnd
<1>4. at[Seed] = "done" /\ Seed \notin failed
  BY <1>3, LinkFacts DEF IInv, Stages
<1>5. closed[Feeder]
  BY <1>4, LinkFacts DEF IInv, Ended, AtEnd
<1> QED BY <1>3, <1>5

\* In a clean run the feeder's context is called off only when the feeder is done.
LEMMA NotCalledOff ==
    ASSUME IInv, ~closed[Feeder] \/ ~closed[Seed], failed \cap Tool = {}, "run" \notin called
    PROVE  "feed" \notin called
BY FeedIsOver DEF IInv, CalledOff

\* What a step of the stages leaves of the run's own conjuncts.
LEMMA RunKept ==
    ASSUME IInv, TypeOK', Grows, called \subseteq called',
           UNCHANGED <<rendered, main, written, writer, ending>>, got'[Tap] = got[Tap],
           parsed' = parsed \/ at[Reader] # "done",
           main \in {"committing", "returned"} =>
               failed' \cap (Tool \cup {Feeder}) = failed \cap (Tool \cup {Feeder}),
           failed' = failed \/ at[Reader] # "done" \/ at[Feeder] # "done" \/ ~ToolsDone
    PROVE  Waited' /\ Taken' /\ Rendered' /\ Committed'
<1>1. main \in {"waiting", "joining", "committing", "returned"} => AtEnd(Tap)'
  BY EndStays, LinkFacts DEF IInv, Waited
<1>2. main \in {"joining", "committing", "returned"} => ToolsDone'
  BY LinkFacts DEF IInv, Waited, ToolsDone, Grows
<1>3. main \in {"committing", "returned"} => Joined'
  BY LinkFacts DEF IInv, Waited, Joined, Grows
<1>4. main = "committing" => Succeeded'
  BY DEF IInv, Waited, Succeeded, ending
<1>5. main = "returned" => at'[Reader] = "done" \/ outcome' = "error"
  BY LinkFacts DEF IInv, Waited, Grows, ending
<1>6. Waited'
  BY <1>1, <1>2, <1>3, <1>4, <1>5 DEF Waited
<1>7. Taken'
  BY DEF IInv, Taken
<1>8. Rendered'
  <2>1. Clean' => Clean
    BY DEF Clean, Grows
  <2> SUFFICES ASSUME feed = "skeleton", writer = "ok", main # "writing"
               PROVE  at'[Feeder] = "done" /\ (Clean' => rendered' = parsed')
    BY DEF Rendered, Grows
  <2>2. at[Feeder] = "done" /\ (Clean => rendered = parsed)
    BY DEF IInv, Rendered
  <2>3. Clean => at[Reader] = "done"
    BY <2>2, LinkFacts DEF IInv, Heard, Stages, AtEnd
  <2> QED BY <2>1, <2>2, <2>3, LinkFacts DEF Grows
<1>9. Committed'
  <2> SUFFICES ASSUME doc = "committed" PROVE Committed'
    BY DEF Committed, CommittedIsWhole, ending
  <2>1. /\ CommittedIsWhole /\ main = "returned" /\ outcome = "ok"
        /\ at[Reader] = "done" /\ at[Feeder] = "done" /\ ToolsDone
    BY DEF IInv, Committed, Waited, Joined
  <2>2. Part \subseteq written' \cup dropped' /\ failed' = failed
    BY <2>1 DEF CommittedIsWhole, Grows
  <2> QED BY <2>1, <2>2 DEF Committed, CommittedIsWhole, Grows, ending
<1> QED BY <1>6, <1>7, <1>8, <1>9

\* Ended, when no stage comes to be done but at the end of its input.
LEMMA EndedKept ==
    ASSUME IInv, TypeOK', Grows,
           \A k \in Link \ {Reader, Feeder} :
               at'[k] = "done" => at[k] = "done" \/ k \in failed' \/ AtEnd(k - 1)
    PROVE  Ended'
<1> SUFFICES ASSUME NEW k \in Link \ {Reader, Feeder}, at'[k] = "done", k \notin failed'
             PROVE  AtEnd(k - 1)'
  BY DEF Ended
<1>1. AtEnd(k - 1)
  BY DEF IInv, Ended, Grows
<1> QED BY <1>1, EndStays, LinkFacts

\* Heard, when the feeder's link is not closed by the step, and the reader not failed.
LEMMA HeardKept ==
    ASSUME IInv, TypeOK', Grows, called \subseteq called',
           closed'[Feeder] => closed[Feeder],
           Reader \in failed' => Reader \in failed \/ ~closed[Reader]
    PROVE  Heard'
<1> SUFFICES ASSUME Clean', closed'[Feeder]
             PROVE  AtEnd(Reader)' /\ Reader \notin failed'
  BY DEF Heard
<1>1. AtEnd(Reader) /\ Reader \notin failed
  BY DEF IInv, Heard, Clean, Grows
<1> QED BY <1>1, EndStays, LinkFacts DEF AtEnd

\* Whole, when a link that is closed by the step was whole.
LEMMA WholeKept ==
    ASSUME IInv, TypeOK', Grows, called \subseteq called',
           failed' = {} /\ "run" \notin called' =>
               /\ closed'[Reader] => closed[Reader] \/ parsed = Part
               /\ \A k \in Link : closed'[k] => closed[k] \/ Part \subseteq sent[k] \cup dropped
    PROVE  Whole'
<1> SUFFICES ASSUME failed' = {}, "run" \notin called'
             PROVE  /\ closed'[Reader] => parsed' = Part
                    /\ \A k \in Link : closed'[k] => Part \subseteq sent'[k] \cup dropped'
  BY DEF Whole
<1>0. failed = {} /\ "run" \notin called
  BY DEF Grows
<1>1. closed'[Reader] => parsed = Part
  BY <1>0 DEF IInv, Whole
<1>2. \A k \in Link : closed'[k] => Part \subseteq sent[k] \cup dropped
  BY <1>0 DEF IInv, Whole
<1> QED BY <1>1, <1>2 DEF Grows, TypeOK

----------------------------------------------------------------------------
(* The stages *)

\* The reader reads a Part.
LEMMA ParseKeeps ==
    ASSUME IInv, Parse
    PROVE  IInv'
<1>1. TypeOK'
  BY LinkFacts DEF IInv, TypeOK, Parse, Goto, Rest, ending
<1>2. Grows
  BY LinkFacts DEF IInv, TypeOK, Stages, Grows, InTransit, Parse, Goto, Rest, ending
<1>3. Stages'
  BY LinkFacts DEF IInv, TypeOK, Stages, Parse, Goto, Rest, ending
<1>4. Passed'
  BY LinkFacts DEF IInv, TypeOK, Stages, Passed, Parse, Goto, Rest, ending
<1>5. Ended'
  BY <1>1, <1>2, EndedKept, LinkFacts DEF IInv, TypeOK, Stages, Parse, Goto, Rest, ending
<1>6. Heard'
  BY <1>1, <1>2, HeardKept, LinkFacts DEF IInv, TypeOK, Stages, Parse, Goto, Rest, ending
<1>7. Whole'
  BY <1>1, <1>2, WholeKept, LinkFacts DEF IInv, TypeOK, Parse, Goto, Rest, ending
<1>8. CalledOff'
  BY DEF IInv, CalledOff, Parse, Goto, Rest, ending
<1>9. Waited' /\ Taken' /\ Rendered' /\ Committed'
  BY <1>1, <1>2, RunKept, LinkFacts DEF IInv, TypeOK, Stages, Waited, Joined, ToolsDone,
     Parse, Goto, Rest, ending
<1> QED BY <1>1, <1>3, <1>4, <1>5, <1>6, <1>7, <1>8, <1>9 DEF IInv

\* The reader ends, with the document read unless it was called off.
LEMMA ReadEndsKeeps ==
    ASSUME IInv, ReadEnds
    PROVE  IInv'
<1>1. TypeOK'
  BY LinkFacts DEF IInv, TypeOK, ReadEnds, Finish, Goto, Rest, ending, source
<1>2. Grows
  BY LinkFacts DEF IInv, TypeOK, Stages, Grows, InTransit, ReadEnds, Finish, Goto, Rest,
     ending, source
<1>3. Stages'
  BY LinkFacts DEF IInv, TypeOK, Stages, ReadEnds, Finish, Goto, Rest, ending, source
<1>4. Passed'
  BY LinkFacts DEF IInv, TypeOK, Stages, Passed, ReadEnds, Finish, Goto, Rest, ending, source
<1>5. Ended'
  BY <1>1, <1>2, EndedKept, LinkFacts DEF IInv, TypeOK, Stages, ReadEnds, Finish, Goto, Rest,
     ending, source
<1>6. Heard'
  BY <1>1, <1>2, HeardKept, LinkFacts DEF IInv, TypeOK, Stages, ReadEnds, Finish, Goto, Rest,
     ending, source
<1>7. Whole'
  <2>1. ASSUME failed = {}, "run" \notin called
        PROVE  parsed = Part /\ Part \subseteq sent[Reader] \cup dropped
    <3>1. at[Reader] = "receive" /\ parsed = Part
      BY <2>1 DEF ReadEnds
    <3>2. hand[Reader] = None
      BY <3>1, LinkFacts DEF IInv, TypeOK
    <3>3. parsed \subseteq sent[Reader] \cup {hand[Reader]}
      BY <2>1 DEF IInv, Passed
    <3> QED BY <3>1, <3>2, <3>3, LinkFacts
  <2>2. \A j \in Link : closed'[j] => closed[j] \/ j = Reader
    BY DEF IInv, TypeOK, ReadEnds, Finish
  <2>3. failed' = failed /\ called' = called
    BY DEF ReadEnds, Rest
  <2> QED BY <1>1, <1>2, <2>1, <2>2, <2>3, WholeKept
<1>8. CalledOff'
  BY DEF IInv, CalledOff, ReadEnds, Finish, Goto, Rest, ending, source
<1>9. Waited' /\ Taken' /\ Rendered' /\ Committed'
  BY <1>1, <1>2, RunKept, LinkFacts DEF IInv, TypeOK, Stages, Waited, Joined, ToolsDone,
     ReadEnds, Finish, Goto, Rest, ending, source
<1> QED BY <1>1, <1>3, <1>4, <1>5, <1>6, <1>7, <1>8, <1>9 DEF IInv

\* The reader fails.
LEMMA ReadFailsKeeps ==
    ASSUME IInv, ReadFails
    PROVE  IInv'
<1>1. TypeOK'
  BY LinkFacts DEF IInv, TypeOK, ReadFails, Finish, Goto, Rest, ending, source
<1>2. Grows
  BY LinkFacts DEF IInv, TypeOK, Stages, Grows, InTransit, ReadFails, Finish, Goto, Rest,
     ending, source
<1>3. Stages'
  BY LinkFacts DEF IInv, TypeOK, Stages, ReadFails, Finish, Goto, Rest, ending, source
<1>4. Passed'
  BY LinkFacts DEF IInv, TypeOK, Stages, Passed, ReadFails, Finish, Goto, Rest, ending, source
<1>5. Ended'
  BY <1>1, <1>2, EndedKept, LinkFacts DEF IInv, TypeOK, Stages, ReadFails, Finish, Goto,
     Rest, ending, source
<1>6. Heard'
  BY <1>1, <1>2, HeardKept, LinkFacts DEF IInv, TypeOK, Stages, ReadFails, Finish, Goto,
     Rest, ending, source
<1>7. Whole'
  BY <1>1, <1>2, WholeKept, LinkFacts DEF IInv, TypeOK, ReadFails, Finish, Goto, Rest,
     ending, source
<1>8. CalledOff'
  BY DEF IInv, CalledOff, ReadFails, Finish, Goto, Rest, ending, source
<1>9. Waited' /\ Taken' /\ Rendered' /\ Committed'
  BY <1>1, <1>2, RunKept, LinkFacts DEF IInv, TypeOK, Stages, Waited, Joined, ToolsDone,
     ReadFails, Finish, Goto, Rest, ending, source
<1> QED BY <1>1, <1>3, <1>4, <1>5, <1>6, <1>7, <1>8, <1>9 DEF IInv

\* The feeder ends: if it was called off before, the caller has done so, or a tool
\* has failed.
LEMMA FeedEndsKeeps ==
    ASSUME IInv, FeedEnds
    PROVE  IInv'
<1>0. Clean => "feed" \notin called
  BY NotCalledOff, LinkFacts DEF IInv, Clean, Stages, FeedEnds
<1>1. TypeOK'
  BY LinkFacts DEF IInv, TypeOK, FeedEnds, Finish, Goto, Rest, ending, source
<1>2. Grows
  BY LinkFacts DEF IInv, TypeOK, Stages, Grows, InTransit, FeedEnds, Finish, Goto, Rest,
     ending, source
<1>3. Stages'
  BY LinkFacts DEF IInv, TypeOK, Stages, FeedEnds, Finish, Goto, Rest, ending, source
<1>4. Passed'
  BY LinkFacts DEF IInv, TypeOK, Stages, Passed, FeedEnds, Finish, Goto, Rest, ending, source
<1>5. Ended'
  BY <1>1, <1>2, EndedKept, LinkFacts DEF IInv, TypeOK, Stages, FeedEnds, Finish, Goto, Rest,
     ending, source
<1>6. Heard'
  <2>1. AtEnd(Reader)'
    BY <1>1, <1>2, EndStays, LinkFacts DEF FeedEnds
  <2>2. Feeder \notin failed' => Reader \notin failed'
    BY LinkFacts DEF FeedEnds
  <2> QED BY <2>1, <2>2, LinkFacts DEF Heard, Clean
<1>7. Whole'
  <2>1. ASSUME failed = {}, "run" \notin called
        PROVE  Part \subseteq sent[Feeder] \cup dropped
    <3>1. got[Reader] \subseteq sent[Feeder] \cup dropped \cup {hand[Feeder]}
      BY <1>0, <2>1, LinkFacts DEF IInv, Passed, Clean
    <3>2. hand[Feeder] = None
      BY LinkFacts DEF IInv, TypeOK, FeedEnds
    <3>3. Part \subseteq sent[Reader] \cup dropped
      BY <2>1, LinkFacts DEF IInv, Whole, FeedEnds, AtEnd
    <3>4. sent[Reader] \subseteq got[Reader]
      BY DEF FeedEnds, AtEnd, InTransit
    <3> QED BY <3>1, <3>2, <3>3, <3>4, LinkFacts
  <2>2. \A j \in Link : closed'[j] => closed[j] \/ j = Feeder
    BY DEF IInv, TypeOK, FeedEnds, Finish
  <2>3. failed \subseteq failed' /\ called' = called
    BY DEF FeedEnds, Rest
  <2> QED BY <1>1, <1>2, <2>1, <2>2, <2>3, WholeKept, LinkFacts
<1>8. CalledOff'
  BY DEF IInv, CalledOff, FeedEnds, Finish, Goto, Rest, ending, source
<1>9. Waited' /\ Taken' /\ Rendered' /\ Committed'
  BY <1>1, <1>2, RunKept, LinkFacts DEF IInv, TypeOK, Stages, Waited, Joined, ToolsDone,
     FeedEnds, Finish, Goto, Rest, ending, source
<1> QED BY <1>1, <1>3, <1>4, <1>5, <1>6, <1>7, <1>8, <1>9 DEF IInv

\* The feeder fails.
LEMMA FeedFailsKeeps ==
    ASSUME IInv, FeedFails
    PROVE  IInv'
<1>1. TypeOK'
  BY LinkFacts DEF IInv, TypeOK, FeedFails, Finish, Goto, Rest, ending, source
<1>2. Grows
  BY LinkFacts DEF IInv, TypeOK, Stages, Grows, InTransit, FeedFails, Finish, Goto, Rest,
     ending, source
<1>3. Stages'
  BY LinkFacts DEF IInv, TypeOK, Stages, FeedFails, Finish, Goto, Rest, ending, source
<1>4. Passed'
  BY LinkFacts DEF IInv, TypeOK, Stages, Passed, FeedFails, Finish, Goto, Rest, ending, source
<1>5. Ended'
  BY <1>1, <1>2, EndedKept, LinkFacts DEF IInv, TypeOK, Stages, FeedFails, Finish, Goto,
     Rest, ending, source
<1>6. Heard'
  BY LinkFacts DEF Heard, Clean, FeedFails
<1>7. Whole'
  BY <1>1, <1>2, WholeKept, LinkFacts DEF IInv, TypeOK, FeedFails, Finish, Goto, Rest,
     ending, source
<1>8. CalledOff'
  BY DEF IInv, CalledOff, FeedFails, Finish, Goto, Rest, ending, source
<1>9. Waited' /\ Taken' /\ Rendered' /\ Committed'
  BY <1>1, <1>2, RunKept, LinkFacts DEF IInv, TypeOK, Stages, Waited, Joined, ToolsDone,
     FeedFails, Finish, Goto, Rest, ending, source
<1> QED BY <1>1, <1>3, <1>4, <1>5, <1>6, <1>7, <1>8, <1>9 DEF IInv

\* The feeder is called off with a Part in hand.
LEMMA FeedCalledOffKeeps ==
    ASSUME IInv, FeedCalledOff
    PROVE  IInv'
<1>0. ~Clean
  BY NotCalledOff, LinkFacts DEF IInv, Clean, Stages, FeedCalledOff
<1>1. TypeOK'
  BY LinkFacts DEF IInv, TypeOK, FeedCalledOff, Finish, Goto, Rest, ending, source
<1>2. Grows
  BY LinkFacts DEF IInv, TypeOK, Stages, Grows, InTransit, FeedCalledOff, Finish, Goto, Rest,
     ending, source
<1>3. Stages'
  BY LinkFacts DEF IInv, TypeOK, Stages, FeedCalledOff, Finish, Goto, Rest, ending, source
<1>4. Passed'
  BY LinkFacts DEF IInv, TypeOK, Stages, Passed, FeedCalledOff, Finish, Goto, Rest, ending,
     source
<1>5. Ended'
  BY <1>1, <1>2, EndedKept, LinkFacts DEF IInv, TypeOK, Stages, FeedCalledOff, Finish, Goto,
     Rest, ending, source
<1>6. Heard'
  BY <1>0 DEF Heard, Clean, FeedCalledOff, Rest
<1>7. Whole'
  BY <1>0 DEF Whole, Clean, FeedCalledOff, Rest
<1>8. CalledOff'
  BY DEF IInv, CalledOff, FeedCalledOff, Finish, Goto, Rest, ending, source
<1>9. Waited' /\ Taken' /\ Rendered' /\ Committed'
  BY <1>1, <1>2, RunKept, LinkFacts DEF IInv, TypeOK, Stages, Waited, Joined, ToolsDone,
     FeedCalledOff, Finish, Goto, Rest, ending, source
<1> QED BY <1>1, <1>3, <1>4, <1>5, <1>6, <1>7, <1>8, <1>9 DEF IInv

\* The feeder closes the skeleton and the reader.
LEMMA FeederReturnsKeeps ==
    ASSUME IInv, FeederReturns
    PROVE  IInv'
<1>1. TypeOK'
  BY LinkFacts DEF IInv, TypeOK, FeederReturns, Goto, Rest, ending, source
<1>2. Grows
  BY LinkFacts DEF IInv, TypeOK, Stages, Grows, InTransit, FeederReturns, Goto, Rest, ending,
     source
<1>3. Stages'
  BY LinkFacts DEF IInv, TypeOK, Stages, FeederReturns, Goto, Rest, ending, source
<1>4. Passed'
  BY LinkFacts DEF IInv, TypeOK, Stages, Passed, FeederReturns, Goto, Rest, ending, source
<1>5. Ended'
  BY <1>1, <1>2, EndedKept, LinkFacts DEF IInv, TypeOK, Stages, FeederReturns, Goto, Rest,
     ending, source
<1>6. Heard'
  BY <1>1, <1>2, HeardKept, LinkFacts DEF IInv, TypeOK, Stages, FeederReturns, Goto, Rest,
     ending, source
<1>7. Whole'
  BY <1>1, <1>2, WholeKept, LinkFacts DEF IInv, TypeOK, FeederReturns, Goto, Rest, ending,
     source
<1>8. CalledOff'
  BY DEF IInv, CalledOff, FeederReturns, Goto, Rest, ending, source
<1>9. Waited' /\ Taken' /\ Rendered' /\ Committed'
  BY <1>1, <1>2, RunKept, LinkFacts DEF IInv, TypeOK, Stages, Waited, Joined, ToolsDone,
     FeederReturns, Goto, Rest, ending, source
<1> QED BY <1>1, <1>3, <1>4, <1>5, <1>6, <1>7, <1>8, <1>9 DEF IInv

\* A stage receives a Part.
LEMMA ReceiveKeeps ==
    ASSUME IInv, NEW k \in Link \ {Reader}, Receive(k)
    PROVE  IInv'
<1>1. TypeOK'
  BY LinkFacts DEF IInv, TypeOK, Receive, First, InTransit, Goto, Rest, ending, source
<1>2. Grows
  BY LinkFacts DEF IInv, TypeOK, Stages, Grows, InTransit, Receive, First, InTransit, Goto,
     Rest, ending, source
<1>3. Stages'
  BY LinkFacts DEF IInv, TypeOK, Stages, Receive, First, InTransit, Goto, Rest, ending, source
<1>4. Passed'
  <2>1. hand[k] = None
    BY DEF IInv, TypeOK, Receive
  <2>2. ASSUME NEW j \in Link \ {Reader}, j \notin failed,
               ~(j \in {Feeder, Seed} /\ "feed" \in called)
        PROVE  got'[j - 1] \subseteq sent[j] \cup dropped \cup {hand'[j]}
    <3>1. got[j - 1] \subseteq sent[j] \cup dropped \cup {hand[j]}
      BY <2>2 DEF IInv, Passed
    <3>2. CASE j = k
      BY <2>1, <3>1, <3>2, LinkFacts DEF IInv, TypeOK, Receive
    <3>3. CASE j # k
      BY <3>1, <3>3, LinkFacts DEF IInv, TypeOK, Receive
    <3> QED BY <3>2, <3>3
  <2>3. hand'[Reader] = hand[Reader]
    BY LinkFacts DEF IInv, TypeOK, Receive
  <2>4. UNCHANGED <<parsed, sent, dropped, failed, called>>
    BY DEF Receive, Rest, source
  <2> QED BY <2>2, <2>3, <2>4 DEF IInv, Passed
<1>5. Ended'
  BY <1>1, <1>2, EndedKept, LinkFacts DEF IInv, TypeOK, Stages, Receive, First, InTransit,
     Goto, Rest, ending, source
<1>6. Heard'
  BY <1>1, <1>2, HeardKept, LinkFacts DEF IInv, TypeOK, Stages, Receive, First, InTransit,
     Goto, Rest, ending, source
<1>7. Whole'
  BY <1>1, <1>2, WholeKept, LinkFacts DEF IInv, TypeOK, Receive, First, InTransit, Goto,
     Rest, ending, source
<1>8. CalledOff'
  BY DEF IInv, CalledOff, Receive, First, InTransit, Goto, Rest, ending, source
<1>9. Waited' /\ Taken' /\ Rendered' /\ Committed'
  <2>1. got'[Tap] = got[Tap]
    BY LinkFacts DEF IInv, TypeOK, Receive
  <2> QED BY <1>1, <1>2, <2>1, RunKept DEF Receive, Rest, source, ending
<1> QED BY <1>1, <1>3, <1>4, <1>5, <1>6, <1>7, <1>8, <1>9 DEF IInv

\* A stage sends the Part it has in hand.
LEMMA SendKeeps ==
    ASSUME IInv, NEW k \in Link, Send(k)
    PROVE  IInv'
<1>1. TypeOK'
  BY LinkFacts DEF IInv, TypeOK, Send, Goto, Rest, ending, source
<1>2. Grows
  BY LinkFacts DEF IInv, TypeOK, Stages, Grows, InTransit, Send, Goto, Rest, ending, source
<1>3. Stages'
  BY LinkFacts DEF IInv, TypeOK, Stages, Send, Goto, Rest, ending, source
<1>4. Passed'
  BY LinkFacts DEF IInv, TypeOK, Stages, Passed, Send, Goto, Rest, ending, source
<1>5. Ended'
  BY <1>1, <1>2, EndedKept, LinkFacts DEF IInv, TypeOK, Stages, Send, Goto, Rest, ending,
     source
<1>6. Heard'
  BY <1>1, <1>2, HeardKept, LinkFacts DEF IInv, TypeOK, Stages, Send, Goto, Rest, ending,
     source
<1>7. Whole'
  BY <1>1, <1>2, WholeKept, LinkFacts DEF IInv, TypeOK, Send, Goto, Rest, ending, source
<1>8. CalledOff'
  BY DEF IInv, CalledOff, Send, Goto, Rest, ending, source
<1>9. Waited' /\ Taken' /\ Rendered' /\ Committed'
  BY <1>1, <1>2, RunKept, LinkFacts DEF IInv, TypeOK, Stages, Waited, Joined, ToolsDone,
     Send, Goto, Rest, ending, source
<1> QED BY <1>1, <1>3, <1>4, <1>5, <1>6, <1>7, <1>8, <1>9 DEF IInv

\* A relay or a tool comes to the end of its input, with nothing in hand: what the
\* link before it carried, its own has carried.
LEMMA EndKeeps ==
    ASSUME IInv, NEW k \in Link \ {Reader, Feeder}, End(k)
    PROVE  IInv'
<1>0. failed = {} /\ "run" \notin called => k # Seed \/ "feed" \notin called
  BY NotCalledOff, LinkFacts DEF IInv, Stages, End
<1>1. TypeOK'
  BY LinkFacts DEF IInv, TypeOK, End, Finish, Goto, Rest, ending, source
<1>2. Grows
  BY LinkFacts DEF IInv, TypeOK, Stages, Grows, InTransit, End, Finish, Goto, Rest, ending,
     source
<1>3. Stages'
  BY LinkFacts DEF IInv, TypeOK, Stages, End, Finish, Goto, Rest, ending, source
<1>4. Passed'
  BY LinkFacts DEF IInv, TypeOK, Stages, Passed, End, Finish, Goto, Rest, ending, source
<1>5. Ended'
  BY <1>1, <1>2, EndedKept, LinkFacts DEF IInv, TypeOK, Stages, End, Finish, Goto, Rest,
     ending, source
<1>6. Heard'
  BY <1>1, <1>2, HeardKept, LinkFacts DEF IInv, TypeOK, Stages, End, Finish, Goto, Rest,
     ending, source
<1>7. Whole'
  <2>1. ASSUME failed = {}, "run" \notin called
        PROVE  Part \subseteq sent[k] \cup dropped
    <3>1. got[k - 1] \subseteq sent[k] \cup dropped \cup {hand[k]}
      BY <1>0, <2>1 DEF IInv, Passed
    <3>2. hand[k] = None
      BY DEF IInv, TypeOK, End
    <3>3. Part \subseteq sent[k - 1] \cup dropped
      BY <2>1, LinkFacts DEF IInv, Whole, End, AtEnd
    <3>4. sent[k - 1] \subseteq got[k - 1]
      BY DEF End, AtEnd, InTransit
    <3> QED BY <3>1, <3>2, <3>3, <3>4, LinkFacts
  <2>2. \A j \in Link : closed'[j] => closed[j] \/ j = k
    BY DEF IInv, TypeOK, End, Finish
  <2>3. failed' = failed /\ called' = called
    BY DEF End, Rest
  <2> QED BY <1>1, <1>2, <2>1, <2>2, <2>3, WholeKept, LinkFacts
<1>8. CalledOff'
  BY DEF IInv, CalledOff, End, Finish, Goto, Rest, ending, source
<1>9. Waited' /\ Taken' /\ Rendered' /\ Committed'
  BY <1>1, <1>2, RunKept, LinkFacts DEF IInv, TypeOK, Stages, Waited, Joined, ToolsDone, End,
     Finish, Goto, Rest, ending, source
<1> QED BY <1>1, <1>3, <1>4, <1>5, <1>6, <1>7, <1>8, <1>9 DEF IInv

\* The seed relay gives up its Part.
LEMMA SeedGivesUpKeeps ==
    ASSUME IInv, SeedGivesUp
    PROVE  IInv'
<1>1. TypeOK'
  BY LinkFacts DEF IInv, TypeOK, SeedGivesUp, Goto, Rest, ending, source
<1>2. Grows
  BY LinkFacts DEF IInv, TypeOK, Stages, Grows, InTransit, SeedGivesUp, Goto, Rest, ending,
     source
<1>3. Stages'
  BY LinkFacts DEF IInv, TypeOK, Stages, SeedGivesUp, Goto, Rest, ending, source
<1>4. Passed'
  BY LinkFacts DEF IInv, TypeOK, Stages, Passed, SeedGivesUp, Goto, Rest, ending, source
<1>5. Ended'
  BY <1>1, <1>2, EndedKept, LinkFacts DEF IInv, TypeOK, Stages, SeedGivesUp, Goto, Rest,
     ending, source
<1>6. Heard'
  BY <1>1, <1>2, HeardKept, LinkFacts DEF IInv, TypeOK, Stages, SeedGivesUp, Goto, Rest,
     ending, source
<1>7. Whole'
  BY <1>1, <1>2, WholeKept, LinkFacts DEF IInv, TypeOK, SeedGivesUp, Goto, Rest, ending, source
<1>8. CalledOff'
  BY DEF IInv, CalledOff, SeedGivesUp, Goto, Rest, ending, source
<1>9. Waited' /\ Taken' /\ Rendered' /\ Committed'
  BY <1>1, <1>2, RunKept, LinkFacts DEF IInv, TypeOK, Stages, Waited, Joined, ToolsDone,
     SeedGivesUp, Goto, Rest, ending, source
<1> QED BY <1>1, <1>3, <1>4, <1>5, <1>6, <1>7, <1>8, <1>9 DEF IInv

\* The seed relay empties the feeder's link.
LEMMA SeedDrainsKeeps ==
    ASSUME IInv, SeedDrains
    PROVE  IInv'
<1>1. TypeOK'
  BY LinkFacts DEF IInv, TypeOK, SeedDrains, Rest, ending, source
<1>2. Grows
  BY LinkFacts DEF IInv, TypeOK, Stages, Grows, InTransit, SeedDrains, Rest, ending, source
<1>3. Stages'
  BY LinkFacts DEF IInv, TypeOK, Stages, SeedDrains, Rest, ending, source
<1>4. Passed'
  <2>1. \A j \in Link \ {Reader, Seed} : got'[j - 1] = got[j - 1]
    BY LinkFacts DEF IInv, TypeOK, SeedDrains
  <2>2. "feed" \in called'
    BY LinkFacts DEF IInv, Stages, SeedDrains, Rest
  <2>3. UNCHANGED <<parsed, hand, sent, dropped, failed, called>>
    BY DEF SeedDrains, Rest, source
  <2> QED BY <2>1, <2>2, <2>3 DEF IInv, Passed
<1>5. Ended'
  BY <1>1, <1>2, EndedKept, LinkFacts DEF IInv, TypeOK, Stages, SeedDrains, Rest, ending,
     source
<1>6. Heard'
  BY <1>1, <1>2, HeardKept, LinkFacts DEF IInv, TypeOK, Stages, SeedDrains, Rest, ending,
     source
<1>7. Whole'
  BY <1>1, <1>2, WholeKept, LinkFacts DEF IInv, TypeOK, SeedDrains, Rest, ending, source
<1>8. CalledOff'
  BY DEF IInv, CalledOff, SeedDrains, Rest, ending, source
<1>9. Waited' /\ Taken' /\ Rendered' /\ Committed'
  BY <1>1, <1>2, RunKept, LinkFacts DEF IInv, TypeOK, Stages, Waited, Joined, ToolsDone,
     SeedDrains, Rest, ending, source
<1> QED BY <1>1, <1>3, <1>4, <1>5, <1>6, <1>7, <1>8, <1>9 DEF IInv

\* A tool drops its Part.
LEMMA DropKeeps ==
    ASSUME IInv, NEW k \in Tool, Drop(k)
    PROVE  IInv'
<1>1. TypeOK'
  BY LinkFacts DEF IInv, TypeOK, Drop, Goto, Rest, ending, source
<1>2. Grows
  BY LinkFacts DEF IInv, TypeOK, Stages, Grows, InTransit, Drop, Goto, Rest, ending, source
<1>3. Stages'
  BY LinkFacts DEF IInv, TypeOK, Stages, Drop, Goto, Rest, ending, source
<1>4. Passed'
  BY LinkFacts DEF IInv, TypeOK, Stages, Passed, Drop, Goto, Rest, ending, source
<1>5. Ended'
  BY <1>1, <1>2, EndedKept, LinkFacts DEF IInv, TypeOK, Stages, Drop, Goto, Rest, ending,
     source
<1>6. Heard'
  BY <1>1, <1>2, HeardKept, LinkFacts DEF IInv, TypeOK, Stages, Drop, Goto, Rest, ending,
     source
<1>7. Whole'
  BY <1>1, <1>2, WholeKept, LinkFacts DEF IInv, TypeOK, Drop, Goto, Rest, ending, source
<1>8. CalledOff'
  BY DEF IInv, CalledOff, Drop, Goto, Rest, ending, source
<1>9. Waited' /\ Taken' /\ Rendered' /\ Committed'
  BY <1>1, <1>2, RunKept, LinkFacts DEF IInv, TypeOK, Stages, Waited, Joined, ToolsDone,
     Drop, Goto, Rest, ending, source
<1> QED BY <1>1, <1>3, <1>4, <1>5, <1>6, <1>7, <1>8, <1>9 DEF IInv

\* A tool returns an error.
LEMMA ReturnErrorKeeps ==
    ASSUME IInv, NEW k \in Tool, at[k] \in {"receive", "send"}, ReturnError(k)
    PROVE  IInv'
<1>1. TypeOK'
  BY LinkFacts DEF IInv, TypeOK, ReturnError, Finish, Goto, Rest, ending, source
<1>2. Grows
  BY LinkFacts DEF IInv, TypeOK, Stages, Grows, InTransit, ReturnError, Finish, Goto, Rest,
     ending, source
<1>3. Stages'
  BY LinkFacts DEF IInv, TypeOK, Stages, ReturnError, Finish, Goto, Rest, ending, source
<1>4. Passed'
  BY LinkFacts DEF IInv, TypeOK, Stages, Passed, ReturnError, Finish, Goto, Rest, ending,
     source
<1>5. Ended'
  BY <1>1, <1>2, EndedKept, LinkFacts DEF IInv, TypeOK, Stages, ReturnError, Finish, Goto,
     Rest, ending, source
<1>6. Heard'
  BY <1>1, <1>2, HeardKept, LinkFacts DEF IInv, TypeOK, Stages, ReturnError, Finish, Goto,
     Rest, ending, source
<1>7. Whole'
  BY <1>1, <1>2, WholeKept, LinkFacts DEF IInv, TypeOK, ReturnError, Finish, Goto, Rest,
     ending, source
<1>8. CalledOff'
  BY DEF IInv, CalledOff, ReturnError, Finish, Goto, Rest, ending, source
<1>9. Waited' /\ Taken' /\ Rendered' /\ Committed'
  BY <1>1, <1>2, RunKept, LinkFacts DEF IInv, TypeOK, Stages, Waited, Joined, ToolsDone,
     ReturnError, Finish, Goto, Rest, ending, source
<1> QED BY <1>1, <1>3, <1>4, <1>5, <1>6, <1>7, <1>8, <1>9 DEF IInv

\* The errgroup hears of a tool's error.
LEMMA ToolFailedKeeps ==
    ASSUME IInv, NEW k \in Tool, ToolFailed(k)
    PROVE  IInv'
<1>1. TypeOK'
  BY LinkFacts DEF IInv, TypeOK, ToolFailed, Goto, ending, source
<1>2. Grows
  BY LinkFacts DEF IInv, TypeOK, Stages, Grows, InTransit, ToolFailed, Goto, ending, source
<1>3. Stages'
  BY LinkFacts DEF IInv, TypeOK, Stages, ToolFailed, Goto, ending, source
<1>4. Passed'
  BY LinkFacts DEF IInv, TypeOK, Stages, Passed, ToolFailed, Goto, ending, source
<1>5. Ended'
  BY <1>1, <1>2, EndedKept, LinkFacts DEF IInv, TypeOK, Stages, ToolFailed, Goto, ending,
     source
<1>6. Heard'
  BY <1>1, <1>2, HeardKept, LinkFacts DEF IInv, TypeOK, Stages, ToolFailed, Goto, ending,
     source
<1>7. Whole'
  BY <1>1, <1>2, WholeKept, LinkFacts DEF IInv, TypeOK, ToolFailed, Goto, ending, source
<1>8. CalledOff'
  BY DEF IInv, CalledOff, ToolFailed, Goto, ending, source
<1>9. Waited' /\ Taken' /\ Rendered' /\ Committed'
  BY <1>1, <1>2, RunKept, LinkFacts DEF IInv, TypeOK, Stages, Waited, Joined, ToolsDone,
     ToolFailed, Goto, ending, source
<1> QED BY <1>1, <1>3, <1>4, <1>5, <1>6, <1>7, <1>8, <1>9 DEF IInv

----------------------------------------------------------------------------
(* The contexts and the run *)

\* What the run and its writer do leaves the stages' conjuncts alone.
LEMMA StagesKept ==
    ASSUME IInv, UNCHANGED streams, called \subseteq called',
           "feed" \in called' => \/ "feed" \in called \/ "run" \in called'
                                \/ main' \in {"joining", "committing", "returned"},
           main \in {"joining", "committing", "returned"} =>
               main' \in {"joining", "committing", "returned"}
    PROVE  Stages' /\ Passed' /\ Ended' /\ CalledOff' /\ Heard' /\ Whole'
<1> USE DEF streams, source
<1>1. Stages' /\ Ended'
  BY DEF IInv, Stages, Ended, AtEnd, InTransit
<1>2. Passed'
  BY DEF IInv, Passed
<1>3. CalledOff'
  BY DEF IInv, CalledOff
<1>4. Heard' /\ Whole'
  BY DEF IInv, Heard, Whole, Clean, AtEnd, InTransit
<1> QED BY <1>1, <1>2, <1>3, <1>4

\* The caller calls the run off, or the contexts derived from its own hear of it.
LEMMA CallingOffKeeps ==
    ASSUME IInv, Interrupt \/ \E c \in {"feed", "tools"} : Propagate(c)
    PROVE  IInv'
<1>1. /\ UNCHANGED <<streams, rendered, main, written, writer, ending>>
      /\ called \subseteq called' /\ called' \subseteq {"run", "feed", "tools"}
      /\ "run" \in called'
  BY DEF IInv, TypeOK, Interrupt, Propagate
<1>2. TypeOK'
  BY <1>1 DEF IInv, TypeOK, streams, source, ending
<1>3. Stages' /\ Passed' /\ Ended' /\ CalledOff' /\ Heard' /\ Whole'
  BY <1>1, StagesKept
<1>4. Waited' /\ Taken' /\ Committed'
  BY <1>1 DEF IInv, Waited, AtEnd, InTransit, ToolsDone, Joined, Succeeded, Taken, Committed,
         CommittedIsWhole, streams, source, ending
<1>5. Rendered'
  BY <1>1 DEF IInv, Rendered, Clean, streams, source
<1> QED BY <1>2, <1>3, <1>4, <1>5 DEF IInv

\* The writer takes a Part, or the run drains the link before it.
LEMMA TakingKeeps ==
    ASSUME IInv, Write \/ Drain
    PROVE  IInv'
<1>0. PICK S \in SUBSET sent[Tap] : got[Tap] \subseteq S /\ got' = [got EXCEPT ![Tap] = S]
  <2>1. CASE Write
    <3>1. PICK p \in sent[Tap] : got' = [got EXCEPT ![Tap] = got[Tap] \cup {p}]
      BY <2>1 DEF Write, First, InTransit
    <3>2. got[Tap] \cup {p} \in SUBSET sent[Tap]
      BY <3>1, LinkFacts DEF IInv, TypeOK
    <3> QED BY <3>1, <3>2
  <2>2. CASE Drain
    <3>1. got[Tap] \subseteq sent[Tap]
      BY LinkFacts DEF IInv, TypeOK
    <3> QED BY <2>2, <3>1 DEF Drain
  <2> QED BY <2>1, <2>2
<1>a. /\ UNCHANGED <<source, rendered, at, hand, sent, closed, dropped, failed, called, main,
                     writer, ending>>
      /\ written' \subseteq Part
      /\ main \in {"writing", "emptying", "draining"}
  BY DEF IInv, TypeOK, Write, Drain, TakesParts, IsEntry
<1>b. got' \in [Link -> SUBSET Part] /\ \A k \in Link : got'[k] \subseteq sent[k]
  BY <1>0, LinkFacts DEF IInv, TypeOK
<1>1. TypeOK'
  BY <1>a, <1>b DEF IInv, TypeOK, source, ending
<1>2. Grows
  BY <1>0, <1>a, LinkFacts DEF IInv, TypeOK, Grows, source
<1>3. Stages'
  BY <1>a DEF IInv, Stages
<1>4. Passed'
  <2>1. \A k \in Link \ {Reader} : got'[k - 1] = got[k - 1]
    BY <1>0, LinkFacts DEF IInv, TypeOK
  <2> QED BY <1>a, <2>1 DEF IInv, Passed, source
<1>5. Ended'
  BY <1>1, <1>2, <1>a, EndedKept
<1>6. CalledOff' /\ Whole' /\ Rendered'
  BY <1>a DEF IInv, CalledOff, Whole, Rendered, Clean, source
<1>h. Heard'
  BY <1>1, <1>2, <1>a, HeardKept, LinkFacts
<1>7. Waited'
  BY <1>a DEF Waited
<1>8. Taken'
  <2>1. CASE Write
    <3>1. PICK p \in Part : got' = [got EXCEPT ![Tap] = @ \cup {p}] /\ written' = written \cup {p}
      BY <2>1 DEF Write
    <3>2. got'[Tap] = got[Tap] \cup {p}
      BY <3>1, LinkFacts DEF IInv, TypeOK
    <3> QED BY <1>a, <3>1, <3>2 DEF IInv, Taken
  <2>2. CASE Drain
    BY <2>2 DEF IInv, Taken, Drain
  <2> QED BY <2>1, <2>2
<1>9. Committed'
  BY <1>a DEF IInv, Committed, CommittedIsWhole, source, ending
<1> QED BY <1>1, <1>3, <1>4, <1>5, <1>6, <1>7, <1>8, <1>9, <1>h DEF IInv

\* The writer goes through the skeleton.
LEMMA RenderingKeeps ==
    ASSUME IInv, Render \/ WriteCalledOff \/ SkeletonEnds
    PROVE  IInv'
<1>1. /\ UNCHANGED <<streams, called, written, ending>>
      /\ main = "writing" /\ feed = "skeleton"
      /\ main' \in {"writing", "emptying", "draining"}
      /\ writer' \in {"ok", "calledOff", "failed"}
      /\ rendered' \subseteq parsed
      /\ writer' = "ok" => writer = "ok" /\ main' # "draining"
      /\ writer' = "ok" /\ main' # "writing" =>
             rendered' = parsed /\ at[Feeder] = "done"
  <2>1. CASE Render
    BY <2>1 DEF IInv, TypeOK, Taken, Render, HasEntry, IsEntry, First
  <2>2. CASE WriteCalledOff
    BY <2>2 DEF IInv, TypeOK, WriteCalledOff, IsEntry
  <2>3. CASE SkeletonEnds
    BY <2>3 DEF IInv, TypeOK, SkeletonEnds, MainGoes
  <2> QED BY <2>1, <2>2, <2>3
<1>2. TypeOK'
  BY <1>1 DEF IInv, TypeOK, streams, source, ending
<1>3. Stages' /\ Passed' /\ Ended' /\ CalledOff' /\ Heard' /\ Whole'
  BY <1>1, StagesKept
<1>4. Waited' /\ Taken'
  BY <1>1 DEF IInv, Waited, Taken, streams
<1>5. Rendered'
  BY <1>1 DEF Rendered, streams, source
<1>6. Committed'
  BY <1>1 DEF IInv, Committed, CommittedIsWhole, streams, source, ending
<1> QED BY <1>2, <1>3, <1>4, <1>5, <1>6 DEF IInv

\* The run goes on to its end.
LEMMA RunKeeps ==
    ASSUME IInv, WriteEnds \/ WriteFails \/ Wait \/ Join \/ CommitFails
    PROVE  IInv'
<1> USE DEF WriteEnds, WriteFails, Wait, Join, CommitFails, Fails, MainGoes, TakesParts,
            MayFail, HasEntry, IsEntry
<1>0. /\ UNCHANGED <<streams, rendered, written, dest>>
      /\ called \subseteq called' /\ called' \subseteq {"run", "feed", "tools"}
      /\ "run" \in called' => "run" \in called
      /\ "feed" \in called' => "feed" \in called \/ main' = "joining"
      /\ main' \in {"draining", "waiting", "joining", "committing", "returned"}
      /\ main \in {"joining", "committing", "returned"} => main' \in {"committing", "returned"}
      /\ writer' \in {"ok", "failed", "calledOff"}
      /\ writer' = "ok" => writer = "ok" /\ main' # "draining"
      /\ session' \in {"open", "committed", "lost", "rolledback"}
      /\ doc' \in {"staged", "committed", "discarded"}
      /\ outcome' \in {"running", "ok", "moved", "error"}
  BY DEF IInv, TypeOK, ending
<1>1. TypeOK'
  BY <1>0 DEF IInv, TypeOK, streams, source
<1>2. Stages' /\ Passed' /\ Ended' /\ CalledOff' /\ Heard' /\ Whole'
  BY <1>0, StagesKept
<1>3. Waited'
  BY DEF IInv, Waited, AtEnd, InTransit, ToolsDone, Joined, Succeeded, streams, ending
<1>4. Taken'
  BY <1>0 DEF IInv, Taken, streams
<1>5. Rendered'
  <2> SUFFICES ASSUME feed = "skeleton", writer' = "ok", main' # "writing"
               PROVE  at[Feeder] = "done" /\ (Clean' => rendered = parsed)
    BY <1>0 DEF Rendered, streams, source
  <2>1. writer = "ok" /\ main # "writing"
    BY <1>0 DEF IInv, Taken
  <2>2. Clean' => Clean
    BY <1>0 DEF Clean, streams
  <2> QED BY <2>1, <2>2 DEF IInv, Rendered
<1>6. Committed'
  BY DEF IInv, Committed, CommittedIsWhole, streams, source, ending
<1> QED BY <1>1, <1>2, <1>3, <1>4, <1>5, <1>6 DEF IInv

\* The document is committed: the reader has been heard to its end, the tap's link
\* is whole, and the writer has taken it and every entry of the skeleton.
LEMMA CommitKeeps ==
    ASSUME IInv, Commit
    PROVE  IInv'
<1> USE DEF Commit, ReplaceUnlessMoved, Replace, MainGoes
<1>0. main' = "returned" /\ UNCHANGED <<streams, rendered, called, written, writer, session>>
  OBVIOUS
<1>1. TypeOK'
  BY DEF IInv, TypeOK, streams, source
<1>2. Stages' /\ Passed' /\ Ended' /\ CalledOff' /\ Heard' /\ Whole'
  BY <1>0, StagesKept
<1>3. /\ AtEnd(Tap) /\ Succeeded /\ Joined /\ ToolsDone /\ Clean
      /\ AtEnd(Reader) /\ failed = {} /\ at[Reader] = "done"
  <2>1. AtEnd(Tap) /\ Succeeded /\ Joined /\ ToolsDone /\ Clean
    BY DEF IInv, Waited, Succeeded, Clean
  <2>2. closed[Feeder]
    BY <2>1, LinkFacts DEF IInv, Stages, Joined
  <2>3. AtEnd(Reader) /\ Reader \notin failed
    BY <2>1, <2>2 DEF IInv, Heard
  <2>4. at[Reader] = "done"
    BY <2>3, LinkFacts DEF IInv, Stages, AtEnd
  <2> QED BY <2>1, <2>3, <2>4 DEF IInv, Stages, Succeeded
<1>4. Waited' /\ Taken'
  BY <1>3 DEF IInv, Waited, AtEnd, InTransit, ToolsDone, Joined, Taken, streams
<1>5. Rendered'
  BY DEF IInv, Rendered, Clean, streams, source
<1>6. Committed'
  <2>1. Part \subseteq sent[Tap] \cup dropped /\ parsed = Part
    BY <1>3, LinkFacts DEF IInv, Whole, AtEnd, Clean
  <2>2. sent[Tap] \subseteq got[Tap] /\ got[Tap] = written
    BY <1>3 DEF AtEnd, InTransit, IInv, Taken, Succeeded
  <2>3. Part \subseteq written \cup dropped
    BY <2>1, <2>2
  <2>4. feed = "skeleton" => rendered = Part
    BY <1>3, <2>1 DEF IInv, Rendered, Succeeded
  <2>5. doc' = "committed" => outcome' = "ok"
    BY DEF IInv, Committed
  <2> QED BY <1>3, <2>3, <2>4, <2>5 DEF Committed, CommittedIsWhole, Succeeded, streams, source
<1> QED BY <1>1, <1>2, <1>4, <1>5, <1>6 DEF IInv

\* Another run commits to the destination.
LEMMA RivalKeeps ==
    ASSUME IInv, Rival
    PROVE  IInv'
<1> USE DEF Rival
<1>0. dest' \in {"same", "other"}
  BY BoundsAssumption
<1>1. TypeOK'
  BY <1>0 DEF IInv, TypeOK, streams, source
<1>2. Stages' /\ Passed' /\ Ended' /\ CalledOff' /\ Heard' /\ Whole'
  BY StagesKept
<1>3. Waited' /\ Taken' /\ Rendered' /\ Committed'
  BY DEF IInv, Waited, AtEnd, InTransit, ToolsDone, Joined, Succeeded, Taken, Rendered, Clean,
         Committed, CommittedIsWhole, streams, source
<1> QED BY <1>1, <1>2, <1>3 DEF IInv

\* Nothing moves.
LEMMA StutterKeeps ==
    ASSUME IInv, UNCHANGED vars
    PROVE  IInv'
<1> USE DEF vars
<1>1. TypeOK'
  BY DEF IInv, TypeOK
<1>2. Stages' /\ Passed' /\ Ended' /\ CalledOff' /\ Heard' /\ Whole'
  BY StagesKept DEF streams, source
<1>3. Waited' /\ Taken' /\ Rendered' /\ Committed'
  BY DEF IInv, Waited, AtEnd, InTransit, ToolsDone, Joined, Succeeded, Taken, Rendered, Clean,
         Committed, CommittedIsWhole
<1> QED BY <1>1, <1>2, <1>3 DEF IInv

----------------------------------------------------------------------------

\* The run starts with a slice that was read, or with nothing sent, closed or failed.
LEMMA InitIInv == Init => IInv
<1> SUFFICES ASSUME Init PROVE IInv
  OBVIOUS
<1>1. TypeOK
  BY LinkFacts DEF Init, TypeOK, None, Part
<1>2. Stages /\ Ended
  BY LinkFacts DEF Init, Stages, Ended
<1>3. Passed
  BY LinkFacts DEF Init, Passed
<1>4. CalledOff /\ Heard /\ Waited /\ Taken /\ Rendered /\ Committed
  BY LinkFacts DEF Init, CalledOff, Heard, Waited, Taken, Rendered, Committed, CommittedIsWhole
<1>5. Whole
  BY LinkFacts DEF Init, Whole
<1> QED BY <1>1, <1>2, <1>3, <1>4, <1>5 DEF IInv

\* Every step keeps the invariant.
LEMMA NextIInv == IInv /\ [Next]_vars => IInv'
<1> SUFFICES ASSUME IInv, [Next]_vars PROVE IInv'
  OBVIOUS
<1>1. CASE Interrupt \/ \E c \in {"feed", "tools"} : Propagate(c)
  BY <1>1, CallingOffKeeps
<1>2. CASE ReaderStep
  BY <1>2, LinkFacts, ParseKeeps, SendKeeps, ReadEndsKeeps, ReadFailsKeeps DEF ReaderStep
<1>3. CASE FeederStep
  BY <1>3, LinkFacts, ReceiveKeeps, SendKeeps, FeedEndsKeeps, FeedFailsKeeps,
     FeedCalledOffKeeps, FeederReturnsKeeps DEF FeederStep
<1>4. CASE SeedStep
  BY <1>4, LinkFacts, ReceiveKeeps, SendKeeps, EndKeeps, SeedGivesUpKeeps, SeedDrainsKeeps
     DEF SeedStep
<1>5. ASSUME NEW k \in Tool, ToolStep(k)
      PROVE  IInv'
  <2>1. k \in Link \ {Reader, Feeder}
    BY LinkFacts
  <2>2. CASE HandlerFails(k) \/ ToolCalledOff(k)
    BY <2>2, ReturnErrorKeeps DEF HandlerFails, ToolCalledOff
  <2>3. CASE Receive(k) \/ Send(k) \/ End(k)
    BY <2>1, <2>3, ReceiveKeeps, SendKeeps, EndKeeps
  <2>4. CASE Drop(k) \/ ToolFailed(k)
    BY <2>4, DropKeeps, ToolFailedKeeps
  <2> QED BY <1>5, <2>2, <2>3, <2>4 DEF ToolStep
<1>6. CASE TapStep
  BY <1>6, LinkFacts, ReceiveKeeps, SendKeeps, EndKeeps DEF TapStep
<1>7. CASE MainStep
  BY <1>7, TakingKeeps, RenderingKeeps, RunKeeps, CommitKeeps DEF MainStep, WriterStep
<1>8. CASE Rival
  BY <1>8, RivalKeeps
<1>9. CASE UNCHANGED vars
  BY <1>9, StutterKeeps
<1> QED BY <1>1, <1>2, <1>3, <1>4, <1>5, <1>6, <1>7, <1>8, <1>9 DEF Next

\* The inductive invariant holds throughout.
THEOREM Invariant == Spec => []IInv
BY InitIInv, NextIInv, PTL DEF Spec

\* Stages, links, contexts and the run keep their types, and a stage holds a
\* Part exactly while it has one to send.
THEOREM TypeCorrect == Spec => []TypeOK
<1>1. IInv => TypeOK
  BY DEF IInv
<1> QED BY <1>1, Invariant, PTL

\* A document is committed only whole, to the last entry of its skeleton where it
\* has one, with the overlays of its session, and only if nothing failed and the
\* run was not called off before.
THEOREM WholeAtCommit == Spec => []CommittedIsWhole
<1>1. IInv => CommittedIsWhole
  BY DEF IInv, Committed
<1> QED BY <1>1, Invariant, PTL

\* When the run returns, every goroutine it started has ended, but for the format's
\* reader if the run returns an error: nothing joins that one.
THEOREM NothingLeftRunning == Spec => []JoinedAtReturn
<1>1. ASSUME IInv, main = "returned", NEW k \in Link \ {Reader}
      PROVE  at[k] = "done"
  <2>1. AtEnd(Tap) /\ ToolsDone /\ Joined
    BY <1>1 DEF IInv, Waited
  <2>2. at[Tap] = "done"
    BY <1>1, <2>1, LinkFacts DEF IInv, Stages, AtEnd
  <2> QED BY <2>1, <2>2, LinkFacts DEF ToolsDone, Joined
<1>2. IInv /\ main = "returned" => at[Reader] = "done" \/ outcome = "error"
  BY DEF IInv, Waited
<1>3. IInv => JoinedAtReturn
  BY <1>1, <1>2 DEF JoinedAtReturn
<1> QED BY <1>3, Invariant, PTL

\* What another run has committed to the destination is never replaced.
THEOREM RivalAlwaysKept == Spec => RivalIsKept
<1>1. ASSUME [Next]_vars, dest # "before"
      PROVE  dest' = dest
  BY <1>1 DEF Next, vars, streams, source, ending, Rest, Interrupt, Propagate, ReaderStep,
       Parse, ReadEnds, ReadFails, FeederStep, FeedEnds, FeedFails, FeedCalledOff,
       FeederReturns, SeedStep, SeedGivesUp, SeedDrains, ToolStep, Receive, Send, End, Drop,
       HandlerFails, ToolCalledOff, ReturnError, ToolFailed, TapStep, MainStep, WriterStep,
       Write, Render, WriteCalledOff, SkeletonEnds, WriteEnds, WriteFails, Drain, Wait, Join,
       Fails, CommitFails, Commit, ReplaceUnlessMoved, Replace, Rival
<1>2. [Next]_vars => [dest # "before" => dest' = dest]_vars
  BY <1>1
<1> QED BY <1>2, PTL DEF Spec, RivalIsKept

=============================================================================
