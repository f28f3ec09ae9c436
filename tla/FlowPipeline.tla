----------------------------- MODULE FlowPipeline -----------------------------
(***************************************************************************)
(* One document of a file run (core/flow): the format's reader, a feeder,  *)
(* the relay that seeds workflow state, the tools, the relay that follows  *)
(* the blocks out, and the writer, each a goroutine that reads the channel *)
(* before it and writes the one after; then the run itself, which waits    *)
(* for them, closes the writer and commits the staged document to the file *)
(* home (core/change/filehome).                                            *)
(*                                                                         *)
(* Stage k writes link k and reads link k - 1: the reader is stage -1, the *)
(* feeder 0, the seed relay 1, the tools follow, the tap is the last, and  *)
(* the run reads the tap's link through the writer.  Every stage is one    *)
(* goroutine and a channel is first in, first out, so Parts stay in order: *)
(* a link is the set of the Parts sent on it and the set of those received.*)
(*                                                                         *)
(* A document is fed in one of three ways: as a slice that was read before *)
(* the run; by a reader that streams; or by a reader and a writer that     *)
(* both stream and share a skeleton, a queue without a bound beside the    *)
(* links: the reader writes an entry for a Part before it sends the Part,  *)
(* and the writer takes the entries one by one and waits for each's Part.  *)
(*                                                                         *)
(* Cancelling the caller's context reaches the contexts derived from it a  *)
(* moment later and one after the other, and a select with several cases   *)
(* ready takes any of them.                                                *)
(***************************************************************************)
EXTENDS Integers, FiniteSets

CONSTANTS
    Parts,      \* how many Parts the document has
    Tools,      \* how many tools the flow has
    Capacity,   \* the size of a channel
    Feeds,      \* the ways in which documents are fed
    Faults,     \* bound: what may fail, by the way of feeding
    Droppable,  \* bound: the Parts a tool may drop
    Rivals      \* bound: what another run may commit to the destination

ASSUME PartsAssumption == Parts \in Nat

ASSUME ToolsAssumption == Tools \in Nat \ {0}

ASSUME CapacityAssumption == Capacity \in Nat \ {0}

ASSUME FeedsAssumption == Feeds \subseteq {"slice", "reader", "skeleton"}

ASSUME BoundsAssumption ==
    /\ Faults \in [Feeds -> SUBSET {"reader", "feeder", "tool", "writer", "commit"}]
    /\ Droppable \subseteq Nat
    /\ Rivals \subseteq {"same", "other"}

Part == 1 .. Parts

None == 0

Reader == -1

Feeder == 0

Seed == 1

Tool == 2 .. Tools + 1

Tap == Tools + 2

Link == Reader .. Tap

VARIABLES
    feed,       \* how the document is fed
    parsed,     \* the Parts the reader has read, and written skeleton entries for
    rendered,   \* the Parts whose skeleton entries the writer is done with
    at,         \* per stage: where its goroutine is
    hand,       \* per stage: the Part it has received and not sent yet
    sent,       \* per link: the Parts sent on it
    got,        \* per link: the Parts received from it
    closed,     \* per link: whether its writer has closed it
    dropped,    \* Parts a tool has dropped
    failed,     \* stages that returned an error
    called,     \* the contexts that are done: "run", "feed", "tools"
    main,       \* where the run is
    written,    \* Parts the writer has taken
    writer,     \* whether the writer failed, or found its context done
    session,    \* the block store's session
    doc,        \* the produced document
    dest,       \* what the destination holds
    outcome     \* what the run returns

vars == <<feed, parsed, rendered, at, hand, sent, got, closed, dropped, failed, called,
          main, written, writer, session, doc, dest, outcome>>

source == <<feed, parsed>>

streams == <<source, at, hand, sent, got, closed, dropped, failed>>

ending == <<session, doc, dest, outcome>>

\* A slice was read, by the same reader, before the run.
Init ==
    /\ feed \in Feeds
    /\ parsed = IF feed = "slice" THEN Part ELSE {}
    /\ rendered = {}
    /\ at = [k \in Link |-> IF k = Reader /\ feed = "slice" THEN "done" ELSE "receive"]
    /\ hand = [k \in Link |-> None]
    /\ sent = [k \in Link |-> IF k = Reader THEN parsed ELSE {}]
    /\ got = [k \in Link |-> {}]
    /\ closed = [k \in Link |-> k = Reader /\ feed = "slice"]
    /\ dropped = {}
    /\ failed = {}
    /\ called = {}
    /\ main = "writing"
    /\ written = {}
    /\ writer = "ok"
    /\ session = "open"
    /\ doc = "staged"
    /\ dest = "before"
    /\ outcome = "running"

----------------------------------------------------------------------------
(* Links *)

InTransit(k) == sent[k] \ got[k]

HasRoom(k) == Cardinality(InTransit(k)) < Capacity

First(p, S) == p \in S /\ \A q \in S : p <= q

AtEnd(k) == closed[k] /\ InTransit(k) = {}

----------------------------------------------------------------------------
(* The contexts *)

Interrupt ==
    /\ "run" \notin called
    /\ called' = called \cup {"run"}
    /\ UNCHANGED <<streams, rendered, main, written, writer, ending>>

Propagate(c) ==
    /\ "run" \in called
    /\ c \in {"feed", "tools"} \ called
    /\ called' = called \cup {c}
    /\ UNCHANGED <<streams, rendered, main, written, writer, ending>>

----------------------------------------------------------------------------
(* The stages *)

Rest == <<rendered, called, main, written, writer, ending>>

Goto(k, where) == at' = [at EXCEPT ![k] = where]

\* A goroutine that ends closes its link as it does.
Finish(k, where) ==
    /\ Goto(k, where)
    /\ closed' = [closed EXCEPT ![k] = TRUE]

\* The reader reads the next Part and writes its skeleton entry.
Parse ==
    /\ at[Reader] = "receive"
    /\ \E p \in Part :
        /\ First(p, Part \ parsed)
        /\ parsed' = parsed \cup {p}
        /\ hand' = [hand EXCEPT ![Reader] = p]
    /\ Goto(Reader, "send")
    /\ UNCHANGED <<feed, sent, got, closed, dropped, failed, Rest>>

\* The document is read, or the caller's context is done, which the reader says
\* nothing of.  It does not know of the feeder's context.
ReadEnds ==
    /\ \/ at[Reader] = "receive" /\ parsed = Part
       \/ at[Reader] = "send" /\ "run" \in called
    /\ Finish(Reader, "done")
    /\ hand' = [hand EXCEPT ![Reader] = None]
    /\ UNCHANGED <<source, sent, got, dropped, failed, Rest>>

\* Its error, or its panic, is the last thing it sends.
ReadFails ==
    /\ "reader" \in Faults[feed]
    /\ at[Reader] = "receive"
    /\ HasRoom(Reader)
    /\ Finish(Reader, "done")
    /\ failed' = failed \cup {Reader}
    /\ UNCHANGED <<source, hand, sent, got, dropped, Rest>>

\* The reader's link is at its end, or an error is what comes last: the feeder
\* closes its own link, and has the skeleton and the reader to close yet.
FeedEnds ==
    /\ at[Feeder] = "receive"
    /\ AtEnd(Reader)
    /\ Finish(Feeder, "closing")
    /\ failed' = IF Reader \in failed THEN failed \cup {Feeder} ELSE failed
    /\ UNCHANGED <<source, hand, sent, got, dropped, Rest>>

\* The feeder panics, or a replay fails.
FeedFails ==
    /\ "feeder" \in Faults[feed]
    /\ at[Feeder] \in {"receive", "send"}
    /\ Finish(Feeder, "closing")
    /\ hand' = [hand EXCEPT ![Feeder] = None]
    /\ failed' = failed \cup {Feeder}
    /\ UNCHANGED <<source, sent, got, dropped, Rest>>

\* Only its sends observe its context.
FeedCalledOff ==
    /\ at[Feeder] = "send"
    /\ "feed" \in called
    /\ Finish(Feeder, "closing")
    /\ hand' = [hand EXCEPT ![Feeder] = None]
    /\ UNCHANGED <<source, sent, got, dropped, failed, Rest>>

\* CloseWrite, and the reader's Close: the reader's goroutine is not joined.
FeederReturns ==
    /\ at[Feeder] = "closing"
    /\ Goto(Feeder, "done")
    /\ UNCHANGED <<source, hand, sent, got, closed, dropped, failed, Rest>>

Receive(k) ==
    /\ at[k] = "receive"
    /\ \E p \in Part :
        /\ First(p, InTransit(k - 1))
        /\ got' = [got EXCEPT ![k - 1] = @ \cup {p}]
        /\ hand' = [hand EXCEPT ![k] = p]
    /\ Goto(k, "send")
    /\ UNCHANGED <<source, sent, closed, dropped, failed, Rest>>

Send(k) ==
    /\ at[k] = "send"
    /\ HasRoom(k)
    /\ sent' = [sent EXCEPT ![k] = @ \cup {hand[k]}]
    /\ hand' = [hand EXCEPT ![k] = None]
    /\ Goto(k, "receive")
    /\ UNCHANGED <<source, got, closed, dropped, failed, Rest>>

\* The input is exhausted.
End(k) ==
    /\ at[k] \in {"receive", "drain"}
    /\ AtEnd(k - 1)
    /\ Finish(k, "done")
    /\ UNCHANGED <<source, hand, sent, got, dropped, failed, Rest>>

\* Mistake: the relay drains with a Part in its hand.
SeedGivesUpHolding ==
    /\ at[Seed] = "send"
    /\ "feed" \in called
    /\ Goto(Seed, "drain")
    /\ UNCHANGED <<source, hand, sent, got, closed, dropped, failed, Rest>>

\* The executor may have stopped early: the relay empties the feeder's link.
SeedGivesUp ==
    /\ at[Seed] = "send"
    /\ "feed" \in called
    /\ Goto(Seed, "drain")
    /\ hand' = [hand EXCEPT ![Seed] = None]
    /\ UNCHANGED <<source, sent, got, closed, dropped, failed, Rest>>

SeedDrains ==
    /\ at[Seed] = "drain"
    /\ InTransit(Feeder) # {}
    /\ got' = [got EXCEPT ![Feeder] = sent[Feeder]]
    /\ UNCHANGED <<source, at, hand, sent, closed, dropped, failed, Rest>>

Drop(k) ==
    /\ at[k] = "send" /\ hand[k] \in Droppable
    /\ dropped' = dropped \cup {hand[k]}
    /\ hand' = [hand EXCEPT ![k] = None]
    /\ Goto(k, "receive")
    /\ UNCHANGED <<source, sent, got, closed, failed, Rest>>

\* Mistake: a tool that fails leaves its link open.
ReturnErrorOpen(k) ==
    /\ Goto(k, "failing")
    /\ hand' = [hand EXCEPT ![k] = None]
    /\ failed' = failed \cup {k}
    /\ UNCHANGED <<source, sent, got, closed, dropped, Rest>>

\* A tool's link closes before the errgroup hears of its error.
ReturnError(k) ==
    /\ Finish(k, "failing")
    /\ hand' = [hand EXCEPT ![k] = None]
    /\ failed' = failed \cup {k}
    /\ UNCHANGED <<source, sent, got, dropped, Rest>>

\* The handler fails or panics.
HandlerFails(k) ==
    /\ "tool" \in Faults[feed]
    /\ at[k] = "send"
    /\ ReturnError(k)

\* Receives and sends observe the context.
ToolCalledOff(k) ==
    /\ at[k] \in {"receive", "send"}
    /\ "tools" \in called
    /\ ReturnError(k)

\* The first error cancels the tools' context, and the others change nothing.
ToolFailed(k) ==
    /\ at[k] = "failing"
    /\ Goto(k, "done")
    /\ called' = called \cup {"tools"}
    /\ UNCHANGED <<source, hand, sent, got, closed, dropped, failed, rendered, main, written, writer, ending>>

----------------------------------------------------------------------------
(* The run *)

MainGoes(where) == main' = where

\* The writer takes Parts as they come, or, of a streaming pair, what is left of
\* them once it has taken the last entry of the skeleton.
TakesParts == (main = "writing" /\ feed # "skeleton") \/ main = "emptying"

\* The entry at which the writer of a streaming pair is.
IsEntry(p) == main = "writing" /\ feed = "skeleton" /\ First(p, parsed \ rendered)

Write ==
    /\ TakesParts \/ \E p \in Part \ written : IsEntry(p) /\ writer = "ok"
    /\ \E p \in Part :
        /\ First(p, InTransit(Tap))
        /\ got' = [got EXCEPT ![Tap] = @ \cup {p}]
        /\ written' = written \cup {p}
    /\ UNCHANGED <<source, rendered, at, hand, sent, closed, dropped, failed, called, main,
                   writer, ending>>

\* What the Part of an entry has become, or the entry as it is when there is no
\* Part to come any more.
HasEntry(p) == IsEntry(p) /\ (p \in written \/ AtEnd(Tap) \/ writer = "calledOff")

Render ==
    /\ \E p \in Part : HasEntry(p) /\ rendered' = rendered \cup {p}
    /\ UNCHANGED <<streams, called, main, written, writer, ending>>

\* While it waits for a Part the writer observes the caller's context.
WriteCalledOff ==
    /\ writer = "ok" /\ "run" \in called
    /\ \E p \in Part \ written : IsEntry(p)
    /\ writer' = "calledOff"
    /\ UNCHANGED <<streams, rendered, called, main, written, ending>>

\* While it waits for an entry it observes nothing: the skeleton ends when there is
\* no entry and the feeder has closed it.
SkeletonEnds ==
    /\ main = "writing" /\ feed = "skeleton"
    /\ parsed = rendered
    /\ at[Feeder] = "done"
    /\ \/ writer = "ok" /\ MainGoes("emptying") /\ UNCHANGED writer
       \/ writer = "calledOff" /\ MainGoes("draining") /\ writer' = "failed"
    /\ UNCHANGED <<streams, rendered, called, written, ending>>

\* Without Write's error nothing is left to drain.
WriteEnds ==
    /\ TakesParts \/ main = "draining"
    /\ AtEnd(Tap)
    /\ MainGoes("waiting")
    /\ UNCHANGED <<streams, rendered, called, written, writer, ending>>

\* The writer cannot render something, or cannot write it, or finds the caller's
\* context done.
MayFail ==
    \/ "writer" \in Faults[feed] /\ (TakesParts \/ \E p \in Part : HasEntry(p))
    \/ "run" \in called /\ TakesParts

\* Mistake: the run waits for the tools without draining.
WriteFailsUndrained ==
    /\ MayFail
    /\ MainGoes("waiting")
    /\ writer' = "failed"
    /\ UNCHANGED <<streams, rendered, called, written, ending>>

WriteFails ==
    /\ MayFail
    /\ MainGoes("draining")
    /\ writer' = "failed"
    /\ UNCHANGED <<streams, rendered, called, written, ending>>

Drain ==
    /\ main = "draining"
    /\ InTransit(Tap) # {}
    /\ got' = [got EXCEPT ![Tap] = sent[Tap]]
    /\ UNCHANGED <<source, rendered, at, hand, sent, closed, dropped, failed, called, main, written, writer, ending>>

ToolsDone == \A k \in Tool : at[k] = "done"

\* g.Wait, then the session's end, then feedCancel.  Its commit may fail, and a
\* persistent session does not outlive the context it was opened with.
Wait ==
    /\ main = "waiting"
    /\ ToolsDone
    /\ \/ failed \cap Tool = {} /\ session' = "committed"
       \/ failed \cap Tool = {} /\ session' = "lost" /\ ("commit" \in Faults[feed] \/ "run" \in called)
       \/ failed \cap Tool # {} /\ session' = "rolledback"
    /\ called' = called \cup {"feed", "tools"}
    /\ MainGoes("joining")
    /\ UNCHANGED <<streams, rendered, written, writer, doc, dest, outcome>>

Joined == at[Feeder] = "done" /\ at[Seed] = "done"

\* The reader's error is the run's when the feeder has heard it.
Succeeded ==
    session = "committed" /\ failed \cap (Tool \cup {Feeder}) = {} /\ writer = "ok"

Fails ==
    /\ MainGoes("returned")
    /\ doc' = "discarded"
    /\ outcome' = "error"

Join ==
    /\ main = "joining"
    /\ Joined
    /\ \/ Succeeded /\ MainGoes("committing") /\ UNCHANGED <<doc, outcome>>
       \/ ~Succeeded /\ Fails
    /\ UNCHANGED <<streams, rendered, called, written, writer, session, dest>>

\* Closing the writer, flushing or taking the lock fails.
CommitFails ==
    /\ main = "committing"
    /\ "commit" \in Faults[feed] \/ "run" \in called
    /\ Fails
    /\ UNCHANGED <<streams, rendered, called, written, writer, session, dest>>

Replace == dest' = "produced" /\ doc' = "committed" /\ outcome' = "ok"

\* A destination that holds these bytes already is as good, one that holds
\* others is left alone.
ReplaceUnlessMoved ==
    \/ dest = "before" /\ Replace
    \/ dest = "same" /\ doc' = "discarded" /\ outcome' = "ok" /\ UNCHANGED dest
    \/ dest = "other" /\ doc' = "discarded" /\ outcome' = "moved" /\ UNCHANGED dest

\* Mistake: the lock does not ask the context.
CommitUncalled ==
    /\ main = "committing"
    /\ ReplaceUnlessMoved
    /\ MainGoes("returned")
    /\ UNCHANGED <<streams, rendered, called, written, writer, session>>

\* Mistake: the commit does not look at the destination.
CommitBlindly ==
    /\ main = "committing"
    /\ "run" \notin called
    /\ Replace
    /\ MainGoes("returned")
    /\ UNCHANGED <<streams, rendered, called, written, writer, session>>

\* Under the file's lock, which is not given to a run that was called off.
Commit ==
    /\ main = "committing"
    /\ "run" \notin called
    /\ ReplaceUnlessMoved
    /\ MainGoes("returned")
    /\ UNCHANGED <<streams, rendered, called, written, writer, session>>

\* Another run commits to the destination, the same bytes or others.
Rival ==
    /\ dest = "before"
    /\ dest' \in Rivals
    /\ UNCHANGED <<streams, rendered, called, main, written, writer, session, doc, outcome>>

----------------------------------------------------------------------------

ReaderStep == Parse \/ Send(Reader) \/ ReadEnds \/ ReadFails

FeederStep ==
    \/ Receive(Feeder) \/ Send(Feeder) \/ FeedEnds \/ FeedFails \/ FeedCalledOff
    \/ FeederReturns

SeedStep == Receive(Seed) \/ Send(Seed) \/ End(Seed) \/ SeedGivesUp \/ SeedDrains

ToolStep(k) ==
    Receive(k) \/ Send(k) \/ Drop(k) \/ End(k) \/ HandlerFails(k) \/ ToolCalledOff(k) \/ ToolFailed(k)

TapStep == Receive(Tap) \/ Send(Tap) \/ End(Tap)

WriterStep ==
    Write \/ Render \/ WriteCalledOff \/ SkeletonEnds \/ WriteEnds \/ WriteFails \/ Drain

MainStep == WriterStep \/ Wait \/ Join \/ CommitFails \/ Commit

Next ==
    \/ Interrupt
    \/ \E c \in {"feed", "tools"} : Propagate(c)
    \/ ReaderStep
    \/ FeederStep
    \/ SeedStep
    \/ \E k \in Tool : ToolStep(k)
    \/ TapStep
    \/ MainStep
    \/ Rival

Spec == Init /\ [][Next]_vars

\* Every goroutine goes on, and a cancelled context reaches its children.
\* Nothing has to fail, and no tool has to drop a Part to get rid of it.
Fairness ==
    /\ \A c \in {"feed", "tools"} : WF_vars(Propagate(c))
    /\ WF_vars(Parse \/ Send(Reader) \/ ReadEnds)
    /\ WF_vars(Receive(Feeder) \/ Send(Feeder) \/ FeedEnds \/ FeedCalledOff \/ FeederReturns)
    /\ WF_vars(SeedStep)
    /\ \A k \in Tool :
        WF_vars(Receive(k) \/ Send(k) \/ End(k) \/ ToolCalledOff(k) \/ ToolFailed(k))
    /\ WF_vars(TapStep)
    /\ WF_vars(Write \/ Render \/ WriteCalledOff \/ SkeletonEnds \/ WriteEnds \/ Drain
                 \/ Wait \/ Join \/ Commit \/ CommitFails)

FairSpec == Spec /\ Fairness

----------------------------------------------------------------------------
(* Properties *)

\* A stage holds a Part exactly while it has one to send.
TypeOK ==
    /\ feed \in Feeds
    /\ parsed \subseteq Part
    /\ rendered \subseteq parsed
    /\ at \in [Link -> {"receive", "send", "drain", "failing", "closing", "done"}]
    /\ hand \in [Link -> Part \cup {None}]
    /\ \A k \in Link : at[k] = "send" <=> hand[k] # None
    /\ sent \in [Link -> SUBSET Part]
    /\ got \in [Link -> SUBSET Part]
    /\ \A k \in Link : got[k] \subseteq sent[k]
    /\ closed \in [Link -> BOOLEAN]
    /\ dropped \subseteq Part
    /\ failed \subseteq Link
    /\ called \subseteq {"run", "feed", "tools"}
    /\ main \in {"writing", "emptying", "draining", "waiting", "joining", "committing", "returned"}
    /\ written \subseteq Part
    /\ writer \in {"ok", "calledOff", "failed"}
    /\ session \in {"open", "committed", "lost", "rolledback"}
    /\ doc \in {"staged", "committed", "discarded"}
    /\ dest \in {"before", "produced", "same", "other"}
    /\ outcome \in {"running", "ok", "moved", "error"}

\* A document is committed only whole: every Part the tools did not drop has
\* been written, and where there is a skeleton to its last entry, the session's
\* overlays are committed with it, and nothing failed on the way.  A cancelled run
\* ends its stages without an error and may well commit its session over a
\* truncated stream; its document must not follow.
CommittedIsWhole ==
    doc = "committed" =>
        /\ Part \subseteq written \cup dropped
        /\ feed = "skeleton" => rendered = Part
        /\ session = "committed"
        /\ failed = {} /\ writer = "ok"

\* What another run has committed meanwhile is never replaced.
RivalIsKept == [][dest # "before" => dest' = dest]_vars

\* When the run returns, nothing of it is running but, after an error, the format's
\* reader: nobody joins it, and only the caller's context ends it.
JoinedAtReturn ==
    main = "returned" =>
        /\ \A k \in Link \ {Reader} : at[k] = "done"
        /\ at[Reader] = "done" \/ outcome = "error"

\* The writer of a streaming pair waits for a skeleton that nobody closes: the
\* feeder waits for a link that nobody reads, since a tool failed, and its own
\* context is cancelled only after the writer has returned.
Starved ==
    /\ feed = "skeleton" /\ main = "writing" /\ parsed = rendered
    /\ failed \cap Tool # {} /\ "run" \notin called
    /\ at[Feeder] = "send" /\ ~HasRoom(Feeder)

\* The run returns, whichever stage fails, is cancelled or stops reading, and does
\* so when it is cancelled; only the writer of a streaming pair may be starved
\* after a tool has failed.
Returns == <>[](main = "returned" \/ Starved)

\* "a tool error (which cancels the executor's own internal context and stops the
\* tools) can also unblock the feeder" (runExecuteWrite): the run returns after a
\* tool has failed, whatever the feed.
ReturnsAfterToolError == (failed \cap Tool # {}) ~> (main = "returned")

=============================================================================
