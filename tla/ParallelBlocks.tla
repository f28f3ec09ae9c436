---------------------------- MODULE ParallelBlocks ----------------------------
(***************************************************************************)
(* ParallelBlockTool.Process (core/tool/parallel.go): a reader that admits *)
(* Parts on two windows of permits, a fixed pool of workers that run the   *)
(* block handlers, and an emitter that puts the results back in order in a *)
(* ring and releases the permits.                                          *)
(*                                                                         *)
(* The goroutines meet in channels: jobs has no buffer, so a submission is *)
(* one step of the reader and a worker; results has one; a window is a     *)
(* channel used as a counter.  Upstream may be slow, downstream may stop   *)
(* reading, the caller may cancel at any moment, and a select with several *)
(* channels ready takes any of them.                                       *)
(***************************************************************************)
EXTENDS Integers, Sequences, FiniteSets

CONSTANTS
    Worker,         \* the pool; its size is the tool's concurrency
    OtherPerBlock,  \* nonBlockWindowPerBlock
    Streams         \* the sequences of Parts that may come in

\* A Part is a block, a Part the inner tool has a handler for, or one that
\* passes through; its fate is what the handler returns.
Part == [type : {"block", "handled", "passed"}, fate : {"keep", "drop", "error"}]

ASSUME ConcurrencyAssumption == IsFiniteSet(Worker) /\ Cardinality(Worker) > 1

ASSUME WindowAssumption == OtherPerBlock \in Nat \ {0}

ASSUME StreamsAssumption ==
    /\ Streams \subseteq Seq(Part)
    /\ \A str \in Streams : \A i \in DOMAIN str :
          str[i].type = "passed" => str[i].fate = "keep"

VARIABLES
    stream,         \* what comes in
    taken,          \* how much of it has been read from the channel in
    reader,         \* the dispatching goroutine: where it is, and its seq
    blockWindow,    \* permits taken from the block window
    otherWindow,    \* permits taken from the window of the other Parts
    active,         \* the WaitGroup of submitted blocks
    worker,         \* per worker: where it is, and the job it has
    verdict,        \* per position: what its handler returned, if it has
    results,        \* the buffered channel of results
    pending,        \* the reassembly ring
    emitter,        \* where Process itself is
    nextSeq,        \* the next position to emit
    out,            \* positions sent downstream
    ctx,            \* the derived context: live, called off, or cancelled by Process
    outcome         \* what Process is about to return

vars == <<stream, taken, reader, blockWindow, otherWindow, active, worker, verdict,
          results, pending, emitter, nextSeq, out, ctx, outcome>>

BlockCap == Cardinality(Worker)

OtherCap == OtherPerBlock * Cardinality(Worker)

\* Mistake: a ring for the Parts of one window only.
RingOfOthers == OtherCap

RingSize == BlockCap + OtherCap

cancelled == ctx # "live"

PartAt(s) == stream[s + 1]

\* A result carries which window its Part was admitted on, because a dropped
\* block has no Part left to ask.
Result(s) ==
    [seq |-> s,
     fate |-> IF PartAt(s).type = "passed" THEN "keep" ELSE verdict[s],
     block |-> PartAt(s).type = "block"]

\* A handler returns, and one that honours a cancelled context may fail.
Handle(s) ==
    \E fate \in {PartAt(s).fate} \cup (IF cancelled THEN {"error"} ELSE {}) :
        verdict' = [verdict EXCEPT ![s] = fate]

Empty == [seq |-> -1, fate |-> "none", block |-> FALSE]

Slot(s) == s % RingSize

Idle == [at |-> "idle", seq |-> -1]

Init ==
    /\ stream \in Streams
    /\ taken = 0
    /\ reader = [at |-> "acquire", seq |-> 0]
    /\ blockWindow = 0
    /\ otherWindow = 0
    /\ active = 0
    /\ worker = [w \in Worker |-> Idle]
    /\ verdict = [s \in 0 .. Len(stream) - 1 |-> "none"]
    /\ results = <<>>
    /\ pending = [i \in 0 .. RingSize - 1 |-> Empty]
    /\ emitter = "loop"
    /\ nextSeq = 0
    /\ out = <<>>
    /\ ctx = "live"
    /\ outcome = "running"

----------------------------------------------------------------------------
(* The reader *)

ReaderAt(at) == reader' = [reader EXCEPT !.at = at]

NextPart == reader' = [at |-> "acquire", seq |-> reader.seq + 1]

\* Mistake: a window of one more.
HasRoomForOneMore == blockWindow <= BlockCap

HasBlockPermit == blockWindow < BlockCap

AcquirePermit ==
    /\ reader.at = "acquire"
    /\ HasBlockPermit
    /\ blockWindow' = blockWindow + 1
    /\ ReaderAt("read")
    /\ UNCHANGED <<stream, taken, otherWindow, active, worker, verdict, results, pending,
                   emitter, nextSeq, out, ctx, outcome>>

ReadPart ==
    /\ reader.at = "read"
    /\ taken < Len(stream)
    /\ taken' = taken + 1
    /\ IF PartAt(taken).type = "block"
         THEN active' = active + 1 /\ ReaderAt("submit")
         ELSE active' = active /\ ReaderAt("trade")
    /\ UNCHANGED <<stream, blockWindow, otherWindow, worker, verdict, results, pending,
                   emitter, nextSeq, out, ctx, outcome>>

InputClosed ==
    /\ reader.at = "read"
    /\ taken = Len(stream)
    /\ ReaderAt("closing")
    /\ UNCHANGED <<stream, taken, blockWindow, otherWindow, active, worker, verdict, results,
                   pending, emitter, nextSeq, out, ctx, outcome>>

SubmitBlock(w) ==
    /\ reader.at = "submit"
    /\ worker[w] = Idle
    /\ worker' = [worker EXCEPT ![w] = [at |-> "took", seq |-> reader.seq]]
    /\ NextPart
    /\ UNCHANGED <<stream, taken, blockWindow, otherWindow, active, verdict, results, pending,
                   emitter, nextSeq, out, ctx, outcome>>

\* Mistake: the Part keeps its block permit as well.
KeepBothPermits ==
    /\ reader.at = "trade"
    /\ otherWindow < OtherCap
    /\ otherWindow' = otherWindow + 1
    /\ ReaderAt(IF PartAt(reader.seq).type = "handled" THEN "barrier" ELSE "put")
    /\ UNCHANGED <<stream, taken, blockWindow, active, worker, verdict, results, pending,
                   emitter, nextSeq, out, ctx, outcome>>

\* A Part that is no block gives its block permit back for one of the other
\* window; only a Part with a handler waits at the barrier.
TradePermit ==
    /\ reader.at = "trade"
    /\ otherWindow < OtherCap
    /\ otherWindow' = otherWindow + 1
    /\ blockWindow' = blockWindow - 1
    /\ ReaderAt(IF PartAt(reader.seq).type = "handled" THEN "barrier" ELSE "put")
    /\ UNCHANGED <<stream, taken, active, worker, verdict, results, pending, emitter, nextSeq,
                   out, ctx, outcome>>

\* Mistake: the context is not looked at once the blocks are done with.
HandleAnyway == "handle"

\* A block that a cancelled worker skipped was counted out unhandled.
AfterBarrier == IF cancelled THEN "closing" ELSE "handle"

PassBarrier ==
    /\ reader.at = "barrier"
    /\ active = 0
    /\ ReaderAt(AfterBarrier)
    /\ UNCHANGED <<stream, taken, blockWindow, otherWindow, active, worker, verdict, results,
                   pending, emitter, nextSeq, out, ctx, outcome>>

HandlePart ==
    /\ reader.at = "handle"
    /\ Handle(reader.seq)
    /\ ReaderAt("put")
    /\ UNCHANGED <<stream, taken, blockWindow, otherWindow, active, worker, results, pending,
                   emitter, nextSeq, out, ctx, outcome>>

PutPart ==
    /\ reader.at = "put"
    /\ Len(results) < RingSize
    /\ results' = Append(results, Result(reader.seq))
    /\ NextPart
    /\ UNCHANGED <<stream, taken, blockWindow, otherWindow, active, worker, verdict, pending,
                   emitter, nextSeq, out, ctx, outcome>>

\* Mistake: a read that waits for the input alone.
SelectsButRead == {"acquire", "submit", "trade", "put"}

\* Where the reader waits for the context beside a channel.
Selects == {"acquire", "read", "submit", "trade", "put"}

ReaderStops ==
    /\ cancelled
    /\ reader.at \in Selects
    /\ active' = IF reader.at = "submit" THEN active - 1 ELSE active
    /\ ReaderAt("closing")
    /\ UNCHANGED <<stream, taken, blockWindow, otherWindow, worker, verdict, results, pending,
                   emitter, nextSeq, out, ctx, outcome>>

\* jobs is closed from "closing" on; results and done once the workers are gone.
JoinWorkers ==
    /\ reader.at = "closing"
    /\ \A w \in Worker : worker[w].at = "gone"
    /\ ReaderAt("done")
    /\ UNCHANGED <<stream, taken, blockWindow, otherWindow, active, worker, verdict, results,
                   pending, emitter, nextSeq, out, ctx, outcome>>

----------------------------------------------------------------------------
(* The workers *)

WorkerAt(w, at) == worker' = [worker EXCEPT ![w].at = at]

TakeJob(w) ==
    /\ worker[w].at = "took"
    /\ WorkerAt(w, IF cancelled THEN "counted" ELSE "handling")
    /\ UNCHANGED <<stream, taken, reader, blockWindow, otherWindow, active, verdict, results,
                   pending, emitter, nextSeq, out, ctx, outcome>>

HandleBlock(w) ==
    /\ worker[w].at = "handling"
    /\ Handle(worker[w].seq)
    /\ WorkerAt(w, "put")
    /\ UNCHANGED <<stream, taken, reader, blockWindow, otherWindow, active, results, pending,
                   emitter, nextSeq, out, ctx, outcome>>

PutResult(w) ==
    /\ worker[w].at = "put"
    /\ Len(results) < RingSize
    /\ results' = Append(results, Result(worker[w].seq))
    /\ WorkerAt(w, "counted")
    /\ UNCHANGED <<stream, taken, reader, blockWindow, otherWindow, active, verdict, pending,
                   emitter, nextSeq, out, ctx, outcome>>

DropResult(w) ==
    /\ worker[w].at = "put"
    /\ cancelled
    /\ WorkerAt(w, "counted")
    /\ UNCHANGED <<stream, taken, reader, blockWindow, otherWindow, active, verdict, results,
                   pending, emitter, nextSeq, out, ctx, outcome>>

\* active.Done comes after the result is sent.
CountDone(w) ==
    /\ worker[w].at = "counted"
    /\ active' = active - 1
    /\ worker' = [worker EXCEPT ![w] = Idle]
    /\ UNCHANGED <<stream, taken, reader, blockWindow, otherWindow, verdict, results, pending,
                   emitter, nextSeq, out, ctx, outcome>>

LeavePool(w) ==
    /\ worker[w] = Idle
    /\ reader.at = "closing"
    /\ WorkerAt(w, "gone")
    /\ UNCHANGED <<stream, taken, reader, blockWindow, otherWindow, active, verdict, results,
                   pending, emitter, nextSeq, out, ctx, outcome>>

----------------------------------------------------------------------------
(* The emitter *)

NextSlot == pending[Slot(nextSeq)]

\* The select of the outer loop: the slot that is next is not ready.
Waiting == emitter = "loop" /\ NextSlot = Empty

Leave(o) ==
    /\ emitter' = "leaving"
    /\ outcome' = o

Receive ==
    /\ Waiting
    /\ results # <<>>
    /\ results' = Tail(results)
    /\ LET result == Head(results)
       IN  IF result.fate = "error"
             THEN Leave("error") /\ pending' = pending
             ELSE /\ pending' = [pending EXCEPT ![Slot(result.seq)] = result]
                  /\ UNCHANGED <<emitter, outcome>>
    /\ UNCHANGED <<stream, taken, reader, blockWindow, otherWindow, active, worker, verdict,
                   nextSeq, out, ctx>>

SendPart ==
    /\ emitter = "loop"
    /\ NextSlot.fate = "keep"
    /\ out' = Append(out, NextSlot.seq)
    /\ emitter' = "release"
    /\ UNCHANGED <<stream, taken, reader, blockWindow, otherWindow, active, worker, verdict,
                   results, pending, nextSeq, ctx, outcome>>

SkipDropped ==
    /\ emitter = "loop"
    /\ NextSlot.fate = "drop"
    /\ emitter' = "release"
    /\ UNCHANGED <<stream, taken, reader, blockWindow, otherWindow, active, worker, verdict,
                   results, pending, nextSeq, out, ctx, outcome>>

\* Mistake: the window is told from the Part, and a dropped block has none.
LooksLikeBlock == NextSlot.block /\ NextSlot.fate = "keep"

OnBlockWindow == NextSlot.block

ReleasePermit ==
    /\ emitter = "release"
    /\ IF OnBlockWindow
         THEN blockWindow > 0 /\ blockWindow' = blockWindow - 1 /\ otherWindow' = otherWindow
         ELSE otherWindow > 0 /\ otherWindow' = otherWindow - 1 /\ blockWindow' = blockWindow
    /\ pending' = [pending EXCEPT ![Slot(nextSeq)] = Empty]
    /\ nextSeq' = nextSeq + 1
    /\ emitter' = "loop"
    /\ UNCHANGED <<stream, taken, reader, active, worker, verdict, results, out, ctx, outcome>>

\* A closed channel first hands out what it buffers.
ResultsClosed ==
    /\ Waiting
    /\ results = <<>>
    /\ reader.at = "done"
    /\ Leave(IF cancelled THEN "cancelled" ELSE "ok")
    /\ UNCHANGED <<stream, taken, reader, blockWindow, otherWindow, active, worker, verdict,
                   results, pending, nextSeq, out, ctx>>

\* The context is waited for beside the results, and beside the send.
EmitterStops ==
    /\ cancelled
    /\ Waiting \/ (emitter = "loop" /\ NextSlot.fate = "keep")
    /\ Leave("cancelled")
    /\ UNCHANGED <<stream, taken, reader, blockWindow, otherWindow, active, worker, verdict,
                   results, pending, nextSeq, out, ctx>>

\* The deferred cancel(), and the wait for done.
CancelRest ==
    /\ emitter = "leaving"
    /\ ctx' = IF ctx = "live" THEN "stopped" ELSE ctx
    /\ emitter' = "joining"
    /\ UNCHANGED <<stream, taken, reader, blockWindow, otherWindow, active, worker, verdict,
                   results, pending, nextSeq, out, outcome>>

Return ==
    /\ emitter = "joining"
    /\ reader.at = "done"
    /\ emitter' = "returned"
    /\ UNCHANGED <<stream, taken, reader, blockWindow, otherWindow, active, worker, verdict,
                   results, pending, nextSeq, out, ctx, outcome>>

\* The caller cancels.
Cancel ==
    /\ ctx = "live"
    /\ emitter # "returned"
    /\ ctx' = "calledOff"
    /\ UNCHANGED <<stream, taken, reader, blockWindow, otherWindow, active, worker, verdict,
                   results, pending, emitter, nextSeq, out, outcome>>

\* Process is called once.
Finished ==
    /\ emitter = "returned"
    /\ UNCHANGED vars

----------------------------------------------------------------------------

\* What the reader does without anything coming in.
ReaderStep ==
    \/ AcquirePermit \/ TradePermit \/ PassBarrier \/ HandlePart \/ PutPart
    \/ ReaderStops \/ JoinWorkers
    \/ \E w \in Worker : SubmitBlock(w)

WorkerStep(w) ==
    \/ TakeJob(w) \/ HandleBlock(w) \/ PutResult(w) \/ DropResult(w)
    \/ CountDone(w) \/ LeavePool(w)

\* What the emitter does without anybody taking what it sends.
EmitterStep ==
    \/ Receive \/ SkipDropped \/ ReleasePermit \/ ResultsClosed \/ EmitterStops
    \/ CancelRest \/ Return

Next ==
    \/ ReadPart \/ InputClosed
    \/ ReaderStep
    \/ \E w \in Worker : WorkerStep(w)
    \/ SendPart
    \/ EmitterStep
    \/ Cancel
    \/ Finished

Spec == Init /\ [][Next]_vars

\* The goroutines run, and a handler that runs ends; nothing is said of the
\* stages upstream and downstream, nor that anybody cancels.
FairSpec ==
    /\ Spec
    /\ WF_vars(ReaderStep)
    /\ \A w \in Worker : WF_vars(WorkerStep(w))
    /\ WF_vars(EmitterStep)

----------------------------------------------------------------------------
(* Properties *)

AtWorker == {"took", "handling", "put", "counted"}

TypeOK ==
    /\ stream \in Streams
    /\ reader \in [at : {"acquire", "read", "submit", "trade", "barrier", "handle",
                         "put", "closing", "done"}, seq : Nat]
    /\ taken \in 0 .. Len(stream)
    /\ blockWindow \in 0 .. BlockCap
    /\ otherWindow \in 0 .. OtherCap
    /\ active \in 0 .. Cardinality(Worker) + 1
    /\ worker \in [Worker -> {Idle, [at |-> "gone", seq |-> -1]}
                               \cup [at : AtWorker, seq : Nat]]
    /\ verdict \in [0 .. Len(stream) - 1 -> {"none", "keep", "drop", "error"}]
    /\ results \in Seq([seq : Nat, fate : {"keep", "drop", "error"}, block : BOOLEAN])
    /\ pending \in [0 .. RingSize - 1 -> {Empty}
                      \cup [seq : Nat, fate : {"keep", "drop"}, block : BOOLEAN]]
    /\ emitter \in {"loop", "release", "leaving", "joining", "returned"}
    /\ nextSeq \in Nat
    /\ out \in Seq(Nat)
    /\ ctx \in {"live", "calledOff", "stopped"}
    /\ outcome \in {"running", "ok", "error", "cancelled"}

\* A permit is held for every Part that was admitted and has not been emitted,
\* on the window of its type, and one for the Part the reader has in hand: a
\* permit that leaks would starve the stage, one given back too early would
\* let it hold more than its windows (the comment on Process).
PermitsMatchParts ==
    reader.at \notin {"closing", "done"} =>
        LET admitted == nextSeq .. reader.seq - 1
            blocks == {s \in admitted : PartAt(s).type = "block"}
        IN  /\ blockWindow = Cardinality(blocks)
                  + (IF reader.at \in {"read", "submit", "trade"} THEN 1 ELSE 0)
            /\ otherWindow = Cardinality(admitted \ blocks)
                  + (IF reader.at \in {"barrier", "handle", "put"} THEN 1 ELSE 0)

\* Who has a result to send.
Senders == {w \in Worker : worker[w].at = "put"}

Coming ==
    {results[i].seq : i \in DOMAIN results}
        \cup {worker[w].seq : w \in Senders}
        \cup (IF reader.at = "put" THEN {reader.seq} ELSE {})

\* Nobody ever waits for room in results, so a worker that waits at nothing
\* counts itself out of active and the barrier opens; and a result that comes
\* finds its slot of the ring free, so that none overwrites another.
ResultsHaveRoom ==
    /\ Len(results) + Cardinality(Senders) + (IF reader.at = "put" THEN 1 ELSE 0) <= RingSize
    /\ \A s \in Coming :
          /\ s \in nextSeq .. nextSeq + RingSize - 1
          /\ pending[Slot(s)] = Empty

\* The stage seen from outside.
Stage == INSTANCE OrderedStage WITH
    HeldCap <- RingSize,
    handling <- {worker[w].seq : w \in {v \in Worker : worker[v].at = "handling"}}
                  \cup (IF reader.at = "handle" THEN {reader.seq} ELSE {}),
    handled <- {s \in DOMAIN verdict : verdict[s] # "none"},
    passedOn <- IF emitter = "release" THEN nextSeq + 1 ELSE nextSeq,
    calledOff <- ctx = "calledOff",
    outcome <- IF emitter = "returned" THEN outcome ELSE "running"

\* Process keeps the promises of an ordered stage: order, drops, structural
\* handlers alone and in their place, bounded windows, a success only when
\* everything came out, and no handler running when it has returned.
IsOrderedStage == Stage!Spec

\* When Parts come until in is closed, and what is sent is taken, Process
\* returns: no goroutine waits for another for ever.
Ends ==
    WF_vars(ReadPart) /\ WF_vars(InputClosed) /\ WF_vars(SendPart)
        => <>(emitter = "returned")

\* Cancelled, it returns although nothing comes in and nobody takes anything.
CancelEnds == (ctx = "calledOff") ~> (emitter = "returned")

=============================================================================
