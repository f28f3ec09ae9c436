------------------------ MODULE ParallelBlocks_proofs ------------------------
(***************************************************************************)
(* The invariants of ParallelBlocks, for every pool of workers, every      *)
(* number of permits per worker and every set of streams.                  *)
(***************************************************************************)
EXTENDS ParallelBlocks, FiniteSetTheorems, SequenceTheorems, TLAPS

\* Admitted and not yet emitted.
Held == nextSeq .. reader.seq - 1

IsBlock(s) == PartAt(s).type = "block"

\* Where the reader has a Part in hand.
InHand == {"submit", "trade", "barrier", "handle", "put"}

\* The reader has read the Parts before its own, and its own once in hand.
ReaderOK ==
    /\ reader.at \in {"acquire", "read"} => taken = reader.seq
    /\ reader.at \in InHand => taken = reader.seq + 1
    /\ reader.seq <= taken
    /\ reader.at = "submit" => IsBlock(reader.seq)
    /\ reader.at \in InHand \ {"submit"} => ~IsBlock(reader.seq)
    /\ reader.at = "barrier" => PartAt(reader.seq).type = "handled"
    /\ reader.at = "put" => PartAt(reader.seq).type = "passed" \/ verdict[reader.seq] # "none"

\* The workers that count in active, and those whose block is not in results yet.
Busy == {w \in Worker : worker[w].at \in AtWorker}

Underway == {w \in Worker : worker[w].at \in AtWorker \ {"counted"}}

ActiveOK == active = Cardinality(Busy) + (IF reader.at = "submit" THEN 1 ELSE 0)

WorkersOK ==
    \A w \in Underway :
        /\ worker[w].seq \in Held
        /\ IsBlock(worker[w].seq)
        /\ worker[w].at = "put" => verdict[worker[w].seq] # "none"

ResultsOK ==
    \A i \in DOMAIN results :
        /\ results[i].seq \in Held
        /\ results[i].block <=> IsBlock(results[i].seq)

RingOK ==
    \A k \in DOMAIN pending : pending[k] # Empty =>
        /\ pending[k].seq \in Held
        /\ pending[k].block <=> IsBlock(pending[k].seq)
        /\ Slot(pending[k].seq) = k

\* A position is in one place only.
OnePlace ==
    /\ \A v, w \in Underway : worker[v].seq = worker[w].seq => v = w
    /\ \A i, j \in DOMAIN results : results[i].seq = results[j].seq => i = j
    /\ \A i \in DOMAIN results, w \in Underway : results[i].seq # worker[w].seq
    /\ \A k \in DOMAIN pending, w \in Underway : pending[k].seq # worker[w].seq
    /\ \A k \in DOMAIN pending, i \in DOMAIN results : pending[k].seq # results[i].seq

\* What is held, with the Part a permit has been taken for, fits the ring.
HeldFits ==
    /\ nextSeq <= reader.seq
    /\ reader.seq + (IF reader.at \in InHand \cup {"read"} THEN 1 ELSE 0) <= nextSeq + RingSize

EmitterOK == emitter = "release" => NextSlot # Empty

IInv ==
    /\ TypeOK
    /\ ReaderOK
    /\ ActiveOK
    /\ WorkersOK
    /\ ResultsOK
    /\ RingOK
    /\ OnePlace
    /\ HeldFits
    /\ EmitterOK
    /\ PermitsMatchParts

----------------------------------------------------------------------------
(* Sizes, and slots of the ring *)

LEMMA Sizes ==
    /\ IsFiniteSet(Worker) /\ Cardinality(Worker) \in Nat
    /\ BlockCap \in Nat \ {0} /\ OtherCap \in Nat
    /\ RingSize \in Nat \ {0} /\ RingSize = BlockCap + OtherCap
<1>1. IsFiniteSet(Worker) /\ Cardinality(Worker) \in Nat /\ Cardinality(Worker) > 1
  BY ConcurrencyAssumption, FS_CardinalityType
<1>2. OtherPerBlock * Cardinality(Worker) \in Nat
  BY <1>1, WindowAssumption
<1> QED
  BY <1>1, <1>2 DEF BlockCap, OtherCap, RingSize

\* Positions of one slot are equal or a whole ring apart.
LEMMA SlotsRepeat ==
    ASSUME NEW s \in Nat, NEW u \in Nat, Slot(s) = Slot(u), s < u
    PROVE  s + RingSize <= u
<1> DEFINE R == RingSize  p == s \div R  q == u \div R
<1>1. R \in Nat \ {0}
  BY Sizes
<1> HIDE DEF R
<1>2. /\ p \in Int /\ q \in Int /\ s % R \in Nat
      /\ s = (R * p) + (s % R) /\ u = (R * q) + (u % R) /\ s % R = u % R
  BY <1>1 DEF Slot, R
<1> HIDE DEF p, q
<1>3. (R * q) - (R * p) = R * (q - p)
  BY <1>1, <1>2, Z3
<1>4. u - s = R * (q - p)
  BY <1>1, <1>2, <1>3
<1>5. ~(q - p <= 0)
  BY <1>1, <1>2, <1>4, SMTT(30)
<1>6. R * (q - p) >= R
  BY <1>1, <1>2, <1>5, SMTT(30)
<1> QED
  BY <1>1, <1>4, <1>6 DEF R

LEMMA SlotInRing ==
    ASSUME NEW s \in Nat
    PROVE  Slot(s) \in 0 .. RingSize - 1
BY Sizes DEF Slot

\* What is held fits the ring, so each held position has a slot of its own.
LEMMA OwnSlot ==
    ASSUME TypeOK, HeldFits,
           NEW s \in nextSeq .. reader.seq, NEW u \in nextSeq .. reader.seq,
           s = reader.seq => reader.at \in InHand,
           u = reader.seq => reader.at \in InHand,
           Slot(s) = Slot(u)
    PROVE  s = u
<1>1. s \in Nat /\ u \in Nat /\ nextSeq \in Nat /\ reader.seq \in Nat
  BY DEF TypeOK
<1>2. ~(s < u) /\ ~(u < s)
  BY <1>1, SlotsRepeat, Sizes DEF HeldFits
<1> QED
  BY <1>1, <1>2

\* What moving a goroutine on changes.
LEMMA WorkerGoesOn ==
    ASSUME TypeOK, NEW w \in Worker, NEW at, WorkerAt(w, at)
    PROVE  /\ worker'[w].at = at /\ worker'[w].seq = worker[w].seq
           /\ \A v \in Worker \ {w} : worker'[v] = worker[v]
<1>1. worker[w] \in [at : {"idle", "gone"} \cup AtWorker, seq : Int] /\ DOMAIN worker = Worker
  BY DEF TypeOK, Idle
<1>2. worker'[w] = [worker[w] EXCEPT !.at = at]
  BY <1>1 DEF WorkerAt
<1> QED
  BY <1>1, <1>2 DEF WorkerAt

LEMMA ReaderGoesOn ==
    ASSUME TypeOK, NEW at, ReaderAt(at)
    PROVE  reader'.at = at /\ reader'.seq = reader.seq
BY DEF TypeOK, ReaderAt

----------------------------------------------------------------------------

LEMMA InitInv == Init => IInv
<1> SUFFICES ASSUME Init PROVE IInv
  OBVIOUS
<1> USE DEF Init
<1>1. TypeOK
  <2>1. stream \in Seq(Part) /\ Len(stream) \in Nat
    BY StreamsAssumption
  <2>2. Cardinality(Worker) \in Nat /\ BlockCap \in Nat /\ OtherCap \in Nat
    BY Sizes
  <2> QED
    BY <2>1, <2>2 DEF TypeOK, Idle, Empty
<1>2. ReaderOK /\ WorkersOK /\ ResultsOK /\ RingOK /\ OnePlace /\ EmitterOK
  BY DEF ReaderOK, WorkersOK, ResultsOK, RingOK, OnePlace, EmitterOK, InHand, Underway,
         AtWorker, Idle, Empty
<1>3. ActiveOK
  <2>1. Busy = {}
    BY DEF Busy, AtWorker, Idle
  <2> QED
    BY <2>1, FS_EmptySet DEF ActiveOK
<1>4. HeldFits
  BY Sizes DEF HeldFits, InHand
<1>5. PermitsMatchParts
  <2>1. nextSeq .. reader.seq - 1 = {}
    OBVIOUS
  <2> QED
    BY <2>1, FS_EmptySet DEF PermitsMatchParts
<1> QED
  BY <1>1, <1>2, <1>3, <1>4, <1>5 DEF IInv

\* What the workers count in active is what they have not counted out.
LEMMA ActiveStep == IInv /\ [Next]_vars => ActiveOK'
<1> SUFFICES ASSUME IInv, [Next]_vars PROVE ActiveOK'
  OBVIOUS
<1> USE DEF IInv
<1>1. IsFiniteSet(Busy) /\ Cardinality(Busy) \in Nat /\ active \in Int
  BY Sizes, FS_Subset, FS_CardinalityType DEF Busy, TypeOK
<1>2. CASE ReadPart
  <2>1. Busy' = Busy
    BY <1>2 DEF ReadPart, Busy
  <2> QED
    BY <1>1, <1>2, <2>1 DEF ReadPart, ReaderAt, ActiveOK, TypeOK
<1>3. ASSUME NEW w \in Worker, SubmitBlock(w) PROVE ActiveOK'
  <2>1. w \notin Busy /\ Busy' = Busy \cup {w}
    BY <1>3 DEF SubmitBlock, Busy, TypeOK, AtWorker, Idle
  <2> QED
    BY <1>1, <1>3, <2>1, FS_AddElement, SMTT(30) DEF SubmitBlock, NextPart, ActiveOK
<1>4. ASSUME NEW w \in Worker, CountDone(w) PROVE ActiveOK'
  <2>1. w \in Busy /\ Busy' = Busy \ {w}
    BY <1>4 DEF CountDone, Busy, TypeOK, AtWorker, Idle
  <2>2. Cardinality(Busy') = Cardinality(Busy) - 1
    BY <1>1, <2>1, FS_RemoveElement
  <2>3. active' = active - 1 /\ reader' = reader
    BY <1>4 DEF CountDone
  <2> QED
    BY <1>1, <2>2, <2>3 DEF ActiveOK
<1>5. CASE ReaderStops
  <2>1. Busy' = Busy
    BY <1>5 DEF ReaderStops, Busy
  <2> QED
    BY <1>1, <1>5, <2>1 DEF ReaderStops, ReaderAt, ActiveOK, TypeOK
<1>6. ASSUME NEW w \in Worker,
             TakeJob(w) \/ HandleBlock(w) \/ PutResult(w) \/ DropResult(w) \/ LeavePool(w)
      PROVE  ActiveOK'
  <2>1. \A v \in Worker : worker'[v].at \in AtWorker <=> worker[v].at \in AtWorker
    BY <1>6, WorkerGoesOn DEF TakeJob, HandleBlock, PutResult, DropResult, LeavePool,
                              AtWorker, Idle
  <2>2. Busy' = Busy
    BY <2>1 DEF Busy
  <2> QED
    BY <1>6, <2>2 DEF TakeJob, HandleBlock, PutResult, DropResult, LeavePool, ActiveOK
<1>7. CASE \/ InputClosed \/ AcquirePermit \/ TradePermit \/ PassBarrier \/ HandlePart
           \/ PutPart \/ JoinWorkers
  <2>1. Busy' = Busy /\ active' = active /\ reader.at # "submit" /\ reader'.at # "submit"
    BY <1>7 DEF InputClosed, AcquirePermit, TradePermit, PassBarrier, HandlePart, PutPart,
                JoinWorkers, ReaderAt, NextPart, AfterBarrier, Busy, TypeOK
  <2> QED
    BY <2>1 DEF ActiveOK
<1>8. CASE EmitterStep \/ SendPart \/ Cancel \/ Finished \/ UNCHANGED vars
  <2>1. worker' = worker /\ active' = active /\ reader' = reader
    BY <1>8 DEF EmitterStep, Receive, SkipDropped, ReleasePermit, ResultsClosed, EmitterStops,
                CancelRest, Return, SendPart, Cancel, Finished, vars
  <2> QED
    BY <2>1 DEF ActiveOK, Busy
<1> QED
  BY <1>2, <1>3, <1>4, <1>5, <1>6, <1>7, <1>8 DEF Next, ReaderStep, WorkerStep

----------------------------------------------------------------------------
(* Types *)

\* A result has a type when its Part has been handled, or needs no handler.
LEMMA ResultType ==
    ASSUME TypeOK, NEW s \in 0 .. taken - 1,
           PartAt(s).type = "passed" \/ verdict[s] # "none"
    PROVE  Result(s) \in [seq : Nat, fate : {"keep", "drop", "error"}, block : BOOLEAN]
<1>1. s \in 0 .. Len(stream) - 1
  <2>1. stream \in Seq(Part)
    BY StreamsAssumption DEF TypeOK
  <2>2. Len(stream) \in Nat
    BY <2>1
  <2> QED
    BY <2>2 DEF TypeOK
<1>2. verdict[s] \in {"none", "keep", "drop", "error"}
  BY <1>1 DEF TypeOK
<1>3. s \in Nat
  BY <1>1
<1> QED
  BY <1>2, <1>3 DEF Result

LEMMA WorkerType ==
    ASSUME TypeOK, NEW w \in Worker, NEW at, WorkerAt(w, at),
           \/ worker[w].at \in AtWorker /\ at \in AtWorker
           \/ worker[w] = Idle /\ at = "gone"
    PROVE  worker' \in [Worker -> {Idle, [at |-> "gone", seq |-> -1]} \cup [at : AtWorker, seq : Nat]]
<1>1. worker' = [worker EXCEPT ![w] = [at |-> at, seq |-> worker[w].seq]]
  <2>1. worker[w] = [at |-> worker[w].at, seq |-> worker[w].seq]
    BY DEF TypeOK, Idle
  <2>2. [worker[w] EXCEPT !.at = at] = [at |-> at, seq |-> worker[w].seq]
    BY <2>1
  <2> QED
    BY <2>2 DEF WorkerAt
<1>2. [at |-> at, seq |-> worker[w].seq]
        \in {Idle, [at |-> "gone", seq |-> -1]} \cup [at : AtWorker, seq : Nat]
  BY DEF TypeOK, Idle, AtWorker
<1> QED
  BY <1>1, <1>2 DEF TypeOK

LEMMA HandleType ==
    ASSUME TypeOK, NEW s \in 0 .. taken - 1, Handle(s)
    PROVE  /\ verdict' \in [0 .. Len(stream) - 1 -> {"none", "keep", "drop", "error"}]
           /\ verdict'[s] # "none"
           /\ \A u \in 0 .. taken - 1 : u # s => verdict'[u] = verdict[u]
<1>1. stream \in Seq(Part) /\ Len(stream) \in Nat
  BY StreamsAssumption DEF TypeOK
<1>2. s \in 0 .. Len(stream) - 1 /\ s + 1 \in 1 .. Len(stream)
  BY <1>1 DEF TypeOK
<1>3. PartAt(s).fate \in {"keep", "drop", "error"}
  <2>1. stream[s + 1] \in Part
    BY <1>1, <1>2
  <2> QED
    BY <2>1 DEF PartAt, Part
<1>4. PICK fate \in {"keep", "drop", "error"} : verdict' = [verdict EXCEPT ![s] = fate]
  BY <1>3 DEF Handle
<1>5. \A u \in 0 .. taken - 1 : u \in 0 .. Len(stream) - 1
  BY <1>1 DEF TypeOK
<1> QED
  BY <1>2, <1>4, <1>5 DEF TypeOK

\* Permits are counted within their windows, and given back only when held.
LEMMA PermitsInHand ==
    ASSUME IInv
    PROVE  /\ reader.at \in {"read", "submit", "trade"} => blockWindow >= 1
           /\ reader.at \in {"barrier", "handle", "put"} => otherWindow >= 1
<1> DEFINE B == {s \in Held : IsBlock(s)}
<1>1. IsFiniteSet(Held) /\ B \subseteq Held
  <2>1. nextSeq \in Int /\ reader.seq - 1 \in Int
    BY DEF IInv, TypeOK
  <2> QED
    BY <2>1, FS_Interval DEF Held
<1>2. Cardinality(B) \in Nat /\ Cardinality(Held \ B) \in Nat
  BY <1>1, FS_Subset, FS_CardinalityType
<1> QED
  BY <1>2 DEF IInv, PermitsMatchParts, Held, IsBlock

LEMMA TypeStep == IInv /\ [Next]_vars => TypeOK'
<1> SUFFICES ASSUME IInv, [Next]_vars PROVE TypeOK'
  OBVIOUS
<1>1. active' \in 0 .. Cardinality(Worker) + 1
  <2>1. Busy' \subseteq Worker
    BY DEF Busy
  <2>2. Cardinality(Busy') \in Nat /\ Cardinality(Busy') <= Cardinality(Worker)
    BY <2>1, Sizes, FS_Subset, FS_CardinalityType
  <2> QED
    BY <2>2, ActiveStep, Sizes DEF ActiveOK
<1>2. TypeOK /\ ReaderOK /\ WorkersOK
  BY DEF IInv
<1>3. Len(stream) \in Nat /\ BlockCap \in Nat /\ OtherCap \in Nat
  BY <1>2, Sizes, StreamsAssumption DEF TypeOK
<1> USE DEF TypeOK
<1>4. CASE ReadPart
  BY <1>1, <1>2, <1>3, <1>4, SMTT(30) DEF ReadPart, ReaderAt
<1>5. CASE InputClosed
  BY <1>1, <1>2, <1>5 DEF InputClosed, ReaderAt
<1>6. CASE AcquirePermit
  <2>1. blockWindow' \in 0 .. BlockCap
    BY <1>2, <1>3, <1>6 DEF AcquirePermit, HasBlockPermit
  <2> QED
    BY <1>1, <1>2, <1>6, <2>1 DEF AcquirePermit, ReaderAt
<1>7. CASE TradePermit
  BY <1>1, <1>2, <1>3, <1>7, PermitsInHand, SMTT(30) DEF TradePermit, ReaderAt
<1>8. CASE PassBarrier
  BY <1>1, <1>2, <1>8 DEF PassBarrier, AfterBarrier, ReaderAt
<1>9. CASE HandlePart
  <2>1. reader.seq \in 0 .. taken - 1
    BY <1>2, <1>9 DEF HandlePart, ReaderOK, InHand
  <2> QED
    BY <1>1, <1>2, <1>9, <2>1, HandleType DEF HandlePart, ReaderAt
<1>10. CASE PutPart
  <2>1. reader.seq \in 0 .. taken - 1
    BY <1>2, <1>10 DEF PutPart, ReaderOK, InHand
  <2>2. Result(reader.seq) \in [seq : Nat, fate : {"keep", "drop", "error"}, block : BOOLEAN]
    BY <1>2, <1>10, <2>1, ResultType DEF PutPart, ReaderOK
  <2> QED
    BY <1>1, <1>2, <1>10, <2>2 DEF PutPart, NextPart
<1>11. CASE ReaderStops
  BY <1>1, <1>2, <1>11 DEF ReaderStops, ReaderAt
<1>12. CASE JoinWorkers
  BY <1>1, <1>2, <1>12 DEF JoinWorkers, ReaderAt
<1>13. ASSUME NEW w \in Worker, SubmitBlock(w) PROVE TypeOK'
  BY <1>1, <1>2, <1>13 DEF SubmitBlock, NextPart, AtWorker
<1>14. ASSUME NEW w \in Worker, TakeJob(w) PROVE TypeOK'
  <2>1. \E at \in AtWorker : WorkerAt(w, at) /\ worker[w].at \in AtWorker
    BY <1>14 DEF TakeJob, AtWorker
  <2> QED
    BY <1>1, <1>2, <1>14, <2>1, WorkerType DEF TakeJob
<1>15. ASSUME NEW w \in Worker, HandleBlock(w) PROVE TypeOK'
  <2>1. worker[w].seq \in 0 .. taken - 1
    BY <1>2, <1>15 DEF HandleBlock, WorkersOK, Underway, AtWorker, Held, ReaderOK
  <2>2. WorkerAt(w, "put") /\ worker[w].at \in AtWorker /\ "put" \in AtWorker
    BY <1>15 DEF HandleBlock, AtWorker
  <2> QED
    BY <1>1, <1>2, <1>15, <2>1, <2>2, WorkerType, HandleType, SMTT(30) DEF HandleBlock
<1>16. ASSUME NEW w \in Worker, PutResult(w) PROVE TypeOK'
  <2>1. worker[w].seq \in 0 .. taken - 1 /\ verdict[worker[w].seq] # "none"
    BY <1>2, <1>16 DEF PutResult, WorkersOK, Underway, AtWorker, Held, ReaderOK
  <2>2. WorkerAt(w, "counted") /\ worker[w].at \in AtWorker /\ "counted" \in AtWorker
    BY <1>16 DEF PutResult, AtWorker
  <2>3. Result(worker[w].seq) \in [seq : Nat, fate : {"keep", "drop", "error"}, block : BOOLEAN]
    BY <1>2, <2>1, ResultType
  <2> QED
    BY <1>1, <1>2, <1>16, <2>2, <2>3, WorkerType DEF PutResult
<1>17. ASSUME NEW w \in Worker, DropResult(w) PROVE TypeOK'
  <2>1. WorkerAt(w, "counted") /\ worker[w].at \in AtWorker /\ "counted" \in AtWorker
    BY <1>17 DEF DropResult, AtWorker
  <2> QED
    BY <1>1, <1>2, <1>17, <2>1, WorkerType DEF DropResult
<1>18. ASSUME NEW w \in Worker, CountDone(w) PROVE TypeOK'
  BY <1>1, <1>2, <1>18 DEF CountDone
<1>19. ASSUME NEW w \in Worker, LeavePool(w) PROVE TypeOK'
  BY <1>1, <1>2, <1>19, WorkerType DEF LeavePool
<1>20. CASE SendPart
  <2>1. NextSlot.seq \in Nat
    <3>1. NextSlot \in {Empty} \cup [seq : Nat, fate : {"keep", "drop"}, block : BOOLEAN]
      BY <1>2, SlotInRing DEF NextSlot
    <3> QED
      BY <1>20, <3>1 DEF SendPart, Empty
  <2> QED
    BY <1>1, <1>2, <1>20, <2>1 DEF SendPart
<1>21. CASE Receive
  <2>1. Head(results) \in [seq : Nat, fate : {"keep", "drop", "error"}, block : BOOLEAN]
    BY <1>2, <1>21, HeadTailProperties DEF Receive
  <2>2. Slot(Head(results).seq) \in 0 .. RingSize - 1
    BY <2>1, SlotInRing
  <2>3. results' \in Seq([seq : Nat, fate : {"keep", "drop", "error"}, block : BOOLEAN])
    BY <1>2, <1>21, HeadTailProperties DEF Receive
  <2>4. pending' \in [0 .. RingSize - 1 ->
                        {Empty} \cup [seq : Nat, fate : {"keep", "drop"}, block : BOOLEAN]]
    <3>1. CASE Head(results).fate = "error"
      BY <1>2, <1>21, <3>1 DEF Receive
    <3>2. CASE Head(results).fate # "error"
      <4>1. Head(results) \in [seq : Nat, fate : {"keep", "drop"}, block : BOOLEAN]
        BY <2>1, <3>2
      <4> QED
        BY <1>2, <1>21, <2>2, <3>2, <4>1 DEF Receive
    <3> QED
      BY <3>1, <3>2
  <2>5. emitter' \in {"loop", "leaving"} /\ outcome' \in {"running", "ok", "error", "cancelled"}
    BY <1>2, <1>21 DEF Receive, Leave, Waiting
  <2> QED
    BY <1>1, <1>2, <1>21, <2>3, <2>4, <2>5 DEF Receive
<1>22. CASE SkipDropped
  BY <1>1, <1>2, <1>22 DEF SkipDropped
<1>23. CASE ReleasePermit
  <2>1. blockWindow' \in 0 .. BlockCap /\ otherWindow' \in 0 .. OtherCap
    BY <1>2, <1>3, <1>23 DEF ReleasePermit
  <2>2. nextSeq' \in Nat /\ emitter' = "loop"
    BY <1>2, <1>23 DEF ReleasePermit
  <2>3. pending' \in [0 .. RingSize - 1 ->
                        {Empty} \cup [seq : Nat, fate : {"keep", "drop"}, block : BOOLEAN]]
    BY <1>2, <1>23 DEF ReleasePermit
  <2> QED
    BY <1>1, <1>2, <1>23, <2>1, <2>2, <2>3 DEF ReleasePermit
<1>24. CASE ResultsClosed \/ EmitterStops
  BY <1>1, <1>2, <1>24 DEF ResultsClosed, EmitterStops, Leave
<1>25. CASE CancelRest \/ Return \/ Cancel
  BY <1>1, <1>2, <1>25 DEF CancelRest, Return, Cancel
<1>26. CASE Finished \/ UNCHANGED vars
  BY <1>2, <1>26 DEF Finished, vars
<1> QED
  BY <1>4, <1>5, <1>6, <1>7, <1>8, <1>9, <1>10, <1>11, <1>12, <1>13, <1>14, <1>15, <1>16, <1>17,
     <1>18, <1>19, <1>20, <1>21, <1>22, <1>23, <1>24, <1>25, <1>26
     DEF Next, ReaderStep, WorkerStep, EmitterStep

----------------------------------------------------------------------------
(* The reader, and the permits *)

\* Whoever is no reader leaves it alone, and what it has read.
LEMMA OthersLeaveReader ==
    ASSUME \/ \E w \in Worker : TakeJob(w) \/ PutResult(w) \/ DropResult(w) \/ CountDone(w)
                                  \/ LeavePool(w)
           \/ SendPart \/ EmitterStep \/ Cancel \/ Finished \/ UNCHANGED vars
    PROVE  reader' = reader /\ taken' = taken /\ verdict' = verdict /\ stream' = stream
BY DEF TakeJob, PutResult, DropResult, CountDone, LeavePool, SendPart, EmitterStep, Receive,
       SkipDropped, ReleasePermit, ResultsClosed, EmitterStops, CancelRest, Return, Cancel,
       Finished, vars

LEMMA ReaderKept == IInv /\ [Next]_vars => ReaderOK'
<1> SUFFICES ASSUME IInv, [Next]_vars PROVE ReaderOK'
  OBVIOUS
<1>1. TypeOK /\ ReaderOK /\ reader.seq \in Nat /\ taken \in Nat
  <2>1. Len(stream) \in Nat
    BY StreamsAssumption DEF IInv, TypeOK
  <2> QED
    BY <2>1 DEF IInv, TypeOK
<1> USE DEF ReaderOK, InHand, IsBlock, PartAt
<1>2. CASE ReadPart
  BY <1>1, <1>2, ReaderGoesOn DEF ReadPart
<1>3. CASE InputClosed \/ AcquirePermit \/ JoinWorkers \/ ReaderStops
  BY <1>1, <1>3, ReaderGoesOn DEF InputClosed, AcquirePermit, JoinWorkers, ReaderStops
<1>4. CASE TradePermit
  <2>1. PartAt(reader.seq).type \in {"block", "handled", "passed"}
    <3>1. reader.seq + 1 \in 1 .. Len(stream) /\ stream \in Seq(Part)
      BY <1>1, <1>4, StreamsAssumption DEF TradePermit, TypeOK
    <3>2. stream[reader.seq + 1] \in Part
      BY <3>1
    <3> QED
      BY <3>2 DEF Part
  <2>2. reader'.at = IF PartAt(reader.seq).type = "handled" THEN "barrier" ELSE "put"
    BY <1>1, <1>4, ReaderGoesOn DEF TradePermit
  <2>3. reader'.seq = reader.seq
    BY <1>1, <1>4, ReaderGoesOn DEF TradePermit
  <2> QED
    BY <1>1, <1>4, <2>1, <2>2, <2>3 DEF TradePermit
<1>5. CASE PassBarrier
  <2>1. reader'.at \in {"closing", "handle"} /\ reader'.seq = reader.seq
    BY <1>1, <1>5, ReaderGoesOn DEF PassBarrier, AfterBarrier
  <2> QED
    BY <1>1, <1>5, <2>1 DEF PassBarrier
<1>6. CASE HandlePart
  <2>1. reader.seq \in 0 .. taken - 1
    BY <1>1, <1>6 DEF HandlePart
  <2> QED
    BY <1>1, <1>6, <2>1, ReaderGoesOn, HandleType DEF HandlePart
<1>7. CASE PutPart
  BY <1>1, <1>7 DEF PutPart, NextPart
<1>8. ASSUME NEW w \in Worker, SubmitBlock(w) PROVE ReaderOK'
  BY <1>1, <1>8 DEF SubmitBlock, NextPart
<1>9. ASSUME NEW w \in Worker, HandleBlock(w) PROVE ReaderOK'
  <2>1. worker[w].seq \in 0 .. taken - 1 /\ worker[w].seq < reader.seq
    BY <1>9, SMTT(30) DEF HandleBlock, IInv, WorkersOK, Underway, AtWorker, Held, TypeOK
  <2>2. reader.at = "put" => verdict'[reader.seq] = verdict[reader.seq]
    <3>1. reader.at = "put" => reader.seq \in 0 .. taken - 1 /\ reader.seq # worker[w].seq
      BY <1>1, <2>1
    <3> QED
      BY <1>1, <1>9, <2>1, <3>1, HandleType DEF HandleBlock
  <2> QED
    BY <1>1, <1>9, <2>2 DEF HandleBlock
<1>10. CASE \/ \E w \in Worker : TakeJob(w) \/ PutResult(w) \/ DropResult(w) \/ CountDone(w)
                                  \/ LeavePool(w)
            \/ SendPart \/ EmitterStep \/ Cancel \/ Finished \/ UNCHANGED vars
  BY <1>1, <1>10, OthersLeaveReader
<1> QED
  BY <1>2, <1>3, <1>4, <1>5, <1>6, <1>7, <1>8, <1>9, <1>10 DEF Next, ReaderStep, WorkerStep

HeldBlocks == {s \in Held : IsBlock(s)}

HeldOthers == Held \ HeldBlocks

LEMMA HeldSizes ==
    ASSUME IInv
    PROVE  /\ IsFiniteSet(Held) /\ Cardinality(Held) = reader.seq - nextSeq
           /\ IsFiniteSet(HeldBlocks) /\ Cardinality(HeldBlocks) \in Nat
           /\ IsFiniteSet(HeldOthers) /\ Cardinality(HeldOthers) \in Nat
           /\ Cardinality(Held) = Cardinality(HeldBlocks) + Cardinality(HeldOthers)
<1>1. nextSeq \in Nat /\ reader.seq \in Nat /\ nextSeq <= reader.seq
  BY DEF IInv, TypeOK, HeldFits
<1>2. nextSeq \in Int /\ reader.seq - 1 \in Int
  BY <1>1
<1>3. IsFiniteSet(Held) /\ Cardinality(Held) = reader.seq - nextSeq
  <2>1. /\ IsFiniteSet(Held)
        /\ Cardinality(Held) = IF nextSeq > reader.seq - 1 THEN 0
                               ELSE (reader.seq - 1) - nextSeq + 1
    BY <1>2, FS_Interval DEF Held
  <2> QED
    BY <1>1, <2>1
<1>4. HeldBlocks \subseteq Held /\ HeldOthers \subseteq Held
  BY DEF HeldBlocks, HeldOthers
<1>5. /\ IsFiniteSet(HeldBlocks) /\ Cardinality(HeldBlocks) \in Nat
      /\ IsFiniteSet(HeldOthers) /\ Cardinality(HeldOthers) \in Nat
  BY <1>3, <1>4, FS_Subset, FS_CardinalityType
<1>6. Held \cap HeldBlocks = HeldBlocks
  BY <1>4
<1>7. Cardinality(HeldOthers) = Cardinality(Held) - Cardinality(HeldBlocks)
  BY <1>3, <1>6, FS_Difference DEF HeldOthers
<1> QED
  BY <1>1, <1>3, <1>5, <1>7

\* What stands in the slot that is next is the position that is next.
LEMMA NextSlotIsNext ==
    ASSUME IInv, NextSlot # Empty
    PROVE  /\ Slot(nextSeq) \in DOMAIN pending
           /\ NextSlot.seq = nextSeq /\ nextSeq \in Held /\ (NextSlot.block <=> IsBlock(nextSeq))
<1>1. nextSeq \in Nat /\ reader.seq \in Nat
  BY DEF IInv, TypeOK
<1>2. Slot(nextSeq) \in DOMAIN pending
  BY <1>1, SlotInRing DEF IInv, TypeOK
<1>3. /\ NextSlot.seq \in Held /\ Slot(NextSlot.seq) = Slot(nextSeq)
      /\ NextSlot.block <=> IsBlock(NextSlot.seq)
  BY <1>2 DEF NextSlot, IInv, RingOK
<1>4. /\ NextSlot.seq \in nextSeq .. reader.seq /\ NextSlot.seq # reader.seq
      /\ nextSeq \in nextSeq .. reader.seq /\ nextSeq # reader.seq
  BY <1>1, <1>3 DEF Held
<1>5. NextSlot.seq = nextSeq
  BY <1>3, <1>4, OwnSlot DEF IInv
<1> QED
  BY <1>2, <1>3, <1>5

\* Admitting a Part lengthens what is held by it, emitting one shortens it.
LEMMA HeldGrows ==
    ASSUME IInv, NextPart, nextSeq' = nextSeq, stream' = stream
    PROVE  /\ reader.seq \notin Held
           /\ Held' = Held \cup {reader.seq}
           /\ HeldBlocks' = HeldBlocks \cup {s \in {reader.seq} : IsBlock(s)}
           /\ HeldOthers' = HeldOthers \cup {s \in {reader.seq} : ~IsBlock(s)}
<1>1. nextSeq \in Nat /\ reader.seq \in Nat /\ nextSeq <= reader.seq
  BY DEF IInv, TypeOK, HeldFits
<1>2. reader.seq \notin Held /\ Held' = Held \cup {reader.seq}
  BY <1>1 DEF Held, NextPart
<1>3. \A s : IsBlock(s)' <=> IsBlock(s)
  BY DEF IsBlock, PartAt
<1> QED
  BY <1>2, <1>3 DEF HeldBlocks, HeldOthers

LEMMA HeldShrinks ==
    ASSUME IInv, nextSeq' = nextSeq + 1, reader' = reader, stream' = stream
    PROVE  /\ Held' = Held \ {nextSeq}
           /\ HeldBlocks' = HeldBlocks \ {nextSeq}
           /\ HeldOthers' = HeldOthers \ {nextSeq}
<1>1. nextSeq \in Nat /\ reader.seq \in Nat
  BY DEF IInv, TypeOK
<1>2. Held' = Held \ {nextSeq}
  BY <1>1 DEF Held
<1>3. \A s : IsBlock(s)' <=> IsBlock(s)
  BY DEF IsBlock, PartAt
<1> QED
  BY <1>2, <1>3 DEF HeldBlocks, HeldOthers

\* The windows, in terms of what is held.
WindowsMatch ==
    reader.at \notin {"closing", "done"} =>
        /\ blockWindow = Cardinality(HeldBlocks)
              + (IF reader.at \in {"read", "submit", "trade"} THEN 1 ELSE 0)
        /\ otherWindow = Cardinality(HeldOthers)
              + (IF reader.at \in {"barrier", "handle", "put"} THEN 1 ELSE 0)

LEMMA PermitsAreWindows == PermitsMatchParts <=> WindowsMatch
BY DEF PermitsMatchParts, WindowsMatch, HeldBlocks, HeldOthers, Held, IsBlock

LEMMA PermitsKept == IInv /\ [Next]_vars => PermitsMatchParts'
<1> SUFFICES ASSUME IInv, [Next]_vars PROVE WindowsMatch'
  BY PermitsAreWindows, PTL
<1>1. /\ TypeOK /\ ReaderOK /\ WindowsMatch
      /\ IsFiniteSet(HeldBlocks) /\ Cardinality(HeldBlocks) \in Nat
      /\ IsFiniteSet(HeldOthers) /\ Cardinality(HeldOthers) \in Nat
      /\ blockWindow \in Nat /\ otherWindow \in Nat
  BY HeldSizes, PermitsAreWindows, Sizes, SMTT(30) DEF IInv, TypeOK
<1>2. /\ nextSeq' = nextSeq /\ stream' = stream /\ reader'.seq = reader.seq
      => HeldBlocks' = HeldBlocks /\ HeldOthers' = HeldOthers
  BY DEF HeldBlocks, HeldOthers, Held, IsBlock, PartAt
<1>3. CASE InputClosed \/ ReaderStops \/ JoinWorkers
  <2>1. reader'.at \in {"closing", "done"}
    BY <1>1, <1>3, ReaderGoesOn DEF InputClosed, ReaderStops, JoinWorkers
  <2> QED
    BY <2>1 DEF WindowsMatch
<1>4. CASE AcquirePermit
  BY <1>1, <1>2, <1>4, ReaderGoesOn DEF AcquirePermit, WindowsMatch
<1>5. CASE ReadPart
  BY <1>1, <1>2, <1>5, ReaderGoesOn DEF ReadPart, WindowsMatch
<1>6. CASE TradePermit
  <2>1. reader'.at \in {"barrier", "put"} /\ reader'.seq = reader.seq
    BY <1>1, <1>6, ReaderGoesOn DEF TradePermit
  <2> QED
    BY <1>1, <1>2, <1>6, <2>1 DEF TradePermit, WindowsMatch
<1>7. CASE PassBarrier
  <2>1. reader'.at \in {"closing", "handle"} /\ reader'.seq = reader.seq
    BY <1>1, <1>7, ReaderGoesOn DEF PassBarrier, AfterBarrier
  <2> QED
    BY <1>1, <1>2, <1>7, <2>1 DEF PassBarrier, WindowsMatch
<1>8. CASE HandlePart
  BY <1>1, <1>2, <1>8, ReaderGoesOn DEF HandlePart, WindowsMatch
<1>9. ASSUME NEW w \in Worker, SubmitBlock(w) PROVE WindowsMatch'
  <2>1. NextPart /\ nextSeq' = nextSeq /\ stream' = stream /\ IsBlock(reader.seq)
    BY <1>1, <1>9 DEF SubmitBlock, ReaderOK
  <2>2. reader.seq \notin HeldBlocks
    BY <2>1, HeldGrows DEF HeldBlocks
  <2>3. HeldBlocks' = HeldBlocks \cup {reader.seq} /\ HeldOthers' = HeldOthers
    BY <2>1, HeldGrows
  <2>4. Cardinality(HeldBlocks') = Cardinality(HeldBlocks) + 1
    BY <1>1, <2>2, <2>3, FS_AddElement
  <2> QED
    BY <1>1, <1>9, <2>3, <2>4 DEF SubmitBlock, NextPart, WindowsMatch
<1>10. CASE PutPart
  <2>1. NextPart /\ nextSeq' = nextSeq /\ stream' = stream /\ ~IsBlock(reader.seq)
    BY <1>1, <1>10 DEF PutPart, ReaderOK, InHand
  <2>2. reader.seq \notin HeldOthers
    BY <2>1, HeldGrows DEF HeldOthers
  <2>3. HeldOthers' = HeldOthers \cup {reader.seq} /\ HeldBlocks' = HeldBlocks
    BY <2>1, HeldGrows
  <2>4. Cardinality(HeldOthers') = Cardinality(HeldOthers) + 1
    BY <1>1, <2>2, <2>3, FS_AddElement
  <2> QED
    BY <1>1, <1>10, <2>3, <2>4 DEF PutPart, NextPart, WindowsMatch
<1>11. CASE ReleasePermit
  <2>1. NextSlot # Empty
    BY <1>11 DEF ReleasePermit, IInv, EmitterOK
  <2>2. nextSeq \in Held /\ (NextSlot.block <=> IsBlock(nextSeq))
    BY <2>1, NextSlotIsNext
  <2>3. nextSeq' = nextSeq + 1 /\ reader' = reader /\ stream' = stream
    BY <1>11 DEF ReleasePermit
  <2>4. HeldBlocks' = HeldBlocks \ {nextSeq} /\ HeldOthers' = HeldOthers \ {nextSeq}
    BY <2>3, HeldShrinks
  <2>5. CASE NextSlot.block
    <3>1. nextSeq \in HeldBlocks /\ nextSeq \notin HeldOthers
      BY <2>2, <2>5 DEF HeldBlocks, HeldOthers
    <3>2. Cardinality(HeldBlocks') = Cardinality(HeldBlocks) - 1 /\ HeldOthers' = HeldOthers
      <4>1. HeldOthers \ {nextSeq} = HeldOthers
        BY <3>1
      <4>2. Cardinality(HeldBlocks \ {nextSeq}) = Cardinality(HeldBlocks) - 1
        BY <1>1, <3>1, FS_RemoveElement
      <4> QED
        BY <2>4, <4>1, <4>2
    <3>3. blockWindow' = blockWindow - 1 /\ otherWindow' = otherWindow
      BY <1>11, <2>5 DEF ReleasePermit, OnBlockWindow
    <3> QED
      BY <1>1, <2>3, <3>2, <3>3 DEF WindowsMatch
  <2>6. CASE ~NextSlot.block
    <3>1. nextSeq \in HeldOthers /\ nextSeq \notin HeldBlocks
      BY <2>2, <2>6 DEF HeldBlocks, HeldOthers
    <3>2. Cardinality(HeldOthers') = Cardinality(HeldOthers) - 1 /\ HeldBlocks' = HeldBlocks
      <4>1. HeldBlocks \ {nextSeq} = HeldBlocks
        BY <3>1
      <4>2. Cardinality(HeldOthers \ {nextSeq}) = Cardinality(HeldOthers) - 1
        BY <1>1, <3>1, FS_RemoveElement
      <4> QED
        BY <2>4, <4>1, <4>2
    <3>3. otherWindow' = otherWindow - 1 /\ blockWindow' = blockWindow
      BY <1>11, <2>6 DEF ReleasePermit, OnBlockWindow
    <3> QED
      BY <1>1, <2>3, <3>2, <3>3 DEF WindowsMatch
  <2> QED
    BY <2>5, <2>6
<1>12. CASE \/ \E w \in Worker : WorkerStep(w)
            \/ SendPart \/ (EmitterStep /\ ~ReleasePermit) \/ Cancel \/ Finished \/ UNCHANGED vars
  <2>1. /\ nextSeq' = nextSeq /\ stream' = stream /\ reader' = reader
        /\ blockWindow' = blockWindow /\ otherWindow' = otherWindow
    BY <1>12 DEF WorkerStep, TakeJob, HandleBlock, PutResult, DropResult, CountDone, LeavePool,
                 SendPart, EmitterStep, Receive, SkipDropped, ResultsClosed, EmitterStops,
                 CancelRest, Return, Cancel, Finished, vars
  <2> QED
    BY <1>1, <1>2, <2>1 DEF WindowsMatch
<1> QED
  BY <1>3, <1>4, <1>5, <1>6, <1>7, <1>8, <1>9, <1>10, <1>11, <1>12
     DEF Next, ReaderStep, EmitterStep

----------------------------------------------------------------------------
(* The ring *)

\* A block permit that is free leaves room for one more Part.
LEMMA HeldFitsKept == IInv /\ [Next]_vars => HeldFits'
<1> SUFFICES ASSUME IInv, [Next]_vars PROVE HeldFits'
  OBVIOUS
<1>1. /\ TypeOK /\ HeldFits /\ nextSeq \in Nat /\ reader.seq \in Nat /\ RingSize \in Nat
  BY Sizes DEF IInv, TypeOK
<1> USE DEF HeldFits, InHand
<1>2. CASE AcquirePermit
  <2>1. reader.seq - nextSeq = Cardinality(HeldBlocks) + Cardinality(HeldOthers)
    BY HeldSizes
  <2>2. Cardinality(HeldBlocks) = blockWindow /\ Cardinality(HeldOthers) = otherWindow
    BY <1>2, HeldSizes, PermitsAreWindows DEF AcquirePermit, IInv, WindowsMatch
  <2>3. blockWindow < BlockCap /\ otherWindow <= OtherCap
    BY <1>1, <1>2 DEF AcquirePermit, HasBlockPermit, TypeOK
  <2>4. reader.seq + 1 <= nextSeq + RingSize
    BY <1>1, <2>1, <2>2, <2>3, Sizes DEF TypeOK
  <2> QED
    BY <1>1, <1>2, <2>4, ReaderGoesOn DEF AcquirePermit
<1>3. CASE ReadPart
  BY <1>1, <1>3, ReaderGoesOn DEF ReadPart
<1>4. CASE TradePermit
  BY <1>1, <1>4, ReaderGoesOn DEF TradePermit
<1>5. CASE InputClosed \/ ReaderStops \/ JoinWorkers
  BY <1>1, <1>5, ReaderGoesOn DEF InputClosed, ReaderStops, JoinWorkers
<1>6. CASE PassBarrier \/ HandlePart
  BY <1>1, <1>6, ReaderGoesOn DEF PassBarrier, AfterBarrier, HandlePart
<1>7. CASE PutPart \/ \E w \in Worker : SubmitBlock(w)
  BY <1>1, <1>7 DEF PutPart, SubmitBlock, NextPart
<1>8. CASE ReleasePermit
  <2>1. nextSeq \in Held
    BY <1>8, NextSlotIsNext DEF ReleasePermit, IInv, EmitterOK
  <2> QED
    BY <1>1, <1>8, <2>1 DEF ReleasePermit, Held
<1>9. CASE \/ \E w \in Worker : WorkerStep(w)
           \/ SendPart \/ (EmitterStep /\ ~ReleasePermit) \/ Cancel \/ Finished \/ UNCHANGED vars
  <2>1. nextSeq' = nextSeq /\ reader' = reader
    BY <1>9 DEF WorkerStep, TakeJob, HandleBlock, PutResult, DropResult, CountDone, LeavePool,
                SendPart, EmitterStep, Receive, SkipDropped, ResultsClosed, EmitterStops,
                CancelRest, Return, Cancel, Finished, vars
  <2> QED
    BY <1>1, <2>1
<1> QED
  BY <1>2, <1>3, <1>4, <1>5, <1>6, <1>7, <1>8, <1>9 DEF Next, ReaderStep, EmitterStep

\* The reader's own position and those before it stay what they are.
LEMMA StreamStays ==
    ASSUME IInv, [Next]_vars
    PROVE  stream' = stream /\ \A s : IsBlock(s)' <=> IsBlock(s)
<1>1. stream' = stream
  BY DEF Next, ReaderStep, WorkerStep, EmitterStep, ReadPart, InputClosed, AcquirePermit,
         TradePermit, PassBarrier, HandlePart, PutPart, ReaderStops, JoinWorkers, SubmitBlock,
         TakeJob, HandleBlock, PutResult, DropResult, CountDone, LeavePool, SendPart, Receive,
         SkipDropped, ReleasePermit, ResultsClosed, EmitterStops, CancelRest, Return, Cancel,
         Finished, vars
<1> QED
  BY <1>1 DEF IsBlock, PartAt

\* Nothing held is let go of but by the emitter, and that is what it has in the ring.
LEMMA HeldStays ==
    ASSUME IInv, [Next]_vars
    PROVE  \/ Held \subseteq Held' /\ nextSeq' = nextSeq
           \/ ReleasePermit /\ NextSlot # Empty /\ Held' = Held \ {nextSeq}
<1>1. nextSeq \in Nat /\ reader.seq \in Nat
  BY DEF IInv, TypeOK
<1>2. CASE ReleasePermit
  BY <1>2, HeldShrinks DEF ReleasePermit, IInv, EmitterOK
<1>3. CASE PutPart \/ \E w \in Worker : SubmitBlock(w)
  BY <1>3, HeldGrows DEF PutPart, SubmitBlock
<1>4. CASE \/ ReadPart \/ InputClosed \/ AcquirePermit \/ TradePermit \/ PassBarrier
           \/ HandlePart \/ ReaderStops \/ JoinWorkers
  <2>1. nextSeq' = nextSeq /\ \E at : ReaderAt(at)
    BY <1>4 DEF ReadPart, InputClosed, AcquirePermit, TradePermit, PassBarrier, HandlePart,
                ReaderStops, JoinWorkers
  <2>2. reader'.seq = reader.seq
    BY <2>1, ReaderGoesOn DEF IInv
  <2> QED
    BY <2>1, <2>2 DEF Held
<1>5. CASE \/ \E w \in Worker : WorkerStep(w)
           \/ SendPart \/ (EmitterStep /\ ~ReleasePermit) \/ Cancel \/ Finished \/ UNCHANGED vars
  <2>1. nextSeq' = nextSeq /\ reader' = reader
    BY <1>5 DEF WorkerStep, TakeJob, HandleBlock, PutResult, DropResult, CountDone, LeavePool,
                SendPart, EmitterStep, Receive, SkipDropped, ResultsClosed, EmitterStops,
                CancelRest, Return, Cancel, Finished, vars
  <2> QED
    BY <2>1 DEF Held
<1> QED
  BY <1>2, <1>3, <1>4, <1>5 DEF Next, ReaderStep, EmitterStep

----------------------------------------------------------------------------
(* Where a position is: with a worker, in results, or in the ring *)

\* A worker has what it had, or has just taken what the reader had in hand.
LEMMA UnderwayFrom ==
    ASSUME IInv, [Next]_vars, NEW w \in Underway'
    PROVE  \/ /\ w \in Underway /\ worker'[w].seq = worker[w].seq
              /\ worker'[w].at = "put" => worker[w].at = "put" \/ HandleBlock(w)
           \/ /\ w \notin Underway /\ SubmitBlock(w)
              /\ worker'[w].seq = reader.seq /\ worker'[w].at = "took"
<1>1. TypeOK /\ w \in Worker
  BY DEF IInv, Underway
<1>2. CASE worker'[w] = worker[w]
  BY <1>1, <1>2 DEF Underway
<1>3. ASSUME NEW v \in Worker, SubmitBlock(v), worker'[w] # worker[w]
      PROVE  /\ w \notin Underway /\ SubmitBlock(w)
             /\ worker'[w].seq = reader.seq /\ worker'[w].at = "took"
  <2>1. v = w
    BY <1>1, <1>3 DEF SubmitBlock, TypeOK
  <2> QED
    BY <1>1, <1>3, <2>1 DEF SubmitBlock, TypeOK, Underway, AtWorker, Idle
<1>4. ASSUME NEW v \in Worker, TakeJob(v) \/ HandleBlock(v), worker'[w] # worker[w]
      PROVE  /\ w \in Underway /\ worker'[w].seq = worker[w].seq
             /\ worker'[w].at = "put" => HandleBlock(w)
  <2>1. v = w
    BY <1>1, <1>4, WorkerGoesOn DEF TakeJob, HandleBlock
  <2>2. worker'[w].seq = worker[w].seq
    BY <1>1, <1>4, <2>1, WorkerGoesOn DEF TakeJob, HandleBlock
  <2>3. TakeJob(w) => worker'[w].at # "put"
    BY <1>1, WorkerGoesOn DEF TakeJob
  <2>4. w \in Underway
    BY <1>1, <1>4, <2>1 DEF TakeJob, HandleBlock, Underway, AtWorker
  <2> QED
    BY <1>4, <2>1, <2>2, <2>3, <2>4
<1>5. ASSUME NEW v \in Worker, PutResult(v) \/ DropResult(v) \/ LeavePool(v)
      PROVE  worker'[w] = worker[w]
  <2>1. worker'[v].at \notin AtWorker \ {"counted"}
    BY <1>1, <1>5, WorkerGoesOn DEF PutResult, DropResult, LeavePool, AtWorker
  <2> QED
    BY <1>1, <1>5, <2>1, WorkerGoesOn DEF PutResult, DropResult, LeavePool, Underway
<1>6. ASSUME NEW v \in Worker, CountDone(v)
      PROVE  worker'[w] = worker[w]
  BY <1>1, <1>6 DEF CountDone, TypeOK, Underway, AtWorker, Idle
<1>7. CASE \/ ReadPart \/ InputClosed \/ AcquirePermit \/ TradePermit \/ PassBarrier \/ HandlePart
           \/ PutPart \/ ReaderStops \/ JoinWorkers
           \/ SendPart \/ EmitterStep \/ Cancel \/ Finished \/ UNCHANGED vars
  <2>1. worker' = worker
    BY <1>7 DEF ReadPart, InputClosed, AcquirePermit, TradePermit, PassBarrier, HandlePart, PutPart,
                ReaderStops, JoinWorkers, SendPart, EmitterStep, Receive, SkipDropped,
                ReleasePermit, ResultsClosed, EmitterStops, CancelRest, Return, Cancel, Finished, vars
  <2> QED
    BY <1>2, <2>1
<1> QED
  BY <1>2, <1>3, <1>4, <1>5, <1>6, <1>7 DEF Next, ReaderStep, WorkerStep

\* What is new in results comes from the reader or from a worker.
LEMMA ResultsFrom ==
    ASSUME IInv, [Next]_vars
    PROVE  \/ results' = results
           \/ Receive /\ results # <<>> /\ results' = Tail(results)
           \/ PutPart /\ results' = Append(results, Result(reader.seq))
           \/ \E w \in Underway : /\ PutResult(w) /\ w \notin Underway'
                                  /\ results' = Append(results, Result(worker[w].seq))
<1>1. ASSUME NEW w \in Worker, PutResult(w)
      PROVE  w \in Underway /\ w \notin Underway'
  BY <1>1, WorkerGoesOn DEF PutResult, Underway, AtWorker, IInv
<1>2. CASE Receive
  BY <1>2 DEF Receive
<1>3. CASE PutPart
  BY <1>3 DEF PutPart
<1>4. CASE \E w \in Worker : PutResult(w)
  BY <1>1, <1>4 DEF PutResult
<1>5. CASE /\ [Next]_vars
           /\ ~Receive /\ ~PutPart /\ ~\E w \in Worker : PutResult(w)
  BY <1>5 DEF Next, ReaderStep, WorkerStep, EmitterStep, ReadPart, InputClosed, AcquirePermit,
              TradePermit, PassBarrier, HandlePart, ReaderStops, JoinWorkers, SubmitBlock,
              TakeJob, HandleBlock, DropResult, CountDone, LeavePool, SendPart, SkipDropped,
              ReleasePermit, ResultsClosed, EmitterStops, CancelRest, Return, Cancel, Finished, vars
<1> QED
  BY <1>2, <1>3, <1>4, <1>5

\* What is new in the ring comes from results.
LEMMA RingFrom ==
    ASSUME IInv, [Next]_vars
    PROVE  /\ DOMAIN pending' = DOMAIN pending
           /\ \/ pending' = pending
              \/ /\ Receive /\ results # <<>> /\ Head(results).fate # "error"
                 /\ pending' = [pending EXCEPT ![Slot(Head(results).seq)] = Head(results)]
              \/ ReleasePermit /\ pending' = [pending EXCEPT ![Slot(nextSeq)] = Empty]
<1>1. CASE Receive
  BY <1>1 DEF Receive, IInv, TypeOK
<1>2. CASE ReleasePermit
  BY <1>2 DEF ReleasePermit, IInv, TypeOK
<1>3. CASE [Next]_vars /\ ~Receive /\ ~ReleasePermit
  <2>1. pending' = pending
    BY <1>3 DEF Next, ReaderStep, WorkerStep, EmitterStep, ReadPart, InputClosed, AcquirePermit,
                TradePermit, PassBarrier, HandlePart, PutPart, ReaderStops, JoinWorkers, SubmitBlock,
                TakeJob, HandleBlock, PutResult, DropResult, CountDone, LeavePool, SendPart,
                SkipDropped, ResultsClosed, EmitterStops, CancelRest, Return, Cancel, Finished, vars
  <2> QED
    BY <2>1
<1> QED
  BY <1>1, <1>2, <1>3

LEMMA VerdictsStay ==
    ASSUME IInv, [Next]_vars, NEW s \in Held
    PROVE  verdict[s] # "none" => verdict'[s] # "none"
<1>1. TypeOK /\ s \in 0 .. taken - 1 /\ s < reader.seq
  BY DEF IInv, Held, TypeOK, ReaderOK
<1>2. CASE HandlePart
  <2>1. reader.seq \in 0 .. taken - 1
    BY <1>2 DEF HandlePart, IInv, ReaderOK, InHand, TypeOK
  <2> QED
    BY <1>1, <1>2, <2>1, HandleType DEF HandlePart
<1>3. ASSUME NEW w \in Worker, HandleBlock(w)
      PROVE  verdict[s] # "none" => verdict'[s] # "none"
  <2>1. worker[w].seq \in 0 .. taken - 1
    BY <1>3 DEF HandleBlock, IInv, WorkersOK, Underway, AtWorker, Held, ReaderOK, TypeOK
  <2> QED
    BY <1>1, <1>3, <2>1, HandleType DEF HandleBlock
<1>4. CASE [Next]_vars /\ ~HandlePart /\ ~\E w \in Worker : HandleBlock(w)
  BY <1>4 DEF Next, ReaderStep, WorkerStep, EmitterStep, ReadPart, InputClosed, AcquirePermit,
              TradePermit, PassBarrier, PutPart, ReaderStops, JoinWorkers, SubmitBlock,
              TakeJob, PutResult, DropResult, CountDone, LeavePool, SendPart, Receive,
              SkipDropped, ReleasePermit, ResultsClosed, EmitterStops, CancelRest, Return, Cancel,
              Finished, vars
<1> QED
  BY <1>2, <1>3, <1>4

LEMMA LongerAlphabet ==
    ASSUME NEW S, NEW seq \in Seq(S), NEW elt
    PROVE  seq \in Seq(S \cup {elt})
<1>1. Len(seq) \in Nat /\ seq \in [1 .. Len(seq) -> S]
  BY LenProperties
<1>2. seq \in [1 .. Len(seq) -> S \cup {elt}]
  BY <1>1
<1> QED
  BY <1>1, <1>2, SeqDef

\* What has a position that is not in the ring still holds it after a step.
LEMMA StillHeld ==
    ASSUME IInv, [Next]_vars, NEW s \in Held,
           \A k \in DOMAIN pending : pending[k].seq # s
    PROVE  s \in Held'
<1>1. CASE Held \subseteq Held'
  BY <1>1
<1>2. CASE ReleasePermit /\ NextSlot # Empty /\ Held' = Held \ {nextSeq}
  <2>1. NextSlot.seq = nextSeq /\ Slot(nextSeq) \in DOMAIN pending
    BY <1>2, NextSlotIsNext
  <2> QED
    BY <1>2, <2>1 DEF NextSlot
<1> QED
  BY <1>1, <1>2, HeldStays

LEMMA WorkersKept == IInv /\ [Next]_vars => WorkersOK'
<1> SUFFICES ASSUME IInv, [Next]_vars, NEW w \in Underway'
             PROVE  /\ worker'[w].seq \in Held'
                    /\ IsBlock(worker[w].seq)'
                    /\ worker'[w].at = "put" => verdict'[worker'[w].seq] # "none"
  BY DEF WorkersOK
<1>1. CASE /\ w \in Underway /\ worker'[w].seq = worker[w].seq
           /\ worker'[w].at = "put" => worker[w].at = "put" \/ HandleBlock(w)
  <2> DEFINE s == worker[w].seq
  <2>1. s \in Held /\ IsBlock(s) /\ (worker[w].at = "put" => verdict[s] # "none")
    BY <1>1 DEF IInv, WorkersOK
  <2>2. s \in Held'
    BY <1>1, <2>1, StillHeld DEF IInv, OnePlace
  <2>3. IsBlock(s)'
    <3>1. s' = s
      BY <1>1
    <3> QED
      BY <2>1, <3>1, StreamStays DEF IsBlock, PartAt
  <2>4. ASSUME HandleBlock(w) PROVE verdict'[s] # "none"
    <3>1. s \in 0 .. taken - 1
      BY <2>1 DEF IInv, Held, TypeOK, ReaderOK
    <3> QED
      BY <2>4, <3>1, HandleType DEF HandleBlock, IInv
  <2> QED
    BY <1>1, <2>1, <2>2, <2>3, <2>4, VerdictsStay
<1>2. CASE /\ w \notin Underway /\ SubmitBlock(w)
           /\ worker'[w].seq = reader.seq /\ worker'[w].at = "took"
  <2>1. Held' = Held \cup {reader.seq}
    BY <1>2, HeldGrows, StreamStays DEF SubmitBlock
  <2>2. IsBlock(reader.seq)
    BY <1>2 DEF SubmitBlock, IInv, ReaderOK
  <2> QED
    BY <1>2, <2>1, <2>2, StreamStays DEF IsBlock, PartAt
<1> QED
  BY <1>1, <1>2, UnderwayFrom

\* A result names the Part it is of, and the window the Part was admitted on.
LEMMA ResultIs ==
    ASSUME NEW s
    PROVE  Result(s).seq = s /\ (Result(s).block <=> IsBlock(s))
BY DEF Result, IsBlock

LEMMA ResultsKept == IInv /\ [Next]_vars => ResultsOK'
<1> SUFFICES ASSUME IInv, [Next]_vars, NEW i \in DOMAIN results'
             PROVE  /\ results'[i].seq \in Held'
                    /\ results'[i].block <=> IsBlock(results[i].seq)'
  BY DEF ResultsOK
<1> DEFINE Res == [seq : Nat, fate : {"keep", "drop", "error"}, block : BOOLEAN]
<1>1. results \in Seq(Res) /\ results' \in Seq(Res)
  BY TypeStep DEF IInv, TypeOK
<1>2. ASSUME NEW j \in DOMAIN results, results'[i] = results[j]
      PROVE  /\ results'[i].seq \in Held'
             /\ results'[i].block <=> IsBlock(results[i].seq)'
  <2>1. results[j].seq \in Held /\ (results[j].block <=> IsBlock(results[j].seq))
    BY DEF IInv, ResultsOK
  <2>2. results[j].seq \in Held'
    BY <2>1, StillHeld DEF IInv, OnePlace
  <2> QED
    BY <1>2, <2>1, <2>2, StreamStays DEF IsBlock, PartAt
<1>3. ASSUME NEW s \in Held \cup {reader.seq}, results'[i] = Result(s), s \in Held'
      PROVE  /\ results'[i].seq \in Held'
             /\ results'[i].block <=> IsBlock(results[i].seq)'
  BY <1>3, ResultIs, StreamStays DEF IsBlock, PartAt
<1>4. ASSUME NEW s, results' = Append(results, Result(s)), i \notin DOMAIN results
      PROVE  results'[i] = Result(s)
  <2>1. results \in Seq(Res \cup {Result(s)})
    BY <1>1, LongerAlphabet
  <2> QED
    BY <1>4, <2>1, AppendProperties
<1>5. ASSUME NEW s, results' = Append(results, Result(s)), i \in DOMAIN results
      PROVE  results'[i] = results[i]
  <2>1. results \in Seq(Res \cup {Result(s)})
    BY <1>1, LongerAlphabet
  <2> QED
    BY <1>5, <2>1, AppendProperties
<1>6. CASE results' = results
  BY <1>2, <1>6
<1>7. CASE results # <<>> /\ results' = Tail(results)
  <2>1. i + 1 \in DOMAIN results /\ results'[i] = results[i + 1]
    BY <1>1, <1>7, HeadTailProperties
  <2> QED
    BY <1>2, <2>1
<1>8. CASE PutPart /\ results' = Append(results, Result(reader.seq))
  <2>1. reader.seq \in Held'
    BY <1>8, HeldGrows, StreamStays DEF PutPart
  <2> QED
    BY <1>2, <1>3, <1>4, <1>5, <1>8, <2>1
<1>9. ASSUME NEW w \in Underway, results' = Append(results, Result(worker[w].seq))
      PROVE  /\ results'[i].seq \in Held'
             /\ results'[i].block <=> IsBlock(results[i].seq)'
  <2>1. worker[w].seq \in Held
    BY DEF IInv, WorkersOK
  <2>2. worker[w].seq \in Held'
    BY <2>1, StillHeld DEF IInv, OnePlace
  <2> QED
    BY <1>2, <1>3, <1>4, <1>5, <1>9, <2>1, <2>2
<1> QED
  BY <1>6, <1>7, <1>8, <1>9, ResultsFrom

LEMMA RingKept == IInv /\ [Next]_vars => RingOK'
<1> SUFFICES ASSUME IInv, [Next]_vars, NEW k \in DOMAIN pending', pending'[k] # Empty
             PROVE  /\ pending'[k].seq \in Held'
                    /\ pending'[k].block <=> IsBlock(pending[k].seq)'
                    /\ Slot(pending'[k].seq) = k
  BY DEF RingOK, Empty, Slot, RingSize, BlockCap, OtherCap
<1>1. k \in DOMAIN pending /\ RingOK
  BY RingFrom DEF IInv
<1>2. CASE pending'[k] = pending[k]
  <2>1. /\ pending[k].seq \in Held /\ (pending[k].block <=> IsBlock(pending[k].seq))
        /\ Slot(pending[k].seq) = k
    BY <1>1, <1>2 DEF RingOK
  <2>2. pending[k].seq \in Held'
    <3>1. CASE Held \subseteq Held'
      BY <2>1, <3>1
    <3>2. CASE ReleasePermit /\ NextSlot # Empty /\ Held' = Held \ {nextSeq}
      <4>1. pending' = [pending EXCEPT ![Slot(nextSeq)] = Empty]
        BY <3>2 DEF ReleasePermit
      <4>2. pending[k].seq # nextSeq
        BY <1>1, <2>1, <4>1
      <4> QED
        BY <2>1, <3>2, <4>2
    <3> QED
      BY <3>1, <3>2, HeldStays
  <2> QED
    BY <1>2, <2>1, <2>2, StreamStays DEF IsBlock, PartAt
<1>3. CASE /\ results # <<>> /\ pending'[k] = Head(results) /\ k = Slot(Head(results).seq)
  <2>1. 1 \in DOMAIN results /\ Head(results) = results[1]
    BY <1>3 DEF IInv, TypeOK
  <2>2. results[1].seq \in Held /\ (results[1].block <=> IsBlock(results[1].seq))
    BY <2>1 DEF IInv, ResultsOK
  <2>3. results[1].seq \in Held'
    BY <2>1, <2>2, StillHeld DEF IInv, OnePlace
  <2> QED
    BY <1>3, <2>1, <2>2, <2>3, StreamStays DEF IsBlock, PartAt
<1> QED
  BY <1>1, <1>2, <1>3, RingFrom

\* A result of this step is one of the step before, each of another, or is new.
LEMMA ResultOrigin ==
    ASSUME IInv, [Next]_vars
    PROVE  /\ \A i \in DOMAIN results' :
                \/ \E j \in DOMAIN results : results'[i].seq = results[j].seq
                \/ results'[i].seq = reader.seq /\ PutPart
                \/ \E w \in Underway : w \notin Underway' /\ results'[i].seq = worker[w].seq
                                        /\ pending' = pending
           /\ \A i, j \in DOMAIN results' : results'[i].seq = results'[j].seq => i = j
<1> DEFINE Res == [seq : Nat, fate : {"keep", "drop", "error"}, block : BOOLEAN]
<1>1. /\ results \in Seq(Res) /\ OnePlace
      /\ \A i, j \in DOMAIN results : results[i].seq = results[j].seq => i = j
  BY DEF IInv, TypeOK, OnePlace
<1> HIDE DEF Res
<1>2. CASE results' = results
  BY <1>1, <1>2
<1>3. CASE results # <<>> /\ results' = Tail(results)
  <2>1. \A i \in DOMAIN results' : i \in Nat /\ i + 1 \in DOMAIN results /\ results'[i] = results[i + 1]
    BY <1>1, <1>3, HeadTailProperties
  <2> QED
    BY <1>1, <2>1
<1>4. ASSUME NEW s, results' = Append(results, Result(s)),
             \A i \in DOMAIN results : results[i].seq # s
      PROVE  /\ \A i \in DOMAIN results' :
                  (\E j \in DOMAIN results : results'[i].seq = results[j].seq) \/ results'[i].seq = s
             /\ \A i, j \in DOMAIN results' : results'[i].seq = results'[j].seq => i = j
  <2>1. results \in Seq(Res \cup {Result(s)})
    BY <1>1, LongerAlphabet
  <2>2. Len(results) \in Nat /\ DOMAIN results = 1 .. Len(results)
    BY <1>1, LenProperties
  <2>3. /\ DOMAIN results' = 1 .. Len(results) + 1
        /\ \A i \in 1 .. Len(results) : results'[i] = results[i]
        /\ results'[Len(results) + 1] = Result(s)
    BY <1>4, <2>1, AppendProperties, LenProperties
  <2>4. \A i \in DOMAIN results' : i \in DOMAIN results \/ i = Len(results) + 1
    BY <2>2, <2>3
  <2>5. results'[Len(results) + 1].seq = s
    BY <2>3, ResultIs
  <2> QED
    BY <1>1, <1>4, <2>2, <2>3, <2>4, <2>5
<1>5. CASE PutPart /\ results' = Append(results, Result(reader.seq))
  <2>1. \A i \in DOMAIN results : results[i].seq # reader.seq
    BY DEF IInv, ResultsOK, Held, TypeOK
  <2> QED
    BY <1>4, <1>5, <2>1
<1>6. ASSUME NEW w \in Underway, PutResult(w), w \notin Underway',
             results' = Append(results, Result(worker[w].seq))
      PROVE  /\ \A i \in DOMAIN results' :
                  \/ \E j \in DOMAIN results : results'[i].seq = results[j].seq
                  \/ w \notin Underway' /\ results'[i].seq = worker[w].seq /\ pending' = pending
             /\ \A i, j \in DOMAIN results' : results'[i].seq = results'[j].seq => i = j
  <2>1. \A i \in DOMAIN results : results[i].seq # worker[w].seq
    BY <1>1 DEF OnePlace
  <2>2. pending' = pending
    BY <1>6 DEF PutResult
  <2> QED
    BY <1>4, <1>6, <2>1, <2>2
<1> QED
  BY <1>2, <1>3, <1>5, <1>6, ResultsFrom

LEMMA OnePlaceKept == IInv /\ [Next]_vars => OnePlace'
<1> SUFFICES ASSUME IInv, [Next]_vars PROVE OnePlace'
  OBVIOUS
<1>1. /\ OnePlace /\ TypeOK /\ reader.seq \in Nat /\ nextSeq \in Nat
      /\ \A w \in Underway : worker[w].seq \in Held
      /\ \A i \in DOMAIN results : results[i].seq \in Held
      /\ \A k \in DOMAIN pending : pending[k] # Empty => pending[k].seq \in Held
      /\ reader.seq \notin Held
      /\ \A s \in Held : s \in Nat
  BY DEF IInv, WorkersOK, ResultsOK, RingOK, TypeOK, Held
<1>2. \A w \in Underway' :
        \/ w \in Underway /\ worker'[w].seq = worker[w].seq
        \/ w \notin Underway /\ SubmitBlock(w) /\ worker'[w].seq = reader.seq
  BY UnderwayFrom
<1>3. \A v, w \in Underway' : worker'[v].seq = worker'[w].seq => v = w
  <2>1. ASSUME NEW v \in Underway', NEW w \in Underway', v \notin Underway, w \notin Underway
        PROVE  v = w
    <3>1. SubmitBlock(v) /\ v \in Worker /\ w \in Worker
      BY <1>2, <2>1 DEF Underway
    <3>2. v # w => worker'[w] = worker[w]
      BY <1>1, <3>1 DEF SubmitBlock, TypeOK
    <3> QED
      BY <2>1, <3>1, <3>2 DEF Underway
  <2> QED
    BY <1>1, <1>2, <2>1 DEF OnePlace
<1>4. \A i, j \in DOMAIN results' : results'[i].seq = results'[j].seq => i = j
  BY ResultOrigin
<1>5. ASSUME NEW w \in Worker, SubmitBlock(w)
      PROVE  results' = results /\ pending' = pending /\ ~PutPart
  BY <1>5 DEF SubmitBlock, PutPart
<1>6. ASSUME PutPart
      PROVE  worker' = worker /\ pending' = pending
  BY <1>6 DEF PutPart
<1>7. ASSUME NEW i \in DOMAIN results', NEW w \in Underway'
      PROVE  results'[i].seq # worker'[w].seq
  <2>1. CASE w \notin Underway
    <3>1. results' = results /\ worker'[w].seq = reader.seq
      BY <1>2, <1>5, <2>1 DEF Underway
    <3> QED
      BY <1>1, <1>7, <3>1
  <2>2. CASE w \in Underway
    <3>1. worker'[w].seq = worker[w].seq /\ worker[w].seq \in Held
      BY <1>1, <1>2, <2>2
    <3>2. CASE \E j \in DOMAIN results : results'[i].seq = results[j].seq
      BY <1>1, <2>2, <3>1, <3>2 DEF OnePlace
    <3>3. CASE results'[i].seq = reader.seq
      BY <1>1, <3>1, <3>3
    <3>4. ASSUME NEW v \in Underway, v \notin Underway', results'[i].seq = worker[v].seq
          PROVE  results'[i].seq # worker'[w].seq
      <4>1. v # w
        BY <1>7, <3>4
      <4> QED
        BY <1>1, <2>2, <3>1, <3>4, <4>1 DEF OnePlace
    <3> QED
      BY <3>2, <3>3, <3>4, ResultOrigin
  <2> QED
    BY <2>1, <2>2
<1>8. ASSUME NEW k \in DOMAIN pending'
      PROVE  \/ pending'[k].seq = pending[k].seq /\ k \in DOMAIN pending
             \/ pending'[k] = Empty
             \/ /\ Receive /\ results # <<>>
                /\ pending'[k] = Head(results)
  BY RingFrom DEF IInv, TypeOK
<1>9. ASSUME Receive, results # <<>>
      PROVE  /\ 1 \in DOMAIN results /\ Head(results) = results[1]
             /\ worker' = worker /\ results' = Tail(results)
             /\ \A i \in DOMAIN results' : results'[i].seq # results[1].seq
  <2> DEFINE Res == [seq : Nat, fate : {"keep", "drop", "error"}, block : BOOLEAN]
  <2>1. results \in Seq(Res)
    BY <1>1 DEF TypeOK
  <2> HIDE DEF Res
  <2>2. 1 \in DOMAIN results /\ Head(results) = results[1]
    BY <1>9, <2>1
  <2>3. worker' = worker /\ results' = Tail(results)
    BY <1>9 DEF Receive
  <2>4. \A i \in DOMAIN results' : i \in 1 .. Len(results) - 1 /\ i + 1 \in DOMAIN results
                                    /\ results'[i] = results[i + 1]
    BY <1>9, <2>1, <2>3, HeadTailProperties, LenProperties
  <2>5. \A i \in DOMAIN results' : i + 1 # 1
    BY <2>1, <2>4, LenProperties
  <2> QED
    BY <1>1, <2>2, <2>3, <2>4, <2>5 DEF OnePlace
<1>10. ASSUME NEW k \in DOMAIN pending', NEW w \in Underway'
       PROVE  pending'[k].seq # worker'[w].seq
  <2>1. CASE w \notin Underway
    <3>1. pending' = pending /\ worker'[w].seq = reader.seq
      BY <1>2, <1>5, <2>1 DEF Underway
    <3>2. pending[k].seq # reader.seq
      BY <1>1, <1>10, <3>1 DEF Empty
    <3> QED
      BY <3>1, <3>2
  <2>2. CASE w \in Underway
    <3>1. worker'[w].seq = worker[w].seq /\ worker[w].seq \in Nat
      BY <1>1, <1>2, <2>2
    <3> QED
      BY <1>1, <1>8, <1>9, <1>10, <2>2, <3>1 DEF OnePlace, Empty
  <2> QED
    BY <2>1, <2>2
<1>11. ASSUME NEW k \in DOMAIN pending', NEW i \in DOMAIN results'
       PROVE  pending'[k].seq # results'[i].seq
  <2>1. results'[i].seq \in Nat
    <3>1. results' \in Seq([seq : Nat, fate : {"keep", "drop", "error"}, block : BOOLEAN])
      BY TypeStep DEF TypeOK
    <3>2. i \in 1 .. Len(results')
      BY <1>11, <3>1, LenProperties
    <3>3. results'[i] \in [seq : Nat, fate : {"keep", "drop", "error"}, block : BOOLEAN]
      BY <3>1, <3>2, ElementOfSeq
    <3> QED
      BY <3>3
  <2>2. CASE pending'[k] = Empty
    BY <2>1, <2>2 DEF Empty
  <2>3. CASE Receive /\ results # <<>> /\ pending'[k] = Head(results)
    BY <1>9, <1>11, <2>3
  <2>4. CASE pending'[k].seq = pending[k].seq /\ k \in DOMAIN pending
    <3>1. pending[k].seq # reader.seq
      BY <1>1, <2>4 DEF Empty
    <3>2. \A w \in Underway : pending[k].seq # worker[w].seq
      BY <1>1, <2>4 DEF OnePlace
    <3>3. \A j \in DOMAIN results : pending[k].seq # results[j].seq
      BY <1>1, <2>4 DEF OnePlace
    <3> QED
      BY <1>11, <2>4, <3>1, <3>2, <3>3, ResultOrigin
  <2> QED
    BY <1>8, <1>11, <2>2, <2>3, <2>4
<1> QED
  BY <1>3, <1>4, <1>7, <1>10, <1>11 DEF OnePlace

LEMMA EmitterKept == IInv /\ [Next]_vars => EmitterOK'
<1> SUFFICES ASSUME IInv, [Next]_vars, emitter' = "release" PROVE NextSlot' # Empty
  BY DEF EmitterOK, Empty
<1>1. CASE SendPart \/ SkipDropped
  <2>1. NextSlot.fate \in {"keep", "drop"} /\ NextSlot' = NextSlot
    BY <1>1 DEF SendPart, SkipDropped, NextSlot, Slot, RingSize, BlockCap, OtherCap
  <2> QED
    BY <2>1 DEF Empty
<1>2. CASE [Next]_vars /\ ~SendPart /\ ~SkipDropped
  <2>1. /\ emitter = "release" /\ pending' = pending /\ nextSeq' = nextSeq
    BY <1>2 DEF Next, ReaderStep, WorkerStep, EmitterStep, ReadPart, InputClosed, AcquirePermit,
                TradePermit, PassBarrier, HandlePart, PutPart, ReaderStops, JoinWorkers, SubmitBlock,
                TakeJob, HandleBlock, PutResult, DropResult, CountDone, LeavePool, Receive, Leave,
                Waiting, ReleasePermit, ResultsClosed, EmitterStops, CancelRest, Return, Cancel,
                Finished, vars
  <2> QED
    BY <2>1 DEF IInv, EmitterOK, NextSlot, Slot, RingSize, BlockCap, OtherCap
<1> QED
  BY <1>1, <1>2

----------------------------------------------------------------------------
(* The theorems *)

LEMMA Inductive == Spec => []IInv
<1>1. Init => IInv
  BY InitInv
<1>2. IInv /\ [Next]_vars => IInv'
  BY TypeStep, ReaderKept, ActiveStep, WorkersKept, ResultsKept, RingKept, OnePlaceKept,
     HeldFitsKept, EmitterKept, PermitsKept DEF IInv
<1> QED
  BY <1>1, <1>2, PTL DEF Spec

\* The state of the stage keeps its types: in particular the WaitGroup of
\* blocks stays within the pool, and no window is overdrawn.
THEOREM TypeCorrect == Spec => []TypeOK
<1>1. IInv => TypeOK
  BY DEF IInv
<1> QED
  BY <1>1, Inductive, PTL

\* For every pool, the windows hold one permit for every Part admitted and not
\* yet emitted, on the window of the Part's type: none leaks and none is given
\* back early.
THEOREM PermitsMatch == Spec => []PermitsMatchParts
<1>1. IInv => PermitsMatchParts
  BY DEF IInv
<1> QED
  BY <1>1, Inductive, PTL

LEMMA ComingFits ==
    ASSUME IInv, NEW s \in Coming
    PROVE  /\ s \in nextSeq .. nextSeq + RingSize - 1
           /\ pending[Slot(s)] = Empty
<1>1. /\ reader.seq \in Nat /\ nextSeq \in Nat /\ HeldFits /\ RingOK /\ OnePlace
      /\ RingSize \in Nat \ {0} /\ Held = nextSeq .. reader.seq - 1
      /\ DOMAIN pending = 0 .. RingSize - 1
  BY Sizes DEF IInv, TypeOK, Held
<1>2. \/ s \in Held /\ \A k \in DOMAIN pending : pending[k].seq # s
      \/ s = reader.seq /\ reader.at = "put"
  <2>1. CASE \E i \in DOMAIN results : s = results[i].seq
    BY <1>1, <2>1 DEF IInv, ResultsOK, OnePlace
  <2>2. CASE \E w \in Senders : s = worker[w].seq
    <3>1. Senders \subseteq Underway
      BY DEF Senders, Underway, AtWorker
    <3> QED
      BY <1>1, <2>2, <3>1 DEF IInv, WorkersOK, OnePlace
  <2> QED
    BY <2>1, <2>2 DEF Coming
<1>3. s \in nextSeq .. reader.seq /\ (s = reader.seq => reader.at \in InHand) /\ s \in Nat
  BY <1>1, <1>2 DEF HeldFits, InHand
<1>4. s \in nextSeq .. nextSeq + RingSize - 1
  BY <1>1, <1>3 DEF HeldFits
<1>5. ASSUME pending[Slot(s)] # Empty PROVE FALSE
  <2> DEFINE u == pending[Slot(s)].seq
  <2>1. Slot(s) \in DOMAIN pending
    BY <1>1, <1>3, SlotInRing
  <2>2. u \in Held /\ Slot(u) = Slot(s)
    BY <1>1, <1>5, <2>1 DEF RingOK
  <2>3. u \in nextSeq .. reader.seq /\ u # reader.seq
    BY <1>1, <2>2
  <2>4. u = s
    BY <1>3, <2>2, <2>3, OwnSlot DEF IInv
  <2> QED
    BY <1>2, <2>1, <2>3, <2>4
<1> QED
  BY <1>4, <1>5

LEMMA RoomFromInvariant == IInv => ResultsHaveRoom
<1> SUFFICES ASSUME IInv PROVE ResultsHaveRoom
  OBVIOUS
<1> DEFINE FromResults == {results[i].seq : i \in DOMAIN results}
           FromWorkers == {worker[w].seq : w \in Senders}
           FromReader  == IF reader.at = "put" THEN {reader.seq} ELSE {}
           Places      == nextSeq .. nextSeq + RingSize - 1
<1>1. IsFiniteSet(Places) /\ Cardinality(Places) = RingSize
  <2>1. nextSeq \in Int /\ nextSeq + RingSize - 1 \in Int /\ RingSize \in Nat \ {0}
    BY Sizes DEF IInv, TypeOK
  <2>2. /\ IsFiniteSet(Places)
        /\ Cardinality(Places) = IF nextSeq > nextSeq + RingSize - 1 THEN 0
                                 ELSE (nextSeq + RingSize - 1) - nextSeq + 1
    BY <2>1, FS_Interval
  <2> QED
    BY <2>1, <2>2
<1>2. Coming = (FromResults \cup FromWorkers) \cup FromReader /\ Coming \subseteq Places
  BY ComingFits DEF Coming
<1>3. IsFiniteSet(FromResults) /\ Cardinality(FromResults) = Len(results)
  <2> DEFINE f == [i \in 1 .. Len(results) |-> results[i].seq]
  <2>1. Len(results) \in Nat /\ DOMAIN results = 1 .. Len(results)
    BY DEF IInv, TypeOK
  <2>2. IsFiniteSet(1 .. Len(results)) /\ Cardinality(1 .. Len(results)) = Len(results)
    <3>1. /\ IsFiniteSet(1 .. Len(results))
          /\ Cardinality(1 .. Len(results)) = IF 1 > Len(results) THEN 0 ELSE Len(results) - 1 + 1
      BY <2>1, FS_Interval
    <3> QED
      BY <2>1, <3>1
  <2>3. f \in Bijection(1 .. Len(results), FromResults)
    <3>1. f \in [1 .. Len(results) -> FromResults]
      BY <2>1
    <3>2. \A i, j \in 1 .. Len(results) : f[i] = f[j] => i = j
      BY <2>1 DEF IInv, OnePlace
    <3>3. \A s \in FromResults : \E i \in 1 .. Len(results) : f[i] = s
      BY <2>1
    <3> QED
      BY <3>1, <3>2, <3>3 DEF Bijection, Injection, Surjection, IsInjective
  <2> QED
    BY <2>2, <2>3, FS_Bijection DEF ExistsBijection
<1>4. IsFiniteSet(FromWorkers) /\ Cardinality(FromWorkers) = Cardinality(Senders)
  <2> DEFINE f == [w \in Senders |-> worker[w].seq]
  <2>1. IsFiniteSet(Senders)
    BY Sizes, FS_Subset DEF Senders
  <2>2. Senders \subseteq Underway
    BY DEF Senders, Underway, AtWorker
  <2>3. f \in Bijection(Senders, FromWorkers)
    <3>1. f \in [Senders -> FromWorkers]
      OBVIOUS
    <3>2. \A v, w \in Senders : f[v] = f[w] => v = w
      BY <2>2 DEF IInv, OnePlace
    <3>3. \A s \in FromWorkers : \E w \in Senders : f[w] = s
      OBVIOUS
    <3> QED
      BY <3>1, <3>2, <3>3 DEF Bijection, Injection, Surjection, IsInjective
  <2> QED
    BY <2>1, <2>3, FS_Bijection DEF ExistsBijection
<1>5. IsFiniteSet(FromReader) /\ Cardinality(FromReader) = IF reader.at = "put" THEN 1 ELSE 0
  BY FS_EmptySet, FS_Singleton
<1>6. FromResults \cap FromWorkers = {} /\ (FromResults \cup FromWorkers) \cap FromReader = {}
  <2>1. Senders \subseteq Underway
    BY DEF Senders, Underway, AtWorker
  <2>2. reader.seq \notin Held
    BY DEF IInv, TypeOK, Held
  <2>3. FromResults \subseteq Held /\ FromWorkers \subseteq Held
    BY <2>1 DEF IInv, ResultsOK, WorkersOK
  <2> QED
    BY <2>1, <2>2, <2>3 DEF IInv, OnePlace
<1>7. Cardinality(Coming) =
        Len(results) + Cardinality(Senders) + (IF reader.at = "put" THEN 1 ELSE 0)
  <2> HIDE DEF FromResults, FromWorkers, FromReader
  <2>1. Cardinality(FromResults) \in Nat /\ Cardinality(FromWorkers) \in Nat /\ Cardinality({}) = 0
    BY <1>3, <1>4, FS_CardinalityType, FS_EmptySet
  <2>2. /\ IsFiniteSet(FromResults \cup FromWorkers)
        /\ Cardinality(FromResults \cup FromWorkers) = Len(results) + Cardinality(Senders)
    <3>1. /\ IsFiniteSet(FromResults \cup FromWorkers)
          /\ Cardinality(FromResults \cup FromWorkers) = Cardinality(FromResults)
                + Cardinality(FromWorkers) - Cardinality(FromResults \cap FromWorkers)
      BY <1>3, <1>4, FS_Union
    <3>2. Cardinality(FromResults \cap FromWorkers) = 0
      BY <1>6, <2>1, Zenon
    <3> QED
      BY <1>3, <1>4, <2>1, <3>1, <3>2
  <2>3. Cardinality((FromResults \cup FromWorkers) \cup FromReader) =
           Cardinality(FromResults \cup FromWorkers) + Cardinality(FromReader)
    <3>1. Cardinality((FromResults \cup FromWorkers) \cup FromReader) =
             Cardinality(FromResults \cup FromWorkers) + Cardinality(FromReader)
                - Cardinality((FromResults \cup FromWorkers) \cap FromReader)
      BY <1>5, <2>2, FS_Union
    <3>2. Cardinality(FromResults \cup FromWorkers) \in Nat /\ Cardinality(FromReader) \in Nat
      BY <1>5, <2>2, FS_CardinalityType
    <3>3. Cardinality((FromResults \cup FromWorkers) \cap FromReader) = 0
      BY <1>6, <2>1, Zenon
    <3> QED
      BY <3>1, <3>2, <3>3
  <2> QED
    BY <1>2, <1>5, <2>2, <2>3
<1>8. Cardinality(Coming) <= RingSize
  <2> HIDE DEF Places
  <2>1. Coming \in SUBSET Places
    BY <1>2
  <2>2. Cardinality(Coming) <= Cardinality(Places)
    BY <1>1, <2>1, FS_Subset
  <2> QED
    BY <1>1, <2>2
<1> QED
  BY <1>7, <1>8, ComingFits DEF ResultsHaveRoom

\* For every pool, nobody ever waits for room in results, and a result that
\* comes finds its slot of the ring free: indexing modulo the windows' size
\* overwrites nothing.
THEOREM RingNeverOverwrites == Spec => []ResultsHaveRoom
BY Inductive, RoomFromInvariant, PTL

----------------------------------------------------------------------------
(* ParallelBlocks is an ordered stage, for every pool of workers, every number
   of permits per worker and every set of streams. *)

\* A Part needs no handler any more.
Settled(s) == PartAt(s).type = "passed" \/ verdict[s] # "none"

\* A verdict is what the Part is marked with, unless the context is cancelled,
\* and there is one only for what the reader has submitted or handled.
VerdictsOK ==
    /\ \A s \in DOMAIN verdict : verdict[s] \in {"none", PartAt(s).fate, "error"}
    /\ \A s \in DOMAIN verdict :
          verdict[s] = "error" => PartAt(s).fate = "error" \/ cancelled
    /\ \A s \in DOMAIN verdict :
          verdict[s] # "none" =>
              s < reader.seq \/ (s = reader.seq /\ reader.at \in {"put", "closing", "done"})

Unhandled(w) == worker[w].at \in {"took", "handling"}

\* The reader leaves no structural Part behind unhandled, and no block but with
\* a worker, unless the context is cancelled; it handles a structural Part alone.
BehindReader ==
    /\ \A s \in 0 .. reader.seq - 1 : PartAt(s).type = "handled" => Settled(s)
    /\ \A s \in 0 .. reader.seq - 1 :
          IsBlock(s) => Settled(s) \/ cancelled
                          \/ \E w \in Worker : worker[w].seq = s /\ Unhandled(w)
    /\ \A w \in Worker : Unhandled(w) => verdict[worker[w].seq] = "none"
    /\ reader.at = "handle" => /\ Busy = {}
                               /\ \A s \in 0 .. reader.seq - 1 : Settled(s)

\* What is in results and in the ring is what the handlers returned.
FatesOK ==
    /\ \A i \in DOMAIN results :
          /\ Settled(results[i].seq)
          /\ results[i].fate = "error" => verdict[results[i].seq] = "error"
          /\ results[i].fate # "error" => results[i].fate = PartAt(results[i].seq).fate
    /\ \A k \in DOMAIN pending : pending[k] # Empty =>
          /\ Settled(pending[k].seq)
          /\ pending[k].fate = PartAt(pending[k].seq).fate

Emitting == emitter \in {"loop", "release"}

Somewhere(s) ==
    \/ \E w \in Underway : worker[w].seq = s
    \/ \E i \in DOMAIN results : results[i].seq = s
    \/ \E k \in DOMAIN pending : pending[k].seq = s

\* Nothing held is lost before the context is cancelled or the emitter leaves.
NothingLost == ~cancelled /\ Emitting => \A s \in Held : Somewhere(s)

EndOK ==
    /\ reader.at = "done" => \A w \in Worker : worker[w].at = "gone"
    /\ reader.at \in {"closing", "done"} =>
          cancelled \/ (taken = Len(stream) /\ reader.seq = taken)
    /\ emitter = "returned" => reader.at = "done"
    /\ Emitting => ctx # "stopped" /\ outcome = "running"
    /\ ~Emitting => outcome # "running"

OutcomeOK ==
    /\ outcome = "ok" => nextSeq = Len(stream)
    /\ outcome = "cancelled" => ctx = "calledOff"
    /\ outcome = "error" =>
          \/ ctx = "calledOff"
          \/ \E s \in DOMAIN verdict : verdict[s] = "error" /\ PartAt(s).fate = "error"

StageInv == VerdictsOK /\ BehindReader /\ FatesOK /\ NothingLost /\ EndOK /\ OutcomeOK

----------------------------------------------------------------------------

LEMMA StreamFacts ==
    ASSUME TypeOK
    PROVE  /\ Len(stream) \in Nat /\ taken \in Nat /\ DOMAIN verdict = 0 .. Len(stream) - 1
           /\ 0 .. taken - 1 \subseteq DOMAIN verdict
           /\ \A s \in DOMAIN verdict :
                 /\ PartAt(s).type \in {"block", "handled", "passed"}
                 /\ PartAt(s).fate \in {"keep", "drop", "error"}
                 /\ PartAt(s).type = "passed" => PartAt(s).fate = "keep"
<1>1. stream \in Seq(Part) /\ Len(stream) \in Nat /\ DOMAIN stream = 1 .. Len(stream)
  BY StreamsAssumption DEF TypeOK
<1>2. taken \in Nat /\ taken <= Len(stream) /\ DOMAIN verdict = 0 .. Len(stream) - 1
  BY <1>1 DEF TypeOK
<1>3. \A s \in DOMAIN verdict : s + 1 \in 1 .. Len(stream)
  BY <1>1, <1>2
<1>4. \A i \in 1 .. Len(stream) : stream[i] \in Part
  BY <1>1
<1>5. \A i \in 1 .. Len(stream) : stream[i].type = "passed" => stream[i].fate = "keep"
  BY <1>1, StreamsAssumption DEF TypeOK
<1> QED
  BY <1>1, <1>2, <1>3, <1>4, <1>5 DEF PartAt, Part

LEMMA CancelledStays ==
    ASSUME IInv, [Next]_vars
    PROVE  cancelled => cancelled'
<1>1. CASE Cancel \/ CancelRest
  BY <1>1 DEF Cancel, CancelRest, cancelled
<1>2. CASE ~Cancel /\ ~CancelRest
  <2>1. ctx' = ctx
    BY <1>2 DEF Next, ReaderStep, WorkerStep, EmitterStep, ReadPart, InputClosed, AcquirePermit,
                TradePermit, PassBarrier, HandlePart, PutPart, ReaderStops, JoinWorkers, SubmitBlock,
                TakeJob, HandleBlock, PutResult, DropResult, CountDone, LeavePool, SendPart, Receive,
                SkipDropped, ReleasePermit, ResultsClosed, EmitterStops, Return, Finished, vars
  <2> QED
    BY <2>1 DEF cancelled
<1> QED
  BY <1>1, <1>2

\* A handler runs for what has no verdict, and sets that one.
LEMMA VerdictsFrom ==
    ASSUME IInv, StageInv, [Next]_vars
    PROVE  \/ verdict' = verdict
           \/ \E s \in 0 .. taken - 1 :
                /\ Handle(s) /\ verdict[s] = "none"
                /\ \/ HandlePart /\ s = reader.seq
                   \/ \E w \in Underway : HandleBlock(w) /\ s = worker[w].seq
<1>1. CASE HandlePart
  <2>1. reader.seq \in 0 .. taken - 1
    BY <1>1 DEF HandlePart, IInv, ReaderOK, InHand, TypeOK
  <2>2. reader.seq \in DOMAIN verdict
    BY <2>1, StreamFacts DEF IInv
  <2>3. verdict[reader.seq] = "none"
    BY <1>1, <2>1, <2>2 DEF StageInv, VerdictsOK, HandlePart
  <2> QED
    BY <1>1, <2>1, <2>3 DEF HandlePart
<1>2. ASSUME NEW w \in Worker, HandleBlock(w)
      PROVE  \E s \in 0 .. taken - 1 :
                /\ Handle(s) /\ verdict[s] = "none"
                /\ w \in Underway /\ s = worker[w].seq
  <2>1. w \in Underway /\ Unhandled(w)
    BY <1>2 DEF HandleBlock, Underway, AtWorker, Unhandled
  <2>2. worker[w].seq \in 0 .. taken - 1
    BY <2>1 DEF IInv, WorkersOK, Held, ReaderOK, TypeOK
  <2> QED
    BY <1>2, <2>1, <2>2 DEF HandleBlock, StageInv, BehindReader
<1>3. CASE ~HandlePart /\ ~\E w \in Worker : HandleBlock(w)
  BY <1>3 DEF Next, ReaderStep, WorkerStep, EmitterStep, ReadPart, InputClosed, AcquirePermit,
              TradePermit, PassBarrier, PutPart, ReaderStops, JoinWorkers, SubmitBlock,
              TakeJob, PutResult, DropResult, CountDone, LeavePool, SendPart, Receive,
              SkipDropped, ReleasePermit, ResultsClosed, EmitterStops, CancelRest, Return, Cancel,
              Finished, vars
<1> QED
  BY <1>1, <1>2, <1>3

\* A verdict that has been given is not given again.
LEMMA VerdictsFixed ==
    ASSUME IInv, StageInv, [Next]_vars
    PROVE  /\ DOMAIN verdict' = DOMAIN verdict
           /\ \A s \in DOMAIN verdict : verdict[s] # "none" => verdict'[s] = verdict[s]
           /\ \A s : PartAt(s)' = PartAt(s)
<1>1. stream' = stream
  BY StreamStays
<1>2. ASSUME NEW s \in 0 .. taken - 1, Handle(s), verdict[s] = "none"
      PROVE  /\ DOMAIN verdict' = DOMAIN verdict
             /\ \A u \in DOMAIN verdict : verdict[u] # "none" => verdict'[u] = verdict[u]
  BY <1>2 DEF Handle, IInv, TypeOK
<1> QED
  BY <1>1, <1>2, VerdictsFrom DEF PartAt

LEMMA InitStage == Init => StageInv
<1> SUFFICES ASSUME Init PROVE StageInv
  OBVIOUS
<1> USE DEF Init
<1>1. VerdictsOK
  BY DEF VerdictsOK
<1>2. BehindReader
  BY DEF BehindReader, Unhandled, Idle
<1>3. FatesOK /\ NothingLost
  BY DEF FatesOK, NothingLost, Held
<1>4. EndOK /\ OutcomeOK
  BY DEF EndOK, OutcomeOK, Emitting
<1> QED
  BY <1>1, <1>2, <1>3, <1>4 DEF StageInv

\* The reader goes on to the next position from a Part in hand, or stays with
\* its own, and moves from where it is.
LEMMA ReaderFrom ==
    ASSUME IInv, [Next]_vars
    PROVE  \/ reader' = reader
           \/ NextPart /\ reader.at = "put"
           \/ NextPart /\ reader.at = "submit" /\ \E w \in Worker : SubmitBlock(w)
           \/ /\ reader'.seq = reader.seq
              /\ \/ reader.at = "handle" /\ reader'.at = "put" /\ HandlePart
                 \/ PassBarrier /\ reader'.at = AfterBarrier
                 \/ reader.at # "handle" /\ reader'.at \notin {"handle", "done"}
                      /\ (reader'.at = "closing" => cancelled \/ InputClosed)
                      /\ (reader.at \in {"put", "closing", "done"} => reader'.at = "closing")
                 \/ JoinWorkers /\ reader'.at = "done"
<1>0. TypeOK
  BY DEF IInv
<1>1. CASE ReadPart
  BY <1>0, <1>1, ReaderGoesOn DEF ReadPart
<1>2. CASE InputClosed
  BY <1>0, <1>2, ReaderGoesOn DEF InputClosed
<1>3. CASE AcquirePermit
  BY <1>0, <1>3, ReaderGoesOn DEF AcquirePermit
<1>4. CASE TradePermit
  <2>1. reader'.at \in {"barrier", "put"} /\ reader'.seq = reader.seq
    BY <1>0, <1>4, ReaderGoesOn DEF TradePermit
  <2> QED
    BY <1>4, <2>1 DEF TradePermit
<1>5. CASE PassBarrier
  BY <1>0, <1>5, ReaderGoesOn DEF PassBarrier
<1>6. CASE HandlePart
  BY <1>0, <1>6, ReaderGoesOn DEF HandlePart
<1>7. CASE PutPart
  BY <1>7 DEF PutPart
<1>8. CASE ReaderStops
  BY <1>0, <1>8, ReaderGoesOn DEF ReaderStops, Selects
<1>9. CASE JoinWorkers
  BY <1>0, <1>9, ReaderGoesOn DEF JoinWorkers
<1>10. CASE \E w \in Worker : SubmitBlock(w)
  BY <1>10 DEF SubmitBlock
<1>11. CASE \/ \E w \in Worker : WorkerStep(w)
            \/ SendPart \/ EmitterStep \/ Cancel \/ Finished \/ UNCHANGED vars
  BY <1>11 DEF WorkerStep, TakeJob, HandleBlock, PutResult, DropResult, CountDone, LeavePool,
               SendPart, EmitterStep, Receive, SkipDropped, ReleasePermit, ResultsClosed,
               EmitterStops, CancelRest, Return, Cancel, Finished, vars
<1> QED
  BY <1>1, <1>2, <1>3, <1>4, <1>5, <1>6, <1>7, <1>8, <1>9, <1>10, <1>11 DEF Next, ReaderStep

LEMMA VerdictsKept == IInv /\ StageInv /\ [Next]_vars => VerdictsOK'
<1> SUFFICES ASSUME IInv, StageInv, [Next]_vars PROVE VerdictsOK'
  OBVIOUS
<1>1. /\ VerdictsOK /\ TypeOK /\ reader.seq \in Nat /\ (cancelled => cancelled')
      /\ DOMAIN verdict' = DOMAIN verdict /\ (\A s : PartAt(s)' = PartAt(s))
      /\ 0 .. taken - 1 \subseteq DOMAIN verdict /\ (\A s \in DOMAIN verdict : s \in Int)
  BY CancelledStays, VerdictsFixed, StreamFacts, SMTT(30) DEF StageInv, IInv, TypeOK
<1>2. \A s \in DOMAIN verdict : verdict'[s] # verdict[s] =>
        /\ verdict'[s] \in {PartAt(s).fate, "error"}
        /\ verdict'[s] = "error" => PartAt(s).fate = "error" \/ cancelled
        /\ s < reader.seq \/ (s = reader.seq /\ HandlePart)
  <2>1. ASSUME NEW s \in 0 .. taken - 1, Handle(s)
        PROVE  /\ \A u \in DOMAIN verdict : u # s => verdict'[u] = verdict[u]
               /\ verdict'[s] \in {PartAt(s).fate, "error"}
               /\ verdict'[s] = "error" => PartAt(s).fate = "error" \/ cancelled
    BY <1>1, <2>1 DEF Handle
  <2>2. \A w \in Underway : worker[w].seq < reader.seq
    BY DEF IInv, WorkersOK, Held, TypeOK
  <2> QED
    BY <2>1, <2>2, VerdictsFrom
<1>3. ASSUME NEW s \in DOMAIN verdict, verdict[s] # "none" \/ s < reader.seq
      PROVE  s < reader'.seq \/ (s = reader'.seq /\ reader'.at \in {"put", "closing", "done"})
  <2>1. s < reader.seq \/ (s = reader.seq /\ reader.at \in {"put", "closing", "done"})
    BY <1>1, <1>3 DEF VerdictsOK
  <2> QED
    BY <1>1, <2>1, ReaderFrom DEF NextPart, PassBarrier, JoinWorkers
<1>4. ASSUME HandlePart
      PROVE  reader'.seq = reader.seq /\ reader'.at = "put"
  BY <1>1, <1>4, ReaderGoesOn DEF HandlePart
<1> QED
  BY <1>1, <1>2, <1>3, <1>4 DEF VerdictsOK

LEMMA SettledStays ==
    ASSUME IInv, StageInv, [Next]_vars, NEW s \in DOMAIN verdict, Settled(s)
    PROVE  Settled(s)'
BY VerdictsFixed DEF Settled

\* A block no worker has any more has been handled, or the context is cancelled.
LEMMA UnhandledTo ==
    ASSUME IInv, StageInv, [Next]_vars, NEW w \in Worker, Unhandled(w)
    PROVE  \/ Unhandled(w)' /\ worker'[w].seq = worker[w].seq
           \/ cancelled
           \/ HandleBlock(w)
<1>1. TypeOK /\ worker[w].at # "counted" /\ worker[w].at # "put" /\ worker[w] # Idle
  BY DEF IInv, Unhandled, Idle
<1>2. CASE worker'[w] = worker[w]
  BY <1>2 DEF Unhandled
<1>3. ASSUME NEW v \in Worker, v # w, worker'[w] # worker[w], WorkerStep(v) \/ SubmitBlock(v)
      PROVE  FALSE
  BY <1>1, <1>3, WorkerGoesOn DEF WorkerStep, TakeJob, HandleBlock, PutResult, DropResult, CountDone,
     LeavePool, SubmitBlock, TypeOK
<1>4. CASE TakeJob(w)
  BY <1>1, <1>4, WorkerGoesOn DEF TakeJob, Unhandled
<1>5. CASE WorkerStep(w) /\ ~TakeJob(w) /\ ~HandleBlock(w)
  BY <1>1, <1>5 DEF WorkerStep, PutResult, DropResult, CountDone, LeavePool, Unhandled
<1>6. CASE SubmitBlock(w)
  BY <1>1, <1>6 DEF SubmitBlock
<1>7. CASE \/ ReadPart \/ InputClosed \/ AcquirePermit \/ TradePermit \/ PassBarrier \/ HandlePart
           \/ PutPart \/ ReaderStops \/ JoinWorkers
           \/ SendPart \/ EmitterStep \/ Cancel \/ Finished \/ UNCHANGED vars
  <2>1. worker' = worker
    BY <1>7 DEF ReadPart, InputClosed, AcquirePermit, TradePermit, PassBarrier, HandlePart, PutPart,
                ReaderStops, JoinWorkers, SendPart, EmitterStep, Receive, SkipDropped,
                ReleasePermit, ResultsClosed, EmitterStops, CancelRest, Return, Cancel, Finished, vars
  <2> QED
    BY <1>2, <2>1
<1> QED
  BY <1>2, <1>3, <1>4, <1>5, <1>6, <1>7 DEF Next, ReaderStep, WorkerStep

\* Only a submission makes a worker busy.
LEMMA BusyFrom ==
    ASSUME IInv, [Next]_vars, NEW w \in Worker, ~SubmitBlock(w)
    PROVE  /\ w \in Busy' => w \in Busy
           /\ Unhandled(w)' => /\ Unhandled(w) /\ worker'[w].seq = worker[w].seq
                               /\ ~HandleBlock(w)
<1>1. TypeOK
  BY DEF IInv
<1>2. CASE worker'[w] = worker[w]
  <2>1. ~HandleBlock(w)
    BY <1>1, <1>2, WorkerGoesOn DEF HandleBlock
  <2> QED
    BY <1>2, <2>1 DEF Busy, Unhandled
<1>3. ASSUME NEW v \in Worker, v # w, worker'[w] # worker[w], WorkerStep(v) \/ SubmitBlock(v)
      PROVE  FALSE
  BY <1>1, <1>3, WorkerGoesOn DEF WorkerStep, TakeJob, HandleBlock, PutResult, DropResult, CountDone,
     LeavePool, SubmitBlock, TypeOK
<1>4. CASE TakeJob(w)
  BY <1>1, <1>4, WorkerGoesOn DEF TakeJob, HandleBlock, Unhandled, Busy, AtWorker
<1>5. CASE HandleBlock(w) \/ PutResult(w) \/ DropResult(w) \/ LeavePool(w)
  BY <1>1, <1>5, WorkerGoesOn DEF HandleBlock, PutResult, DropResult, LeavePool, Unhandled, Busy,
     AtWorker
<1>6. CASE CountDone(w)
  BY <1>1, <1>6 DEF CountDone, TypeOK, Unhandled, Busy, AtWorker, Idle
<1>7. CASE \/ ReadPart \/ InputClosed \/ AcquirePermit \/ TradePermit \/ PassBarrier \/ HandlePart
           \/ PutPart \/ ReaderStops \/ JoinWorkers
           \/ SendPart \/ EmitterStep \/ Cancel \/ Finished \/ UNCHANGED vars
  <2>1. worker' = worker
    BY <1>7 DEF ReadPart, InputClosed, AcquirePermit, TradePermit, PassBarrier, HandlePart, PutPart,
                ReaderStops, JoinWorkers, SendPart, EmitterStep, Receive, SkipDropped,
                ReleasePermit, ResultsClosed, EmitterStops, CancelRest, Return, Cancel, Finished, vars
  <2> QED
    BY <1>2, <2>1
<1> QED
  BY <1>2, <1>3, <1>4, <1>5, <1>6, <1>7 DEF Next, ReaderStep, WorkerStep

\* At an open barrier, and no context cancelled, nothing before it is unhandled.
LEMMA BarrierOpens ==
    ASSUME IInv, StageInv, PassBarrier, ~cancelled
    PROVE  Busy = {} /\ \A s \in 0 .. reader.seq - 1 : Settled(s)
<1>1. Busy = {}
  <2>1. IsFiniteSet(Busy) /\ Cardinality(Busy) \in Nat
    BY Sizes, FS_Subset, FS_CardinalityType DEF Busy
  <2>2. Cardinality(Busy) = 0
    BY <2>1 DEF PassBarrier, IInv, ActiveOK
  <2> QED
    BY <2>1, <2>2, FS_EmptySet
<1>2. \A w \in Worker : ~Unhandled(w)
  BY <1>1 DEF Busy, Unhandled, AtWorker
<1>3. \A s \in 0 .. reader.seq - 1 : s \in DOMAIN verdict
  BY StreamFacts DEF IInv, TypeOK, ReaderOK
<1>4. \A s \in 0 .. reader.seq - 1 : PartAt(s).type \in {"block", "handled", "passed"}
  BY <1>3, StreamFacts DEF IInv
<1> QED
  BY <1>1, <1>2, <1>4 DEF StageInv, BehindReader, Settled, IsBlock

LEMMA BehindKept == IInv /\ StageInv /\ [Next]_vars => BehindReader'
<1> SUFFICES ASSUME IInv, StageInv, [Next]_vars PROVE BehindReader'
  OBVIOUS
<1>1. /\ BehindReader /\ TypeOK /\ reader.seq \in Nat /\ (cancelled => cancelled')
      /\ \A s : PartAt(s)' = PartAt(s)
      /\ DOMAIN verdict' = DOMAIN verdict
      /\ \A s \in 0 .. reader.seq - 1 : s \in DOMAIN verdict
      /\ reader.at \in InHand => reader.seq \in DOMAIN verdict
  BY CancelledStays, VerdictsFixed, StreamFacts, SMTT(30) DEF StageInv, IInv, TypeOK, ReaderOK
<1>2. \A s \in 0 .. reader'.seq - 1 :
        s \in 0 .. reader.seq - 1 \/ (s = reader.seq /\ NextPart /\ reader.at \in {"put", "submit"})
  BY <1>1, ReaderFrom DEF NextPart, PassBarrier, JoinWorkers
<1>3. \A s \in DOMAIN verdict : Settled(s) => Settled(s)'
  BY SettledStays
<1>4. reader.at = "put" => Settled(reader.seq) /\ ~IsBlock(reader.seq)
  BY DEF IInv, ReaderOK, InHand, Settled
<1>5. reader.at = "submit" => IsBlock(reader.seq)
  BY DEF IInv, ReaderOK
<1>6. ASSUME NEW s \in 0 .. reader'.seq - 1, PartAt(s).type = "handled"
      PROVE  Settled(s)'
  BY <1>1, <1>2, <1>3, <1>4, <1>5, <1>6 DEF BehindReader, IsBlock, InHand
<1>7. ASSUME NEW s \in 0 .. reader'.seq - 1, IsBlock(s)
      PROVE  Settled(s)' \/ cancelled' \/ \E w \in Worker : worker'[w].seq = s /\ Unhandled(w)'
  <2>1. ASSUME NEW w \in Worker, worker[w].seq = s, HandleBlock(w)
        PROVE  Settled(s)'
    <3>1. w \in Underway
      BY <2>1 DEF HandleBlock, Underway, AtWorker
    <3>2. s \in 0 .. taken - 1
      BY <2>1, <3>1 DEF IInv, WorkersOK, Held, ReaderOK, TypeOK
    <3> QED
      BY <1>1, <2>1, <3>2, HandleType DEF HandleBlock, Settled
  <2>2. CASE s \in 0 .. reader.seq - 1
    <3>1. CASE Settled(s) \/ cancelled
      BY <1>1, <1>3, <2>2, <3>1
    <3>2. ASSUME NEW w \in Worker, worker[w].seq = s, Unhandled(w)
          PROVE  Settled(s)' \/ cancelled' \/ (worker'[w].seq = s /\ Unhandled(w)')
      BY <1>1, <2>1, <3>2, UnhandledTo
    <3> QED
      BY <1>7, <2>2, <3>1, <3>2, <1>1 DEF BehindReader
  <2>3. CASE s = reader.seq /\ NextPart /\ reader.at = "submit"
    <3>1. PICK w \in Worker : SubmitBlock(w)
      BY <1>1, <2>3, ReaderFrom DEF NextPart, PassBarrier, JoinWorkers
    <3>2. worker'[w] = [at |-> "took", seq |-> reader.seq]
      BY <1>1, <3>1 DEF SubmitBlock, TypeOK
    <3> QED
      BY <2>3, <3>2 DEF Unhandled
  <2> QED
    BY <1>2, <1>4, <1>7, <2>2, <2>3
<1>8. ASSUME NEW w \in Worker, Unhandled(w)'
      PROVE  verdict'[worker'[w].seq] = "none"
  <2>1. CASE SubmitBlock(w)
    <3>1. worker'[w].seq = reader.seq /\ verdict' = verdict /\ reader.at = "submit"
      BY <1>1, <2>1 DEF SubmitBlock, TypeOK
    <3>2. reader.seq \in DOMAIN verdict
      BY <1>1, <3>1 DEF InHand
    <3> QED
      BY <1>1, <3>1, <3>2 DEF StageInv, VerdictsOK
  <2>2. CASE ~SubmitBlock(w)
    <3> DEFINE s == worker[w].seq
    <3>1. Unhandled(w) /\ worker'[w].seq = s /\ ~HandleBlock(w)
      BY <1>8, <2>2, BusyFrom
    <3>2. w \in Underway /\ s \in Held /\ s < reader.seq
      BY <3>1 DEF Unhandled, Underway, AtWorker, IInv, WorkersOK, Held, TypeOK
    <3>3. verdict[s] = "none" /\ s \in DOMAIN verdict
      BY <1>1, <3>1, <3>2 DEF BehindReader, Held, IInv, TypeOK
    <3>4. ASSUME NEW u \in 0 .. taken - 1, Handle(u), u # s
          PROVE  verdict'[s] = verdict[s]
      BY <1>1, <3>3, <3>4 DEF Handle
    <3>5. \A v \in Underway : HandleBlock(v) => worker[v].seq # s
      BY <3>1, <3>2 DEF IInv, OnePlace
    <3> QED
      BY <1>1, <3>1, <3>2, <3>3, <3>4, <3>5, VerdictsFrom
  <2> QED
    BY <2>1, <2>2
<1>9. ASSUME reader'.at = "handle"
      PROVE  Busy' = {} /\ \A s \in 0 .. reader'.seq - 1 : Settled(s)'
  <2>1. \/ reader' = reader
        \/ PassBarrier /\ ~cancelled /\ reader'.seq = reader.seq
    BY <1>1, <1>9, ReaderFrom DEF NextPart, AfterBarrier, JoinWorkers
  <2>2. Busy = {} /\ \A s \in 0 .. reader.seq - 1 : Settled(s)
    BY <1>1, <1>9, <2>1, BarrierOpens DEF BehindReader
  <2>3. \A w \in Worker : ~SubmitBlock(w)
    BY <1>9, <2>1 DEF SubmitBlock, PassBarrier
  <2>4. Busy' \subseteq Worker
    BY DEF Busy
  <2>5. Busy' = {}
    BY <2>2, <2>3, <2>4, BusyFrom
  <2> QED
    BY <1>1, <1>3, <2>1, <2>2, <2>5
<1>10. \A s : IsBlock(s)' <=> IsBlock(s)
  BY <1>1 DEF IsBlock
<1>11. \A w \in Worker : Unhandled(w)' => (verdict[worker[w].seq] = "none")'
  BY <1>8
<1> QED
  BY <1>1, <1>6, <1>7, <1>9, <1>10, <1>11 DEF BehindReader

LEMMA HeldInDomain ==
    ASSUME IInv
    PROVE  /\ Held \subseteq DOMAIN verdict /\ Held \subseteq 0 .. reader.seq - 1
           /\ reader.at \in InHand => reader.seq \in DOMAIN verdict
BY StreamFacts DEF IInv, TypeOK, ReaderOK, Held

\* A result that is sent says what the handler returned.
LEMMA ResultSays ==
    ASSUME IInv, StageInv, NEW s \in DOMAIN verdict, Settled(s)
    PROVE  /\ Result(s).seq = s
           /\ Result(s).fate = "error" => verdict[s] = "error"
           /\ Result(s).fate # "error" => Result(s).fate = PartAt(s).fate
<1>1. CASE PartAt(s).type = "passed"
  BY <1>1, StreamFacts DEF Result, IInv
<1>2. CASE PartAt(s).type # "passed"
  BY <1>2 DEF Result, Settled, StageInv, VerdictsOK
<1> QED
  BY <1>1, <1>2

LEMMA FatesKept == IInv /\ StageInv /\ [Next]_vars => FatesOK'
<1> SUFFICES ASSUME IInv, StageInv, [Next]_vars PROVE FatesOK'
  OBVIOUS
<1> DEFINE Res == [seq : Nat, fate : {"keep", "drop", "error"}, block : BOOLEAN]
           Good(r) == /\ r.seq \in DOMAIN verdict /\ Settled(r.seq)
                      /\ r.fate = "error" => verdict[r.seq] = "error"
                      /\ r.fate # "error" => r.fate = PartAt(r.seq).fate
<1>1. \A i \in DOMAIN results : Good(results[i])
  BY HeldInDomain DEF IInv, ResultsOK, StageInv, FatesOK
<1>2. \A i \in DOMAIN results' : Good(results'[i])
  <2>1. results \in Seq(Res)
    BY DEF IInv, TypeOK
  <2> HIDE DEF Res, Good
  <2>2. ASSUME NEW s, Good(Result(s)), results' = Append(results, Result(s))
        PROVE  \A i \in DOMAIN results' : Good(results'[i])
    <3>1. results \in Seq(Res \cup {Result(s)})
      BY <2>1, LongerAlphabet
    <3>2. Len(results) \in Nat /\ DOMAIN results = 1 .. Len(results)
      BY <2>1, LenProperties
    <3>3. /\ DOMAIN results' = 1 .. Len(results) + 1
          /\ \A i \in 1 .. Len(results) : results'[i] = results[i]
          /\ results'[Len(results) + 1] = Result(s)
      BY <2>2, <3>1, AppendProperties, LenProperties
    <3>4. \A i \in DOMAIN results' : i \in DOMAIN results \/ i = Len(results) + 1
      BY <3>2, <3>3
    <3> QED
      BY <1>1, <2>2, <3>2, <3>3, <3>4
  <2>3. CASE results' = results
    BY <1>1, <2>3
  <2>4. CASE results # <<>> /\ results' = Tail(results)
    <3>1. \A i \in DOMAIN results' : i + 1 \in DOMAIN results /\ results'[i] = results[i + 1]
      BY <2>1, <2>4, HeadTailProperties, LenProperties
    <3> QED
      BY <1>1, <3>1
  <2>5. CASE PutPart /\ results' = Append(results, Result(reader.seq))
    <3>1. reader.seq \in DOMAIN verdict /\ Settled(reader.seq)
      BY <2>5, HeldInDomain DEF PutPart, InHand, IInv, ReaderOK, Settled
    <3>2. Good(Result(reader.seq))
      BY <3>1, ResultSays DEF Good
    <3> QED
      BY <2>2, <2>5, <3>2
  <2>6. ASSUME NEW w \in Underway, PutResult(w), results' = Append(results, Result(worker[w].seq))
        PROVE  \A i \in DOMAIN results' : Good(results'[i])
    <3>1. worker[w].seq \in DOMAIN verdict /\ Settled(worker[w].seq)
      BY <2>6, HeldInDomain DEF PutResult, IInv, WorkersOK, Settled
    <3>2. Good(Result(worker[w].seq))
      BY <3>1, ResultSays DEF Good
    <3> QED
      BY <2>2, <2>6, <3>2
  <2> QED
    BY <2>3, <2>4, <2>5, <2>6, ResultsFrom
<1>3. \A k \in DOMAIN pending' : pending'[k] # Empty =>
        Good(pending'[k]) /\ pending'[k].fate # "error"
  <2>1. \A k \in DOMAIN pending : pending[k] # Empty => Good(pending[k]) /\ pending[k].fate # "error"
    <3>1. ASSUME NEW k \in DOMAIN pending, pending[k] # Empty
          PROVE  pending[k].fate # "error" /\ pending[k].seq \in DOMAIN verdict
      <4>1. pending[k] \in [seq : Nat, fate : {"keep", "drop"}, block : BOOLEAN]
        BY <3>1 DEF IInv, TypeOK
      <4> QED
        BY <3>1, <4>1, HeldInDomain DEF IInv, RingOK
    <3> QED
      BY <3>1 DEF StageInv, FatesOK
  <2>2. results # <<>> => 1 \in DOMAIN results /\ Head(results) = results[1]
    BY DEF IInv, TypeOK
  <2>3. DOMAIN pending' = DOMAIN pending
    BY RingFrom
  <2>4. \A k \in DOMAIN pending' :
           \/ pending'[k] = pending[k]
           \/ pending'[k] = Empty
           \/ results # <<>> /\ Head(results).fate # "error" /\ pending'[k] = Head(results)
    BY RingFrom
  <2> HIDE DEF Good
  <2> QED
    BY <1>1, <2>1, <2>2, <2>3, <2>4
<1>4. \A s \in DOMAIN verdict :
        /\ Settled(s) => Settled(s)'
        /\ verdict[s] = "error" => verdict'[s] = "error"
  BY SettledStays, VerdictsFixed
<1>5. \A s : PartAt(s)' = PartAt(s)
  BY VerdictsFixed
<1>6. ASSUME NEW i \in DOMAIN results'
      PROVE  /\ Settled(results[i].seq)'
             /\ results'[i].fate = "error" => verdict'[results'[i].seq] = "error"
             /\ results'[i].fate # "error" => results'[i].fate = PartAt(results[i].seq)'.fate
  <2>1. Good(results'[i])
    BY <1>2
  <2>2. PartAt(results[i].seq)' = PartAt(results'[i].seq)
    BY StreamStays DEF PartAt
  <2> QED
    BY <1>4, <2>1, <2>2 DEF Settled
<1>7. ASSUME NEW k \in DOMAIN pending', pending'[k] # Empty
      PROVE  /\ Settled(pending[k].seq)'
             /\ pending'[k].fate = PartAt(pending[k].seq)'.fate
  <2>1. Good(pending'[k]) /\ pending'[k].fate # "error"
    BY <1>3, <1>7
  <2>2. PartAt(pending[k].seq)' = PartAt(pending'[k].seq)
    BY StreamStays DEF PartAt
  <2> QED
    BY <1>4, <2>1, <2>2 DEF Settled
<1>8. Empty' = Empty
  BY DEF Empty
<1> QED
  BY <1>6, <1>7, <1>8 DEF FatesOK

\* Who has a position keeps it, or hands it on, unless it is lost with the
\* context or the emitter.
LEMMA WorkerHandsOn ==
    ASSUME IInv, [Next]_vars, NEW w \in Underway, ~cancelled
    PROVE  \/ w \in Underway' /\ worker'[w].seq = worker[w].seq
           \/ PutResult(w)
<1>1. TypeOK /\ w \in Worker /\ worker[w] # Idle /\ worker[w].at \notin {"counted", "idle", "gone"}
  BY DEF IInv, Underway, AtWorker, Idle
<1>2. CASE worker'[w] = worker[w]
  BY <1>2 DEF Underway
<1>3. ASSUME NEW v \in Worker, v # w, worker'[w] # worker[w], WorkerStep(v) \/ SubmitBlock(v)
      PROVE  FALSE
  BY <1>1, <1>3, WorkerGoesOn DEF WorkerStep, TakeJob, HandleBlock, PutResult, DropResult, CountDone,
     LeavePool, SubmitBlock, TypeOK
<1>4. CASE TakeJob(w) \/ HandleBlock(w)
  BY <1>1, <1>4, WorkerGoesOn DEF TakeJob, HandleBlock, Underway, AtWorker
<1>5. CASE DropResult(w) \/ CountDone(w) \/ LeavePool(w) \/ SubmitBlock(w)
  BY <1>1, <1>5 DEF DropResult, CountDone, LeavePool, SubmitBlock
<1>6. CASE \/ ReadPart \/ InputClosed \/ AcquirePermit \/ TradePermit \/ PassBarrier \/ HandlePart
           \/ PutPart \/ ReaderStops \/ JoinWorkers
           \/ SendPart \/ EmitterStep \/ Cancel \/ Finished \/ UNCHANGED vars
  <2>1. worker' = worker
    BY <1>6 DEF ReadPart, InputClosed, AcquirePermit, TradePermit, PassBarrier, HandlePart, PutPart,
                ReaderStops, JoinWorkers, SendPart, EmitterStep, Receive, SkipDropped,
                ReleasePermit, ResultsClosed, EmitterStops, CancelRest, Return, Cancel, Finished, vars
  <2> QED
    BY <1>2, <2>1
<1> QED
  BY <1>2, <1>3, <1>4, <1>5, <1>6 DEF Next, ReaderStep, WorkerStep

\* A result is appended to results, which keeps the others.
LEMMA Appended ==
    ASSUME IInv, NEW s, results' = Append(results, Result(s))
    PROVE  /\ \E i \in DOMAIN results' : results'[i].seq = s
           /\ \A i \in DOMAIN results : i \in DOMAIN results' /\ results'[i] = results[i]
<1> DEFINE Res == [seq : Nat, fate : {"keep", "drop", "error"}, block : BOOLEAN]
<1>1. results \in Seq(Res)
  BY DEF IInv, TypeOK
<1> HIDE DEF Res
<1>2. results \in Seq(Res \cup {Result(s)})
  BY <1>1, LongerAlphabet
<1>3. Len(results) \in Nat /\ DOMAIN results = 1 .. Len(results)
  BY <1>1, LenProperties
<1>4. /\ DOMAIN results' = 1 .. Len(results) + 1
      /\ \A i \in 1 .. Len(results) : results'[i] = results[i]
      /\ results'[Len(results) + 1] = Result(s)
  BY <1>2, AppendProperties, LenProperties
<1>5. Result(s).seq = s
  BY ResultIs
<1> QED
  BY <1>3, <1>4, <1>5

LEMMA ResultHandsOn ==
    ASSUME IInv, [Next]_vars, NEW i \in DOMAIN results
    PROVE  \/ \E j \in DOMAIN results' : results'[j].seq = results[i].seq
           \/ Receive /\ results[i] = Head(results)
<1> DEFINE Res == [seq : Nat, fate : {"keep", "drop", "error"}, block : BOOLEAN]
<1>1. results \in Seq(Res)
  BY DEF IInv, TypeOK
<1> HIDE DEF Res
<1>2. CASE results' = results
  BY <1>2
<1>3. CASE Receive /\ results # <<>> /\ results' = Tail(results)
  <2>1. Len(results) \in Nat /\ DOMAIN results = 1 .. Len(results) /\ Head(results) = results[1]
    BY <1>1, <1>3, LenProperties
  <2>2. /\ results' \in Seq(Res) /\ Len(results') = Len(results) - 1
        /\ \A j \in 1 .. Len(results') : results'[j] = results[j + 1]
    BY <1>1, <1>3, HeadTailProperties
  <2>3. DOMAIN results' = 1 .. Len(results')
    BY <2>2, LenProperties
  <2>4. i # 1 => i - 1 \in DOMAIN results' /\ results'[i - 1] = results[(i - 1) + 1] /\ (i - 1) + 1 = i
    BY <2>1, <2>2, <2>3
  <2> QED
    BY <1>3, <2>1, <2>4
<1>4. CASE \E s : results' = Append(results, Result(s))
  BY <1>4, Appended
<1> QED
  BY <1>2, <1>3, <1>4, ResultsFrom

LEMMA NothingLostKept == IInv /\ StageInv /\ [Next]_vars => NothingLost'
<1> SUFFICES ASSUME IInv, StageInv, [Next]_vars, ~cancelled', Emitting', NEW s \in Held'
             PROVE  Somewhere(s)'
  BY DEF NothingLost
<1>1. ~cancelled
  BY CancelledStays
<1>2. Emitting
  BY DEF Next, ReaderStep, WorkerStep, EmitterStep, ReadPart, InputClosed, AcquirePermit,
         TradePermit, PassBarrier, HandlePart, PutPart, ReaderStops, JoinWorkers, SubmitBlock,
         TakeJob, HandleBlock, PutResult, DropResult, CountDone, LeavePool, SendPart, Receive, Leave,
         Waiting, SkipDropped, ReleasePermit, ResultsClosed, EmitterStops, CancelRest, Return, Cancel,
         Finished, vars, Emitting
<1>3. ASSUME NEW w \in Underway, PutResult(w)
      PROVE  \E i \in DOMAIN results' : results'[i].seq = worker[w].seq
  BY <1>3, Appended DEF PutResult
<1>4. ASSUME Receive
      PROVE  /\ results # <<>> /\ Head(results) = results[1] /\ 1 \in DOMAIN results
             /\ \E k \in DOMAIN pending' : pending'[k].seq = Head(results).seq
             /\ \A k \in DOMAIN pending : pending[k] # Empty => pending'[k] = pending[k]
  <2>1. results # <<>> /\ Head(results) = results[1] /\ 1 \in DOMAIN results
    BY <1>4 DEF Receive, IInv, TypeOK
  <2>2. Head(results).fate # "error"
    BY <1>4 DEF Receive, Leave, Emitting
  <2>3. pending' = [pending EXCEPT ![Slot(Head(results).seq)] = Head(results)]
    BY <1>4, <2>2 DEF Receive
  <2>4. Head(results).seq \in Coming
    BY <2>1 DEF Coming
  <2>5. pending[Slot(Head(results).seq)] = Empty
    BY <2>4, ComingFits
  <2>6. Slot(Head(results).seq) \in DOMAIN pending
    <3>1. Head(results).seq \in Nat
      BY <2>1 DEF IInv, ResultsOK, Held, TypeOK
    <3> QED
      BY <3>1, SlotInRing DEF IInv, TypeOK
  <2> QED
    BY <2>1, <2>3, <2>5, <2>6
<1>5. CASE s \in Held /\ (ReleasePermit => s # nextSeq)
  <2>1. Somewhere(s)
    BY <1>1, <1>2, <1>5 DEF StageInv, NothingLost
  <2>2. ASSUME NEW w \in Underway, worker[w].seq = s
        PROVE  Somewhere(s)'
    BY <1>1, <1>3, <2>2, WorkerHandsOn DEF Somewhere
  <2>3. ASSUME NEW i \in DOMAIN results, results[i].seq = s
        PROVE  Somewhere(s)'
    BY <1>4, <2>3, ResultHandsOn DEF Somewhere
  <2>4. ASSUME NEW k \in DOMAIN pending, pending[k].seq = s
        PROVE  Somewhere(s)'
    <3>1. pending[k] # Empty /\ DOMAIN pending' = DOMAIN pending
      BY <1>5, <2>4, RingFrom DEF Empty, Held, IInv, TypeOK
    <3>2. pending'[k] = pending[k]
      <4>1. CASE Receive
        BY <1>4, <3>1, <4>1
      <4>2. CASE ReleasePermit
        <5>1. NextSlot.seq = nextSeq
          BY <4>2, NextSlotIsNext DEF ReleasePermit, IInv, EmitterOK
        <5>2. k # Slot(nextSeq)
          BY <1>5, <2>4, <4>2, <5>1 DEF NextSlot
        <5> QED
          BY <4>2, <5>2 DEF ReleasePermit, IInv, TypeOK
      <4> QED
        BY <4>1, <4>2, RingFrom
    <3> QED
      BY <2>4, <3>1, <3>2 DEF Somewhere
  <2> QED
    BY <2>1, <2>2, <2>3, <2>4 DEF Somewhere
<1>6. CASE s \notin Held \/ (ReleasePermit /\ s = nextSeq)
  <2>1. ~ReleasePermit
    BY <1>6, HeldShrinks DEF ReleasePermit
  <2>2. s = reader.seq /\ NextPart /\ reader.at \in {"put", "submit"}
    <3>1. nextSeq' = nextSeq
      BY <2>1, HeldStays
    <3>2. reader'.seq # reader.seq
      BY <1>6, <2>1, <3>1 DEF Held
    <3>3. NextPart /\ reader.at \in {"put", "submit"}
      BY <3>2, ReaderFrom, ReaderGoesOn DEF PassBarrier, JoinWorkers, IInv
    <3> QED
      BY <1>6, <2>1, <3>1, <3>3 DEF NextPart, Held, IInv, TypeOK
  <2>3. CASE reader.at = "put"
    <3>1. PutPart
      BY <2>2, <2>3, ResultsFrom, <1>1, SMTT(30) DEF Next, ReaderStep, WorkerStep, EmitterStep, ReadPart, InputClosed, AcquirePermit,
         TradePermit, PassBarrier, HandlePart, ReaderStops, JoinWorkers, SubmitBlock, NextPart, IInv, TypeOK,
         TakeJob, HandleBlock, PutResult, DropResult, CountDone, LeavePool, SendPart, Receive,
         SkipDropped, ReleasePermit, ResultsClosed, EmitterStops, CancelRest, Return, Cancel,
         Finished, vars
    <3> QED
      BY <2>2, <3>1, Appended DEF PutPart, Somewhere
  <2>4. CASE reader.at = "submit"
    <3>1. PICK w \in Worker : SubmitBlock(w)
      BY <2>2, <2>4, ReaderFrom DEF NextPart, PassBarrier, JoinWorkers, IInv, TypeOK
    <3>2. worker'[w] = [at |-> "took", seq |-> reader.seq]
      BY <3>1 DEF SubmitBlock, IInv, TypeOK
    <3> QED
      BY <2>2, <3>2 DEF Somewhere, Underway, AtWorker
  <2> QED
    BY <2>2, <2>3, <2>4
<1> QED
  BY <1>5, <1>6

LEMMA EndKept == IInv /\ StageInv /\ [Next]_vars => EndOK'
<1> SUFFICES ASSUME IInv, StageInv, [Next]_vars PROVE EndOK'
  OBVIOUS
<1>1. EndOK /\ TypeOK /\ ReaderOK /\ (cancelled => cancelled') /\ stream' = stream
  BY CancelledStays, StreamStays DEF StageInv, IInv
<1>2. reader.at \in {"closing", "done"} =>
        /\ reader'.at \in {"closing", "done"} /\ reader'.seq = reader.seq /\ taken' = taken
        /\ reader.at = "done" => reader' = reader /\ worker' = worker
  <2>1. ASSUME NEW w \in Worker, WorkerStep(w)
        PROVE  reader' = reader /\ taken' = taken /\ reader.at # "done"
    BY <1>1, <2>1 DEF EndOK, WorkerStep, TakeJob, HandleBlock, PutResult, DropResult, CountDone,
       LeavePool, Idle
  <2>2. CASE JoinWorkers
    BY <1>1, <2>2, ReaderGoesOn DEF JoinWorkers
  <2>3. CASE \/ SendPart \/ EmitterStep \/ Cancel \/ Finished \/ UNCHANGED vars
    BY <2>3 DEF SendPart, EmitterStep, Receive, SkipDropped, ReleasePermit, ResultsClosed,
                EmitterStops, CancelRest, Return, Cancel, Finished, vars
  <2> QED
    BY <2>1, <2>2, <2>3 DEF Next, ReaderStep, ReadPart, InputClosed, AcquirePermit, TradePermit,
       PassBarrier, HandlePart, PutPart, ReaderStops, Selects, SubmitBlock
<1>3. (reader.at = "done" => \A w \in Worker : worker[w].at = "gone")'
  <2>1. CASE reader.at = "done"
    BY <1>1, <1>2, <2>1 DEF EndOK
  <2>2. CASE reader.at # "done" /\ reader'.at = "done"
    <3>1. JoinWorkers
      BY <1>1, <2>2, ReaderFrom DEF NextPart, PassBarrier, AfterBarrier
    <3> QED
      BY <3>1 DEF JoinWorkers
  <2> QED
    BY <2>1, <2>2
<1>4. (reader.at \in {"closing", "done"} => cancelled \/ (taken = Len(stream) /\ reader.seq = taken))'
  <2>1. CASE reader.at \in {"closing", "done"}
    BY <1>1, <1>2, <2>1 DEF EndOK
  <2>2. CASE reader.at \notin {"closing", "done"} /\ reader'.at \in {"closing", "done"}
    <3>1. cancelled \/ (InputClosed /\ reader'.seq = reader.seq)
      BY <1>1, <2>2, ReaderFrom DEF NextPart, PassBarrier, AfterBarrier, JoinWorkers
    <3> QED
      BY <1>1, <3>1 DEF InputClosed, ReaderOK
  <2> QED
    BY <2>1, <2>2
<1>5. (emitter = "returned" => reader.at = "done")'
  <2>1. emitter' = "returned" => reader.at = "done"
    BY <1>1 DEF EndOK, Next, ReaderStep, WorkerStep, EmitterStep, ReadPart, InputClosed, AcquirePermit,
       TradePermit, PassBarrier, HandlePart, PutPart, ReaderStops, JoinWorkers, SubmitBlock,
       TakeJob, HandleBlock, PutResult, DropResult, CountDone, LeavePool, SendPart, Receive, Leave,
       SkipDropped, ReleasePermit, ResultsClosed, EmitterStops, CancelRest, Return, Cancel,
       Finished, vars
  <2> QED
    BY <1>2, <2>1
<1>6. (Emitting => ctx # "stopped" /\ outcome = "running")' /\ (~Emitting => outcome # "running")'
  <2>1. CASE Receive \/ ResultsClosed \/ EmitterStops
    BY <1>1, <2>1 DEF Receive, ResultsClosed, EmitterStops, Leave, Waiting, EndOK, Emitting
  <2>2. CASE SendPart \/ SkipDropped \/ ReleasePermit \/ CancelRest \/ Return \/ Cancel
    BY <1>1, <2>2 DEF SendPart, SkipDropped, ReleasePermit, CancelRest, Return, Cancel, EndOK, Emitting
  <2>3. CASE UNCHANGED <<emitter, ctx, outcome>>
    BY <1>1, <2>3 DEF EndOK, Emitting
  <2> QED
    BY <2>1, <2>2, <2>3 DEF Next, ReaderStep, WorkerStep, EmitterStep, ReadPart, InputClosed,
       AcquirePermit, TradePermit, PassBarrier, HandlePart, PutPart, ReaderStops, JoinWorkers,
       SubmitBlock, TakeJob, HandleBlock, PutResult, DropResult, CountDone, LeavePool, Finished, vars
<1> QED
  BY <1>3, <1>4, <1>5, <1>6 DEF EndOK

\* At the end everything held has been emitted.
LEMMA AllEmitted ==
    ASSUME IInv, StageInv, ResultsClosed, ~cancelled
    PROVE  nextSeq = Len(stream)
<1>1. reader.at = "done" /\ results = <<>> /\ NextSlot = Empty /\ Emitting
  BY DEF ResultsClosed, Waiting, Emitting
<1>2. Underway = {} /\ reader.seq = Len(stream)
  BY <1>1 DEF StageInv, EndOK, Underway, AtWorker
<1>3. nextSeq \in Nat /\ reader.seq \in Nat /\ nextSeq <= reader.seq /\ DOMAIN results = {}
  BY <1>1 DEF IInv, TypeOK, HeldFits
<1>4. ASSUME nextSeq < reader.seq
      PROVE  FALSE
  <2>1. nextSeq \in Held
    BY <1>3, <1>4 DEF Held
  <2>2. PICK k \in DOMAIN pending : pending[k].seq = nextSeq
    BY <1>1, <1>2, <1>3, <2>1 DEF StageInv, NothingLost, Somewhere
  <2>3. pending[k] # Empty
    BY <1>3, <2>2 DEF Empty
  <2>4. k = Slot(nextSeq)
    BY <2>2, <2>3 DEF IInv, RingOK
  <2> QED
    BY <1>1, <2>3, <2>4 DEF NextSlot
<1> QED
  BY <1>2, <1>3, <1>4

LEMMA OutcomeKept == IInv /\ StageInv /\ [Next]_vars => OutcomeOK'
<1> SUFFICES ASSUME IInv, StageInv, [Next]_vars PROVE OutcomeOK'
  OBVIOUS
<1>1. TypeOK /\ EndOK /\ OutcomeOK /\ VerdictsOK /\ stream' = stream
  BY StreamStays DEF IInv, StageInv
<1>2. (ctx = "calledOff" => ctx' = "calledOff") /\ (outcome # "running" => nextSeq' = nextSeq)
  BY <1>1 DEF EndOK, Emitting, Next, ReaderStep, WorkerStep, EmitterStep, ReadPart, InputClosed,
     AcquirePermit, TradePermit, PassBarrier, HandlePart, PutPart, ReaderStops, JoinWorkers,
     SubmitBlock, TakeJob, HandleBlock, PutResult, DropResult, CountDone, LeavePool, SendPart,
     Receive, SkipDropped, ReleasePermit, ResultsClosed, EmitterStops, CancelRest, Return, Cancel,
     Finished, vars
<1>3. CASE outcome' = outcome
  <2>1. \A s \in DOMAIN verdict : verdict[s] = "error" /\ PartAt(s).fate = "error" =>
          s \in DOMAIN verdict' /\ verdict'[s] = "error" /\ PartAt(s)'.fate = "error"
    BY VerdictsFixed
  <2> QED
    BY <1>1, <1>2, <1>3, <2>1 DEF OutcomeOK
<1>4. CASE ResultsClosed \/ EmitterStops
  <2>1. ctx # "stopped" /\ ctx' = ctx /\ nextSeq' = nextSeq
    BY <1>1, <1>4 DEF ResultsClosed, EmitterStops, Waiting, EndOK, Emitting
  <2>2. \/ outcome' = "ok" /\ ResultsClosed /\ ~cancelled
        \/ outcome' = "cancelled" /\ cancelled
    BY <1>4 DEF ResultsClosed, EmitterStops, Leave
  <2> QED
    BY <1>1, <2>1, <2>2, AllEmitted DEF OutcomeOK, cancelled, TypeOK
<1>5. CASE Receive /\ outcome' # outcome
  <2>1. /\ outcome' = "error" /\ Head(results).fate = "error" /\ results # <<>>
        /\ ctx # "stopped" /\ ctx' = ctx /\ verdict' = verdict
    BY <1>1, <1>5 DEF Receive, Leave, Waiting, EndOK, Emitting
  <2>2. 1 \in DOMAIN results /\ Head(results) = results[1]
    BY <1>1, <2>1 DEF TypeOK
  <2>3. results[1].seq \in DOMAIN verdict /\ verdict[results[1].seq] = "error"
    BY <2>1, <2>2, HeldInDomain DEF IInv, ResultsOK, StageInv, FatesOK
  <2>4. ctx = "calledOff" \/ PartAt(results[1].seq).fate = "error"
    BY <1>1, <2>1, <2>3 DEF VerdictsOK, cancelled, TypeOK
  <2>5. PartAt(results[1].seq).fate = "error" =>
          \E s \in DOMAIN verdict' : verdict'[s] = "error" /\ PartAt(s)'.fate = "error"
    BY <2>1, <2>3, VerdictsFixed
  <2>6. outcome' = "error" /\ (ctx' = "calledOff"
          \/ \E s \in DOMAIN verdict' : verdict'[s] = "error" /\ PartAt(s)'.fate = "error")
    BY <2>1, <2>4, <2>5
  <2> QED
    BY <2>6 DEF OutcomeOK
<1>6. outcome' = outcome \/ ResultsClosed \/ EmitterStops \/ Receive
  BY DEF Next, ReaderStep, WorkerStep, EmitterStep, ReadPart, InputClosed,
     AcquirePermit, TradePermit, PassBarrier, HandlePart, PutPart, ReaderStops, JoinWorkers,
     SubmitBlock, TakeJob, HandleBlock, PutResult, DropResult, CountDone, LeavePool, SendPart,
     SkipDropped, ReleasePermit, CancelRest, Return, Cancel, Finished, vars
<1> QED
  BY <1>3, <1>4, <1>5, <1>6

LEMMA StageInductive == Spec => [](IInv /\ StageInv)
<1>1. Init => IInv /\ StageInv
  BY InitInv, InitStage
<1>2. IInv /\ StageInv /\ [Next]_vars => StageInv'
  BY VerdictsKept, BehindKept, FatesKept, NothingLostKept, EndKept, OutcomeKept DEF StageInv
<1> QED
  BY <1>1, <1>2, Inductive, PTL DEF Spec

----------------------------------------------------------------------------
(* The steps, seen from outside *)

Handling == {worker[w].seq : w \in {v \in Worker : worker[v].at = "handling"}}
              \cup (IF reader.at = "handle" THEN {reader.seq} ELSE {})

Handled == {s \in DOMAIN verdict : verdict[s] # "none"}

PassedOn == IF emitter = "release" THEN nextSeq + 1 ELSE nextSeq

Reported == IF emitter = "returned" THEN outcome ELSE "running"

CalledOff == ctx = "calledOff"

LEMMA InHandling ==
    \A s : s \in Handling <=> \/ \E w \in Worker : worker[w].at = "handling" /\ worker[w].seq = s
                              \/ reader.at = "handle" /\ reader.seq = s
BY DEF Handling

\* The stage counts its blocks as the tool does.
LEMMA SameCount == \A S : Stage!Cardinality(S) = Cardinality(S)
BY DEF Stage!Cardinality, Cardinality

LEMMA InitMaps == Init => Stage!Init
<1> SUFFICES ASSUME Init PROVE Stage!Init
  OBVIOUS
<1>1. Handling = {}
  BY DEF Init, Handling, Idle
<1>2. Handled = {} /\ PassedOn = 0 /\ Reported = "running" /\ CalledOff = FALSE
  BY DEF Init, Handled, PassedOn, Reported, CalledOff
<1> QED
  BY <1>1, <1>2 DEF Init, Stage!Init, Handling, Handled, PassedOn, Reported, CalledOff

\* Once Process has returned nothing runs.
LEMMA NothingRunsOn ==
    ASSUME IInv, StageInv, emitter = "returned"
    PROVE  /\ reader.at = "done" /\ Handling = {}
           /\ \A w \in Worker : worker[w].at = "gone"
<1>1. reader.at = "done" /\ \A w \in Worker : worker[w].at = "gone"
  BY DEF StageInv, EndOK
<1> QED
  BY <1>1, InHandling

LEMMA StutterMaps ==
    ASSUME stream' = stream, taken' = taken, Handling' = Handling, verdict' = verdict,
           PassedOn' = PassedOn, out' = out, CalledOff' = CalledOff, Reported' = Reported
    PROVE  UNCHANGED Stage!vars
<1>1. Handled' = Handled
  BY DEF Handled
<1> QED
  BY <1>1 DEF Stage!vars, Handling, Handled, PassedOn, Reported, CalledOff

\* What has been passed on is held by nobody, and lies behind the reader.
LEMMA PassedBehind ==
    ASSUME IInv
    PROVE  /\ PassedOn \in Nat /\ nextSeq <= PassedOn /\ PassedOn <= reader.seq
           /\ \A w \in Underway : worker[w].seq >= PassedOn
<1>1. nextSeq \in Nat /\ reader.seq \in Nat /\ nextSeq <= reader.seq
  BY DEF IInv, TypeOK, HeldFits
<1>2. \A w \in Underway : worker[w].seq \in Held
  BY DEF IInv, WorkersOK
<1>3. CASE emitter = "release"
  <2>1. NextSlot # Empty /\ NextSlot.seq = nextSeq /\ Slot(nextSeq) \in DOMAIN pending
    BY <1>1, <1>3, NextSlotIsNext, SlotInRing DEF IInv, EmitterOK, TypeOK
  <2>2. nextSeq \in Held
    BY <2>1 DEF IInv, RingOK, NextSlot
  <2>3. \A w \in Underway : worker[w].seq # nextSeq
    BY <2>1 DEF IInv, OnePlace, NextSlot
  <2> QED
    BY <1>1, <1>2, <1>3, <2>2, <2>3 DEF PassedOn, Held
<1>4. CASE emitter # "release"
  BY <1>1, <1>2, <1>4 DEF PassedOn, Held
<1> QED
  BY <1>3, <1>4

LEMMA TakeMaps == IInv /\ StageInv /\ ReadPart => Stage!Next
<1> SUFFICES ASSUME IInv, StageInv, ReadPart PROVE Stage!Next
  OBVIOUS
<1>1. TypeOK /\ reader.at = "read" /\ taken = reader.seq /\ reader.seq \in Nat
  BY DEF ReadPart, IInv, ReaderOK, TypeOK
<1>2. Reported = "running"
  BY <1>1, NothingRunsOn DEF Reported
<1>3. taken - PassedOn < RingSize
  <2>1. reader.seq + 1 <= nextSeq + RingSize /\ nextSeq \in Nat
    BY <1>1 DEF IInv, HeldFits, TypeOK
  <2> QED
    BY <1>1, <2>1, PassedBehind, Sizes
<1>4. Cardinality({s \in PassedOn .. taken - 1 : PartAt(s).type = "block"}) < BlockCap
  <2> DEFINE B == {s \in PassedOn .. taken - 1 : PartAt(s).type = "block"}
  <2>1. IsFiniteSet(HeldBlocks) /\ Cardinality(HeldBlocks) \in Nat
    BY <1>1, HeldSizes DEF IInv
  <2>2. B \subseteq HeldBlocks
    BY <1>1, PassedBehind DEF HeldBlocks, Held, IsBlock, IInv, TypeOK
  <2>3. Cardinality(B) <= Cardinality(HeldBlocks) /\ Cardinality(B) \in Nat
    BY <2>1, <2>2, FS_Subset, FS_CardinalityType
  <2>4. blockWindow = Cardinality(HeldBlocks) + 1 /\ blockWindow \in Nat /\ blockWindow <= BlockCap
    <3>1. WindowsMatch
      BY PermitsAreWindows DEF IInv
    <3> QED
      BY <1>1, <3>1, Sizes DEF WindowsMatch, TypeOK
  <2> QED
    BY <2>1, <2>3, <2>4, Sizes
<1>5. Handling' = Handling
  <2>1. reader'.at # "handle" /\ reader.at # "handle" /\ worker' = worker
    BY <1>1, ReaderGoesOn DEF ReadPart
  <2> QED
    BY <2>1 DEF Handling
<1>6. /\ taken < Len(stream) /\ taken' = taken + 1
      /\ UNCHANGED <<stream, Handling, Handled, PassedOn, out, CalledOff, Reported>>
  BY <1>5 DEF ReadPart, Handled, PassedOn, CalledOff, Reported
<1>7. Stage!Take
  BY <1>3, <1>4, <1>6, SameCount DEF Stage!Take, Stage!HeldBlocks, Stage!PartAt, PartAt,
     Handling, Handled, PassedOn, Reported, CalledOff
<1> QED
  BY <1>2, <1>7 DEF Stage!Next, Reported

\* A handler that ends leaves the others running, and a verdict.
LEMMA HandledBy ==
    ASSUME IInv, NEW s \in DOMAIN verdict, Handle(s)
    PROVE  Handled' = Handled \cup {s}
<1>1. PartAt(s).fate \in {"keep", "drop", "error"}
  BY StreamFacts DEF IInv
<1>2. /\ DOMAIN verdict' = DOMAIN verdict /\ verdict'[s] # "none"
      /\ \A u \in DOMAIN verdict : u # s => verdict'[u] = verdict[u]
  BY <1>1 DEF Handle, IInv, TypeOK
<1> QED
  BY <1>2 DEF Handled

\* Only Handling and Handled move when a handler ends.
LEMMA EndMaps ==
    ASSUME IInv, StageInv, NEW s \in 0 .. taken - 1, s \in Handling, Reported = "running",
           Handling' = Handling \ {s}, Handled' = Handled \cup {s},
           UNCHANGED <<stream, taken, PassedOn, out, CalledOff, Reported>>
    PROVE  Stage!Next
<1>1. Stage!End(s)
  BY DEF Stage!End, Handling, Handled, PassedOn, Reported, CalledOff
<1> QED
  BY <1>1 DEF Stage!Next, Reported

LEMMA HandlePartMaps == IInv /\ StageInv /\ HandlePart => Stage!Next
<1> SUFFICES ASSUME IInv, StageInv, HandlePart PROVE Stage!Next
  OBVIOUS
<1> DEFINE s == reader.seq
<1>1. TypeOK /\ reader.at = "handle" /\ Busy = {} /\ worker' = worker
  BY DEF HandlePart, IInv, StageInv, BehindReader
<1>2. s \in 0 .. taken - 1 /\ s \in DOMAIN verdict
  BY <1>1, HeldInDomain DEF IInv, ReaderOK, InHand, TypeOK
<1>3. Reported = "running"
  BY <1>1, NothingRunsOn DEF Reported
<1>4. \A w \in Worker : worker[w].at # "handling"
  BY <1>1 DEF Busy, AtWorker
<1>5. Handling = {s}
  BY <1>1, <1>4 DEF Handling
<1>6. Handling' = {}
  <2>1. reader'.at = "put"
    BY <1>1, ReaderGoesOn DEF HandlePart
  <2> QED
    BY <1>1, <1>4, <2>1 DEF Handling
<1>7. Handled' = Handled \cup {s}
  BY <1>2, HandledBy DEF HandlePart
<1>8. UNCHANGED <<stream, taken, PassedOn, out, CalledOff, Reported>>
  BY DEF HandlePart, PassedOn, CalledOff, Reported
<1> QED
  BY <1>2, <1>3, <1>5, <1>6, <1>7, <1>8, EndMaps

LEMMA HandleBlockMaps ==
    ASSUME IInv, StageInv, NEW w \in Worker, HandleBlock(w)
    PROVE  Stage!Next
<1> DEFINE s == worker[w].seq
<1>1. TypeOK /\ worker[w].at = "handling" /\ w \in Underway /\ w \in Busy
  BY DEF HandleBlock, IInv, Underway, Busy, AtWorker
<1>2. s \in 0 .. taken - 1 /\ s \in DOMAIN verdict
  BY <1>1, HeldInDomain DEF IInv, WorkersOK, Held, ReaderOK, TypeOK
<1>3. Reported = "running"
  BY <1>1, NothingRunsOn DEF Reported
<1>4. reader.at # "handle" /\ reader' = reader
  BY <1>1 DEF StageInv, BehindReader, HandleBlock
<1>5. s \in Handling
  BY <1>1 DEF Handling
<1>6. Handling' = Handling \ {s}
  <2>1. worker'[w].at = "put" /\ \A v \in Worker \ {w} : worker'[v] = worker[v]
    BY <1>1, WorkerGoesOn DEF HandleBlock
  <2>2. \A v \in Worker \ {w} : worker[v].at = "handling" => worker[v].seq # s
    BY <1>1 DEF IInv, OnePlace, Underway, AtWorker
  <2>3. \A u : u \in Handling' <=> \E v \in Worker : worker'[v].at = "handling" /\ worker'[v].seq = u
    BY <1>4 DEF Handling
  <2>4. \A u : u \in Handling <=> \E v \in Worker : worker[v].at = "handling" /\ worker[v].seq = u
    BY <1>4 DEF Handling
  <2>5. \A u : u \in Handling' <=> u \in Handling /\ u # s
    BY <1>1, <2>1, <2>2, <2>3, <2>4
  <2> QED
    BY <2>5
<1>7. Handled' = Handled \cup {s}
  BY <1>2, HandledBy DEF HandleBlock
<1>8. UNCHANGED <<stream, taken, PassedOn, out, CalledOff, Reported>>
  BY DEF HandleBlock, PassedOn, CalledOff, Reported
<1> QED
  BY <1>2, <1>3, <1>5, <1>6, <1>7, <1>8, EndMaps

\* A handler that begins.
LEMMA BeginMaps ==
    ASSUME IInv, StageInv, NEW s \in PassedOn .. taken - 1, s \notin Handling, s \notin Handled,
           \/ /\ PartAt(s).type = "handled" /\ Handling = {}
              /\ \A t \in 0 .. s - 1 : Settled(t)
           \/ /\ IsBlock(s)
              /\ \A t \in 0 .. s - 1 : PartAt(t).type = "handled" => Settled(t)
              /\ \A t \in Handling : IsBlock(t),
           Reported = "running", Handling' = Handling \cup {s},
           UNCHANGED <<stream, taken, verdict, PassedOn, out, CalledOff, Reported>>
    PROVE  Stage!Next
<1>1. s \in 0 .. taken - 1
  BY PassedBehind DEF IInv, TypeOK
<1>2. \A t \in 0 .. s - 1 : Settled(t) <=> PartAt(t).type = "passed" \/ t \in Handled
  <2>1. \A t \in 0 .. s - 1 : t \in DOMAIN verdict
    BY <1>1, StreamFacts DEF IInv, TypeOK
  <2> QED
    BY <2>1 DEF Settled, Handled
<1>3. \A t : Stage!PartAt(t) = PartAt(t)
  BY DEF Stage!PartAt, PartAt
<1>4. \A t : Stage!Settled(t) <=> PartAt(t).type = "passed" \/ t \in Handled
  BY <1>3 DEF Stage!Settled, Handled
<1>5. Stage!BeginStructural(s) \/ Stage!BeginBlock(s)
  <2>1. CASE /\ PartAt(s).type = "handled" /\ Handling = {}
             /\ \A t \in 0 .. s - 1 : Settled(t)
    <3>1. Stage!BeginStructural(s)
      BY <1>2, <1>3, <1>4, <2>1 DEF Stage!BeginStructural, Handling
    <3> QED
      BY <3>1
  <2>2. CASE /\ IsBlock(s)
             /\ \A t \in 0 .. s - 1 : PartAt(t).type = "handled" => Settled(t)
             /\ \A t \in Handling : IsBlock(t)
    <3>1. Stage!BeginBlock(s)
      BY <1>2, <1>3, <1>4, <2>2 DEF Stage!BeginBlock, Handling, IsBlock
    <3> QED
      BY <3>1
  <2> QED
    BY <2>1, <2>2
<1>6. Handled' = Handled
  BY DEF Handled
<1>7. Stage!Begin(s)
  BY <1>5, <1>6 DEF Stage!Begin, Handling, Handled, PassedOn, Reported, CalledOff
<1> QED
  BY <1>1, <1>7 DEF Stage!Next, Reported

LEMMA TakeJobMaps ==
    ASSUME IInv, StageInv, NEW w \in Worker, TakeJob(w)
    PROVE  Stage!Next \/ UNCHANGED Stage!vars
<1> DEFINE s == worker[w].seq
<1>1. TypeOK /\ worker[w].at = "took" /\ w \in Underway /\ w \in Busy /\ Unhandled(w)
  BY DEF TakeJob, IInv, Underway, Busy, AtWorker, Unhandled
<1>2. reader.at # "handle" /\ reader' = reader
  BY <1>1 DEF StageInv, BehindReader, TakeJob
<1>3. \A v \in Worker \ {w} : worker'[v] = worker[v]
  BY <1>1, WorkerGoesOn DEF TakeJob
<1>4. UNCHANGED <<stream, taken, verdict, PassedOn, out, CalledOff, Reported>>
  BY DEF TakeJob, PassedOn, CalledOff, Reported
<1>5. /\ \A u : u \in Handling' <=> \E v \in Worker : worker'[v].at = "handling" /\ worker'[v].seq = u
      /\ \A u : u \in Handling <=> \E v \in Worker : worker[v].at = "handling" /\ worker[v].seq = u
  BY <1>2 DEF Handling
<1>6. CASE cancelled
  <2>1. worker'[w].at = "counted"
    BY <1>1, <1>6, WorkerGoesOn DEF TakeJob
  <2>2. \A u : u \in Handling' <=> u \in Handling
    BY <1>1, <1>3, <1>5, <2>1
  <2>3. Handling' = Handling
    BY <2>2
  <2> QED
    BY <1>4, <2>3, StutterMaps
<1>7. CASE ~cancelled
  <2>1. worker'[w].at = "handling" /\ worker'[w].seq = s
    BY <1>1, <1>7, WorkerGoesOn DEF TakeJob
  <2>2. \A u : u \in Handling' <=> u \in Handling \/ u = s
    BY <1>1, <1>3, <1>5, <2>1
  <2>3. Handling' = Handling \cup {s}
    BY <2>2
  <2>4. s \in PassedOn .. taken - 1 /\ s < reader.seq /\ s \in Nat /\ IsBlock(s)
    BY <1>1, PassedBehind, SMTT(30) DEF IInv, WorkersOK, Held, ReaderOK, TypeOK
  <2>5. s \notin Handled
    BY <1>1 DEF StageInv, BehindReader, Handled
  <2>6. \A v \in Worker : worker[v].at = "handling" => worker[v].seq # s /\ IsBlock(worker[v].seq)
    BY <1>1 DEF IInv, OnePlace, WorkersOK, Underway, AtWorker
  <2>7. s \notin Handling /\ \A t \in Handling : IsBlock(t)
    BY <1>5, <2>6
  <2>8. \A t \in 0 .. s - 1 : PartAt(t).type = "handled" => Settled(t)
    BY <2>4 DEF StageInv, BehindReader, IInv, TypeOK
  <2>9. Reported = "running"
    BY <1>1, NothingRunsOn DEF Reported
  <2> QED
    BY <1>4, <2>3, <2>4, <2>5, <2>7, <2>8, <2>9, BeginMaps
<1> QED
  BY <1>6, <1>7

LEMMA PassBarrierMaps == IInv /\ StageInv /\ PassBarrier => Stage!Next \/ UNCHANGED Stage!vars
<1> SUFFICES ASSUME IInv, StageInv, PassBarrier PROVE Stage!Next \/ UNCHANGED Stage!vars
  OBVIOUS
<1> DEFINE s == reader.seq
<1>1. /\ TypeOK /\ reader.at = "barrier" /\ worker' = worker
      /\ reader'.at = AfterBarrier /\ reader'.seq = s
  BY ReaderGoesOn DEF PassBarrier, IInv
<1>2. UNCHANGED <<stream, taken, verdict, PassedOn, out, CalledOff, Reported>>
  BY DEF PassBarrier, PassedOn, CalledOff, Reported
<1>3. CASE cancelled
  <2>1. Handling' = Handling
    BY <1>1, <1>3 DEF Handling, AfterBarrier
  <2> QED
    BY <1>2, <2>1, StutterMaps
<1>4. CASE ~cancelled
  <2>1. Busy = {} /\ \A t \in 0 .. s - 1 : Settled(t)
    BY <1>4, BarrierOpens
  <2>2. \A w \in Worker : worker[w].at # "handling"
    BY <2>1 DEF Busy, AtWorker
  <2>3. Handling = {} /\ Handling' = {s}
    BY <1>1, <1>4, <2>2 DEF Handling, AfterBarrier
  <2>4. s \in PassedOn .. taken - 1 /\ PartAt(s).type = "handled"
    BY <1>1, PassedBehind DEF IInv, ReaderOK, InHand, TypeOK
  <2>5. s \notin Handled
    <3>1. s \in Nat /\ ~(s < s)
      BY <1>1 DEF TypeOK
    <3> QED
      BY <1>1, <3>1 DEF StageInv, VerdictsOK, Handled
  <2>6. Reported = "running"
    BY <1>1, NothingRunsOn DEF Reported
  <2> QED
    BY <1>2, <2>1, <2>3, <2>4, <2>5, <2>6, BeginMaps
<1> QED
  BY <1>3, <1>4

LEMMA PassOnMaps == IInv /\ StageInv /\ (SendPart \/ SkipDropped) => Stage!Next
<1> SUFFICES ASSUME IInv, StageInv, SendPart \/ SkipDropped PROVE Stage!Next
  OBVIOUS
<1>1. emitter = "loop" /\ emitter' = "release" /\ nextSeq' = nextSeq
  BY DEF SendPart, SkipDropped
<1>2. NextSlot # Empty
  BY DEF SendPart, SkipDropped, Empty
<1>3. Slot(nextSeq) \in DOMAIN pending /\ NextSlot.seq = nextSeq /\ nextSeq \in Held
  BY <1>2, NextSlotIsNext
<1>4. Settled(nextSeq) /\ NextSlot.fate = PartAt(nextSeq).fate /\ nextSeq \in DOMAIN verdict
  BY <1>2, <1>3, HeldInDomain DEF StageInv, FatesOK, NextSlot
<1>5. PassedOn = nextSeq /\ PassedOn' = nextSeq + 1 /\ nextSeq < taken /\ Reported = "running"
  BY <1>1, <1>3 DEF PassedOn, Held, Reported, IInv, ReaderOK, TypeOK
<1>6. out' = IF PartAt(nextSeq).fate = "keep" THEN Append(out, nextSeq) ELSE out
  BY <1>3, <1>4 DEF SendPart, SkipDropped
<1>7. PartAt(nextSeq).fate # "error"
  BY <1>4 DEF SendPart, SkipDropped
<1>8. UNCHANGED <<stream, taken, Handling, Handled, CalledOff, Reported>>
  BY <1>1 DEF SendPart, SkipDropped, Handling, Handled, CalledOff, Reported
<1>9. \A t : Stage!PartAt(t) = PartAt(t)
  BY DEF Stage!PartAt, PartAt
<1>10. Stage!Settled(nextSeq)
  BY <1>4, <1>9 DEF Stage!Settled, Settled
<1>11. Stage!PassOn
  BY <1>5, <1>6, <1>7, <1>8, <1>9, <1>10
  DEF Stage!PassOn, Handling, Handled, PassedOn, Reported, CalledOff
<1> QED
  BY <1>5, <1>11 DEF Stage!Next, Reported

LEMMA CancelMaps == IInv /\ StageInv /\ Cancel => Stage!Next
<1> SUFFICES ASSUME IInv, StageInv, Cancel PROVE Stage!Next
  OBVIOUS
<1>1. Reported = "running"
  BY DEF Cancel, Reported
<1>2. UNCHANGED <<stream, taken, Handling, Handled, PassedOn, out, Reported>>
  BY DEF Cancel, Handling, Handled, PassedOn, Reported
<1>3. ~(ctx = "calledOff") /\ ctx' = "calledOff"
  BY DEF Cancel
<1>4. Stage!CallOff
  BY <1>2, <1>3 DEF Stage!CallOff, Handling, Handled, PassedOn, Reported
<1> QED
  BY <1>1, <1>4 DEF Stage!Next, Reported

LEMMA ReturnMaps == IInv /\ StageInv /\ Return => Stage!Next
<1> SUFFICES ASSUME IInv, StageInv, Return PROVE Stage!Next
  OBVIOUS
<1>1. emitter = "joining" /\ emitter' = "returned" /\ outcome' = outcome /\ reader.at = "done"
  BY DEF Return
<1>2. Handling = {}
  BY <1>1, InHandling DEF StageInv, EndOK
<1>3. outcome \in {"ok", "error", "cancelled"}
  BY <1>1 DEF IInv, TypeOK, StageInv, EndOK, Emitting
<1>4. Reported = "running" /\ Reported' = outcome /\ PassedOn = nextSeq /\ PassedOn' = PassedOn
  BY <1>1 DEF Reported, PassedOn, Return
<1>5. UNCHANGED <<stream, taken, Handling, Handled, out, CalledOff>>
  BY DEF Return, Handling, Handled, CalledOff
<1>6. /\ outcome = "ok" => PassedOn = Len(stream)
      /\ outcome = "cancelled" => CalledOff
      /\ outcome = "error" => CalledOff \/ \E s \in Handled : PartAt(s).fate = "error"
  BY <1>4 DEF StageInv, OutcomeOK, Handled, CalledOff
<1>7. \A t : Stage!PartAt(t) = PartAt(t)
  BY DEF Stage!PartAt, PartAt
<1>8. Stage!Return(outcome)
  BY <1>2, <1>4, <1>5, <1>6, <1>7 DEF Stage!Return, Handling, Handled, PassedOn, Reported, CalledOff
<1> QED
  BY <1>3, <1>4, <1>8 DEF Stage!Next, Reported

\* The rest of what the reader does is not seen from outside.
LEMMA ReaderHidden ==
    ASSUME IInv,
           \/ InputClosed \/ AcquirePermit \/ TradePermit \/ PutPart \/ ReaderStops \/ JoinWorkers
           \/ \E w \in Worker : SubmitBlock(w)
    PROVE  UNCHANGED Stage!vars
<1>1. TypeOK
  BY DEF IInv
<1>2. UNCHANGED <<stream, taken, verdict, PassedOn, out, CalledOff, Reported>>
  BY DEF InputClosed, AcquirePermit, TradePermit, PutPart, ReaderStops, JoinWorkers, SubmitBlock,
         PassedOn, CalledOff, Reported
<1>3. reader.at # "handle" /\ reader'.at # "handle"
  BY <1>1, ReaderGoesOn DEF InputClosed, AcquirePermit, TradePermit, PutPart, ReaderStops, Selects,
     JoinWorkers, SubmitBlock, NextPart
<1>4. /\ \A u : u \in Handling' <=> \E v \in Worker : worker'[v].at = "handling" /\ worker'[v].seq = u
      /\ \A u : u \in Handling <=> \E v \in Worker : worker[v].at = "handling" /\ worker[v].seq = u
  BY <1>3 DEF Handling
<1>5. \A v \in Worker : worker'[v] = worker[v]
                          \/ (worker[v].at # "handling" /\ worker'[v].at # "handling")
  BY <1>1 DEF InputClosed, AcquirePermit, TradePermit, PutPart, ReaderStops, JoinWorkers,
     SubmitBlock, TypeOK, Idle
<1>6. \A u : u \in Handling' <=> u \in Handling
  BY <1>4, <1>5
<1>7. Handling' = Handling
  BY <1>6
<1> QED
  BY <1>2, <1>7, StutterMaps

\* Nor is the rest of what a worker does.
LEMMA WorkerHidden ==
    ASSUME IInv, NEW w \in Worker,
           PutResult(w) \/ DropResult(w) \/ CountDone(w) \/ LeavePool(w)
    PROVE  UNCHANGED Stage!vars
<1>1. TypeOK
  BY DEF IInv
<1>2. UNCHANGED <<stream, taken, reader, verdict, PassedOn, out, CalledOff, Reported>>
  BY DEF PutResult, DropResult, CountDone, LeavePool, PassedOn, CalledOff, Reported
<1>3. worker[w].at # "handling"
  BY DEF PutResult, DropResult, CountDone, LeavePool, Idle
<1>4. worker'[w].at # "handling" /\ \A v \in Worker \ {w} : worker'[v] = worker[v]
  <2>1. CASE CountDone(w)
    BY <1>1, <2>1 DEF CountDone, TypeOK, Idle
  <2>2. CASE PutResult(w) \/ DropResult(w) \/ LeavePool(w)
    BY <1>1, <2>2, WorkerGoesOn DEF PutResult, DropResult, LeavePool
  <2> QED
    BY <2>1, <2>2
<1>5. \A u : u \in Handling' <=> u \in Handling
  <2>1. \A u : u \in Handling' <=> \/ \E v \in Worker : worker'[v].at = "handling" /\ worker'[v].seq = u
                                   \/ reader.at = "handle" /\ reader.seq = u
    BY <1>2 DEF Handling
  <2> QED
    BY <1>3, <1>4, <2>1, InHandling
<1>6. Handling' = Handling
  BY <1>5
<1> QED
  BY <1>2, <1>6, StutterMaps

\* Nor is the rest of what the emitter does.
LEMMA EmitterHidden ==
    ASSUME IInv, StageInv,
           \/ Receive \/ ReleasePermit \/ ResultsClosed \/ EmitterStops \/ CancelRest
           \/ Finished \/ UNCHANGED vars
    PROVE  UNCHANGED Stage!vars
<1>1. UNCHANGED <<stream, taken, reader, worker, verdict, out>>
  BY DEF Receive, ReleasePermit, ResultsClosed, EmitterStops, CancelRest, Finished, vars
<1>2. Handling' = Handling
  BY <1>1 DEF Handling
<1>3. PassedOn' = PassedOn
  BY DEF Receive, ReleasePermit, ResultsClosed, EmitterStops, CancelRest, Finished, vars, PassedOn,
     Leave, Waiting
<1>4. CalledOff' = CalledOff
  BY DEF Receive, ReleasePermit, ResultsClosed, EmitterStops, CancelRest, Finished, vars, CalledOff
<1>5. Reported' = Reported
  BY DEF Receive, ReleasePermit, ResultsClosed, EmitterStops, CancelRest, Finished, vars, Reported,
     Leave, Waiting
<1> QED
  BY <1>1, <1>2, <1>3, <1>4, <1>5, StutterMaps

LEMMA StepMaps == IInv /\ StageInv /\ [Next]_vars => [Stage!Next]_(Stage!vars)
<1> SUFFICES ASSUME IInv, StageInv, [Next]_vars PROVE Stage!Next \/ UNCHANGED Stage!vars
  OBVIOUS
<1>1. CASE ReadPart
  BY <1>1, TakeMaps
<1>2. CASE PassBarrier
  BY <1>2, PassBarrierMaps
<1>3. CASE HandlePart
  BY <1>3, HandlePartMaps
<1>4. CASE \/ InputClosed \/ AcquirePermit \/ TradePermit \/ PutPart \/ ReaderStops \/ JoinWorkers
           \/ \E w \in Worker : SubmitBlock(w)
  BY <1>4, ReaderHidden
<1>5. ASSUME NEW w \in Worker, WorkerStep(w)
      PROVE  Stage!Next \/ UNCHANGED Stage!vars
  <2>1. CASE TakeJob(w)
    BY <2>1, TakeJobMaps
  <2>2. CASE HandleBlock(w)
    BY <2>2, HandleBlockMaps
  <2>3. CASE PutResult(w) \/ DropResult(w) \/ CountDone(w) \/ LeavePool(w)
    BY <2>3, WorkerHidden
  <2> QED
    BY <1>5, <2>1, <2>2, <2>3 DEF WorkerStep
<1>6. CASE SendPart \/ SkipDropped
  BY <1>6, PassOnMaps
<1>7. CASE \/ Receive \/ ReleasePermit \/ ResultsClosed \/ EmitterStops \/ CancelRest
           \/ Finished \/ UNCHANGED vars
  BY <1>7, EmitterHidden
<1>8. CASE Return
  BY <1>8, ReturnMaps
<1>9. CASE Cancel
  BY <1>9, CancelMaps
<1> QED
  BY <1>1, <1>2, <1>3, <1>4, <1>5, <1>6, <1>7, <1>8, <1>9 DEF Next, ReaderStep, EmitterStep

\* Process implements an ordered stage, whatever the pool, the windows and the
\* stream: order, drops, structural handlers alone and in their place, a bound
\* on what is held, a success only when everything came out, and nothing left
\* running when it has returned (ParallelBlockTool.Process).
THEOREM Refines == Spec => IsOrderedStage
<1>1. Init => Stage!Init
  BY InitMaps
<1>2. IInv /\ StageInv /\ [Next]_vars => [Stage!Next]_(Stage!vars)
  BY StepMaps
<1> QED
  BY <1>1, <1>2, StageInductive, PTL DEF Spec, IsOrderedStage, Stage!Spec

=============================================================================
