-------------------------- MODULE LocalLog_proofs --------------------------
(***************************************************************************)
(* The properties of LocalLog, for every set of ids, addresses and         *)
(* writers, and for batches of any size.                                   *)
(***************************************************************************)
EXTENDS LocalLog, OpLogLemmas

\* The operations recorded so far tell ids apart, and the log holds only them.
MintedOK ==
    /\ IsFiniteSet(minted)
    /\ \A o, p \in minted : o.id = p.id => o = p
    /\ arrived \subseteq minted
    /\ \A o \in arrived : o.kind # "forget"
    /\ \A r \in log.rows : OpOf(r) \in minted

\* A head that stands where a writer read it is the head of the rows it read.
\* An arriving edit that replaces one is appended past every head read before.
BasesOK ==
    \A w \in Writer :
        /\ base[w].head <= log.seq
        /\ base[w].read = "rows" /\ IsSubjectHead(log.rows, base[w].head)
              => EditRows = base[w].rows

CursorOK == cursor <= log.seq

IInv ==
    /\ TypeOK
    /\ WellFormed(log)
    /\ MintedOK
    /\ BasesOK
    /\ CursorOK
    /\ LogIsUnion
    /\ WatcherMissesNothing

----------------------------------------------------------------------------

LEMMA InitInv == Init => IInv
<1> SUFFICES ASSUME Init PROVE IInv
  OBVIOUS
<1> USE DEF Init
<1>1. TypeOK
  BY DEF TypeOK, EmptyLog, NoBase, Base
<1>2. WellFormed(log)
  BY DEF WellFormed, EmptyLog, OneEach
<1>3. MintedOK
  BY FS_EmptySet DEF MintedOK, EmptyLog
<1>4. BasesOK /\ CursorOK
  BY DEF BasesOK, CursorOK, EmptyLog, NoBase
<1>5. LogIsUnion /\ WatcherMissesNothing
  BY DEF LogIsUnion, WatcherMissesNothing, LiveOps, Live, Union, EmptyLog
<1> QED
  BY <1>1, <1>2, <1>3, <1>4, <1>5 DEF IInv

\* Whatever is appended, the positions the watcher and the writers have read
\* stay behind, and say of the rows they read what they said.
LEMMA AppendKeepsReads ==
    ASSUME IInv, NEW ops, Batch(log, ops), log' = Record(log, ops)
    PROVE  /\ WellFormed(log')
           /\ log.seq <= log'.seq /\ log.seq \in Nat /\ log'.seq \in Nat
           /\ \A r \in log'.rows : r \in log.rows \/ (r.seq \in Nat /\ log.seq < r.seq)
           /\ \A r \in log'.rows : OpOf(r) \in minted \cup ops
           /\ \A h \in Nat : /\ h <= log.seq
                             /\ IsSubjectHead(log'.rows, h)
                             => /\ EditRows' = EditRows
                                /\ IsSubjectHead(log.rows, h)
<1> USE DEF IInv
<1>1. WellFormed(log')
  BY RecordWellFormed
<1>2. log.seq <= log'.seq /\ log.seq \in Nat /\ log'.seq \in Nat
  BY RecordRows DEF WellFormed
<1>3. ASSUME NEW r \in log'.rows
      PROVE  /\ r \in log.rows \/ (r.seq \in Nat /\ log.seq < r.seq)
             /\ OpOf(r) \in minted \cup ops
  <2>1. CASE r \in Kept(log.rows, Written(log.rows, ops))
    BY <2>1 DEF Kept, MintedOK
  <2>2. CASE r \notin Kept(log.rows, Written(log.rows, ops))
    <3>1. PICK o \in Written(log.rows, ops), n \in (log.seq + 1)..log'.seq :
             o \in ops /\ o \in Op /\ n \in Nat /\ r = AtPosition(o, n)
      BY <2>2, RecordedRow
    <3>2. r.seq = n /\ OpOf(r) = o
      BY <3>1, PlacedRow
    <3> QED
      BY <3>1, <3>2, <1>2
  <2> QED
    BY <2>1, <2>2
<1>4. ASSUME NEW h \in Nat, h <= log.seq, IsSubjectHead(log'.rows, h)
      PROVE  EditRows' = EditRows /\ IsSubjectHead(log.rows, h)
  <2>1. Edits(log'.rows) = EditRows' /\ Edits(log.rows) = EditRows
    BY DEF Edits, EditRows
  <2>2. ASSUME NEW r \in Edits(log'.rows) PROVE ~(log.seq < r.seq)
    <3>1. r.seq \in Nat /\ r.seq <= h
      BY <1>1, <1>4 DEF Edits, IsSubjectHead, WellFormed
    <3> QED
      BY <3>1, <1>2, <1>4
  <2>3. Edits(log'.rows) = Edits(log.rows)
    BY <2>2, EditsAfterRecord
  <2>4. IsSubjectHead(log.rows, h)
    BY <2>3, <1>4 DEF IsSubjectHead, Edits
  <2> QED
    BY <2>1, <2>3, <2>4
<1> QED
  BY <1>1, <1>2, <1>3, <1>4

\* One operation minted for the log is a batch of its own.
LEMMA MintedBatch ==
    ASSUME IInv, NEW op \in Op, Mintable(log.rows, UsedIds, op.id)
    PROVE  /\ Batch(log, {op})
           /\ \A o \in minted : o.id # op.id
           /\ \A r \in log.rows : r.id < op.id
<1>1. \A o \in minted : o.id # op.id
  BY DEF Mintable, UsedIds
<1>2. \A r \in log.rows : r.id < op.id /\ r.id \in Nat /\ op.id \in Nat
  BY IdsAreNumbers DEF Mintable, IInv, WellFormed, Row, Op
<1>3. \A r \in log.rows : r.id # op.id
  BY <1>2
<1>4. IsFiniteSet({op})
  BY FS_Singleton
<1> QED
  BY <1>1, <1>2, <1>3, <1>4 DEF Batch

\* Operations recorded anywhere are a batch for the log.
LEMMA ArrivingBatch ==
    ASSUME IInv, NEW ops \in SUBSET minted
    PROVE  Batch(log, ops)
<1>1. ops \in SUBSET Op /\ IsFiniteSet(ops)
  BY FS_Subset DEF IInv, TypeOK, MintedOK
<1>2. \A r \in log.rows, o \in ops : r.id = o.id => OpOf(r) = o
  BY DEF IInv, MintedOK, OpOf
<1> QED
  BY <1>1, <1>2 DEF Batch, IInv, MintedOK

----------------------------------------------------------------------------

\* What every action that appends a batch has in common: the operations it
\* appends are or come to be minted, and no writer or watcher moves on.
LEMMA AppendStep ==
    ASSUME IInv, NEW ops, Batch(log, ops), log' = Record(log, ops),
           minted' \in SUBSET Op, arrived' \in SUBSET minted',
           IsFiniteSet(minted'), minted \cup ops \subseteq minted',
           \A o, p \in minted' : o.id = p.id => o = p,
           \A o \in arrived' : o.kind # "forget",
           base' \in [Writer -> Base],
           \A w \in Writer : base'[w] = base[w] \/ base'[w] = NoBase,
           cursor' = cursor, seen' = seen,
           LogIsUnion'
    PROVE  IInv'
<1> USE DEF IInv
<1>1. /\ WellFormed(log')
      /\ log.seq <= log'.seq /\ log.seq \in Nat /\ log'.seq \in Nat
      /\ \A r \in log'.rows : r \in log.rows \/ (r.seq \in Nat /\ log.seq < r.seq)
      /\ \A r \in log'.rows : OpOf(r) \in minted \cup ops
      /\ \A h \in Nat : h <= log.seq /\ IsSubjectHead(log'.rows, h)
                            => EditRows' = EditRows /\ IsSubjectHead(log.rows, h)
  BY AppendKeepsReads
<1>2. TypeOK'
  BY <1>1 DEF TypeOK, WellFormed
<1>3. MintedOK'
  BY <1>1 DEF MintedOK
<1>4. BasesOK'
  <2> SUFFICES ASSUME NEW w \in Writer
               PROVE  /\ base'[w].head <= log'.seq
                      /\ base'[w].read = "rows" /\ IsSubjectHead(log'.rows, base'[w].head)
                            => EditRows' = base'[w].rows
    BY DEF BasesOK
  <2>1. CASE base'[w] = NoBase
    BY <2>1, <1>1 DEF NoBase
  <2>2. CASE base'[w] = base[w]
    <3>1. base[w].head \in Nat /\ base[w].head <= log.seq
      BY DEF TypeOK, Base, BasesOK
    <3> QED
      BY <2>2, <3>1, <1>1 DEF BasesOK
  <2> QED
    BY <2>1, <2>2
<1>5. CursorOK'
  BY <1>1 DEF CursorOK, TypeOK
<1>6. WatcherMissesNothing'
  <2> SUFFICES ASSUME NEW r \in log'.rows, r.seq <= cursor PROVE r.id \in seen
    BY DEF WatcherMissesNothing
  <2>1. r \in log.rows
    BY <1>1 DEF CursorOK, TypeOK
  <2> QED
    BY <2>1 DEF WatcherMissesNothing
<1> QED
  BY <1>1, <1>2, <1>3, <1>4, <1>5, <1>6

LEMMA AcceptStep ==
    ASSUME IInv, NEW op \in Op, op.kind # "forget", Accept(op),
           base' \in [Writer -> Base],
           \A w \in Writer : base'[w] = base[w] \/ base'[w] = NoBase,
           cursor' = cursor, seen' = seen
    PROVE  IInv'
<1> USE DEF Accept
<1>1. Batch(log, {op}) /\ \A o \in minted : o.id # op.id
  BY MintedBatch
<1>2. /\ IsFiniteSet(minted') /\ minted' \in SUBSET Op
      /\ \A o, p \in minted' : o.id = p.id => o = p
      /\ arrived' \in SUBSET minted'
      /\ \A o \in arrived' : o.kind # "forget"
      /\ minted \cup {op} \subseteq minted'
  BY <1>1, FS_AddElement DEF IInv, MintedOK, TypeOK
<1>3. LogIsUnion'
  <2>1. LiveOps(log'.rows) = Union(LiveOps(log.rows) \cup {op})
    BY <1>1, RecordIsUnion DEF IInv
  <2>2. Union(Union(arrived) \cup {op}) = Union(arrived')
    BY UnionInSteps DEF IInv, TypeOK
  <2> QED
    BY <2>1, <2>2 DEF IInv, LogIsUnion
<1> QED
  BY <1>1, <1>2, <1>3, AppendStep

LEMMA MergeStep ==
    ASSUME IInv, MergeArriving
    PROVE  IInv'
<1>1. PICK ops \in SUBSET {o \in minted : o.kind # "forget"} :
         /\ log' = Record(log, ops)
         /\ arrived' = arrived \cup ops
         /\ UNCHANGED <<minted, base, cursor, seen>>
  BY DEF MergeArriving
<1>2. Batch(log, ops) /\ ops \in SUBSET Op
  BY ArrivingBatch DEF IInv, TypeOK
<1>3. LogIsUnion'
  <2>1. LiveOps(log'.rows) = Union(LiveOps(log.rows) \cup ops)
    BY <1>1, <1>2, RecordIsUnion DEF IInv
  <2>2. Union(Union(arrived) \cup ops) = Union(arrived')
    BY <1>1, <1>2, UnionInSteps DEF IInv, TypeOK
  <2> QED
    BY <2>1, <2>2 DEF IInv, LogIsUnion
<1> QED
  BY <1>1, <1>2, <1>3, AppendStep DEF IInv, MintedOK, TypeOK

\* The removal is appended, and everything the log holds lies before it.
LEMMA ForgetStep ==
    ASSUME IInv, RecordForget
    PROVE  IInv'
<1>1. PICK op \in Op :
         /\ op.kind = "forget" /\ Mintable(log.rows, UsedIds, op.id)
         /\ log' = Record(log, {op})
         /\ minted' = minted \cup {op}
  BY DEF RecordForget
<1>2. arrived' = {} /\ UNCHANGED <<base, cursor, seen>>
  BY DEF RecordForget
<1>3. /\ Batch(log, {op})
      /\ \A o \in minted : o.id # op.id
      /\ \A r \in log.rows : r.id < op.id
  BY <1>1, MintedBatch
<1>4. \A r \in log.rows : ~Matches(r, op)
  <2>1. op.addr = NoAddress
    BY <1>1, AddressesHaveKinds DEF Op, SaysOneThing
  <2>2. \A r \in log.rows : r.id # op.id
    BY <1>3, IdsAreNumbers DEF IInv, WellFormed, Row
  <2> QED
    BY <2>1, <2>2 DEF Matches, SameAddress
<1>5. op \in Written(log.rows, {op})
  <2>1. op.id \in Nat
    BY IdsAreNumbers DEF Op
  <2>2. op.id <= op.id
    BY <2>1
  <2>3. ~Answers(log.rows, op)
    BY <1>4 DEF Answers
  <2> QED
    BY <2>2, <2>3 DEF Written
<1>6. PICK n \in Nat : n \in (log.seq + 1)..log'.seq /\ AtPosition(op, n) \in log'.rows
  <2>1. WellFormed(log) /\ Batch(log, {op}) /\ log' = Record(log, {op})
    BY <1>1, <1>3 DEF IInv
  <2>2. \A o \in Written(log.rows, {op}) : \E n \in Nat :
          n \in (log.seq + 1)..Record(log, {op}).seq /\ AtPosition(o, n) \in Record(log, {op}).rows
    BY <2>1, RecordRows
  <2> QED
    BY <2>1, <2>2, <1>5
<1>7. AtPosition(op, n).kind = "forget" /\ AtPosition(op, n).seq = n
  BY <1>1, PlacedRow
<1>8. ASSUME NEW r \in log'.rows, r.kind # "forget" PROVE Forgotten(log'.rows, r)
  <2>1. r \in log.rows
    <3>1. ASSUME r \notin Kept(log.rows, Written(log.rows, {op})) PROVE FALSE
      <4>1. /\ WellFormed(log) /\ Batch(log, {op})
            /\ r \in Record(log, {op}).rows
        BY <1>1, <1>3 DEF IInv
      <4>2. PICK k \in Nat : r = AtPosition(op, k)
        BY <4>1, <3>1, RecordedRow
      <4> QED
        BY <4>2, <1>1, <1>8, PlacedRow
    <3> QED
      BY <3>1 DEF Kept
  <2>2. r.seq < n
    BY <2>1, <1>6 DEF IInv, WellFormed
  <2> QED
    BY <2>2, <1>6, <1>7, <1>8 DEF Forgotten
<1>9. LogIsUnion'
  BY <1>2, <1>8 DEF LogIsUnion, LiveOps, Live, Union
<1>10. /\ IsFiniteSet(minted') /\ minted' \in SUBSET Op
       /\ \A o, p \in minted' : o.id = p.id => o = p
       /\ minted \cup {op} \subseteq minted'
  BY <1>1, <1>3, FS_AddElement DEF IInv, MintedOK, TypeOK
<1> QED
  BY <1>1, <1>2, <1>3, <1>9, <1>10, AppendStep DEF IInv, TypeOK

----------------------------------------------------------------------------

LEMMA NextInv == IInv /\ [Next]_vars => IInv'
<1> SUFFICES ASSUME IInv, [Next]_vars PROVE IInv'
  OBVIOUS
<1>1. CASE RecordNew
  BY <1>1, AcceptStep DEF RecordNew, IInv, TypeOK
<1>2. ASSUME NEW w \in Writer, ReadHead(w) \/ ReadRows(w) PROVE IInv'
  <2>1. UNCHANGED <<log, minted, arrived, cursor, seen>>
    BY <1>2 DEF ReadHead, ReadRows
  <2>2. log.seq \in Nat /\ EditRows \in SUBSET Row /\ EditRows' = EditRows
    BY <2>1 DEF IInv, TypeOK, EditRows
  <2>3. PICK b \in Base : /\ base' = [base EXCEPT ![w] = b]
                          /\ b.head <= log.seq
                          /\ b.read = "rows" => b.rows = EditRows
    <3>1. CASE ReadHead(w)
      <4>1. PICK h \in 0..log.seq :
               base' = [base EXCEPT ![w] = [read |-> "head", head |-> h, rows |-> {}]]
        BY <3>1 DEF ReadHead
      <4>2. [read |-> "head", head |-> h, rows |-> {}] \in Base /\ h <= log.seq
        BY <2>2 DEF Base
      <4> QED
        BY <4>1, <4>2
    <3>2. CASE ReadRows(w)
      <4> DEFINE b == [base[w] EXCEPT !.read = "rows", !.rows = EditRows]
      <4>1. base' = [base EXCEPT ![w] = b]
        BY <3>2 DEF ReadRows
      <4>2. base[w] \in Base /\ base[w].head <= log.seq
        BY DEF IInv, TypeOK, BasesOK
      <4>3. b \in Base /\ b.head = base[w].head /\ b.rows = EditRows
        BY <2>2, <4>2 DEF Base
      <4> QED
        BY <4>1, <4>2, <4>3
    <3> QED
      BY <1>2, <3>1, <3>2
  <2>4. TypeOK'
    BY <2>1, <2>3 DEF IInv, TypeOK
  <2>5. BasesOK'
    BY <2>1, <2>2, <2>3 DEF IInv, TypeOK, BasesOK
  <2> QED
    BY <2>1, <2>4, <2>5 DEF IInv, MintedOK, CursorOK, LogIsUnion, WatcherMissesNothing
<1>3. ASSUME NEW w \in Writer, WriteEdition(w) PROVE IInv'
  <2>1. PICK op \in Op : op.kind = "edit" /\ Accept(op)
    BY <1>3 DEF WriteEdition
  <2>2. base' = [base EXCEPT ![w] = NoBase] /\ UNCHANGED <<cursor, seen>>
    BY <1>3 DEF WriteEdition
  <2>3. NoBase \in Base /\ base \in [Writer -> Base]
    BY DEF NoBase, Base, IInv, TypeOK
  <2> QED
    BY <2>1, <2>2, <2>3, AcceptStep
<1>4. ASSUME NEW w \in Writer, WriteRefused(w) PROVE IInv'
  <2>1. base' = [base EXCEPT ![w] = NoBase] /\ UNCHANGED <<log, minted, arrived, cursor, seen>>
    BY <1>4 DEF WriteRefused
  <2>2. /\ NoBase \in Base /\ NoBase.read # "rows" /\ NoBase.head = 0
        /\ log.seq \in Nat /\ EditRows' = EditRows
    BY <2>1 DEF NoBase, Base, EditRows, IInv, TypeOK
  <2> QED
    BY <2>1, <2>2 DEF IInv, TypeOK, BasesOK, MintedOK, CursorOK, LogIsUnion, WatcherMissesNothing
<1>5. CASE RecordElsewhere
  <2>1. PICK op \in Op : op.kind # "forget" /\ op.id \notin UsedIds /\ minted' = minted \cup {op}
    BY <1>5 DEF RecordElsewhere
  <2>2. UNCHANGED <<log, arrived, base, cursor, seen>> /\ EditRows' = EditRows
    BY <1>5 DEF RecordElsewhere, EditRows
  <2>3. \A o \in minted : o.id # op.id
    BY <2>1 DEF UsedIds
  <2>4. IsFiniteSet(minted')
    BY <2>1, FS_AddElement DEF IInv, MintedOK
  <2> QED
    BY <2>1, <2>2, <2>3, <2>4 DEF IInv, TypeOK, BasesOK, MintedOK, CursorOK, LogIsUnion, WatcherMissesNothing
<1>6. CASE MergeArriving
  BY <1>6, MergeStep
<1>7. CASE RecordForget
  BY <1>7, ForgetStep
<1>8. CASE Poll
  <2> DEFINE new == {r \in log.rows : r.seq > cursor}
  <2>1. PICK last \in new : (\A r \in new : r.seq <= last.seq) /\ cursor' = last.seq
    BY <1>8 DEF Poll
  <2>2. /\ seen' = seen \cup {r.id : r \in new}
        /\ UNCHANGED <<log, minted, arrived, base>> /\ EditRows' = EditRows
    BY <1>8 DEF Poll, EditRows
  <2>3. \A r \in log.rows : r.seq \in 1..log.seq /\ r.id \in Ids
    BY DEF IInv, WellFormed, Row
  <2>4. cursor \in Nat /\ log.seq \in Nat
    BY DEF IInv, TypeOK
  <2>5. TypeOK' /\ CursorOK'
    BY <2>1, <2>2, <2>3, <2>4 DEF IInv, TypeOK, CursorOK
  <2>6. WatcherMissesNothing'
    BY <2>1, <2>2, <2>3, <2>4 DEF IInv, WatcherMissesNothing
  <2> QED
    BY <2>2, <2>5, <2>6 DEF IInv, BasesOK, MintedOK, LogIsUnion
<1>9. CASE UNCHANGED vars
  BY <1>9 DEF vars, IInv, TypeOK, BasesOK, EditRows, MintedOK, CursorOK, LogIsUnion, WatcherMissesNothing
<1> QED
  BY <1>1, <1>2, <1>3, <1>4, <1>5, <1>6, <1>7, <1>8, <1>9 DEF Next

\* The inductive invariant of LocalLog.
THEOREM Invariance == Spec => []IInv
  BY InitInv, NextInv, PTL DEF Spec

\* The log, the operations and what each process read are what they are taken
\* to be.
THEOREM TypeCorrect == Spec => []TypeOK
<1>1. IInv => TypeOK
  BY DEF IInv
<1> QED
  BY <1>1, Invariance, PTL

\* No record meets the table's UNIQUE constraints, whatever arrives in whatever
\* batches.
THEOREM OneRowEachHolds == Spec => []OneRowEach
<1>1. IInv => OneRowEach
  BY DEF IInv, WellFormed, OneEach, OneRowEach
<1> QED
  BY <1>1, Invariance, PTL

\* A log is the union of what was recorded in it and merged into it, in any
\* order and any number of times, so two logs that got the same operations hold
\* the same ones.
THEOREM MergeIsUnion == Spec => []LogIsUnion
<1>1. IInv => LogIsUnion
  BY DEF IInv
<1> QED
  BY <1>1, Invariance, PTL

\* A watcher that reads past its cursor is given every row the log comes to
\* hold.
THEOREM WatcherSeesAll == Spec => []WatcherMissesNothing
<1>1. IInv => WatcherMissesNothing
  BY DEF IInv
<1> QED
  BY <1>1, Invariance, PTL

\* A conditional record that is accepted extends the very edition it was staged
\* on.
THEOREM EditsAreNotLost == Spec => NoLostEdit
<1>1. ASSUME IInv, [Next]_vars
      PROVE  [\A w \in Writer : WriteEdition(w) => EditRows = base[w].rows]_vars
  BY <1>1 DEF IInv, BasesOK, WriteEdition, HeadStands
<1> QED
  BY <1>1, Invariance, PTL DEF Spec, NoLostEdit

\* Whatever the log and the batch, the loop of record ends in the log that
\* Record says.
THEOREM LoopIsRecord == Spec => []RecordIsSequential
<1>1. ASSUME IInv, NEW ops \in SUBSET {o \in minted : o.kind # "forget"}
      PROVE  Record(log, ops) = RecordInSequence(log, ops)
  <2>1. WellFormed(log) /\ ops \in SUBSET minted /\ \A o \in ops : o.kind # "forget"
    BY <1>1 DEF IInv
  <2>2. Batch(log, ops)
    BY <1>1, <2>1, ArrivingBatch
  <2> QED
    BY <2>1, <2>2, RecordIsTheLoop
<1>2. IInv => RecordIsSequential
  BY <1>1 DEF RecordIsSequential
<1> QED
  BY <1>2, Invariance, PTL
=============================================================================
