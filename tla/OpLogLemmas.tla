---------------------------- MODULE OpLogLemmas ----------------------------
(***************************************************************************)
(* Facts about recording a batch of operations (OpLog), for any log that   *)
(* is well formed and any batch that agrees with it.                       *)
(***************************************************************************)
EXTENDS OpLog, TLAPS, FiniteSetTheorems, WellFoundedInduction

\* One row per id, per address and per position.
OneEach(rows) ==
    \A r, s \in rows :
        r.id = s.id \/ SameAddress(r, s) \/ r.seq = s.seq => r = s

WellFormed(l) ==
    /\ l = [rows |-> l.rows, seq |-> l.seq]
    /\ l.seq \in Nat
    /\ l.rows \in SUBSET Row
    /\ \A r \in l.rows : r.seq \in 1..l.seq /\ SaysOneThing(r)
    /\ OneEach(l.rows)

\* A finite set of operations in which, together with the log, an id is the id
\* of one operation.
Batch(l, ops) ==
    /\ ops \in SUBSET Op
    /\ IsFiniteSet(ops)
    /\ \A o, p \in ops : o.id = p.id => o = p
    /\ \A r \in l.rows, o \in ops : r.id = o.id => OpOf(r) = o

Edits(rows) == {r \in rows : r.kind = "edit"}

----------------------------------------------------------------------------

\* Every set of numbers has a least one.
LEMMA LeastExists ==
    ASSUME NEW S \in SUBSET Nat, S # {}
    PROVE  \E n \in S : \A m \in S : n <= m
<1>1. \E n \in S : \A m \in S : <<m, n>> \notin OpToRel(<, Nat)
  BY NatLessThanWellFounded, WFMin
<1>2. PICK n \in S : \A m \in S : <<m, n>> \notin OpToRel(<, Nat)
  BY <1>1
<1>3. ASSUME NEW m \in S PROVE n <= m
  <2>1. ~(m < n)
    BY <1>2 DEF OpToRel
  <2> QED
    BY <2>1
<1> QED
  BY <1>3

LEMMA SmallerSubset ==
    ASSUME NEW T, IsFiniteSet(T), NEW S \in SUBSET T, NEW x \in T, x \notin S
    PROVE  Cardinality(S) < Cardinality(T)
<1>1. /\ IsFiniteSet(S)
      /\ Cardinality(S) <= Cardinality(T)
      /\ Cardinality(S) = Cardinality(T) => S = T
  BY FS_Subset
<1>2. Cardinality(S) \in Nat /\ Cardinality(T) \in Nat
  BY <1>1, FS_CardinalityType
<1> QED
  BY <1>1, <1>2

\* Among the operations of a batch that share an address there is an oldest.
LEMMA OldestExists ==
    ASSUME NEW ops \in SUBSET Op, NEW x \in Op, SameAddress(x, x),
           NEW p \in ops, SameAddress(p, x)
    PROVE  \E q \in ops : /\ SameAddress(q, x)
                          /\ q.id <= p.id
                          /\ \A o \in ops : SameAddress(o, x) => q.id <= o.id
<1> DEFINE S == {o.id : o \in {o \in ops : SameAddress(o, x)}}
<1>1. S \in SUBSET Nat /\ p.id \in S
  BY IdsAreNumbers DEF Op
<1>2. PICK n \in S : \A m \in S : n <= m
  BY <1>1, LeastExists
<1> QED
  BY <1>1, <1>2

----------------------------------------------------------------------------

\* Positions within one transaction are new, and told apart by the id.
LEMMA Positions ==
    ASSUME NEW from \in Nat, NEW new \in SUBSET Op, IsFiniteSet(new)
    PROVE  /\ Cardinality(new) \in Nat
           /\ \A o \in new :
                PositionOf(from, new, o) \in (from + 1)..(from + Cardinality(new))
           /\ \A o, p \in new :
                o.id < p.id => PositionOf(from, new, o) < PositionOf(from, new, p)
<1> DEFINE Below(o) == {p \in new : p.id <= o.id}
<1>0. Cardinality(new) \in Nat
  BY FS_CardinalityType
<1>n. \A o \in new : o.id \in Nat
  BY IdsAreNumbers DEF Op
<1>1. ASSUME NEW o \in new
      PROVE  /\ IsFiniteSet(Below(o))
             /\ Cardinality(Below(o)) \in 1..Cardinality(new)
  <2>1. o \in Below(o) /\ Below(o) \in SUBSET new
    BY <1>n
  <2>2. IsFiniteSet(Below(o)) /\ Cardinality(Below(o)) <= Cardinality(new)
    BY <2>1, FS_Subset
  <2>3. Cardinality(Below(o)) \in Nat
    BY <2>2, FS_CardinalityType
  <2>4. Cardinality(Below(o)) # 0
    BY <2>1, <2>2, FS_EmptySet
  <2> QED
    BY <1>0, <2>2, <2>3, <2>4
<1>2. ASSUME NEW o \in new, NEW p \in new, o.id < p.id
      PROVE  Cardinality(Below(o)) < Cardinality(Below(p))
  <2>1. Below(o) \in SUBSET Below(p) /\ p \in Below(p) /\ p \notin Below(o)
    BY <1>2, <1>n
  <2> QED
    BY <2>1, <1>1, SmallerSubset
<1> HIDE DEF Below
<1>3. \A o \in new : PositionOf(from, new, o) = from + Cardinality(Below(o))
  BY DEF PositionOf, Below
<1> QED
  BY <1>0, <1>1, <1>2, <1>3

----------------------------------------------------------------------------
(* The rows of a record. *)

LEMMA PlacedRow ==
    ASSUME NEW o \in Op, NEW n \in Nat
    PROVE  /\ AtPosition(o, n) \in Row
           /\ OpOf(AtPosition(o, n)) = o
           /\ AtPosition(o, n).id = o.id
           /\ AtPosition(o, n).addr = o.addr
           /\ AtPosition(o, n).kind = o.kind
           /\ AtPosition(o, n).seq = n
           /\ SaysOneThing(AtPosition(o, n))
  BY DEF AtPosition, Op, Row, OpOf, SaysOneThing

\* What a record adds, place by place.
LEMMA RecordRows ==
    ASSUME NEW l, WellFormed(l), NEW ops, Batch(l, ops)
    PROVE  /\ Written(l.rows, ops) \in SUBSET ops
           /\ Record(l, ops).seq \in Nat /\ l.seq <= Record(l, ops).seq
           /\ Kept(l.rows, Written(l.rows, ops)) \in SUBSET Record(l, ops).rows
           /\ \A o \in Written(l.rows, ops) : \E n \in Nat :
                /\ n \in (l.seq + 1)..Record(l, ops).seq
                /\ n = PositionOf(l.seq, Written(l.rows, ops), o)
                /\ AtPosition(o, n) \in Record(l, ops).rows
           /\ \A r \in Record(l, ops).rows :
                \/ r \in Kept(l.rows, Written(l.rows, ops))
                \/ \E o \in Written(l.rows, ops) :
                      /\ r = AtPosition(o, PositionOf(l.seq, Written(l.rows, ops), o))
                      /\ PositionOf(l.seq, Written(l.rows, ops), o)
                            \in (l.seq + 1)..Record(l, ops).seq
<1> DEFINE new == Written(l.rows, ops)
<1>1. new \in SUBSET ops /\ new \in SUBSET Op /\ IsFiniteSet(new)
  BY FS_Subset DEF Batch, Written
<1>2. l.seq \in Nat
  BY DEF WellFormed
<1>3. /\ Cardinality(new) \in Nat
      /\ \A o \in new : PositionOf(l.seq, new, o) \in (l.seq + 1)..(l.seq + Cardinality(new))
  BY <1>1, <1>2, Positions
<1>4. /\ Record(l, ops).seq = l.seq + Cardinality(new)
      /\ Record(l, ops).rows =
            Kept(l.rows, new) \cup {AtPosition(o, PositionOf(l.seq, new, o)) : o \in new}
  BY DEF Record, Appended
<1> HIDE DEF new
<1>5. /\ new \in SUBSET ops
      /\ Record(l, ops).seq \in Nat /\ l.seq <= Record(l, ops).seq
      /\ Kept(l.rows, new) \in SUBSET Record(l, ops).rows
  BY <1>1, <1>2, <1>3, <1>4
<1>6. ASSUME NEW o \in new
      PROVE  \E n \in Nat : /\ n \in (l.seq + 1)..Record(l, ops).seq
                            /\ n = PositionOf(l.seq, new, o)
                            /\ AtPosition(o, n) \in Record(l, ops).rows
  BY <1>2, <1>3, <1>4
<1>7. ASSUME NEW r \in Record(l, ops).rows
      PROVE  \/ r \in Kept(l.rows, new)
             \/ \E o \in new :
                   /\ r = AtPosition(o, PositionOf(l.seq, new, o))
                   /\ PositionOf(l.seq, new, o) \in (l.seq + 1)..Record(l, ops).seq
  BY <1>3, <1>4
<1> QED
  BY <1>5, <1>6, <1>7 DEF new

\* A row of a record is a kept one, or a written operation at a new position.
LEMMA RecordedRow ==
    ASSUME NEW l, WellFormed(l), NEW ops, Batch(l, ops),
           NEW r \in Record(l, ops).rows,
           r \notin Kept(l.rows, Written(l.rows, ops))
    PROVE  \E o \in Written(l.rows, ops) :
             \E n \in (l.seq + 1)..Record(l, ops).seq :
               /\ o \in ops /\ o \in Op /\ n \in Nat
               /\ r = AtPosition(o, n)
<1>1. PICK o \in Written(l.rows, ops) :
         /\ r = AtPosition(o, PositionOf(l.seq, Written(l.rows, ops), o))
         /\ PositionOf(l.seq, Written(l.rows, ops), o) \in (l.seq + 1)..Record(l, ops).seq
  BY RecordRows
<1>2. o \in ops /\ o \in Op
  BY RecordRows DEF Batch
<1>3. l.seq \in Nat /\ Record(l, ops).seq \in Nat
  BY RecordRows DEF WellFormed
<1> QED
  BY <1>1, <1>2, <1>3

\* Recording keeps a log well formed, and only moves its position on.
LEMMA RecordWellFormed ==
    ASSUME NEW l, WellFormed(l), NEW ops, Batch(l, ops)
    PROVE  WellFormed(Record(l, ops))
<1> DEFINE new == Written(l.rows, ops)
           kept == Kept(l.rows, new)
           R == Record(l, ops)
           pos(o) == PositionOf(l.seq, new, o)
<1>1. R = [rows |-> R.rows, seq |-> R.seq]
  BY DEF Record, Appended
<1>2. new \in SUBSET Op /\ IsFiniteSet(new) /\ l.seq \in Nat /\ R.seq \in Nat /\ l.seq <= R.seq
  BY RecordRows, FS_Subset DEF Batch, WellFormed
<1>3. \A r \in kept : /\ r \in Row /\ r \in l.rows
                       /\ r.seq \in 1..l.seq /\ SaysOneThing(r)
                       /\ \A o \in new : ~Matches(r, o)
  BY DEF WellFormed, Kept
<1>4. \A r \in R.rows \ kept : \E o \in new : r = AtPosition(o, pos(o)) /\ pos(o) \in (l.seq + 1)..R.seq
  BY RecordRows
<1>5. \A o \in new : pos(o) \in Nat =>
          /\ AtPosition(o, pos(o)) \in Row
          /\ AtPosition(o, pos(o)).id = o.id
          /\ AtPosition(o, pos(o)).addr = o.addr
          /\ AtPosition(o, pos(o)).seq = pos(o)
          /\ SaysOneThing(AtPosition(o, pos(o)))
  BY <1>2, PlacedRow
<1>6. \A o, p \in new : o.id < p.id => pos(o) < pos(p)
  BY <1>2, Positions
<1>7. \A o, p \in new : o.id = p.id \/ SameAddress(o, p) => o = p
  <2>1. ASSUME NEW o \in new, NEW p \in new, o.id = p.id PROVE o = p
    BY <2>1 DEF Batch, Written
  <2>2. ASSUME NEW o \in new, NEW p \in new, SameAddress(o, p) PROVE o = p
    <3>1. o.id <= p.id /\ p.id <= o.id /\ o.id \in Nat /\ p.id \in Nat
      BY <2>2, <1>2, IdsAreNumbers DEF Written, SameAddress, Op
    <3> QED
      BY <3>1, <2>1
  <2> QED
    BY <2>1, <2>2
<1>n. \A o \in new : o.id \in Nat
  BY <1>2, IdsAreNumbers DEF Op
<1> HIDE DEF new, kept, R, pos
<1>8. \A r \in R.rows : r \in Row /\ r.seq \in 1..R.seq /\ SaysOneThing(r)
  <2> TAKE r \in R.rows
  <2>1. CASE r \in kept
    BY <2>1, <1>2, <1>3
  <2>2. CASE r \notin kept
    BY <2>2, <1>2, <1>4, <1>5
  <2> QED
    BY <2>1, <2>2
<1>9. ASSUME NEW r \in R.rows, NEW s \in R.rows, r.id = s.id \/ SameAddress(r, s) \/ r.seq = s.seq
      PROVE  r = s
  <2>1. CASE r \in kept /\ s \in kept
    BY <2>1, <1>3, <1>9 DEF WellFormed, OneEach
  <2>2. CASE r \in kept /\ s \notin kept
    <3>1. PICK o \in new : s = AtPosition(o, pos(o)) /\ pos(o) \in (l.seq + 1)..R.seq
      BY <2>2, <1>4
    <3>2. ~Matches(r, o) /\ r.seq \in 1..l.seq
      BY <2>2, <1>3
    <3> QED
      BY <3>1, <3>2, <1>2, <1>5, <1>9 DEF Matches, SameAddress
  <2>3. CASE s \in kept /\ r \notin kept
    <3>1. PICK o \in new : r = AtPosition(o, pos(o)) /\ pos(o) \in (l.seq + 1)..R.seq
      BY <2>3, <1>4
    <3>2. ~Matches(s, o) /\ s.seq \in 1..l.seq
      BY <2>3, <1>3
    <3> QED
      BY <3>1, <3>2, <1>2, <1>5, <1>9 DEF Matches, SameAddress
  <2>4. CASE r \notin kept /\ s \notin kept
    <3>1. PICK o \in new : r = AtPosition(o, pos(o)) /\ pos(o) \in (l.seq + 1)..R.seq
      BY <2>4, <1>4
    <3>2. PICK p \in new : s = AtPosition(p, pos(p)) /\ pos(p) \in (l.seq + 1)..R.seq
      BY <2>4, <1>4
    <3>3. o.id = p.id \/ SameAddress(o, p) \/ pos(o) = pos(p)
      BY <3>1, <3>2, <1>2, <1>5, <1>9 DEF SameAddress
    <3>4. o = p
      BY <3>1, <3>2, <3>3, <1>2, <1>6, <1>7, <1>n
    <3> QED
      BY <3>1, <3>2, <3>4
  <2> QED
    BY <2>1, <2>2, <2>3, <2>4
<1> QED
  BY <1>1, <1>2, <1>8, <1>9 DEF WellFormed, OneEach, R

----------------------------------------------------------------------------
(* What a record makes of the log's content. *)

\* A row and an operation that match say the same kind of thing.
LEMMA MatchingKinds ==
    ASSUME NEW l, WellFormed(l), NEW ops, Batch(l, ops),
           NEW r \in l.rows, NEW o \in ops, Matches(r, o)
    PROVE  r.kind = o.kind
<1>1. CASE r.id = o.id
  BY <1>1 DEF Batch, OpOf
<1>2. CASE SameAddress(r, o)
  BY <1>2 DEF Batch, WellFormed, Op, SaysOneThing, SameAddress
<1> QED
  BY <1>1, <1>2 DEF Matches

\* The removals of a log are the same after a batch that holds none.
LEMMA SameRemovals ==
    ASSUME NEW l, WellFormed(l), NEW ops, Batch(l, ops),
           \A o \in ops : o.kind # "forget",
           NEW f, f.kind = "forget"
    PROVE  f \in l.rows <=> f \in Record(l, ops).rows
<1> DEFINE new == Written(l.rows, ops)
<1>1. ASSUME f \in l.rows PROVE f \in Record(l, ops).rows
  <2>0. new \in SUBSET ops
    BY RecordRows
  <2>1. \A o \in ops : ~Matches(f, o)
    BY <1>1, MatchingKinds
  <2> QED
    BY <1>1, <2>0, <2>1, RecordRows DEF Kept
<1>2. ASSUME f \in Record(l, ops).rows PROVE f \in l.rows
  <2>1. ASSUME NEW o \in ops, NEW n \in Nat, f = AtPosition(o, n) PROVE FALSE
    BY <2>1 DEF AtPosition
  <2>2. f \in Kept(l.rows, new)
    BY <1>2, <2>1, RecordedRow
  <2> QED
    BY <2>2 DEF Kept
<1> QED
  BY <1>1, <1>2

\* After a batch without a removal the log's live operations are the live ones
\* no operation of the batch replaces, and the ones it writes.
LEMMA LiveAfterRecord ==
    ASSUME NEW l, WellFormed(l), NEW ops, Batch(l, ops),
           \A o \in ops : o.kind # "forget"
    PROVE  LiveOps(Record(l, ops).rows) =
             {OpOf(r) : r \in {r \in Live(l.rows) : r \in Kept(l.rows, Written(l.rows, ops))}}
             \cup Written(l.rows, ops)
<1> DEFINE new == Written(l.rows, ops)
           kept == Kept(l.rows, new)
           R == Record(l, ops)
<1>1. \A f : f.kind = "forget" => (f \in l.rows <=> f \in R.rows)
  BY SameRemovals
<1>2. \A r \in kept : r \in l.rows /\ r \in R.rows /\ (r \in Live(R.rows) <=> r \in Live(l.rows))
  BY <1>1, RecordRows DEF Live, Forgotten, Kept
<1>3. ASSUME NEW o \in new
      PROVE  \E r \in Live(R.rows) : OpOf(r) = o
  <2>1. PICK n \in Nat : n \in (l.seq + 1)..R.seq /\ AtPosition(o, n) \in R.rows
    BY RecordRows
  <2>2. o \in Op /\ o.kind # "forget" /\ l.seq \in Nat
    BY RecordRows DEF Batch, WellFormed
  <2>3. /\ OpOf(AtPosition(o, n)) = o
        /\ AtPosition(o, n).kind = o.kind
        /\ AtPosition(o, n).seq = n
    BY <2>2, PlacedRow
  <2>4. \A f \in R.rows : f.kind = "forget" => f.seq \in 1..l.seq
    BY <1>1 DEF WellFormed
  <2>5. AtPosition(o, n) \in Live(R.rows)
    BY <2>1, <2>2, <2>3, <2>4 DEF Live, Forgotten
  <2> QED
    BY <2>3, <2>5
<1>4. ASSUME NEW r \in Live(R.rows)
      PROVE  (r \in kept /\ r \in Live(l.rows)) \/ OpOf(r) \in new
  <2>1. r \in R.rows
    BY DEF Live
  <2>2. CASE r \in kept
    BY <2>2, <1>2
  <2>3. CASE r \notin kept
    <3>1. PICK o \in new, n \in (l.seq + 1)..R.seq :
             o \in Op /\ n \in Nat /\ r = AtPosition(o, n)
      BY <2>1, <2>3, RecordedRow
    <3> QED
      BY <3>1, PlacedRow
  <2> QED
    BY <2>2, <2>3
<1> HIDE DEF new, kept, R
<1>5. LiveOps(R.rows) = {OpOf(r) : r \in {r \in Live(l.rows) : r \in kept}} \cup new
  BY <1>2, <1>3, <1>4 DEF LiveOps
<1> QED
  BY <1>5 DEF new, kept, R

\* After a batch without a removal the log's live operations are the union of
\* those it had and the batch: the oldest of each address, and every operation
\* without one.
LEMMA RecordIsUnion ==
    ASSUME NEW l, WellFormed(l), NEW ops, Batch(l, ops),
           \A o \in ops : o.kind # "forget"
    PROVE  LiveOps(Record(l, ops).rows) = Union(LiveOps(l.rows) \cup ops)
<1> DEFINE new == Written(l.rows, ops)
           kept == Kept(l.rows, new)
           L == LiveOps(l.rows)
<1>1. LiveOps(Record(l, ops).rows) = {OpOf(r) : r \in {r \in Live(l.rows) : r \in kept}} \cup new
  BY LiveAfterRecord
<1>2. \A r \in Live(l.rows) : /\ r \in l.rows /\ r.kind # "forget" /\ ~Forgotten(l.rows, r)
                              /\ r \in Row /\ r.id \in Nat /\ OpOf(r) \in Op
                              /\ OpOf(r).id = r.id /\ OpOf(r).addr = r.addr
  BY IdsAreNumbers DEF Live, WellFormed, OpOf, Row, Op, SaysOneThing
<1>3. /\ new \in SUBSET ops
      /\ \A o \in ops : o \in Op /\ o.id \in Nat
  BY RecordRows, IdsAreNumbers DEF Batch, Op
<1>4. \A o \in new : /\ ~Answers(l.rows, o)
                     /\ \A p \in ops : SameAddress(p, o) => o.id <= p.id
  BY DEF Written
<1>5. \A o \in ops : \/ o \in new
                     \/ Answers(l.rows, o)
                     \/ \E p \in ops : SameAddress(p, o) /\ ~(o.id <= p.id)
  BY DEF Written
<1>6. \A r, s \in l.rows : r.id = s.id \/ SameAddress(r, s) => r = s
  BY DEF WellFormed, OneEach
<1>7. \A r \in l.rows, o \in ops : r.id = o.id => OpOf(r) = o
  BY DEF Batch
<1> HIDE DEF new
<1>8. ASSUME NEW r \in Live(l.rows), r \in kept
      PROVE  OpOf(r) \in Union(L \cup ops)
  <2> DEFINE x == OpOf(r)
  <2>1. ASSUME NEW p \in L, SameAddress(p, x) PROVE x.id <= p.id
    <3>1. PICK s \in Live(l.rows) : p = OpOf(s)
      BY DEF LiveOps
    <3>2. SameAddress(r, s)
      BY <2>1, <3>1, <1>2 DEF SameAddress
    <3> QED
      BY <3>1, <3>2, <1>2, <1>6
  <2>2. ASSUME NEW p \in ops, SameAddress(p, x), ~(x.id <= p.id) PROVE FALSE
    <3>1. x \in Op /\ SameAddress(x, x) /\ x.id = r.id /\ x.addr = r.addr
      BY <2>2, <1>2 DEF SameAddress
    <3>2. PICK q \in ops : /\ SameAddress(q, x) /\ q.id <= p.id
                           /\ \A o \in ops : SameAddress(o, x) => q.id <= o.id
      BY <3>1, <2>2, <1>3, OldestExists
    <3>3. \A o \in ops : SameAddress(o, q) => q.id <= o.id
      BY <3>2 DEF SameAddress
    <3>4. q.id < r.id
      BY <3>1, <3>2, <2>2, <1>2, <1>3
    <3>5. ASSUME NEW s \in l.rows, Matches(s, q), s.id <= q.id PROVE FALSE
      <4>1. SameAddress(s, r)
        BY <3>1, <3>2, <3>5, <1>7 DEF Matches, SameAddress, OpOf
      <4>2. s = r
        BY <4>1, <1>2, <1>6
      <4> QED
        BY <4>2, <3>4, <3>5, <1>2, <1>3
    <3>6. q \in new
      BY <3>3, <3>5, <1>3, <1>5 DEF Answers
    <3>7. Matches(r, q)
      BY <3>1, <3>2 DEF Matches, SameAddress
    <3> QED
      BY <3>6, <3>7, <1>8 DEF Kept
  <2>3. x \in L
    BY DEF LiveOps
  <2> QED
    BY <2>1, <2>2, <2>3 DEF Union
<1>9. ASSUME NEW o \in new
      PROVE  o \in Union(L \cup ops)
  <2>1. ASSUME NEW p \in L, SameAddress(p, o) PROVE o.id <= p.id
    <3>1. PICK s \in Live(l.rows) : p = OpOf(s)
      BY DEF LiveOps
    <3>2. Matches(s, o)
      BY <2>1, <3>1, <1>2 DEF SameAddress, Matches
    <3>3. ~(s.id <= o.id)
      BY <3>2, <1>2, <1>4 DEF Answers
    <3> QED
      BY <3>1, <3>3, <1>2, <1>3
  <2> QED
    BY <2>1, <1>3, <1>4 DEF Union
<1>10. ASSUME NEW x \in L, x \in Union(L \cup ops)
       PROVE  \E r \in Live(l.rows) : r \in kept /\ x = OpOf(r)
  <2>1. PICK r \in Live(l.rows) : x = OpOf(r)
    BY DEF LiveOps
  <2>2. ASSUME NEW o \in new, Matches(r, o) PROVE FALSE
    <3>1. r.id <= o.id
      <4>1. CASE r.id = o.id
        BY <4>1, <1>2
      <4>2. CASE SameAddress(r, o)
        <5>1. SameAddress(o, x) /\ o \in ops
          BY <4>2, <2>1, <1>2, <1>3 DEF SameAddress
        <5> QED
          BY <5>1, <1>10, <2>1, <1>2 DEF Union
      <4> QED
        BY <4>1, <4>2, <2>2 DEF Matches
    <3> QED
      BY <3>1, <2>2, <1>2, <1>4 DEF Answers
  <2>3. r \in kept
    BY <2>2, <1>2 DEF Kept
  <2> QED
    BY <2>1, <2>3
<1>11. ASSUME NEW x \in ops, x \in Union(L \cup ops)
       PROVE  x \in new \/ x \in L
  <2>1. \A p \in ops : SameAddress(p, x) => x.id <= p.id
    BY <1>11 DEF Union
  <2>2. CASE Answers(l.rows, x)
    <3>1. PICK r \in l.rows : Matches(r, x) /\ ~Forgotten(l.rows, r) /\ r.id <= x.id
      BY <2>2 DEF Answers
    <3>2. r.kind = x.kind
      BY <3>1, MatchingKinds
    <3>3. r \in Live(l.rows)
      BY <3>1, <3>2 DEF Live
    <3>4. OpOf(r) \in L
      BY <3>3 DEF LiveOps
    <3>5. CASE r.id = x.id
      BY <3>4, <3>5, <1>7
    <3>6. CASE SameAddress(r, x)
      <4>1. SameAddress(OpOf(r), x)
        BY <3>6 DEF SameAddress, OpOf
      <4>2. x.id <= r.id
        BY <4>1, <3>3, <3>4, <1>2, <1>11 DEF Union
      <4>3. r.id = x.id
        BY <4>2, <3>1, <3>3, <1>2, <1>3
      <4> QED
        BY <4>3, <3>4, <1>7
    <3> QED
      BY <3>1, <3>5, <3>6 DEF Matches
  <2>3. CASE ~Answers(l.rows, x)
    BY <2>1, <2>3, <1>5
  <2> QED
    BY <2>2, <2>3
<1> HIDE DEF kept, L
<1>12. Union(L \cup ops) \subseteq L \cup ops
  BY DEF Union
<1>13. {OpOf(r) : r \in {r \in Live(l.rows) : r \in kept}} \cup new = Union(L \cup ops)
  BY <1>8, <1>9, <1>10, <1>11, <1>12
<1> QED
  BY <1>1, <1>13 DEF new, kept, L

\* A union can be taken in steps.
LEMMA UnionInSteps ==
    ASSUME NEW S \in SUBSET Op, NEW T \in SUBSET Op
    PROVE  Union(Union(S) \cup T) = Union(S \cup T)
<1>1. Union(S) \subseteq S
  BY DEF Union
<1>2. ASSUME NEW x \in S \cup T, NEW p \in S, SameAddress(p, x),
             \A q \in Union(S) : SameAddress(q, x) => x.id <= q.id
      PROVE  x.id <= p.id
  <2>1. x \in Op /\ SameAddress(x, x)
    BY <1>2 DEF SameAddress
  <2>2. PICK q \in S : /\ SameAddress(q, x) /\ q.id <= p.id
                       /\ \A o \in S : SameAddress(o, x) => q.id <= o.id
    BY <2>1, <1>2, OldestExists
  <2>3. \A o \in S : SameAddress(o, q) => q.id <= o.id
    BY <2>2 DEF SameAddress
  <2>4. q \in Union(S)
    BY <2>3 DEF Union
  <2>5. x.id <= q.id /\ x.id \in Nat /\ q.id \in Nat /\ p.id \in Nat
    BY <2>1, <2>2, <2>4, <1>2, IdsAreNumbers DEF Op
  <2> QED
    BY <2>2, <2>5
<1>3. ASSUME NEW x \in Union(Union(S) \cup T) PROVE x \in Union(S \cup T)
  BY <1>1, <1>2, <1>3 DEF Union
<1>4. ASSUME NEW x \in Union(S \cup T) PROVE x \in Union(Union(S) \cup T)
  BY <1>1, <1>4 DEF Union
<1> QED
  BY <1>3, <1>4

\* A batch leaves the rows of the edition as they are, or its last row is new.
LEMMA EditsAfterRecord ==
    ASSUME NEW l, WellFormed(l), NEW ops, Batch(l, ops)
    PROVE  \/ Edits(Record(l, ops).rows) = Edits(l.rows)
           \/ \E r \in Edits(Record(l, ops).rows) : l.seq < r.seq
<1> DEFINE new == Written(l.rows, ops)
           kept == Kept(l.rows, new)
           R == Record(l, ops)
<1> SUFFICES ASSUME \A r \in Edits(R.rows) : ~(l.seq < r.seq)
             PROVE  Edits(R.rows) = Edits(l.rows)
  OBVIOUS
<1>1. new \in SUBSET ops /\ new \in SUBSET Op /\ l.seq \in Nat
  BY RecordRows DEF Batch, WellFormed
<1>2. ASSUME NEW o \in new PROVE o.kind # "edit"
  <2>1. PICK n \in Nat : n \in (l.seq + 1)..R.seq /\ AtPosition(o, n) \in R.rows
    BY RecordRows
  <2>2. AtPosition(o, n).seq = n /\ AtPosition(o, n).kind = o.kind
    BY <1>1, PlacedRow
  <2> QED
    BY <1>1, <2>1, <2>2 DEF Edits
<1>3. ASSUME NEW r \in Edits(l.rows) PROVE r \in Edits(R.rows)
  <2>1. \A o \in new : ~Matches(r, o)
    BY <1>1, <1>2, MatchingKinds DEF Edits
  <2> QED
    BY <2>1, RecordRows DEF Edits, Kept
<1>4. ASSUME NEW r \in Edits(R.rows) PROVE r \in Edits(l.rows)
  <2>1. CASE r \in kept
    BY <2>1 DEF Edits, Kept
  <2>2. CASE r \notin kept
    <3>1. PICK o \in new, n \in (l.seq + 1)..R.seq :
             o \in Op /\ n \in Nat /\ r = AtPosition(o, n)
      BY <2>2, RecordedRow DEF Edits
    <3> QED
      BY <3>1, <1>2, PlacedRow DEF Edits
  <2> QED
    BY <2>1, <2>2
<1> QED
  BY <1>3, <1>4

----------------------------------------------------------------------------
(* A batch is recorded one operation at a time *)

LEMMA RecordNothing ==
    ASSUME NEW l, WellFormed(l)
    PROVE  Record(l, {}) = l
<1>1. Written(l.rows, {}) = {} /\ Kept(l.rows, {}) = l.rows
  BY DEF Written, Kept
<1>2. Cardinality({}) = 0 /\ l.seq + 0 = l.seq
  BY FS_EmptySet DEF WellFormed
<1>3. Appended(l.rows, {}, l.seq) = [rows |-> l.rows, seq |-> l.seq]
  BY <1>2 DEF Appended
<1> QED
  BY <1>1, <1>3 DEF Record, WellFormed

\* Whether the newest operation of a batch is written does not change when the
\* others have been recorded before it.
LEMMA NewestIsWritten ==
    ASSUME NEW l, WellFormed(l), NEW ops, Batch(l, ops),
           \A o \in ops : o.kind # "forget",
           NEW m \in ops, \A o \in ops : o.id <= m.id
    PROVE  /\ Written(l.rows, ops \ {m}) = Written(l.rows, ops) \ {m}
           /\ m \in Written(l.rows, ops) <=> ~Answers(Record(l, ops \ {m}).rows, m)
           /\ m \in Written(l.rows, ops) =>
                 \A o \in Written(l.rows, ops \ {m}) : ~SameAddress(o, m)
           /\ Batch(l, ops \ {m})
<1> DEFINE rest == ops \ {m}
           new == Written(l.rows, ops)
           before == Written(l.rows, rest)
           R == Record(l, rest)
<1>0. /\ Batch(l, rest)
      /\ ops \in SUBSET Op
      /\ \A o \in rest : o.kind # "forget"
  BY FS_Subset DEF Batch
<1>1. /\ \A o \in ops : o.id \in Nat
      /\ \A o \in rest : o.id < m.id /\ ~(m.id <= o.id)
  <2>1. \A o \in ops : o.id \in Nat
    BY <1>0, IdsAreNumbers DEF Op
  <2>2. \A o \in rest : o.id # m.id
    BY DEF Batch
  <2> QED
    BY <2>1, <2>2
<1>2. before = new \ {m}
  <2>1. \A o \in rest : SameAddress(m, o) => o.id <= m.id
    OBVIOUS
  <2> QED
    BY <2>1 DEF Written
<1>3. \A f : f.kind = "forget" => (f \in l.rows <=> f \in R.rows)
  BY <1>0, SameRemovals
<1>4. \A r \in l.rows : Forgotten(R.rows, r) <=> Forgotten(l.rows, r)
  BY <1>3 DEF Forgotten
<1>r. /\ before \in SUBSET rest
      /\ Kept(l.rows, before) \in SUBSET R.rows
      /\ \A o \in before : \E n \in Nat : n \in (l.seq + 1)..R.seq /\ AtPosition(o, n) \in R.rows
  BY <1>0, RecordRows
<1>5. ASSUME NEW o \in before, SameAddress(o, m) PROVE Answers(R.rows, m)
  <2>1. PICK n \in Nat : n \in (l.seq + 1)..R.seq /\ AtPosition(o, n) \in R.rows
    BY <1>r
  <2>2. o \in Op /\ o.id < m.id /\ l.seq \in Nat /\ o.id \in Nat /\ m.id \in Nat
    BY <1>r, <1>0, <1>1 DEF WellFormed
  <2>3. /\ AtPosition(o, n).id = o.id
        /\ AtPosition(o, n).addr = o.addr
        /\ AtPosition(o, n).seq = n
    BY <2>2, PlacedRow
  <2>4. Matches(AtPosition(o, n), m) /\ AtPosition(o, n).id <= m.id
    BY <1>5, <2>2, <2>3 DEF Matches, SameAddress
  <2>5. \A f \in R.rows : f.kind = "forget" => f.seq \in 1..l.seq
    BY <1>3 DEF WellFormed
  <2>6. ~Forgotten(R.rows, AtPosition(o, n))
    <3>1. l.seq < n
      BY <2>1, <2>2
    <3>2. \A f \in R.rows : f.kind = "forget" => ~(n < f.seq)
      BY <2>2, <2>5, <3>1
    <3> QED
      BY <2>3, <3>2 DEF Forgotten
  <2> QED
    BY <2>1, <2>4, <2>6 DEF Answers
<1>6. ASSUME Answers(l.rows, m) PROVE Answers(R.rows, m)
  <2>1. PICK r \in l.rows : Matches(r, m) /\ ~Forgotten(l.rows, r) /\ r.id <= m.id
    BY <1>6 DEF Answers
  <2>2. CASE r \in Kept(l.rows, before)
    BY <2>1, <2>2, <1>r, <1>4 DEF Answers
  <2>3. CASE r \notin Kept(l.rows, before)
    <3>1. PICK o \in before : Matches(r, o)
      BY <2>3 DEF Kept
    <3>2. o \in rest /\ ~Answers(l.rows, o)
      BY <1>r DEF Written
    <3>3. r.id # o.id
      <4>1. ~(r.id <= o.id)
        BY <2>1, <3>1, <3>2 DEF Answers
      <4> QED
        BY <4>1, <3>2, <1>1
    <3>4. SameAddress(r, o)
      BY <3>1, <3>3 DEF Matches
    <3>5. SameAddress(o, m)
      <4>1. CASE r.id = m.id
        <5>1. OpOf(r) = m
          BY <4>1 DEF Batch
        <5>2. r.addr = m.addr
          BY <5>1 DEF OpOf
        <5> QED
          BY <5>2, <3>4 DEF SameAddress
      <4>2. CASE SameAddress(r, m)
        BY <4>2, <3>4 DEF SameAddress
      <4> QED
        BY <4>1, <4>2, <2>1 DEF Matches
    <3> QED
      BY <3>5, <1>5
  <2> QED
    BY <2>2, <2>3
<1>7. ASSUME m \notin new PROVE Answers(R.rows, m)
  <2>1. CASE Answers(l.rows, m)
    BY <2>1, <1>6
  <2>2. CASE ~Answers(l.rows, m)
    <3>1. PICK p \in ops : SameAddress(p, m) /\ ~(m.id <= p.id)
      BY <1>7, <2>2 DEF Written
    <3>2. p \in rest /\ SameAddress(m, m) /\ m \in Op /\ rest \in SUBSET Op
      BY <3>1, <1>0, <1>1 DEF SameAddress
    <3>3. PICK q \in rest : /\ SameAddress(q, m)
                            /\ \A o \in rest : SameAddress(o, m) => q.id <= o.id
      <4> HIDE DEF rest
      <4> QED
        BY <3>1, <3>2, OldestExists
    <3>4. \A o \in rest : SameAddress(o, q) => q.id <= o.id
      BY <3>3 DEF SameAddress
    <3>5. CASE Answers(l.rows, q)
      <4>1. PICK r \in l.rows : Matches(r, q) /\ ~Forgotten(l.rows, r) /\ r.id <= q.id
        BY <3>5 DEF Answers
      <4>2. SameAddress(r, q)
        <5>1. CASE r.id = q.id
          <6>1. OpOf(r) = q
            BY <5>1, <3>3 DEF Batch
          <6> QED
            BY <6>1, <3>3 DEF OpOf, SameAddress
        <5> QED
          BY <5>1, <4>1 DEF Matches
      <4>3. Matches(r, m)
        BY <4>2, <3>3 DEF SameAddress, Matches
      <4>4. r.id <= m.id
        <5>1. r.id \in Nat
          BY IdsAreNumbers DEF WellFormed, Row
        <5> QED
          BY <5>1, <4>1, <3>3, <1>1
      <4>5. Answers(l.rows, m)
        BY <4>1, <4>3, <4>4 DEF Answers
      <4> QED
        BY <4>5, <2>2
    <3>6. CASE ~Answers(l.rows, q)
      <4>1. q \in before
        BY <3>3, <3>4, <3>6 DEF Written
      <4> QED
        BY <4>1, <3>3, <1>5
    <3> QED
      BY <3>5, <3>6
  <2> QED
    BY <2>1, <2>2
<1>8. ASSUME m \in new, NEW o \in before PROVE ~SameAddress(o, m)
  <2>1. o \in rest
    BY <1>r
  <2> QED
    BY <2>1, <1>8, <1>1 DEF Written
<1>9. ASSUME m \in new, Answers(R.rows, m) PROVE FALSE
  <2>1. PICK r \in R.rows : Matches(r, m) /\ ~Forgotten(R.rows, r) /\ r.id <= m.id
    BY <1>9 DEF Answers
  <2>2. CASE r \in Kept(l.rows, before)
    <3>1. r \in l.rows
      BY <2>2 DEF Kept
    <3>2. Answers(l.rows, m)
      BY <3>1, <2>1, <1>4 DEF Answers
    <3> QED
      BY <3>2, <1>9 DEF Written
  <2>3. CASE r \notin Kept(l.rows, before)
    <3>1. PICK o \in before : \E n \in Nat : o \in rest /\ o \in Op /\ r = AtPosition(o, n)
      <4> HIDE DEF rest
      <4>1. \E o \in Written(l.rows, rest) : \E n \in (l.seq + 1)..Record(l, rest).seq :
               o \in rest /\ o \in Op /\ n \in Nat /\ r = AtPosition(o, n)
        BY <1>0, <2>1, <2>3, RecordedRow
      <4> QED
        BY <4>1
    <3>2. r.id = o.id /\ r.addr = o.addr
      BY <3>1, PlacedRow
    <3>3. r.id # m.id
      BY <3>1, <3>2, <1>1
    <3>4. SameAddress(o, m)
      BY <2>1, <3>2, <3>3 DEF Matches, SameAddress
    <3> QED
      BY <3>4, <1>8, <1>9
  <2> QED
    BY <2>2, <2>3
<1> QED
  BY <1>0, <1>2, <1>7, <1>8, <1>9

\* A batch is recorded as all of it but its newest operation, and then that one.
LEMMA RecordOneMore ==
    ASSUME NEW l, WellFormed(l), NEW ops, Batch(l, ops),
           \A o \in ops : o.kind # "forget",
           NEW m \in ops, \A o \in ops : o.id <= m.id
    PROVE  Record(l, ops) = Record(Record(l, ops \ {m}), {m})
<1> DEFINE rest == ops \ {m}
           new == Written(l.rows, ops)
           before == Written(l.rows, rest)
           R == Record(l, rest)
<1>1. /\ before = new \ {m}
      /\ m \in new <=> ~Answers(R.rows, m)
      /\ m \in new => \A o \in before : ~SameAddress(o, m)
      /\ Batch(l, rest)
  BY NewestIsWritten
<1>2. /\ before \in SUBSET rest /\ IsFiniteSet(before)
      /\ Cardinality(before) \in Nat /\ l.seq \in Nat
      /\ before \in SUBSET Op /\ m \in Op
      /\ \A o \in rest : o.id < m.id /\ o.id \in Nat /\ m.id \in Nat
  <2>1. before \in SUBSET rest /\ IsFiniteSet(rest) /\ rest \in SUBSET Op /\ m \in Op
    BY <1>1 DEF Batch, Written
  <2>2. IsFiniteSet(before) /\ Cardinality(before) \in Nat
    BY <2>1, FS_Subset, FS_CardinalityType
  <2>3. \A o \in ops : o.id \in Nat
    BY IdsAreNumbers DEF Op, Batch
  <2>4. \A o \in rest : o.id # m.id
    BY DEF Batch
  <2> QED
    BY <2>1, <2>2, <2>3, <2>4 DEF WellFormed
<1>3. R.rows = Kept(l.rows, before) \cup {AtPosition(o, PositionOf(l.seq, before, o)) : o \in before}
      /\ R.seq = l.seq + Cardinality(before)
  BY DEF Record, Appended
<1>4. Record(l, ops) = [rows |-> Kept(l.rows, new) \cup {AtPosition(o, PositionOf(l.seq, new, o)) : o \in new},
                        seq  |-> l.seq + Cardinality(new)]
  BY DEF Record, Appended
<1>5. CASE m \notin new
  <2>1. before = new
    BY <1>1, <1>5
  <2>2. R = Record(l, ops)
    BY <2>1 DEF Record
  <2>3. Written(R.rows, {m}) = {}
    BY <1>1, <1>5 DEF Written
  <2>4. Record(R, {m}) = Appended(Kept(R.rows, {}), {}, R.seq)
    BY <2>3 DEF Record
  <2>5. Kept(R.rows, {}) = R.rows /\ R.seq + Cardinality({}) = R.seq
    <3>1. Kept(R.rows, {}) = R.rows
      BY DEF Kept
    <3>2. Cardinality({}) = 0
      BY FS_EmptySet
    <3>3. R.seq \in Nat
      BY <1>1, RecordRows
    <3> QED
      BY <3>1, <3>2, <3>3
  <2>6. Record(R, {m}) = [rows |-> R.rows, seq |-> R.seq]
    BY <2>4, <2>5 DEF Appended
  <2>7. R = [rows |-> R.rows, seq |-> R.seq]
    BY DEF Record, Appended
  <2> QED
    BY <2>2, <2>6, <2>7
<1>6. CASE m \in new
  <2>1. Written(R.rows, {m}) = {m}
    BY <1>1, <1>2, <1>6 DEF Written
  <2>2. Record(R, {m}) = Appended(Kept(R.rows, {m}), {m}, R.seq)
    BY <2>1 DEF Record
  <2>3. new = before \cup {m} /\ m \notin before
    BY <1>1, <1>6
  <2>4. Cardinality(new) = Cardinality(before) + 1
    BY <2>3, <1>2, FS_AddElement
  <2>5. Cardinality({m}) = 1 /\ PositionOf(R.seq, {m}, m) = R.seq + 1
    <3>1. {p \in {m} : p.id <= m.id} = {m}
      OBVIOUS
    <3>2. Cardinality({m}) = 1
      BY FS_Singleton
    <3> QED
      BY <3>1, <3>2 DEF PositionOf
  <2>6. PositionOf(l.seq, new, m) = R.seq + 1
    <3>1. {p \in new : p.id <= m.id} = new
      BY DEF Written
    <3>2. PositionOf(l.seq, new, m) = l.seq + Cardinality(new)
      BY <3>1 DEF PositionOf
    <3>3. R.seq = l.seq + Cardinality(before)
      BY <1>3
    <3> QED
      BY <3>2, <3>3, <2>4, <1>2
  <2>7. ASSUME NEW o \in before PROVE PositionOf(l.seq, new, o) = PositionOf(l.seq, before, o)
    <3>1. ~(m.id <= o.id)
      BY <1>2
    <3>2. {p \in new : p.id <= o.id} = {p \in before : p.id <= o.id}
      BY <2>3, <3>1
    <3> QED
      BY <3>2 DEF PositionOf
  <2>8. \A o \in before : ~Matches(AtPosition(o, PositionOf(l.seq, before, o)), m)
    <3> SUFFICES ASSUME NEW o \in before
                 PROVE  ~Matches(AtPosition(o, PositionOf(l.seq, before, o)), m)
      OBVIOUS
    <3>1. /\ AtPosition(o, PositionOf(l.seq, before, o)).id = o.id
          /\ AtPosition(o, PositionOf(l.seq, before, o)).addr = o.addr
      BY DEF AtPosition
    <3>2. o.id < m.id /\ o.id \in Nat /\ m.id \in Nat
      BY <1>2
    <3>3. ~SameAddress(o, m)
      BY <1>1, <1>6
    <3> QED
      BY <3>1, <3>2, <3>3 DEF Matches, SameAddress
  <2> DEFINE placed == {AtPosition(o, PositionOf(l.seq, before, o)) : o \in before}
  <2>9. Kept(R.rows, {m}) = Kept(l.rows, new) \cup placed
    <3>1. Kept(R.rows, {m}) = {r \in Kept(l.rows, before) : ~Matches(r, m)} \cup placed
      BY <1>3, <2>8 DEF Kept
    <3>2. {r \in Kept(l.rows, before) : ~Matches(r, m)} = Kept(l.rows, new)
      BY <2>3 DEF Kept
    <3> QED
      BY <3>1, <3>2
  <2>10. {AtPosition(o, PositionOf(l.seq, new, o)) : o \in new} = placed \cup {AtPosition(m, R.seq + 1)}
    <3>1. {AtPosition(o, PositionOf(l.seq, new, o)) : o \in before} = placed
      BY <2>7
    <3>2. {AtPosition(o, PositionOf(l.seq, new, o)) : o \in new}
            = {AtPosition(o, PositionOf(l.seq, new, o)) : o \in before}
                \cup {AtPosition(m, PositionOf(l.seq, new, m))}
      BY <2>3
    <3> QED
      BY <3>1, <3>2, <2>6
  <2>11. {AtPosition(o, PositionOf(R.seq, {m}, o)) : o \in {m}} = {AtPosition(m, R.seq + 1)}
    BY <2>5
  <2>12. l.seq + Cardinality(new) = R.seq + 1
    BY <2>4, <1>2, <1>3
  <2> HIDE DEF placed
  <2>13. Record(R, {m}) = [rows |-> (Kept(l.rows, new) \cup placed) \cup {AtPosition(m, R.seq + 1)},
                           seq |-> R.seq + 1]
    BY <2>2, <2>5, <2>9, <2>11 DEF Appended
  <2>14. (Kept(l.rows, new) \cup placed) \cup {AtPosition(m, R.seq + 1)}
           = Kept(l.rows, new) \cup (placed \cup {AtPosition(m, R.seq + 1)})
    OBVIOUS
  <2> QED
    BY <2>10, <2>12, <2>13, <2>14, <1>4
<1> QED
  BY <1>5, <1>6

LEMMA LatestIs ==
    ASSUME NEW ops \in SUBSET Op, IsFiniteSet(ops), ops # {}
    PROVE  Latest(ops) \in ops /\ \A o \in ops : o.id <= Latest(ops).id
<1> DEFINE Bad == {S \in SUBSET ops : S # {} /\ ~\E m \in S : \A o \in S : o.id <= m.id}
           Sizes == {Cardinality(S) : S \in Bad}
<1>1. \A o \in ops : o.id \in Nat
  BY IdsAreNumbers DEF Op
<1>2. \A S \in SUBSET ops : IsFiniteSet(S) /\ Cardinality(S) \in Nat
  BY FS_Subset, FS_CardinalityType
<1>3. Bad = {}
  <2> SUFFICES ASSUME Bad # {} PROVE FALSE
    OBVIOUS
  <2>1. Sizes \in SUBSET Nat /\ Sizes # {}
    BY <1>2
  <2>2. PICK k \in Sizes : \A j \in Sizes : k <= j
    BY <2>1, LeastExists
  <2>3. PICK S \in Bad : k = Cardinality(S)
    BY <2>2
  <2>4. PICK x \in S : TRUE
    BY <2>3
  <2>5. Cardinality(S \ {x}) = k - 1 /\ k \in Nat
    BY <1>2, <2>3, <2>4, FS_RemoveElement
  <2>6. S \ {x} \notin Bad
    <3>1. S \ {x} \in Bad => k - 1 \in Sizes
      BY <2>5
    <3>2. k - 1 \notin Sizes
      <4> HIDE DEF Sizes
      <4> QED
        BY <2>2, <2>5
    <3> QED
      BY <3>1, <3>2
  <2>7. CASE S \ {x} = {}
    BY <2>3, <2>4, <2>7, <1>1
  <2>8. CASE S \ {x} # {}
    <3>1. PICK m \in S \ {x} : \A o \in S \ {x} : o.id <= m.id
      BY <2>6, <2>8, <2>3
    <3>2. m.id \in Nat /\ x.id \in Nat /\ \A o \in S : o.id \in Nat
      BY <3>1, <2>3, <2>4, <1>1
    <3>3. \E n \in S : \A o \in S : o.id <= n.id
      <4>1. CASE x.id <= m.id
        BY <3>1, <4>1
      <4>2. CASE m.id <= x.id
        <5>1. \A o \in S : o.id <= x.id
          BY <3>1, <3>2, <4>2
        <5> QED
          BY <5>1, <2>4
      <4> QED
        BY <4>1, <4>2, <3>2
    <3> QED
      BY <3>3, <2>3
  <2> QED
    BY <2>7, <2>8
<1>4. \E m \in ops : \A o \in ops : o.id <= m.id
  BY <1>3
<1> QED
  BY <1>4 DEF Latest

\* The loop over a batch leaves what the one definition of a record says: of the
\* batches within this one take a least for which it does not.
LEMMA RecordIsTheLoop ==
    ASSUME NEW l, WellFormed(l), NEW ops, Batch(l, ops),
           \A o \in ops : o.kind # "forget"
    PROVE  RecordInSequence(l, ops) = Record(l, ops)
<1> DEFINE step(a, s) == IF s = {} THEN l ELSE Record(a[s \ {Latest(s)}], {Latest(s)})
           whole == [s \in SUBSET ops |-> Record(l, s)]
           after == CHOOSE a : a = [s \in SUBSET ops |-> step(a, s)]
           Bad == {s \in SUBSET ops : after[s] # Record(l, s)}
           Sizes == {Cardinality(s) : s \in Bad}
<1>1. ASSUME NEW s \in SUBSET ops
      PROVE  /\ IsFiniteSet(s) /\ Cardinality(s) \in Nat
             /\ s # {} => /\ Latest(s) \in s
                          /\ Record(l, s) = Record(Record(l, s \ {Latest(s)}), {Latest(s)})
  <2>1. IsFiniteSet(s) /\ s \in SUBSET Op /\ Batch(l, s)
    BY FS_Subset DEF Batch
  <2>2. Cardinality(s) \in Nat
    BY <2>1, FS_CardinalityType
  <2>3. ASSUME s # {}
        PROVE  /\ Latest(s) \in s
               /\ Record(l, s) = Record(Record(l, s \ {Latest(s)}), {Latest(s)})
    <3>1. Latest(s) \in s /\ \A o \in s : o.id <= Latest(s).id
      BY <2>1, <2>3, LatestIs
    <3>2. \A o \in s : o.kind # "forget"
      OBVIOUS
    <3> QED
      BY <2>1, <3>1, <3>2, RecordOneMore
  <2> QED
    BY <2>1, <2>2, <2>3
<1>2. Record(l, {}) = l
  BY RecordNothing
<1>3. \A s \in SUBSET ops : s \ {Latest(s)} \in SUBSET ops
  OBVIOUS
<1>4. whole = [s \in SUBSET ops |-> step(whole, s)]
  BY <1>1, <1>2, <1>3
<1>5. after = [s \in SUBSET ops |-> step(after, s)]
  <2> HIDE DEF whole
  <2>1. \E a : a = [s \in SUBSET ops |-> step(a, s)]
    BY <1>4
  <2> QED
    BY <2>1
<1>6. RecordInSequence(l, ops) = after[ops]
  BY DEF RecordInSequence
<1> HIDE DEF after
<1>7. Bad = {}
  <2> SUFFICES ASSUME Bad # {} PROVE FALSE
    OBVIOUS
  <2>1. Sizes \in SUBSET Nat /\ Sizes # {}
    <3>1. \A s \in SUBSET ops : Cardinality(s) \in Nat
      BY <1>1
    <3> HIDE DEF step
    <3> QED
      BY <3>1
  <2>2. PICK k \in Sizes : \A j \in Sizes : k <= j
    BY <2>1, LeastExists
  <2>3. PICK s \in Bad : k = Cardinality(s)
    BY <2>2
  <2>4. CASE s = {}
    BY <2>3, <2>4, <1>2, <1>5
  <2>5. CASE s # {}
    <3>1. Latest(s) \in s /\ s \in SUBSET ops /\ IsFiniteSet(s) /\ k \in Nat
      BY <2>3, <2>5, <1>1
    <3>2. Cardinality(s \ {Latest(s)}) = k - 1
      BY <2>3, <3>1, FS_RemoveElement
    <3>3. s \ {Latest(s)} \notin Bad
      <4>1. s \ {Latest(s)} \in Bad => k - 1 \in Sizes
        BY <3>2
      <4> QED
        BY <4>1, <2>2, <3>1
    <3>4. after[s \ {Latest(s)}] = Record(l, s \ {Latest(s)})
      BY <3>1, <3>3
    <3>5. after[s] = Record(after[s \ {Latest(s)}], {Latest(s)})
      BY <1>5, <3>1, <2>5
    <3> QED
      BY <3>1, <3>4, <3>5, <2>3, <2>5, <1>1
  <2> QED
    BY <2>4, <2>5
<1> QED
  BY <1>6, <1>7
=============================================================================
