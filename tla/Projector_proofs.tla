-------------------------- MODULE Projector_proofs --------------------------
(***************************************************************************)
(* What holds of the stores of a project whatever its operations, rows,    *)
(* threads and bounds: their types for any processes, and, for the threads *)
(* of one process, where the stores may leave the log and what takes the   *)
(* position they stand at back.                                            *)
(***************************************************************************)
EXTENDS Projector, FiniteSetTheorems, WellFoundedInduction, TLAPS

USE DEF history

----------------------------------------------------------------------------
(* Numbers *)

\* Every set of numbers has a least one.
LEMMA LeastExists ==
    ASSUME NEW S \in SUBSET Nat, S # {}
    PROVE  \E n \in S : \A m \in S : n <= m
<1>1. \E n \in S : \A m \in S : <<m, n>> \notin OpToRel(<, Nat)
  BY NatLessThanWellFounded, WFMin
<1>2. PICK n \in S : \A m \in S : <<m, n>> \notin OpToRel(<, Nat)
  BY <1>1
<1>3. ASSUME NEW m \in S PROVE n <= m
  <2>1. ~(m < n)
    BY <1>2 DEF OpToRel
  <2> QED
    BY <2>1
<1> QED
  BY <1>3

\* A finite set of numbers has a greatest one: take a least set that has none.
LEMMA GreatestExists ==
    ASSUME NEW T \in SUBSET Nat, IsFiniteSet(T), T # {}
    PROVE  \E n \in T : \A m \in T : m <= n
<1> DEFINE Bad == {S \in SUBSET T : S # {} /\ ~\E n \in S : \A m \in S : m <= n}
           Sizes == {Cardinality(S) : S \in Bad}
<1> SUFFICES ASSUME T \in Bad PROVE FALSE
  OBVIOUS
<1>1. \A S \in SUBSET T : IsFiniteSet(S) /\ Cardinality(S) \in Nat
  BY FS_Subset, FS_CardinalityType
<1>2. Sizes \in SUBSET Nat /\ Sizes # {}
  BY <1>1
<1>3. PICK k \in Sizes : \A m \in Sizes : k <= m
  BY <1>2, LeastExists
<1>4. PICK S \in Bad : k = Cardinality(S)
  BY <1>3
<1>5. PICK x \in S : TRUE
  BY <1>4
<1>6. Cardinality(S \ {x}) = k - 1 /\ k \in Nat
  BY <1>1, <1>4, <1>5, FS_RemoveElement
<1>7. S \ {x} \notin Bad
  <2>1. S \ {x} \in Bad => k - 1 \in Sizes
    BY <1>6
  <2> QED
    BY <2>1, <1>3, <1>6
<1>8. CASE S \ {x} = {}
  BY <1>4, <1>5, <1>8
<1>9. CASE S \ {x} # {}
  <2>1. PICK n \in S \ {x} : \A m \in S \ {x} : m <= n
    BY <1>7, <1>9, <1>4
  <2>2. \E n2 \in S : \A m \in S : m <= n2
    <3>1. CASE x <= n
      BY <2>1, <3>1
    <3>2. CASE n <= x
      <4>1. \A m \in S : m <= x
        BY <2>1, <3>2, <1>4, <1>5
      <4> QED
        BY <4>1, <1>5
    <3> QED
      BY <3>1, <3>2, <2>1, <1>4, <1>5
  <2> QED
    BY <2>2, <1>4
<1> QED
  BY <1>8, <1>9

LEMMA NewestIs ==
    ASSUME NEW S \in SUBSET Nat, IsFiniteSet(S)
    PROVE  /\ S = {} => Newest(S) = 0
           /\ S # {} => Newest(S) \in S
           /\ Newest(S) \in Nat
           /\ \A m \in S : m <= Newest(S)
           /\ \A n \in S : (\A m \in S : m <= n) => Newest(S) = n
<1>1. CASE S = {}
  BY <1>1 DEF Newest
<1>2. CASE S # {}
  <2>1. \E n \in S : \A m \in S : n >= m
    BY <1>2, GreatestExists
  <2>2. Newest(S) \in S /\ \A m \in S : Newest(S) >= m
    BY <1>2, <2>1 DEF Newest, Max
  <2>3. Newest(S) \in Nat
    BY <2>2
  <2>4. ASSUME NEW n \in S, \A m \in S : m <= n PROVE Newest(S) = n
    <3>1. Newest(S) <= n /\ Newest(S) >= n /\ n \in Nat
      BY <2>2, <2>4
    <3> QED
      BY <3>1, <2>3
  <2>5. \A m \in S : m <= Newest(S)
    BY <2>2, <2>3
  <2> QED
    BY <1>2, <2>2, <2>3, <2>4, <2>5
<1> QED
  BY <1>1, <1>2

LEMMA IdsAreFinite ==
    ASSUME NEW S \in SUBSET Id
    PROVE  S \in SUBSET Nat /\ 0 \notin S /\ IsFiniteSet(S)
  BY IdAssumption, FS_Subset

LEMMA PositionsAreFinite ==
    ASSUME NEW n \in Nat, NEW S \in SUBSET (1 .. n)
    PROVE  S \in SUBSET Nat /\ IsFiniteSet(S)
<1>1. IsFiniteSet(1 .. n)
  BY FS_Interval
<1>2. IsFiniteSet(S)
  BY <1>1, FS_Subset
<1> QED
  BY <1>2

----------------------------------------------------------------------------
(* Operations *)

LEMMA OpFields ==
    ASSUME NEW o \in Op
    PROVE  /\ o.id \in Id /\ o.id \in Nat /\ o.id > 0
           /\ o.kind \in {"write", "reset", "forget"}
           /\ o.kind = "write" => o.cell \in Cell
           /\ o.kind # "forget" <=> o \in Statement
  BY IdAssumption DEF Op, Statement, Write, Reset, Removal

LEMMA StatementsAreOps == Statement \subseteq Op
  BY DEF Op

----------------------------------------------------------------------------
(* The latest removal *)

LEMMA LastForgetIs ==
    ASSUME NEW l \in Seq(Op)
    PROVE  /\ LastForget(l) \in 0 .. Len(l)
           /\ \A i \in LastForget(l) + 1 .. Len(l) : l[i].kind # "forget"
<1> DEFINE F == {i \in DOMAIN l : l[i].kind = "forget"}
<1>1. F \in SUBSET (1 .. Len(l)) /\ Len(l) \in Nat
  OBVIOUS
<1>2. F \in SUBSET Nat /\ IsFiniteSet(F)
  BY <1>1, PositionsAreFinite
<1>3. LastForget(l) = Newest(F)
  BY DEF LastForget
<1> HIDE DEF F
<1>4. Newest(F) \in 0 .. Len(l) /\ \A i \in F : i <= Newest(F)
  BY <1>1, <1>2, NewestIs
<1>5. ASSUME NEW i \in Newest(F) + 1 .. Len(l) PROVE l[i].kind # "forget"
  <2>1. i \in 1 .. Len(l) /\ ~(i <= Newest(F))
    BY <1>4, <1>1
  <2> QED
    BY <2>1, <1>4 DEF F
<1> QED
  BY <1>3, <1>4, <1>5

\* Appending statements leaves the latest removal where it is.
LEMMA LastForgetStays ==
    ASSUME NEW l \in Seq(Op), NEW new \in Seq(Statement)
    PROVE  LastForget(l \o new) = LastForget(l)
<1>1. \A i \in 1 .. Len(new) : new[i].kind # "forget"
  BY StatementsAreOps, OpFields
<1>2. {i \in DOMAIN (l \o new) : (l \o new)[i].kind = "forget"}
        = {i \in DOMAIN l : l[i].kind = "forget"}
  BY <1>1
<1> QED
  BY <1>2 DEF LastForget

LEMMA ForgetIsLast ==
    ASSUME NEW l \in Seq(Op), NEW id \in Id
    PROVE  LastForget(Append(l, Removal(id))) = Len(l) + 1
<1> DEFINE m == Append(l, Removal(id))
           F == {i \in DOMAIN m : m[i].kind = "forget"}
<1>1. F \in SUBSET (1 .. Len(l) + 1) /\ Len(l) + 1 \in Nat /\ Len(l) + 1 \in F
  BY DEF Removal
<1>2. F \in SUBSET Nat /\ IsFiniteSet(F)
  BY <1>1, PositionsAreFinite
<1>3. LastForget(m) = Newest(F)
  BY DEF LastForget
<1> HIDE DEF F
<1>4. \A i \in F : i <= Len(l) + 1
  BY <1>1
<1>5. Newest(F) = Len(l) + 1
  BY <1>1, <1>2, <1>4, NewestIs
<1> QED
  BY <1>3, <1>5

----------------------------------------------------------------------------
(* The resets in force *)

LEMMA IdsHaveABound == \E n \in Nat : \A id \in Id : id < n
<1>1. Id \in SUBSET Nat /\ IsFiniteSet(Id)
  BY IdsAreFinite
<1>2. Newest(Id) \in Nat /\ \A id \in Id : id <= Newest(Id)
  BY <1>1, NewestIs
<1>3. \A id \in Id : id < Newest(Id) + 1
  BY <1>1, <1>2
<1> QED
  BY <1>2, <1>3

\* There are resets in force among any: they are settled from the newest down,
\* as each depends only on newer ones.
LEMMA InForceAmong ==
    ASSUME NEW R \in SUBSET Op
    PROVE  InForce(R) \in SUBSET R
<1> DEFINE Settles(force, low) ==
              /\ \A r \in force : r.id >= low
              /\ \A r \in R : r.id >= low => (r \in force <=> ~\E s \in force : Covers(s, r))
           Low == {n \in Nat : \E force \in SUBSET R : Settles(force, n)}
<1>1. /\ \A r \in R : r.id \in Nat /\ r.id \in Id
      /\ \A r, s \in R : Covers(s, r) => r.id < s.id
  BY OpFields DEF Covers
<1>2. PICK top \in Nat : \A id \in Id : id < top
  BY IdsHaveABound
<1>3. Settles({}, top)
  BY <1>1, <1>2
<1>4. top \in Low
  <2>1. {} \in SUBSET R
    OBVIOUS
  <2> HIDE DEF Settles
  <2> QED
    BY <1>3, <2>1
<1>5. PICK n \in Low : \A m \in Low : n <= m
  BY <1>4, LeastExists
<1>6. PICK force \in SUBSET R : Settles(force, n)
  BY <1>5
<1>7. n = 0
  <2> SUFFICES ASSUME n > 0 PROVE FALSE
    BY <1>5
  <2> DEFINE more == force \cup {r \in R : r.id = n - 1 /\ ~\E s \in force : Covers(s, r)}
  <2>1. \A r \in more : r.id >= n - 1
    BY <1>1, <1>5, <1>6
  <2>2. ASSUME NEW r \in R, r.id >= n - 1
        PROVE  r \in more <=> ~\E s \in more : Covers(s, r)
    <3>1. \A s \in more : Covers(s, r) => s \in force
      BY <1>1, <1>5, <2>2
    <3>2. (\E s \in more : Covers(s, r)) <=> \E s \in force : Covers(s, r)
      BY <3>1
    <3>3. CASE r.id >= n
      <4>1. r \in more <=> r \in force
        BY <3>3, <1>1, <1>5
      <4> QED
        BY <4>1, <3>2, <3>3, <1>6
    <3>4. CASE r.id = n - 1
      <4>1. r \notin force
        BY <3>4, <1>6, <1>5
      <4>2. r \in more <=> ~\E s \in force : Covers(s, r)
        BY <3>4, <4>1
      <4> QED
        BY <4>2, <3>2
    <3> QED
      BY <3>3, <3>4, <2>2, <1>1, <1>5
  <2>3. more \in SUBSET R
    OBVIOUS
  <2> HIDE DEF more
  <2>4. Settles(more, n - 1)
    BY <2>1, <2>2
  <2> HIDE DEF Settles
  <2>5. n - 1 \in Low
    BY <2>3, <2>4, <1>5
  <2> QED
    BY <2>5, <1>5
<1>8. \E f \in SUBSET R : \A r \in R : r \in f <=> ~\E s \in f : Covers(s, r)
  BY <1>6, <1>7, <1>1
<1> QED
  BY <1>8 DEF InForce

----------------------------------------------------------------------------
(* Operations in the order of their ids *)

DistinctIds(ops) == \A o, p \in ops : o.id = p.id => o = p

LEMMA RankIs ==
    ASSUME NEW ops \in SUBSET Op, IsFiniteSet(ops), NEW o \in ops
    PROVE  Rank(o, ops) \in 1 .. Cardinality(ops)
<1> DEFINE below == {p \in ops : p.id <= o.id}
<1>1. o \in below /\ below \in SUBSET ops
  BY OpFields
<1>2. IsFiniteSet(below) /\ Cardinality(below) <= Cardinality(ops)
  BY <1>1, FS_Subset
<1>3. Cardinality(below) \in Nat /\ Cardinality(ops) \in Nat
  BY <1>2, FS_CardinalityType
<1>4. Cardinality(below) # 0
  BY <1>1, <1>2, FS_EmptySet
<1> QED
  BY <1>2, <1>3, <1>4 DEF Rank

LEMMA RankGrows ==
    ASSUME NEW ops \in SUBSET Op, IsFiniteSet(ops),
           NEW o \in ops, NEW p \in ops, o.id < p.id
    PROVE  Rank(o, ops) < Rank(p, ops)
<1> DEFINE belowO == {q \in ops : q.id <= o.id}
           belowP == {q \in ops : q.id <= p.id}
<1>1. \A q \in ops : q.id \in Nat
  BY OpFields
<1>2. belowO \in SUBSET (belowP \ {p}) /\ p \in belowP /\ belowP \in SUBSET ops
  BY <1>1
<1>3. IsFiniteSet(belowP)
  BY <1>2, FS_Subset
<1>4. IsFiniteSet(belowP \ {p}) /\ Cardinality(belowP \ {p}) = Cardinality(belowP) - 1
  BY <1>2, <1>3, FS_RemoveElement
<1>5. IsFiniteSet(belowO) /\ Cardinality(belowO) <= Cardinality(belowP \ {p})
  BY <1>2, <1>4, FS_Subset
<1>6. Cardinality(belowO) \in Nat /\ Cardinality(belowP) \in Nat
  BY <1>3, <1>5, FS_CardinalityType
<1> QED
  BY <1>4, <1>5, <1>6 DEF Rank

\* Every rank is taken: a least set in which one is not has an operation with
\* the greatest id, and is such a set without it as well.
LEMMA RanksAreTaken ==
    ASSUME NEW ops \in SUBSET Op, IsFiniteSet(ops), DistinctIds(ops)
    PROVE  \A k \in 1 .. Cardinality(ops) : \E o \in ops : Rank(o, ops) = k
<1> DEFINE Full(S) == \A k \in 1 .. Cardinality(S) : \E o \in S : Rank(o, S) = k
           Sizes == {Cardinality(S) : S \in {S \in SUBSET ops : ~Full(S)}}
<1>1. \A S \in SUBSET ops : IsFiniteSet(S) /\ Cardinality(S) \in Nat
  BY FS_Subset, FS_CardinalityType
<1> SUFFICES ASSUME ~Full(ops) PROVE FALSE
  OBVIOUS
<1> HIDE DEF Full
<1>2. Sizes \in SUBSET Nat /\ Cardinality(ops) \in Sizes
  BY <1>1
<1>3. PICK n \in Sizes : \A m \in Sizes : n <= m
  BY <1>2, LeastExists
<1>4. PICK S \in SUBSET ops : ~Full(S) /\ Cardinality(S) = n
  BY <1>3
<1>5. S # {}
  <2>1. Cardinality({}) = 0
    BY FS_EmptySet
  <2> QED
    BY <1>4, <2>1 DEF Full
<1>6. PICK top \in S : \A o \in S : o.id <= top.id
  <2> DEFINE ids == {o.id : o \in S}
  <2>1. ids \in SUBSET Id /\ ids # {}
    BY <1>5, OpFields
  <2>2. ids \in SUBSET Nat /\ IsFiniteSet(ids)
    BY <2>1, IdsAreFinite
  <2>3. PICK i \in ids : \A j \in ids : j <= i
    BY <2>1, <2>2, GreatestExists
  <2> QED
    BY <2>3
<1> DEFINE T == S \ {top}
<1>7. T \in SUBSET ops /\ Cardinality(T) = n - 1 /\ n \in Nat
  BY <1>1, <1>4, <1>6, FS_RemoveElement
<1>8. Full(T)
  <2>1. ~Full(T) => n - 1 \in Sizes
    BY <1>7
  <2> QED
    BY <2>1, <1>3, <1>7
<1>9. \A o \in S : o.id \in Nat
  BY OpFields
<1>10. Rank(top, S) = n
  <2>1. {p \in S : p.id <= top.id} = S
    BY <1>6
  <2> QED
    BY <2>1, <1>4 DEF Rank
<1>11. ASSUME NEW o \in T PROVE Rank(o, S) = Rank(o, T)
  <2>1. o.id < top.id
    BY <1>6, <1>9, <1>11 DEF DistinctIds
  <2>2. {p \in S : p.id <= o.id} = {p \in T : p.id <= o.id}
    BY <2>1, <1>9
  <2> QED
    BY <2>2 DEF Rank
<1>12. ASSUME NEW k \in 1 .. n PROVE \E o \in S : Rank(o, S) = k
  <2>1. CASE k = n
    BY <2>1, <1>10
  <2>2. CASE k # n
    <3>1. k \in 1 .. Cardinality(T)
      BY <2>2, <1>7
    <3>2. PICK o \in T : Rank(o, T) = k
      BY <3>1, <1>8 DEF Full
    <3> QED
      BY <3>2, <1>11
  <2> QED
    BY <2>1, <2>2
<1> QED
  BY <1>12, <1>4 DEF Full

LEMMA IdOrder ==
    ASSUME NEW ops \in SUBSET Op, IsFiniteSet(ops), DistinctIds(ops)
    PROVE  /\ InIdOrder(ops) \in Seq(ops)
           /\ ToSet(InIdOrder(ops)) = ops
           /\ \A i, j \in 1 .. Len(InIdOrder(ops)) :
                 i < j => InIdOrder(ops)[i].id < InIdOrder(ops)[j].id
<1> DEFINE s == InIdOrder(ops)
           n == Cardinality(ops)
<1>1. n \in Nat
  BY FS_CardinalityType
<1>2. \A o \in ops : o.id \in Nat
  BY OpFields
<1>3. s = [k \in 1 .. n |-> CHOOSE o \in ops : Rank(o, ops) = k]
  BY DEF InIdOrder
<1>4. \A k \in 1 .. n : s[k] \in ops /\ Rank(s[k], ops) = k
  BY <1>3, RanksAreTaken
<1>5. \A o \in ops : Rank(o, ops) \in 1 .. n
  BY RankIs
<1> HIDE DEF s
<1>6. s \in Seq(ops) /\ Len(s) = n
  BY <1>1, <1>3, <1>4
<1>7. \A o, p \in ops : o.id < p.id => Rank(o, ops) < Rank(p, ops)
  BY RankGrows
<1>8. \A o, p \in ops : Rank(o, ops) = Rank(p, ops) => o = p
  <2> SUFFICES ASSUME NEW o \in ops, NEW p \in ops, Rank(o, ops) = Rank(p, ops)
               PROVE  o.id = p.id
    BY DEF DistinctIds
  <2>1. ~(o.id < p.id) /\ ~(p.id < o.id)
    BY <1>7, <1>5
  <2> QED
    BY <2>1, <1>2
<1>9. ToSet(s) = ops
  <2>1. ASSUME NEW o \in ops PROVE o \in ToSet(s)
    <3>1. s[Rank(o, ops)] = o
      BY <1>4, <1>5, <1>8
    <3>2. Rank(o, ops) \in DOMAIN s
      BY <1>5, <1>6
    <3> QED
      BY <3>1, <3>2 DEF ToSet
  <2>2. ToSet(s) \subseteq ops
    BY <1>6 DEF ToSet
  <2> QED
    BY <2>1, <2>2
<1>10. ASSUME NEW i \in 1 .. n, NEW j \in 1 .. n, i < j
       PROVE  s[i].id < s[j].id
  <2>1. ~(s[j].id <= s[i].id)
    <3> SUFFICES ASSUME s[j].id <= s[i].id PROVE FALSE
      OBVIOUS
    <3>1. CASE s[j].id = s[i].id
      BY <3>1, <1>4, <1>10 DEF DistinctIds
    <3>2. CASE s[j].id < s[i].id
      BY <3>2, <1>4, <1>7, <1>10
    <3> QED
      BY <3>1, <3>2, <1>4, <1>2
  <2> QED
    BY <2>1, <1>4, <1>2
<1> QED
  BY <1>6, <1>9, <1>10 DEF s

----------------------------------------------------------------------------
(* Positions of a log, and the rows a rebuild would leave there *)

From(l, p) == IF p = 0 THEN LastForget(l) ELSE p

Beyond(l, n) == {l[i] : i \in n + 1 .. Len(l)}

\* A catch-up from this position meets a reset, and rebuilds.
Asks(l, p) == ResetReached(Beyond(l, From(l, p)), ToSet(l))

\* Applied in the log's order, the older operation at j comes after the newer
\* one at i.
Inverted(l, i, j) ==
    i \in LastForget(l) + 1 .. Len(l) /\ j \in i + 1 .. Len(l) /\ l[j].id < l[i].id

Disorder(l) == \E i, j \in 1 .. Len(l) : Inverted(l, i, j)

HeldAt(l, n) == {l[i] : i \in LastForget(l) + 1 .. n}

\* The row of a cell that a rebuild of these operations leaves.
RowOf(held, c) == Newest({o.id : o \in Writes(held \ SetAside(held), c)})

Row(l, n, c) == RowOf(HeldAt(l, n), c)

WritesCell(op, c) == op.kind = "write" /\ op.cell = c

\* To apply the operations one by one to a cell at v leaves it at w.
Leaves(ops, c, v, w) ==
    /\ \A k \in 1 .. Len(ops) :
          WritesCell(ops[k], c) /\ (\A m \in k + 1 .. Len(ops) : ~WritesCell(ops[m], c))
              => ops[k].id = w
    /\ (\A k \in 1 .. Len(ops) : ~WritesCell(ops[k], c)) => v = w

LEMMA IdsOfWrites ==
    ASSUME NEW held \in SUBSET Op, NEW c
    PROVE  {o.id : o \in Writes(held, c)} \in SUBSET Id
  BY OpFields DEF Writes

LEMMA RebuiltIsRow ==
    ASSUME NEW l \in Seq(Op)
    PROVE  Rebuilt(l) = [c \in Cell |-> Row(l, Len(l), c)]
  BY DEF Rebuilt, Replayed, Live, Row, RowOf, HeldAt

LEMMA HeldIsOps ==
    ASSUME NEW l \in Seq(Op), NEW n \in 0 .. Len(l)
    PROVE  HeldAt(l, n) \in SUBSET Op
<1>1. LastForget(l) \in Nat
  BY LastForgetIs
<1> QED
  BY <1>1 DEF HeldAt

\* The newer operations are replayed with the older ones, as they are.
Adds(old, new, c) ==
    Writes((old \cup new) \ SetAside(old \cup new), c)
        = Writes(old \ SetAside(old), c) \cup Writes(new, c)

\* Operations that no reset reaches are added to what is replayed.
LEMMA ReplayedGrows ==
    ASSUME NEW old \in SUBSET Op, NEW new \in SUBSET Op, NEW c,
           Resets(new) = {},
           \A o \in new, r \in Resets(old) : ~(o.id < r.id)
    PROVE  Adds(old, new, c)
<1> DEFINE R == Resets(old)
<1>1. Resets(old \cup new) = R
  BY DEF Resets
<1>2. InForce(R) \in SUBSET R
  BY InForceAmong DEF Resets
<1>3. \A o \in new, r \in InForce(R) : ~Covers(r, o)
  BY <1>2 DEF Covers
<1>4. SetAside(old \cup new) = {o \in old \cup new : \E r \in InForce(R) : Covers(r, o)}
  BY <1>1 DEF SetAside
<1>5. SetAside(old) = {o \in old : \E r \in InForce(R) : Covers(r, o)}
  BY DEF SetAside
<1>6. (old \cup new) \ SetAside(old \cup new) = (old \ SetAside(old)) \cup new
  BY <1>3, <1>4, <1>5
<1> QED
  BY <1>6 DEF Adds, Writes

\* Past a position that no reset reaches back to and beyond which ids only go
\* up, each cell is what it was there or what was last written to it since.
LEMMA RowFollows ==
    ASSUME NEW l \in Seq(Op), NEW n \in LastForget(l) .. Len(l), NEW c \in Cell,
           ~ResetReached(Beyond(l, n), ToSet(l)),
           \A i, j \in 1 .. Len(l) : Inverted(l, i, j) => j <= n
    PROVE  /\ (\A i \in n + 1 .. Len(l) : ~WritesCell(l[i], c))
                 => Row(l, Len(l), c) = Row(l, n, c)
           /\ \A k \in n + 1 .. Len(l) :
                 WritesCell(l[k], c) /\ (\A m \in k + 1 .. Len(l) : ~WritesCell(l[m], c))
                     => Row(l, Len(l), c) = l[k].id
<1> DEFINE old == HeldAt(l, n)
           new == Beyond(l, n)
           ids(ops) == {o.id : o \in ops}
<1>1. /\ LastForget(l) \in 0 .. Len(l) /\ Len(l) \in Nat
      /\ \A i \in LastForget(l) + 1 .. Len(l) : l[i].kind # "forget"
      /\ n \in 0 .. Len(l)
  BY LastForgetIs
<1>2. old \in SUBSET Op /\ new \in SUBSET Op
  BY <1>1, HeldIsOps DEF Beyond
<1>3. HeldAt(l, Len(l)) = old \cup new
  BY <1>1 DEF HeldAt, Beyond
<1>4. Resets(new) = {}
  <2>1. Resets(new) \subseteq Resets(ToSet(l))
    BY <1>1 DEF Resets, Beyond, ToSet
  <2> QED
    BY <2>1 DEF ResetReached, Resets
<1>5. \A o \in new, r \in Resets(old) : ~(o.id < r.id)
  <2>1. Resets(old) \subseteq Resets(ToSet(l))
    BY <1>1 DEF Resets, HeldAt, ToSet
  <2>2. \A o \in new : o.kind # "forget"
    BY <1>1 DEF Beyond
  <2> QED
    BY <2>1, <2>2 DEF ResetReached
<1>6. Adds(old, new, c)
  <2> HIDE DEF old, new
  <2> QED
    BY <1>2, <1>4, <1>5, ReplayedGrows
<1> DEFINE W == Writes(old \ SetAside(old), c) \cup Writes(new, c)
<1>7. Row(l, Len(l), c) = Newest(ids(W))
  BY <1>3, <1>6 DEF Row, RowOf, Adds
<1>8. ASSUME \A i \in n + 1 .. Len(l) : ~WritesCell(l[i], c)
      PROVE  Row(l, Len(l), c) = Row(l, n, c)
  <2>1. Writes(new, c) = {}
    BY <1>8 DEF Writes, Beyond, WritesCell
  <2>2. W = Writes(old \ SetAside(old), c)
    BY <2>1
  <2> QED
    BY <2>2, <1>7 DEF Row, RowOf
<1>9. ASSUME NEW k \in n + 1 .. Len(l), WritesCell(l[k], c),
             \A m \in k + 1 .. Len(l) : ~WritesCell(l[m], c)
      PROVE  Row(l, Len(l), c) = l[k].id
  <2>1. W \in SUBSET Op /\ \A o \in W : WritesCell(o, c)
    BY <1>2 DEF Writes, WritesCell
  <2>2. ids(W) \in SUBSET Id
    BY <2>1, OpFields
  <2>3. ids(W) \in SUBSET Nat /\ IsFiniteSet(ids(W))
    BY <2>2, IdsAreFinite
  <2>4. l[k] \in Writes(new, c)
    BY <1>9 DEF Writes, Beyond, WritesCell
  <2>5. l[k].id \in ids(W)
    BY <2>4
  <2>6. ASSUME NEW o \in W PROVE o.id <= l[k].id
    <3>1. PICK i \in LastForget(l) + 1 .. Len(l) : o = l[i]
      BY <1>1, <1>3 DEF HeldAt, Writes
    <3> HIDE DEF W
    <3>2. i <= k
      <4>1. WritesCell(l[i], c)
        BY <3>1, <2>1
      <4>2. i \notin k + 1 .. Len(l)
        BY <4>1, <1>9
      <4> QED
        BY <4>2, <3>1, <1>1
    <3>3. CASE i = k
      <4>1. o \in Op
        BY <2>1
      <4> QED
        BY <4>1, <3>1, <3>3, OpFields
    <3>4. CASE i < k
      <4>1. ~Inverted(l, i, k) /\ i \in 1 .. Len(l) /\ k \in 1 .. Len(l)
        BY <1>1, <1>9, <3>1
      <4>2. ~(l[k].id < l[i].id)
        BY <4>1, <3>1, <3>4, <1>1 DEF Inverted
      <4>3. l[k].id \in Nat /\ l[i].id \in Nat
        BY <4>1, OpFields
      <4> QED
        BY <4>2, <4>3, <3>1
    <3> QED
      BY <3>2, <3>3, <3>4, <1>1
  <2> HIDE DEF W
  <2>7. \A m \in ids(W) : m <= l[k].id
    BY <2>6
  <2>8. Newest(ids(W)) = l[k].id
    BY <2>3, <2>5, <2>7, NewestIs
  <2> QED
    BY <2>8, <1>7
<1> QED
  BY <1>8, <1>9

\* What a catch-up selects, when it meets no reset.
LEMMA CatchUpLeaves ==
    ASSUME NEW l \in Seq(Op), NEW n \in LastForget(l) .. Len(l), NEW c \in Cell, NEW v,
           ~ResetReached(Beyond(l, n), ToSet(l)),
           \A i, j \in 1 .. Len(l) : Inverted(l, i, j) => j <= n,
           (\A i \in n + 1 .. Len(l) : ~WritesCell(l[i], c)) => v = Row(l, n, c)
    PROVE  Leaves(SubSeq(l, n + 1, Len(l)), c, v, Row(l, Len(l), c))
<1> DEFINE ops == SubSeq(l, n + 1, Len(l))
<1>1. n \in 0 .. Len(l) /\ Len(l) \in Nat
  BY LastForgetIs
<1>2. Len(ops) = Len(l) - n /\ \A k \in 1 .. Len(l) - n : ops[k] = l[n + k]
  BY <1>1
<1> HIDE DEF ops
<1>3. ASSUME NEW k \in 1 .. Len(ops), WritesCell(ops[k], c),
             \A m \in k + 1 .. Len(ops) : ~WritesCell(ops[m], c)
      PROVE  ops[k].id = Row(l, Len(l), c)
  <2>1. n + k \in n + 1 .. Len(l) /\ ops[k] = l[n + k]
    BY <1>1, <1>2
  <2>2. ASSUME NEW m \in n + k + 1 .. Len(l) PROVE ~WritesCell(l[m], c)
    <3>1. m - n \in k + 1 .. Len(ops) /\ ops[m - n] = l[m]
      BY <1>1, <1>2
    <3> QED
      BY <3>1, <1>3
  <2> QED
    BY <2>1, <2>2, <1>3, RowFollows
<1>4. ASSUME \A k \in 1 .. Len(ops) : ~WritesCell(ops[k], c)
      PROVE  v = Row(l, Len(l), c)
  <2>1. ASSUME NEW i \in n + 1 .. Len(l) PROVE ~WritesCell(l[i], c)
    <3>1. i - n \in 1 .. Len(ops) /\ ops[i - n] = l[i]
      BY <1>1, <1>2
    <3> QED
      BY <3>1, <1>4
  <2> QED
    BY <2>1, RowFollows
<1> QED
  BY <1>3, <1>4 DEF Leaves, ops

LEMMA LiveIsFinite ==
    ASSUME NEW l \in Seq(Op)
    PROVE  /\ Live(l) \in SUBSET Op /\ IsFiniteSet(Live(l))
           /\ Live(l) \subseteq ToSet(l)
           /\ Replayed(l) \in SUBSET Live(l) /\ IsFiniteSet(Replayed(l))
<1>1. LastForget(l) \in 0 .. Len(l)
  BY LastForgetIs
<1> DEFINE D == LastForget(l) + 1 .. Len(l)
           f == [i \in D |-> l[i]]
<1>2. D \in SUBSET (1 .. Len(l)) /\ Len(l) \in Nat
  BY <1>1
<1>3. IsFiniteSet(D)
  BY <1>2, PositionsAreFinite
<1>4. Live(l) = {l[i] : i \in D}
  BY DEF Live
<1> HIDE DEF D
<1>5. IsFiniteSet({l[i] : i \in D})
  <2>1. {l[i] : i \in D} = {f[i] : i \in D}
    OBVIOUS
  <2>2. f \in Surjection(D, {f[i] : i \in D})
    BY DEF Surjection
  <2>3. IsFiniteSet({f[i] : i \in D})
    BY <1>3, <2>2, FS_Surjection
  <2> QED
    BY <2>1, <2>3
<1>6. Live(l) \in SUBSET Op /\ Live(l) \subseteq ToSet(l)
  BY <1>2, <1>4 DEF ToSet
<1>7. Replayed(l) \in SUBSET Live(l)
  BY DEF Replayed
<1> QED
  BY <1>4, <1>5, <1>6, <1>7, FS_Subset

\* What a rebuild applies to emptied stores.
LEMMA RebuildLeaves ==
    ASSUME NEW l \in Seq(Op), DistinctIds(ToSet(l)), NEW c \in Cell
    PROVE  /\ InIdOrder(Replayed(l)) \in Seq(Op)
           /\ Leaves(InIdOrder(Replayed(l)), c, 0, Row(l, Len(l), c))
<1> DEFINE ops == InIdOrder(Replayed(l))
           W == {o.id : o \in Writes(Replayed(l), c)}
<1>1. /\ Replayed(l) \in SUBSET Op /\ IsFiniteSet(Replayed(l))
      /\ DistinctIds(Replayed(l))
  BY LiveIsFinite DEF DistinctIds
<1>2. /\ ops \in Seq(Replayed(l))
      /\ ToSet(ops) = Replayed(l)
      /\ \A i, j \in 1 .. Len(ops) : i < j => ops[i].id < ops[j].id
  BY <1>1, IdOrder
<1> HIDE DEF ops
<1>3. ops \in Seq(Op)
  BY <1>1, <1>2
<1>4. Row(l, Len(l), c) = Newest(W)
  BY DEF Row, RowOf, HeldAt, Replayed, Live
<1>5. W \in SUBSET Id
  BY <1>1, OpFields DEF Writes
<1>6. W \in SUBSET Nat /\ IsFiniteSet(W)
  BY <1>5, IdsAreFinite
<1>7. ASSUME NEW k \in 1 .. Len(ops), WritesCell(ops[k], c),
             \A m \in k + 1 .. Len(ops) : ~WritesCell(ops[m], c)
      PROVE  ops[k].id = Newest(W)
  <2>1. ops[k] \in Replayed(l)
    BY <1>2 DEF ToSet
  <2>2. ops[k].id \in W
    BY <2>1, <1>7 DEF Writes, WritesCell
  <2>3. ASSUME NEW o \in Writes(Replayed(l), c) PROVE o.id <= ops[k].id
    <3>1. PICK i \in 1 .. Len(ops) : o = ops[i]
      BY <1>2 DEF ToSet, Writes
    <3>2. i <= k
      BY <3>1, <1>7, <1>3 DEF Writes, WritesCell
    <3>3. ops[k].id \in Nat /\ ops[i].id \in Nat
      BY <1>3, OpFields
    <3>4. CASE i = k
      BY <3>1, <3>3, <3>4
    <3>5. CASE i < k
      <4>1. ops[i].id < ops[k].id
        BY <3>5, <1>2
      <4> QED
        BY <4>1, <3>1, <3>3
    <3> QED
      BY <3>2, <3>4, <3>5
  <2>4. \A m \in W : m <= ops[k].id
    BY <2>3
  <2> HIDE DEF W
  <2> QED
    BY <2>2, <2>4, <1>6, NewestIs
<1>8. ASSUME \A k \in 1 .. Len(ops) : ~WritesCell(ops[k], c)
      PROVE  Newest(W) = 0
  <2>1. \A o \in Replayed(l) : ~WritesCell(o, c)
    BY <1>2, <1>3, <1>8 DEF ToSet
  <2>2. W = {}
    BY <2>1 DEF Writes, WritesCell
  <2> QED
    BY <2>2, <1>6, NewestIs
<1> QED
  BY <1>3, <1>4, <1>7, <1>8 DEF Leaves, ops

LEMMA HeadApplied ==
    ASSUME NEW ops \in Seq(Op), ops # <<>>, NEW c, NEW v, NEW w, Leaves(ops, c, v, w)
    PROVE  Leaves(Tail(ops), c, IF WritesCell(Head(ops), c) THEN Head(ops).id ELSE v, w)
<1>1. /\ Tail(ops) \in Seq(Op) /\ Len(Tail(ops)) = Len(ops) - 1 /\ Len(ops) \in Nat /\ Len(ops) > 0
      /\ \A k \in 1 .. Len(ops) - 1 : Tail(ops)[k] = ops[k + 1]
      /\ Head(ops) = ops[1]
  OBVIOUS
<1> DEFINE rest == Tail(ops)
<1> HIDE DEF rest
<1>2. Len(rest) = Len(ops) - 1 /\ \A k \in 1 .. Len(ops) - 1 : rest[k] = ops[k + 1]
  BY <1>1 DEF rest
<1>3. ASSUME NEW k \in 1 .. Len(rest), WritesCell(rest[k], c),
             \A m \in k + 1 .. Len(rest) : ~WritesCell(rest[m], c)
      PROVE  rest[k].id = w
  <2>1. k + 1 \in 1 .. Len(ops) /\ rest[k] = ops[k + 1]
    BY <1>1, <1>2
  <2>2. ASSUME NEW m \in k + 2 .. Len(ops) PROVE ~WritesCell(ops[m], c)
    <3>1. m - 1 \in k + 1 .. Len(rest) /\ rest[m - 1] = ops[m]
      BY <1>1, <1>2
    <3> QED
      BY <3>1, <1>3
  <2> QED
    BY <2>1, <2>2, <1>3 DEF Leaves
<1>4. ASSUME \A k \in 1 .. Len(rest) : ~WritesCell(rest[k], c)
      PROVE  (IF WritesCell(Head(ops), c) THEN Head(ops).id ELSE v) = w
  <2>1. ASSUME NEW m \in 2 .. Len(ops) PROVE ~WritesCell(ops[m], c)
    <3>1. m - 1 \in 1 .. Len(rest) /\ rest[m - 1] = ops[m]
      BY <1>1, <1>2
    <3> QED
      BY <3>1, <1>4
  <2>2. CASE WritesCell(ops[1], c)
    BY <2>1, <2>2, <1>1 DEF Leaves
  <2>3. CASE ~WritesCell(ops[1], c)
    <3>1. \A k \in 1 .. Len(ops) : ~WritesCell(ops[k], c)
      BY <2>1, <2>3, <1>1
    <3> QED
      BY <3>1, <2>3, <1>1 DEF Leaves
  <2> QED
    BY <2>2, <2>3
<1> QED
  BY <1>3, <1>4 DEF Leaves, rest

LEMMA NothingLeft ==
    ASSUME NEW c, NEW v, NEW w, Leaves(<<>>, c, v, w)
    PROVE  v = w
  BY DEF Leaves

----------------------------------------------------------------------------
(* A log that grows *)

\* What stays true of a log when statements are appended to it.
GrewTo(l, m) ==
    /\ m \in Seq(Op) /\ Len(l) <= Len(m)
    /\ LastForget(m) = LastForget(l)
    /\ \A i \in 1 .. Len(l) : m[i] = l[i]
    /\ \A p \in Nat : From(m, p) = From(l, p)
    /\ \A n \in 0 .. Len(l) : \A c \in Cell : Row(m, n, c) = Row(l, n, c)
    /\ \A n \in Nat : Beyond(l, n) \subseteq Beyond(m, n)
    /\ \A p \in Nat : Asks(l, p) => Asks(m, p)
    /\ \A i, j \in 1 .. Len(l) : Inverted(l, i, j) <=> Inverted(m, i, j)
    /\ Disorder(l) => Disorder(m)

LEMMA ToSetOfConcat ==
    ASSUME NEW l \in Seq(Op), NEW m \in Seq(Op)
    PROVE  ToSet(l \o m) = ToSet(l) \cup ToSet(m)
<1>1. /\ Len(l \o m) = Len(l) + Len(m)
      /\ \A i \in 1 .. Len(l) : (l \o m)[i] = l[i]
      /\ \A i \in 1 .. Len(m) : (l \o m)[Len(l) + i] = m[i]
      /\ Len(l) \in Nat /\ Len(m) \in Nat
      /\ DOMAIN (l \o m) = 1 .. Len(l) + Len(m)
      /\ DOMAIN l = 1 .. Len(l) /\ DOMAIN m = 1 .. Len(m)
  OBVIOUS
<1> DEFINE lm == l \o m
<1> HIDE DEF lm
<1>2. ASSUME NEW x \in ToSet(lm) PROVE x \in ToSet(l) \cup ToSet(m)
  <2>1. PICK i \in 1 .. Len(l) + Len(m) : x = lm[i]
    BY <1>1 DEF ToSet, lm
  <2>2. CASE i <= Len(l)
    BY <2>1, <2>2, <1>1 DEF ToSet, lm
  <2>3. CASE i > Len(l)
    <3>1. i - Len(l) \in 1 .. Len(m) /\ lm[Len(l) + (i - Len(l))] = lm[i]
      BY <2>1, <2>3, <1>1
    <3> QED
      BY <3>1, <2>1, <1>1 DEF ToSet, lm
  <2> QED
    BY <2>1, <2>2, <2>3, <1>1
<1>3. ToSet(l) \subseteq ToSet(lm)
  <2> SUFFICES ASSUME NEW i \in 1 .. Len(l) PROVE l[i] \in ToSet(lm)
    BY <1>1 DEF ToSet
  <2>1. i \in DOMAIN lm /\ lm[i] = l[i]
    BY <1>1 DEF lm
  <2> QED
    BY <2>1 DEF ToSet
<1>4. ToSet(m) \subseteq ToSet(lm)
  <2> SUFFICES ASSUME NEW i \in 1 .. Len(m) PROVE m[i] \in ToSet(lm)
    BY <1>1 DEF ToSet
  <2>1. Len(l) + i \in DOMAIN lm /\ lm[Len(l) + i] = m[i]
    BY <1>1 DEF lm
  <2> QED
    BY <2>1 DEF ToSet
<1> QED
  BY <1>2, <1>3, <1>4 DEF lm

LEMMA Grows ==
    ASSUME NEW l \in Seq(Op), NEW new \in Seq(Statement)
    PROVE  GrewTo(l, l \o new)
<1> DEFINE m == l \o new
<1>1. new \in Seq(Op)
  BY StatementsAreOps
<1>2. /\ m \in Seq(Op) /\ Len(l) <= Len(m) /\ Len(m) \in Nat /\ Len(l) \in Nat
      /\ \A i \in 1 .. Len(l) : m[i] = l[i]
  BY <1>1
<1>3. LastForget(m) = LastForget(l) /\ LastForget(l) \in 0 .. Len(l)
  BY LastForgetStays, LastForgetIs
<1>4. ToSet(l) \subseteq ToSet(m)
  BY <1>1, ToSetOfConcat
<1> HIDE DEF m
<1>5. \A p \in Nat : From(m, p) = From(l, p) /\ From(l, p) \in Nat
  BY <1>3 DEF From
<1>6. ASSUME NEW n \in 0 .. Len(l), NEW c \in Cell
      PROVE  Row(m, n, c) = Row(l, n, c)
  <2>1. HeldAt(m, n) = HeldAt(l, n)
    <3>1. \A i \in LastForget(l) + 1 .. n : i \in 1 .. Len(l) /\ m[i] = l[i]
      BY <1>2, <1>3
    <3>2. HeldAt(m, n) = {m[i] : i \in LastForget(l) + 1 .. n}
      BY <1>3 DEF HeldAt
    <3> QED
      BY <3>1, <3>2 DEF HeldAt
  <2> QED
    BY <2>1 DEF Row
<1>7. \A n \in Nat : Beyond(l, n) \subseteq Beyond(m, n)
  BY <1>2 DEF Beyond
<1>8. ASSUME NEW p \in Nat, Asks(l, p)
      PROVE  Asks(m, p)
  <2>1. Beyond(l, From(l, p)) \subseteq Beyond(m, From(m, p))
    BY <1>5, <1>7
  <2>2. ResetReached(Beyond(l, From(l, p)), ToSet(l))
    BY <1>8 DEF Asks
  <2>3. Resets(ToSet(l)) \subseteq Resets(ToSet(m))
    BY <1>4 DEF Resets
  <2>4. ResetReached(Beyond(m, From(m, p)), ToSet(m))
    BY <2>1, <2>2, <2>3 DEF ResetReached
  <2> QED
    BY <2>4 DEF Asks
<1>9. ASSUME NEW i \in 1 .. Len(l), NEW j \in 1 .. Len(l)
      PROVE  Inverted(l, i, j) <=> Inverted(m, i, j)
  BY <1>2, <1>3 DEF Inverted
<1>10. Disorder(l) => Disorder(m)
  BY <1>2, <1>9 DEF Disorder
<1> QED
  BY <1>2, <1>3, <1>5, <1>6, <1>7, <1>8, <1>9, <1>10 DEF GrewTo, m

LEMMA AppendGrows ==
    ASSUME NEW l \in Seq(Op), NEW o \in Statement
    PROVE  /\ GrewTo(l, Append(l, o))
           /\ ToSet(Append(l, o)) = ToSet(l) \cup {o}
<1>1. <<o>> \in Seq(Statement) /\ <<o>> \in Seq(Op) /\ Append(l, o) = l \o <<o>>
  BY StatementsAreOps
<1>2. ToSet(<<o>>) = {o}
  BY DEF ToSet
<1> QED
  BY <1>1, <1>2, Grows, ToSetOfConcat

LEMMA StaysAsItIs ==
    ASSUME NEW l \in Seq(Op)
    PROVE  GrewTo(l, l)
<1>1. <<>> \in Seq(Statement) /\ l \o <<>> = l
  OBVIOUS
<1> QED
  BY <1>1, Grows

LEMMA DistinctAreFinite ==
    ASSUME NEW ops \in SUBSET Op, DistinctIds(ops)
    PROVE  IsFiniteSet(ops)
<1> DEFINE f == [o \in ops |-> o.id]
<1>1. f \in Injection(ops, Id)
  BY OpFields DEF DistinctIds, Injection, IsInjective
<1>2. IsFiniteSet(Id)
  BY IdAssumption
<1> QED
  BY <1>1, <1>2, FS_Injection

----------------------------------------------------------------------------
(* Types, for any processes *)

\* TypeOK needs that ids tell operations apart, so that a set of them can be put
\* in order, and that a merge brings statements.
TypeInv ==
    /\ TypeOK
    /\ DistinctIds(ToSet(log))
    /\ \A t \in Thread : job[t].at = "merge" =>
          ToSet(job[t].ops) \subseteq Statement /\ DistinctIds(ToSet(job[t].ops))

LEMMA TypeInit == Init => TypeInv
<1> SUFFICES ASSUME Init PROVE TypeInv
  OBVIOUS
<1>1. log = <<>> /\ Len(log) = 0 /\ log \in Seq(Op)
  BY DEF Init
<1>2. Idle \in Job(0)
  BY DEF Idle, Job
<1>3. TypeOK
  <2>1. job \in [Thread -> Job(Len(log))]
    <3>1. job = [t \in Thread |-> Idle] /\ Idle \in Job(Len(log))
      BY <1>1, <1>2 DEF Init
    <3> HIDE DEF Idle
    <3> QED
      BY <3>1
  <2>2. store \in [Cell -> Id \cup {0}] /\ cursor \in 0 .. Len(log)
    BY <1>1 DEF Init, Empty
  <2>3. overtaken \in BOOLEAN /\ cutShort \in BOOLEAN /\ halfRemoved \in BOOLEAN
    BY DEF Init
  <2> QED
    BY <1>1, <2>1, <2>2, <2>3 DEF TypeOK
<1>4. DistinctIds(ToSet(log))
  BY <1>1 DEF DistinctIds, ToSet
<1>5. \A t \in Thread : job[t].at # "merge"
  BY DEF Init, Idle
<1> QED
  BY <1>3, <1>4, <1>5 DEF TypeInv

\* A thread's step, with a log that is as long or longer.
LEMMA JobsFit ==
    ASSUME NEW n \in Nat, NEW m \in Nat, n <= m,
           NEW j \in [Thread -> Job(n)], NEW t \in Thread, NEW x \in Job(m)
    PROVE  [j EXCEPT ![t] = x] \in [Thread -> Job(m)]
<1>1. Job(n) \subseteq Job(m)
  BY DEF Job
<1> QED
  BY <1>1

LEMMA MintableIsNew ==
    ASSUME TypeInv, NEW o \in Op, Mintable(o.id)
    PROVE  /\ DistinctIds(ToSet(log) \cup {o})
           /\ \A i \in 1 .. Len(log) : log[i].id < o.id
<1>1. \A p \in ToSet(log) : p.id \in IdsIn(log) /\ p \in Op
  BY DEF ToSet, IdsIn, TypeInv, TypeOK
<1>2. \A p \in ToSet(log) : p.id < o.id /\ p.id \in Nat /\ o.id \in Nat
  BY <1>1, OpFields DEF Mintable
<1>3. \A p \in ToSet(log) : p.id # o.id
  BY <1>2
<1>4. DistinctIds(ToSet(log) \cup {o})
  BY <1>3 DEF DistinctIds, TypeInv
<1>5. \A i \in 1 .. Len(log) : log[i] \in ToSet(log)
  BY DEF ToSet, TypeInv, TypeOK
<1> QED
  BY <1>2, <1>4, <1>5

LEMMA NewStatement ==
    ASSUME NEW id \in Id
    PROVE  /\ \A c \in Cell : Write(id, c) \in Statement /\ Write(id, c).id = id
           /\ \A b \in Id : Reset(id, b) \in Statement /\ Reset(id, b).id = id
           /\ Removal(id) \in Op /\ Removal(id).id = id
  BY DEF Write, Reset, Removal, Statement, Op

\* What the recording and the merging steps do to the log.
LEMMA Recorded ==
    ASSUME TypeInv, NEW t \in Thread, RecordWrite(t) \/ RecordReset(t)
    PROVE  /\ GrewTo(log, log')
           /\ DistinctIds(ToSet(log'))
           /\ Len(log') = Len(log) + 1
           /\ \A i \in 1 .. Len(log) : log[i].id < log'[Len(log')].id
<1>0. log \in Seq(Op)
  BY DEF TypeInv, TypeOK
<1>1. \E o \in Statement : Mintable(o.id) /\ log' = Append(log, o)
  <2>1. ASSUME RecordWrite(t) PROVE \E o \in Statement : Mintable(o.id) /\ log' = Append(log, o)
    BY <2>1, NewStatement DEF RecordWrite
  <2>2. ASSUME RecordReset(t) PROVE \E o \in Statement : Mintable(o.id) /\ log' = Append(log, o)
    <3>1. IdsIn(log) \subseteq Id
      BY <1>0, OpFields DEF IdsIn
    <3>2. PICK id \in Id, b \in IdsIn(log) : Mintable(id) /\ log' = Append(log, Reset(id, b))
      BY <2>2 DEF RecordReset
    <3> QED
      BY <3>1, <3>2, NewStatement
  <2> QED
    BY <2>1, <2>2
<1>2. PICK o \in Statement : Mintable(o.id) /\ log' = Append(log, o)
  BY <1>1
<1>3. o \in Op
  BY StatementsAreOps
<1>4. GrewTo(log, log') /\ ToSet(log') = ToSet(log) \cup {o}
  BY <1>0, <1>2, AppendGrows
<1>5. DistinctIds(ToSet(log) \cup {o}) /\ \A i \in 1 .. Len(log) : log[i].id < o.id
  BY <1>2, <1>3, MintableIsNew
<1>6. Len(log') = Len(log) + 1 /\ log'[Len(log')] = o
  BY <1>0, <1>2, <1>3
<1> QED
  BY <1>4, <1>5, <1>6

\* What a merge appends.
New(t) == InIdOrder({o \in ToSet(job[t].ops) : o.id \notin IdsIn(log)})

LEMMA Merged ==
    ASSUME TypeInv, NEW t \in Thread, MergeOps(t)
    PROVE  /\ New(t) \in Seq(Statement)
           /\ \A i, j \in 1 .. Len(New(t)) : i < j => New(t)[i].id < New(t)[j].id
           /\ log' = log \o New(t)
           /\ GrewTo(log, log')
           /\ DistinctIds(ToSet(log'))
<1> DEFINE ops == {o \in ToSet(job[t].ops) : o.id \notin IdsIn(log)}
<1>0. log \in Seq(Op)
  BY DEF TypeInv, TypeOK
<1>1. ops \in SUBSET Statement /\ ops \in SUBSET Op /\ DistinctIds(ops)
  BY StatementsAreOps DEF TypeInv, MergeOps, DistinctIds
<1>2. New(t) \in Seq(ops) /\ ToSet(New(t)) = ops
      /\ \A i, j \in 1 .. Len(New(t)) : i < j => New(t)[i].id < New(t)[j].id
  <2>1. New(t) = InIdOrder(ops)
    BY DEF New
  <2> HIDE DEF ops
  <2> QED
    BY <2>1, <1>1, DistinctAreFinite, IdOrder
<1>3. New(t) \in Seq(Statement) /\ New(t) \in Seq(Op)
  BY <1>1, <1>2
<1>4. log' = log \o New(t)
  BY DEF MergeOps, New
<1>5. ToSet(log') = ToSet(log) \cup ops
  BY <1>0, <1>2, <1>3, <1>4, ToSetOfConcat
<1>6. \A p \in ToSet(log), o \in ops : p.id # o.id
  <2>1. \A p \in ToSet(log) : p.id \in IdsIn(log)
    BY DEF ToSet, IdsIn
  <2> QED
    BY <2>1
<1>7. DistinctIds(ToSet(log'))
  BY <1>1, <1>5, <1>6 DEF DistinctIds, TypeInv
<1> QED
  BY <1>0, <1>2, <1>3, <1>4, <1>7, Grows

\* A thread that goes on to another step holds what it held.
LEMMA GoesOn ==
    ASSUME NEW n \in Nat, NEW m \in Nat, n <= m, NEW r \in Job(n),
           NEW at \in InStores \cup {"idle", "wantCatchUp", "wantRebuild", "forgetting"}
    PROVE  /\ [r EXCEPT !.at = at] \in Job(m)
           /\ [r EXCEPT !.at = at].at = at
           /\ at # "merge"
           /\ [r EXCEPT !.at = at].ops = r.ops
           /\ [r EXCEPT !.at = at].from = r.from
           /\ [r EXCEPT !.at = at].last = r.last
           /\ [r EXCEPT !.at = at].rebuild = r.rebuild
  BY DEF Job, InStores

\* A thread that has merged, read the cursor, or read the log.
LEMMA HasMerged ==
    ASSUME NEW n \in Nat, NEW m \in Nat, n <= m, NEW r \in Job(n),
           NEW at \in {"wantRebuild", "wantCatchUp"}
    PROVE  /\ [r EXCEPT !.at = at, !.ops = <<>>] \in Job(m)
           /\ [r EXCEPT !.at = at, !.ops = <<>>].at = at
           /\ [r EXCEPT !.at = at, !.ops = <<>>].rebuild = r.rebuild
<1>0. <<>> \in Seq(Op)
  OBVIOUS
<1>j. r \in Job(m)
  BY DEF Job
<1>c. ASSUME NEW ops \in Seq(Op) PROVE [r EXCEPT !.at = at, !.ops = ops] \in Job(m)
  BY <1>j DEF Job
<1>1. [r EXCEPT !.at = at, !.ops = <<>>] \in Job(m)
  BY <1>0, <1>c
<1>2. [r EXCEPT !.at = at, !.ops = <<>>].at = at
  BY <1>0 DEF Job
<1>3. [r EXCEPT !.at = at, !.ops = <<>>].rebuild = r.rebuild
  BY <1>0 DEF Job
<1> QED
  BY <1>1, <1>2, <1>3

LEMMA HasReadCursor ==
    ASSUME NEW n \in Nat, NEW r \in Job(n), NEW from \in -1 .. n, NEW last \in 0 .. n
    PROVE  /\ [r EXCEPT !.at = "select", !.from = from, !.last = last] \in Job(n)
           /\ [r EXCEPT !.at = "select", !.from = from, !.last = last].at = "select"
           /\ [r EXCEPT !.at = "select", !.from = from, !.last = last].from = from
           /\ [r EXCEPT !.at = "select", !.from = from, !.last = last].last = last
           /\ [r EXCEPT !.at = "select", !.from = from, !.last = last].rebuild = r.rebuild
<1>1. [r EXCEPT !.at = "select", !.from = from, !.last = last] \in Job(n)
  BY DEF Job, InStores
<1>2. [r EXCEPT !.at = "select", !.from = from, !.last = last].at = "select"
  BY DEF Job
<1>3. [r EXCEPT !.at = "select", !.from = from, !.last = last].from = from
  BY DEF Job
<1>4. [r EXCEPT !.at = "select", !.from = from, !.last = last].last = last
  BY DEF Job
<1>5. [r EXCEPT !.at = "select", !.from = from, !.last = last].rebuild = r.rebuild
  BY DEF Job
<1> QED
  BY <1>1, <1>2, <1>3, <1>4, <1>5

LEMMA HasReadLog ==
    ASSUME NEW n \in Nat, NEW r \in Job(n), NEW ops \in Seq(Op), NEW last \in 0 .. n
    PROVE  /\ [r EXCEPT !.at = "empty", !.ops = ops, !.from = -1, !.last = last] \in Job(n)
           /\ [r EXCEPT !.at = "empty", !.ops = ops, !.from = -1, !.last = last].at = "empty"
           /\ [r EXCEPT !.at = "empty", !.ops = ops, !.from = -1, !.last = last].ops = ops
           /\ [r EXCEPT !.at = "empty", !.ops = ops, !.from = -1, !.last = last].from = -1
           /\ [r EXCEPT !.at = "empty", !.ops = ops, !.from = -1, !.last = last].last = last
           /\ [r EXCEPT !.at = "empty", !.ops = ops, !.from = -1, !.last = last].rebuild = r.rebuild
<1>c. ASSUME NEW from \in -1 .. n, NEW at \in InStores
      PROVE  [r EXCEPT !.at = at, !.ops = ops, !.from = from, !.last = last] \in Job(n)
  BY DEF Job
<1>1. [r EXCEPT !.at = "empty", !.ops = ops, !.from = -1, !.last = last] \in Job(n)
  <2>1. -1 \in -1 .. n /\ "empty" \in InStores
    BY DEF InStores
  <2> QED
    BY <2>1, <1>c
<1>2. [r EXCEPT !.at = "empty", !.ops = ops, !.from = -1, !.last = last].at = "empty"
  BY DEF Job
<1>3. [r EXCEPT !.at = "empty", !.ops = ops, !.from = -1, !.last = last].ops = ops
  BY DEF Job
<1>4. [r EXCEPT !.at = "empty", !.ops = ops, !.from = -1, !.last = last].from = -1
  BY DEF Job
<1>5. [r EXCEPT !.at = "empty", !.ops = ops, !.from = -1, !.last = last].last = last
  BY DEF Job
<1>6. [r EXCEPT !.at = "empty", !.ops = ops, !.from = -1, !.last = last].rebuild = r.rebuild
  BY DEF Job
<1> QED
  BY <1>1, <1>2, <1>3, <1>4, <1>5, <1>6

\* Types are kept by a step that lengthens the log, or not, and changes what one
\* thread holds and the stores within their types.
LEMMA TypeByJob ==
    ASSUME TypeInv, NEW t \in Thread, job'[t] \in Job(Len(log')),
           job' = [job EXCEPT ![t] = job'[t]],
           log' \in Seq(Op), Len(log) <= Len(log'), DistinctIds(ToSet(log')),
           store' \in [Cell -> Id \cup {0}], cursor' \in 0 .. Len(log'),
           overtaken' \in BOOLEAN, cutShort' \in BOOLEAN, halfRemoved' \in BOOLEAN,
           job'[t].at = "merge" =>
               ToSet(job'[t].ops) \subseteq Statement /\ DistinctIds(ToSet(job'[t].ops))
    PROVE  TypeInv'
<1>1. Len(log) \in Nat /\ Len(log') \in Nat /\ job \in [Thread -> Job(Len(log))]
  BY DEF TypeInv, TypeOK
<1>2. job' \in [Thread -> Job(Len(log'))]
  BY <1>1, JobsFit
<1>3. TypeOK'
  BY <1>2 DEF TypeOK
<1>4. ASSUME NEW u \in Thread, job'[u].at = "merge"
      PROVE  ToSet(job'[u].ops) \subseteq Statement /\ DistinctIds(ToSet(job'[u].ops))
  <2>1. CASE u = t
    BY <2>1, <1>4
  <2>2. CASE u # t
    <3>1. job'[u] = job[u]
      BY <2>2, <1>1
    <3> QED
      BY <3>1, <1>4 DEF TypeInv
  <2> QED
    BY <2>1, <2>2
<1> QED
  BY <1>3, <1>4 DEF TypeInv

\* The same where the log stays as it is.
LEMMA TypeSameLog ==
    ASSUME TypeInv, NEW t \in Thread, job'[t] \in Job(Len(log)),
           job' = [job EXCEPT ![t] = job'[t]],
           log' = log,
           store' \in [Cell -> Id \cup {0}], cursor' \in 0 .. Len(log),
           overtaken' \in BOOLEAN, cutShort' \in BOOLEAN, halfRemoved' \in BOOLEAN,
           job'[t].at = "merge" =>
               ToSet(job'[t].ops) \subseteq Statement /\ DistinctIds(ToSet(job'[t].ops))
    PROVE  TypeInv'
<1>1. /\ log' \in Seq(Op) /\ Len(log) <= Len(log') /\ DistinctIds(ToSet(log'))
      /\ job'[t] \in Job(Len(log')) /\ cursor' \in 0 .. Len(log')
  BY DEF TypeInv, TypeOK
<1> QED
  BY <1>1, TypeByJob

\* A thread that only goes on.
LEMMA AtIsTyped ==
    ASSUME TypeInv, NEW t \in Thread,
           NEW at \in InStores \cup {"idle", "wantCatchUp", "wantRebuild", "forgetting"},
           At(t, at), Len(log') \in Nat, Len(log) <= Len(log')
    PROVE  /\ job'[t] \in Job(Len(log'))
           /\ job' = [job EXCEPT ![t] = job'[t]]
           /\ job'[t].at = at /\ at # "merge"
           /\ job'[t].ops = job[t].ops
           /\ job'[t].from = job[t].from
           /\ job'[t].last = job[t].last
           /\ job'[t].rebuild = job[t].rebuild
<1> DEFINE x == [job[t] EXCEPT !.at = at]
<1>1. Len(log) \in Nat /\ job \in [Thread -> Job(Len(log))]
  BY DEF TypeInv, TypeOK
<1>2. Len(log) \in Nat /\ job[t] \in Job(Len(log))
  BY <1>1
<1>3. x \in Job(Len(log'))
  BY <1>2, GoesOn
<1>4. x.at = at
  BY <1>2, GoesOn
<1>m. at # "merge"
  BY DEF InStores
<1>5. x.ops = job[t].ops /\ x.from = job[t].from
  BY <1>2, GoesOn
<1>6. x.last = job[t].last /\ x.rebuild = job[t].rebuild
  BY <1>2, GoesOn
<1>7. job' = [job EXCEPT ![t] = x]
  BY <1>1 DEF At
<1> HIDE DEF x
<1>8. job'[t] = x /\ job' = [job EXCEPT ![t] = job'[t]]
  BY <1>1, <1>7
<1> QED
  BY <1>3, <1>4, <1>5, <1>6, <1>8, <1>m

\* Each step keeps the types.
LEMMA TypeStep ==
    ASSUME TypeInv, [Next]_vars
    PROVE  TypeInv'
<1>l. log \in Seq(Op) /\ Len(log) \in Nat /\ DistinctIds(ToSet(log))
  BY DEF TypeInv, TypeOK
<1>s. /\ store \in [Cell -> Id \cup {0}] /\ cursor \in 0 .. Len(log)
      /\ overtaken \in BOOLEAN /\ cutShort \in BOOLEAN /\ halfRemoved \in BOOLEAN
  BY DEF TypeInv, TypeOK
<1>J. job \in [Thread -> Job(Len(log))]
  BY DEF TypeInv, TypeOK
<1>j. \A u \in Thread : job[u] \in Job(Len(log))
  BY <1>J
<1>f. Start \in 0 .. Len(log)
  BY <1>l, <1>s, LastForgetIs DEF Start, StartAt
<1>i. Idle \in Job(Len(log)) /\ Idle.at # "merge"
  BY <1>l DEF Idle, Job
<1> SUFFICES ASSUME Next PROVE TypeInv'
  <2>1. CASE UNCHANGED vars
    BY <2>1 DEF vars, TypeInv, TypeOK
  <2> QED
    BY <2>1
<1> SUFFICES ASSUME NEW t \in Thread,
        \/ RecordWrite(t) \/ RecordReset(t) \/ RemoveStores(t) \/ RecordForget(t)
        \/ ReadNewest(t) \/ MergeOps(t)
        \/ StartCatchUp(t) \/ ReadCursor(t) \/ SelectOps(t) \/ ApplyOp(t) \/ SetCursor(t)
        \/ StartRebuild(t) \/ AskRebuild(t) \/ SelectAll(t) \/ EmptyStores(t)
        \/ Fail(t)
    PROVE TypeInv'
  BY DEF Next
<1>1. CASE RecordWrite(t) \/ RecordReset(t)
  <2>1. GrewTo(log, log') /\ DistinctIds(ToSet(log'))
    BY <1>1, Recorded
  <2>2. log' \in Seq(Op) /\ Len(log) <= Len(log') /\ Len(log') \in Nat
    BY <2>1 DEF GrewTo
  <2>3. PICK at \in {"read", "wantRebuild"} : At(t, at)
    BY <1>1 DEF RecordWrite, RecordReset
  <2>4. at \in InStores \cup {"idle", "wantCatchUp", "wantRebuild", "forgetting"}
    BY DEF InStores
  <2>5. /\ job'[t] \in Job(Len(log')) /\ job'[t].at # "merge"
        /\ job' = [job EXCEPT ![t] = job'[t]]
    BY <2>2, <2>3, <2>4, AtIsTyped
  <2>6. UNCHANGED <<store, cursor, overtaken, cutShort, halfRemoved>>
    BY <1>1 DEF RecordWrite, RecordReset
  <2> QED
    BY <1>l, <1>s, <2>1, <2>2, <2>5, <2>6, TypeByJob
<1>2. CASE RecordForget(t)
  <2>1. PICK id \in Id : Mintable(id) /\ log' = Append(log, Removal(id))
    BY <1>2 DEF RecordForget
  <2>2. Removal(id) \in Op /\ Removal(id).id = id
    BY NewStatement
  <2>3. log' \in Seq(Op) /\ Len(log') = Len(log) + 1
    BY <1>l, <2>1, <2>2
  <2>4. DistinctIds(ToSet(log'))
    <3>1. <<Removal(id)>> \in Seq(Op) /\ log' = log \o <<Removal(id)>>
      BY <1>l, <2>1, <2>2
    <3>2. ToSet(<<Removal(id)>>) = {Removal(id)}
      BY DEF ToSet
    <3>3. ToSet(log') = ToSet(log) \cup {Removal(id)}
      BY <1>l, <3>1, <3>2, ToSetOfConcat
    <3> QED
      BY <3>3, <2>1, <2>2, MintableIsNew
  <2>5. Idle \in Job(Len(log'))
    BY <2>3, <1>l DEF Idle, Job
  <2>6. job' = [job EXCEPT ![t] = Idle]
    BY <1>2 DEF RecordForget
  <2>7. job' = [job EXCEPT ![t] = job'[t]] /\ job'[t] = Idle
    <3> HIDE DEF Idle
    <3> QED
      BY <2>6, <1>J
  <2>8. store' \in [Cell -> Id \cup {0}] /\ cursor' \in 0 .. Len(log')
    BY <1>2, <1>s, <2>3, <1>l DEF RecordForget
  <2>9. UNCHANGED <<overtaken, cutShort>> /\ Len(log) <= Len(log')
    BY <1>2, <2>3, <1>l DEF RecordForget
  <2>10. halfRemoved' \in BOOLEAN
    BY <1>2, <1>s DEF RecordForget
  <2> QED
    BY <1>s, <1>i, <2>3, <2>4, <2>5, <2>7, <2>8, <2>9, <2>10, TypeByJob
<1>3. CASE ReadNewest(t)
  <2>1. PICK ops \in SUBSET {o \in Statement : o.id \notin IdsIn(log)} :
          /\ \A o, p \in ops : o.id = p.id => o = p
          /\ job' = [job EXCEPT ![t] = [Idle EXCEPT !.at = "merge",
                                                    !.ops = InIdOrder(ops),
                                                    !.rebuild = SortsBefore(ops) \/ Travelling = {}]]
    BY <1>3 DEF ReadNewest
  <2>2. ops \in SUBSET Op /\ ops \in SUBSET Statement /\ DistinctIds(ops)
    BY <2>1, StatementsAreOps DEF DistinctIds
  <2>3. InIdOrder(ops) \in Seq(ops) /\ ToSet(InIdOrder(ops)) = ops
    BY <2>2, DistinctAreFinite, IdOrder
  <2>4. InIdOrder(ops) \in Seq(Op)
    BY <2>2, <2>3
  <2>5. PICK b \in BOOLEAN : b = (SortsBefore(ops) \/ Travelling = {})
    BY DEF SortsBefore
  <2> DEFINE x == [Idle EXCEPT !.at = "merge", !.ops = InIdOrder(ops), !.rebuild = b]
  <2>6. x \in Job(Len(log))
    <3> HIDE DEF Idle
    <3> QED
      BY <2>4, <1>l, <1>i DEF Job
  <2>7. x.ops = InIdOrder(ops)
    BY DEF Idle
  <2>8. job' = [job EXCEPT ![t] = x]
    BY <2>1, <2>5
  <2> HIDE DEF x
  <2>9. job'[t] = x /\ job' = [job EXCEPT ![t] = job'[t]]
    BY <2>8, <1>J
  <2>10. ToSet(job'[t].ops) \subseteq Statement /\ DistinctIds(ToSet(job'[t].ops))
    BY <2>2, <2>3, <2>7, <2>9
  <2>11. UNCHANGED <<log, store, cursor, overtaken, cutShort, halfRemoved>>
    BY <1>3 DEF ReadNewest
  <2> QED
    BY <1>s, <2>6, <2>9, <2>10, <2>11, TypeSameLog
<1>4. CASE MergeOps(t)
  <2>1. GrewTo(log, log') /\ DistinctIds(ToSet(log'))
    BY <1>4, Merged
  <2>2. log' \in Seq(Op) /\ Len(log) <= Len(log') /\ Len(log') \in Nat
    BY <2>1 DEF GrewTo
  <2>3. PICK at \in {"wantRebuild", "wantCatchUp"} :
          job' = [job EXCEPT ![t] = Idle]
            \/ job' = [job EXCEPT ![t] = [job[t] EXCEPT !.at = at, !.ops = <<>>]]
    BY <1>4, <1>J DEF MergeOps
  <2> DEFINE x == [job[t] EXCEPT !.at = at, !.ops = <<>>]
  <2>4. x \in Job(Len(log'))
    <3>1. job[t] \in Job(Len(log))
      BY <1>j
    <3> QED
      BY <3>1, <1>l, <2>2, HasMerged
  <2>5. x.at # "merge"
    <3>1. job[t] \in Job(Len(log))
      BY <1>j
    <3> QED
      BY <3>1 DEF Job
  <2>6. Idle \in Job(Len(log')) /\ Idle.at # "merge"
    BY <2>2 DEF Idle, Job
  <2>7. PICK y \in {x, Idle} : job' = [job EXCEPT ![t] = y]
    BY <2>3
  <2> HIDE DEF x, Idle
  <2>8. y \in Job(Len(log')) /\ y.at # "merge"
    BY <2>4, <2>5, <2>6, <2>7
  <2>9. job'[t] = y /\ job' = [job EXCEPT ![t] = job'[t]]
    BY <2>7, <1>J
  <2>10. overtaken' \in BOOLEAN /\ UNCHANGED <<store, cursor, cutShort, halfRemoved>>
    BY <1>4, <1>s DEF MergeOps
  <2>11. cursor' \in 0 .. Len(log')
    BY <2>2, <2>10, <1>l, <1>s
  <2> QED
    BY <1>s, <2>1, <2>2, <2>8, <2>9, <2>10, <2>11, TypeByJob
<1>5. CASE StartCatchUp(t) \/ StartRebuild(t) \/ AskRebuild(t) \/ EmptyStores(t)
  <2>1. PICK at \in InStores : At(t, at)
    BY <1>5 DEF StartCatchUp, StartRebuild, AskRebuild, EmptyStores, InStores
  <2>2. /\ UNCHANGED <<log, cursor, overtaken, cutShort, halfRemoved>>
        /\ store' \in [Cell -> Id \cup {0}]
    BY <1>5, <1>s DEF StartCatchUp, StartRebuild, AskRebuild, EmptyStores, Empty
  <2>3. Len(log') \in Nat /\ Len(log) <= Len(log')
    BY <2>2, <1>l
  <2>4. /\ job'[t] \in Job(Len(log')) /\ job'[t].at # "merge"
        /\ job' = [job EXCEPT ![t] = job'[t]]
    BY <2>1, <2>3, AtIsTyped
  <2>5. job'[t] \in Job(Len(log))
    BY <2>4, <2>2
  <2> QED
    BY <1>s, <2>2, <2>4, <2>5, TypeSameLog
<1>6. CASE ReadCursor(t)
  <2> DEFINE x == [job[t] EXCEPT !.at = "select", !.from = cursor, !.last = Start]
  <2>1. job[t] \in Job(Len(log))
    BY <1>j
  <2>c. cursor \in -1 .. Len(log)
    BY <1>s, <1>l
  <2>2. x \in Job(Len(log))
    BY <2>1, <2>c, <1>l, <1>f, HasReadCursor
  <2>3. x.at # "merge"
    BY <2>1 DEF Job
  <2>4. job' = [job EXCEPT ![t] = x]
    BY <1>6, <1>J DEF ReadCursor
  <2> HIDE DEF x
  <2>5. job'[t] = x /\ job' = [job EXCEPT ![t] = job'[t]]
    BY <2>4, <1>J
  <2>6. UNCHANGED <<log, store, cursor, overtaken, cutShort, halfRemoved>>
    BY <1>6 DEF ReadCursor
  <2> QED
    BY <1>s, <2>2, <2>3, <2>5, <2>6, TypeSameLog
<1>7. CASE SelectOps(t)
  <2>1. job[t] \in Job(Len(log))
    BY <1>j
  <2>2. job[t].last \in 0 .. Len(log)
    BY <2>1 DEF Job
  <2> DEFINE ops == After(job[t].last)
             x == [job[t] EXCEPT !.at = "apply", !.ops = ops, !.last = Len(log)]
             y == [job[t] EXCEPT !.at = "selectAll"]
  <2>3. ops \in Seq(Op) /\ Len(ops) = Len(log) - job[t].last
    BY <2>2, <1>l DEF After
  <2>4. job' = [job EXCEPT ![t] = x] \/ job' = [job EXCEPT ![t] = y]
    <3>1. CASE ResetReached(ToSet(ops), ToSet(log))
      BY <3>1, <1>7, <1>J DEF SelectOps
    <3>2. CASE ~ResetReached(ToSet(ops), ToSet(log))
      BY <3>2, <1>7, <1>J DEF SelectOps
    <3> QED
      BY <3>1, <3>2
  <2>5. Len(log) \in 0 .. Len(log)
    BY <1>l
  <2> HIDE DEF ops
  <2>6. x \in Job(Len(log))
    BY <2>1, <2>3, <2>5, <1>l DEF Job, InStores
  <2>7. y \in Job(Len(log))
    BY <2>1, <1>l DEF Job, InStores
  <2>8. x.at # "merge" /\ y.at # "merge"
    BY <2>1 DEF Job
  <2> HIDE DEF x, y
  <2>9. job'[t] \in {x, y} /\ job' = [job EXCEPT ![t] = job'[t]]
    BY <2>4, <1>J
  <2>10. job'[t] \in Job(Len(log)) /\ job'[t].at # "merge"
    BY <2>6, <2>7, <2>8, <2>9
  <2>11. UNCHANGED <<log, store, cursor, overtaken, cutShort, halfRemoved>>
    BY <1>7 DEF SelectOps
  <2> QED
    BY <1>s, <2>9, <2>10, <2>11, TypeSameLog
<1>8. CASE ApplyOp(t)
  <2>1. job[t] \in Job(Len(log))
    BY <1>j
  <2>2. job[t].ops \in Seq(Op) /\ job[t].ops # <<>> /\ job[t].at = "apply"
    BY <1>8, <2>1 DEF ApplyOp, Job
  <2>3. Head(job[t].ops) \in Op /\ Tail(job[t].ops) \in Seq(Op)
    BY <2>2
  <2> DEFINE x == [job[t] EXCEPT !.ops = Tail(@)]
  <2>4. x \in Job(Len(log))
    BY <2>1, <2>3 DEF Job
  <2>5. x.at # "merge"
    BY <2>1, <2>2 DEF Job
  <2>6. job' = [job EXCEPT ![t] = x]
    BY <1>8, <1>J DEF ApplyOp
  <2> HIDE DEF x
  <2>7. job'[t] = x /\ job' = [job EXCEPT ![t] = job'[t]]
    BY <2>6, <1>J
  <2>8. store' \in [Cell -> Id \cup {0}]
    <3>1. Head(job[t].ops).id \in Id
      BY <2>3, OpFields
    <3> QED
      BY <1>8, <1>s, <3>1 DEF ApplyOp
  <2>9. UNCHANGED <<log, cursor, overtaken, cutShort, halfRemoved>>
    BY <1>8 DEF ApplyOp
  <2> QED
    BY <1>s, <2>4, <2>5, <2>7, <2>8, <2>9, TypeSameLog
<1>9. CASE SetCursor(t) \/ Fail(t)
  <2>1. job' = [job EXCEPT ![t] = Idle] /\ UNCHANGED <<log, store, overtaken>>
    BY <1>9 DEF SetCursor, Fail
  <2>2. job[t].last \in 0 .. Len(log)
    BY <1>j DEF Job
  <2>3. cursor' \in 0 .. Len(log)
    BY <1>9, <2>2, <1>s DEF SetCursor, Fail
  <2>4. cutShort' \in BOOLEAN /\ halfRemoved' \in BOOLEAN
    BY <1>9, <1>s DEF SetCursor, Fail
  <2> HIDE DEF Idle
  <2>5. job'[t] = Idle /\ job' = [job EXCEPT ![t] = job'[t]]
    BY <2>1, <1>J
  <2> QED
    BY <1>s, <1>i, <2>1, <2>3, <2>4, <2>5, TypeSameLog
<1>10. CASE SelectAll(t)
  <2>1. Replayed(log) \in SUBSET Op /\ DistinctIds(Replayed(log))
    BY <1>l, LiveIsFinite DEF DistinctIds
  <2>2. InIdOrder(Replayed(log)) \in Seq(Op)
    <3>1. InIdOrder(Replayed(log)) \in Seq(Replayed(log))
      BY <2>1, DistinctAreFinite, IdOrder
    <3> QED
      BY <2>1, <3>1
  <2> DEFINE last == IF Live(log) = {} THEN 0 ELSE Len(log)
             ops == InIdOrder(Replayed(log))
             x == [job[t] EXCEPT !.at = "empty", !.ops = ops, !.from = -1, !.last = last]
  <2>3. last \in 0 .. Len(log)
    BY <1>l
  <2>4. job' = [job EXCEPT ![t] = x]
    BY <1>10, <1>J DEF SelectAll
  <2>5. job[t] \in Job(Len(log))
    BY <1>j
  <2> HIDE DEF last, ops
  <2>6. ops \in Seq(Op)
    BY <2>2 DEF ops
  <2>7. x \in Job(Len(log))
    BY <2>3, <2>5, <2>6, <1>l, HasReadLog
  <2>8. x.at # "merge"
    BY <2>5 DEF Job
  <2> HIDE DEF x
  <2>9. job'[t] = x /\ job' = [job EXCEPT ![t] = job'[t]]
    BY <2>4, <1>J
  <2>10. UNCHANGED <<log, store, cursor, overtaken, cutShort, halfRemoved>>
    BY <1>10 DEF SelectAll
  <2> QED
    BY <1>s, <2>7, <2>8, <2>9, <2>10, TypeSameLog
<1>11. CASE RemoveStores(t)
  <2>1. At(t, "forgetting") /\ UNCHANGED <<log, overtaken, cutShort, halfRemoved>>
    BY <1>11 DEF RemoveStores
  <2>2. store' \in [Cell -> Id \cup {0}] /\ cursor' \in 0 .. Len(log)
    BY <1>11, <1>l DEF RemoveStores, Empty
  <2>3. Len(log') \in Nat /\ Len(log) <= Len(log')
    BY <2>1, <1>l
  <2>4. /\ job'[t] \in Job(Len(log')) /\ job'[t].at # "merge"
        /\ job' = [job EXCEPT ![t] = job'[t]]
    BY <2>1, <2>3, AtIsTyped
  <2>5. job'[t] \in Job(Len(log))
    BY <2>1, <2>4
  <2> QED
    BY <1>s, <2>1, <2>2, <2>4, <2>5, TypeSameLog
<1> QED
  BY <1>1, <1>2, <1>3, <1>4, <1>5, <1>6, <1>7, <1>8, <1>9, <1>10, <1>11

\* Whatever the processes of the threads, the log holds operations, every row is
\* of one of them or empty, and no position is beyond the log.
THEOREM TypeCorrect == Spec => []TypeOK
<1>1. TypeInv /\ [Next]_vars => TypeInv'
  BY TypeStep
<1>2. TypeInv => TypeOK
  BY DEF TypeInv
<1> QED
  BY TypeInit, <1>1, <1>2, PTL DEF Spec

----------------------------------------------------------------------------
(* The threads of one process *)

AllInOneProcess == \A t, u \in Thread : ProcessOf[t] = ProcessOf[u]

\* The mutex: one thread at a time is at the stores.
OneInside ==
    \A t, u \in Thread : t # u => ~(job[t].at \in InStores /\ job[u].at \in InStores)

\* A thread has read from the log what it is about to apply.
Working(t) == job[t].at \in {"empty", "apply"}

CursorOK == cursor = 0 \/ cursor >= LastForget(log)

\* What a thread knows at each step: only a rebuild is under way with the word
\* to rebuild, and no rival has moved the cursor since a catch-up read it.
PhaseOK(t) ==
    /\ job[t].rebuild => job[t].at \in {"merge", "wantRebuild", "selectAll", "empty", "apply"}
    /\ job[t].rebuild /\ Working(t) => job[t].from = -1
    /\ job[t].at = "empty" => job[t].from = -1
    /\ job[t].at = "select" => job[t].last = Start /\ job[t].from = cursor
    /\ job[t].at = "apply" => job[t].from \in {-1, cursor}
    /\ job[t].at = "apply" /\ job[t].from # -1 => ToSet(job[t].ops) \subseteq Beyond(log, Start)
    /\ Working(t) => From(log, job[t].last) >= Start
    /\ Working(t) => job[t].last = 0 \/ job[t].last >= LastForget(log)

ControlInv == OneInside /\ CursorOK /\ \A t \in Thread : PhaseOK(t)

Others(t) == \A u \in Thread : u # t => job'[u] = job[u]

\* What is known of a job and a log whose types are right.
LEMMA Typed ==
    ASSUME TypeInv
    PROVE  /\ log \in Seq(Op) /\ Len(log) \in Nat
           /\ LastForget(log) \in 0 .. Len(log)
           /\ cursor \in 0 .. Len(log)
           /\ Start = From(log, cursor) /\ Start \in 0 .. Len(log)
           /\ \A p \in 0 .. Len(log) : From(log, p) \in 0 .. Len(log)
           /\ store \in [Cell -> Id \cup {0}]
           /\ \A t \in Thread :
                /\ job[t] \in Job(Len(log))
                /\ job[t].ops \in Seq(Op)
                /\ job[t].last \in 0 .. Len(log)
                /\ job[t].from \in Int
                /\ job[t].rebuild \in BOOLEAN
<1>1. /\ log \in Seq(Op) /\ Len(log) \in Nat /\ cursor \in 0 .. Len(log)
      /\ job \in [Thread -> Job(Len(log))] /\ store \in [Cell -> Id \cup {0}]
  BY DEF TypeInv, TypeOK
<1>2. LastForget(log) \in 0 .. Len(log)
  BY <1>1, LastForgetIs
<1>3. Start = From(log, cursor)
  BY DEF Start, StartAt, From
<1>4. \A p \in 0 .. Len(log) : From(log, p) \in 0 .. Len(log)
  BY <1>1, <1>2 DEF From
<1>5. \A t \in Thread : job[t] \in Job(Len(log))
  BY <1>1
<1>6. ASSUME NEW t \in Thread
      PROVE  /\ job[t].ops \in Seq(Op) /\ job[t].last \in 0 .. Len(log)
             /\ job[t].from \in Int /\ job[t].rebuild \in BOOLEAN
  BY <1>5 DEF Job
<1> QED
  BY <1>1, <1>2, <1>3, <1>4, <1>5, <1>6

LEMMA AfterIsBeyond ==
    ASSUME TypeInv, NEW n \in 0 .. Len(log)
    PROVE  ToSet(After(n)) = Beyond(log, n)
<1>1. log \in Seq(Op) /\ Len(log) \in Nat
  BY Typed
<1>2. /\ After(n) \in Seq(Op)
      /\ Len(After(n)) = Len(log) - n
      /\ \A k \in 1 .. Len(log) - n : After(n)[k] = log[n + k]
  BY <1>1 DEF After
<1>3. DOMAIN After(n) = 1 .. Len(log) - n
  BY <1>2
<1>4. ASSUME NEW x \in ToSet(After(n)) PROVE x \in Beyond(log, n)
  <2>1. PICK k \in 1 .. Len(log) - n : x = log[n + k]
    BY <1>2, <1>3 DEF ToSet
  <2>2. n + k \in n + 1 .. Len(log)
    BY <1>1
  <2> QED
    BY <2>1, <2>2 DEF Beyond
<1>5. ASSUME NEW x \in Beyond(log, n) PROVE x \in ToSet(After(n))
  <2>1. PICK i \in n + 1 .. Len(log) : x = log[i]
    BY DEF Beyond
  <2>2. i - n \in 1 .. Len(log) - n /\ n + (i - n) = i
    BY <1>1
  <2>3. After(n)[i - n] = x
    BY <2>1, <2>2, <1>2
  <2> QED
    BY <2>2, <2>3, <1>3 DEF ToSet
<1> QED
  BY <1>4, <1>5

----------------------------------------------------------------------------
(* What each step does, field by field *)

\* Into the stores, to catch up.
LEMMA EntersToCatchUp ==
    ASSUME TypeInv, NEW t \in Thread, RecordWrite(t) \/ StartCatchUp(t)
    PROVE  /\ job[t].at \in {"idle", "wantCatchUp"} /\ job'[t].at = "read"
           /\ job'[t].rebuild = job[t].rebuild
           /\ Others(t) /\ LockFree(t) /\ GrewTo(log, log')
           /\ UNCHANGED <<store, cursor, overtaken, cutShort, halfRemoved>>
           /\ \A i, j \in 1 .. Len(log') : Inverted(log', i, j) => j <= Len(log)
<1>l. log \in Seq(Op) /\ Len(log) \in Nat /\ job \in [Thread -> Job(Len(log))]
  BY DEF TypeInv, TypeOK
<1>1. /\ GrewTo(log, log')
      /\ \A i, j \in 1 .. Len(log') : Inverted(log', i, j) => j <= Len(log)
  <2>1. CASE RecordWrite(t)
    <3>1. /\ GrewTo(log, log') /\ Len(log') = Len(log) + 1
          /\ \A i \in 1 .. Len(log) : log[i].id < log'[Len(log')].id
      BY <2>1, Recorded
    <3>2. ASSUME NEW i \in 1 .. Len(log'), NEW j \in 1 .. Len(log'), Inverted(log', i, j)
          PROVE  j <= Len(log)
      <4> SUFFICES ASSUME j > Len(log) PROVE FALSE
        BY <1>l
      <4>1. j = Len(log')
        BY <3>1, <1>l
      <4>2. i \in 1 .. Len(log) /\ log'[j].id < log'[i].id
        BY <3>2, <4>1, <3>1, <1>l DEF Inverted
      <4>3. log'[i] = log[i]
        BY <4>2, <3>1 DEF GrewTo
      <4>4. log' \in Seq(Op)
        BY <3>1 DEF GrewTo
      <4>5. log'[i] \in Op /\ log'[j] \in Op
        BY <4>4
      <4>6. log'[i].id \in Nat /\ log'[j].id \in Nat
        BY <4>5, OpFields
      <4> QED
        BY <4>1, <4>2, <4>3, <4>6, <3>1
    <3> QED
      BY <3>1, <3>2
  <2>2. CASE StartCatchUp(t)
    <3>1. log' = log
      BY <2>2 DEF StartCatchUp
    <3>2. \A i, j \in 1 .. Len(log') : j <= Len(log)
      BY <3>1, <1>l
    <3> QED
      BY <3>1, <3>2, <1>l, StaysAsItIs
  <2> QED
    BY <2>1, <2>2
<1>2. Len(log') \in Nat /\ Len(log) <= Len(log')
  BY <1>1 DEF GrewTo
<1>3. At(t, "read") /\ LockFree(t) /\ UNCHANGED <<store, cursor, overtaken, cutShort, halfRemoved>>
  BY DEF RecordWrite, StartCatchUp
<1>4. "read" \in InStores \cup {"idle", "wantCatchUp", "wantRebuild", "forgetting"}
  BY DEF InStores
<1>5. job'[t].at = "read" /\ job'[t].rebuild = job[t].rebuild
  BY <1>2, <1>3, <1>4, AtIsTyped
<1>6. Others(t)
  BY <1>3, <1>l DEF At, Others
<1>7. job[t].at \in {"idle", "wantCatchUp"}
  BY DEF RecordWrite, StartCatchUp, Idle
<1> QED
  BY <1>1, <1>3, <1>5, <1>6, <1>7

\* Into the stores, to rebuild.
LEMMA EntersToRebuild ==
    ASSUME TypeInv, NEW t \in Thread, StartRebuild(t) \/ AskRebuild(t)
    PROVE  /\ job[t].at \in {"idle", "wantRebuild"} /\ job'[t].at = "selectAll"
           /\ job'[t].rebuild = job[t].rebuild
           /\ Others(t) /\ LockFree(t)
           /\ UNCHANGED <<log, store, cursor, overtaken, cutShort, halfRemoved>>
<1>l. Len(log) \in Nat /\ job \in [Thread -> Job(Len(log))]
  BY DEF TypeInv, TypeOK
<1>1. At(t, "selectAll") /\ LockFree(t) /\ UNCHANGED <<log, store, cursor, overtaken, cutShort, halfRemoved>>
  BY DEF StartRebuild, AskRebuild
<1>2. "selectAll" \in InStores \cup {"idle", "wantCatchUp", "wantRebuild", "forgetting"}
  BY DEF InStores
<1>3. Len(log') \in Nat /\ Len(log) <= Len(log')
  BY <1>1, <1>l
<1>4. job'[t].at = "selectAll" /\ job'[t].rebuild = job[t].rebuild
  BY <1>1, <1>2, <1>3, AtIsTyped
<1>5. Others(t)
  BY <1>1, <1>l DEF At, Others
<1>6. job[t].at \in {"idle", "wantRebuild"}
  BY DEF StartRebuild, AskRebuild, Idle
<1> QED
  BY <1>1, <1>4, <1>5, <1>6

LEMMA RecordsReset ==
    ASSUME TypeInv, NEW t \in Thread, RecordReset(t)
    PROVE  /\ job[t].at = "idle" /\ job'[t].at = "wantRebuild"
           /\ job[t].rebuild = FALSE /\ job'[t].rebuild = FALSE
           /\ Others(t) /\ GrewTo(log, log')
           /\ UNCHANGED <<store, cursor, overtaken, cutShort, halfRemoved>>
           /\ \A i, j \in 1 .. Len(log') : Inverted(log', i, j) => j <= Len(log)
<1>l. log \in Seq(Op) /\ Len(log) \in Nat /\ job \in [Thread -> Job(Len(log))]
  BY DEF TypeInv, TypeOK
<1>1. /\ GrewTo(log, log') /\ Len(log') = Len(log) + 1
      /\ \A i \in 1 .. Len(log) : log[i].id < log'[Len(log')].id
  BY Recorded
<1>2. ASSUME NEW i \in 1 .. Len(log'), NEW j \in 1 .. Len(log'), Inverted(log', i, j)
      PROVE  j <= Len(log)
  <2> SUFFICES ASSUME j > Len(log) PROVE FALSE
    BY <1>l
  <2>1. j = Len(log')
    BY <1>1, <1>l
  <2>2. i \in 1 .. Len(log) /\ log'[j].id < log'[i].id
    BY <1>2, <2>1, <1>1, <1>l DEF Inverted
  <2>3. log'[i] = log[i] /\ log' \in Seq(Op)
    BY <2>2, <1>1 DEF GrewTo
  <2>4. log'[i] \in Op /\ log'[j] \in Op
    BY <2>3
  <2>5. log'[i].id \in Nat /\ log'[j].id \in Nat
    BY <2>4, OpFields
  <2> QED
    BY <2>1, <2>2, <2>3, <2>5, <1>1
<1>3. Len(log') \in Nat /\ Len(log) <= Len(log')
  BY <1>1 DEF GrewTo
<1>4. At(t, "wantRebuild") /\ job[t] = Idle /\ UNCHANGED <<store, cursor, overtaken, cutShort, halfRemoved>>
  BY DEF RecordReset
<1>5. job'[t].at = "wantRebuild" /\ job'[t].rebuild = job[t].rebuild
  BY <1>3, <1>4, AtIsTyped
<1>6. Others(t)
  BY <1>4, <1>l DEF At, Others
<1>7. job[t].at = "idle" /\ job[t].rebuild = FALSE
  BY <1>4 DEF Idle
<1> QED
  BY <1>1, <1>2, <1>4, <1>5, <1>6, <1>7

LEMMA ReadsNewest ==
    ASSUME TypeInv, NEW t \in Thread, ReadNewest(t)
    PROVE  /\ job[t].at = "idle" /\ job[t].rebuild = FALSE
           /\ job'[t].at = "merge"
           /\ Others(t)
           /\ UNCHANGED <<log, store, cursor, overtaken, cutShort, halfRemoved>>
<1>l. job \in [Thread -> Job(Len(log))]
  BY DEF TypeInv, TypeOK
<1>1. \E ops : job' = [job EXCEPT ![t] = [Idle EXCEPT !.at = "merge",
                                                    !.ops = InIdOrder(ops),
                                                    !.rebuild = SortsBefore(ops) \/ Travelling = {}]]
  BY DEF ReadNewest
<1>2. PICK ops : job' = [job EXCEPT ![t] = [Idle EXCEPT !.at = "merge",
                                                    !.ops = InIdOrder(ops),
                                                    !.rebuild = SortsBefore(ops) \/ Travelling = {}]]
  BY <1>1
<1> DEFINE x == [Idle EXCEPT !.at = "merge", !.ops = InIdOrder(ops),
                             !.rebuild = SortsBefore(ops) \/ Travelling = {}]
<1>3. x.at = "merge"
  BY DEF Idle
<1>4. job' = [job EXCEPT ![t] = x]
  BY <1>2
<1> HIDE DEF x
<1>5. job'[t] = x /\ Others(t)
  BY <1>4, <1>l DEF Others
<1>6. job[t] = Idle /\ UNCHANGED <<log, store, cursor, overtaken, cutShort, halfRemoved>>
  BY DEF ReadNewest
<1>7. job[t].at = "idle" /\ job[t].rebuild = FALSE
  BY <1>6 DEF Idle
<1> QED
  BY <1>3, <1>5, <1>6, <1>7

\* What is older than nothing the log holds live, and in order, goes up.
LEMMA MergedInOrder ==
    ASSUME TypeInv, NEW t \in Thread, MergeOps(t), ~SortsBefore(ToSet(New(t)))
    PROVE  \A i, j \in 1 .. Len(log') : Inverted(log', i, j) => j <= Len(log)
<1>l. log \in Seq(Op) /\ Len(log) \in Nat /\ LastForget(log) \in 0 .. Len(log)
  BY Typed
<1>1. /\ New(t) \in Seq(Statement) /\ New(t) \in Seq(Op)
      /\ \A i, j \in 1 .. Len(New(t)) : i < j => New(t)[i].id < New(t)[j].id
      /\ log' = log \o New(t)
      /\ GrewTo(log, log')
  BY Merged, StatementsAreOps
<1>2. /\ Len(New(t)) \in Nat /\ Len(log') = Len(log) + Len(New(t))
      /\ \A i \in 1 .. Len(log) : log'[i] = log[i]
      /\ \A k \in 1 .. Len(New(t)) : log'[Len(log) + k] = New(t)[k]
  BY <1>1, <1>l
<1>3. log' \in Seq(Op) /\ LastForget(log') = LastForget(log)
  BY <1>1 DEF GrewTo
<1>4. \A i \in 1 .. Len(log') : log'[i].id \in Nat
  BY <1>3, OpFields
<1> SUFFICES ASSUME NEW i \in 1 .. Len(log'), NEW j \in 1 .. Len(log'),
                    Inverted(log', i, j), j > Len(log)
             PROVE  FALSE
  BY <1>l
<1>5. /\ i \in LastForget(log) + 1 .. Len(log') /\ i < j
      /\ log'[j].id < log'[i].id
  BY <1>3, <1>l DEF Inverted
<1> DEFINE k == j - Len(log)
<1>6. k \in 1 .. Len(New(t)) /\ log'[j] = New(t)[k]
  <2>1. k \in 1 .. Len(New(t)) /\ Len(log) + k = j
    BY <1>2, <1>l
  <2> QED
    BY <2>1, <1>2
<1>7. CASE i > Len(log)
  <2> DEFINE m == i - Len(log)
  <2>1. m \in 1 .. Len(New(t)) /\ Len(log) + m = i /\ m < k
    BY <1>2, <1>l, <1>5, <1>7
  <2>2. log'[i] = New(t)[m]
    BY <2>1, <1>2
  <2>3. New(t)[m].id < New(t)[k].id
    BY <2>1, <1>6, <1>1
  <2> QED
    BY <2>2, <2>3, <1>6, <1>5, <1>4
<1>8. CASE i <= Len(log)
  <2> DEFINE ids == {p.id : p \in Travelling}
  <2>1. i \in LastForget(log) + 1 .. Len(log) /\ log'[i] = log[i]
    BY <1>8, <1>5, <1>2, <1>l
  <2>2. log[i].kind # "forget"
    BY <2>1, <1>l, LastForgetIs
  <2>3. log[i] \in Travelling
    BY <2>1, <2>2 DEF Travelling, Live
  <2>4. Travelling \in SUBSET Op
    BY <1>l, LiveIsFinite DEF Travelling
  <2>5. ids \in SUBSET Id
    BY <2>4, OpFields
  <2>6. ids \in SUBSET Nat /\ IsFiniteSet(ids)
    BY <2>5, IdsAreFinite
  <2>7. log[i].id \in ids
    BY <2>3
  <2>8. log[i].id <= Newest(ids) /\ Newest(ids) \in Nat
    <3> HIDE DEF ids
    <3> QED
      BY <2>6, <2>7, NewestIs
  <2>9. New(t)[k] \in ToSet(New(t))
    BY <1>6, <1>1 DEF ToSet
  <2>10. ~(New(t)[k].id < Newest(ids))
    BY <2>9 DEF SortsBefore
  <2> QED
    BY <2>1, <2>8, <2>10, <1>6, <1>5, <1>4
<1> QED
  BY <1>7, <1>8, <1>l

LEMMA Merges ==
    ASSUME TypeInv, NEW t \in Thread, MergeOps(t)
    PROVE  /\ job[t].at = "merge"
           /\ \/ job'[t].at = "idle" /\ job'[t].rebuild = FALSE
              \/ job'[t].at = "wantCatchUp" /\ job'[t].rebuild = FALSE
              \/ job'[t].at = "wantRebuild" /\ job'[t].rebuild = TRUE
           /\ Others(t) /\ GrewTo(log, log')
           /\ UNCHANGED <<store, cursor, cutShort, halfRemoved>>
           /\ overtaken => overtaken'
           /\ ~overtaken' => job'[t].at = "wantRebuild"
                \/ \A i, j \in 1 .. Len(log') : Inverted(log', i, j) => j <= Len(log)
<1>l. /\ log \in Seq(Op) /\ Len(log) \in Nat
      /\ job \in [Thread -> Job(Len(log))] /\ overtaken \in BOOLEAN
  BY DEF TypeInv, TypeOK
<1>1. GrewTo(log, log')
  BY Merged
<1>2. /\ job[t].at = "merge" /\ UNCHANGED <<store, cursor, cutShort, halfRemoved>>
      /\ overtaken' = (overtaken \/ (SortsBefore(ToSet(New(t))) /\ ~job[t].rebuild))
      /\ job' = [job EXCEPT ![t] =
              IF New(t) = <<>> /\ ~job[t].rebuild THEN Idle
              ELSE [@ EXCEPT !.at = IF job[t].rebuild THEN "wantRebuild" ELSE "wantCatchUp",
                             !.ops = <<>>]]
  BY DEF MergeOps, New
<1>3. job[t] \in Job(Len(log)) /\ job[t].rebuild \in BOOLEAN
  BY <1>l, Typed
<1>4. CASE job[t].rebuild
  <2> DEFINE x == [job[t] EXCEPT !.at = "wantRebuild", !.ops = <<>>]
  <2>1. job' = [job EXCEPT ![t] = x]
    BY <1>2, <1>4, <1>l
  <2>c. job[t] \in Job(Len(log))
    BY <1>3
  <2>a. x.at = "wantRebuild"
    BY <2>c DEF Job
  <2>b. x.rebuild = job[t].rebuild
    BY <2>c DEF Job
  <2>2. x.at = "wantRebuild" /\ x.rebuild = job[t].rebuild
    BY <2>a, <2>b
  <2> HIDE DEF x
  <2>3. job'[t] = x /\ Others(t)
    BY <2>1, <1>l DEF Others
  <2>4. job'[t].rebuild = TRUE
    BY <2>2, <2>3, <1>3, <1>4
  <2> QED
    BY <1>1, <1>2, <2>2, <2>3, <2>4
<1>5. CASE ~job[t].rebuild
  <2> DEFINE x == [job[t] EXCEPT !.at = "wantCatchUp", !.ops = <<>>]
  <2>1. job' = [job EXCEPT ![t] = Idle] \/ job' = [job EXCEPT ![t] = x]
    BY <1>2, <1>5, <1>l
  <2>c. job[t] \in Job(Len(log))
    BY <1>3
  <2>a. x.at = "wantCatchUp"
    BY <2>c DEF Job
  <2>b. x.rebuild = job[t].rebuild
    BY <2>c DEF Job
  <2>2. x.at = "wantCatchUp" /\ x.rebuild = job[t].rebuild
    BY <2>a, <2>b
  <2>3. Idle.at = "idle" /\ Idle.rebuild = FALSE
    BY DEF Idle
  <2> HIDE DEF x, Idle
  <2>4. job'[t] \in {x, Idle} /\ Others(t)
    BY <2>1, <1>l DEF Others
  <2>5. \/ job'[t].at = "idle" /\ job'[t].rebuild = FALSE
        \/ job'[t].at = "wantCatchUp" /\ job'[t].rebuild = FALSE
    BY <2>2, <2>3, <2>4, <1>3, <1>5
  <2>6. ~overtaken' => ~SortsBefore(ToSet(New(t)))
    BY <1>2, <1>5
  <2>7. ~overtaken' => \A i, j \in 1 .. Len(log') : Inverted(log', i, j) => j <= Len(log)
    BY <2>6, MergedInOrder
  <2>8. overtaken => overtaken'
    BY <1>2
  <2> QED
    BY <1>1, <1>2, <2>4, <2>5, <2>7, <2>8
<1> QED
  BY <1>4, <1>5

LEMMA ReadsCursor ==
    ASSUME TypeInv, NEW t \in Thread, ReadCursor(t)
    PROVE  /\ job[t].at = "read" /\ job'[t].at = "select"
           /\ job'[t].rebuild = job[t].rebuild
           /\ job'[t].from = cursor /\ job'[t].last = Start
           /\ Others(t)
           /\ UNCHANGED <<log, store, cursor, overtaken, cutShort, halfRemoved>>
<1>l. /\ Len(log) \in Nat /\ job \in [Thread -> Job(Len(log))]
      /\ cursor \in -1 .. Len(log) /\ Start \in 0 .. Len(log)
  BY Typed DEF TypeInv, TypeOK
<1> DEFINE x == [job[t] EXCEPT !.at = "select", !.from = cursor, !.last = Start]
<1>1. job' = [job EXCEPT ![t] = x]
  BY <1>l DEF ReadCursor
<1>2. job[t] \in Job(Len(log))
  BY <1>l
<1>a. x.at = "select"
  BY <1>2 DEF Job
<1>b. x.from = cursor
  BY <1>2 DEF Job
<1>c. x.last = Start
  BY <1>2 DEF Job
<1>d. x.rebuild = job[t].rebuild
  BY <1>2 DEF Job
<1>3. x.at = "select" /\ x.from = cursor /\ x.last = Start /\ x.rebuild = job[t].rebuild
  BY <1>a, <1>b, <1>c, <1>d
<1> HIDE DEF x
<1>4. job'[t] = x /\ Others(t)
  BY <1>1, <1>l DEF Others
<1>5. job[t].at = "read" /\ UNCHANGED <<log, store, cursor, overtaken, cutShort, halfRemoved>>
  BY DEF ReadCursor
<1> QED
  BY <1>3, <1>4, <1>5

LEMMA SelectsOps ==
    ASSUME TypeInv, NEW t \in Thread, SelectOps(t)
    PROVE  /\ job[t].at = "select"
           /\ job'[t].rebuild = job[t].rebuild
           /\ \/ job'[t].at = "selectAll"
              \/ /\ job'[t].at = "apply"
                 /\ job'[t].ops = After(job[t].last)
                 /\ job'[t].from = job[t].from
                 /\ job'[t].last = Len(log)
                 /\ ~ResetReached(ToSet(After(job[t].last)), ToSet(log))
           /\ Others(t)
           /\ UNCHANGED <<log, store, cursor, overtaken, cutShort, halfRemoved>>
<1>l. Len(log) \in Nat /\ job \in [Thread -> Job(Len(log))]
  BY DEF TypeInv, TypeOK
<1>1. job[t] \in Job(Len(log))
  BY <1>l
<1>2. job[t].at = "select" /\ UNCHANGED <<log, store, cursor, overtaken, cutShort, halfRemoved>>
  BY DEF SelectOps
<1> DEFINE ops == After(job[t].last)
<1>3. CASE ResetReached(ToSet(ops), ToSet(log))
  <2> DEFINE x == [job[t] EXCEPT !.at = "selectAll"]
  <2>1. job' = [job EXCEPT ![t] = x]
    BY <1>3, <1>l DEF SelectOps
  <2>2. x.at = "selectAll"
    BY <1>1 DEF Job
  <2>3. x.rebuild = job[t].rebuild
    BY <1>1 DEF Job
  <2> HIDE DEF x
  <2>4. job'[t] = x /\ Others(t)
    BY <2>1, <1>l DEF Others
  <2> QED
    BY <1>2, <2>2, <2>3, <2>4
<1>4. CASE ~ResetReached(ToSet(ops), ToSet(log))
  <2> DEFINE x == [job[t] EXCEPT !.at = "apply", !.ops = ops, !.last = Len(log)]
  <2>1. job' = [job EXCEPT ![t] = x]
    BY <1>4, <1>l DEF SelectOps
  <2> HIDE DEF ops
  <2>2. x.at = "apply"
    BY <1>1 DEF Job
  <2>3. x.rebuild = job[t].rebuild
    BY <1>1 DEF Job
  <2>4. x.ops = ops
    BY <1>1 DEF Job
  <2>5. x.from = job[t].from
    BY <1>1 DEF Job
  <2>6. x.last = Len(log)
    BY <1>1 DEF Job
  <2> HIDE DEF x
  <2>7. job'[t] = x /\ Others(t)
    BY <2>1, <1>l DEF Others
  <2> QED
    BY <1>2, <1>4, <2>2, <2>3, <2>4, <2>5, <2>6, <2>7 DEF ops
<1> QED
  BY <1>3, <1>4

LEMMA SelectsAll ==
    ASSUME TypeInv, NEW t \in Thread, SelectAll(t)
    PROVE  /\ job[t].at = "selectAll" /\ job'[t].at = "empty"
           /\ job'[t].rebuild = job[t].rebuild
           /\ job'[t].ops = InIdOrder(Replayed(log))
           /\ job'[t].from = -1
           /\ From(log, job'[t].last) = Len(log)
           /\ job'[t].last = 0 \/ job'[t].last = Len(log)
           /\ Others(t)
           /\ UNCHANGED <<log, store, cursor, overtaken, cutShort, halfRemoved>>
<1>l. /\ log \in Seq(Op) /\ Len(log) \in Nat /\ LastForget(log) \in 0 .. Len(log)
      /\ job \in [Thread -> Job(Len(log))]
  BY Typed DEF TypeInv, TypeOK
<1>1. job[t] \in Job(Len(log))
  BY <1>l
<1> DEFINE ops == InIdOrder(Replayed(log))
           last == IF Live(log) = {} THEN 0 ELSE Len(log)
           x == [job[t] EXCEPT !.at = "empty", !.ops = ops, !.from = -1, !.last = last]
<1>2. job' = [job EXCEPT ![t] = x]
  BY <1>l DEF SelectAll
<1>3. From(log, last) = Len(log)
  <2>1. CASE Live(log) = {}
    <3>1. LastForget(log) = Len(log)
      <4>1. Len(log) \notin LastForget(log) + 1 .. Len(log)
        BY <2>1 DEF Live
      <4> QED
        BY <4>1, <1>l
    <3> QED
      BY <3>1, <2>1 DEF From
  <2>2. CASE Live(log) # {}
    <3>1. Len(log) # 0
      BY <2>2, <1>l DEF Live
    <3> QED
      BY <3>1, <2>2 DEF From
  <2> QED
    BY <2>1, <2>2
<1>4. last = 0 \/ last = Len(log)
  OBVIOUS
<1> HIDE DEF ops, last
<1>5. x.at = "empty"
  BY <1>1 DEF Job
<1>6. x.rebuild = job[t].rebuild
  BY <1>1 DEF Job
<1>7. x.ops = ops
  BY <1>1 DEF Job
<1>8. x.from = -1
  BY <1>1 DEF Job
<1>9. x.last = last
  BY <1>1 DEF Job
<1> HIDE DEF x
<1>10. job'[t] = x /\ Others(t)
  BY <1>2, <1>l DEF Others
<1>11. job[t].at = "selectAll" /\ UNCHANGED <<log, store, cursor, overtaken, cutShort, halfRemoved>>
  BY DEF SelectAll
<1> QED
  BY <1>3, <1>4, <1>5, <1>6, <1>7, <1>8, <1>9, <1>10, <1>11 DEF ops

LEMMA EmptiesStores ==
    ASSUME TypeInv, NEW t \in Thread, EmptyStores(t)
    PROVE  /\ job[t].at = "empty" /\ job'[t].at = "apply"
           /\ job'[t].rebuild = job[t].rebuild
           /\ job'[t].ops = job[t].ops
           /\ job'[t].from = job[t].from
           /\ job'[t].last = job[t].last
           /\ store' = Empty
           /\ Others(t)
           /\ UNCHANGED <<log, cursor, overtaken, cutShort, halfRemoved>>
<1>l. Len(log) \in Nat /\ job \in [Thread -> Job(Len(log))]
  BY DEF TypeInv, TypeOK
<1>1. /\ job[t].at = "empty" /\ At(t, "apply") /\ store' = Empty
      /\ UNCHANGED <<log, cursor, overtaken, cutShort, halfRemoved>>
  BY DEF EmptyStores
<1>2. "apply" \in InStores \cup {"idle", "wantCatchUp", "wantRebuild", "forgetting"}
  BY DEF InStores
<1>3. Len(log') \in Nat /\ Len(log) <= Len(log')
  BY <1>1, <1>l
<1>4. /\ job'[t].at = "apply" /\ job'[t].rebuild = job[t].rebuild
      /\ job'[t].ops = job[t].ops /\ job'[t].from = job[t].from
      /\ job'[t].last = job[t].last
  BY <1>1, <1>2, <1>3, AtIsTyped
<1>5. Others(t)
  BY <1>1, <1>l DEF At, Others
<1> QED
  BY <1>1, <1>4, <1>5

LEMMA AppliesOp ==
    ASSUME TypeInv, NEW t \in Thread, ApplyOp(t)
    PROVE  /\ job[t].at = "apply" /\ job'[t].at = "apply"
           /\ job[t].ops # <<>> /\ job'[t].ops = Tail(job[t].ops)
           /\ job'[t].rebuild = job[t].rebuild
           /\ job'[t].from = job[t].from
           /\ job'[t].last = job[t].last
           /\ \A c \in Cell : store'[c] = IF WritesCell(Head(job[t].ops), c)
                                            THEN Head(job[t].ops).id ELSE store[c]
           /\ Others(t)
           /\ UNCHANGED <<log, cursor, overtaken, cutShort, halfRemoved>>
<1>l. job \in [Thread -> Job(Len(log))] /\ store \in [Cell -> Id \cup {0}]
  BY DEF TypeInv, TypeOK
<1>1. job[t] \in Job(Len(log))
  BY <1>l
<1> DEFINE x == [job[t] EXCEPT !.ops = Tail(@)]
<1>2. job' = [job EXCEPT ![t] = x]
  BY <1>l DEF ApplyOp
<1>3. x.at = job[t].at
  BY <1>1 DEF Job
<1>4. x.ops = Tail(job[t].ops)
  BY <1>1 DEF Job
<1>5. x.rebuild = job[t].rebuild
  BY <1>1 DEF Job
<1>6. x.from = job[t].from
  BY <1>1 DEF Job
<1>7. x.last = job[t].last
  BY <1>1 DEF Job
<1> HIDE DEF x
<1>8. job'[t] = x /\ Others(t)
  BY <1>2, <1>l DEF Others
<1>9. /\ job[t].at = "apply" /\ job[t].ops # <<>>
      /\ UNCHANGED <<log, cursor, overtaken, cutShort, halfRemoved>>
      /\ store' = IF Head(job[t].ops).kind = "write"
                    THEN [store EXCEPT ![Head(job[t].ops).cell] = Head(job[t].ops).id] ELSE store
  BY DEF ApplyOp
<1>10. \A c \in Cell : store'[c] = IF WritesCell(Head(job[t].ops), c)
                                     THEN Head(job[t].ops).id ELSE store[c]
  BY <1>9, <1>l DEF WritesCell
<1> QED
  BY <1>3, <1>4, <1>5, <1>6, <1>7, <1>8, <1>9, <1>10

LEMMA LeavesOff ==
    ASSUME TypeInv, NEW t \in Thread, SetCursor(t) \/ Fail(t)
    PROVE  /\ job'[t].at = "idle" /\ job'[t].rebuild = FALSE
           /\ Others(t)
           /\ UNCHANGED <<log, store, overtaken>>
<1>l. job \in [Thread -> Job(Len(log))]
  BY DEF TypeInv, TypeOK
<1>1. job' = [job EXCEPT ![t] = Idle] /\ UNCHANGED <<log, store, overtaken>>
  BY DEF SetCursor, Fail
<1>2. Idle.at = "idle" /\ Idle.rebuild = FALSE
  BY DEF Idle
<1> HIDE DEF Idle
<1>3. job'[t] = Idle /\ Others(t)
  BY <1>1, <1>l DEF Others
<1> QED
  BY <1>1, <1>2, <1>3

LEMMA Forgets ==
    ASSUME TypeInv, NEW t \in Thread, RecordForget(t)
    PROVE  /\ job[t].at = "forgetting"
           /\ job'[t].at = "idle" /\ job'[t].rebuild = FALSE
           /\ Others(t)
           /\ log' \in Seq(Op) /\ Len(log') = Len(log) + 1
           /\ LastForget(log') = Len(log')
           /\ halfRemoved' = (halfRemoved \/ Reused(t))
           /\ UNCHANGED <<store, cursor, overtaken, cutShort>>
<1>l. log \in Seq(Op) /\ Len(log) \in Nat /\ job \in [Thread -> Job(Len(log))]
  BY DEF TypeInv, TypeOK
<1>1. PICK id \in Id : log' = Append(log, Removal(id))
  BY DEF RecordForget
<1>2. Removal(id) \in Op
  BY NewStatement
<1>3. log' \in Seq(Op) /\ Len(log') = Len(log) + 1
  BY <1>l, <1>1, <1>2
<1>4. LastForget(log') = Len(log')
  BY <1>l, <1>1, <1>3, ForgetIsLast
<1>5. /\ job[t].at = "forgetting" /\ job' = [job EXCEPT ![t] = Idle]
      /\ halfRemoved' = (halfRemoved \/ Reused(t))
      /\ UNCHANGED <<store, cursor, overtaken, cutShort>>
  BY DEF RecordForget
<1>6. Idle.at = "idle" /\ Idle.rebuild = FALSE
  BY DEF Idle
<1> HIDE DEF Idle
<1>7. job'[t] = Idle /\ Others(t)
  BY <1>5, <1>l DEF Others
<1> QED
  BY <1>3, <1>4, <1>5, <1>6, <1>7

\* Recorded while nobody had used the stores since they were removed.
LEMMA ForgetsUnused ==
    ASSUME TypeInv, NEW t \in Thread, RecordForget(t), ~halfRemoved'
    PROVE  /\ store' = Empty /\ cursor' = 0
           /\ \A u \in Thread : job'[u].at \notin {"select", "empty", "apply"}
<1>1. /\ job'[t].at = "idle" /\ Others(t) /\ ~Reused(t)
      /\ store' = store /\ cursor' = cursor
  BY Forgets
<1>2. cursor = 0 /\ store = Empty
  BY <1>1 DEF Reused
<1>3. ASSUME NEW u \in Thread PROVE job'[u].at \notin {"select", "empty", "apply"}
  <2>1. CASE u = t
    BY <2>1, <1>1
  <2>2. CASE u # t
    BY <2>2, <1>1 DEF Reused, Others
  <2> QED
    BY <2>1, <2>2
<1> QED
  BY <1>1, <1>2, <1>3

\* Nobody is at work when the stores are removed.
LEMMA RemovesStores ==
    ASSUME TypeInv, NEW t \in Thread, RemoveStores(t)
    PROVE  /\ \A u \in Thread : job[u].at = "idle" /\ job[u].rebuild = FALSE
           /\ job'[t].at = "forgetting" /\ job'[t].rebuild = FALSE
           /\ Others(t)
           /\ store' = Empty /\ cursor' = 0
           /\ UNCHANGED <<log, overtaken, cutShort, halfRemoved>>
<1>l. Len(log) \in Nat /\ job \in [Thread -> Job(Len(log))]
  BY DEF TypeInv, TypeOK
<1>1. /\ At(t, "forgetting") /\ \A u \in Thread : job[u] = Idle
      /\ store' = Empty /\ cursor' = 0
      /\ UNCHANGED <<log, overtaken, cutShort, halfRemoved>>
  BY DEF RemoveStores
<1>2. \A u \in Thread : job[u].at = "idle" /\ job[u].rebuild = FALSE
  BY <1>1 DEF Idle
<1>3. Len(log') \in Nat /\ Len(log) <= Len(log')
  BY <1>1, <1>l
<1>4. job'[t].at = "forgetting" /\ job'[t].rebuild = job[t].rebuild
  BY <1>1, <1>3, AtIsTyped
<1>5. Others(t)
  BY <1>1, <1>l DEF At, Others
<1> QED
  BY <1>1, <1>2, <1>4, <1>5

\* A removal that came apart is remembered.
LEMMA HalfStays ==
    ASSUME [Next]_vars, halfRemoved
    PROVE  halfRemoved'
<1>1. UNCHANGED vars => halfRemoved' = halfRemoved
  BY DEF vars
<1>2. ASSUME NEW t \in Thread, Fail(t) \/ RecordForget(t)
      PROVE  halfRemoved'
  BY <1>2 DEF Fail, RecordForget
<1>3. ASSUME NEW t \in Thread,
             \/ RecordWrite(t) \/ RecordReset(t) \/ RemoveStores(t)
             \/ ReadNewest(t) \/ MergeOps(t)
             \/ StartCatchUp(t) \/ ReadCursor(t) \/ SelectOps(t) \/ ApplyOp(t) \/ SetCursor(t)
             \/ StartRebuild(t) \/ AskRebuild(t) \/ SelectAll(t) \/ EmptyStores(t)
      PROVE  halfRemoved' = halfRemoved
  BY <1>3 DEF RecordWrite, RecordReset, RemoveStores, ReadNewest, MergeOps, StartCatchUp,
              ReadCursor, SelectOps, ApplyOp, SetCursor, StartRebuild, AskRebuild, SelectAll,
              EmptyStores
<1> QED
  BY <1>1, <1>2, <1>3 DEF Next

----------------------------------------------------------------------------
(* The threads keep to their phases *)

LEMMA StillOneInside ==
    ASSUME AllInOneProcess, OneInside, NEW t \in Thread, Others(t),
           job'[t].at \in InStores => job[t].at \in InStores \/ LockFree(t)
    PROVE  OneInside'
<1> SUFFICES ASSUME NEW v \in Thread, NEW u \in Thread, v # u,
                    job'[v].at \in InStores, job'[u].at \in InStores
             PROVE  FALSE
  BY DEF OneInside
<1>1. ASSUME NEW w \in Thread, w # t, job'[w].at \in InStores, job'[t].at \in InStores
      PROVE  FALSE
  <2>1. job[w].at \in InStores
    BY <1>1 DEF Others
  <2>2. ~LockFree(t)
    BY <2>1, <1>1 DEF LockFree, AllInOneProcess
  <2> QED
    BY <2>1, <2>2, <1>1 DEF OneInside
<1>2. CASE v = t \/ u = t
  BY <1>1, <1>2
<1>3. CASE v # t /\ u # t
  BY <1>3 DEF Others, OneInside
<1> QED
  BY <1>2, <1>3

LEMMA PhaseKept ==
    ASSUME TypeInv, TypeInv', NEW u \in Thread, PhaseOK(u), GrewTo(log, log'),
           job'[u] = job[u],
           cursor' = cursor \/ job[u].at \notin InStores
    PROVE  PhaseOK(u)'
<1>1. /\ job[u].last \in Nat /\ cursor \in Nat
      /\ Start = From(log, cursor) /\ Start \in Nat
  BY Typed
<1>2. Start' = From(log', cursor')
  BY DEF Start, StartAt, From
<1>3. From(log', job[u].last) = From(log, job[u].last) /\ LastForget(log') = LastForget(log)
  BY <1>1 DEF GrewTo
<1>4. cursor' = cursor => Start' = Start /\ Beyond(log, Start) \subseteq Beyond(log', Start')
  BY <1>1, <1>2 DEF GrewTo
<1>5. CASE cursor' = cursor
  BY <1>3, <1>4, <1>5 DEF PhaseOK, Working
<1>6. CASE job[u].at \notin InStores
  BY <1>3, <1>6 DEF PhaseOK, Working, InStores
<1> QED
  BY <1>5, <1>6

\* A step of one thread leaves the others in their phases.
LEMMA ControlKept ==
    ASSUME AllInOneProcess, TypeInv, TypeInv', ControlInv, NEW t \in Thread, Others(t),
           GrewTo(log, log'),
           job'[t].at \in InStores => job[t].at \in InStores \/ LockFree(t),
           cursor' = cursor \/ (job[t].at \in InStores /\ cursor' \in {cursor, job[t].last}
                                  /\ Working(t)),
           PhaseOK(t)'
    PROVE  ControlInv'
<1>1. OneInside'
  BY StillOneInside DEF ControlInv
<1>2. CursorOK'
  <2>1. LastForget(log') = LastForget(log)
    BY DEF GrewTo
  <2>2. Working(t) => job[t].last = 0 \/ job[t].last >= LastForget(log)
    BY DEF ControlInv, PhaseOK
  <2> QED
    BY <2>1, <2>2 DEF ControlInv, CursorOK
<1>3. ASSUME NEW u \in Thread, u # t PROVE PhaseOK(u)'
  <2>1. job'[u] = job[u] /\ PhaseOK(u)
    BY <1>3 DEF Others, ControlInv
  <2>2. cursor' = cursor \/ job[u].at \notin InStores
    BY <1>3 DEF ControlInv, OneInside
  <2> QED
    BY <2>1, <2>2, PhaseKept
<1>4. \A u \in Thread : PhaseOK(u)'
  BY <1>3
<1> QED
  BY <1>1, <1>2, <1>4 DEF ControlInv

\* A thread that has nothing selected keeps only whether it rebuilds.
LEMMA EarlyPhase ==
    ASSUME NEW t \in Thread, job[t].at \notin {"select", "empty", "apply"},
           job[t].rebuild => job[t].at \in {"merge", "wantRebuild", "selectAll"}
    PROVE  PhaseOK(t)
  BY DEF PhaseOK, Working

LEMMA EarlyPhaseNext ==
    ASSUME NEW t \in Thread, job'[t].at \notin {"select", "empty", "apply"},
           job'[t].rebuild => job'[t].at \in {"merge", "wantRebuild", "selectAll"}
    PROVE  PhaseOK(t)'
  BY DEF PhaseOK, Working

\* Each step, with what it does to the thread's phase, as long as the halves of a
\* removal keep together.
LEMMA ControlStep ==
    ASSUME AllInOneProcess, TypeInv, TypeInv', ControlInv, [Next]_vars, ~halfRemoved'
    PROVE  ControlInv'
<1>l. /\ log \in Seq(Op) /\ Len(log) \in Nat /\ LastForget(log) \in 0 .. Len(log)
      /\ cursor \in 0 .. Len(log) /\ Start = From(log, cursor) /\ Start \in 0 .. Len(log)
      /\ GrewTo(log, log)
  BY Typed, StaysAsItIs
<1>s. Start' = From(log', cursor')
  BY DEF Start, StartAt, From
<1>p. \A t \in Thread : PhaseOK(t)
  BY DEF ControlInv
<1> SUFFICES ASSUME NEW t \in Thread,
                    \/ RecordWrite(t) \/ RecordReset(t) \/ RemoveStores(t) \/ RecordForget(t)
                    \/ ReadNewest(t) \/ MergeOps(t)
                    \/ StartCatchUp(t) \/ ReadCursor(t) \/ SelectOps(t) \/ ApplyOp(t) \/ SetCursor(t)
                    \/ StartRebuild(t) \/ AskRebuild(t) \/ SelectAll(t) \/ EmptyStores(t)
                    \/ Fail(t)
             PROVE  ControlInv'
  <2>1. CASE UNCHANGED vars
    <3>1. log' = log /\ cursor' = cursor /\ job' = job
      BY <2>1 DEF vars
    <3>2. OneInside' /\ CursorOK'
      BY <3>1 DEF ControlInv, OneInside, CursorOK
    <3>3. Start' = Start
      BY <3>1, <1>l, <1>s
    <3>4. \A t \in Thread : PhaseOK(t)'
      BY <3>1, <3>3, <1>p DEF PhaseOK, Working
    <3> QED
      BY <3>2, <3>4 DEF ControlInv
  <2> QED
    BY <2>1 DEF Next
<1>1. CASE RecordWrite(t) \/ StartCatchUp(t)
  <2>1. /\ job[t].at \in {"idle", "wantCatchUp"} /\ job'[t].at = "read"
        /\ job'[t].rebuild = job[t].rebuild
        /\ Others(t) /\ LockFree(t) /\ GrewTo(log, log') /\ cursor' = cursor
    BY <1>1, EntersToCatchUp
  <2>2. ~job[t].rebuild
    BY <2>1, <1>p DEF PhaseOK
  <2>3. PhaseOK(t)'
    BY <2>1, <2>2, EarlyPhaseNext
  <2> QED
    BY <2>1, <2>3, ControlKept
<1>2. CASE StartRebuild(t) \/ AskRebuild(t)
  <2>1. /\ job'[t].at = "selectAll"
        /\ Others(t) /\ LockFree(t) /\ log' = log /\ cursor' = cursor
    BY <1>2, EntersToRebuild
  <2>2. PhaseOK(t)'
    BY <2>1, EarlyPhaseNext
  <2>3. GrewTo(log, log')
    BY <2>1, <1>l
  <2> QED
    BY <2>1, <2>2, <2>3, ControlKept
<1>3. CASE RecordReset(t)
  <2>1. /\ job'[t].at = "wantRebuild" /\ job'[t].rebuild = FALSE
        /\ Others(t) /\ GrewTo(log, log') /\ cursor' = cursor
    BY <1>3, RecordsReset
  <2>2. PhaseOK(t)'
    BY <2>1, EarlyPhaseNext
  <2>3. job'[t].at \notin InStores
    BY <2>1 DEF InStores
  <2> QED
    BY <2>1, <2>2, <2>3, ControlKept
<1>4. CASE ReadNewest(t)
  <2>1. job'[t].at = "merge" /\ Others(t) /\ log' = log /\ cursor' = cursor
    BY <1>4, ReadsNewest
  <2>2. PhaseOK(t)'
    BY <2>1, EarlyPhaseNext
  <2>3. job'[t].at \notin InStores /\ GrewTo(log, log')
    BY <2>1, <1>l DEF InStores
  <2> QED
    BY <2>1, <2>2, <2>3, ControlKept
<1>5. CASE MergeOps(t)
  <2>1. /\ \/ job'[t].at = "idle" /\ job'[t].rebuild = FALSE
           \/ job'[t].at = "wantCatchUp" /\ job'[t].rebuild = FALSE
           \/ job'[t].at = "wantRebuild" /\ job'[t].rebuild = TRUE
        /\ Others(t) /\ GrewTo(log, log') /\ cursor' = cursor
    BY <1>5, Merges
  <2>2. PhaseOK(t)'
    BY <2>1, EarlyPhaseNext
  <2>3. job'[t].at \notin InStores
    BY <2>1 DEF InStores
  <2> QED
    BY <2>1, <2>2, <2>3, ControlKept
<1>6. CASE ReadCursor(t)
  <2>1. /\ job[t].at = "read" /\ job'[t].at = "select"
        /\ job'[t].rebuild = job[t].rebuild
        /\ job'[t].from = cursor /\ job'[t].last = Start
        /\ Others(t) /\ log' = log /\ cursor' = cursor
    BY <1>6, ReadsCursor
  <2>2. ~job[t].rebuild
    BY <2>1, <1>p DEF PhaseOK
  <2>3. Start' = Start
    BY <2>1, <1>l, <1>s
  <2>4. PhaseOK(t)'
    BY <2>1, <2>2, <2>3 DEF PhaseOK, Working
  <2>5. job[t].at \in InStores /\ GrewTo(log, log')
    BY <2>1, <1>l DEF InStores
  <2> QED
    BY <2>1, <2>4, <2>5, ControlKept
<1>7. CASE SelectOps(t)
  <2>1. /\ job[t].at = "select"
        /\ job'[t].rebuild = job[t].rebuild
        /\ \/ job'[t].at = "selectAll"
           \/ /\ job'[t].at = "apply"
              /\ job'[t].ops = After(job[t].last)
              /\ job'[t].from = job[t].from
              /\ job'[t].last = Len(log)
        /\ Others(t) /\ log' = log /\ cursor' = cursor
    BY <1>7, SelectsOps
  <2>2. ~job[t].rebuild /\ job[t].last = Start /\ job[t].from = cursor
    BY <2>1, <1>p DEF PhaseOK
  <2>3. Start' = Start
    BY <2>1, <1>l, <1>s
  <2>4. ToSet(After(Start)) = Beyond(log, Start)
    BY <1>l, AfterIsBeyond
  <2>5. From(log, Len(log)) >= Start /\ Len(log) >= LastForget(log)
    BY <1>l DEF From
  <2>6. PhaseOK(t)'
    <3>1. CASE job'[t].at = "selectAll"
      BY <3>1, <2>1, <2>2, EarlyPhaseNext
    <3>2. CASE job'[t].at = "apply"
      <4>1. ToSet(job'[t].ops) \subseteq Beyond(log', Start')
        BY <3>2, <2>1, <2>2, <2>3, <2>4
      <4> QED
        BY <3>2, <4>1, <2>1, <2>2, <2>3, <2>5 DEF PhaseOK, Working
    <3> QED
      BY <3>1, <3>2, <2>1
  <2>7. job[t].at \in InStores /\ GrewTo(log, log')
    BY <2>1, <1>l DEF InStores
  <2> QED
    BY <2>1, <2>6, <2>7, ControlKept
<1>8. CASE SelectAll(t)
  <2>1. /\ job[t].at = "selectAll" /\ job'[t].at = "empty"
        /\ job'[t].from = -1
        /\ From(log, job'[t].last) = Len(log)
        /\ job'[t].last = 0 \/ job'[t].last = Len(log)
        /\ Others(t) /\ log' = log /\ cursor' = cursor
    BY <1>8, SelectsAll
  <2>2. Start' = Start
    BY <2>1, <1>l, <1>s
  <2>3. Len(log) >= Start /\ Len(log) >= LastForget(log)
    BY <1>l
  <2>4. PhaseOK(t)'
    BY <2>1, <2>2, <2>3 DEF PhaseOK, Working
  <2>5. job[t].at \in InStores /\ GrewTo(log, log')
    BY <2>1, <1>l DEF InStores
  <2> QED
    BY <2>1, <2>4, <2>5, ControlKept
<1>9. CASE EmptyStores(t)
  <2>1. /\ job[t].at = "empty" /\ job'[t].at = "apply"
        /\ job'[t].rebuild = job[t].rebuild
        /\ job'[t].ops = job[t].ops
        /\ job'[t].from = job[t].from
        /\ job'[t].last = job[t].last
        /\ Others(t) /\ log' = log /\ cursor' = cursor
    BY <1>9, EmptiesStores
  <2>2. Start' = Start
    BY <2>1, <1>l, <1>s
  <2>3. /\ job[t].from = -1 /\ From(log, job[t].last) >= Start
        /\ job[t].last = 0 \/ job[t].last >= LastForget(log)
    BY <2>1, <1>p DEF PhaseOK, Working
  <2>4. PhaseOK(t)'
    BY <2>1, <2>2, <2>3 DEF PhaseOK, Working
  <2>5. job[t].at \in InStores /\ GrewTo(log, log')
    BY <2>1, <1>l DEF InStores
  <2> QED
    BY <2>1, <2>4, <2>5, ControlKept
<1>10. CASE ApplyOp(t)
  <2>1. /\ job[t].at = "apply" /\ job'[t].at = "apply"
        /\ job[t].ops # <<>> /\ job'[t].ops = Tail(job[t].ops)
        /\ job'[t].rebuild = job[t].rebuild
        /\ job'[t].from = job[t].from
        /\ job'[t].last = job[t].last
        /\ Others(t) /\ log' = log /\ cursor' = cursor
    BY <1>10, AppliesOp
  <2>2. Start' = Start
    BY <2>1, <1>l, <1>s
  <2>3. ToSet(Tail(job[t].ops)) \subseteq ToSet(job[t].ops)
    <3> DEFINE ops == job[t].ops
    <3>1. ops \in Seq(Op) /\ ops # <<>>
      BY <2>1, Typed
    <3> HIDE DEF ops
    <3>2. ToSet(Tail(ops)) \subseteq ToSet(ops)
      BY <3>1 DEF ToSet
    <3> QED
      BY <3>2 DEF ops
  <2>4. /\ From(log, job[t].last) >= Start
        /\ job[t].last = 0 \/ job[t].last >= LastForget(log)
        /\ job[t].rebuild => job[t].from = -1
        /\ job[t].from \in {-1, cursor}
        /\ job[t].from # -1 => ToSet(job[t].ops) \subseteq Beyond(log, Start)
    BY <2>1, <1>p DEF PhaseOK, Working
  <2>5. job'[t].from # -1 => ToSet(job'[t].ops) \subseteq Beyond(log', Start')
    BY <2>1, <2>2, <2>3, <2>4
  <2>6. PhaseOK(t)'
    BY <2>1, <2>2, <2>4, <2>5 DEF PhaseOK, Working
  <2>7. job[t].at \in InStores /\ GrewTo(log, log')
    BY <2>1, <1>l DEF InStores
  <2> QED
    BY <2>1, <2>6, <2>7, ControlKept
<1>11. CASE SetCursor(t) \/ Fail(t)
  <2>1. job'[t].at = "idle" /\ job'[t].rebuild = FALSE /\ Others(t) /\ log' = log
    BY <1>11, LeavesOff
  <2>2. PhaseOK(t)'
    BY <2>1, EarlyPhaseNext
  <2>3. job'[t].at \notin InStores /\ GrewTo(log, log')
    BY <2>1, <1>l DEF InStores
  <2>4. cursor' = cursor \/ (job[t].at \in InStores /\ cursor' \in {cursor, job[t].last}
                                /\ Working(t))
    BY <1>11 DEF SetCursor, Fail, InStores, Working
  <2> QED
    BY <2>1, <2>2, <2>3, <2>4, ControlKept
<1>12. CASE RemoveStores(t)
  <2>1. /\ \A u \in Thread : job[u].at = "idle" /\ job[u].rebuild = FALSE
        /\ job'[t].at = "forgetting" /\ job'[t].rebuild = FALSE
        /\ Others(t) /\ cursor' = 0
    BY <1>12, RemovesStores
  <2>2. CursorOK'
    BY <2>1 DEF CursorOK
  <2>3. \A u \in Thread : job'[u].at \in {"idle", "forgetting"} /\ job'[u].rebuild = FALSE
    BY <2>1 DEF Others
  <2>4. \A u \in Thread : PhaseOK(u)'
    BY <2>3, EarlyPhaseNext
  <2>5. OneInside'
    BY <2>3 DEF OneInside, InStores
  <2> QED
    BY <2>2, <2>4, <2>5 DEF ControlInv
<1>13. CASE RecordForget(t)
  <2>1. job'[t].at = "idle" /\ job'[t].rebuild = FALSE /\ Others(t)
    BY <1>13, Forgets
  <2>2. cursor' = 0 /\ \A u \in Thread : job'[u].at \notin {"select", "empty", "apply"}
    BY <1>13, ForgetsUnused
  <2>3. CursorOK'
    BY <2>2 DEF CursorOK
  <2>4. ASSUME NEW u \in Thread PROVE PhaseOK(u)'
    <3>1. job'[u].rebuild => job'[u].at \in {"merge", "wantRebuild", "selectAll"}
      <4>1. CASE u = t
        BY <4>1, <2>1
      <4>2. CASE u # t
        BY <4>2, <2>1, <2>2, <1>p DEF Others, PhaseOK
      <4> QED
        BY <4>1, <4>2
    <3> QED
      BY <3>1, <2>2, EarlyPhaseNext
  <2>5. OneInside'
    <3>1. job'[t].at \notin InStores
      BY <2>1 DEF InStores
    <3> QED
      BY <3>1, <2>1, StillOneInside DEF ControlInv
  <2> QED
    BY <2>3, <2>4, <2>5 DEF ControlInv
<1> QED
  BY <1>1, <1>2, <1>3, <1>4, <1>5, <1>6, <1>7, <1>8, <1>9, <1>10, <1>11, <1>12, <1>13

LEMMA ControlInit == Init => ControlInv
<1> SUFFICES ASSUME Init PROVE ControlInv
  OBVIOUS
<1>1. \A t \in Thread : job[t].at = "idle" /\ job[t].rebuild = FALSE
  BY DEF Init, Idle
<1>2. OneInside
  BY <1>1 DEF OneInside, InStores
<1>3. CursorOK
  BY DEF Init, CursorOK
<1>4. \A t \in Thread : PhaseOK(t)
  BY <1>1, EarlyPhase
<1> QED
  BY <1>2, <1>3, <1>4 DEF ControlInv

LEMMA GrowStep ==
    ASSUME TypeInv, TypeInv', halfRemoved \/ ControlInv, [Next]_vars
    PROVE  Start' < Start => halfRemoved \/ (cursor' = 0 /\ store' = Empty /\ log' = log)
<1>l. /\ log \in Seq(Op) /\ Len(log) \in Nat
      /\ cursor \in 0 .. Len(log) /\ Start = From(log, cursor) /\ Start \in 0 .. Len(log)
      /\ GrewTo(log, log)
  BY Typed, StaysAsItIs
<1>s. Start' = From(log', cursor')
  BY DEF Start, StartAt, From
<1>n. Start' \in Nat
  <2>1. log' \in Seq(Op) /\ cursor' \in 0 .. Len(log')
    BY DEF TypeInv, TypeOK
  <2>2. Len(log') \in Nat /\ LastForget(log') \in 0 .. Len(log')
    BY <2>1, LastForgetIs
  <2> QED
    BY <2>1, <2>2, <1>s DEF From
<1>1. GrewTo(log, log') /\ cursor' = cursor => Start' >= Start
  BY <1>l, <1>s DEF GrewTo
<1>2. ASSUME UNCHANGED vars PROVE Start' >= Start
  <2>1. log' = log /\ cursor' = cursor
    BY <1>2 DEF vars
  <2> QED
    BY <2>1, <1>1, <1>l
<1>3. ASSUME NEW t \in Thread,
             \/ RecordWrite(t) \/ StartCatchUp(t) \/ RecordReset(t) \/ MergeOps(t)
      PROVE  Start' >= Start
  BY <1>3, <1>1, EntersToCatchUp, RecordsReset, Merges
<1>4. ASSUME NEW t \in Thread,
             \/ StartRebuild(t) \/ AskRebuild(t) \/ ReadNewest(t) \/ ReadCursor(t)
             \/ SelectOps(t) \/ SelectAll(t) \/ EmptyStores(t) \/ ApplyOp(t) \/ Fail(t)
      PROVE  Start' >= Start
  <2>1. log' = log /\ cursor' = cursor
    BY <1>4 DEF StartRebuild, AskRebuild, ReadNewest, ReadCursor, SelectOps, SelectAll,
                EmptyStores, ApplyOp, Fail
  <2> QED
    BY <2>1, <1>1, <1>l
<1>5. ASSUME NEW t \in Thread, SetCursor(t), ~halfRemoved PROVE Start' >= Start
  <2>1. log' = log /\ cursor' \in {cursor, job[t].last} /\ Working(t)
    BY <1>5 DEF SetCursor, Working
  <2>2. From(log, job[t].last) >= Start
    BY <1>5, <2>1 DEF ControlInv, PhaseOK
  <2> QED
    BY <2>1, <2>2, <1>l, <1>s
<1>6. ASSUME NEW t \in Thread, RecordForget(t) PROVE Start' >= Start
  <2>1. cursor' = cursor /\ log' \in Seq(Op) /\ Len(log') = Len(log) + 1
        /\ LastForget(log') = Len(log')
    BY <1>6, Forgets
  <2>2. Start' = IF cursor = 0 THEN Len(log) + 1 ELSE cursor
    BY <2>1, <1>s DEF From
  <2> QED
    BY <2>2, <1>l DEF From
<1>7. ASSUME NEW t \in Thread, RemoveStores(t)
      PROVE  cursor' = 0 /\ store' = Empty /\ log' = log
  BY <1>7 DEF RemoveStores
<1>8. Start' >= Start => ~(Start' < Start)
  BY <1>l, <1>n
<1> QED
  BY <1>2, <1>3, <1>4, <1>5, <1>6, <1>7, <1>8 DEF Next

\* In one process a step that takes the position of the stores back takes the
\* stores away with it, as the first half of a removal does
\* (RemoveAll before record, DeleteProject in workspace.go), until the halves of
\* a removal have come apart: the second half alone, and every other step, leaves
\* the position where it is or brings it on.  The mutex lets one thread at a time
\* read the cursor, apply what it selected and set the cursor (CatchUp in
\* catchup.go, Rebuild in rebuild.go), so that what it sets is no lower than what
\* it finds.
THEOREM PositionGrowsAlways ==
    ASSUME AllInOneProcess
    PROVE  Spec => PositionGrows
<1> DEFINE Inv == TypeInv /\ (halfRemoved \/ ControlInv)
<1>1. Init => Inv
  BY TypeInit, ControlInit
<1>2. Inv /\ [Next]_vars => Inv'
  <2> SUFFICES ASSUME Inv, [Next]_vars PROVE Inv'
    OBVIOUS
  <2>1. TypeInv'
    BY TypeStep
  <2>2. ASSUME ~halfRemoved' PROVE ControlInv'
    <3>1. ControlInv
      BY <2>2, HalfStays
    <3> QED
      BY <2>1, <2>2, <3>1, ControlStep
  <2> QED
    BY <2>1, <2>2
<1>3. Inv /\ Inv' /\ [Next]_vars
        => [Start' < Start => halfRemoved \/ (cursor' = 0 /\ store' = Empty /\ log' = log)]_vars
  BY GrowStep
<1> HIDE DEF Inv
<1> QED
  BY <1>1, <1>2, <1>3, PTL DEF Spec, PositionGrows

----------------------------------------------------------------------------
(* What the stores hold, and who will put them right *)

\* A thread will rebuild the stores with the operation at position j in them.
Undertakes(w, j) ==
    /\ job[w].rebuild
    /\ \/ job[w].at \in {"wantRebuild", "selectAll"}
       \/ Working(w) /\ j <= job[w].last

\* Where the stores stand, or will when a thread that is at work is done.
Places == {cursor} \cup {job[u].last : u \in {v \in Thread : Working(v)}}

\* An operation out of order that a catch-up from there would apply too late is
\* one that a thread will rebuild with, unless the catch-up rebuilds itself.
InversionsCovered ==
    \A p \in Places : \A i, j \in 1 .. Len(log) :
        Inverted(log, i, j) /\ j > From(log, p)
            => (\E w \in Thread : Undertakes(w, j)) \/ Asks(log, p)

\* A thread is rebuilding emptied stores, or is to rebuild because of what it merged.
Owed(w) ==
    \/ job[w].at = "apply" /\ job[w].from = -1
    \/ job[w].rebuild /\ job[w].at # "merge" /\ Disorder(log)

SomeOwed == \E w \in Thread : Owed(w)

\* The row is the one a rebuild would have left where the stores stand, unless
\* it is going to be written over.
Clean(c) ==
    (\A o \in Beyond(log, Start) : ~WritesCell(o, c)) => store[c] = Row(log, Start, c)

StoresClean == (\A c \in Cell : Clean(c)) \/ SomeOwed \/ Asks(log, cursor)

\* What a rebuild has yet to apply leaves the rows it selected.
RebuildOK(t) ==
    Working(t) /\ job[t].from = -1 =>
        \A c \in Cell : Leaves(job[t].ops, c, IF job[t].at = "empty" THEN 0 ELSE store[c],
                               Row(log, From(log, job[t].last), c))

\* And so does what a catch-up has yet to apply, or there will be a rebuild.
CatchUpOK(t) ==
    job[t].at = "apply" /\ job[t].from # -1 =>
        \/ \A c \in Cell : Leaves(job[t].ops, c, store[c], Row(log, From(log, job[t].last), c))
        \/ SomeOwed
        \/ Asks(log, job[t].last)

\* The stores were taken away while operations out of order are in force, and the
\* removal that will set those aside is yet to be recorded.
RemovalDue == \E w \in Thread : job[w].at = "forgetting" /\ Disorder(log)

Excused == overtaken \/ cutShort \/ halfRemoved \/ RemovalDue

DataInv ==
    /\ \A t \in Thread : RebuildOK(t)
    /\ ~Excused
          => InversionsCovered /\ StoresClean /\ \A t \in Thread : CatchUpOK(t)

----------------------------------------------------------------------------
(* What a step of one thread leaves as it was *)

LEMMA CoveredKept ==
    ASSUME TypeInv, NEW t \in Thread, Others(t), GrewTo(log, log'), InversionsCovered,
           cursor' \in Places,
           Working(t)' => \/ Working(t) /\ job'[t].last = job[t].last
                          \/ From(log', job'[t].last) = Len(log'),
           \A p \in Places' : \A i, j \in 1 .. Len(log) :
               Inverted(log, i, j) /\ j > From(log, p) /\ Undertakes(t, j)
                   => Undertakes(t, j)' \/ Asks(log', p),
           \A i, j \in 1 .. Len(log') :
               Inverted(log', i, j) /\ j > Len(log) => Undertakes(t, j)'
    PROVE  InversionsCovered'
<1> SUFFICES ASSUME NEW p \in Places', NEW i \in 1 .. Len(log'), NEW j \in 1 .. Len(log'),
                    Inverted(log', i, j), j > From(log', p)
             PROVE  (\E w \in Thread : Undertakes(w, j)') \/ Asks(log', p)
  BY DEF InversionsCovered
<1>l. /\ Len(log) \in Nat /\ log' \in Seq(Op) /\ Len(log') \in Nat
      /\ cursor \in 0 .. Len(log) /\ \A u \in Thread : job[u].last \in 0 .. Len(log)
  <2>1. log' \in Seq(Op)
    BY DEF GrewTo
  <2>2. Len(log') \in Nat
    BY <2>1
  <2>3. \A u \in Thread : job[u].last \in 0 .. Len(log)
    BY Typed
  <2>4. Len(log) \in Nat /\ cursor \in 0 .. Len(log)
    BY Typed
  <2> QED
    BY <2>1, <2>2, <2>3, <2>4
<1>1. CASE p \notin Places
  <2>1. p = job'[t].last /\ Working(t)'
    BY <1>1 DEF Places, Others, Working
  <2>2. From(log', p) = Len(log')
    BY <1>1, <2>1 DEF Places
  <2> QED
    BY <2>2, <1>l
<1>2. CASE p \in Places /\ j > Len(log)
  BY <1>2
<1>3. CASE p \in Places /\ j <= Len(log)
  <2>1. p \in 0 .. Len(log)
    BY <1>3, <1>l DEF Places
  <2>2. i \in 1 .. Len(log) /\ j \in 1 .. Len(log)
    BY <1>3, <1>l DEF Inverted
  <2>3. From(log', p) = From(log, p) /\ Inverted(log, i, j)
    BY <2>1, <2>2, <1>l DEF GrewTo
  <2>4. CASE Asks(log, p)
    BY <2>1, <2>4, <1>l DEF GrewTo
  <2>5. ASSUME NEW w \in Thread, Undertakes(w, j)
        PROVE  (\E v \in Thread : Undertakes(v, j)') \/ Asks(log', p)
    <3>1. CASE w = t
      BY <3>1, <2>5, <2>2, <2>3
    <3>2. CASE w # t
      <4>1. Undertakes(w, j)'
        BY <3>2, <2>5 DEF Others, Undertakes, Working
      <4> QED
        BY <4>1
    <3> QED
      BY <3>1, <3>2
  <2> QED
    BY <2>2, <2>3, <2>4, <2>5, <1>3 DEF InversionsCovered
<1> QED
  BY <1>1, <1>2, <1>3, <1>l

LEMMA OwedKept ==
    ASSUME NEW t \in Thread, Others(t), GrewTo(log, log'), SomeOwed,
           Owed(t) => Owed(t)' \/ \A p \in Places' : Asks(log', p)
    PROVE  SomeOwed' \/ \A p \in Places' : Asks(log', p)
<1>1. PICK w \in Thread : Owed(w)
  BY DEF SomeOwed
<1>2. CASE w = t
  BY <1>1, <1>2 DEF SomeOwed
<1>3. CASE w # t
  <2>1. Owed(w)'
    BY <1>1, <1>3 DEF Owed, Others, GrewTo
  <2> QED
    BY <2>1 DEF SomeOwed
<1> QED
  BY <1>2, <1>3

\* Nothing that is appended changes a row that is not written to any more.
LEMMA CleanStays ==
    ASSUME TypeInv, GrewTo(log, log'), NEW c \in Cell, Clean(c),
           store'[c] = store[c], cursor' = cursor
    PROVE  Clean(c)'
<1>1. /\ Start = From(log, cursor) /\ Start \in 0 .. Len(log) /\ Start \in Nat /\ cursor \in Nat
      /\ Len(log) \in Nat
  BY Typed
<1>2. Start' = From(log', cursor')
  BY DEF Start, StartAt, From
<1>3. Start' = Start
  BY <1>1, <1>2 DEF GrewTo
<1>4. Beyond(log, Start) \subseteq Beyond(log', Start) /\ Row(log', Start, c) = Row(log, Start, c)
  BY <1>1 DEF GrewTo
<1> QED
  BY <1>3, <1>4 DEF Clean

LEMMA CleanKept ==
    ASSUME TypeInv, NEW t \in Thread, Others(t), GrewTo(log, log'), StoresClean,
           cursor' = cursor,
           \A c \in Cell : Clean(c) => Clean(c)',
           Owed(t) => Owed(t)' \/ \A p \in Places' : Asks(log', p)
    PROVE  StoresClean'
<1>1. cursor' \in Places' /\ cursor \in Nat
  BY Typed DEF Places
<1>2. CASE \A c \in Cell : Clean(c)
  BY <1>2 DEF StoresClean
<1>3. CASE SomeOwed
  BY <1>1, <1>3, OwedKept DEF StoresClean
<1>4. CASE Asks(log, cursor)
  <2>1. Asks(log', cursor')
    BY <1>1, <1>4 DEF GrewTo
  <2> QED
    BY <2>1 DEF StoresClean
<1> QED
  BY <1>2, <1>3, <1>4 DEF StoresClean

LEMMA LastIsTyped ==
    ASSUME TypeInv, NEW u \in Thread
    PROVE  /\ job[u].last \in 0 .. Len(log) /\ job[u].last \in Nat
           /\ From(log, job[u].last) \in 0 .. Len(log)
<1>1. job[u].last \in 0 .. Len(log)
  BY Typed
<1>2. Len(log) \in Nat
  BY Typed
<1>3. From(log, job[u].last) \in 0 .. Len(log)
  BY <1>1, Typed
<1> QED
  BY <1>1, <1>2, <1>3

LEMMA RebuildKept ==
    ASSUME TypeInv, NEW u \in Thread, GrewTo(log, log'), job'[u] = job[u], RebuildOK(u),
           store' = store \/ job[u].at # "apply"
    PROVE  RebuildOK(u)'
<1>1. job[u].last \in 0 .. Len(log) /\ job[u].last \in Nat /\ From(log, job[u].last) \in 0 .. Len(log)
  BY LastIsTyped
<1>2. From(log', job[u].last) = From(log, job[u].last)
  BY <1>1 DEF GrewTo
<1>3. \A c \in Cell : Row(log', From(log', job[u].last), c) = Row(log, From(log, job[u].last), c)
  BY <1>1, <1>2 DEF GrewTo
<1>4. Working(u)' = Working(u)
  BY DEF Working
<1>5. CASE store' = store
  BY <1>3, <1>4, <1>5 DEF RebuildOK
<1>6. CASE job[u].at # "apply"
  <2>1. Working(u) => job[u].at = "empty"
    BY <1>6 DEF Working
  <2> QED
    BY <1>3, <1>4, <2>1 DEF RebuildOK
<1> QED
  BY <1>5, <1>6

LEMMA CatchUpKept ==
    ASSUME TypeInv, NEW t \in Thread, NEW u \in Thread, Others(t), u # t,
           GrewTo(log, log'), CatchUpOK(u),
           store' = store \/ job[u].at # "apply",
           Owed(t) => Owed(t)' \/ \A p \in Places' : Asks(log', p)
    PROVE  CatchUpOK(u)'
<1>1. job'[u] = job[u]
  BY DEF Others
<1> SUFFICES ASSUME job[u].at = "apply", job[u].from # -1, store' = store
             PROVE  \/ \A c \in Cell : Leaves(job'[u].ops, c, store'[c],
                                              Row(log', From(log', job'[u].last), c))
                    \/ SomeOwed'
                    \/ Asks(log', job'[u].last)
  BY <1>1 DEF CatchUpOK
<1>2. job[u].last \in 0 .. Len(log) /\ job[u].last \in Nat /\ From(log, job[u].last) \in 0 .. Len(log)
  BY LastIsTyped
<1>3. From(log', job[u].last) = From(log, job[u].last)
  BY <1>2 DEF GrewTo
<1>4. \A c \in Cell : Row(log', From(log', job[u].last), c) = Row(log, From(log, job[u].last), c)
  BY <1>2, <1>3 DEF GrewTo
<1>5. job'[u].last \in Places'
  BY <1>1 DEF Places, Working
<1>6. CASE \A c \in Cell : Leaves(job[u].ops, c, store[c], Row(log, From(log, job[u].last), c))
  BY <1>1, <1>4, <1>6
<1>7. CASE SomeOwed
  BY <1>5, <1>7, OwedKept
<1>8. CASE Asks(log, job[u].last)
  BY <1>1, <1>2, <1>8 DEF GrewTo
<1> QED
  BY <1>6, <1>7, <1>8 DEF CatchUpOK

LEMMA ExcuseStays ==
    ASSUME NEW t \in Thread, Others(t), job[t].at # "forgetting",
           Disorder(log) => Disorder(log'),
           overtaken => overtaken', cutShort => cutShort', halfRemoved => halfRemoved',
           Excused
    PROVE  Excused'
<1>1. CASE overtaken \/ cutShort \/ halfRemoved
  BY <1>1 DEF Excused
<1>2. CASE RemovalDue
  <2>1. PICK w \in Thread : job[w].at = "forgetting" /\ Disorder(log)
    BY <1>2 DEF RemovalDue
  <2>2. job'[w] = job[w]
    BY <2>1 DEF Others
  <2> QED
    BY <2>1, <2>2 DEF Excused, RemovalDue
<1> QED
  BY <1>1, <1>2 DEF Excused

\* A step outside the stores that undertakes what it puts out of order.
LEMMA OuterKept ==
    ASSUME TypeInv, DataInv, NEW t \in Thread, Others(t), GrewTo(log, log'),
           store' = store, cursor' = cursor, ~Working(t), ~Working(t)',
           overtaken => overtaken', cutShort' = cutShort, halfRemoved' = halfRemoved,
           job[t].at # "forgetting",
           Owed(t) => Owed(t)',
           \A j \in 1 .. Len(log) : Undertakes(t, j) => Undertakes(t, j)',
           ~overtaken' => \A i, j \in 1 .. Len(log') :
                              Inverted(log', i, j) /\ j > Len(log) => Undertakes(t, j)'
    PROVE  DataInv'
<1>1. ASSUME NEW u \in Thread PROVE RebuildOK(u)'
  <2>1. CASE u = t
    BY <2>1 DEF RebuildOK
  <2>2. CASE u # t
    <3>1. job'[u] = job[u] /\ RebuildOK(u)
      BY <2>2 DEF Others, DataInv
    <3> QED
      BY <3>1, RebuildKept
  <2> QED
    BY <2>1, <2>2
<1>2. ASSUME ~Excused'
      PROVE  InversionsCovered' /\ StoresClean' /\ \A u \in Thread : CatchUpOK(u)'
  <2>e. ~Excused /\ ~overtaken'
    <3>1. Disorder(log) => Disorder(log')
      BY DEF GrewTo
    <3> QED
      BY <1>2, <3>1, ExcuseStays DEF Excused
  <2>1. InversionsCovered /\ StoresClean /\ \A u \in Thread : CatchUpOK(u)
    BY <2>e DEF DataInv
  <2>2. InversionsCovered'
    <3>1. cursor' \in Places
      BY DEF Places
    <3> QED
      BY <2>e, <2>1, <3>1, CoveredKept
  <2>3. StoresClean'
    <3>1. \A c \in Cell : Clean(c) => Clean(c)'
      BY CleanStays
    <3> QED
      BY <2>1, <3>1, CleanKept
  <2>4. ASSUME NEW u \in Thread PROVE CatchUpOK(u)'
    <3>1. CASE u = t
      BY <3>1 DEF CatchUpOK, Working
    <3>2. CASE u # t
      BY <3>2, <2>1, CatchUpKept
    <3> QED
      BY <3>1, <3>2
  <2> QED
    BY <2>2, <2>3, <2>4
<1> QED
  BY <1>1, <1>2 DEF DataInv

----------------------------------------------------------------------------
(* Each step keeps to it *)

LEMMA OuterSteps ==
    ASSUME TypeInv, ControlInv, DataInv, NEW t \in Thread,
           \/ RecordWrite(t) \/ StartCatchUp(t) \/ StartRebuild(t) \/ AskRebuild(t)
           \/ RecordReset(t) \/ ReadNewest(t) \/ MergeOps(t) \/ ReadCursor(t)
    PROVE  DataInv'
<1>l. log \in Seq(Op) /\ Len(log) \in Nat /\ GrewTo(log, log)
  BY Typed, StaysAsItIs
<1>p. job[t].rebuild => job[t].at \in {"merge", "wantRebuild", "selectAll", "empty", "apply"}
  BY DEF ControlInv, PhaseOK
<1>s. log' = log => GrewTo(log, log') /\ \A i, j \in 1 .. Len(log') : ~(j > Len(log))
  BY <1>l
<1>1. CASE RecordWrite(t) \/ StartCatchUp(t)
  <2>1. /\ job[t].at \in {"idle", "wantCatchUp"} /\ job'[t].at = "read"
        /\ job'[t].rebuild = job[t].rebuild
        /\ Others(t) /\ GrewTo(log, log')
        /\ UNCHANGED <<store, cursor, overtaken, cutShort, halfRemoved>>
        /\ \A i, j \in 1 .. Len(log') : Inverted(log', i, j) => j <= Len(log)
    BY <1>1, EntersToCatchUp
  <2>2. ~Working(t) /\ ~Working(t)'
    BY <2>1 DEF Working
  <2>3. ~Owed(t) /\ \A j : ~Undertakes(t, j)
    BY <2>1, <1>p DEF Owed, Undertakes
  <2>4. \A i, j \in 1 .. Len(log') : ~(Inverted(log', i, j) /\ j > Len(log))
    BY <2>1, <1>l
  <2> QED
    BY <2>1, <2>2, <2>3, <2>4, OuterKept
<1>2. CASE StartRebuild(t) \/ AskRebuild(t)
  <2>1. /\ job[t].at \in {"idle", "wantRebuild"} /\ job'[t].at = "selectAll"
        /\ job'[t].rebuild = job[t].rebuild
        /\ Others(t)
        /\ UNCHANGED <<log, store, cursor, overtaken, cutShort, halfRemoved>>
    BY <1>2, EntersToRebuild
  <2>2. ~Working(t) /\ ~Working(t)'
    BY <2>1 DEF Working
  <2>3. Owed(t) => Owed(t)'
    BY <2>1 DEF Owed
  <2>4. \A j : Undertakes(t, j) => Undertakes(t, j)'
    BY <2>1 DEF Undertakes
  <2>5. GrewTo(log, log') /\ \A i, j \in 1 .. Len(log') : ~(j > Len(log))
    BY <2>1, <1>s
  <2> QED
    BY <2>1, <2>2, <2>3, <2>4, <2>5, OuterKept
<1>3. CASE RecordReset(t)
  <2>1. /\ job[t].at = "idle" /\ job'[t].at = "wantRebuild"
        /\ job[t].rebuild = FALSE
        /\ Others(t) /\ GrewTo(log, log')
        /\ UNCHANGED <<store, cursor, overtaken, cutShort, halfRemoved>>
        /\ \A i, j \in 1 .. Len(log') : Inverted(log', i, j) => j <= Len(log)
    BY <1>3, RecordsReset
  <2>2. ~Working(t) /\ ~Working(t)'
    BY <2>1 DEF Working
  <2>3. ~Owed(t) /\ \A j : ~Undertakes(t, j)
    BY <2>1 DEF Owed, Undertakes
  <2>4. \A i, j \in 1 .. Len(log') : ~(Inverted(log', i, j) /\ j > Len(log))
    BY <2>1, <1>l
  <2> QED
    BY <2>1, <2>2, <2>3, <2>4, OuterKept
<1>4. CASE ReadNewest(t)
  <2>1. /\ job[t].at = "idle" /\ job[t].rebuild = FALSE
        /\ job'[t].at = "merge"
        /\ Others(t)
        /\ UNCHANGED <<log, store, cursor, overtaken, cutShort, halfRemoved>>
    BY <1>4, ReadsNewest
  <2>2. ~Working(t) /\ ~Working(t)'
    BY <2>1 DEF Working
  <2>3. ~Owed(t) /\ \A j : ~Undertakes(t, j)
    BY <2>1 DEF Owed, Undertakes
  <2>4. GrewTo(log, log') /\ \A i, j \in 1 .. Len(log') : ~(j > Len(log))
    BY <2>1, <1>s
  <2> QED
    BY <2>1, <2>2, <2>3, <2>4, OuterKept
<1>5. CASE MergeOps(t)
  <2>1. /\ job[t].at = "merge"
        /\ \/ job'[t].at = "idle" /\ job'[t].rebuild = FALSE
           \/ job'[t].at = "wantCatchUp" /\ job'[t].rebuild = FALSE
           \/ job'[t].at = "wantRebuild" /\ job'[t].rebuild = TRUE
        /\ Others(t) /\ GrewTo(log, log')
        /\ UNCHANGED <<store, cursor, cutShort, halfRemoved>>
        /\ overtaken => overtaken'
        /\ ~overtaken' => job'[t].at = "wantRebuild"
             \/ \A i, j \in 1 .. Len(log') : Inverted(log', i, j) => j <= Len(log)
    BY <1>5, Merges
  <2>2. ~Working(t) /\ ~Working(t)'
    BY <2>1 DEF Working
  <2>3. ~Owed(t) /\ \A j : ~Undertakes(t, j)
    BY <2>1 DEF Owed, Undertakes, Working
  <2>4. job'[t].at = "wantRebuild" => \A j : Undertakes(t, j)'
    BY <2>1 DEF Undertakes
  <2>5. (\A i, j \in 1 .. Len(log') : Inverted(log', i, j) => j <= Len(log))
          => \A i, j \in 1 .. Len(log') : ~(Inverted(log', i, j) /\ j > Len(log))
    BY <1>l
  <2>6. ~overtaken' => \A i, j \in 1 .. Len(log') :
                           Inverted(log', i, j) /\ j > Len(log) => Undertakes(t, j)'
    BY <2>1, <2>4, <2>5
  <2> QED
    BY <2>1, <2>2, <2>3, <2>6, OuterKept
<1>6. CASE ReadCursor(t)
  <2>1. /\ job[t].at = "read" /\ job'[t].at = "select"
        /\ job'[t].rebuild = job[t].rebuild
        /\ Others(t)
        /\ UNCHANGED <<log, store, cursor, overtaken, cutShort, halfRemoved>>
    BY <1>6, ReadsCursor
  <2>2. ~Working(t) /\ ~Working(t)'
    BY <2>1 DEF Working
  <2>3. ~Owed(t) /\ \A j : ~Undertakes(t, j)
    BY <2>1, <1>p DEF Owed, Undertakes
  <2>4. GrewTo(log, log') /\ \A i, j \in 1 .. Len(log') : ~(j > Len(log))
    BY <2>1, <1>s
  <2> QED
    BY <2>1, <2>2, <2>3, <2>4, OuterKept
<1> QED
  BY <1>1, <1>2, <1>3, <1>4, <1>5, <1>6

\* Clean stores with no rebuild to come: nothing beyond them is out of order, so
\* what a catch-up selects leaves the rows of the whole log.
LEMMA CatchUpBegins ==
    ASSUME TypeInv, ControlInv, InversionsCovered, StoresClean, ~SomeOwed,
           ~Asks(log, cursor), NEW c \in Cell
    PROVE  Leaves(After(Start), c, store[c], Row(log, Len(log), c))
<1>l. /\ log \in Seq(Op) /\ Len(log) \in Nat /\ LastForget(log) \in 0 .. Len(log)
      /\ cursor \in 0 .. Len(log) /\ Start = From(log, cursor) /\ Start \in 0 .. Len(log)
  BY Typed
<1>1. Start \in LastForget(log) .. Len(log)
  BY <1>l DEF ControlInv, CursorOK, From
<1>2. ~ResetReached(Beyond(log, Start), ToSet(log))
  BY <1>l DEF Asks
<1>3. ASSUME NEW i \in 1 .. Len(log), NEW j \in 1 .. Len(log), Inverted(log, i, j)
      PROVE  j <= Start
  <2> SUFFICES ASSUME j > Start PROVE FALSE
    BY <1>l
  <2>1. cursor \in Places /\ j > From(log, cursor)
    BY <1>l DEF Places
  <2>2. PICK w \in Thread : Undertakes(w, j)
    BY <1>3, <2>1 DEF InversionsCovered
  <2>3. Disorder(log)
    BY <1>3 DEF Disorder
  <2>4. Owed(w)
    BY <2>2, <2>3 DEF Undertakes, Owed, Working
  <2> QED
    BY <2>4 DEF SomeOwed
<1>4. Clean(c)
  BY DEF StoresClean
<1>5. (\A i \in Start + 1 .. Len(log) : ~WritesCell(log[i], c)) => store[c] = Row(log, Start, c)
  BY <1>4 DEF Clean, Beyond
<1> DEFINE n == Start
           v == store[c]
<1>6. /\ n \in LastForget(log) .. Len(log)
      /\ ~ResetReached(Beyond(log, n), ToSet(log))
      /\ \A i, j \in 1 .. Len(log) : Inverted(log, i, j) => j <= n
      /\ (\A i \in n + 1 .. Len(log) : ~WritesCell(log[i], c)) => v = Row(log, n, c)
  BY <1>1, <1>2, <1>3, <1>5
<1>7. After(Start) = SubSeq(log, n + 1, Len(log))
  BY DEF After
<1> HIDE DEF n, v
<1>8. Leaves(SubSeq(log, n + 1, Len(log)), c, v, Row(log, Len(log), c))
  BY <1>l, <1>6, CatchUpLeaves
<1> QED
  BY <1>7, <1>8 DEF v

LEMMA SelectOpsKeeps ==
    ASSUME TypeInv, ControlInv, DataInv, NEW t \in Thread, SelectOps(t)
    PROVE  DataInv'
<1>l. /\ log \in Seq(Op) /\ Len(log) \in Nat /\ LastForget(log) \in 0 .. Len(log)
      /\ cursor \in 0 .. Len(log) /\ Start = From(log, cursor) /\ Start \in 0 .. Len(log)
      /\ GrewTo(log, log)
  BY Typed, StaysAsItIs
<1>1. /\ job[t].at = "select"
      /\ job'[t].rebuild = job[t].rebuild
      /\ \/ job'[t].at = "selectAll"
         \/ /\ job'[t].at = "apply"
            /\ job'[t].ops = After(job[t].last)
            /\ job'[t].from = job[t].from
            /\ job'[t].last = Len(log)
            /\ ~ResetReached(ToSet(After(job[t].last)), ToSet(log))
      /\ Others(t)
      /\ UNCHANGED <<log, store, cursor, overtaken, cutShort, halfRemoved>>
  BY SelectsOps
<1>2. ~job[t].rebuild /\ job[t].last = Start /\ job[t].from = cursor
  BY <1>1 DEF ControlInv, PhaseOK
<1>3. ~Working(t) /\ ~Owed(t) /\ \A j : ~Undertakes(t, j)
  BY <1>1, <1>2 DEF Working, Owed, Undertakes
<1>4. /\ GrewTo(log, log') /\ \A i, j \in 1 .. Len(log') : ~(j > Len(log))
      /\ \A i, j \in 1 .. Len(log') : ~(Inverted(log', i, j) /\ j > Len(log))
  BY <1>1, <1>l
<1>5. CASE job'[t].at = "selectAll"
  <2>1. ~Working(t)'
    BY <1>5 DEF Working
  <2> QED
    BY <1>1, <1>3, <1>4, <2>1, OuterKept
<1>6. CASE job'[t].at = "apply"
  <2>1. /\ job'[t].ops = After(Start) /\ job'[t].from # -1 /\ job'[t].last = Len(log)
        /\ ~Asks(log, cursor)
    <3>1. ToSet(After(Start)) = Beyond(log, Start)
      BY <1>l, AfterIsBeyond
    <3>2. ~Asks(log, cursor)
      BY <3>1, <1>1, <1>2, <1>6, <1>l DEF Asks
    <3> QED
      BY <3>2, <1>1, <1>2, <1>6, <1>l
  <2>2. ASSUME NEW u \in Thread PROVE RebuildOK(u)'
    <3>1. CASE u = t
      BY <3>1, <2>1 DEF RebuildOK
    <3>2. CASE u # t
      <4>1. job'[u] = job[u] /\ RebuildOK(u)
        BY <3>2, <1>1 DEF Others, DataInv
      <4> QED
        BY <4>1, <1>1, <1>4, RebuildKept
    <3> QED
      BY <3>1, <3>2
  <2>3. ASSUME ~Excused'
        PROVE  InversionsCovered' /\ StoresClean' /\ \A u \in Thread : CatchUpOK(u)'
    <3>1. InversionsCovered /\ StoresClean /\ \A u \in Thread : CatchUpOK(u)
      BY <2>3, <1>1, ExcuseStays DEF DataInv
    <3>2. InversionsCovered'
      <4>1. From(log', job'[t].last) = Len(log')
        BY <1>1, <2>1, <1>l DEF From
      <4>2. cursor' \in Places
        BY <1>1 DEF Places
      <4> QED
        BY <1>1, <1>3, <1>4, <3>1, <4>1, <4>2, CoveredKept
    <3>3. StoresClean'
      <4>1. \A c \in Cell : Clean(c) => Clean(c)'
        BY <1>1, <1>4, CleanStays
      <4> QED
        BY <1>1, <1>3, <1>4, <3>1, <4>1, CleanKept
    <3>4. CatchUpOK(t)'
      <4>1. CASE SomeOwed
        <5>1. PICK w \in Thread : Owed(w)
          BY <4>1 DEF SomeOwed
        <5>2. w # t
          BY <5>1, <1>3
        <5>3. Owed(w)'
          BY <5>1, <5>2, <1>1 DEF Owed, Others
        <5> QED
          BY <5>3 DEF SomeOwed, CatchUpOK
      <4>2. CASE ~SomeOwed
        <5>1. \A c \in Cell : Leaves(After(Start), c, store[c], Row(log, Len(log), c))
          BY <4>2, <2>1, <3>1, CatchUpBegins
        <5>2. From(log, Len(log)) = Len(log)
          BY <1>l DEF From
        <5>3. \A c \in Cell : Leaves(job'[t].ops, c, store'[c],
                                     Row(log', From(log', job'[t].last), c))
          BY <5>1, <5>2, <1>1, <2>1
        <5> QED
          BY <5>3 DEF CatchUpOK
      <4> QED
        BY <4>1, <4>2
    <3>5. ASSUME NEW u \in Thread, u # t PROVE CatchUpOK(u)'
      BY <3>5, <3>1, <1>1, <1>3, <1>4, CatchUpKept
    <3> QED
      BY <3>2, <3>3, <3>4, <3>5
  <2> QED
    BY <2>2, <2>3 DEF DataInv
<1> QED
  BY <1>1, <1>5, <1>6

LEMMA SelectAllKeeps ==
    ASSUME TypeInv, DataInv, NEW t \in Thread, SelectAll(t)
    PROVE  DataInv'
<1>l. /\ log \in Seq(Op) /\ Len(log) \in Nat /\ LastForget(log) \in 0 .. Len(log)
      /\ DistinctIds(ToSet(log)) /\ GrewTo(log, log)
  BY Typed, StaysAsItIs DEF TypeInv
<1>1. /\ job[t].at = "selectAll" /\ job'[t].at = "empty"
      /\ job'[t].rebuild = job[t].rebuild
      /\ job'[t].ops = InIdOrder(Replayed(log))
      /\ From(log, job'[t].last) = Len(log)
      /\ job'[t].last = 0 \/ job'[t].last = Len(log)
      /\ Others(t)
      /\ UNCHANGED <<log, store, cursor, overtaken, cutShort, halfRemoved>>
  BY SelectsAll
<1>2. GrewTo(log, log') /\ \A i, j \in 1 .. Len(log') : ~(Inverted(log', i, j) /\ j > Len(log))
  BY <1>1, <1>l
<1>3. Owed(t) => Owed(t)'
  BY <1>1 DEF Owed
<1>4. ASSUME NEW u \in Thread PROVE RebuildOK(u)'
  <2>1. CASE u = t
    <3>1. \A c \in Cell : Leaves(InIdOrder(Replayed(log)), c, 0, Row(log, Len(log), c))
      BY <1>l, RebuildLeaves
    <3> QED
      BY <2>1, <3>1, <1>1 DEF RebuildOK
  <2>2. CASE u # t
    <3>1. job'[u] = job[u] /\ RebuildOK(u)
      BY <2>2, <1>1 DEF Others, DataInv
    <3> QED
      BY <3>1, <1>1, <1>2, RebuildKept
  <2> QED
    BY <2>1, <2>2
<1>5. ASSUME ~Excused'
      PROVE  InversionsCovered' /\ StoresClean' /\ \A u \in Thread : CatchUpOK(u)'
  <2>1. InversionsCovered /\ StoresClean /\ \A u \in Thread : CatchUpOK(u)
    BY <1>5, <1>1, ExcuseStays DEF DataInv
  <2>2. InversionsCovered'
    <3>1. From(log', job'[t].last) = Len(log') /\ cursor' \in Places
      BY <1>1 DEF Places
    <3>2. ASSUME NEW i \in 1 .. Len(log), NEW j \in 1 .. Len(log), Inverted(log, i, j),
                 Undertakes(t, j)
          PROVE  Undertakes(t, j)'
      <4>1. LastForget(log) < Len(log) /\ j <= Len(log)
        BY <3>2, <1>l DEF Inverted
      <4>2. job'[t].last = Len(log)
        BY <4>1, <1>1, <1>l DEF From
      <4> QED
        BY <3>2, <4>1, <4>2, <1>1 DEF Undertakes, Working
    <3> QED
      BY <1>1, <1>2, <2>1, <3>1, <3>2, CoveredKept
  <2>3. StoresClean'
    <3>1. \A c \in Cell : Clean(c) => Clean(c)'
      BY <1>1, <1>2, CleanStays
    <3> QED
      BY <1>1, <1>2, <1>3, <2>1, <3>1, CleanKept
  <2>4. ASSUME NEW u \in Thread PROVE CatchUpOK(u)'
    <3>1. CASE u = t
      BY <3>1, <1>1 DEF CatchUpOK
    <3>2. CASE u # t
      BY <3>2, <2>1, <1>1, <1>2, <1>3, CatchUpKept
    <3> QED
      BY <3>1, <3>2
  <2> QED
    BY <2>2, <2>3, <2>4
<1> QED
  BY <1>4, <1>5 DEF DataInv

\* While one thread is at the stores, no other is applying.
LEMMA AloneInside ==
    ASSUME ControlInv, NEW t \in Thread, NEW u \in Thread, u # t, job[t].at \in InStores
    PROVE  job[u].at \notin InStores /\ job[u].at # "apply" /\ ~Working(u)
  BY DEF ControlInv, OneInside, InStores, Working

LEMMA EmptyStoresKeeps ==
    ASSUME TypeInv, ControlInv, DataInv, NEW t \in Thread, EmptyStores(t)
    PROVE  DataInv'
<1>l. log \in Seq(Op) /\ Len(log) \in Nat /\ GrewTo(log, log)
  BY Typed, StaysAsItIs
<1>1. /\ job[t].at = "empty" /\ job'[t].at = "apply"
      /\ job'[t].rebuild = job[t].rebuild
      /\ job'[t].ops = job[t].ops
      /\ job'[t].from = job[t].from
      /\ job'[t].last = job[t].last
      /\ store' = Empty
      /\ Others(t)
      /\ UNCHANGED <<log, cursor, overtaken, cutShort, halfRemoved>>
  BY EmptiesStores
<1>2. GrewTo(log, log') /\ \A i, j \in 1 .. Len(log') : ~(Inverted(log', i, j) /\ j > Len(log))
  BY <1>1, <1>l
<1>3. job[t].from = -1 /\ job[t].at \in InStores
  BY <1>1 DEF ControlInv, PhaseOK, InStores
<1>4. SomeOwed'
  BY <1>1, <1>3 DEF SomeOwed, Owed
<1>5. ASSUME NEW u \in Thread PROVE RebuildOK(u)'
  <2>1. CASE u = t
    <3>1. \A c \in Cell : Leaves(job[t].ops, c, 0, Row(log, From(log, job[t].last), c))
      BY <1>1, <1>3 DEF DataInv, RebuildOK, Working
    <3>2. \A c \in Cell : store'[c] = 0
      BY <1>1 DEF Empty
    <3> QED
      BY <2>1, <3>1, <3>2, <1>1 DEF RebuildOK
  <2>2. CASE u # t
    <3>1. job'[u] = job[u] /\ RebuildOK(u)
      BY <2>2, <1>1 DEF Others, DataInv
    <3>2. job[u].at # "apply"
      BY <2>2, <1>3, AloneInside
    <3> QED
      BY <3>1, <3>2, <1>2, RebuildKept
  <2> QED
    BY <2>1, <2>2
<1>6. ASSUME ~Excused' PROVE InversionsCovered'
  <2>1. InversionsCovered
    BY <1>6, <1>1, ExcuseStays DEF DataInv
  <2>2. Working(t) /\ cursor' \in Places
    BY <1>1 DEF Working, Places
  <2>3. \A j : Undertakes(t, j) => Undertakes(t, j)'
    BY <1>1 DEF Undertakes, Working
  <2> QED
    BY <1>1, <1>2, <2>1, <2>2, <2>3, CoveredKept
<1>7. StoresClean' /\ \A u \in Thread : CatchUpOK(u)'
  BY <1>4 DEF StoresClean, CatchUpOK
<1> QED
  BY <1>5, <1>6, <1>7 DEF DataInv

LEMMA ApplyOpKeeps ==
    ASSUME TypeInv, ControlInv, DataInv, NEW t \in Thread, ApplyOp(t)
    PROVE  DataInv'
<1>l. /\ log \in Seq(Op) /\ Len(log) \in Nat /\ GrewTo(log, log)
      /\ job[t].ops \in Seq(Op)
  BY Typed, StaysAsItIs
<1>1. /\ job[t].at = "apply" /\ job'[t].at = "apply"
      /\ job[t].ops # <<>> /\ job'[t].ops = Tail(job[t].ops)
      /\ job'[t].rebuild = job[t].rebuild
      /\ job'[t].from = job[t].from
      /\ job'[t].last = job[t].last
      /\ \A c \in Cell : store'[c] = IF WritesCell(Head(job[t].ops), c)
                                       THEN Head(job[t].ops).id ELSE store[c]
      /\ Others(t)
      /\ UNCHANGED <<log, cursor, overtaken, cutShort, halfRemoved>>
  BY AppliesOp
<1>2. GrewTo(log, log') /\ \A i, j \in 1 .. Len(log') : ~(Inverted(log', i, j) /\ j > Len(log))
  BY <1>1, <1>l
<1>3. job[t].at \in InStores
  BY <1>1 DEF InStores
<1>4. ASSUME NEW c \in Cell, NEW w, Leaves(job[t].ops, c, store[c], w)
      PROVE  Leaves(job'[t].ops, c, store'[c], w)
  <2> DEFINE ops == job[t].ops
             v == store[c]
  <2>1. ops \in Seq(Op) /\ ops # <<>> /\ Leaves(ops, c, v, w)
    BY <1>1, <1>l, <1>4
  <2>2. job'[t].ops = Tail(ops) /\ store'[c] = IF WritesCell(Head(ops), c) THEN Head(ops).id ELSE v
    BY <1>1
  <2> HIDE DEF ops, v
  <2>3. Leaves(Tail(ops), c, IF WritesCell(Head(ops), c) THEN Head(ops).id ELSE v, w)
    BY <2>1, HeadApplied
  <2> QED
    BY <2>2, <2>3
<1>5. ASSUME NEW u \in Thread PROVE RebuildOK(u)'
  <2>1. CASE u = t
    <3> SUFFICES ASSUME job[t].from = -1, NEW c \in Cell
                 PROVE  Leaves(job'[t].ops, c, store'[c], Row(log, From(log, job[t].last), c))
      BY <2>1, <1>1 DEF RebuildOK
    <3>1. Leaves(job[t].ops, c, store[c], Row(log, From(log, job[t].last), c))
      BY <1>1 DEF DataInv, RebuildOK, Working
    <3> QED
      BY <3>1, <1>4
  <2>2. CASE u # t
    <3>1. job'[u] = job[u] /\ RebuildOK(u)
      BY <2>2, <1>1 DEF Others, DataInv
    <3>2. job[u].at # "apply"
      BY <2>2, <1>3, AloneInside
    <3> QED
      BY <3>1, <3>2, <1>2, RebuildKept
  <2> QED
    BY <2>1, <2>2
<1>6. Owed(t) => Owed(t)'
  BY <1>1 DEF Owed
<1>7. ASSUME ~Excused'
      PROVE  InversionsCovered' /\ StoresClean' /\ \A u \in Thread : CatchUpOK(u)'
  <2>1. InversionsCovered /\ StoresClean /\ \A u \in Thread : CatchUpOK(u)
    BY <1>7, <1>1, ExcuseStays DEF DataInv
  <2>2. InversionsCovered'
    <3>1. Working(t) /\ cursor' \in Places
      BY <1>1 DEF Working, Places
    <3>2. \A j : Undertakes(t, j) => Undertakes(t, j)'
      BY <1>1 DEF Undertakes, Working
    <3> QED
      BY <1>1, <1>2, <2>1, <3>1, <3>2, CoveredKept
  <2>3. CASE job[t].from = -1
    <3>1. SomeOwed'
      BY <2>3, <1>1 DEF SomeOwed, Owed
    <3> QED
      BY <2>2, <3>1 DEF StoresClean, CatchUpOK
  <2>4. CASE job[t].from # -1
    <3>1. ToSet(job[t].ops) \subseteq Beyond(log, Start)
      BY <2>4, <1>1 DEF ControlInv, PhaseOK
    <3>2. Head(job[t].ops) \in Beyond(log, Start)
      <4>1. Head(job[t].ops) \in ToSet(job[t].ops)
        <5> DEFINE ops == job[t].ops
        <5>1. ops \in Seq(Op) /\ ops # <<>>
          BY <1>1, <1>l
        <5> HIDE DEF ops
        <5>2. Head(ops) \in ToSet(ops)
          BY <5>1 DEF ToSet
        <5> QED
          BY <5>2 DEF ops
      <4> QED
        BY <3>1, <4>1
    <3>3. ASSUME NEW c \in Cell, Clean(c) PROVE Clean(c)'
      <4>1. CASE WritesCell(Head(job[t].ops), c)
        <5>1. Start' = Start /\ log' = log
          BY <1>1 DEF Start, StartAt
        <5> QED
          BY <4>1, <3>2, <5>1 DEF Clean
      <4>2. CASE ~WritesCell(Head(job[t].ops), c)
        <5>1. store'[c] = store[c]
          BY <4>2, <1>1
        <5> QED
          BY <5>1, <3>3, <1>1, <1>2, CleanStays
      <4> QED
        BY <4>1, <4>2
    <3>4. StoresClean'
      BY <1>1, <1>2, <1>6, <2>1, <3>3, CleanKept
    <3>5. ASSUME NEW u \in Thread, u # t PROVE CatchUpOK(u)'
      <4>1. job[u].at # "apply"
        BY <3>5, <1>3, AloneInside
      <4> QED
        BY <3>5, <4>1, <1>1, <1>2, <1>6, <2>1, CatchUpKept
    <3>6. CatchUpOK(t)'
      <4>1. CASE \A c \in Cell : Leaves(job[t].ops, c, store[c], Row(log, From(log, job[t].last), c))
        <5>1. \A c \in Cell : Leaves(job'[t].ops, c, store'[c], Row(log, From(log, job[t].last), c))
          BY <4>1, <1>4
        <5> QED
          BY <5>1, <1>1 DEF CatchUpOK
      <4>2. CASE SomeOwed
        <5>1. PICK w \in Thread : Owed(w)
          BY <4>2 DEF SomeOwed
        <5>2. Owed(w)'
          BY <5>1, <1>1, <1>6 DEF Owed, Others
        <5> QED
          BY <5>2 DEF SomeOwed, CatchUpOK
      <4>3. CASE Asks(log, job[t].last)
        BY <4>3, <1>1 DEF CatchUpOK
      <4> QED
        BY <4>1, <4>2, <4>3, <2>1, <2>4, <1>1 DEF CatchUpOK
    <3> QED
      BY <2>2, <3>4, <3>5, <3>6
  <2> QED
    BY <2>3, <2>4
<1> QED
  BY <1>5, <1>7 DEF DataInv

\* A thread that is done leaves the rows it was to leave, and says where they stand.
LEMMA SetCursorKeeps ==
    ASSUME TypeInv, ControlInv, DataInv, NEW t \in Thread, SetCursor(t)
    PROVE  DataInv'
<1>l. /\ log \in Seq(Op) /\ Len(log) \in Nat /\ GrewTo(log, log)
      /\ job[t].last \in 0 .. Len(log)
  BY Typed, StaysAsItIs
<1>1. /\ job'[t].at = "idle" /\ job'[t].rebuild = FALSE
      /\ Others(t)
      /\ UNCHANGED <<log, store, overtaken>>
  BY LeavesOff
<1>2. /\ job[t].at = "apply" /\ job[t].ops = <<>>
      /\ cursor' = IF job[t].from = job[t].last THEN cursor ELSE job[t].last
      /\ cutShort' = cutShort /\ halfRemoved' = halfRemoved
  BY DEF SetCursor
<1>3. /\ job[t].at \in InStores /\ Working(t)
      /\ job[t].from \in {-1, cursor}
      /\ job[t].rebuild => job[t].from = -1
  BY <1>2 DEF InStores, Working, ControlInv, PhaseOK
<1>4. cursor' = job[t].last
  BY <1>2, <1>3, <1>l
<1>5. GrewTo(log, log') /\ \A i, j \in 1 .. Len(log') : ~(Inverted(log', i, j) /\ j > Len(log))
  BY <1>1, <1>l
<1>6. \A u \in Thread : ~Working(u)' /\ job'[u].at # "apply"
  <2>1. ASSUME NEW u \in Thread, u # t PROVE ~Working(u)' /\ job'[u].at # "apply"
    <3>1. ~Working(u) /\ job[u].at # "apply"
      BY <2>1, <1>3, AloneInside
    <3>2. job'[u] = job[u]
      BY <2>1, <1>1 DEF Others
    <3> QED
      BY <3>1, <3>2 DEF Working
  <2> QED
    BY <2>1, <1>1 DEF Working
<1>7. \A u \in Thread : RebuildOK(u)' /\ CatchUpOK(u)'
  BY <1>6 DEF RebuildOK, CatchUpOK
<1>8. Start' = From(log, job[t].last)
  BY <1>1, <1>4 DEF Start, StartAt, From
<1>9. ASSUME \A c \in Cell : Leaves(job[t].ops, c, store[c], Row(log, From(log, job[t].last), c))
      PROVE  StoresClean'
  <2>1. ASSUME NEW c \in Cell PROVE store'[c] = Row(log', Start', c)
    <3>1. Leaves(<<>>, c, store[c], Row(log, From(log, job[t].last), c))
      BY <1>2, <1>9
    <3>2. store[c] = Row(log, From(log, job[t].last), c)
      BY <3>1, NothingLeft
    <3> QED
      BY <3>2, <1>1, <1>8
  <2>2. \A c \in Cell : Clean(c)'
    BY <2>1 DEF Clean
  <2> QED
    BY <2>2 DEF StoresClean
<1>10. ASSUME ~Excused' PROVE InversionsCovered' /\ StoresClean'
  <2>1. InversionsCovered /\ StoresClean /\ \A u \in Thread : CatchUpOK(u)
    BY <1>10, <1>1, <1>2, ExcuseStays DEF DataInv
  <2>2. InversionsCovered'
    <3>1. cursor' \in Places /\ ~Working(t)'
      BY <1>3, <1>4, <1>6 DEF Places
    <3>2. Places' = {cursor'}
      BY <1>6 DEF Places
    <3>3. ASSUME NEW j \in 1 .. Len(log), j > From(log, job[t].last)
          PROVE  ~Undertakes(t, j)
      <4>1. ~(j <= job[t].last)
        BY <3>3, <1>l DEF From
      <4> QED
        BY <4>1, <1>2 DEF Undertakes
    <3>4. \A p \in Places' : \A i, j \in 1 .. Len(log) :
              Inverted(log, i, j) /\ j > From(log, p) /\ Undertakes(t, j)
                  => Undertakes(t, j)' \/ Asks(log', p)
      BY <3>2, <3>3, <1>4
    <3> QED
      BY <1>1, <1>5, <2>1, <3>1, <3>4, CoveredKept
  <2>3. StoresClean'
    <3>1. CASE job[t].from = -1
      <4>1. \A c \in Cell : Leaves(job[t].ops, c, store[c], Row(log, From(log, job[t].last), c))
        BY <3>1, <1>2, <1>3 DEF DataInv, RebuildOK
      <4> QED
        BY <4>1, <1>9
    <3>2. CASE job[t].from # -1
      <4>1. CASE \A c \in Cell : Leaves(job[t].ops, c, store[c], Row(log, From(log, job[t].last), c))
        BY <4>1, <1>9
      <4>2. CASE SomeOwed
        <5>1. PICK w \in Thread : Owed(w)
          BY <4>2 DEF SomeOwed
        <5>2. w # t
          BY <5>1, <3>2, <1>3 DEF Owed
        <5>3. Owed(w)'
          BY <5>1, <5>2, <1>1 DEF Owed, Others
        <5> QED
          BY <5>3 DEF SomeOwed, StoresClean
      <4>3. CASE Asks(log, job[t].last)
        BY <4>3, <1>1, <1>4 DEF StoresClean
      <4> QED
        BY <4>1, <4>2, <4>3, <2>1, <3>2, <1>2 DEF CatchUpOK
    <3> QED
      BY <3>1, <3>2
  <2> QED
    BY <2>2, <2>3
<1> QED
  BY <1>7, <1>10 DEF DataInv

LEMMA DisorderShows ==
    ASSUME TypeInv, Disorder(log)
    PROVE  OutOfOrder
<1>1. PICK i \in 1 .. Len(log), j \in 1 .. Len(log) : Inverted(log, i, j)
  BY DEF Disorder
<1>2. LastForget(log) \in 0 .. Len(log)
  BY Typed
<1>3. i \in LastForget(log) + 1 .. Len(log) /\ j \in LastForget(log) + 1 .. Len(log) /\ i < j
  BY <1>1, <1>2 DEF Inverted
<1> QED
  BY <1>1, <1>3 DEF Inverted, OutOfOrder

\* Once the thread has stopped, every catch-up to come rebuilds.
LEMMA AllAskAgain ==
    ASSUME TypeInv, NEW t \in Thread, Fail(t), AsksAgain(t), NEW p \in Places'
    PROVE  Asks(log', p)
<1>1. job'[t].at = "idle" /\ Others(t) /\ log' = log
  BY LeavesOff
<1>2. cursor' = cursor
  BY DEF Fail
<1>3. p \in ComingPositions(t)
  BY <1>1, <1>2 DEF Places, ComingPositions, Others, Working
<1>4. p \in 0 .. Len(log)
  <2>1. cursor \in 0 .. Len(log) /\ \A u \in Thread : job[u].last \in 0 .. Len(log)
    BY Typed
  <2> QED
    BY <1>3, <2>1 DEF ComingPositions
<1>5. StartAt(p) = From(log, p) /\ From(log, p) \in 0 .. Len(log)
  BY <1>4, Typed DEF StartAt, From
<1>6. ToSet(After(From(log, p))) = Beyond(log, From(log, p))
  BY <1>5, AfterIsBeyond
<1> QED
  BY <1>1, <1>3, <1>5, <1>6 DEF AsksAgain, Asks

\* A thread that owes a rebuild, or the record of a removal, may stop where every
\* catch-up to come rebuilds.
LEMMA FailKeeps ==
    ASSUME TypeInv, DataInv, NEW t \in Thread, Fail(t)
    PROVE  DataInv'
<1>l. /\ log \in Seq(Op) /\ Len(log) \in Nat /\ GrewTo(log, log)
      /\ cursor \in 0 .. Len(log)
      /\ \A u \in Thread : job[u].last \in 0 .. Len(log)
      /\ \A p \in 0 .. Len(log) : From(log, p) \in 0 .. Len(log)
  BY Typed, StaysAsItIs
<1>1. /\ job'[t].at = "idle" /\ job'[t].rebuild = FALSE
      /\ Others(t)
      /\ UNCHANGED <<log, store, overtaken>>
  BY LeavesOff
<1>2. /\ cursor' = cursor /\ cutShort' = (cutShort \/ OwesRebuild(t))
      /\ halfRemoved' = (halfRemoved \/ LeavesRemovalHalf(t))
  BY DEF Fail
<1>3. GrewTo(log, log') /\ \A i, j \in 1 .. Len(log') : ~(Inverted(log', i, j) /\ j > Len(log))
  BY <1>1, <1>l
<1>4. ~Working(t)'
  BY <1>1 DEF Working
<1>5. ASSUME NEW u \in Thread PROVE RebuildOK(u)'
  <2>1. CASE u = t
    BY <2>1, <1>4 DEF RebuildOK
  <2>2. CASE u # t
    <3>1. job'[u] = job[u] /\ RebuildOK(u)
      BY <2>2, <1>1 DEF Others, DataInv
    <3> QED
      BY <3>1, <1>1, <1>3, RebuildKept
  <2> QED
    BY <2>1, <2>2
<1>6. ASSUME ~Excused', ~Excused
      PROVE  InversionsCovered' /\ StoresClean' /\ \A u \in Thread : CatchUpOK(u)'
  <2>1. InversionsCovered /\ StoresClean /\ \A u \in Thread : CatchUpOK(u)
    BY <1>6 DEF DataInv
  <2>2. ASSUME Owed(t), NEW p \in Places' PROVE Asks(log', p)
    <3>1. AsksAgain(t)
      BY <1>2, <1>6, <2>2, DisorderShows DEF Excused, OwesRebuild, Owed
    <3> QED
      BY <3>1, AllAskAgain
  <2>3. InversionsCovered'
    <3>1. ASSUME NEW i \in 1 .. Len(log), NEW j \in 1 .. Len(log), Inverted(log, i, j),
                 Undertakes(t, j)
          PROVE  Owed(t)
      BY <3>1 DEF Undertakes, Owed, Working, Disorder
    <3>2. cursor' \in Places
      BY <1>2 DEF Places
    <3> QED
      BY <1>1, <1>3, <1>4, <2>1, <2>2, <3>1, <3>2, CoveredKept
  <2>4. StoresClean'
    <3>1. \A c \in Cell : Clean(c) => Clean(c)'
      BY <1>1, <1>2, <1>3, CleanStays
    <3> QED
      BY <1>1, <1>2, <1>3, <2>1, <2>2, <3>1, CleanKept
  <2>5. ASSUME NEW u \in Thread PROVE CatchUpOK(u)'
    <3>1. CASE u = t
      BY <3>1, <1>1 DEF CatchUpOK
    <3>2. CASE u # t
      BY <3>2, <1>1, <1>3, <2>1, <2>2, CatchUpKept
    <3> QED
      BY <3>1, <3>2
  <2> QED
    BY <2>3, <2>4, <2>5
<1>7. ASSUME ~Excused', Excused
      PROVE  InversionsCovered' /\ StoresClean' /\ \A u \in Thread : CatchUpOK(u)'
  <2>1. ~LeavesRemovalHalf(t) /\ RemovalDue
    BY <1>1, <1>2, <1>7 DEF Excused
  <2>2. job[t].at = "forgetting" /\ Disorder(log)
    <3>1. PICK w \in Thread : job[w].at = "forgetting" /\ Disorder(log)
      BY <2>1 DEF RemovalDue
    <3>2. w = t
      BY <3>1, <1>1, <1>7 DEF Others, Excused, RemovalDue
    <3> QED
      BY <3>1, <3>2
  <2>3. AsksAgain(t)
    BY <2>1, <2>2, DisorderShows DEF LeavesRemovalHalf
  <2>4. \A p \in Places' : Asks(log', p)
    BY <2>3, AllAskAgain
  <2>5. InversionsCovered'
    BY <2>4 DEF InversionsCovered
  <2>6. StoresClean'
    BY <2>4 DEF StoresClean, Places
  <2>7. ASSUME NEW u \in Thread PROVE CatchUpOK(u)'
    <3>1. job'[u].at = "apply" => job'[u].last \in Places'
      BY DEF Places, Working
    <3> QED
      BY <3>1, <2>4 DEF CatchUpOK
  <2> QED
    BY <2>5, <2>6, <2>7
<1> QED
  BY <1>5, <1>6, <1>7 DEF DataInv

\* Rows of nothing.
LEMMA NoRowOfNothing ==
    ASSUME NEW l, NEW c, NEW n, HeldAt(l, n) = {}
    PROVE  Row(l, n, c) = 0
<1>1. {o.id : o \in Writes({} \ SetAside({}), c)} = {}
  BY DEF Writes
<1> QED
  BY <1>1 DEF Row, RowOf, Newest

\* Empty stores at the latest removal, with nothing out of order after it.
LEMMA EmptyIsClean ==
    ASSUME TypeInv', store' = Empty, cursor' = 0, ~Disorder(log'),
           \A u \in Thread : ~Working(u)'
    PROVE  DataInv'
<1>l. LastForget(log') \in 0 .. Len(log') /\ Len(log') \in Nat
  <2>1. log' \in Seq(Op)
    BY DEF TypeInv, TypeOK
  <2> QED
    BY <2>1, LastForgetIs
<1>1. \A u \in Thread : RebuildOK(u)' /\ CatchUpOK(u)'
  BY DEF RebuildOK, CatchUpOK, Working
<1>2. InversionsCovered'
  BY DEF InversionsCovered, Disorder
<1>3. Start' = LastForget(log')
  BY DEF Start, StartAt
<1>4. ASSUME NEW c \in Cell PROVE store'[c] = Row(log', Start', c)
  <2>1. HeldAt(log', LastForget(log')) = {}
    BY <1>l DEF HeldAt
  <2> QED
    BY <2>1, <1>3, NoRowOfNothing DEF Empty
<1>5. StoresClean'
  BY <1>4 DEF StoresClean, Clean
<1> QED
  BY <1>1, <1>2, <1>5 DEF DataInv

\* The stores are taken away: what follows is in order, or the removal is due.
LEMMA RemoveStoresKeeps ==
    ASSUME TypeInv, TypeInv', NEW t \in Thread, RemoveStores(t)
    PROVE  DataInv'
<1>1. /\ \A u \in Thread : job[u].at = "idle"
      /\ job'[t].at = "forgetting" /\ Others(t)
      /\ store' = Empty /\ cursor' = 0 /\ log' = log
  BY RemovesStores
<1>2. \A u \in Thread : ~Working(u)'
  BY <1>1 DEF Others, Working
<1>3. CASE Disorder(log')
  <2>1. Excused'
    BY <1>1, <1>3 DEF Excused, RemovalDue
  <2>2. \A u \in Thread : RebuildOK(u)'
    BY <1>2 DEF RebuildOK
  <2> QED
    BY <2>1, <2>2 DEF DataInv
<1> QED
  BY <1>1, <1>2, <1>3, EmptyIsClean

\* Recorded while nobody had used them, it leaves empty stores at the end of the log.
LEMMA ForgetKeeps ==
    ASSUME TypeInv, TypeInv', NEW t \in Thread, RecordForget(t), ~halfRemoved'
    PROVE  DataInv'
<1>1. /\ store' = Empty /\ cursor' = 0
      /\ \A u \in Thread : job'[u].at \notin {"select", "empty", "apply"}
  BY ForgetsUnused
<1>2. LastForget(log') = Len(log')
  BY Forgets
<1>3. ~Disorder(log')
  BY <1>2 DEF Disorder, Inverted
<1>4. \A u \in Thread : ~Working(u)'
  BY <1>1 DEF Working
<1> QED
  BY <1>1, <1>3, <1>4, EmptyIsClean

LEMMA NothingKeeps ==
    ASSUME DataInv, UNCHANGED vars
    PROVE  DataInv'
<1>1. log' = log /\ store' = store /\ cursor' = cursor /\ job' = job
      /\ overtaken' = overtaken /\ cutShort' = cutShort /\ halfRemoved' = halfRemoved
  BY DEF vars
<1>2. Start' = Start
  BY <1>1 DEF Start, StartAt
<1>3. Places' = Places
  BY <1>1 DEF Places, Working
<1>4. \A w \in Thread : \A j : Undertakes(w, j)' <=> Undertakes(w, j)
  BY <1>1 DEF Undertakes, Working
<1>5. InversionsCovered => InversionsCovered'
  BY <1>1, <1>3, <1>4 DEF InversionsCovered
<1>6. SomeOwed => SomeOwed'
  BY <1>1 DEF SomeOwed, Owed
<1>7. StoresClean => StoresClean'
  BY <1>1, <1>2, <1>6 DEF StoresClean, Clean
<1>8. \A t \in Thread : (RebuildOK(t) => RebuildOK(t)') /\ (CatchUpOK(t) => CatchUpOK(t)')
  BY <1>1, <1>6 DEF RebuildOK, CatchUpOK, Working
<1>9. Excused => Excused'
  BY <1>1 DEF Excused, RemovalDue
<1> QED
  BY <1>1, <1>5, <1>7, <1>8, <1>9 DEF DataInv

LEMMA DataStep ==
    ASSUME TypeInv, TypeInv', ControlInv, DataInv, [Next]_vars, ~halfRemoved'
    PROVE  DataInv'
<1>1. CASE UNCHANGED vars
  BY <1>1, NothingKeeps
<1>2. ASSUME NEW t \in Thread,
             \/ RecordWrite(t) \/ StartCatchUp(t) \/ StartRebuild(t) \/ AskRebuild(t)
             \/ RecordReset(t) \/ ReadNewest(t) \/ MergeOps(t) \/ ReadCursor(t)
      PROVE  DataInv'
  BY <1>2, OuterSteps
<1>3. ASSUME NEW t \in Thread,
             \/ SelectOps(t) \/ SelectAll(t) \/ EmptyStores(t) \/ ApplyOp(t)
             \/ SetCursor(t) \/ Fail(t) \/ RemoveStores(t) \/ RecordForget(t)
      PROVE  DataInv'
  BY <1>3, SelectOpsKeeps, SelectAllKeeps, EmptyStoresKeeps, ApplyOpKeeps, SetCursorKeeps,
     FailKeeps, RemoveStoresKeeps, ForgetKeeps
<1> QED
  BY <1>1, <1>2, <1>3 DEF Next

LEMMA DataInit == Init => DataInv
<1> SUFFICES ASSUME Init PROVE DataInv
  OBVIOUS
<1>1. /\ log = <<>> /\ Len(log) = 0 /\ store = Empty /\ cursor = 0
      /\ \A t \in Thread : job[t].at = "idle"
  BY DEF Init, Idle
<1>2. \A t \in Thread : RebuildOK(t) /\ CatchUpOK(t)
  BY <1>1 DEF RebuildOK, CatchUpOK, Working
<1>3. InversionsCovered
  BY <1>1 DEF InversionsCovered
<1>4. LastForget(log) = 0 /\ Start = 0
  <2>1. {i \in DOMAIN log : log[i].kind = "forget"} = {}
    BY <1>1
  <2> QED
    BY <2>1, <1>1 DEF LastForget, Newest, Start, StartAt
<1>5. ASSUME NEW c \in Cell PROVE store[c] = Row(log, Start, c)
  <2>1. HeldAt(log, 0) = {}
    BY <1>4 DEF HeldAt
  <2>2. {o.id : o \in Writes({} \ SetAside({}), c)} = {}
    BY DEF Writes
  <2> QED
    BY <2>1, <2>2, <1>1, <1>4 DEF Row, RowOf, Newest, Empty
<1>6. StoresClean
  BY <1>5 DEF StoresClean, Clean
<1> QED
  BY <1>2, <1>3, <1>6 DEF DataInv

\* Where nobody is at work and nothing is left to apply, clean stores are the
\* rows of the whole log.
LEMMA QuietIsRebuilt ==
    ASSUME TypeInv, halfRemoved \/ DataInv
    PROVE  DriftIsExplained
<1> SUFFICES ASSUME ~overtaken, ~cutShort, ~halfRemoved, Quiet PROVE store = Rebuilt(log)
  BY DEF DriftIsExplained, StoresAsRebuilt
<1>l. /\ log \in Seq(Op) /\ Len(log) \in Nat
      /\ Start = From(log, cursor) /\ Start \in 0 .. Len(log)
      /\ store \in [Cell -> Id \cup {0}]
  BY Typed
<1>1. \A t \in Thread : job[t].at = "idle" /\ ~job[t].rebuild
  BY DEF Quiet, Idle
<1>2. ~SomeOwed
  BY <1>1 DEF SomeOwed, Owed
<1>e. ~Excused
  BY <1>1 DEF Excused, RemovalDue
<1>3. Start = Len(log)
  <2>1. Len(After(Start)) = Len(log) - Start
    BY <1>l DEF After
  <2>2. Len(After(Start)) = 0
    BY DEF Quiet
  <2> QED
    BY <2>1, <2>2, <1>l
<1>4. Beyond(log, Start) = {}
  BY <1>3, <1>l DEF Beyond
<1>5. ~Asks(log, cursor)
  BY <1>4, <1>l DEF Asks, ResetReached
<1>6. \A c \in Cell : store[c] = Row(log, Len(log), c)
  BY <1>2, <1>e, <1>3, <1>4, <1>5 DEF DataInv, StoresClean, Clean
<1>7. store = [c \in Cell |-> Row(log, Len(log), c)]
  BY <1>6, <1>l
<1> QED
  BY <1>7, <1>l, RebuiltIsRow

\* In one process the stores that writes, pulls and catch-ups leave are the ones
\* a rebuild would leave (the comment on Rebuild in rebuild.go), whatever the
\* operations and wherever threads stop, inside a removal too: only three things
\* bring them off the log.  An operation merged past one recorded since the merge
\* looked; a rebuild cut short that no catch-up to come would ask for again; and a
\* removal that took the stores away and then stopped with operations out of order
\* still in force, or whose stores were used again before it was recorded
\* (DeleteProject, workspace.go).
THEOREM DriftExplained ==
    ASSUME AllInOneProcess
    PROVE  Spec => []DriftIsExplained
<1> DEFINE Inv == TypeInv /\ (halfRemoved \/ (ControlInv /\ DataInv))
<1>1. Init => Inv
  BY TypeInit, ControlInit, DataInit
<1>2. Inv /\ [Next]_vars => Inv'
  <2> SUFFICES ASSUME Inv, [Next]_vars PROVE Inv'
    OBVIOUS
  <2>1. TypeInv'
    BY TypeStep
  <2>2. ASSUME ~halfRemoved' PROVE ControlInv' /\ DataInv'
    <3>1. ControlInv /\ DataInv
      BY <2>2, HalfStays
    <3> QED
      BY <2>1, <2>2, <3>1, ControlStep, DataStep
  <2> QED
    BY <2>1, <2>2
<1>3. Inv => DriftIsExplained
  BY QuietIsRebuilt
<1> HIDE DEF Inv
<1> QED
  BY <1>1, <1>2, <1>3, PTL DEF Spec

=============================================================================
