-------------------------- MODULE ContextSync_proofs --------------------------
(***************************************************************************)
(* The properties of ContextSync, for every set of machines, processes,    *)
(* ids and addresses, every segment size, and any number of pulls and      *)
(* pushes that stop part-way and of removals.                              *)
(***************************************************************************)
EXTENDS ContextSync, OpLogLemmas

----------------------------------------------------------------------------
(* How a push cuts its operations into segments. *)

\* An id is the id of one operation.
OneIdEach(ops) == \A o, p \in ops : o.id = p.id => o = p

LEMMA RankIsNat ==
    ASSUME NEW ops \in SUBSET Op, IsFiniteSet(ops), NEW o \in Op
    PROVE  /\ RankIn(ops, o) \in Nat
           /\ IsFiniteSet({p \in ops : p.id < o.id})
<1>1. IsFiniteSet({p \in ops : p.id < o.id})
  BY FS_Subset
<1> QED
  BY <1>1, FS_CardinalityType DEF RankIn

\* Of a finite set of operations not empty, one has the greatest id.
LEMMA NewestExists ==
    ASSUME NEW ops \in SUBSET Op, ops # {}, NEW top \in Nat,
           \A o \in ops : o.id <= top
    PROVE  \E o \in ops : \A p \in ops : p.id <= o.id
<1> DEFINE S == {top - o.id : o \in ops}
<1>1. \A o \in ops : o.id \in Nat
  BY IdsAreNumbers DEF Op
<1>2. S \in SUBSET Nat /\ S # {}
  BY <1>1
<1>3. PICK n \in S : \A m \in S : n <= m
  BY <1>2, LeastExists
<1>4. PICK o \in ops : n = top - o.id
  BY <1>3
<1>5. ASSUME NEW p \in ops PROVE p.id <= o.id
  <2>1. top - o.id <= top - p.id
    BY <1>3, <1>4
  <2> QED
    BY <2>1, <1>1
<1> QED
  BY <1>5

\* The operations of a batch have the ranks 0, 1, 2 and so on.
LEMMA RankReached ==
    ASSUME NEW ops \in SUBSET Op, IsFiniteSet(ops), OneIdEach(ops),
           NEW o \in ops, NEW k \in Nat, k <= RankIn(ops, o)
    PROVE  \E p \in ops : RankIn(ops, p) = k
<1> DEFINE Q == {p.id : p \in {p \in ops : k <= RankIn(ops, p)}}
<1>n. \A p \in ops : p.id \in Nat /\ RankIn(ops, p) \in Nat
  BY IdsAreNumbers, RankIsNat DEF Op
<1>1. Q \in SUBSET Nat /\ Q # {}
  BY <1>n
<1>2. PICK n \in Q : \A m \in Q : n <= m
  BY <1>1, LeastExists
<1>3. PICK p \in ops : p.id = n /\ k <= RankIn(ops, p)
  BY <1>2
<1> DEFINE B == {q \in ops : q.id < p.id}
<1>4. ASSUME RankIn(ops, p) # k PROVE FALSE
  <2>1. IsFiniteSet(B) /\ RankIn(ops, p) = Cardinality(B) /\ Cardinality(B) \in Nat
    BY RankIsNat, FS_CardinalityType DEF RankIn
  <2>2. B # {}
    BY <2>1, <1>3, <1>4, <1>n, FS_EmptySet
  <2>3. \A q \in B : q.id <= p.id
    BY <1>n
  <2>4. PICK q \in B : \A r \in B : r.id <= q.id
    <3>1. B \in SUBSET Op /\ p.id \in Nat
      BY <1>n
    <3> QED
      BY <3>1, <2>2, <2>3, NewestExists
  <2> DEFINE C == {r \in ops : r.id < q.id}
  <2>5. q \in ops /\ q.id < p.id
    OBVIOUS
  <2>6. ASSUME NEW r \in ops PROVE r \in B <=> r \in C \cup {q}
    <3>1. r.id < p.id <=> r.id <= q.id
      BY <2>4, <2>5, <2>6, <1>n
    <3>2. r.id = q.id => r = q
      BY <2>5, <2>6 DEF OneIdEach
    <3> QED
      BY <3>1, <3>2, <2>5, <2>6, <1>n
  <2>7. B = C \cup {q} /\ q \notin C
    BY <2>6, <2>5, <1>n
  <2>8. IsFiniteSet(C) /\ RankIn(ops, q) = Cardinality(C)
    BY <2>5, RankIsNat DEF RankIn
  <2>9. Cardinality(B) = Cardinality(C) + 1
    BY <2>7, <2>8, FS_AddElement
  <2>10. k <= RankIn(ops, q)
    BY <2>1, <2>5, <2>8, <2>9, <1>3, <1>4, <1>n
  <2>11. p.id <= q.id
    BY <2>5, <2>10, <1>2, <1>3
  <2> QED
    BY <2>5, <2>11, <1>n
<1> QED
  BY <1>3, <1>4

\* A batch begins with its oldest operation, whose segment is the first.
LEMMA SomeFirst ==
    ASSUME NEW ops \in SUBSET Op, IsFiniteSet(ops), OneIdEach(ops), ops # {}
    PROVE  FirstIds(ops) # {} /\ FirstIds(ops) \in SUBSET Ids
<1>1. PICK o \in ops : TRUE
  OBVIOUS
<1>2. RankIn(ops, o) \in Nat
  BY RankIsNat
<1>4. PICK p \in ops : RankIn(ops, p) = 0
  BY <1>2, RankReached
<1>3. 0 % SegmentOps = 0
  BY SegmentsCarrySome
<1> QED
  BY <1>3, <1>4 DEF FirstIds, Op

\* The rank at which the segment of the n-th operation begins.
LEMMA SegmentBegins ==
    ASSUME NEW n \in Nat
    PROVE  \E k \in 0..n : k % SegmentOps = 0 /\ k \div SegmentOps = n \div SegmentOps
<1> DEFINE k == SegmentOps * (n \div SegmentOps)
<1>1. n \div SegmentOps \in Nat /\ k \in 0..n
  BY SegmentsCarrySome
<1>2. k % SegmentOps = 0
  BY <1>1, SegmentsCarrySome
<1>3. k \div SegmentOps = n \div SegmentOps
  BY <1>1, SegmentsCarrySome
<1> QED
  BY <1>1, <1>2, <1>3
\* Every operation of a push is in one of its segments.
LEMMA SegmentsCover ==
    ASSUME NEW ops \in SUBSET Op, IsFiniteSet(ops), OneIdEach(ops), NEW o \in ops
    PROVE  \E i \in FirstIds(ops) : o \in SegmentAt(ops, i)
<1>1. RankIn(ops, o) \in Nat
  BY RankIsNat
<1>2. PICK k \in 0..RankIn(ops, o) :
        k % SegmentOps = 0 /\ k \div SegmentOps = RankIn(ops, o) \div SegmentOps
  BY <1>1, SegmentBegins
<1>3. PICK p \in ops : RankIn(ops, p) = k
  BY <1>1, <1>2, RankReached
<1>4. p.id \in FirstIds(ops)
  BY <1>2, <1>3 DEF FirstIds
<1>5. (CHOOSE q \in ops : q.id = p.id) = p
  BY <1>3 DEF OneIdEach
<1>6. o \in SegmentAt(ops, p.id)
  BY <1>2, <1>3, <1>5 DEF SegmentAt, SegmentOf
<1> QED
  BY <1>4, <1>6

\* A segment is not empty, and holds operations of the push.
LEMMA SegmentIsSome ==
    ASSUME NEW ops \in SUBSET Op, NEW i \in FirstIds(ops)
    PROVE  SegmentAt(ops, i) \in Some(ops)
<1> DEFINE o == CHOOSE q \in ops : q.id = i
<1>1. o \in ops
  BY DEF FirstIds
<1>2. o \in SegmentOf(ops, o) /\ SegmentOf(ops, o) \in SUBSET ops
  BY <1>1 DEF SegmentOf
<1>3. SegmentAt(ops, i) = SegmentOf(ops, o)
  BY DEF SegmentAt
<1> HIDE DEF o
<1>4. SegmentOf(ops, o) # {} /\ SegmentOf(ops, o) \in SUBSET ops
  BY <1>2
<1> QED
  BY <1>3, <1>4 DEF Some

----------------------------------------------------------------------------
(* The inductive invariant. *)

\* Rows are of operations recorded somewhere, and an edit has its blob beside it.
LogsOK ==
    /\ log = [m \in Machine |-> log[m]]
    /\ \A m \in Machine :
        /\ WellFormed(log[m])
        /\ \A r \in log[m].rows :
            /\ OpOf(r) \in minted
            /\ r.kind = "edit" => BlobOf(r) \in blobs[m]

MintedOK ==
    /\ IsFiniteSet(minted)
    /\ OneIdEach(minted)

\* Removals do not travel.
RemoteOK ==
    /\ \A n \in DOMAIN remote :
        /\ remote[n] \in SUBSET minted
        /\ \A o \in remote[n] : o.kind # "forget"
    /\ BlobsOf(OpsIn(DOMAIN remote)) \subseteq rblobs

SegmentsOK ==
    /\ segments = [m \in Machine |-> segments[m]]
    /\ \A m \in Machine : DOMAIN segments[m] \subseteq DOMAIN remote

IsOnRemote(n) == n \in DOMAIN remote

\* The segments of a push that are not among those still to put are there.
PutSoFar(p, ops, firsts) ==
    \A i \in FirstIds(ops) \ firsts :
        /\ IsOnRemote(ObjectName(p, i))
        /\ remote[ObjectName(p, i)] = SegmentAt(ops, i)

Pushable(ops) == ops \in SUBSET minted /\ \A o \in ops : o.kind # "forget"

\* What a job holds in memory stays true of the remote and of its machine.
JobOK(p) ==
    LET j == job[p]
    IN  /\ j.at \in {"fetch", "note", "keep"} => j.todo \subseteq DOMAIN remote
        /\ j.at \in {"note", "keep"} => IsOnRemote(j.name)
        /\ j.at \in {"merge", "mark"} => j.names \subseteq DOMAIN remote
        /\ j.at = "merge" => BlobsOf(OpsIn(j.names)) \subseteq blobs[On[p]]
        /\ j.at = "put" =>
            /\ Pushable(j.ops)
            /\ j.firsts \subseteq FirstIds(j.ops)
            /\ BlobsOf(j.ops) \subseteq rblobs \cup j.blobs
            /\ PutSoFar(p, j.ops, j.firsts)
        /\ j.at = "known" => Pushable(j.ops) /\ PutSoFar(p, j.ops, {})
        /\ j.at = "record" => \A i \in j.firsts : IsOnRemote(ObjectName(p, i))

JobsOK == \A p \in Process : JobOK(p)

IInv ==
    /\ TypeOK
    /\ LogsOK
    /\ MintedOK
    /\ RemoteOK
    /\ SegmentsOK
    /\ KnownIsRemote
    /\ JobsOK

LEMMA InitInv == Init => IInv
<1> SUFFICES ASSUME Init PROVE IInv
  OBVIOUS
<1> USE DEF Init
<1>1. TypeOK
  <2>1. \A m \in Machine : log[m].rows = {} /\ log[m].seq = 0 /\ DOMAIN segments[m] = {}
    BY DEF EmptyLog
  <2>2. DOMAIN remote = {}
    OBVIOUS
  <2>3. job \in [Process -> Job]
    BY DEF Job
  <2>4. fails \in 0..MaxFails /\ forgets \in 0..MaxForgets
    BY BoundsAreNumbers
  <2> QED
    BY <2>1, <2>2, <2>3, <2>4 DEF TypeOK
<1>2. LogsOK
  BY DEF LogsOK, WellFormed, EmptyLog, OneEach
<1>3. MintedOK
  BY FS_EmptySet DEF MintedOK, OneIdEach
<1>4. RemoteOK
  BY DEF RemoteOK, OpsIn, BlobsOf
<1>5. SegmentsOK
  BY DEF SegmentsOK
<1>6. KnownIsRemote
  BY DEF KnownIsRemote
<1>7. JobsOK
  BY DEF JobsOK, JobOK, Idle
<1> QED
  BY <1>1, <1>2, <1>3, <1>4, <1>5, <1>6, <1>7 DEF IInv

----------------------------------------------------------------------------
(* Jobs. *)

\* What the memory of a job is made of, by where it stands.
LEMMA JobShapes ==
    ASSUME NEW j \in Job
    PROVE  /\ j.at \in {"idle", "fetch", "note", "keep", "merge", "mark", "put",
                        "known", "record", "forget"}
           /\ j.at = "idle" => j = Idle
           /\ j.at = "fetch" =>
                 j \in [at : {"fetch"}, goal : {"pull", "push"}, todo : SUBSET Name]
           /\ j.at \in {"note", "keep"} =>
                 j \in [at : {"note", "keep"}, goal : {"pull", "push"},
                        todo : SUBSET Name, name : Name, merged : BOOLEAN]
           /\ j.at \in {"merge", "mark"} =>
                 j \in [at : {"merge", "mark"}, names : Some(Name)]
           /\ j.at = "put" =>
                 j \in [at : {"put"}, ops : Some(Op), blobs : SUBSET BlobName,
                        firsts : Some(Ids)]
           /\ j.at = "known" => j \in [at : {"known"}, ops : Some(Op)]
           /\ j.at = "record" => j \in [at : {"record"}, firsts : Some(Ids)]
  BY DEF Job, Idle

\* What is recorded, created and kept stays so.
Grows ==
    /\ minted \subseteq minted'
    /\ DOMAIN remote \subseteq DOMAIN remote'
    /\ \A n \in DOMAIN remote : remote'[n] = remote[n]
    /\ rblobs \subseteq rblobs'
    /\ \A m \in Machine : blobs[m] \subseteq blobs'[m]

\* A job that does not move keeps its memory true while the rest grows.
LEMMA JobStays ==
    ASSUME NEW p \in Process, JobOK(p), Grows, job'[p] = job[p]
    PROVE  JobOK(p)'
<1> DEFINE j == job[p]
<1> USE DEF Grows
<1>1. On[p] \in Machine
  BY ProcessesRunSomewhere
<1>2. \A n \in DOMAIN remote : IsOnRemote(n)'
  BY DEF IsOnRemote
<1>3. \A ops, firsts : PutSoFar(p, ops, firsts) => PutSoFar(p, ops, firsts)'
  BY <1>2 DEF PutSoFar, IsOnRemote
<1>4. \A ops : Pushable(ops) => Pushable(ops)'
  BY DEF Pushable
<1>5. \A names \in SUBSET DOMAIN remote : OpsIn(names)' = OpsIn(names)
  BY DEF OpsIn
<1>6. j.at \in {"fetch", "note", "keep"} => j.todo \subseteq DOMAIN remote'
  BY DEF JobOK
<1>7. j.at \in {"note", "keep"} => IsOnRemote(j.name)'
  BY DEF JobOK, IsOnRemote
<1>8. j.at \in {"merge", "mark"} => j.names \subseteq DOMAIN remote'
  BY DEF JobOK
<1>9. j.at = "merge" => BlobsOf(OpsIn(j.names)') \subseteq blobs'[On[p]]
  <2>1. j.at = "merge" => OpsIn(j.names)' = OpsIn(j.names)
    BY <1>5 DEF JobOK
  <2> QED
    BY <2>1, <1>1 DEF JobOK
<1>10. j.at = "put" => /\ Pushable(j.ops)'
                       /\ j.firsts \subseteq FirstIds(j.ops)
                       /\ BlobsOf(j.ops) \subseteq rblobs' \cup j.blobs
                       /\ PutSoFar(p, j.ops, j.firsts)'
  BY <1>3, <1>4 DEF JobOK
<1>11. j.at = "known" => Pushable(j.ops)' /\ PutSoFar(p, j.ops, {})'
  BY <1>3, <1>4 DEF JobOK
<1>12. j.at = "record" => \A i \in j.firsts : IsOnRemote(ObjectName(p, i))'
  BY <1>2 DEF JobOK, IsOnRemote
<1> QED
  BY <1>6, <1>7, <1>8, <1>9, <1>10, <1>11, <1>12 DEF JobOK
\* One job moves, and the others stay as they are.
LEMMA OneJobMoves ==
    ASSUME IInv, NEW p \in Process, Grows, NEW j \in Job,
           Goto(p, j), JobOK(p)'
    PROVE  /\ JobsOK'
           /\ job' \in [Process -> Job]
<1>1. job \in [Process -> Job] /\ job' = [job EXCEPT ![p] = j]
  BY DEF IInv, TypeOK, Goto
<1>2. ASSUME NEW q \in Process PROVE JobOK(q)'
  <2>1. CASE q = p
    BY <2>1
  <2>2. CASE q # p
    <3>1. job'[q] = job[q]
      BY <1>1, <2>2
    <3>2. JobOK(q)
      BY DEF IInv, JobsOK
    <3> QED
      BY <3>1, <3>2, JobStays
  <2> QED
    BY <2>1, <2>2
<1> QED
  BY <1>1, <1>2 DEF JobsOK

\* No job moves.
LEMMA NoJobMoves ==
    ASSUME IInv, Grows, UNCHANGED job
    PROVE  JobsOK' /\ job' \in [Process -> Job]
  BY JobStays DEF IInv, TypeOK, JobsOK

----------------------------------------------------------------------------
(* Recording in a log. *)

\* A batch of operations recorded somewhere, whose blobs are here.
LEMMA RecordInLog ==
    ASSUME IInv, NEW m \in Machine, NEW ops \in SUBSET minted',
           Batch(log[m], ops),
           log' = [log EXCEPT ![m] = Record(@, ops)],
           minted \subseteq minted',
           \A x \in Machine : blobs[x] \subseteq blobs'[x],
           BlobsOf(ops) \subseteq blobs'[m]
    PROVE  LogsOK'
<1>1. /\ log = [x \in Machine |-> log[x]]
      /\ \A x \in Machine :
          /\ WellFormed(log[x])
          /\ \A r \in log[x].rows : /\ OpOf(r) \in minted
                                    /\ r.kind = "edit" => BlobOf(r) \in blobs[x]
  BY DEF IInv, LogsOK
<1>2. log' = [x \in Machine |-> log'[x]]
  BY <1>1
<1>3. log'[m] = Record(log[m], ops) /\ \A x \in Machine : x # m => log'[x] = log[x]
  BY <1>1
<1>4. WellFormed(log'[m])
  BY <1>1, <1>3, RecordWellFormed
<1>5. ASSUME NEW r \in log'[m].rows
      PROVE  OpOf(r) \in minted' /\ (r.kind = "edit" => BlobOf(r) \in blobs'[m])
  <2>1. CASE r \in Kept(log[m].rows, Written(log[m].rows, ops))
    BY <2>1, <1>1 DEF Kept
  <2>2. CASE r \notin Kept(log[m].rows, Written(log[m].rows, ops))
    <3>1. PICK o \in Written(log[m].rows, ops), n \in (log[m].seq + 1)..Record(log[m], ops).seq :
             o \in ops /\ o \in Op /\ n \in Nat /\ r = AtPosition(o, n)
      BY <2>2, <1>1, <1>3, RecordedRow
    <3>2. OpOf(r) = o /\ r.id = o.id /\ r.addr = o.addr /\ r.kind = o.kind
      BY <3>1, PlacedRow
    <3>3. r.kind = "edit" => BlobOf(r) \in BlobsOf(ops)
      BY <3>1, <3>2 DEF BlobsOf, BlobOf
    <3> QED
      BY <3>1, <3>2, <3>3
  <2> QED
    BY <2>1, <2>2
<1> QED
  BY <1>1, <1>2, <1>3, <1>4, <1>5 DEF LogsOK

\* The log and the blobs a new operation is recorded in, and all that is
\* recorded, stay as they should be.
LEMMA AcceptStep ==
    ASSUME IInv, NEW m \in Machine, NEW op \in Op, Accept(m, op)
    PROVE  /\ LogsOK' /\ MintedOK'
           /\ minted' \in SUBSET Op /\ minted \subseteq minted'
           /\ blobs' \in [Machine -> SUBSET BlobName]
           /\ \A x \in Machine : blobs[x] \subseteq blobs'[x]
<1> USE DEF Accept
<1>1. /\ IsFiniteSet(minted) /\ OneIdEach(minted) /\ minted \in SUBSET Op
      /\ blobs \in [Machine -> SUBSET BlobName]
      /\ WellFormed(log[m]) /\ \A r \in log[m].rows : OpOf(r) \in minted
  BY DEF IInv, TypeOK, LogsOK, MintedOK
<1>2. \A o \in minted : o.id # op.id
  BY DEF Mintable
<1>3. MintedOK' /\ minted' \in SUBSET Op /\ minted \subseteq minted'
  <2>1. minted' = minted \cup {op}
    OBVIOUS
  <2>2. IsFiniteSet(minted')
    BY <1>1, <2>1, FS_AddElement
  <2>3. OneIdEach(minted')
    BY <1>1, <1>2, <2>1 DEF OneIdEach
  <2> QED
    BY <1>1, <2>1, <2>2, <2>3 DEF MintedOK
<1>4. BlobsOf({op}) \in SUBSET BlobName
  BY DEF BlobsOf, BlobOf, BlobName, Op
<1>5. /\ blobs' \in [Machine -> SUBSET BlobName]
      /\ \A x \in Machine : blobs[x] \subseteq blobs'[x]
      /\ BlobsOf({op}) \subseteq blobs'[m]
  BY <1>1, <1>4
<1>6. Batch(log[m], {op})
  <2>1. IsFiniteSet({op})
    BY FS_Singleton
  <2>2. \A r \in log[m].rows : r.id # op.id
    BY <1>1, <1>2 DEF OpOf
  <2> QED
    BY <2>1, <2>2 DEF Batch
<1>7. LogsOK'
  BY <1>3, <1>5, <1>6, RecordInLog
<1> QED
  BY <1>3, <1>5, <1>7

\* Operations recorded anywhere are a batch for every log.
LEMMA ArrivingBatch ==
    ASSUME IInv, NEW m \in Machine, NEW ops \in SUBSET minted
    PROVE  Batch(log[m], ops)
<1>1. ops \in SUBSET Op /\ IsFiniteSet(ops)
  BY FS_Subset DEF IInv, TypeOK, MintedOK
<1>2. \A r \in log[m].rows, o \in ops : r.id = o.id => OpOf(r) = o
  BY DEF IInv, LogsOK, MintedOK, OneIdEach, OpOf
<1> QED
  BY <1>1, <1>2 DEF Batch, IInv, MintedOK, OneIdEach

\* What is typed by what a step leaves alone.
LEMMA TypeStep ==
    ASSUME IInv, LogsOK',
           minted' \in SUBSET Op, blobs' \in [Machine -> SUBSET BlobName],
           job' \in [Process -> Job], UNCHANGED <<segments, remote>>,
           known' \in [Machine -> SUBSET Ids], rblobs' \in SUBSET BlobName,
           fails' \in 0..MaxFails, forgets' \in 0..MaxForgets
    PROVE  TypeOK'
<1>1. \A m \in Machine : log'[m].rows \in SUBSET Row /\ log'[m].seq \in Nat
  BY DEF LogsOK, WellFormed
<1> QED
  BY <1>1 DEF IInv, TypeOK
\* What holds after a step that leaves the remote's segments alone.
LEMMA Steady ==
    ASSUME IInv, UNCHANGED remote, minted \subseteq minted', rblobs \subseteq rblobs',
           \A m \in Machine : blobs[m] \subseteq blobs'[m]
    PROVE  /\ Grows /\ RemoteOK'
           /\ UNCHANGED <<log, minted>> => LogsOK' /\ MintedOK'
           /\ UNCHANGED segments => SegmentsOK'
           /\ UNCHANGED known => KnownIsRemote'
<1>1. Grows
  BY DEF Grows
<1>2. RemoteOK'
  <2>1. OpsIn(DOMAIN remote)' = OpsIn(DOMAIN remote)
    BY DEF OpsIn
  <2> QED
    BY <2>1 DEF IInv, RemoteOK
<1>3. ASSUME UNCHANGED <<log, minted>> PROVE LogsOK' /\ MintedOK'
  BY <1>3 DEF IInv, LogsOK, MintedOK
<1>4. ASSUME UNCHANGED segments PROVE SegmentsOK'
  BY <1>4 DEF IInv, SegmentsOK
<1>5. ASSUME UNCHANGED known PROVE KnownIsRemote'
  BY <1>5 DEF IInv, KnownIsRemote, OpsIn
<1> QED
  BY <1>1, <1>2, <1>3, <1>4, <1>5

\* A job moves and its machine's tables stay: what is left to show is that what
\* it now holds in memory is true.
LEMMA OnlyJobMoves ==
    ASSUME IInv, NEW p \in Process, NEW j \in Job, Goto(p, j), JobOK(p)',
           UNCHANGED <<log, minted, known, segments, remote>>,
           blobs' \in [Machine -> SUBSET BlobName],
           \A m \in Machine : blobs[m] \subseteq blobs'[m],
           rblobs' \in SUBSET BlobName, rblobs \subseteq rblobs',
           fails' \in 0..MaxFails, forgets' \in 0..MaxForgets
    PROVE  IInv'
<1>1. Grows /\ RemoteOK' /\ LogsOK' /\ MintedOK' /\ SegmentsOK' /\ KnownIsRemote'
  BY Steady
<1>2. JobsOK' /\ job' \in [Process -> Job]
  BY <1>1, OneJobMoves
<1>3. TypeOK'
  <2>1. minted' \in SUBSET Op /\ known' \in [Machine -> SUBSET Ids]
    BY DEF IInv, TypeOK
  <2> QED
    BY <1>1, <1>2, <2>1, TypeStep
<1> QED
  BY <1>1, <1>2, <1>3 DEF IInv

\* The same where everything but the job and the bounds stays.
LEMMA OnlyJob ==
    ASSUME IInv, NEW p \in Process, NEW j \in Job, Goto(p, j), JobOK(p)',
           UNCHANGED <<store, remote, rblobs>>,
           fails' \in 0..MaxFails, forgets' \in 0..MaxForgets
    PROVE  IInv'
<1>1. /\ blobs' \in [Machine -> SUBSET BlobName]
      /\ \A m \in Machine : blobs[m] \subseteq blobs'[m]
      /\ rblobs' \in SUBSET BlobName /\ rblobs \subseteq rblobs'
  BY DEF IInv, TypeOK, store
<1> QED
  BY <1>1, OnlyJobMoves DEF store

LEMMA IdleFits ==
    ASSUME NEW p \in Process, job \in [Process -> Job], Goto(p, Idle)
    PROVE  Idle \in Job /\ JobOK(p)'
<1>1. job'[p] = Idle
  BY DEF Goto
<1> QED
  BY <1>1 DEF Job, Idle, JobOK

LEMMA BoundsStay ==
    ASSUME IInv, UNCHANGED bounds
    PROVE  fails' \in 0..MaxFails /\ forgets' \in 0..MaxForgets
  BY DEF IInv, TypeOK, bounds

----------------------------------------------------------------------------
(* The steps. *)

LEMMA RecordOpStep ==
    ASSUME IInv, NEW m \in Machine, RecordOp(m)
    PROVE  IInv'
<1>1. PICK op \in Op : Accept(m, op)
  BY DEF RecordOp
<1>2. UNCHANGED <<known, segments, remote, rblobs, job, bounds>>
  BY DEF RecordOp
<1>3. /\ LogsOK' /\ MintedOK'
      /\ minted' \in SUBSET Op /\ minted \subseteq minted'
      /\ blobs' \in [Machine -> SUBSET BlobName]
      /\ \A x \in Machine : blobs[x] \subseteq blobs'[x]
  BY <1>1, AcceptStep
<1>4. Grows /\ RemoteOK' /\ SegmentsOK' /\ KnownIsRemote'
  BY <1>2, <1>3, Steady
<1>5. JobsOK' /\ job' \in [Process -> Job]
  BY <1>2, <1>4, NoJobMoves
<1>6. TypeOK'
  <2>1. fails' \in 0..MaxFails /\ forgets' \in 0..MaxForgets
    BY <1>2, BoundsStay
  <2>2. known' \in [Machine -> SUBSET Ids] /\ rblobs' \in SUBSET BlobName
    BY <1>2 DEF IInv, TypeOK
  <2> QED
    BY <1>2, <1>3, <1>5, <2>1, <2>2, TypeStep
<1> QED
  BY <1>3, <1>4, <1>5, <1>6 DEF IInv

LEMMA StartSyncStep ==
    ASSUME IInv, NEW p \in Process, NEW goal \in {"pull", "push"}, StartSync(p, goal)
    PROVE  IInv'
<1> DEFINE j == [at |-> "fetch", goal |-> goal, todo |-> Unread(On[p])]
<1>1. Goto(p, j) /\ UNCHANGED <<store, remote, rblobs, bounds>>
  BY DEF StartSync
<1>2. job'[p] = j /\ UNCHANGED remote
  BY <1>1 DEF IInv, TypeOK, Goto
<1>3. Unread(On[p]) \subseteq DOMAIN remote
  BY DEF Unread
<1>4. j \in Job
  BY <1>3 DEF Job, IInv, TypeOK
<1>5. JobOK(p)'
  BY <1>2, <1>3 DEF JobOK
<1> QED
  BY <1>1, <1>4, <1>5, BoundsStay, OnlyJob

LEMMA FetchSegmentStep ==
    ASSUME IInv, NEW p \in Process, FetchSegment(p)
    PROVE  IInv'
<1>1. job[p] \in Job /\ job[p].at = "fetch" /\ JobOK(p)
  BY DEF IInv, TypeOK, JobsOK, FetchSegment
<1> DEFINE j(n) == [at |-> "note", goal |-> job[p].goal, todo |-> job[p].todo \ {n},
                    name |-> n, merged |-> HoldsAll(On[p], remote[n])]
<1>2. PICK n \in job[p].todo : Goto(p, j(n))
  BY DEF FetchSegment
<1>3. UNCHANGED <<store, remote, rblobs, bounds>>
  BY DEF FetchSegment
<1>4. /\ job[p].goal \in {"pull", "push"} /\ job[p].todo \in SUBSET Name
      /\ job[p].todo \subseteq DOMAIN remote
  BY <1>1, JobShapes DEF JobOK
<1>5. HoldsAll(On[p], remote[n]) \in BOOLEAN
  BY DEF HoldsAll
<1>6. j(n) \in Job
  BY <1>2, <1>4, <1>5 DEF Job
<1>7. job'[p] = j(n)
  BY <1>2 DEF Goto, IInv, TypeOK
<1>8. j(n).at = "note" /\ j(n).todo \subseteq DOMAIN remote /\ j(n).name = n
  BY <1>4
<1>9. JobOK(p)'
  BY <1>2, <1>3, <1>4, <1>7, <1>8 DEF JobOK, IsOnRemote
<1> QED
  BY <1>2, <1>3, <1>6, <1>9, BoundsStay, OnlyJob

\* A machine notes ids of operations the remote holds.
LEMMA NoteOnRemote ==
    ASSUME IInv, NEW m \in Machine, UNCHANGED remote,
           NEW ids \in SUBSET {o.id : o \in OpsIn(DOMAIN remote)},
           known' = [known EXCEPT ![m] = @ \cup ids]
    PROVE  KnownIsRemote' /\ known' \in [Machine -> SUBSET Ids]
<1> DEFINE there == {o.id : o \in OpsIn(DOMAIN remote)}
<1>1. there' = there
  BY DEF OpsIn
<1>2. known \in [Machine -> SUBSET Ids] /\ \A x \in Machine : known[x] \subseteq there
  BY DEF IInv, TypeOK, KnownIsRemote
<1>3. there \in SUBSET Ids
  BY DEF IInv, TypeOK, RemoteOK, OpsIn, Op
<1> HIDE DEF there
<1>4. known' \in [Machine -> SUBSET Ids] /\ \A x \in Machine : known'[x] \subseteq there
  BY <1>2, <1>3 DEF there
<1> QED
  BY <1>1, <1>4 DEF KnownIsRemote, there

LEMMA NoteFetchedStep ==
    ASSUME IInv, NEW p \in Process, NoteFetched(p)
    PROVE  IInv'
<1> DEFINE j == [job[p] EXCEPT !.at = "keep"]
<1>1. job[p] \in Job /\ job[p].at = "note" /\ JobOK(p) /\ On[p] \in Machine
  BY ProcessesRunSomewhere DEF IInv, TypeOK, JobsOK, NoteFetched
<1>2. /\ UNCHANGED <<log, blobs, segments, minted, remote, rblobs, bounds>>
      /\ Goto(p, j)
      /\ known' = [known EXCEPT ![On[p]] = @ \cup {o.id : o \in remote[job[p].name]}]
  BY DEF NoteFetched
<1>3. job[p] \in [at : {"note", "keep"}, goal : {"pull", "push"},
                  todo : SUBSET Name, name : Name, merged : BOOLEAN]
  BY <1>1, JobShapes
<1>4. /\ j \in Job /\ j.at = "keep"
      /\ j.todo = job[p].todo /\ j.name = job[p].name
  BY <1>3 DEF Job
<1>5. job'[p] = j
  BY <1>2 DEF Goto, IInv, TypeOK
<1>6. JobOK(p)'
  BY <1>1, <1>2, <1>4, <1>5 DEF JobOK, IsOnRemote
<1>7. Grows /\ RemoteOK' /\ LogsOK' /\ MintedOK' /\ SegmentsOK'
  BY <1>2, Steady
<1>8. JobsOK' /\ job' \in [Process -> Job]
  BY <1>2, <1>4, <1>6, <1>7, OneJobMoves
<1>9. {o.id : o \in remote[job[p].name]} \in SUBSET {o.id : o \in OpsIn(DOMAIN remote)}
  BY <1>1 DEF JobOK, IsOnRemote, OpsIn
<1>10. KnownIsRemote' /\ known' \in [Machine -> SUBSET Ids]
  BY <1>1, <1>2, <1>9, NoteOnRemote
<1>11. TypeOK'
  <2>1. /\ minted' \in SUBSET Op /\ blobs' \in [Machine -> SUBSET BlobName]
        /\ rblobs' \in SUBSET BlobName
    BY <1>2 DEF IInv, TypeOK
  <2> QED
    BY <1>2, <1>7, <1>8, <1>10, <2>1, BoundsStay, TypeStep
<1> QED
  BY <1>7, <1>8, <1>10, <1>11 DEF IInv
\* What a machine has read of the remote changes, and a job moves.
LEMMA SegmentsMove ==
    ASSUME IInv, NEW p \in Process, NEW j \in Job, Goto(p, j), JobOK(p)',
           NEW m \in Machine, NEW read, segments' = [segments EXCEPT ![m] = read],
           DOMAIN read \in SUBSET DOMAIN remote, \A n \in DOMAIN read : read[n] \in BOOLEAN,
           UNCHANGED <<log, blobs, minted, remote, rblobs>>,
           known' \in [Machine -> SUBSET Ids], KnownIsRemote',
           fails' \in 0..MaxFails, forgets' \in 0..MaxForgets
    PROVE  IInv'
<1>1. Grows /\ RemoteOK' /\ LogsOK' /\ MintedOK'
  BY Steady
<1>2. JobsOK' /\ job' \in [Process -> Job]
  BY <1>1, OneJobMoves
<1>3. segments = [x \in Machine |-> segments[x]]
  BY DEF IInv, SegmentsOK
<1>4. /\ segments' = [x \in Machine |-> segments'[x]]
      /\ segments'[m] = read
      /\ \A x \in Machine : x # m => segments'[x] = segments[x]
  BY <1>3
<1>5. SegmentsOK'
  BY <1>4 DEF IInv, SegmentsOK
<1>6. DOMAIN read \in SUBSET Name
  BY DEF IInv, TypeOK
<1>7. \A x \in Machine : /\ DOMAIN segments'[x] \subseteq Name
                         /\ \A n \in DOMAIN segments'[x] : segments'[x][n] \in BOOLEAN
  BY <1>4, <1>6 DEF IInv, TypeOK
<1>8. \A x \in Machine : log'[x].rows \in SUBSET Row /\ log'[x].seq \in Nat
  BY <1>1 DEF LogsOK, WellFormed
<1>9. TypeOK'
  BY <1>2, <1>7, <1>8 DEF IInv, TypeOK
<1> QED
  BY <1>1, <1>2, <1>5, <1>9 DEF IInv

LEMMA KeepFetchedStep ==
    ASSUME IInv, NEW p \in Process, KeepFetched(p)
    PROVE  IInv'
<1> DEFINE j == [at |-> "fetch", goal |-> job[p].goal, todo |-> job[p].todo]
           m == On[p]
           read == [n \in DOMAIN segments[m] \cup {job[p].name} |->
                       IF n \in DOMAIN segments[m] THEN segments[m][n] ELSE job[p].merged]
<1>1. job[p] \in Job /\ job[p].at = "keep" /\ JobOK(p) /\ m \in Machine
  BY ProcessesRunSomewhere DEF IInv, TypeOK, JobsOK, KeepFetched
<1>2. /\ UNCHANGED <<log, blobs, known, minted, remote, rblobs, bounds>>
      /\ Goto(p, j)
      /\ segments' = [segments EXCEPT ![m] = read]
  BY <1>1 DEF KeepFetched, IInv, SegmentsOK
<1>3. job[p] \in [at : {"note", "keep"}, goal : {"pull", "push"},
                  todo : SUBSET Name, name : Name, merged : BOOLEAN]
  BY <1>1, JobShapes
<1>4. j \in Job
  BY <1>3 DEF Job
<1>5. job'[p] = j
  BY <1>2 DEF Goto, IInv, TypeOK
<1>6. JobOK(p)'
  BY <1>1, <1>2, <1>5 DEF JobOK
<1>7. DOMAIN read \in SUBSET DOMAIN remote /\ \A n \in DOMAIN read : read[n] \in BOOLEAN
  BY <1>1, <1>3 DEF IInv, TypeOK, SegmentsOK, JobOK, IsOnRemote
<1>8. known' \in [Machine -> SUBSET Ids] /\ KnownIsRemote'
  BY <1>2, Steady DEF IInv, TypeOK
<1> HIDE DEF j, read
<1> QED
  BY <1>1, <1>2, <1>4, <1>6, <1>7, <1>8, BoundsStay, SegmentsMove

\* The blobs of segments on the remote have names of blobs.
LEMMA RemoteBlobNames ==
    ASSUME IInv, NEW names \in SUBSET DOMAIN remote
    PROVE  /\ OpsIn(names) \in SUBSET minted
           /\ OpsIn(names) \in SUBSET Op
           /\ BlobsOf(OpsIn(names)) \in SUBSET BlobName
           /\ \A o \in OpsIn(names) : o.kind # "forget"
<1>1. OpsIn(names) \in SUBSET minted /\ \A o \in OpsIn(names) : o.kind # "forget"
  BY DEF IInv, RemoteOK, OpsIn
<1>2. OpsIn(names) \in SUBSET Op
  BY <1>1 DEF IInv, TypeOK
<1> QED
  BY <1>1, <1>2 DEF BlobsOf, BlobOf, BlobName, Op

LEMMA SelectUnappliedStep ==
    ASSUME IInv, NEW p \in Process, SelectUnapplied(p)
    PROVE  IInv'
<1> DEFINE m == On[p]
           names == Unapplied(m)
           needed == BlobsOf(OpsIn(names)) \ blobs[m]
<1>1. m \in Machine /\ blobs \in [Machine -> SUBSET BlobName]
  BY ProcessesRunSomewhere DEF IInv, TypeOK
<1>2. /\ UNCHANGED <<log, known, segments, minted, remote, rblobs, bounds>>
      /\ Goto(p, MergeJob(names))
      /\ blobs' = [blobs EXCEPT ![m] = @ \cup needed]
  BY DEF SelectUnapplied
<1>3. names \in SUBSET DOMAIN remote /\ names \in SUBSET Name
  BY <1>1 DEF IInv, TypeOK, SegmentsOK, Unapplied
<1>4. BlobsOf(OpsIn(names)) \in SUBSET BlobName
  BY <1>3, RemoteBlobNames
<1>5. /\ blobs' \in [Machine -> SUBSET BlobName]
      /\ \A x \in Machine : blobs[x] \subseteq blobs'[x]
      /\ BlobsOf(OpsIn(names)) \subseteq blobs'[m]
  BY <1>1, <1>2, <1>4
<1>6. job' = [job EXCEPT ![p] = MergeJob(names)] /\ job'[p] = MergeJob(names)
  BY <1>2 DEF Goto, IInv, TypeOK
<1>7. MergeJob(names) \in Job /\ JobOK(p)'
  <2>1. CASE names = {}
    BY <2>1, <1>2, IdleFits DEF MergeJob, IInv, TypeOK
  <2>2. CASE names # {}
    <3> DEFINE j == [at |-> "merge", names |-> names]
    <3>1. MergeJob(names) = j /\ j \in Job
      BY <2>2, <1>3 DEF MergeJob, Job, Some
    <3>2. PICK S : S = names
      OBVIOUS
    <3> HIDE DEF names
    <3>3. job'[p].at = "merge" /\ job'[p].names = S
      BY <3>1, <3>2, <1>6
    <3>4. OpsIn(job[p].names)' = OpsIn(S)
      BY <3>3, <1>2 DEF OpsIn
    <3> QED
      BY <3>1, <3>2, <3>3, <3>4, <1>2, <1>3, <1>5 DEF JobOK
  <2> QED
    BY <2>1, <2>2
<1>8. rblobs' \in SUBSET BlobName /\ rblobs \subseteq rblobs'
  BY <1>2 DEF IInv, TypeOK
<1> HIDE DEF names, needed
<1> QED
  BY <1>2, <1>5, <1>7, <1>8, BoundsStay, OnlyJobMoves

LEMMA MergeSegmentsStep ==
    ASSUME IInv, NEW p \in Process, MergeSegments(p)
    PROVE  IInv'
<1> DEFINE m == On[p]
           ops == OpsIn(job[p].names)
           j == [job[p] EXCEPT !.at = "mark"]
<1>1. job[p] \in Job /\ job[p].at = "merge" /\ JobOK(p) /\ m \in Machine
  BY ProcessesRunSomewhere DEF IInv, TypeOK, JobsOK, MergeSegments
<1>2. /\ UNCHANGED <<blobs, known, segments, minted, remote, rblobs, bounds>>
      /\ Goto(p, j)
      /\ log' = [log EXCEPT ![m] = Record(@, ops)]
  BY DEF MergeSegments
<1>3. job[p] \in [at : {"merge", "mark"}, names : Some(Name)]
  BY <1>1, JobShapes
<1>4. j \in Job /\ j.at = "mark" /\ j.names = job[p].names
  BY <1>3 DEF Job
<1>5. job'[p] = j
  BY <1>2 DEF Goto, IInv, TypeOK
<1>6. job[p].names \in SUBSET DOMAIN remote /\ BlobsOf(ops) \subseteq blobs[m]
  BY <1>1 DEF JobOK
<1>7. JobOK(p)'
  BY <1>2, <1>4, <1>5, <1>6 DEF JobOK
<1>8. Grows /\ RemoteOK' /\ SegmentsOK' /\ KnownIsRemote'
  BY <1>2, Steady
<1>9. JobsOK' /\ job' \in [Process -> Job]
  BY <1>2, <1>4, <1>7, <1>8, OneJobMoves
<1>10. ops \in SUBSET minted
  BY <1>6, RemoteBlobNames
<1>11. LogsOK'
  BY <1>1, <1>2, <1>6, <1>10, ArrivingBatch, RecordInLog
<1>12. MintedOK'
  BY <1>2 DEF IInv, MintedOK
<1>13. TypeOK'
  <2>1. /\ minted' \in SUBSET Op /\ blobs' \in [Machine -> SUBSET BlobName]
        /\ known' \in [Machine -> SUBSET Ids] /\ rblobs' \in SUBSET BlobName
    BY <1>2 DEF IInv, TypeOK
  <2> QED
    BY <1>2, <1>9, <1>11, <2>1, BoundsStay, TypeStep
<1> QED
  BY <1>8, <1>9, <1>11, <1>12, <1>13 DEF IInv

LEMMA MarkAppliedStep ==
    ASSUME IInv, NEW p \in Process, MarkApplied(p)
    PROVE  IInv'
<1> DEFINE m == On[p]
<1>1. job[p] \in Job /\ job[p].at = "mark" /\ JobOK(p) /\ m \in Machine
  BY ProcessesRunSomewhere DEF IInv, TypeOK, JobsOK, MarkApplied
<1> DEFINE read(n) == [s \in DOMAIN segments[m] |-> s = n \/ segments[m][s]]
           j(n) == IF job[p].names = {n} THEN Idle
                   ELSE [job[p] EXCEPT !.names = @ \ {n}]
<1>2. PICK n \in job[p].names :
        segments' = [segments EXCEPT ![m] = read(n)] /\ Goto(p, j(n))
  BY <1>1 DEF MarkApplied, IInv, SegmentsOK
<1>3. UNCHANGED <<log, blobs, known, minted, remote, rblobs, bounds>>
  BY DEF MarkApplied
<1>4. job[p] \in [at : {"merge", "mark"}, names : Some(Name)]
  BY <1>1, JobShapes
<1>5. job'[p] = j(n)
  BY <1>2 DEF Goto, IInv, TypeOK
<1>6. j(n) \in Job /\ JobOK(p)'
  <2>1. CASE job[p].names = {n}
    BY <2>1, <1>2, IdleFits DEF IInv, TypeOK
  <2>2. CASE job[p].names # {n}
    <3>1. j(n) = [job[p] EXCEPT !.names = @ \ {n}]
      BY <2>2
    <3>2. j(n).at = "mark" /\ j(n).names = job[p].names \ {n}
      BY <3>1, <1>1, <1>4
    <3>3. job[p].names \ {n} \in Some(Name)
      BY <2>2, <1>2, <1>4 DEF Some
    <3>4. j(n) \in Job
      BY <3>1, <3>3, <1>4 DEF Job
    <3>5. JobOK(p)'
      BY <3>2, <1>1, <1>3, <1>5 DEF JobOK
    <3> QED
      BY <3>4, <3>5
  <2> QED
    BY <2>1, <2>2
<1>7. DOMAIN read(n) \in SUBSET DOMAIN remote /\ \A s \in DOMAIN read(n) : read(n)[s] \in BOOLEAN
  BY <1>1 DEF IInv, TypeOK, SegmentsOK
<1>8. known' \in [Machine -> SUBSET Ids] /\ KnownIsRemote'
  BY <1>3, Steady DEF IInv, TypeOK
<1> HIDE DEF j, read
<1> QED
  BY <1>1, <1>2, <1>3, <1>6, <1>7, <1>8, BoundsStay, SegmentsMove
LEMMA CollectToPushStep ==
    ASSUME IInv, NEW p \in Process, CollectToPush(p)
    PROVE  IInv'
<1> DEFINE m == On[p]
           ops == ToPush(m)
           put == [at |-> "put", ops |-> ops, blobs |-> BlobsOf(ops) \ rblobs,
                   firsts |-> FirstIds(ops)]
           j == IF ops = {} THEN Idle ELSE put
<1>1. Goto(p, j) /\ UNCHANGED <<store, remote, rblobs, bounds>> /\ m \in Machine
  BY ProcessesRunSomewhere DEF CollectToPush
<1>2. UNCHANGED <<minted, remote, rblobs>>
  BY <1>1 DEF store
<1>3. Pushable(ops)
  BY <1>1 DEF Pushable, ToPush, LiveOps, Live, OpOf, IInv, LogsOK
<1>4. ops \in SUBSET Op /\ IsFiniteSet(ops) /\ OneIdEach(ops)
  BY <1>3, FS_Subset DEF Pushable, IInv, TypeOK, MintedOK, OneIdEach
<1>5. BlobsOf(ops) \in SUBSET BlobName
  BY <1>4 DEF BlobsOf, BlobOf, BlobName, Op
<1>6. job'[p] = j
  BY <1>1 DEF Goto, IInv, TypeOK
<1>7. j \in Job /\ JobOK(p)'
  <2>1. CASE ops = {}
    BY <2>1, <1>1, IdleFits DEF IInv, TypeOK
  <2>2. CASE ops # {}
    <3>1. j = put
      BY <2>2
    <3>2. put \in Job
      BY <2>2, <1>4, <1>5, SomeFirst DEF Job, Some
    <3>3. PICK S, F : S = ops /\ F = FirstIds(ops)
      OBVIOUS
    <3>4. /\ job'[p].at = "put" /\ job'[p].ops = S /\ job'[p].firsts = F
          /\ job'[p].blobs = BlobsOf(S) \ rblobs
      BY <3>1, <3>3, <1>6
    <3> HIDE DEF ops
    <3>5. PutSoFar(p, job[p].ops, job[p].firsts)'
      BY <3>3, <3>4 DEF PutSoFar
    <3>6. Pushable(job[p].ops)'
      BY <3>3, <3>4, <1>2, <1>3 DEF Pushable
    <3>7. JobOK(p)'
      BY <3>3, <3>4, <3>5, <3>6, <1>2 DEF JobOK
    <3> QED
      BY <3>1, <3>2, <3>7
  <2> QED
    BY <2>1, <2>2
<1> HIDE DEF j
<1> QED
  BY <1>1, <1>7, BoundsStay, OnlyJob

LEMMA PutBlobStep ==
    ASSUME IInv, NEW p \in Process, PutBlob(p)
    PROVE  IInv'
<1> DEFINE j(b) == [job[p] EXCEPT !.blobs = @ \ {b}]
<1>1. job[p] \in Job /\ job[p].at = "put" /\ JobOK(p)
  BY DEF IInv, TypeOK, JobsOK, PutBlob
<1>2. PICK b \in job[p].blobs : rblobs' = rblobs \cup {b} /\ Goto(p, j(b))
  BY DEF PutBlob
<1>3. UNCHANGED <<log, blobs, known, segments, minted, remote, bounds>>
  BY DEF PutBlob, store
<1>4. job[p] \in [at : {"put"}, ops : Some(Op), blobs : SUBSET BlobName, firsts : Some(Ids)]
  BY <1>1, JobShapes
<1>5. j(b) \in Job
  BY <1>4 DEF Job
<1>6. /\ job'[p].at = "put" /\ job'[p].ops = job[p].ops /\ job'[p].firsts = job[p].firsts
      /\ job'[p].blobs = job[p].blobs \ {b}
  BY <1>2, <1>4 DEF Goto, IInv, TypeOK
<1>7. JobOK(p)'
  <2>1. PutSoFar(p, job[p].ops, job[p].firsts)' /\ Pushable(job[p].ops)'
    BY <1>1, <1>3, <1>6 DEF JobOK, PutSoFar, Pushable, IsOnRemote
  <2>2. BlobsOf(job[p].ops) \subseteq rblobs' \cup job'[p].blobs
    BY <1>1, <1>2, <1>6 DEF JobOK
  <2> QED
    BY <2>1, <2>2, <1>1, <1>6 DEF JobOK
<1>8. /\ rblobs' \in SUBSET BlobName /\ rblobs \subseteq rblobs'
      /\ blobs' \in [Machine -> SUBSET BlobName]
      /\ \A m \in Machine : blobs[m] \subseteq blobs'[m]
  BY <1>2, <1>3, <1>4 DEF IInv, TypeOK
<1> HIDE DEF j
<1> QED
  BY <1>2, <1>3, <1>5, <1>7, <1>8, BoundsStay, OnlyJobMoves

\* What creating a segment does to the remote.
LEMMA SegmentIsPut ==
    ASSUME IInv, NEW p \in Process, PutSegment(p)
    PROVE  \E i \in job[p].firsts :
            /\ i \in FirstIds(job[p].ops)
            /\ Grows
            /\ DOMAIN remote' = DOMAIN remote \cup {ObjectName(p, i)}
            /\ remote'[ObjectName(p, i)] = SegmentAt(job[p].ops, i)
            /\ \A k \in job[p].firsts : i <= k
            /\ Goto(p, IF job[p].firsts = {i} THEN [at |-> "known", ops |-> job[p].ops]
                       ELSE [job[p] EXCEPT !.firsts = @ \ {i}])
            /\ job[p].at = "put" /\ job[p].blobs = {}
            /\ UNCHANGED <<log, blobs, known, segments, minted, rblobs, bounds>>
<1>1. PICK i \in Ids :
        /\ NextSegment(p, i)
        /\ ~ObjectExists(p, i)
        /\ remote' = [n \in DOMAIN remote \cup {ObjectName(p, i)} |->
                         IF n \in DOMAIN remote THEN remote[n]
                         ELSE SegmentAt(job[p].ops, i)]
        /\ Goto(p, IF job[p].firsts = {i} THEN [at |-> "known", ops |-> job[p].ops]
                   ELSE [job[p] EXCEPT !.firsts = @ \ {i}])
  BY DEF PutSegment
<1>2. UNCHANGED <<log, blobs, known, segments, minted, rblobs, bounds>>
  BY DEF PutSegment, store
<1>3. /\ i \in job[p].firsts /\ job[p].at = "put" /\ job[p].blobs = {}
      /\ \A k \in job[p].firsts : i <= k
  BY <1>1 DEF NextSegment
<1>4. i \in FirstIds(job[p].ops)
  BY <1>3 DEF IInv, JobsOK, JobOK
<1>5. /\ DOMAIN remote' = DOMAIN remote \cup {ObjectName(p, i)}
      /\ \A n \in DOMAIN remote : remote'[n] = remote[n]
      /\ remote'[ObjectName(p, i)] = SegmentAt(job[p].ops, i)
  BY <1>1 DEF ObjectExists
<1>6. Grows
  BY <1>2, <1>5 DEF Grows
<1> QED
  BY <1>1, <1>2, <1>3, <1>4, <1>5, <1>6

LEMMA PutSegmentStep ==
    ASSUME IInv, NEW p \in Process, PutSegment(p)
    PROVE  IInv'
<1> DEFINE ops == job[p].ops
           j(i) == IF job[p].firsts = {i} THEN [at |-> "known", ops |-> ops]
                   ELSE [job[p] EXCEPT !.firsts = @ \ {i}]
<1>1. PICK i \in job[p].firsts :
        /\ i \in FirstIds(ops)
        /\ Grows
        /\ DOMAIN remote' = DOMAIN remote \cup {ObjectName(p, i)}
        /\ remote'[ObjectName(p, i)] = SegmentAt(ops, i)
        /\ Goto(p, j(i))
        /\ job[p].at = "put" /\ job[p].blobs = {}
        /\ UNCHANGED <<log, blobs, known, segments, minted, rblobs, bounds>>
  BY SegmentIsPut
<1>2. job[p] \in Job /\ JobOK(p) /\ On[p] \in Machine
  BY ProcessesRunSomewhere DEF IInv, TypeOK, JobsOK
<1>3. job[p] \in [at : {"put"}, ops : Some(Op), blobs : SUBSET BlobName, firsts : Some(Ids)]
  BY <1>1, <1>2, JobShapes
<1>4. /\ Pushable(ops) /\ job[p].firsts \subseteq FirstIds(ops)
      /\ BlobsOf(ops) \subseteq rblobs
      /\ PutSoFar(p, ops, job[p].firsts)
  BY <1>1, <1>2 DEF JobOK
<1>5. ops \in SUBSET Op /\ SegmentAt(ops, i) \in SUBSET ops /\ SegmentAt(ops, i) \in Some(Op)
  <2>1. ops \in SUBSET Op
    BY <1>3 DEF Some
  <2> QED
    BY <2>1, <1>1, SegmentIsSome DEF Some
<1>7. \A k \in FirstIds(ops) \ (job[p].firsts \ {i}) :
        /\ ObjectName(p, k) \in DOMAIN remote'
        /\ remote'[ObjectName(p, k)] = SegmentAt(ops, k)
  BY <1>1, <1>4 DEF PutSoFar, IsOnRemote, Grows
<1>8. job'[p] = j(i)
  BY <1>1 DEF Goto, IInv, TypeOK
<1>9. j(i) \in Job /\ JobOK(p)'
  <2>1. CASE job[p].firsts = {i}
    <3>1. j(i) \in Job /\ job'[p].at = "known" /\ job'[p].ops = ops
      BY <2>1, <1>3, <1>8 DEF Job
    <3>2. PutSoFar(p, job[p].ops, {})'
      BY <2>1, <3>1, <1>7 DEF PutSoFar, IsOnRemote
    <3>3. Pushable(job[p].ops)'
      BY <3>1, <1>1, <1>4 DEF Pushable
    <3> QED
      BY <3>1, <3>2, <3>3 DEF JobOK
  <2>2. CASE job[p].firsts # {i}
    <3>1. j(i) = [job[p] EXCEPT !.firsts = @ \ {i}]
      BY <2>2
    <3>2. /\ job'[p].at = "put" /\ job'[p].ops = ops /\ job'[p].blobs = job[p].blobs
          /\ job'[p].firsts = job[p].firsts \ {i}
      BY <3>1, <1>1, <1>3, <1>8
    <3>3. job[p].firsts \ {i} \in Some(Ids)
      BY <2>2, <1>1, <1>3 DEF Some
    <3>4. j(i) \in Job
      BY <3>1, <3>3, <1>3 DEF Job
    <3>5. PutSoFar(p, job[p].ops, job[p].firsts)'
      BY <3>2, <1>7 DEF PutSoFar, IsOnRemote
    <3>6. Pushable(job[p].ops)'
      BY <3>2, <1>1, <1>4 DEF Pushable
    <3>7. JobOK(p)'
      BY <3>2, <3>5, <3>6, <1>1, <1>4 DEF JobOK
    <3> QED
      BY <3>4, <3>7
  <2> QED
    BY <2>1, <2>2
<1>10. JobsOK' /\ job' \in [Process -> Job]
  BY <1>1, <1>9, OneJobMoves
<1>11. ASSUME NEW n \in DOMAIN remote'
      PROVE  \/ n \in DOMAIN remote /\ remote'[n] = remote[n]
             \/ n = ObjectName(p, i) /\ remote'[n] = SegmentAt(ops, i)
  BY <1>1 DEF Grows
<1>12. RemoteOK'
  <2>1. \A n \in DOMAIN remote' :
          remote'[n] \in SUBSET minted' /\ \A o \in remote'[n] : o.kind # "forget"
    BY <1>1, <1>4, <1>5, <1>11 DEF IInv, RemoteOK, Pushable
  <2>2. ASSUME NEW o \in OpsIn(DOMAIN remote)' PROVE o \in OpsIn(DOMAIN remote) \cup ops
    <3>1. PICK n \in DOMAIN remote' : o \in remote'[n]
      BY DEF OpsIn
    <3> QED
      BY <3>1, <1>5, <1>11 DEF OpsIn
  <2>3. BlobsOf(OpsIn(DOMAIN remote)') \subseteq rblobs
    BY <2>2, <1>4 DEF BlobsOf, IInv, RemoteOK
  <2> QED
    BY <2>1, <2>3, <1>1 DEF RemoteOK
<1>13. LogsOK' /\ MintedOK' /\ SegmentsOK'
  BY <1>1 DEF IInv, LogsOK, MintedOK, SegmentsOK, Grows
<1>14. KnownIsRemote'
  <2>1. OpsIn(DOMAIN remote) \subseteq OpsIn(DOMAIN remote)'
    BY <1>1 DEF OpsIn, Grows
  <2> QED
    BY <2>1, <1>1 DEF IInv, KnownIsRemote
<1>15. TypeOK'
  <2>1. ObjectName(p, i) \in Name
    BY <1>2, <1>3, <1>1 DEF ObjectName, Name, Some
  <2>2. DOMAIN remote' \subseteq Name /\ \A n \in DOMAIN remote' : remote'[n] \in Some(Op)
    BY <2>1, <1>1, <1>5, <1>11 DEF IInv, TypeOK
  <2> QED
    BY <2>2, <1>1, <1>10, BoundsStay DEF IInv, TypeOK
<1> QED
  BY <1>10, <1>12, <1>13, <1>14, <1>15 DEF IInv
LEMMA NotePushedStep ==
    ASSUME IInv, NEW p \in Process, NotePushed(p)
    PROVE  IInv'
<1> DEFINE ops == job[p].ops
           ids == {o.id : o \in ops}
           j == [at |-> "record", firsts |-> FirstIds(ops)]
<1>1. job[p] \in Job /\ job[p].at = "known" /\ JobOK(p) /\ On[p] \in Machine
  BY ProcessesRunSomewhere DEF IInv, TypeOK, JobsOK, NotePushed
<1>2. /\ UNCHANGED <<log, blobs, segments, minted, remote, rblobs, bounds>>
      /\ Goto(p, j)
      /\ known' = [known EXCEPT ![On[p]] = @ \cup ids]
  BY DEF NotePushed
<1>3. ops \in Some(Op)
  BY <1>1, JobShapes
<1>4. Pushable(ops) /\ PutSoFar(p, ops, {})
  BY <1>1 DEF JobOK
<1>5. ops \in SUBSET Op /\ ops # {} /\ IsFiniteSet(ops) /\ OneIdEach(ops)
  BY <1>3, <1>4, FS_Subset DEF Some, Pushable, IInv, MintedOK, OneIdEach
<1>6. FirstIds(ops) \in Some(Ids)
  BY <1>5, SomeFirst DEF Some
<1>7. job'[p] = j /\ j \in Job
  BY <1>2, <1>6 DEF Goto, IInv, TypeOK, Job
<1>8. \A i \in FirstIds(ops) : /\ ObjectName(p, i) \in DOMAIN remote
                               /\ remote[ObjectName(p, i)] = SegmentAt(ops, i)
  BY <1>4 DEF PutSoFar, IsOnRemote
<1>9. JobOK(p)'
  <2>1. PICK F : F = FirstIds(ops)
    OBVIOUS
  <2>2. job'[p].at = "record" /\ job'[p].firsts = F
    BY <2>1, <1>7
  <2> QED
    BY <2>1, <2>2, <1>2, <1>8 DEF JobOK, IsOnRemote
<1>10. Grows /\ RemoteOK' /\ LogsOK' /\ MintedOK' /\ SegmentsOK'
  BY <1>2, Steady
<1>11. JobsOK' /\ job' \in [Process -> Job]
  BY <1>2, <1>7, <1>9, <1>10, OneJobMoves
<1>12. ASSUME NEW o \in ops PROVE o \in OpsIn(DOMAIN remote)
  <2>1. PICK i \in FirstIds(ops) : o \in SegmentAt(ops, i)
    BY <1>5, SegmentsCover
  <2> QED
    BY <2>1, <1>8 DEF OpsIn
<1>13. KnownIsRemote' /\ known' \in [Machine -> SUBSET Ids]
  <2>1. ids \in SUBSET {o.id : o \in OpsIn(DOMAIN remote)}
    BY <1>12
  <2> HIDE DEF ids
  <2> QED
    BY <2>1, <1>1, <1>2, NoteOnRemote
<1>14. TypeOK'
  <2>1. /\ minted' \in SUBSET Op /\ blobs' \in [Machine -> SUBSET BlobName]
        /\ rblobs' \in SUBSET BlobName
    BY <1>2 DEF IInv, TypeOK
  <2> QED
    BY <1>2, <1>10, <1>11, <1>13, <2>1, BoundsStay, TypeStep
<1> QED
  BY <1>10, <1>11, <1>13, <1>14 DEF IInv

LEMMA KeepPushedStep ==
    ASSUME IInv, NEW p \in Process, KeepPushed(p)
    PROVE  IInv'
<1> DEFINE m == On[p]
           read(i) == [n \in DOMAIN segments[m] \cup {ObjectName(p, i)} |->
                          n = ObjectName(p, i) \/ segments[m][n]]
           j(i) == IF job[p].firsts = {i} THEN Idle
                   ELSE [job[p] EXCEPT !.firsts = @ \ {i}]
<1>1. job[p] \in Job /\ job[p].at = "record" /\ JobOK(p) /\ m \in Machine
  BY ProcessesRunSomewhere DEF IInv, TypeOK, JobsOK, KeepPushed
<1>2. PICK i \in job[p].firsts :
        segments' = [segments EXCEPT ![m] = read(i)] /\ Goto(p, j(i))
  BY <1>1 DEF KeepPushed, IInv, SegmentsOK
<1>3. UNCHANGED <<log, blobs, known, minted, remote, rblobs, bounds>>
  BY DEF KeepPushed
<1>4. job[p] \in [at : {"record"}, firsts : Some(Ids)]
  BY <1>1, JobShapes
<1>5. job'[p] = j(i)
  BY <1>2 DEF Goto, IInv, TypeOK
<1>6. j(i) \in Job /\ JobOK(p)'
  <2>1. CASE job[p].firsts = {i}
    BY <2>1, <1>2, IdleFits DEF IInv, TypeOK
  <2>2. CASE job[p].firsts # {i}
    <3>1. j(i) = [job[p] EXCEPT !.firsts = @ \ {i}]
      BY <2>2
    <3>2. j(i).at = "record" /\ j(i).firsts = job[p].firsts \ {i}
      BY <3>1, <1>1, <1>4
    <3>3. job[p].firsts \ {i} \in Some(Ids)
      BY <2>2, <1>2, <1>4 DEF Some
    <3>4. j(i) \in Job
      BY <3>1, <3>3, <1>4 DEF Job
    <3>5. JobOK(p)'
      BY <3>2, <1>1, <1>3, <1>5 DEF JobOK, IsOnRemote
    <3> QED
      BY <3>4, <3>5
  <2> QED
    BY <2>1, <2>2
<1>7. ObjectName(p, i) \in DOMAIN remote
  BY <1>1, <1>2 DEF JobOK, IsOnRemote
<1>8. DOMAIN read(i) \in SUBSET DOMAIN remote /\ \A n \in DOMAIN read(i) : read(i)[n] \in BOOLEAN
  <2>1. DOMAIN segments[m] \in SUBSET DOMAIN remote /\ \A n \in DOMAIN segments[m] : segments[m][n] \in BOOLEAN
    BY <1>1 DEF IInv, TypeOK, SegmentsOK
  <2> QED
    BY <2>1, <1>7
<1>9. known' \in [Machine -> SUBSET Ids] /\ KnownIsRemote'
  BY <1>3, Steady DEF IInv, TypeOK
<1> HIDE DEF j, read
<1> QED
  BY <1>1, <1>2, <1>3, <1>6, <1>8, <1>9, BoundsStay, SegmentsMove

LEMMA PutRefusedStep ==
    ASSUME IInv, NEW p \in Process, PutRefused(p)
    PROVE  IInv'
<1>1. Goto(p, Idle) /\ UNCHANGED <<store, remote, rblobs, bounds>>
  BY DEF PutRefused
<1>2. Idle \in Job /\ JobOK(p)'
  BY <1>1, IdleFits DEF IInv, TypeOK
<1> QED
  BY <1>1, <1>2, BoundsStay, OnlyJob

LEMMA FailStep ==
    ASSUME IInv, NEW p \in Process, Fail(p)
    PROVE  IInv'
<1>1. Goto(p, Idle) /\ UNCHANGED <<store, remote, rblobs>>
  BY DEF Fail
<1>2. Idle \in Job /\ JobOK(p)'
  BY <1>1, IdleFits DEF IInv, TypeOK
<1>3. fails' \in 0..MaxFails /\ forgets' \in 0..MaxForgets
  BY BoundsAreNumbers DEF Fail, IInv, TypeOK
<1> QED
  BY <1>1, <1>2, <1>3, OnlyJob

LEMMA ForgetSyncStateStep ==
    ASSUME IInv, NEW p \in Process, ForgetSyncState(p)
    PROVE  IInv'
<1> DEFINE m == On[p]
           j == [at |-> "forget"]
<1>1. /\ known' = [known EXCEPT ![m] = {}]
      /\ segments' = [segments EXCEPT ![m] = <<>>]
      /\ Goto(p, j)
      /\ UNCHANGED <<log, blobs, minted, remote, rblobs, fails>>
      /\ forgets < MaxForgets /\ forgets' = forgets + 1
  BY DEF ForgetSyncState
<1>2. m \in Machine
  BY ProcessesRunSomewhere
<1>3. j \in Job /\ JobOK(p)'
  <2>1. job'[p] = j
    BY <1>1 DEF Goto, IInv, TypeOK
  <2> QED
    BY <2>1 DEF Job, JobOK
<1>4. fails' \in 0..MaxFails /\ forgets' \in 0..MaxForgets
  BY <1>1, BoundsAreNumbers DEF IInv, TypeOK
<1>5. known' \in [Machine -> SUBSET Ids] /\ KnownIsRemote'
  <2>1. known \in [Machine -> SUBSET Ids]
    BY DEF IInv, TypeOK
  <2>2. \A x \in Machine : known'[x] = {} \/ known'[x] = known[x]
    BY <2>1, <1>1
  <2>3. OpsIn(DOMAIN remote)' = OpsIn(DOMAIN remote)
    BY <1>1 DEF OpsIn
  <2> QED
    BY <2>1, <2>2, <2>3, <1>1 DEF IInv, KnownIsRemote
<1>6. DOMAIN <<>> \in SUBSET DOMAIN remote /\ \A n \in DOMAIN <<>> : <<>>[n] \in BOOLEAN
  OBVIOUS
<1> HIDE DEF j
<1> QED
  BY <1>1, <1>2, <1>3, <1>4, <1>5, <1>6, SegmentsMove

LEMMA RecordForgetStep ==
    ASSUME IInv, NEW p \in Process, RecordForget(p)
    PROVE  IInv'
<1>1. PICK op \in Op : Accept(On[p], op)
  BY DEF RecordForget
<1>2. Goto(p, Idle) /\ UNCHANGED <<known, segments, remote, rblobs, bounds>>
  BY DEF RecordForget
<1>3. /\ LogsOK' /\ MintedOK'
      /\ minted' \in SUBSET Op /\ minted \subseteq minted'
      /\ blobs' \in [Machine -> SUBSET BlobName]
      /\ \A x \in Machine : blobs[x] \subseteq blobs'[x]
  BY <1>1, ProcessesRunSomewhere, AcceptStep
<1>4. Grows /\ RemoteOK' /\ SegmentsOK' /\ KnownIsRemote'
  BY <1>2, <1>3, Steady
<1>5. Idle \in Job /\ JobOK(p)'
  BY <1>2, IdleFits DEF IInv, TypeOK
<1>6. JobsOK' /\ job' \in [Process -> Job]
  BY <1>2, <1>4, <1>5, OneJobMoves
<1>7. TypeOK'
  <2>1. known' \in [Machine -> SUBSET Ids] /\ rblobs' \in SUBSET BlobName
    BY <1>2 DEF IInv, TypeOK
  <2> QED
    BY <1>2, <1>3, <1>6, <2>1, BoundsStay, TypeStep
<1> QED
  BY <1>3, <1>4, <1>6, <1>7 DEF IInv

LEMMA NextInv == IInv /\ [Next]_vars => IInv'
<1> SUFFICES ASSUME IInv, [Next]_vars PROVE IInv'
  OBVIOUS
<1>1. ASSUME NEW m \in Machine, RecordOp(m) PROVE IInv'
  BY <1>1, RecordOpStep
<1>2. ASSUME NEW p \in Process, NEW goal \in {"pull", "push"}, StartSync(p, goal) PROVE IInv'
  BY <1>2, StartSyncStep
<1>3. ASSUME NEW p \in Process, FetchStep(p) PROVE IInv'
  BY <1>3, FetchSegmentStep, NoteFetchedStep, KeepFetchedStep DEF FetchStep
<1>4. ASSUME NEW p \in Process, PullStep(p) PROVE IInv'
  BY <1>4, SelectUnappliedStep, MergeSegmentsStep, MarkAppliedStep DEF PullStep
<1>5. ASSUME NEW p \in Process, PushStep(p) PROVE IInv'
  BY <1>5, CollectToPushStep, PutBlobStep, PutSegmentStep, PutRefusedStep,
     NotePushedStep, KeepPushedStep DEF PushStep
<1>6. ASSUME NEW p \in Process, ForgetSyncState(p) \/ RecordForget(p) \/ Fail(p) PROVE IInv'
  BY <1>6, ForgetSyncStateStep, RecordForgetStep, FailStep
<1>7. CASE UNCHANGED vars
  <2>1. UNCHANGED <<log, blobs, known, segments, minted, remote, rblobs, job, fails, forgets>>
    BY <1>7 DEF vars
  <2>2. Grows /\ RemoteOK' /\ LogsOK' /\ MintedOK' /\ SegmentsOK' /\ KnownIsRemote'
    BY <2>1, Steady
  <2>3. JobsOK'
    BY <2>1, <2>2, NoJobMoves
  <2>4. TypeOK'
    BY <2>1 DEF IInv, TypeOK
  <2> QED
    BY <2>2, <2>3, <2>4 DEF IInv
<1> QED
  BY <1>1, <1>2, <1>3, <1>4, <1>5, <1>6, <1>7 DEF Next

----------------------------------------------------------------------------

\* The inductive invariant of ContextSync.
THEOREM Invariance == Spec => []IInv
  BY InitInv, NextInv, PTL DEF Spec

\* Logs, blobs, what is known of the remote, the remote and what every pull and
\* push holds in memory are what they are taken to be.
THEOREM TypeCorrect == Spec => []TypeOK
<1>1. IInv => TypeOK
  BY DEF IInv
<1> QED
  BY <1>1, Invariance, PTL

\* A machine takes the remote to hold only what it holds, so a push never
\* passes over an operation that is nowhere but here, however many processes
\* pull, push and fail.
THEOREM KnownAlwaysRemote == Spec => []KnownIsRemote
<1>1. IInv => KnownIsRemote
  BY DEF IInv
<1> QED
  BY <1>1, Invariance, PTL

\* An edit is never on the remote, or live in a log, without its blob.
THEOREM BlobsAlwaysBesideOps == Spec => []BlobsBesideOps
<1>1. ASSUME IInv PROVE BlobsBesideOps
  <2>1. BlobsOf(OpsIn(DOMAIN remote)) \subseteq rblobs
    BY <1>1 DEF IInv, RemoteOK
  <2>2. ASSUME NEW m \in Machine PROVE BlobsOf(LiveOps(log[m].rows)) \subseteq blobs[m]
    BY <1>1 DEF IInv, LogsOK, BlobsOf, BlobOf, LiveOps, Live, OpOf
  <2> QED
    BY <2>1, <2>2 DEF BlobsBesideOps
<1> QED
  BY <1>1, Invariance, PTL
----------------------------------------------------------------------------
(* What the machines and the remote say: SharedLog.  Of the operations that *)
(* share an address any one says it.                                        *)

LEMMA SaysWhat ==
    ASSUME NEW o \in Op, o.kind # "forget"
    PROVE  SaidBy(o) \in Ids \cup Address
  BY DEF SaidBy, Op

LEMMA StatementsOfUnion ==
    ASSUME NEW S \in SUBSET Op
    PROVE  Statements(Union(S)) = Statements(S)
<1>1. Union(S) \subseteq S
  BY DEF Union
<1>2. ASSUME NEW o \in S, o.kind # "forget"
      PROVE  \E q \in Union(S) : q.kind # "forget" /\ SaidBy(q) = SaidBy(o)
  <2>1. CASE o.addr = NoAddress
    <3>1. o \in Union(S)
      BY <2>1 DEF Union, SameAddress
    <3> QED
      BY <3>1, <1>2
  <2>2. CASE o.addr # NoAddress
    <3>1. SameAddress(o, o)
      BY <2>2 DEF SameAddress
    <3>2. PICK q \in S : /\ SameAddress(q, o)
                         /\ \A p \in S : SameAddress(p, o) => q.id <= p.id
      BY <3>1, OldestExists
    <3>3. q.addr = o.addr /\ q.addr # NoAddress
      BY <3>2 DEF SameAddress
    <3>4. q \in Union(S)
      BY <3>2, <3>3 DEF Union, SameAddress
    <3>5. q.kind = o.kind
      BY <3>3 DEF Op, SaysOneThing
    <3>6. SaidBy(q) = SaidBy(o)
      BY <3>3 DEF SaidBy
    <3> QED
      BY <3>4, <3>5, <3>6, <1>2
  <2> QED
    BY <2>1, <2>2
<1>3. Statements(Union(S)) \subseteq Statements(S)
  BY <1>1 DEF Statements
<1>4. ASSUME NEW s \in Statements(S) PROVE s \in Statements(Union(S))
  <2>1. PICK o \in S : o.kind # "forget" /\ s = SaidBy(o)
    BY DEF Statements
  <2>2. PICK q \in Union(S) : q.kind # "forget" /\ SaidBy(q) = SaidBy(o)
    BY <2>1, <1>2
  <2> QED
    BY <2>1, <2>2 DEF Statements
<1> QED
  BY <1>3, <1>4

LEMMA StatementsOfBoth ==
    ASSUME NEW S, NEW T
    PROVE  Statements(S \cup T) = Statements(S) \cup Statements(T)
  BY DEF Statements

\* What a machine's context is made of.
Says(m) == Statements(LiveOps(log[m].rows))

LEMMA SaysMinted ==
    ASSUME IInv, NEW m \in Machine
    PROVE  /\ LiveOps(log[m].rows) \in SUBSET Op
           /\ Says(m) \in SUBSET Statements(minted)
<1>1. LiveOps(log[m].rows) \in SUBSET minted
  BY DEF IInv, LogsOK, LiveOps, Live
<1> QED
  BY <1>1 DEF IInv, TypeOK, Says, Statements

\* A machine that records what arrives says that as well.
LEMMA RecordSays ==
    ASSUME IInv, NEW m \in Machine, NEW ops, Batch(log[m], ops),
           \A o \in ops : o.kind # "forget",
           log' = [log EXCEPT ![m] = Record(@, ops)]
    PROVE  /\ Says(m)' = Says(m) \cup Statements(ops)
           /\ \A x \in Machine : x # m => Says(x)' = Says(x)
<1>1. WellFormed(log[m]) /\ log = [x \in Machine |-> log[x]]
  BY DEF IInv, LogsOK
<1>2. log'[m] = Record(log[m], ops) /\ \A x \in Machine : x # m => log'[x] = log[x]
  BY <1>1
<1>3. LiveOps(log'[m].rows) = Union(LiveOps(log[m].rows) \cup ops)
  BY <1>1, <1>2, RecordIsUnion
<1>4. LiveOps(log[m].rows) \cup ops \in SUBSET Op
  BY SaysMinted DEF Batch
<1>5. Statements(LiveOps(log'[m].rows)) = Says(m) \cup Statements(ops)
  BY <1>3, <1>4, StatementsOfUnion, StatementsOfBoth DEF Says
<1> QED
  BY <1>2, <1>5 DEF Says

\* An operation minted for a log is a batch of its own.
LEMMA MintedBatch ==
    ASSUME IInv, NEW m \in Machine, NEW op \in Op, Accept(m, op)
    PROVE  Batch(log[m], {op}) /\ \A r \in log[m].rows : r.id # op.id
<1>1. \A o \in minted : o.id # op.id
  BY DEF Accept, Mintable
<1>2. \A r \in log[m].rows : r.id # op.id
  BY <1>1 DEF IInv, LogsOK, OpOf
<1>3. IsFiniteSet({op})
  BY FS_Singleton
<1> QED
  BY <1>2, <1>3 DEF Batch

\* A removal takes everything a machine says.
LEMMA ForgetSays ==
    ASSUME IInv, NEW m \in Machine, NEW op \in Op, op.kind = "forget", Accept(m, op)
    PROVE  /\ Says(m)' = {}
           /\ \A x \in Machine : x # m => Says(x)' = Says(x)
<1> DEFINE l == log[m]
           new == Written(l.rows, {op})
<1>1. WellFormed(l) /\ log = [x \in Machine |-> log[x]]
  BY DEF IInv, LogsOK
<1>2. log'[m] = Record(l, {op}) /\ \A x \in Machine : x # m => log'[x] = log[x]
  BY <1>1 DEF Accept
<1>3. Batch(l, {op})
  BY MintedBatch
<1>4. op \in new
  <2>1. op.id \in Nat
    BY IdsAreNumbers DEF Op
  <2>2. op.id <= op.id
    BY <2>1
  <2> QED
    BY <2>2 DEF Accept, Written
<1>5. PICK n \in Nat : n \in (l.seq + 1)..Record(l, {op}).seq
                       /\ AtPosition(op, n) \in Record(l, {op}).rows
  BY <1>1, <1>3, <1>4, RecordRows
<1>6. AtPosition(op, n).kind = "forget" /\ AtPosition(op, n).seq = n
  BY PlacedRow
<1>7. ASSUME NEW r \in Record(l, {op}).rows, r.kind # "forget"
      PROVE  Forgotten(Record(l, {op}).rows, r)
  <2>1. r \in l.rows
    <3>1. ASSUME r \notin Kept(l.rows, new) PROVE FALSE
      <4>1. PICK k \in Nat : r = AtPosition(op, k)
        BY <1>1, <1>3, <3>1, RecordedRow
      <4> QED
        BY <4>1, <1>7, PlacedRow
    <3> QED
      BY <3>1 DEF Kept
  <2>2. r.seq < n
    BY <2>1, <1>1, <1>5 DEF WellFormed
  <2> QED
    BY <2>2, <1>5, <1>6, <1>7 DEF Forgotten
<1>8. LiveOps(log'[m].rows) = {}
  BY <1>2, <1>7 DEF LiveOps, Live
<1> QED
  BY <1>2, <1>8 DEF Says, Statements

----------------------------------------------------------------------------
(* Every step is a step of the shared log, or none of its own. *)

LEMMA SharedStays ==
    ASSUME UNCHANGED <<log, minted, remote>>
    PROVE  UNCHANGED Shared!vars
<1>1. OpsIn(DOMAIN remote)' = OpsIn(DOMAIN remote)
  BY DEF OpsIn
<1> QED
  BY <1>1 DEF Shared!vars

LEMMA SayMaps ==
    ASSUME IInv, NEW m \in Machine, RecordOp(m)
    PROVE  Shared!Next \/ UNCHANGED Shared!vars
<1>1. PICK op \in Op : op.kind # "forget" /\ Accept(m, op)
  BY DEF RecordOp
<1>2. UNCHANGED remote /\ minted' = minted \cup {op}
  BY <1>1 DEF RecordOp, Accept
<1>3. /\ Says(m)' = Says(m) \cup Statements({op})
      /\ \A x \in Machine : x # m => Says(x)' = Says(x)
  <2>1. Batch(log[m], {op}) /\ \A o \in {op} : o.kind # "forget"
    BY <1>1, MintedBatch
  <2>2. log' = [log EXCEPT ![m] = Record(@, {op})]
    BY <1>1 DEF Accept
  <2> QED
    BY <2>1, <2>2, RecordSays
<1>4. PICK s : s = SaidBy(op)
  OBVIOUS
<1>5. Statements({op}) = {s} /\ s \in Ids \cup Address
  BY <1>1, <1>4, SaysWhat DEF Statements
<1>6. Statements(minted)' = Statements(minted) \cup {s}
  BY <1>2, <1>5, StatementsOfBoth
<1>7. Statements(OpsIn(DOMAIN remote))' = Statements(OpsIn(DOMAIN remote))
  BY <1>2 DEF OpsIn
<1>8. Says(m)' = Says(m) \cup {s}
  BY <1>3, <1>5
<1>9. CASE s \in Says(m)
  <2>1. Statements(minted)' = Statements(minted)
    BY <1>6, <1>9, SaysMinted
  <2>2. \A x \in Machine : Says(x)' = Says(x)
    BY <1>3, <1>8, <1>9
  <2>3. [x \in Machine |-> Says(x)]' = [x \in Machine |-> Says(x)]
    BY <2>2
  <2> QED
    BY <2>1, <2>3, <1>7 DEF Shared!vars, Says
<1>10. CASE s \notin Says(m)
  <2>1. [x \in Machine |-> Says(x)]' =
          [[x \in Machine |-> Says(x)] EXCEPT ![m] = @ \cup {s}]
    BY <1>3, <1>8
  <2>2. Shared!Say(m)
    BY <2>1, <1>5, <1>6, <1>7, <1>10 DEF Shared!Say, Says
  <2> QED
    BY <2>2 DEF Shared!Next
<1> QED
  BY <1>9, <1>10

LEMMA ReceiveMaps ==
    ASSUME IInv, NEW p \in Process, MergeSegments(p)
    PROVE  Shared!Next
<1> DEFINE m == On[p]
           ops == OpsIn(job[p].names)
<1>1. /\ m \in Machine /\ job[p].names \in SUBSET DOMAIN remote
      /\ log' = [log EXCEPT ![m] = Record(@, ops)]
      /\ UNCHANGED <<minted, remote>>
  BY ProcessesRunSomewhere DEF MergeSegments, IInv, JobsOK, JobOK
<1>2. ops \in SUBSET minted /\ \A o \in ops : o.kind # "forget"
  BY <1>1, RemoteBlobNames
<1>3. /\ Says(m)' = Says(m) \cup Statements(ops)
      /\ \A x \in Machine : x # m => Says(x)' = Says(x)
  BY <1>1, <1>2, ArrivingBatch, RecordSays
<1>4. Statements(ops) \in SUBSET Statements(OpsIn(DOMAIN remote))
  BY <1>1 DEF Statements, OpsIn
<1>5. PICK S : S = Statements(ops)
  OBVIOUS
<1>6. [x \in Machine |-> Says(x)]' = [[x \in Machine |-> Says(x)] EXCEPT ![m] = @ \cup S]
  BY <1>3, <1>5
<1>7. Statements(OpsIn(DOMAIN remote))' = Statements(OpsIn(DOMAIN remote))
  BY <1>1 DEF OpsIn
<1>8. Shared!Receive(m)
  BY <1>1, <1>4, <1>5, <1>6, <1>7 DEF Shared!Receive, Says
<1> QED
  BY <1>1, <1>8 DEF Shared!Next

LEMMA PublishMaps ==
    ASSUME IInv, NEW p \in Process, PutSegment(p)
    PROVE  Shared!Next
<1>1. PICK i \in job[p].firsts :
        /\ i \in FirstIds(job[p].ops)
        /\ Grows
        /\ DOMAIN remote' = DOMAIN remote \cup {ObjectName(p, i)}
        /\ remote'[ObjectName(p, i)] = SegmentAt(job[p].ops, i)
        /\ job[p].at = "put"
        /\ UNCHANGED <<log, minted>>
  BY SegmentIsPut
<1>2. job[p] \in Job /\ Pushable(job[p].ops)
  BY <1>1 DEF IInv, TypeOK, JobsOK, JobOK
<1>3. job[p].ops \in SUBSET Op
  BY <1>2 DEF Pushable, IInv, TypeOK
<1>4. PICK seg : seg = SegmentAt(job[p].ops, i)
  OBVIOUS
<1>5. seg \in SUBSET minted
  BY <1>1, <1>2, <1>3, <1>4, SegmentIsSome DEF Pushable, Some
<1>6. OpsIn(DOMAIN remote)' = OpsIn(DOMAIN remote) \cup seg
  BY <1>1, <1>4 DEF OpsIn, Grows
<1>7. Statements(OpsIn(DOMAIN remote)') = Statements(OpsIn(DOMAIN remote)) \cup Statements(seg)
  BY <1>6, StatementsOfBoth
<1>8. Statements(seg) \in SUBSET Statements(minted)
  BY <1>5 DEF Statements
<1>9. UNCHANGED <<Statements(minted), [m \in Machine |-> Statements(LiveOps(log[m].rows))]>>
  BY <1>1
<1>10. Shared!Publish
  BY <1>7, <1>8, <1>9 DEF Shared!Publish
<1> QED
  BY <1>10 DEF Shared!Next

LEMMA RemoveMaps ==
    ASSUME IInv, NEW p \in Process, RecordForget(p)
    PROVE  Shared!Next
<1> DEFINE m == On[p]
<1>1. PICK op \in Op : op.kind = "forget" /\ Accept(m, op)
  BY DEF RecordForget
<1>2. m \in Machine /\ UNCHANGED remote /\ minted' = minted \cup {op}
  BY <1>1, ProcessesRunSomewhere DEF RecordForget, Accept
<1>3. Says(m)' = {} /\ \A x \in Machine : x # m => Says(x)' = Says(x)
  BY <1>1, <1>2, ForgetSays
<1>4. Statements({op}) = {}
  BY <1>1 DEF Statements
<1>5. Statements(minted)' = Statements(minted)
  BY <1>2, <1>4, StatementsOfBoth
<1>6. Statements(OpsIn(DOMAIN remote))' = Statements(OpsIn(DOMAIN remote))
  BY <1>2 DEF OpsIn
<1>7. [x \in Machine |-> Says(x)]' = [[x \in Machine |-> Says(x)] EXCEPT ![m] = {}]
  BY <1>3
<1>8. Shared!Remove(m)
  BY <1>5, <1>6, <1>7 DEF Shared!Remove, Says
<1> QED
  BY <1>2, <1>8 DEF Shared!Next

LEMMA StepMaps == IInv /\ [Next]_vars => [Shared!Next]_(Shared!vars)
<1> SUFFICES ASSUME IInv, [Next]_vars PROVE Shared!Next \/ UNCHANGED Shared!vars
  OBVIOUS
<1>1. ASSUME NEW m \in Machine, RecordOp(m) PROVE Shared!Next \/ UNCHANGED Shared!vars
  BY <1>1, SayMaps
<1>2. ASSUME NEW p \in Process, NEW goal \in {"pull", "push"}, StartSync(p, goal)
      PROVE  UNCHANGED <<log, minted, remote>>
  BY <1>2 DEF StartSync, store
<1>3. ASSUME NEW p \in Process, FetchStep(p) PROVE UNCHANGED <<log, minted, remote>>
  BY <1>3 DEF FetchStep, FetchSegment, NoteFetched, KeepFetched, store
<1>4. ASSUME NEW p \in Process, SelectUnapplied(p) \/ MarkApplied(p)
      PROVE  UNCHANGED <<log, minted, remote>>
  BY <1>4 DEF SelectUnapplied, MarkApplied
<1>5. ASSUME NEW p \in Process,
             \/ CollectToPush(p) \/ PutBlob(p) \/ PutRefused(p)
             \/ NotePushed(p) \/ KeepPushed(p)
      PROVE  UNCHANGED <<log, minted, remote>>
  BY <1>5 DEF CollectToPush, PutBlob, PutRefused, NotePushed, KeepPushed, store
<1>6. ASSUME NEW p \in Process, ForgetSyncState(p) \/ Fail(p)
      PROVE  UNCHANGED <<log, minted, remote>>
  BY <1>6 DEF ForgetSyncState, Fail, store
<1>7. CASE UNCHANGED vars
  BY <1>7, SharedStays DEF vars
<1> QED
  BY <1>1, <1>2, <1>3, <1>4, <1>5, <1>6, <1>7, SharedStays, ReceiveMaps, PublishMaps, RemoveMaps
     DEF Next, PullStep, PushStep

LEMMA InitMaps == Init => Shared!Init
<1> SUFFICES ASSUME Init PROVE Shared!Init
  OBVIOUS
<1>1. minted = {} /\ OpsIn(DOMAIN remote) = {}
  BY DEF Init, OpsIn
<1>2. \A m \in Machine : LiveOps(log[m].rows) = {}
  BY DEF Init, EmptyLog, LiveOps, Live
<1> QED
  BY <1>1, <1>2 DEF Shared!Init, Statements

\* Machines that pull and push through a remote share one log of statements:
\* nothing is published that nobody said, nothing is received that was not
\* published, and only a removal takes anything away (Sync.Pull, Sync.Push,
\* Workspace.Forget).
THEOREM Refines == Spec => SharesOneLog
  BY InitMaps, StepMaps, Invariance, PTL DEF Spec, SharesOneLog, Shared!Spec
----------------------------------------------------------------------------
(* What is marked merged is held, as long as the project is not removed.    *)

\* A row of the log has the operation's id or says what it says.
IsHeld(m, op) == \E r \in log[m].rows : Matches(r, op)

NoRemovals ==
    /\ \A o \in minted : o.kind # "forget"
    /\ \A p \in Process : job[p].at # "forget"

MarkedIsHeld ==
    \A m \in Machine : \A n \in DOMAIN segments[m] :
        segments[m][n] => \A op \in remote[n] : IsHeld(m, op)

AllHeld(p, ops) == \A op \in ops : IsHeld(On[p], op)

\* What a job is going to mark merged is held.
JobHeld(p) ==
    LET j == job[p]
    IN  /\ j.at \in {"note", "keep"} /\ j.merged => AllHeld(p, remote[j.name])
        /\ j.at = "mark" => AllHeld(p, OpsIn(j.names))
        /\ j.at \in {"put", "known"} => AllHeld(p, j.ops)
        /\ j.at = "record" => \A i \in j.firsts : AllHeld(p, remote[ObjectName(p, i)])

HeldInv ==
    /\ NoRemovals
    /\ MarkedIsHeld
    /\ \A p \in Process : JobHeld(p)

\* Where nothing was removed, an operation held is a live one.
LEMMA HeldIsLive ==
    ASSUME IInv, NoRemovals, NEW m \in Machine
    PROVE  /\ \A r \in log[m].rows : ~Forgotten(log[m].rows, r) /\ r \in Live(log[m].rows)
           /\ \A op : IsHeld(m, op) <=> Held(log[m].rows, op)
<1>1. \A r \in log[m].rows : r.kind # "forget"
  BY DEF IInv, LogsOK, NoRemovals, OpOf
<1> QED
  BY <1>1 DEF Forgotten, Live, IsHeld, Held

\* What a log holds it goes on to hold, under an older id perhaps.
LEMMA RecordKeepsHeld ==
    ASSUME IInv, NEW m \in Machine, NEW ops \in SUBSET Op, Batch(log[m], ops),
           log' = [log EXCEPT ![m] = Record(@, ops)],
           NEW x \in Machine, NEW op \in minted, IsHeld(x, op)
    PROVE  IsHeld(x, op)'
<1> DEFINE l == log[m]
           new == Written(l.rows, ops)
<1>1. WellFormed(l) /\ log = [y \in Machine |-> log[y]]
  BY DEF IInv, LogsOK
<1>2. log'[m] = Record(l, ops) /\ (x # m => log'[x] = log[x])
  BY <1>1
<1>3. CASE x # m
  BY <1>2, <1>3 DEF IsHeld
<1>4. CASE x = m
  <2>1. PICK r \in l.rows : Matches(r, op)
    BY <1>4 DEF IsHeld
  <2>2. CASE r \in Kept(l.rows, new)
    <3>1. r \in Record(l, ops).rows
      BY <2>2, <1>1, RecordRows
    <3> QED
      BY <3>1, <2>1, <1>2, <1>4 DEF IsHeld
  <2>3. CASE r \notin Kept(l.rows, new)
    <3>1. PICK o \in new : Matches(r, o)
      BY <2>3 DEF Kept
    <3>2. o \in ops /\ o \in Op
      BY <3>1 DEF Written
    <3>3. PICK n \in Nat : AtPosition(o, n) \in Record(l, ops).rows
      BY <3>1, <1>1, RecordRows
    <3>4. AtPosition(o, n).id = o.id /\ AtPosition(o, n).addr = o.addr
      BY <3>2, PlacedRow
    <3>5. r.id = op.id => r.addr = op.addr
      <4>1. OpOf(r) \in minted /\ OneIdEach(minted)
        BY DEF IInv, LogsOK, MintedOK
      <4>2. OpOf(r).id = r.id /\ OpOf(r).addr = r.addr
        BY DEF OpOf
      <4> QED
        BY <4>1, <4>2 DEF OneIdEach
    <3>6. r.id = o.id => r.addr = o.addr
      BY <3>2 DEF Batch, OpOf
    <3>7. Matches(AtPosition(o, n), op)
      BY <2>1, <3>1, <3>4, <3>5, <3>6 DEF Matches, SameAddress
    <3> QED
      BY <3>3, <3>7, <1>2, <1>4 DEF IsHeld
  <2> QED
    BY <2>2, <2>3
<1> QED
  BY <1>3, <1>4

\* A log holds all of a batch it has recorded.
LEMMA RecordHoldsBatch ==
    ASSUME IInv, NEW m \in Machine, NEW ops \in SUBSET minted,
           log' = [log EXCEPT ![m] = Record(@, ops)],
           NEW op \in ops
    PROVE  IsHeld(m, op)'
<1> DEFINE l == log[m]
           new == Written(l.rows, ops)
<1>1. /\ WellFormed(l) /\ log = [y \in Machine |-> log[y]]
      /\ Batch(l, ops) /\ ops \in SUBSET Op
  BY ArrivingBatch DEF IInv, LogsOK, TypeOK
<1>2. log'[m] = Record(l, ops)
  BY <1>1
<1>3. ASSUME NEW q \in ops, \A r \in ops : SameAddress(r, q) => q.id <= r.id,
             q = op \/ SameAddress(q, op)
      PROVE  IsHeld(m, op)'
  <2>1. CASE q \in new
    <3>1. PICK n \in Nat : AtPosition(q, n) \in Record(l, ops).rows
      BY <2>1, <1>1, RecordRows
    <3>2. AtPosition(q, n).id = q.id /\ AtPosition(q, n).addr = q.addr
      BY <1>1, PlacedRow
    <3>3. Matches(AtPosition(q, n), op)
      BY <3>2, <1>3 DEF Matches, SameAddress
    <3> QED
      BY <3>1, <3>3, <1>2 DEF IsHeld
  <2>2. CASE q \notin new
    <3>1. Answers(l.rows, q)
      BY <2>2, <1>3 DEF Written
    <3>2. PICK r \in l.rows : Matches(r, q)
      BY <3>1 DEF Answers
    <3>3. r.id = q.id => r.addr = q.addr
      BY <1>1 DEF Batch, OpOf
    <3>4. Matches(r, op)
      BY <3>2, <3>3, <1>3 DEF Matches, SameAddress
    <3>5. IsHeld(m, op)
      BY <3>4 DEF IsHeld
    <3> QED
      BY <3>5, <1>1, RecordKeepsHeld
  <2> QED
    BY <2>1, <2>2
<1>4. CASE op.addr = NoAddress
  <2>1. \A r \in ops : ~SameAddress(r, op)
    BY <1>4 DEF SameAddress
  <2> QED
    BY <2>1, <1>3
<1>5. CASE op.addr # NoAddress
  <2>1. SameAddress(op, op) /\ op \in Op
    BY <1>5, <1>1 DEF SameAddress
  <2>2. PICK q \in ops : /\ SameAddress(q, op)
                         /\ \A r \in ops : SameAddress(r, op) => q.id <= r.id
    BY <2>1, <1>1, OldestExists
  <2>3. \A r \in ops : SameAddress(r, q) => q.id <= r.id
    BY <2>2 DEF SameAddress
  <2> QED
    BY <2>2, <2>3, <1>3
<1> QED
  BY <1>4, <1>5

\* A step loses nothing held, nothing recorded and nothing of the remote.
Keeps ==
    /\ \A m \in Machine, op \in minted : IsHeld(m, op) => IsHeld(m, op)'
    /\ \A n \in DOMAIN remote : n \in DOMAIN remote' /\ remote'[n] = remote[n]

LEMMA AllHeldStays ==
    ASSUME Keeps, NEW p \in Process, NEW ops \in SUBSET minted, AllHeld(p, ops)
    PROVE  AllHeld(p, ops)'
  BY ProcessesRunSomewhere DEF AllHeld, Keeps

LEMMA JobHeldStays ==
    ASSUME IInv, Keeps, NEW p \in Process, JobHeld(p), job'[p] = job[p]
    PROVE  JobHeld(p)'
<1> DEFINE j == job[p]
<1>1. JobOK(p) /\ \A n \in DOMAIN remote : remote[n] \in SUBSET minted
  BY DEF IInv, JobsOK, RemoteOK
<1>2. j.at \in {"note", "keep"} /\ j.merged => AllHeld(p, remote[j.name])'
  <2>1. SUFFICES ASSUME j.at \in {"note", "keep"}, j.merged
                 PROVE  \A op \in remote'[j.name] : IsHeld(On[p], op)'
    BY DEF AllHeld
  <2>2. j.name \in DOMAIN remote /\ AllHeld(p, remote[j.name])
    BY <2>1, <1>1 DEF JobOK, IsOnRemote, JobHeld
  <2> QED
    BY <2>2, <1>1, ProcessesRunSomewhere DEF Keeps, AllHeld
<1>3. j.at = "mark" => \A op \in OpsIn(j.names)' : IsHeld(On[p], op)'
  <2>1. SUFFICES ASSUME j.at = "mark"
                 PROVE  \A op \in OpsIn(j.names)' : IsHeld(On[p], op)'
    OBVIOUS
  <2>2. j.names \in SUBSET DOMAIN remote /\ AllHeld(p, OpsIn(j.names))
    BY <2>1, <1>1 DEF JobOK, JobHeld
  <2>3. OpsIn(j.names)' = OpsIn(j.names) /\ OpsIn(j.names) \in SUBSET minted
    BY <2>2, RemoteBlobNames DEF Keeps, OpsIn
  <2> QED
    BY <2>2, <2>3, ProcessesRunSomewhere DEF Keeps, AllHeld
<1>4. j.at \in {"put", "known"} => \A op \in j.ops : IsHeld(On[p], op)'
  BY <1>1, ProcessesRunSomewhere DEF JobOK, Pushable, JobHeld, AllHeld, Keeps
<1>5. j.at = "record" => \A i \in j.firsts : \A op \in remote'[ObjectName(p, i)] : IsHeld(On[p], op)'
  BY <1>1, ProcessesRunSomewhere DEF JobOK, IsOnRemote, JobHeld, AllHeld, Keeps
<1> QED
  BY <1>2, <1>3, <1>4, <1>5 DEF JobHeld, AllHeld
\* One job moves: what it now goes on to mark merged is left to show.
LEMMA HeldStep ==
    ASSUME IInv, HeldInv, Keeps, NEW p \in Process, NEW j, Goto(p, j),
           NoRemovals', MarkedIsHeld', JobHeld(p)'
    PROVE  HeldInv'
<1>1. ASSUME NEW q \in Process PROVE JobHeld(q)'
  <2>1. CASE q = p
    BY <2>1
  <2>2. CASE q # p
    <3>1. job'[q] = job[q]
      BY <2>2 DEF Goto, IInv, TypeOK
    <3> QED
      BY <3>1, JobHeldStays DEF HeldInv
  <2> QED
    BY <2>1, <2>2
<1> QED
  BY <1>1 DEF HeldInv

LEMMA MarksStay ==
    ASSUME IInv, MarkedIsHeld, Keeps, UNCHANGED segments
    PROVE  MarkedIsHeld'
<1> SUFFICES ASSUME NEW m \in Machine, NEW n \in DOMAIN segments[m], segments[m][n],
                    NEW op \in remote'[n]
             PROVE  IsHeld(m, op)'
  BY DEF MarkedIsHeld
<1>1. n \in DOMAIN remote /\ remote[n] \in SUBSET minted
  BY DEF IInv, SegmentsOK, RemoteOK
<1>2. op \in remote[n] /\ op \in minted
  BY <1>1 DEF Keeps
<1> QED
  BY <1>2 DEF MarkedIsHeld, Keeps

\* Steps that leave the logs and what is recorded alone.
LEMMA KeepsWithLogs ==
    ASSUME UNCHANGED <<log, remote>>
    PROVE  Keeps
  BY DEF Keeps, IsHeld

\* No step but a removal's removes.
LEMMA NoRemovalStep ==
    ASSUME IInv, NoRemovals, UNCHANGED minted, NEW p \in Process, NEW j, Goto(p, j),
           j.at # "forget"
    PROVE  NoRemovals'
  BY DEF NoRemovals, Goto, IInv, TypeOK

\* The other steps of a pull or a push: nothing is written, or nothing that
\* logs and marks depend on.
LEMMA QuietHeldStep ==
    ASSUME IInv, HeldInv, NEW p \in Process, NEW j, Goto(p, j), j.at # "forget",
           UNCHANGED <<log, minted, segments, remote>>, JobHeld(p)'
    PROVE  HeldInv'
  BY KeepsWithLogs, NoRemovalStep, MarksStay, HeldStep DEF HeldInv

\* A job that is over has nothing to mark.
LEMMA IdleHeld ==
    ASSUME IInv, NEW p \in Process, Goto(p, Idle)
    PROVE  JobHeld(p)' /\ Idle.at # "forget"
<1>1. job'[p] = Idle
  BY DEF Goto, IInv, TypeOK
<1> QED
  BY <1>1 DEF JobHeld, Idle

LEMMA RecordOpHeld ==
    ASSUME IInv, HeldInv, NEW m \in Machine, RecordOp(m)
    PROVE  HeldInv'
<1>1. PICK op \in Op : op.kind # "forget" /\ Accept(m, op)
  BY DEF RecordOp
<1>2. /\ log' = [log EXCEPT ![m] = Record(@, {op})] /\ minted' = minted \cup {op}
      /\ UNCHANGED <<segments, remote, job>>
  BY <1>1 DEF RecordOp, Accept
<1>3. Batch(log[m], {op})
  BY <1>1, MintedBatch
<1>4. Keeps
  BY <1>2, <1>3, RecordKeepsHeld DEF Keeps
<1>5. NoRemovals'
  BY <1>1, <1>2 DEF HeldInv, NoRemovals
<1>6. MarkedIsHeld'
  BY <1>2, <1>4, MarksStay DEF HeldInv
<1>7. \A p \in Process : JobHeld(p)'
  BY <1>2, <1>4, JobHeldStays DEF HeldInv
<1> QED
  BY <1>5, <1>6, <1>7 DEF HeldInv

LEMMA StartSyncHeld ==
    ASSUME IInv, HeldInv, NEW p \in Process, NEW goal \in {"pull", "push"}, StartSync(p, goal)
    PROVE  HeldInv'
<1> DEFINE j == [at |-> "fetch", goal |-> goal, todo |-> Unread(On[p])]
<1>1. Goto(p, j) /\ UNCHANGED <<log, minted, segments, remote>> /\ j.at = "fetch"
  BY DEF StartSync, store
<1>2. job'[p].at = "fetch"
  BY <1>1 DEF Goto, IInv, TypeOK
<1>3. JobHeld(p)'
  BY <1>2 DEF JobHeld
<1> HIDE DEF j
<1> QED
  BY <1>1, <1>3, QuietHeldStep

LEMMA FetchSegmentHeld ==
    ASSUME IInv, HeldInv, NEW p \in Process, FetchSegment(p)
    PROVE  HeldInv'
<1> DEFINE j(n) == [at |-> "note", goal |-> job[p].goal, todo |-> job[p].todo \ {n},
                    name |-> n, merged |-> HoldsAll(On[p], remote[n])]
<1>1. PICK n \in job[p].todo : Goto(p, j(n))
  BY DEF FetchSegment
<1>2. UNCHANGED <<log, minted, segments, remote>>
  BY DEF FetchSegment, store
<1>3. job'[p] = j(n)
  BY <1>1 DEF Goto, IInv, TypeOK
<1>4. job'[p].at = "note" /\ job'[p].name = n /\ job'[p].merged = HoldsAll(On[p], remote[n])
  BY <1>3
<1>5. job'[p].merged => \A op \in remote[n] : IsHeld(On[p], op)
  BY <1>4, HeldIsLive, ProcessesRunSomewhere DEF HoldsAll, HeldInv
<1>6. JobHeld(p)'
  BY <1>2, <1>4, <1>5 DEF JobHeld, AllHeld, IsHeld
<1>7. j(n).at # "forget"
  OBVIOUS
<1> HIDE DEF j
<1> QED
  BY <1>1, <1>2, <1>6, <1>7, QuietHeldStep

LEMMA NoteFetchedHeld ==
    ASSUME IInv, HeldInv, NEW p \in Process, NoteFetched(p)
    PROVE  HeldInv'
<1> DEFINE j == [job[p] EXCEPT !.at = "keep"]
<1>1. job[p] \in Job /\ job[p].at = "note" /\ JobHeld(p)
  BY DEF IInv, TypeOK, NoteFetched, HeldInv
<1>2. UNCHANGED <<log, minted, segments, remote>> /\ Goto(p, j)
  BY DEF NoteFetched
<1>3. job[p] \in [at : {"note", "keep"}, goal : {"pull", "push"},
                  todo : SUBSET Name, name : Name, merged : BOOLEAN]
  BY <1>1, JobShapes
<1>4. j.at = "keep" /\ j.name = job[p].name /\ j.merged = job[p].merged
  BY <1>3
<1>5. job'[p] = j
  BY <1>2 DEF Goto, IInv, TypeOK
<1>6. JobHeld(p)'
  BY <1>1, <1>2, <1>4, <1>5 DEF JobHeld, AllHeld, IsHeld
<1>7. j.at # "forget"
  BY <1>4
<1> HIDE DEF j
<1> QED
  BY <1>2, <1>6, <1>7, QuietHeldStep
\* A segment newly marked is held.
LEMMA MarkStep ==
    ASSUME IInv, HeldInv, UNCHANGED <<log, remote>>, NEW m \in Machine, NEW read,
           segments' = [segments EXCEPT ![m] = read],
           \A n \in DOMAIN read :
              read[n] => \/ n \in DOMAIN segments[m] /\ segments[m][n]
                         \/ \A op \in remote[n] : IsHeld(m, op)
    PROVE  MarkedIsHeld'
<1>1. segments = [x \in Machine |-> segments[x]]
  BY DEF IInv, SegmentsOK
<1>2. segments'[m] = read /\ \A x \in Machine : x # m => segments'[x] = segments[x]
  BY <1>1
<1>3. ASSUME NEW x \in Machine, NEW n \in DOMAIN segments'[x], segments'[x][n]
      PROVE  \A op \in remote[n] : IsHeld(x, op)
  BY <1>2, <1>3 DEF HeldInv, MarkedIsHeld
<1> QED
  BY <1>3 DEF MarkedIsHeld, IsHeld

LEMMA KeepFetchedHeld ==
    ASSUME IInv, HeldInv, NEW p \in Process, KeepFetched(p)
    PROVE  HeldInv'
<1> DEFINE j == [at |-> "fetch", goal |-> job[p].goal, todo |-> job[p].todo]
           m == On[p]
           read == [n \in DOMAIN segments[m] \cup {job[p].name} |->
                       IF n \in DOMAIN segments[m] THEN segments[m][n] ELSE job[p].merged]
<1>1. job[p].at = "keep" /\ JobHeld(p) /\ m \in Machine
  BY ProcessesRunSomewhere DEF KeepFetched, HeldInv
<1>2. /\ UNCHANGED <<log, minted, remote>> /\ Goto(p, j)
      /\ segments' = [segments EXCEPT ![m] = read]
  BY <1>1 DEF KeepFetched, IInv, SegmentsOK
<1>3. \A n \in DOMAIN read : read[n] => \/ n \in DOMAIN segments[m] /\ segments[m][n]
                                        \/ \A op \in remote[n] : IsHeld(m, op)
  BY <1>1 DEF JobHeld, AllHeld
<1>4. job'[p].at = "fetch"
  BY <1>2 DEF Goto, IInv, TypeOK
<1>5. JobHeld(p)' /\ j.at # "forget"
  BY <1>4 DEF JobHeld
<1> HIDE DEF j, read
<1>6. NoRemovals' /\ MarkedIsHeld' /\ Keeps
  BY <1>1, <1>2, <1>3, <1>5, MarkStep, NoRemovalStep, KeepsWithLogs DEF HeldInv
<1> QED
  BY <1>2, <1>5, <1>6, HeldStep

LEMMA SelectUnappliedHeld ==
    ASSUME IInv, HeldInv, NEW p \in Process, SelectUnapplied(p)
    PROVE  HeldInv'
<1> DEFINE j == MergeJob(Unapplied(On[p]))
<1>1. Goto(p, j) /\ UNCHANGED <<log, minted, segments, remote>>
  BY DEF SelectUnapplied
<1>2. j.at \in {"idle", "merge"}
  BY DEF MergeJob, Idle
<1>3. job'[p].at \in {"idle", "merge"}
  BY <1>1, <1>2 DEF Goto, IInv, TypeOK
<1>4. JobHeld(p)' /\ j.at # "forget"
  BY <1>2, <1>3 DEF JobHeld
<1> HIDE DEF j
<1> QED
  BY <1>1, <1>4, QuietHeldStep

LEMMA MergeSegmentsHeld ==
    ASSUME IInv, HeldInv, NEW p \in Process, MergeSegments(p)
    PROVE  HeldInv'
<1> DEFINE m == On[p]
           ops == OpsIn(job[p].names)
           j == [job[p] EXCEPT !.at = "mark"]
<1>1. job[p] \in Job /\ job[p].at = "merge" /\ m \in Machine
      /\ job[p].names \in SUBSET DOMAIN remote
  BY ProcessesRunSomewhere DEF IInv, TypeOK, JobsOK, JobOK, MergeSegments
<1>2. /\ UNCHANGED <<segments, minted, remote>> /\ Goto(p, j)
      /\ log' = [log EXCEPT ![m] = Record(@, ops)]
  BY DEF MergeSegments
<1>3. job[p] \in [at : {"merge", "mark"}, names : Some(Name)]
  BY <1>1, JobShapes
<1>4. j.at = "mark" /\ j.names = job[p].names
  BY <1>3
<1>5. job'[p] = j
  BY <1>2 DEF Goto, IInv, TypeOK
<1>6. ops \in SUBSET minted /\ ops \in SUBSET Op /\ Batch(log[m], ops)
  BY <1>1, RemoteBlobNames, ArrivingBatch
<1>7. \A op \in ops : IsHeld(m, op)'
  <2> HIDE DEF ops
  <2> QED
    BY <1>1, <1>2, <1>6, RecordHoldsBatch
<1>8. Keeps
  <2> HIDE DEF ops
  <2> QED
    BY <1>1, <1>2, <1>6, RecordKeepsHeld DEF Keeps
<1>9. OpsIn(job[p].names)' = ops
  BY <1>2, <1>4, <1>5 DEF OpsIn
<1>10. JobHeld(p)'
  BY <1>4, <1>5, <1>7, <1>9 DEF JobHeld, AllHeld
<1>11. NoRemovals' /\ MarkedIsHeld'
  BY <1>2, <1>4, <1>8, NoRemovalStep, MarksStay DEF HeldInv
<1> HIDE DEF j
<1> QED
  BY <1>2, <1>8, <1>10, <1>11, HeldStep

LEMMA MarkAppliedHeld ==
    ASSUME IInv, HeldInv, NEW p \in Process, MarkApplied(p)
    PROVE  HeldInv'
<1> DEFINE m == On[p]
           read(n) == [s \in DOMAIN segments[m] |-> s = n \/ segments[m][s]]
           j(n) == IF job[p].names = {n} THEN Idle
                   ELSE [job[p] EXCEPT !.names = @ \ {n}]
<1>1. job[p] \in Job /\ job[p].at = "mark" /\ JobHeld(p) /\ m \in Machine
  BY ProcessesRunSomewhere DEF IInv, TypeOK, MarkApplied, HeldInv
<1>2. PICK n \in job[p].names :
        segments' = [segments EXCEPT ![m] = read(n)] /\ Goto(p, j(n))
  BY <1>1 DEF MarkApplied, IInv, SegmentsOK
<1>3. UNCHANGED <<log, minted, remote>>
  BY DEF MarkApplied
<1>4. job[p] \in [at : {"merge", "mark"}, names : Some(Name)]
  BY <1>1, JobShapes
<1>5. job'[p] = j(n)
  BY <1>2 DEF Goto, IInv, TypeOK
<1>6. AllHeld(p, OpsIn(job[p].names))
  BY <1>1 DEF JobHeld
<1>7. \A op \in remote[n] : IsHeld(m, op)
  BY <1>2, <1>6 DEF AllHeld, OpsIn
<1>8. JobHeld(p)' /\ j(n).at # "forget"
  <2>1. CASE job[p].names = {n}
    BY <2>1, <1>2, IdleHeld
  <2>2. CASE job[p].names # {n}
    <3>1. j(n) = [job[p] EXCEPT !.names = @ \ {n}]
      BY <2>2
    <3>2. job'[p].at = "mark" /\ job'[p].names = job[p].names \ {n}
      BY <3>1, <1>1, <1>4, <1>5
    <3>3. OpsIn(job[p].names)' \in SUBSET OpsIn(job[p].names)
      BY <3>2, <1>3 DEF OpsIn
    <3>4. JobHeld(p)'
      BY <3>2, <3>3, <1>3, <1>6 DEF JobHeld, AllHeld, IsHeld
    <3> QED
      BY <3>2, <3>4, <1>5
  <2> QED
    BY <2>1, <2>2
<1>9. \A s \in DOMAIN read(n) : read(n)[s] => \/ s \in DOMAIN segments[m] /\ segments[m][s]
                                              \/ \A op \in remote[s] : IsHeld(m, op)
  BY <1>7
<1> HIDE DEF j, read
<1>10. NoRemovals' /\ MarkedIsHeld' /\ Keeps
  BY <1>1, <1>2, <1>3, <1>8, <1>9, MarkStep, NoRemovalStep, KeepsWithLogs DEF HeldInv
<1> QED
  BY <1>2, <1>8, <1>10, HeldStep

LEMMA CollectToPushHeld ==
    ASSUME IInv, HeldInv, NEW p \in Process, CollectToPush(p)
    PROVE  HeldInv'
<1> DEFINE m == On[p]
           ops == ToPush(m)
           put == [at |-> "put", ops |-> ops, blobs |-> BlobsOf(ops) \ rblobs,
                   firsts |-> FirstIds(ops)]
           j == IF ops = {} THEN Idle ELSE put
<1>1. Goto(p, j) /\ UNCHANGED <<log, minted, segments, remote>>
  BY DEF CollectToPush, store
<1>2. job'[p] = j
  BY <1>1 DEF Goto, IInv, TypeOK
<1>3. \A op \in ops : IsHeld(m, op)
  BY DEF ToPush, LiveOps, Live, OpOf, IsHeld, Matches
<1>4. JobHeld(p)' /\ j.at # "forget"
  <2>1. CASE ops = {}
    BY <2>1, <1>1, IdleHeld
  <2>2. CASE ops # {}
    <3>1. j = put
      BY <2>2
    <3>2. PICK S : S = ops
      OBVIOUS
    <3>3. j.at = "put" /\ j.ops = S
      BY <3>1, <3>2
    <3> HIDE DEF ops, j
    <3>4. JobHeld(p)'
      BY <3>2, <3>3, <1>1, <1>2, <1>3 DEF JobHeld, AllHeld, IsHeld
    <3> QED
      BY <3>3, <3>4
  <2> QED
    BY <2>1, <2>2
<1> HIDE DEF j
<1> QED
  BY <1>1, <1>4, QuietHeldStep

LEMMA PutBlobHeld ==
    ASSUME IInv, HeldInv, NEW p \in Process, PutBlob(p)
    PROVE  HeldInv'
<1> DEFINE j(b) == [job[p] EXCEPT !.blobs = @ \ {b}]
<1>1. job[p] \in Job /\ job[p].at = "put" /\ JobHeld(p)
  BY DEF IInv, TypeOK, PutBlob, HeldInv
<1>2. PICK b \in job[p].blobs : Goto(p, j(b))
  BY DEF PutBlob
<1>3. UNCHANGED <<log, segments, minted, remote>>
  BY DEF PutBlob, store
<1>4. job[p] \in [at : {"put"}, ops : Some(Op), blobs : SUBSET BlobName, firsts : Some(Ids)]
  BY <1>1, JobShapes
<1>5. j(b).at = "put" /\ j(b).ops = job[p].ops
  BY <1>4
<1>6. job'[p] = j(b)
  BY <1>2 DEF Goto, IInv, TypeOK
<1>7. JobHeld(p)'
  BY <1>1, <1>3, <1>5, <1>6 DEF JobHeld, AllHeld, IsHeld
<1>8. j(b).at # "forget"
  BY <1>5
<1> HIDE DEF j
<1> QED
  BY <1>2, <1>3, <1>7, <1>8, QuietHeldStep

LEMMA PutSegmentHeld ==
    ASSUME IInv, HeldInv, NEW p \in Process, PutSegment(p)
    PROVE  HeldInv'
<1> DEFINE j(i) == IF job[p].firsts = {i} THEN [at |-> "known", ops |-> job[p].ops]
                   ELSE [job[p] EXCEPT !.firsts = @ \ {i}]
<1>1. PICK i \in job[p].firsts :
        /\ Grows /\ Goto(p, j(i)) /\ job[p].at = "put"
        /\ UNCHANGED <<log, segments, minted>>
  BY SegmentIsPut
<1>2. job[p] \in Job /\ JobHeld(p)
  BY DEF IInv, TypeOK, HeldInv
<1>3. job[p] \in [at : {"put"}, ops : Some(Op), blobs : SUBSET BlobName, firsts : Some(Ids)]
  BY <1>1, <1>2, JobShapes
<1>4. j(i).at \in {"put", "known"} /\ j(i).ops = job[p].ops
  BY <1>1, <1>3
<1>5. job'[p] = j(i)
  BY <1>1 DEF Goto, IInv, TypeOK
<1> HIDE DEF j
<1>6. JobHeld(p)'
  <2>1. \A op \in job[p].ops : IsHeld(On[p], op)'
    BY <1>1, <1>2 DEF JobHeld, AllHeld, IsHeld
  <2>2. job'[p].at \in {"put", "known"} /\ job'[p].ops = job[p].ops
    BY <1>4, <1>5
  <2> QED
    BY <2>1, <2>2 DEF JobHeld, AllHeld
<1>7. Keeps
  BY <1>1 DEF Keeps, Grows, IsHeld
<1>8. NoRemovals' /\ MarkedIsHeld'
  BY <1>1, <1>4, <1>7, NoRemovalStep, MarksStay DEF HeldInv
<1> QED
  BY <1>1, <1>6, <1>7, <1>8, HeldStep

LEMMA NotePushedHeld ==
    ASSUME IInv, HeldInv, NEW p \in Process, NotePushed(p)
    PROVE  HeldInv'
<1> DEFINE ops == job[p].ops
           j == [at |-> "record", firsts |-> FirstIds(ops)]
<1>1. job[p] \in Job /\ job[p].at = "known" /\ JobHeld(p) /\ JobOK(p)
  BY DEF IInv, TypeOK, JobsOK, NotePushed, HeldInv
<1>2. UNCHANGED <<log, segments, minted, remote>> /\ Goto(p, j)
  BY DEF NotePushed
<1>3. AllHeld(p, ops) /\ Pushable(ops) /\ PutSoFar(p, ops, {})
  BY <1>1 DEF JobHeld, JobOK
<1>4. ops \in SUBSET Op
  BY <1>3 DEF Pushable, IInv, TypeOK
<1>5. \A i \in FirstIds(ops) : AllHeld(p, remote[ObjectName(p, i)])
  BY <1>3, <1>4, SegmentIsSome DEF PutSoFar, AllHeld, Some
<1>6. PICK F : F = FirstIds(ops)
  OBVIOUS
<1>7. job'[p].at = "record" /\ job'[p].firsts = F
  BY <1>2, <1>6 DEF Goto, IInv, TypeOK
<1>8. JobHeld(p)'
  BY <1>2, <1>5, <1>6, <1>7 DEF JobHeld, AllHeld, IsHeld
<1>9. j.at # "forget"
  OBVIOUS
<1> HIDE DEF j
<1> QED
  BY <1>2, <1>8, <1>9, QuietHeldStep

LEMMA KeepPushedHeld ==
    ASSUME IInv, HeldInv, NEW p \in Process, KeepPushed(p)
    PROVE  HeldInv'
<1> DEFINE m == On[p]
           read(i) == [n \in DOMAIN segments[m] \cup {ObjectName(p, i)} |->
                          n = ObjectName(p, i) \/ segments[m][n]]
           j(i) == IF job[p].firsts = {i} THEN Idle
                   ELSE [job[p] EXCEPT !.firsts = @ \ {i}]
<1>1. job[p] \in Job /\ job[p].at = "record" /\ JobHeld(p) /\ m \in Machine
  BY ProcessesRunSomewhere DEF IInv, TypeOK, KeepPushed, HeldInv
<1>2. PICK i \in job[p].firsts :
        segments' = [segments EXCEPT ![m] = read(i)] /\ Goto(p, j(i))
  BY <1>1 DEF KeepPushed, IInv, SegmentsOK
<1>3. UNCHANGED <<log, minted, remote>>
  BY DEF KeepPushed
<1>4. job[p] \in [at : {"record"}, firsts : Some(Ids)]
  BY <1>1, JobShapes
<1>5. job'[p] = j(i)
  BY <1>2 DEF Goto, IInv, TypeOK
<1>6. JobHeld(p)' /\ j(i).at # "forget"
  <2>1. CASE job[p].firsts = {i}
    BY <2>1, <1>2, IdleHeld
  <2>2. CASE job[p].firsts # {i}
    <3>1. j(i) = [job[p] EXCEPT !.firsts = @ \ {i}]
      BY <2>2
    <3>2. job'[p].at = "record" /\ job'[p].firsts = job[p].firsts \ {i}
      BY <3>1, <1>1, <1>4, <1>5
    <3>3. JobHeld(p)'
      BY <3>2, <1>1, <1>3 DEF JobHeld, AllHeld, IsHeld
    <3> QED
      BY <3>2, <3>3, <1>5
  <2> QED
    BY <2>1, <2>2
<1>7. \A n \in DOMAIN read(i) : read(i)[n] => \/ n \in DOMAIN segments[m] /\ segments[m][n]
                                              \/ \A op \in remote[n] : IsHeld(m, op)
  BY <1>1, <1>2 DEF JobHeld, AllHeld
<1> HIDE DEF j, read
<1>8. NoRemovals' /\ MarkedIsHeld' /\ Keeps
  BY <1>1, <1>2, <1>3, <1>6, <1>7, MarkStep, NoRemovalStep, KeepsWithLogs DEF HeldInv
<1> QED
  BY <1>2, <1>6, <1>8, HeldStep

LEMMA EndedHeld ==
    ASSUME IInv, HeldInv, NEW p \in Process, PutRefused(p) \/ Fail(p)
    PROVE  HeldInv'
<1>1. Goto(p, Idle) /\ UNCHANGED <<log, minted, segments, remote>>
  BY DEF PutRefused, Fail, store
<1> QED
  BY <1>1, IdleHeld, QuietHeldStep

LEMMA NextHeld ==
    ASSUME MaxForgets = 0
    PROVE  IInv /\ HeldInv /\ [Next]_vars => HeldInv'
<1> SUFFICES ASSUME IInv, HeldInv, [Next]_vars PROVE HeldInv'
  OBVIOUS
<1>1. ASSUME NEW p \in Process, FetchStep(p) PROVE HeldInv'
  BY <1>1, FetchSegmentHeld, NoteFetchedHeld, KeepFetchedHeld DEF FetchStep
<1>2. ASSUME NEW p \in Process, PullStep(p) PROVE HeldInv'
  BY <1>2, SelectUnappliedHeld, MergeSegmentsHeld, MarkAppliedHeld DEF PullStep
<1>3. ASSUME NEW p \in Process, PushStep(p) PROVE HeldInv'
  BY <1>3, CollectToPushHeld, PutBlobHeld, PutSegmentHeld, EndedHeld, NotePushedHeld,
     KeepPushedHeld DEF PushStep
<1>4. ASSUME NEW p \in Process, ForgetSyncState(p) PROVE FALSE
  <2>1. forgets \in Nat /\ forgets < 0
    BY <1>4 DEF ForgetSyncState, IInv, TypeOK
  <2> QED
    BY <2>1
<1>5. ASSUME NEW p \in Process, RecordForget(p) PROVE FALSE
  BY <1>5 DEF RecordForget, HeldInv, NoRemovals
<1>6. CASE UNCHANGED vars
  <2>1. UNCHANGED <<log, minted, segments, remote, job>>
    BY <1>6 DEF vars
  <2>2. Keeps /\ NoRemovals'
    BY <2>1, KeepsWithLogs DEF HeldInv, NoRemovals
  <2> QED
    BY <2>1, <2>2, MarksStay, JobHeldStays DEF HeldInv
<1> QED
  BY <1>1, <1>2, <1>3, <1>4, <1>5, <1>6, RecordOpHeld, StartSyncHeld, EndedHeld DEF Next

\* What a machine holds, where nothing was removed.
LEMMA HeldInductive ==
    ASSUME MaxForgets = 0
    PROVE  Spec => [](IInv /\ HeldInv)
<1>1. Init => HeldInv
  BY DEF Init, HeldInv, NoRemovals, MarkedIsHeld, JobHeld, Idle
<1> QED
  BY <1>1, NextHeld, Invariance, PTL DEF Spec

\* A segment marked merged is never read again, and need not be: the log has
\* all of it, however many processes of a machine read, merge, push and fail.
\* It takes a removal in the middle of a pull to break that.
THEOREM AppliedAlwaysHeld ==
    ASSUME MaxForgets = 0
    PROVE  Spec => []AppliedIsHeld
<1>1. IInv /\ HeldInv => AppliedIsHeld
  BY HeldIsLive DEF HeldInv, MarkedIsHeld, AppliedIsHeld
<1> QED
  BY <1>1, HeldInductive, PTL

\* A machine with nothing left to push, read or merge says what the remote says.
LEMMA SyncedSaysRemote ==
    ASSUME IInv, HeldInv, NEW m \in Machine, Synced(m)
    PROVE  Says(m) = Statements(OpsIn(DOMAIN remote))
<1>1. \A r \in log[m].rows : /\ OpOf(r) \in minted /\ OpOf(r).id = r.id /\ OpOf(r).addr = r.addr
                             /\ OpOf(r).kind # "forget"
                             /\ OpOf(r) \in LiveOps(log[m].rows)
  BY HeldIsLive DEF IInv, LogsOK, OpOf, LiveOps, HeldInv, NoRemovals
<1>2. ASSUME NEW s \in Says(m) PROVE s \in Statements(OpsIn(DOMAIN remote))
  <2>1. PICK o \in LiveOps(log[m].rows) : o.kind # "forget" /\ s = SaidBy(o)
    BY DEF Says, Statements
  <2>2. o.id \in known[m]
    BY <2>1 DEF Synced, ToPush
  <2>3. PICK q \in OpsIn(DOMAIN remote) : q.id = o.id
    BY <2>2 DEF IInv, KnownIsRemote
  <2>4. q \in minted /\ o \in minted
    BY <1>1, RemoteBlobNames DEF LiveOps, Live
  <2>5. q = o
    BY <2>3, <2>4 DEF IInv, MintedOK, OneIdEach
  <2> QED
    BY <2>1, <2>3, <2>5 DEF Statements
<1>3. ASSUME NEW s \in Statements(OpsIn(DOMAIN remote)) PROVE s \in Says(m)
  <2>1. PICK o \in OpsIn(DOMAIN remote) : o.kind # "forget" /\ s = SaidBy(o)
    BY DEF Statements
  <2>2. PICK n \in DOMAIN remote : o \in remote[n]
    BY DEF OpsIn
  <2>3. n \in DOMAIN segments[m] /\ segments[m][n]
    BY <2>2 DEF Synced, Unread, Unapplied
  <2>4. PICK r \in log[m].rows : Matches(r, o)
    BY <2>2, <2>3 DEF HeldInv, MarkedIsHeld, IsHeld
  <2>5. o \in minted
    BY RemoteBlobNames
  <2>6. r.id = o.id => OpOf(r) = o
    BY <1>1, <2>4, <2>5 DEF IInv, MintedOK, OneIdEach
  <2>7. SaidBy(OpOf(r)) = SaidBy(o)
    BY <1>1, <2>4, <2>6 DEF Matches, SameAddress, SaidBy
  <2> QED
    BY <1>1, <2>1, <2>4, <2>7 DEF Says, Statements
<1> QED
  BY <1>2, <1>3

\* Machines with nothing left to push or pull say the same things.
THEOREM SyncedAlwaysAgree ==
    ASSUME MaxForgets = 0
    PROVE  Spec => []SyncedAgree
<1>1. IInv /\ HeldInv => SyncedAgree
  BY SyncedSaysRemote DEF SyncedAgree, Says
<1> QED
  BY <1>1, HeldInductive, PTL
----------------------------------------------------------------------------
(* Each operation in one segment, as long as nothing is removed.             *)

\* Of a push, the older of two operations has the lower rank.
LEMMA RanksInOrder ==
    ASSUME NEW ops \in SUBSET Op, IsFiniteSet(ops), NEW x \in ops, NEW y \in ops,
           x.id < y.id
    PROVE  RankIn(ops, x) < RankIn(ops, y)
<1> DEFINE S == {z \in ops : z.id < x.id}
           T == {z \in ops : z.id < y.id}
<1>1. \A z \in ops : z.id \in Nat
  BY IdsAreNumbers DEF Op
<1>2. S \in SUBSET T /\ x \in T /\ x \notin S
  BY <1>1
<1>3. IsFiniteSet(T)
  BY FS_Subset
<1>4. Cardinality(S) < Cardinality(T)
  BY <1>2, <1>3, SmallerSubset
<1> QED
  BY <1>4 DEF RankIn

\* The segments of a push divide it in id order.
LEMMA SegmentsInOrder ==
    ASSUME NEW ops \in SUBSET Op, IsFiniteSet(ops), OneIdEach(ops),
           NEW i \in FirstIds(ops)
    PROVE  /\ \E g \in SegmentAt(ops, i) : g.id = i
           /\ \A o \in SegmentAt(ops, i) : i <= o.id
           /\ \A k \in FirstIds(ops) : i < k =>
                 \A x \in SegmentAt(ops, i), y \in SegmentAt(ops, k) : x.id < y.id
<1> DEFINE R(o) == RankIn(ops, o)
<1>0. \A o \in ops : o.id \in Nat /\ R(o) \in Nat
  BY RankIsNat, IdsAreNumbers DEF Op
<1>1. ASSUME NEW k \in FirstIds(ops)
      PROVE  \E q \in ops : /\ q.id = k /\ R(q) % SegmentOps = 0
                            /\ SegmentAt(ops, k) =
                                 {o \in ops : R(o) \div SegmentOps = R(q) \div SegmentOps}
  <2>1. PICK q \in ops : q.id = k /\ R(q) % SegmentOps = 0
    BY DEF FirstIds
  <2>2. (CHOOSE o \in ops : o.id = k) = q
    BY <2>1 DEF OneIdEach
  <2> QED
    BY <2>1, <2>2 DEF SegmentAt, SegmentOf
<1>2. \A x, y \in ops : x.id < y.id => R(x) < R(y)
  BY RanksInOrder
<1>3. PICK p \in ops : /\ p.id = i /\ R(p) % SegmentOps = 0
                       /\ SegmentAt(ops, i) =
                            {o \in ops : R(o) \div SegmentOps = R(p) \div SegmentOps}
  BY <1>1
<1>4. ASSUME NEW r \in Nat, NEW s \in Nat, r % SegmentOps = 0, s < r
      PROVE  s \div SegmentOps < r \div SegmentOps
  BY <1>4, SegmentsCarrySome
<1> HIDE DEF R
<1>5. \A o \in SegmentAt(ops, i) : i <= o.id
  <2> SUFFICES ASSUME NEW o \in ops, R(o) \div SegmentOps = R(p) \div SegmentOps, o.id < p.id
               PROVE  FALSE
    BY <1>0, <1>3
  <2>1. R(o) < R(p) /\ R(o) \in Nat /\ R(p) \in Nat
    BY <1>0, <1>2
  <2>2. R(o) \div SegmentOps < R(p) \div SegmentOps
    BY <1>3, <1>4, <2>1
  <2> QED
    BY <2>1, <2>2, SegmentsCarrySome
<1>6. ASSUME NEW k \in FirstIds(ops), i < k,
             NEW x \in SegmentAt(ops, i), NEW y \in SegmentAt(ops, k)
      PROVE  x.id < y.id
  <2>1. PICK q \in ops : /\ q.id = k /\ R(q) % SegmentOps = 0
                         /\ SegmentAt(ops, k) =
                              {o \in ops : R(o) \div SegmentOps = R(q) \div SegmentOps}
    BY <1>1
  <2>2. x \in ops /\ y \in ops /\ R(p) < R(q)
    BY <1>2, <1>3, <1>6, <2>1
  <2>3. R(p) \div SegmentOps < R(q) \div SegmentOps
    BY <1>0, <1>4, <2>1, <2>2
  <2>4. R(x) \div SegmentOps < R(y) \div SegmentOps
    BY <1>3, <2>1, <2>3
  <2>5. x.id # y.id
    BY <2>2, <2>4, <1>0, SegmentsCarrySome DEF OneIdEach
  <2>6. ASSUME y.id < x.id PROVE FALSE
    <3>1. R(y) < R(x) /\ R(x) \in Nat /\ R(y) \in Nat
      BY <1>0, <1>2, <2>2, <2>6
    <3>2. R(y) \div SegmentOps <= R(x) \div SegmentOps
      BY <3>1, SegmentsCarrySome
    <3> QED
      BY <3>1, <3>2, <2>4, SegmentsCarrySome
  <2> QED
    BY <1>0, <2>2, <2>5, <2>6
<1>7. p \in SegmentAt(ops, i)
  BY <1>3
<1> QED
  BY <1>3, <1>5, <1>6, <1>7

\* Of a push, the segments of two firsts have nothing in common.
LEMMA SegmentsApart ==
    ASSUME NEW ops \in SUBSET Op, IsFiniteSet(ops), OneIdEach(ops),
           NEW i \in FirstIds(ops), NEW k \in FirstIds(ops),
           NEW o \in SegmentAt(ops, i), o \in SegmentAt(ops, k)
    PROVE  i = k
<1>0. \A p \in ops : p.id \in Nat
  BY IdsAreNumbers DEF Op
<1>1. i \in Nat /\ k \in Nat /\ o.id \in Nat
  <2>1. o \in ops
    BY SegmentIsSome DEF Some
  <2> QED
    BY <2>1, <1>0 DEF FirstIds
<1>2. ~(i < k) /\ ~(k < i)
  BY <1>1, SegmentsInOrder
<1> QED
  BY <1>1, <1>2

InLog(m, op) == \E r \in log[m].rows : OpOf(r) = op

Pushing(m, op) ==
    \E p \in Process : On[p] = m /\ job[p].at \in {"put", "known"} /\ op \in job[p].ops

\* The operation is the machine's to write: its log has it and the machine does
\* not know it to be on the remote, or it is in a push already.
Mine(m, op) == (InLog(m, op) /\ op.id \notin known[m]) \/ Pushing(m, op)

OnRemote(op) == \E n \in DOMAIN remote : op \in remote[n]

Waiting(m, op) == Mine(m, op) /\ ~OnRemote(op)

\* No operation before this one, nor this one, was replaced by an older one.
Undisturbed(op) == op \in minted /\ ~Overtaken(op)

\* An operation is one machine's to write, and no other machine wrote it.
OneOwner == \A m, x \in Machine, op \in minted : Mine(m, op) /\ Mine(x, op) => m = x

OwnersWrite ==
    \A m \in Machine, n \in DOMAIN remote : \A op \in remote[n] :
        Mine(m, op) => n.writer = m

IdsKnown(m, n) == \A op \in remote[n] : op.id \in known[m]

ReadIsKnown ==
    \A m \in Machine : \A n \in DOMAIN segments[m] : IdsKnown(m, n)

\* What a machine wrote or is about to write its log has, if undisturbed.
OwnInLog ==
    /\ \A n \in DOMAIN remote : \A op \in remote[n] : Undisturbed(op) => InLog(n.writer, op)
    /\ \A m \in Machine, op \in minted : Pushing(m, op) /\ Undisturbed(op) => InLog(m, op)

\* A machine writes its operations in id order.
WrittenInOrder ==
    \A n \in DOMAIN remote : \A x \in remote[n], y \in minted :
        Undisturbed(x) /\ Waiting(n.writer, y) => x.id < y.id

\* What the theorem says of the undisturbed operations.
UndisturbedOnce ==
    \A n, s \in DOMAIN remote : \A op \in remote[n] \cap remote[s] :
        Undisturbed(op) => n = s

\* With an operation of a segment its writer knows the undisturbed ones after it.
KnownWhole ==
    \A n \in DOMAIN remote : \A x, y \in remote[n] :
        Undisturbed(x) /\ y.id < x.id /\ y.id \in known[n.writer] => x.id \in known[n.writer]

\* A segment goes by the oldest id in it.
NamedByFirst ==
    \A n \in DOMAIN remote :
        /\ n.writer \in Machine
        /\ \E g \in remote[n] : g.id = n.first
        /\ \A o \in remote[n] : n.first <= o.id

\* What a job has read or written is known; a push leaves out nothing older
\* that waits, and takes with an undisturbed operation of a segment that is there
\* all that is older in it.
JobOwn(p) ==
    LET j == job[p]
        m == On[p]
    IN  /\ j.at = "keep" => IdsKnown(m, j.name)
        /\ j.at = "merge" => \A n \in j.names : IdsKnown(m, n)
        /\ j.at = "record" => \A i \in j.firsts : IdsKnown(m, ObjectName(p, i))
        /\ j.at = "put" =>
            \A x \in j.ops : Undisturbed(x) =>
                /\ \A y \in minted : y.id < x.id /\ Waiting(m, y) => y \in j.ops
                /\ \A n \in DOMAIN remote : \A y \in remote[n] :
                      n.writer = m /\ x \in remote[n] /\ y.id < x.id => y \in j.ops

OwnInv ==
    /\ NoRemovals
    /\ OneOwner
    /\ OwnersWrite
    /\ ReadIsKnown
    /\ OwnInLog
    /\ WrittenInOrder
    /\ UndisturbedOnce
    /\ KnownWhole
    /\ NamedByFirst
    /\ \A p \in Process : JobOwn(p)

LEMMA RemoteOpsMinted ==
    ASSUME IInv
    PROVE  /\ \A n \in DOMAIN remote : remote[n] \in SUBSET minted
           /\ \A op : OnRemote(op) <=> op \in OpsIn(DOMAIN remote)
           /\ \A x, y \in minted : x.id = y.id => x = y
           /\ \A x \in minted : x.id \in Nat
<1>1. \A x \in minted : x.id \in Nat
  BY IdsAreNumbers DEF IInv, TypeOK, Op
<1>2. \A op : OnRemote(op) <=> op \in OpsIn(DOMAIN remote)
  BY DEF OnRemote, OpsIn
<1> QED
  BY <1>1, <1>2 DEF IInv, RemoteOK, MintedOK, OneIdEach

\* What is older than an undisturbed operation is undisturbed.
LEMMA OlderUndisturbed ==
    ASSUME IInv, NEW x \in minted, NEW y \in minted, Undisturbed(x), y.id <= x.id
    PROVE  Undisturbed(y)
<1> SUFFICES ASSUME NEW o \in minted, NEW p \in minted,
                    SameAddress(o, p), o.id < p.id, p.id <= y.id
             PROVE  FALSE
  BY DEF Undisturbed, Overtaken
<1>1. p.id <= x.id
  BY RemoteOpsMinted
<1> QED
  BY <1>1 DEF Undisturbed, Overtaken

LEMMA UndisturbedShrinks ==
    ASSUME minted \subseteq minted', NEW op \in minted, Undisturbed(op)'
    PROVE  Undisturbed(op)
  BY DEF Undisturbed, Overtaken

\* What the machine's log has is minted, and so is what it is to write.
LEMMA MineMinted ==
    ASSUME IInv, NEW m \in Machine, NEW op
    PROVE  /\ InLog(m, op) => op \in minted
           /\ Pushing(m, op) => op \in minted
           /\ Mine(m, op) => op \in minted
  BY DEF InLog, Pushing, Mine, IInv, LogsOK, JobsOK, JobOK, Pushable

\* What is known to a machine is on the remote.
LEMMA KnownOnRemote ==
    ASSUME IInv, NEW m \in Machine, NEW op \in minted, op.id \in known[m]
    PROVE  OnRemote(op)
<1>1. PICK o \in OpsIn(DOMAIN remote) : o.id = op.id
  BY DEF IInv, KnownIsRemote
<1>2. o = op
  BY <1>1, RemoteOpsMinted DEF OnRemote
<1> QED
  BY <1>1, <1>2, RemoteOpsMinted

\* What waits is in the log, where it is undisturbed, and so it is pushed next.
LEMMA WaitingIsToPush ==
    ASSUME IInv, OwnInv, NEW m \in Machine, NEW op \in minted, Undisturbed(op),
           InLog(m, op) \/ Mine(m, op), op.id \notin known[m]
    PROVE  op \in ToPush(m)
<1>1. InLog(m, op)
  BY DEF OwnInv, OwnInLog, Mine
<1>2. PICK r \in log[m].rows : OpOf(r) = op
  BY <1>1 DEF InLog
<1>3. r \in Live(log[m].rows)
  BY HeldIsLive DEF OwnInv
<1> QED
  BY <1>2, <1>3 DEF ToPush, LiveOps

\* Recording a batch brings a log the batch and nothing else, and takes nothing
\* undisturbed from it.
LEMMA RecordKeepsOwn ==
    ASSUME IInv, NoRemovals, NEW m \in Machine, NEW ops \in SUBSET minted',
           minted \subseteq minted', Batch(log[m], ops),
           log' = [log EXCEPT ![m] = Record(@, ops)],
           NEW x \in Machine, NEW op
    PROVE  /\ InLog(x, op)' => InLog(x, op) \/ (x = m /\ op \in ops)
           /\ InLog(x, op) /\ Undisturbed(op)' => InLog(x, op)'
<1> DEFINE l == log[m]
           new == Written(l.rows, ops)
<1>1. WellFormed(l) /\ log = [y \in Machine |-> log[y]]
  BY DEF IInv, LogsOK
<1>2. log'[m] = Record(l, ops) /\ \A y \in Machine : y # m => log'[y] = log[y]
  BY <1>1
<1>3. CASE x # m
  BY <1>2, <1>3 DEF InLog
<1>4. ASSUME x = m, InLog(x, op)' PROVE InLog(x, op) \/ op \in ops
  <2>1. PICK r \in Record(l, ops).rows : OpOf(r) = op
    BY <1>2, <1>4 DEF InLog
  <2>2. CASE r \in Kept(l.rows, new)
    BY <2>1, <2>2, <1>4 DEF Kept, InLog
  <2>3. CASE r \notin Kept(l.rows, new)
    <3>1. PICK o \in ops, k \in Nat : o \in Op /\ r = AtPosition(o, k)
      BY <2>3, <1>1, RecordedRow
    <3> QED
      BY <3>1, <2>1, PlacedRow
  <2> QED
    BY <2>2, <2>3
<1>5. ASSUME x = m, InLog(x, op), Undisturbed(op)' PROVE InLog(x, op)'
  <2>1. PICK r \in l.rows : OpOf(r) = op
    BY <1>5 DEF InLog
  <2>2. OpOf(r).id = r.id /\ OpOf(r).addr = r.addr /\ op \in minted /\ r.id \in Nat
    BY <2>1, RemoteOpsMinted DEF OpOf, IInv, LogsOK
  <2>3. ASSUME NEW o \in new, Matches(r, o) PROVE FALSE
    <3>1. o \in ops /\ ~Answers(l.rows, o)
      BY DEF Written
    <3>2. ~Forgotten(l.rows, r)
      BY HeldIsLive
    <3>3. ~(r.id <= o.id) /\ o.id \in Nat
      <4>1. o.id \in Nat
        BY <3>1, IdsAreNumbers DEF Batch, Op
      <4> QED
        BY <4>1, <3>1, <3>2, <2>3 DEF Answers
    <3>4. SameAddress(o, op) /\ o.id < op.id
      BY <3>3, <2>1, <2>2, <2>3 DEF Matches, SameAddress
    <3> QED
      BY <3>1, <3>4, <2>1, <2>2, <1>5 DEF Undisturbed, Overtaken
  <2>4. r \in Kept(l.rows, new)
    BY <2>3 DEF Kept
  <2>5. r \in Record(l, ops).rows
    BY <2>4, <1>1, RecordRows
  <2> QED
    BY <2>1, <2>5, <1>2, <1>5 DEF InLog
<1> QED
  BY <1>3, <1>4, <1>5

\* A step of one job that leaves the remote and what is recorded alone.
LEMMA OwnStep ==
    ASSUME IInv, OwnInv, UNCHANGED <<minted, remote>>,
           NEW p \in Process, NEW j, Goto(p, j), j.at # "forget", JobOwn(p)',
           \A x \in Machine : known[x] \subseteq known'[x],
           \A x \in Machine : \A n \in DOMAIN segments'[x] : IdsKnown(x, n)',
           \A x \in Machine, op \in minted :
              /\ InLog(x, op)' /\ op.id \notin known'[x] => InLog(x, op)
              /\ InLog(x, op) /\ Undisturbed(op) => InLog(x, op)',
           j.at \in {"put", "known"} => \A op \in j.ops :
              Pushing(On[p], op) \/ (InLog(On[p], op) /\ op.id \notin known[On[p]]),
           KnownWhole'
    PROVE  OwnInv'
<1>1. On[p] \in Machine /\ job'[p] = j /\ \A q \in Process : q # p => job'[q] = job[q]
  BY ProcessesRunSomewhere DEF Goto, IInv, TypeOK
<1>2. /\ \A op : OnRemote(op)' <=> OnRemote(op)
      /\ \A op : Undisturbed(op)' <=> Undisturbed(op)
  BY DEF OnRemote, Undisturbed, Overtaken
<1>3. ASSUME NEW x \in Machine, NEW op \in minted, Pushing(x, op)'
      PROVE  \/ Pushing(x, op)
             \/ InLog(x, op) /\ op.id \notin known[x]
  <2>1. PICK q \in Process : On[q] = x /\ job'[q].at \in {"put", "known"} /\ op \in job'[q].ops
    BY <1>3 DEF Pushing
  <2>2. CASE q = p
    BY <2>1, <2>2, <1>1
  <2>3. CASE q # p
    BY <2>1, <2>3, <1>1 DEF Pushing
  <2> QED
    BY <2>2, <2>3
<1>4. ASSUME NEW x \in Machine, NEW op \in minted, Mine(x, op)'
      PROVE  Mine(x, op)
  BY <1>3, <1>4 DEF Mine
<1>5. NoRemovals'
  BY NoRemovalStep DEF OwnInv
<1>6. OneOwner'
  BY <1>4 DEF OwnInv, OneOwner
<1>7. OwnersWrite'
  BY <1>4, RemoteOpsMinted DEF OwnInv, OwnersWrite
<1>8. ReadIsKnown'
  BY DEF ReadIsKnown
<1>9. OwnInLog'
  <2>1. ASSUME NEW n \in DOMAIN remote, NEW op \in remote[n], Undisturbed(op)
        PROVE  InLog(n.writer, op)'
    BY <2>1, RemoteOpsMinted DEF OwnInv, OwnInLog, NamedByFirst
  <2>2. ASSUME NEW x \in Machine, NEW op \in minted, Pushing(x, op)', Undisturbed(op)
        PROVE  InLog(x, op)'
    BY <2>2, <1>3 DEF OwnInv, OwnInLog
  <2> QED
    BY <2>1, <2>2, <1>2 DEF OwnInLog
<1>10. WrittenInOrder'
  <2> SUFFICES ASSUME NEW n \in DOMAIN remote, NEW x \in remote[n], NEW y \in minted,
                      Undisturbed(x), Waiting(n.writer, y)'
               PROVE  x.id < y.id
    BY <1>2 DEF WrittenInOrder
  <2>1. Waiting(n.writer, y)
    BY <1>2, <1>4 DEF Waiting, OwnInv, NamedByFirst
  <2> QED
    BY <2>1 DEF OwnInv, WrittenInOrder
<1>11. UndisturbedOnce' /\ NamedByFirst'
  BY <1>2 DEF OwnInv, UndisturbedOnce, NamedByFirst
<1>12. ASSUME NEW q \in Process, q # p PROVE JobOwn(q)'
  <2> DEFINE m == On[q]
  <2>1. m \in Machine /\ JobOwn(q) /\ job'[q] = job[q]
    BY <1>1, <1>12, ProcessesRunSomewhere DEF OwnInv
  <2>2. \A n : IdsKnown(m, n) => IdsKnown(m, n)'
    BY <2>1 DEF IdsKnown
  <2>3. \A y \in minted : Waiting(m, y)' => Waiting(m, y)
    BY <1>2, <1>4, <2>1 DEF Waiting
  <2>4. \A k : ObjectName(q, k)' = ObjectName(q, k)
    BY DEF ObjectName
  <2> QED
    BY <1>2, <2>1, <2>2, <2>3, <2>4 DEF JobOwn
<1>13. \A q \in Process : JobOwn(q)'
  BY <1>12
<1> QED
  BY <1>5, <1>6, <1>7, <1>8, <1>9, <1>10, <1>11, <1>13 DEF OwnInv

\* Nothing but the job, and perhaps blobs, changes.
LEMMA OwnQuiet ==
    ASSUME IInv, OwnInv, UNCHANGED <<log, minted, known, segments, remote>>,
           NEW p \in Process, NEW j, Goto(p, j), j.at # "forget", JobOwn(p)',
           j.at \in {"put", "known"} => \A op \in j.ops :
              Pushing(On[p], op) \/ (InLog(On[p], op) /\ op.id \notin known[On[p]])
    PROVE  OwnInv'
<1>1. \A x, op : InLog(x, op)' <=> InLog(x, op)
  BY DEF InLog
<1>2. \A x \in Machine : \A n \in DOMAIN segments'[x] : IdsKnown(x, n)'
  BY DEF OwnInv, ReadIsKnown, IdsKnown
<1>3. KnownWhole'
  BY DEF OwnInv, KnownWhole, Undisturbed, Overtaken
<1> QED
  BY <1>1, <1>2, <1>3, OwnStep

LEMMA IdleOwn ==
    ASSUME IInv, NEW p \in Process, Goto(p, Idle)
    PROVE  JobOwn(p)' /\ Idle.at = "idle"
<1>1. job'[p] = Idle
  BY DEF Goto, IInv, TypeOK
<1> QED
  BY <1>1 DEF JobOwn, Idle

LEMMA RecordOpOwn ==
    ASSUME IInv, OwnInv, NEW m \in Machine, RecordOp(m)
    PROVE  OwnInv'
<1>1. PICK op \in Op : op.kind # "forget" /\ Accept(m, op)
  BY DEF RecordOp
<1>2. /\ log' = [log EXCEPT ![m] = Record(@, {op})] /\ minted' = minted \cup {op}
      /\ UNCHANGED <<segments, known, remote, job>>
  BY <1>1 DEF RecordOp, Accept
<1>3. Batch(log[m], {op}) /\ NoRemovals
  BY <1>1, MintedBatch DEF OwnInv
<1>4. op \notin minted /\ \A r \in log[m].rows : r.id < op.id
  BY <1>1 DEF Accept, Mintable
<1>5. ASSUME NEW x \in Machine, NEW o
      PROVE  /\ InLog(x, o)' => InLog(x, o) \/ (x = m /\ o = op)
             /\ InLog(x, o) /\ Undisturbed(o)' => InLog(x, o)'
  BY <1>2, <1>3, RecordKeepsOwn
<1>6. ASSUME NEW o, InLog(m, o) PROVE o.id < op.id
  BY <1>4, <1>6 DEF InLog, OpOf
<1>7. /\ \A o : OnRemote(o)' <=> OnRemote(o)
      /\ \A x, o : Pushing(x, o)' <=> Pushing(x, o)
      /\ \A x, n : IdsKnown(x, n)' <=> IdsKnown(x, n)
  BY <1>2 DEF OnRemote, Pushing, IdsKnown
<1>8. \A o \in minted : Undisturbed(o)' => Undisturbed(o)
  BY <1>2, UndisturbedShrinks
<1>9. ASSUME NEW x \in Machine, NEW o, Mine(x, o)'
      PROVE  Mine(x, o) \/ (x = m /\ o = op)
  BY <1>2, <1>5, <1>7, <1>9 DEF Mine
<1>10. ASSUME NEW x \in Machine PROVE ~Mine(x, op)
  BY <1>4, MineMinted
<1>11. NoRemovals' /\ ReadIsKnown'
  BY <1>1, <1>2, <1>7 DEF OwnInv, NoRemovals, ReadIsKnown
<1>12. OneOwner'
  <2> SUFFICES ASSUME NEW x \in Machine, NEW y \in Machine, NEW o,
                      Mine(x, o)', Mine(y, o)'
               PROVE  x = y
    BY DEF OneOwner
  <2>1. CASE o = op
    BY <2>1, <1>9, <1>10
  <2>2. CASE o # op
    BY <2>2, <1>9, MineMinted DEF OwnInv, OneOwner
  <2> QED
    BY <2>1, <2>2
<1>13. OwnersWrite'
  <2> SUFFICES ASSUME NEW x \in Machine, NEW n \in DOMAIN remote, NEW o \in remote[n],
                      Mine(x, o)'
               PROVE  n.writer = x
    BY <1>2 DEF OwnersWrite
  <2>1. Mine(x, o)
    BY <1>4, <1>9, RemoteOpsMinted
  <2> QED
    BY <2>1 DEF OwnInv, OwnersWrite
<1>14. OwnInLog'
  <2>1. ASSUME NEW n \in DOMAIN remote, NEW o \in remote[n], Undisturbed(o)'
        PROVE  InLog(n.writer, o)'
    <3>1. Undisturbed(o) /\ n.writer \in Machine
      BY <2>1, <1>8, RemoteOpsMinted DEF OwnInv, NamedByFirst
    <3> QED
      BY <3>1, <2>1, <1>5 DEF OwnInv, OwnInLog
  <2>2. ASSUME NEW x \in Machine, NEW o, Pushing(x, o), Undisturbed(o)'
        PROVE  InLog(x, o)'
    <3>1. o \in minted /\ Undisturbed(o)
      BY <2>2, <1>8, MineMinted
    <3> QED
      BY <3>1, <2>2, <1>5 DEF OwnInv, OwnInLog
  <2> QED
    BY <2>1, <2>2, <1>2, <1>7 DEF OwnInLog
<1>15. WrittenInOrder'
  <2> SUFFICES ASSUME NEW n \in DOMAIN remote, NEW x \in remote[n], NEW y,
                      Undisturbed(x)', Waiting(n.writer, y)'
               PROVE  x.id < y.id
    BY <1>2 DEF WrittenInOrder
  <2>1. /\ Undisturbed(x) /\ n.writer \in Machine /\ Mine(n.writer, y)' /\ ~OnRemote(y)
        /\ InLog(n.writer, x)
    BY <1>7, <1>8, RemoteOpsMinted DEF Waiting, OwnInv, NamedByFirst, OwnInLog
  <2>2. CASE y = op /\ n.writer = m
    BY <2>1, <2>2, <1>6
  <2>3. CASE Mine(n.writer, y)
    BY <2>1, <2>3, MineMinted DEF Waiting, OwnInv, WrittenInOrder
  <2> QED
    BY <2>1, <2>2, <2>3, <1>9
<1>16. UndisturbedOnce' /\ NamedByFirst' /\ KnownWhole'
  <2>1. \A n \in DOMAIN remote : \A o \in remote[n] : Undisturbed(o)' => Undisturbed(o)
    BY <1>8, RemoteOpsMinted
  <2> QED
    BY <2>1, <1>2 DEF OwnInv, UndisturbedOnce, NamedByFirst, KnownWhole
<1>17. ASSUME NEW p \in Process PROVE JobOwn(p)'
  <2> DEFINE j == job[p]
             x == On[p]
  <2>1. JobOwn(p) /\ x \in Machine /\ \A k : ObjectName(p, k)' = ObjectName(p, k)
    BY ProcessesRunSomewhere DEF OwnInv, ObjectName
  <2>2. ASSUME j.at = "put", NEW o \in j.ops, Undisturbed(o)'
        PROVE  /\ \A y \in minted' : y.id < o.id /\ Waiting(x, y)' => y \in j.ops
               /\ \A n \in DOMAIN remote : \A y \in remote[n] :
                     n.writer = x /\ o \in remote[n] /\ y.id < o.id => y \in j.ops
    <3>1. Pushing(x, o)
      BY <2>2 DEF Pushing
    <3>2. o \in minted /\ Undisturbed(o) /\ InLog(x, o)
      BY <3>1, <2>1, <2>2, <1>8, MineMinted DEF OwnInv, OwnInLog
    <3>3. ASSUME NEW y \in minted', y.id < o.id, Waiting(x, y)' PROVE y \in j.ops
      <4>1. CASE y = op /\ x = m
        <5>1. o.id < op.id /\ o.id \in Nat /\ op.id \in Nat
          BY <4>1, <3>2, <1>6, RemoteOpsMinted, IdsAreNumbers DEF Op
        <5> QED
          BY <5>1, <4>1, <3>3
      <4>2. CASE Mine(x, y)
        <5>1. y \in minted /\ Waiting(x, y)
          BY <4>2, <3>3, <2>1, <1>7, MineMinted DEF Waiting
        <5> QED
          BY <5>1, <3>2, <3>3, <2>1, <2>2 DEF JobOwn
      <4> QED
        BY <4>1, <4>2, <3>3, <2>1, <1>9 DEF Waiting
    <3> QED
      BY <3>2, <3>3, <2>1, <2>2 DEF JobOwn
  <2> QED
    BY <2>1, <2>2, <1>2, <1>7 DEF JobOwn
<1> QED
  BY <1>11, <1>12, <1>13, <1>14, <1>15, <1>16, <1>17 DEF OwnInv

LEMMA StartSyncOwn ==
    ASSUME IInv, OwnInv, NEW p \in Process, NEW goal \in {"pull", "push"},
           StartSync(p, goal)
    PROVE  OwnInv'
<1> DEFINE j == [at |-> "fetch", goal |-> goal, todo |-> Unread(On[p])]
<1>1. Goto(p, j) /\ UNCHANGED <<log, minted, known, segments, remote>> /\ j.at = "fetch"
  BY DEF StartSync, store
<1>2. job'[p].at = "fetch"
  BY <1>1 DEF Goto, IInv, TypeOK
<1>3. JobOwn(p)'
  BY <1>2 DEF JobOwn
<1> HIDE DEF j
<1> QED
  BY <1>1, <1>3, OwnQuiet

LEMMA FetchSegmentOwn ==
    ASSUME IInv, OwnInv, NEW p \in Process, FetchSegment(p)
    PROVE  OwnInv'
<1> DEFINE j(n) == [at |-> "note", goal |-> job[p].goal, todo |-> job[p].todo \ {n},
                    name |-> n, merged |-> HoldsAll(On[p], remote[n])]
<1>1. PICK n \in job[p].todo : Goto(p, j(n))
  BY DEF FetchSegment
<1>2. UNCHANGED <<log, minted, known, segments, remote>> /\ j(n).at = "note"
  BY DEF FetchSegment, store
<1>3. job'[p].at = "note"
  BY <1>1, <1>2 DEF Goto, IInv, TypeOK
<1>4. JobOwn(p)'
  BY <1>3 DEF JobOwn
<1> HIDE DEF j
<1> QED
  BY <1>1, <1>2, <1>4, OwnQuiet

\* What a job notes of the remote is known to its machine from then on.
LEMMA NotesGrow ==
    ASSUME IInv, NEW p \in Process, NEW ids, known' = [known EXCEPT ![On[p]] = @ \cup ids]
    PROVE  /\ known'[On[p]] = known[On[p]] \cup ids
           /\ \A x \in Machine : x # On[p] => known'[x] = known[x]
  BY ProcessesRunSomewhere DEF IInv, TypeOK

\* Whole segments are noted: one that was fetched, or those of a push.
LEMMA OwnNotes ==
    ASSUME IInv, OwnInv, UNCHANGED <<log, minted, segments, remote>>,
           NEW p \in Process, NEW j, Goto(p, j), j.at \in {"keep", "record"}, JobOwn(p)',
           NEW ops \in SUBSET minted,
           \A o \in ops : \E n \in DOMAIN remote : o \in remote[n] /\ remote[n] \subseteq ops,
           known' = [known EXCEPT ![On[p]] = @ \cup {o.id : o \in ops}]
    PROVE  OwnInv'
<1> DEFINE m == On[p]
<1>1. /\ m \in Machine /\ known'[m] = known[m] \cup {o.id : o \in ops}
      /\ \A x \in Machine : x # m => known'[x] = known[x]
  BY NotesGrow, ProcessesRunSomewhere
<1>2. \A x \in Machine : known[x] \subseteq known'[x]
  BY <1>1
<1>3. \A x \in Machine : \A n \in DOMAIN segments'[x] : IdsKnown(x, n)'
  BY <1>2 DEF OwnInv, ReadIsKnown, IdsKnown
<1>4. \A x, op : InLog(x, op)' <=> InLog(x, op)
  BY DEF InLog
<1>5. KnownWhole'
  <2> SUFFICES ASSUME NEW n \in DOMAIN remote, NEW x \in remote[n], NEW y \in remote[n],
                      Undisturbed(x), y.id < x.id, y.id \in known'[n.writer]
               PROVE  x.id \in known'[n.writer]
    BY DEF KnownWhole, Undisturbed, Overtaken
  <2>1. n.writer \in Machine /\ x \in minted /\ y \in minted
    BY RemoteOpsMinted DEF OwnInv, NamedByFirst
  <2>2. CASE y.id \in known[n.writer]
    BY <2>1, <2>2, <1>2 DEF OwnInv, KnownWhole
  <2>3. CASE n.writer = m /\ y.id \in {o.id : o \in ops}
    <3>1. y \in ops
      BY <2>1, <2>3, RemoteOpsMinted
    <3>2. PICK s \in DOMAIN remote : y \in remote[s] /\ remote[s] \subseteq ops
      BY <3>1
    <3>3. Undisturbed(y)
      BY <2>1, OlderUndisturbed, RemoteOpsMinted
    <3>4. s = n
      BY <3>2, <3>3 DEF OwnInv, UndisturbedOnce
    <3> QED
      BY <3>2, <3>4, <2>3, <1>1
  <2> QED
    BY <2>1, <2>2, <2>3, <1>1
<1>6. j.at # "forget" /\ j.at \notin {"put", "known"}
  OBVIOUS
<1> QED
  BY <1>2, <1>3, <1>4, <1>5, <1>6, OwnStep

LEMMA NoteFetchedOwn ==
    ASSUME IInv, OwnInv, NEW p \in Process, NoteFetched(p)
    PROVE  OwnInv'
<1> DEFINE j == [job[p] EXCEPT !.at = "keep"]
           ops == remote[job[p].name]
<1>1. job[p] \in Job /\ job[p].at = "note" /\ JobOK(p)
  BY DEF IInv, TypeOK, JobsOK, NoteFetched
<1>2. /\ UNCHANGED <<log, minted, segments, remote>> /\ Goto(p, j)
      /\ known' = [known EXCEPT ![On[p]] = @ \cup {o.id : o \in ops}]
  BY DEF NoteFetched
<1>3. job[p] \in [at : {"note", "keep"}, goal : {"pull", "push"},
                  todo : SUBSET Name, name : Name, merged : BOOLEAN]
  BY <1>1, JobShapes
<1>4. /\ job'[p].at = "keep" /\ job'[p].name = job[p].name /\ j.at = "keep"
      /\ job[p].name \in DOMAIN remote
  BY <1>1, <1>2, <1>3 DEF Goto, IInv, TypeOK, JobOK, IsOnRemote
<1>5. known'[On[p]] = known[On[p]] \cup {o.id : o \in ops}
  BY <1>2, NotesGrow
<1>6. IdsKnown(On[p], job[p].name)'
  BY <1>2, <1>4, <1>5 DEF IdsKnown
<1>7. JobOwn(p)'
  BY <1>4, <1>6 DEF JobOwn
<1>8. ops \in SUBSET minted
  BY <1>4, RemoteOpsMinted
<1> HIDE DEF j
<1> QED
  BY <1>2, <1>4, <1>7, <1>8, OwnNotes

LEMMA NotePushedOwn ==
    ASSUME IInv, OwnInv, NEW p \in Process, NotePushed(p)
    PROVE  OwnInv'
<1> DEFINE ops == job[p].ops
           j == [at |-> "record", firsts |-> FirstIds(ops)]
<1>1. job[p] \in Job /\ job[p].at = "known" /\ JobOK(p)
  BY DEF IInv, TypeOK, JobsOK, NotePushed
<1>2. /\ UNCHANGED <<log, minted, segments, remote>> /\ Goto(p, j)
      /\ known' = [known EXCEPT ![On[p]] = @ \cup {o.id : o \in ops}]
  BY DEF NotePushed
<1>3. ops \in SUBSET minted /\ PutSoFar(p, ops, {})
  BY <1>1 DEF JobOK, Pushable
<1>4. ops \in SUBSET Op /\ IsFiniteSet(ops) /\ OneIdEach(ops)
  BY <1>3, FS_Subset DEF IInv, TypeOK, MintedOK, OneIdEach
<1>5. PICK F : F = FirstIds(ops)
  OBVIOUS
<1>6. job'[p].at = "record" /\ job'[p].firsts = F /\ j.at = "record"
  BY <1>2, <1>5 DEF Goto, IInv, TypeOK
<1>7. \A i \in F : /\ ObjectName(p, i) \in DOMAIN remote
                   /\ remote[ObjectName(p, i)] = SegmentAt(ops, i)
                   /\ remote[ObjectName(p, i)] \subseteq ops
  BY <1>3, <1>4, <1>5, SegmentIsSome DEF PutSoFar, IsOnRemote, Some
<1>8. known'[On[p]] = known[On[p]] \cup {o.id : o \in ops}
  BY <1>2, NotesGrow
<1>9. \A i \in F : IdsKnown(On[p], ObjectName(p, i))'
  BY <1>2, <1>7, <1>8 DEF IdsKnown, ObjectName
<1>10. JobOwn(p)'
  BY <1>6, <1>9 DEF JobOwn
<1>11. \A o \in ops : \E n \in DOMAIN remote : o \in remote[n] /\ remote[n] \subseteq ops
  BY <1>4, <1>5, <1>7, SegmentsCover
<1> HIDE DEF j
<1> QED
  BY <1>2, <1>3, <1>6, <1>10, <1>11, OwnNotes

\* What is marked and what is recorded as read is known already.
LEMMA OwnReads ==
    ASSUME IInv, OwnInv, UNCHANGED <<log, minted, known, remote>>,
           NEW p \in Process, NEW j, Goto(p, j), j.at \in {"idle", "fetch", "mark", "record"},
           JobOwn(p)', NEW read, segments' = [segments EXCEPT ![On[p]] = read],
           \A n \in DOMAIN read : n \in DOMAIN segments[On[p]] \/ IdsKnown(On[p], n)
    PROVE  OwnInv'
<1>1. On[p] \in Machine /\ segments = [x \in Machine |-> segments[x]]
  BY ProcessesRunSomewhere DEF IInv, SegmentsOK
<1>2. /\ segments'[On[p]] = read
      /\ \A x \in Machine : x # On[p] => segments'[x] = segments[x]
  BY <1>1
<1>3. ASSUME NEW x \in Machine, NEW n \in DOMAIN segments'[x]
      PROVE  IdsKnown(x, n)'
  <2>1. IdsKnown(x, n)
    BY <1>2 DEF OwnInv, ReadIsKnown
  <2> QED
    BY <2>1 DEF IdsKnown
<1>4. /\ \A x, op : InLog(x, op)' <=> InLog(x, op)
      /\ KnownWhole'
      /\ j.at # "forget" /\ j.at \notin {"put", "known"}
  BY DEF InLog, OwnInv, KnownWhole, Undisturbed, Overtaken
<1> QED
  BY <1>3, <1>4, OwnStep

LEMMA KeepFetchedOwn ==
    ASSUME IInv, OwnInv, NEW p \in Process, KeepFetched(p)
    PROVE  OwnInv'
<1> DEFINE j == [at |-> "fetch", goal |-> job[p].goal, todo |-> job[p].todo]
           m == On[p]
           read == [n \in DOMAIN segments[m] \cup {job[p].name} |->
                       IF n \in DOMAIN segments[m] THEN segments[m][n] ELSE job[p].merged]
<1>1. job[p].at = "keep" /\ JobOwn(p) /\ m \in Machine
  BY ProcessesRunSomewhere DEF KeepFetched, OwnInv
<1>2. /\ UNCHANGED <<log, minted, known, remote>> /\ Goto(p, j)
      /\ segments' = [segments EXCEPT ![m] = read]
  BY <1>1 DEF KeepFetched, IInv, SegmentsOK
<1>3. job'[p].at = "fetch" /\ j.at = "fetch"
  BY <1>2 DEF Goto, IInv, TypeOK
<1>4. JobOwn(p)'
  BY <1>3 DEF JobOwn
<1>5. \A n \in DOMAIN read : n \in DOMAIN segments[m] \/ IdsKnown(m, n)
  BY <1>1 DEF JobOwn
<1> HIDE DEF j, read
<1> QED
  BY <1>2, <1>3, <1>4, <1>5, OwnReads

LEMMA SelectUnappliedOwn ==
    ASSUME IInv, OwnInv, NEW p \in Process, SelectUnapplied(p)
    PROVE  OwnInv'
<1> DEFINE names == Unapplied(On[p])
<1>1. Goto(p, MergeJob(names)) /\ UNCHANGED <<log, known, segments, minted, remote>>
  BY DEF SelectUnapplied
<1>2. PICK N : N = names
  OBVIOUS
<1>3. job'[p] = MergeJob(N)
  BY <1>1, <1>2 DEF Goto, IInv, TypeOK
<1>4. On[p] \in Machine /\ \A n \in N : IdsKnown(On[p], n)
  BY <1>2, ProcessesRunSomewhere DEF Unapplied, OwnInv, ReadIsKnown
<1>5. JobOwn(p)'
  BY <1>1, <1>3, <1>4 DEF JobOwn, MergeJob, Idle, IdsKnown
<1>6. MergeJob(N).at \in {"idle", "merge"}
  BY DEF MergeJob, Idle
<1> QED
  BY <1>1, <1>2, <1>5, <1>6, OwnQuiet

LEMMA MergeSegmentsOwn ==
    ASSUME IInv, OwnInv, NEW p \in Process, MergeSegments(p)
    PROVE  OwnInv'
<1> DEFINE m == On[p]
           ops == OpsIn(job[p].names)
           j == [job[p] EXCEPT !.at = "mark"]
<1>1. /\ job[p] \in Job /\ job[p].at = "merge" /\ JobOK(p) /\ JobOwn(p) /\ m \in Machine
  BY ProcessesRunSomewhere DEF IInv, TypeOK, JobsOK, MergeSegments, OwnInv
<1>2. /\ UNCHANGED <<known, segments, minted, remote>> /\ Goto(p, j)
      /\ log' = [log EXCEPT ![m] = Record(@, ops)]
  BY DEF MergeSegments
<1>3. job[p] \in [at : {"merge", "mark"}, names : Some(Name)]
  BY <1>1, JobShapes
<1>4. j.at = "mark" /\ job'[p].at = "mark"
  BY <1>2, <1>3 DEF Goto, IInv, TypeOK
<1>5. JobOwn(p)'
  BY <1>4 DEF JobOwn
<1>6. \A op \in ops : op.id \in known[m]
  BY <1>1 DEF JobOwn, OpsIn, IdsKnown
<1>7. ops \in SUBSET minted /\ Batch(log[m], ops)
  <2>1. ops \in SUBSET minted
    BY <1>1, RemoteBlobNames DEF JobOK
  <2> QED
    BY <2>1, <1>1, ArrivingBatch
<1>8. NoRemovals /\ \A op : Undisturbed(op)' <=> Undisturbed(op)
  BY <1>2 DEF OwnInv, Undisturbed, Overtaken
<1> HIDE DEF j, ops
<1>9. ASSUME NEW x \in Machine, NEW op \in minted
      PROVE  /\ InLog(x, op)' /\ op.id \notin known'[x] => InLog(x, op)
             /\ InLog(x, op) /\ Undisturbed(op) => InLog(x, op)'
  BY <1>1, <1>2, <1>6, <1>7, <1>8, RecordKeepsOwn
<1>10. \A x \in Machine : \A n \in DOMAIN segments'[x] : IdsKnown(x, n)'
  BY <1>2 DEF OwnInv, ReadIsKnown, IdsKnown
<1>11. KnownWhole'
  BY <1>2 DEF OwnInv, KnownWhole, Undisturbed, Overtaken
<1> QED
  BY <1>2, <1>4, <1>5, <1>9, <1>10, <1>11, OwnStep

LEMMA MarkAppliedOwn ==
    ASSUME IInv, OwnInv, NEW p \in Process, MarkApplied(p)
    PROVE  OwnInv'
<1> DEFINE m == On[p]
           marked(n) == [s \in DOMAIN segments[m] |-> s = n \/ segments[m][s]]
           j(n) == IF job[p].names = {n} THEN Idle ELSE [job[p] EXCEPT !.names = @ \ {n}]
<1>1. job[p] \in Job /\ job[p].at = "mark" /\ m \in Machine
  BY ProcessesRunSomewhere DEF IInv, TypeOK, MarkApplied
<1>2. PICK n \in job[p].names :
        segments' = [segments EXCEPT ![m] = marked(n)] /\ Goto(p, j(n))
  BY <1>1 DEF MarkApplied, IInv, SegmentsOK
<1>3. UNCHANGED <<log, minted, known, remote>>
  BY DEF MarkApplied
<1>4. job[p] \in [at : {"merge", "mark"}, names : Some(Name)]
  BY <1>1, JobShapes
<1>5. j(n).at \in {"idle", "mark"} /\ job'[p] = j(n)
  BY <1>1, <1>2, <1>4 DEF Goto, IInv, TypeOK, Idle
<1>6. JobOwn(p)'
  BY <1>5 DEF JobOwn
<1>7. DOMAIN marked(n) = DOMAIN segments[m]
  OBVIOUS
<1> HIDE DEF j, marked
<1> QED
  BY <1>2, <1>3, <1>5, <1>6, <1>7, OwnReads

LEMMA KeepPushedOwn ==
    ASSUME IInv, OwnInv, NEW p \in Process, KeepPushed(p)
    PROVE  OwnInv'
<1> DEFINE m == On[p]
           read(i) == [n \in DOMAIN segments[m] \cup {ObjectName(p, i)} |->
                          n = ObjectName(p, i) \/ segments[m][n]]
           j(i) == IF job[p].firsts = {i} THEN Idle
                   ELSE [job[p] EXCEPT !.firsts = @ \ {i}]
<1>1. job[p] \in Job /\ job[p].at = "record" /\ JobOwn(p) /\ m \in Machine
  BY ProcessesRunSomewhere DEF IInv, TypeOK, KeepPushed, OwnInv
<1>2. PICK i \in job[p].firsts :
        segments' = [segments EXCEPT ![m] = read(i)] /\ Goto(p, j(i))
  BY <1>1 DEF KeepPushed, IInv, SegmentsOK
<1>3. UNCHANGED <<log, minted, known, remote>>
  BY DEF KeepPushed
<1>4. job[p] \in [at : {"record"}, firsts : Some(Ids)]
  BY <1>1, JobShapes
<1>5. /\ j(i).at \in {"idle", "record"} /\ job'[p] = j(i)
      /\ j(i).at = "record" => j(i).firsts \subseteq job[p].firsts
  BY <1>1, <1>2, <1>4 DEF Goto, IInv, TypeOK, Idle
<1>6. \A k \in job[p].firsts : IdsKnown(m, ObjectName(p, k))
  BY <1>1 DEF JobOwn
<1>7. JobOwn(p)'
  <2>1. \A k : ObjectName(p, k)' = ObjectName(p, k)
    BY DEF ObjectName
  <2>2. \A n : IdsKnown(m, n)' <=> IdsKnown(m, n)
    BY <1>3 DEF IdsKnown
  <2> HIDE DEF j
  <2> QED
    BY <2>1, <2>2, <1>5, <1>6 DEF JobOwn
<1>8. \A n \in DOMAIN read(i) : n \in DOMAIN segments[m] \/ IdsKnown(m, n)
  BY <1>2, <1>6
<1> HIDE DEF j, read
<1> QED
  BY <1>2, <1>3, <1>5, <1>7, <1>8, OwnReads

\* A push that is refused, and a job that fails, write nothing.
LEMMA EndedOwn ==
    ASSUME IInv, OwnInv, NEW p \in Process, PutRefused(p) \/ Fail(p)
    PROVE  OwnInv'
<1>1. Goto(p, Idle) /\ UNCHANGED <<log, minted, known, segments, remote>>
  BY DEF PutRefused, Fail, store
<1>2. JobOwn(p)' /\ Idle.at = "idle"
  BY <1>1, IdleOwn
<1> QED
  BY <1>1, <1>2, OwnQuiet

LEMMA CollectToPushOwn ==
    ASSUME IInv, OwnInv, NEW p \in Process, CollectToPush(p)
    PROVE  OwnInv'
<1> DEFINE m == On[p]
           put(ops) == [at |-> "put", ops |-> ops, blobs |-> BlobsOf(ops) \ rblobs,
                        firsts |-> FirstIds(ops)]
           j(ops) == IF ops = {} THEN Idle ELSE put(ops)
<1>1. PICK ops : ops = ToPush(m)
  OBVIOUS
<1>2. Goto(p, j(ops)) /\ UNCHANGED <<log, minted, known, segments, remote>> /\ m \in Machine
  BY <1>1, ProcessesRunSomewhere DEF CollectToPush, store
<1>3. \A op \in ops : InLog(m, op) /\ op.id \notin known[m] /\ op \in minted
  BY <1>1, <1>2, MineMinted DEF ToPush, LiveOps, Live, InLog
<1>4. /\ j(ops).at \in {"idle", "put"} /\ job'[p] = j(ops)
      /\ j(ops).at = "put" => j(ops).ops = ops
  BY <1>2 DEF Goto, IInv, TypeOK, Idle
<1>5. /\ \A op : OnRemote(op)' <=> OnRemote(op)
      /\ \A op : Undisturbed(op)' <=> Undisturbed(op)
  BY <1>2 DEF OnRemote, Undisturbed, Overtaken
<1>6. ASSUME NEW y \in minted, Undisturbed(y), Mine(m, y) \/ InLog(m, y), y.id \notin known[m]
      PROVE  y \in ops
  BY <1>1, <1>2, <1>6, WaitingIsToPush
<1>7. ASSUME NEW x \in ops, Undisturbed(x), NEW y \in minted, y.id < x.id, Waiting(m, y)'
      PROVE  y \in ops
  <2>1. Undisturbed(y)
    BY <1>3, <1>7, OlderUndisturbed, RemoteOpsMinted
  <2>2. ~OnRemote(y) /\ Mine(m, y)'
    BY <1>5, <1>7 DEF Waiting
  <2>3. y.id \notin known[m]
    BY <2>2, <1>2, KnownOnRemote
  <2>4. CASE InLog(m, y)
    BY <2>1, <2>3, <2>4, <1>6
  <2>5. CASE ~InLog(m, y)
    <3>1. PICK q \in Process : /\ On[q] = m /\ job'[q].at \in {"put", "known"}
                               /\ y \in job'[q].ops
      BY <2>2, <2>5, <1>2 DEF Mine, InLog, Pushing
    <3>2. CASE q = p
      BY <3>1, <3>2, <1>4
    <3>3. CASE q # p
      <4>1. Pushing(m, y)
        BY <3>1, <3>3, <1>2 DEF Pushing, Goto, IInv, TypeOK
      <4> QED
        BY <4>1, <2>1, <2>3, <1>6 DEF Mine
    <3> QED
      BY <3>2, <3>3
  <2> QED
    BY <2>4, <2>5
<1>8. ASSUME NEW x \in ops, Undisturbed(x), NEW n \in DOMAIN remote, NEW y \in remote[n],
             n.writer = m, x \in remote[n], y.id < x.id
      PROVE  y \in ops
  <2>1. y \in minted /\ Undisturbed(y)
    BY <1>3, <1>8, OlderUndisturbed, RemoteOpsMinted
  <2>2. InLog(m, y)
    BY <2>1, <1>8 DEF OwnInv, OwnInLog
  <2>3. y.id \notin known[m]
    BY <1>3, <1>8 DEF OwnInv, KnownWhole
  <2> QED
    BY <2>1, <2>2, <2>3, <1>6
<1> HIDE DEF j
<1>9. JobOwn(p)'
  BY <1>2, <1>4, <1>5, <1>7, <1>8 DEF JobOwn
<1> QED
  BY <1>2, <1>3, <1>4, <1>9, OwnQuiet

LEMMA PutBlobOwn ==
    ASSUME IInv, OwnInv, NEW p \in Process, PutBlob(p)
    PROVE  OwnInv'
<1> DEFINE j(b) == [job[p] EXCEPT !.blobs = @ \ {b}]
<1>1. PICK b \in job[p].blobs : Goto(p, j(b))
  BY DEF PutBlob
<1>2. UNCHANGED <<log, minted, known, segments, remote>>
  BY DEF PutBlob, store
<1>3. job[p] \in Job /\ job[p].at = "put" /\ JobOwn(p)
  BY DEF IInv, TypeOK, PutBlob, OwnInv
<1>4. job[p] \in [at : {"put"}, ops : Some(Op), blobs : SUBSET BlobName, firsts : Some(Ids)]
  BY <1>3, JobShapes
<1>5. j(b).at = "put" /\ j(b).ops = job[p].ops /\ job'[p] = j(b)
  BY <1>1, <1>3, <1>4 DEF Goto, IInv, TypeOK
<1>6. ASSUME NEW x, NEW y, Waiting(x, y)' PROVE Waiting(x, y)
  <2>1. ASSUME Pushing(x, y)' PROVE Pushing(x, y)
    <3>1. PICK q \in Process : On[q] = x /\ job'[q].at \in {"put", "known"} /\ y \in job'[q].ops
      BY <2>1 DEF Pushing
    <3>2. job[q].at \in {"put", "known"} /\ y \in job[q].ops
      BY <3>1, <1>1, <1>3, <1>5 DEF Goto, IInv, TypeOK
    <3> QED
      BY <3>1, <3>2 DEF Pushing
  <2> QED
    BY <2>1, <1>2, <1>6 DEF Waiting, Mine, InLog, OnRemote
<1>7. \A op : Undisturbed(op)' <=> Undisturbed(op)
  BY <1>2 DEF Undisturbed, Overtaken
<1>8. JobOwn(p)'
  BY <1>2, <1>3, <1>5, <1>6, <1>7 DEF JobOwn
<1>9. \A op \in job[p].ops : Pushing(On[p], op)
  BY <1>3 DEF Pushing
<1> HIDE DEF j
<1> QED
  BY <1>1, <1>2, <1>5, <1>8, <1>9, OwnQuiet

\* A segment that is new to the remote has no undisturbed operation that is not.
LEMMA SegmentIsNew ==
    ASSUME IInv, OwnInv, NEW p \in Process, job[p].at = "put",
           NEW i \in job[p].firsts, \A k \in job[p].firsts : i <= k,
           ObjectName(p, i) \notin DOMAIN remote,
           NEW x \in SegmentAt(job[p].ops, i), Undisturbed(x)
    PROVE  ~OnRemote(x)
<1> DEFINE m == On[p]
           ops == job[p].ops
<1>1. m \in Machine /\ JobOK(p) /\ JobOwn(p) /\ job[p] \in Job
  BY ProcessesRunSomewhere DEF IInv, TypeOK, JobsOK, OwnInv
<1>2. /\ ops \in SUBSET minted /\ i \in FirstIds(ops)
      /\ PutSoFar(p, ops, job[p].firsts)
  BY <1>1 DEF JobOK, Pushable
<1>3. ops \in SUBSET Op /\ IsFiniteSet(ops) /\ OneIdEach(ops)
  BY <1>2, FS_Subset DEF IInv, TypeOK, MintedOK, OneIdEach
<1>4. PICK f \in SegmentAt(ops, i) : f.id = i
  BY <1>2, <1>3, SegmentsInOrder
<1>5. x \in ops /\ f \in ops /\ f.id <= x.id
  BY <1>2, <1>3, <1>4, SegmentIsSome, SegmentsInOrder DEF Some
<1>6. \A o \in ops : Mine(m, o) /\ o \in minted
  BY <1>2 DEF Mine, Pushing
<1>7. Undisturbed(f)
  BY <1>5, <1>6, OlderUndisturbed
<1>8. ASSUME NEW n \in DOMAIN remote, f \in remote[n] PROVE FALSE
  <2>1. n.writer = m /\ n \in Name
    BY <1>1, <1>5, <1>6, <1>8 DEF OwnInv, OwnersWrite, IInv, TypeOK
  <2>2. PICK g \in remote[n] : g.id = n.first /\ n.first <= f.id
    BY <1>8 DEF OwnInv, NamedByFirst
  <2>3. n = [writer |-> m, first |-> g.id]
    BY <2>1, <2>2 DEF Name
  <2>4. g.id # i
    BY <2>3 DEF ObjectName
  <2>5. g \in minted /\ g.id < f.id /\ g.id \in Nat /\ i \in Nat
    BY <2>2, <2>4, <1>4, <1>5, <1>6, RemoteOpsMinted
  <2>6. g \in ops
    BY <2>1, <2>5, <1>1, <1>5, <1>7, <1>8 DEF JobOwn
  <2>7. PICK k \in FirstIds(ops) : g \in SegmentAt(ops, k)
    BY <2>6, <1>3, SegmentsCover
  <2>8. k <= g.id /\ k \in Nat
    BY <2>7, <1>2, <1>3, RemoteOpsMinted, SegmentsInOrder DEF FirstIds
  <2>9. k \notin job[p].firsts
    BY <2>5, <2>8, <1>4
  <2>10. ObjectName(p, k) \in DOMAIN remote /\ remote[ObjectName(p, k)] = SegmentAt(ops, k)
    BY <2>7, <2>9, <1>2 DEF PutSoFar, IsOnRemote
  <2>11. Undisturbed(g)
    BY <2>5, <1>5, <1>6, <1>7, OlderUndisturbed, RemoteOpsMinted
  <2>12. n = ObjectName(p, k)
    BY <2>2, <2>7, <2>10, <2>11 DEF OwnInv, UndisturbedOnce
  <2>13. f \in SegmentAt(ops, k)
    BY <2>10, <2>12, <1>8
  <2>14. k = i
    BY <2>7, <2>13, <1>2, <1>3, <1>4, SegmentsApart
  <2> QED
    BY <2>9, <2>14
<1>9. ASSUME NEW n \in DOMAIN remote, x \in remote[n] PROVE FALSE
  <2>1. n.writer = m
    BY <1>1, <1>5, <1>6, <1>9 DEF OwnInv, OwnersWrite
  <2>2. Waiting(m, f)
    BY <1>5, <1>6, <1>8 DEF Waiting, OnRemote
  <2>3. x.id < f.id
    BY <2>1, <2>2, <1>5, <1>6, <1>9 DEF OwnInv, WrittenInOrder
  <2> QED
    BY <2>3, <1>5, <1>6, RemoteOpsMinted
<1> QED
  BY <1>9 DEF OnRemote

\* What a push writes comes before all that its machine still has to write.
LEMMA SegmentIsNext ==
    ASSUME IInv, OwnInv, NEW p \in Process, job[p].at = "put",
           NEW i \in job[p].firsts, \A k \in job[p].firsts : i <= k,
           NEW x \in SegmentAt(job[p].ops, i), Undisturbed(x),
           NEW y \in minted, Waiting(On[p], y), y \notin SegmentAt(job[p].ops, i)
    PROVE  x.id < y.id
<1> DEFINE ops == job[p].ops
<1>1. JobOK(p) /\ JobOwn(p)
  BY DEF IInv, JobsOK, OwnInv
<1>2. /\ ops \in SUBSET minted /\ i \in FirstIds(ops)
      /\ PutSoFar(p, ops, job[p].firsts)
  BY <1>1 DEF JobOK, Pushable
<1>3. ops \in SUBSET Op /\ IsFiniteSet(ops) /\ OneIdEach(ops)
  BY <1>2, FS_Subset DEF IInv, TypeOK, MintedOK, OneIdEach
<1>4. x \in ops /\ x.id \in Nat /\ y.id \in Nat /\ x.id # y.id
  <2>1. x \in ops /\ x \in minted /\ x # y
    BY <1>2, <1>3, SegmentIsSome DEF Some
  <2> QED
    BY <2>1, RemoteOpsMinted
<1>5. ASSUME y.id < x.id PROVE FALSE
  <2>1. y \in ops
    BY <1>1, <1>4, <1>5 DEF JobOwn
  <2>2. PICK k \in FirstIds(ops) : y \in SegmentAt(ops, k)
    BY <2>1, <1>3, SegmentsCover
  <2>3. k \in Nat /\ i \in Nat
    BY <1>2, RemoteOpsMinted DEF FirstIds
  <2>4. CASE k \in job[p].firsts
    <3>1. i < k
      BY <2>2, <2>3, <2>4
    <3> QED
      BY <3>1, <2>2, <1>2, <1>3, <1>4, <1>5, SegmentsInOrder
  <2>5. CASE k \notin job[p].firsts
    BY <2>2, <2>5, <1>2 DEF PutSoFar, IsOnRemote, Waiting, OnRemote
  <2> QED
    BY <2>4, <2>5
<1> QED
  BY <1>4, <1>5

LEMMA PutSegmentOwn ==
    ASSUME IInv, OwnInv, NEW p \in Process, PutSegment(p)
    PROVE  OwnInv'
<1> DEFINE m == On[p]
           ops == job[p].ops
           new(i) == ObjectName(p, i)
           j(i) == IF job[p].firsts = {i} THEN [at |-> "known", ops |-> ops]
                   ELSE [job[p] EXCEPT !.firsts = @ \ {i}]
<1>1. PICK i \in job[p].firsts :
        /\ i \in FirstIds(ops)
        /\ Grows
        /\ DOMAIN remote' = DOMAIN remote \cup {new(i)}
        /\ remote'[new(i)] = SegmentAt(ops, i)
        /\ \A k \in job[p].firsts : i <= k
        /\ Goto(p, j(i))
        /\ job[p].at = "put" /\ job[p].blobs = {}
        /\ UNCHANGED <<log, blobs, known, segments, minted, rblobs, bounds>>
  BY SegmentIsPut
<1>2. PICK s : s = new(i)
  OBVIOUS
<1>3. PICK S : S = SegmentAt(ops, i)
  OBVIOUS
<1>4. /\ job[p] \in Job /\ JobOK(p) /\ m \in Machine
      /\ s.writer = m /\ s.first = i
  BY <1>2, ProcessesRunSomewhere DEF IInv, TypeOK, JobsOK, ObjectName
<1>5. job[p] \in [at : {"put"}, ops : Some(Op), blobs : SUBSET BlobName, firsts : Some(Ids)]
  BY <1>1, <1>4, JobShapes
<1>6. /\ DOMAIN remote' = DOMAIN remote \cup {s} /\ remote'[s] = S
      /\ \A n \in DOMAIN remote : remote'[n] = remote[n]
  BY <1>1, <1>2, <1>3 DEF Grows
<1>7. ops \in SUBSET Op /\ ops \in SUBSET minted /\ IsFiniteSet(ops) /\ OneIdEach(ops)
  BY <1>1, <1>4, <1>5, FS_Subset DEF JobOK, Pushable, Some, IInv, MintedOK, OneIdEach
<1>8. /\ S \in SUBSET ops
      /\ \E g \in S : g.id = i
      /\ \A o \in S : i <= o.id
  BY <1>1, <1>3, <1>7, SegmentIsSome, SegmentsInOrder DEF Some
<1>9. \A op \in ops : op \in minted /\ Pushing(m, op) /\ Mine(m, op)
  BY <1>1, <1>7 DEF Pushing, Mine
<1>10. ASSUME s \notin DOMAIN remote, NEW op \in S, Undisturbed(op) PROVE ~OnRemote(op)
  BY <1>1, <1>2, <1>3, <1>10, SegmentIsNew
<1>11. /\ job'[p] = j(i) /\ j(i).at \in {"put", "known"} /\ j(i).ops = ops
       /\ \A q \in Process : q # p => job'[q] = job[q]
  BY <1>1, <1>4, <1>5 DEF Goto, IInv, TypeOK
<1>12. ASSUME NEW x, NEW op
       PROVE  /\ Pushing(x, op)' => Pushing(x, op)
              /\ Mine(x, op)' => Mine(x, op)
              /\ InLog(x, op)' <=> InLog(x, op)
  <2>1. ASSUME Pushing(x, op)' PROVE Pushing(x, op)
    <3>1. PICK q \in Process : On[q] = x /\ job'[q].at \in {"put", "known"} /\ op \in job'[q].ops
      BY <2>1 DEF Pushing
    <3>2. job[q].at \in {"put", "known"} /\ op \in job[q].ops
      BY <3>1, <1>1, <1>11
    <3> QED
      BY <3>1, <3>2 DEF Pushing
  <2> QED
    BY <2>1, <1>1 DEF Mine, InLog
<1>13. \A op : Undisturbed(op)' <=> Undisturbed(op)
  BY <1>1 DEF Undisturbed, Overtaken
<1>14. \A op : OnRemote(op)' <=> OnRemote(op) \/ op \in S
  BY <1>6 DEF OnRemote
<1>15. ASSUME NEW x, NEW y, Waiting(x, y)' PROVE Waiting(x, y) /\ y \notin S
  BY <1>12, <1>14, <1>15 DEF Waiting
<1>16. ASSUME NEW n \in DOMAIN remote' PROVE n \in DOMAIN remote \/ (n = s /\ s \notin DOMAIN remote)
  BY <1>6
<1>17. \A x, n : n \in DOMAIN remote => (IdsKnown(x, n)' <=> IdsKnown(x, n))
  BY <1>1, <1>6 DEF IdsKnown
<1>18. NoRemovals'
  <2>1. j(i).at # "forget"
    BY <1>11
  <2> HIDE DEF j
  <2> QED
    BY <1>1, <2>1, NoRemovalStep DEF OwnInv
<1>19. OneOwner'
  BY <1>1, <1>12 DEF OwnInv, OneOwner
<1>20. OwnersWrite'
  <2> SUFFICES ASSUME NEW x \in Machine, NEW n \in DOMAIN remote', NEW op \in remote'[n],
                      Mine(x, op)
               PROVE  n.writer = x
    BY <1>12 DEF OwnersWrite
  <2>1. CASE n \in DOMAIN remote
    BY <2>1, <1>6 DEF OwnInv, OwnersWrite
  <2>2. CASE n = s
    BY <2>2, <1>4, <1>6, <1>8, <1>9 DEF OwnInv, OneOwner
  <2> QED
    BY <2>1, <2>2, <1>16
<1>21. ReadIsKnown'
  <2>1. \A x \in Machine : segments'[x] = segments[x] /\ DOMAIN segments[x] \in SUBSET DOMAIN remote
    BY <1>1 DEF IInv, SegmentsOK
  <2> QED
    BY <2>1, <1>17 DEF OwnInv, ReadIsKnown
<1>22. OwnInLog'
  <2>1. ASSUME NEW n \in DOMAIN remote', NEW op \in remote'[n], Undisturbed(op)
        PROVE  InLog(n.writer, op)
    <3>1. CASE n \in DOMAIN remote
      BY <3>1, <2>1, <1>6 DEF OwnInv, OwnInLog
    <3>2. CASE n = s
      BY <3>2, <2>1, <1>4, <1>6, <1>8, <1>9 DEF OwnInv, OwnInLog
    <3> QED
      BY <3>1, <3>2, <1>16
  <2>2. \A x \in Machine, op \in minted :
           Pushing(x, op)' /\ Undisturbed(op) => InLog(x, op)
    BY <1>12 DEF OwnInv, OwnInLog
  <2> QED
    BY <2>1, <2>2, <1>1, <1>12, <1>13 DEF OwnInLog
<1>23. WrittenInOrder'
  <2> SUFFICES ASSUME NEW n \in DOMAIN remote', NEW x \in remote'[n], NEW y \in minted,
                      Undisturbed(x), Waiting(n.writer, y), y \notin S
               PROVE  x.id < y.id
    BY <1>1, <1>13, <1>15 DEF WrittenInOrder
  <2>1. CASE n \in DOMAIN remote
    BY <2>1, <1>6 DEF OwnInv, WrittenInOrder
  <2>2. CASE n = s
    BY <2>2, <1>1, <1>3, <1>4, <1>6, SegmentIsNext
  <2> QED
    BY <2>1, <2>2, <1>16
<1>24. UndisturbedOnce'
  <2> SUFFICES ASSUME NEW n \in DOMAIN remote', NEW t \in DOMAIN remote',
                      NEW op \in remote'[n] \cap remote'[t], Undisturbed(op)
               PROVE  n = t
    BY <1>13 DEF UndisturbedOnce
  <2>1. CASE n \in DOMAIN remote /\ t \in DOMAIN remote
    BY <2>1, <1>6 DEF OwnInv, UndisturbedOnce
  <2>2. CASE n \notin DOMAIN remote \/ t \notin DOMAIN remote
    BY <2>2, <1>6, <1>10, <1>16 DEF OnRemote
  <2> QED
    BY <2>1, <2>2
<1>25. KnownWhole'
  <2> SUFFICES ASSUME NEW n \in DOMAIN remote', NEW x \in remote'[n], NEW y \in remote'[n],
                      Undisturbed(x), y.id < x.id, y.id \in known[n.writer]
               PROVE  x.id \in known[n.writer]
    BY <1>1, <1>13 DEF KnownWhole
  <2>1. CASE n \in DOMAIN remote
    BY <2>1, <1>6 DEF OwnInv, KnownWhole
  <2>2. CASE n = s /\ s \notin DOMAIN remote
    <3>1. x \in minted /\ y \in minted /\ y \in S /\ y.id <= x.id
      BY <2>2, <1>6, <1>8, <1>9, RemoteOpsMinted
    <3>2. Undisturbed(y)
      BY <3>1, OlderUndisturbed
    <3> QED
      BY <3>1, <3>2, <2>2, <1>4, <1>10, KnownOnRemote
  <2> QED
    BY <2>1, <2>2, <1>16
<1>26. NamedByFirst'
  <2>1. ASSUME NEW n \in DOMAIN remote'
        PROVE  /\ n.writer \in Machine
               /\ \E g \in remote'[n] : g.id = n.first
               /\ \A o \in remote'[n] : n.first <= o.id
    <3>1. CASE n \in DOMAIN remote
      BY <3>1, <1>6 DEF OwnInv, NamedByFirst
    <3>2. CASE n = s
      BY <3>2, <1>4, <1>6, <1>8
    <3> QED
      BY <3>1, <3>2, <1>16
  <2> QED
    BY <2>1 DEF NamedByFirst
<1>27. ASSUME NEW q \in Process PROVE JobOwn(q)'
  <2> DEFINE x == On[q]
             J == job[q]
  <2>1. x \in Machine /\ JobOwn(q) /\ JobOK(q) /\ \A k : ObjectName(q, k)' = ObjectName(q, k)
    BY ProcessesRunSomewhere DEF OwnInv, IInv, JobsOK, ObjectName
  <2>2. ASSUME J.at = "put", NEW o \in J.ops, Undisturbed(o)
        PROVE  /\ \A y \in minted : y.id < o.id /\ Waiting(x, y)' => y \in J.ops
               /\ \A n \in DOMAIN remote' : \A y \in remote'[n] :
                     n.writer = x /\ o \in remote'[n] /\ y.id < o.id => y \in J.ops
    <3>1. \A y \in minted : y.id < o.id /\ Waiting(x, y) => y \in J.ops
      BY <2>1, <2>2 DEF JobOwn
    <3>2. ASSUME NEW n \in DOMAIN remote', NEW y \in remote'[n],
                 n.writer = x, o \in remote'[n], y.id < o.id
          PROVE  y \in J.ops
      <4>1. CASE n \in DOMAIN remote
        BY <4>1, <3>2, <2>1, <2>2, <1>6 DEF JobOwn
      <4>2. CASE n = s /\ s \notin DOMAIN remote
        <5>1. /\ y \in S /\ y \in minted /\ o \in minted /\ y.id <= o.id
              /\ x = m /\ Mine(m, y)
          BY <4>2, <3>2, <1>4, <1>6, <1>8, <1>9, RemoteOpsMinted
        <5>2. Undisturbed(y)
          BY <5>1, <2>2, OlderUndisturbed
        <5>3. Waiting(x, y)
          BY <5>1, <5>2, <4>2, <1>10 DEF Waiting
        <5> QED
          BY <5>1, <5>3, <3>1, <3>2
      <4> QED
        BY <4>1, <4>2, <1>16
    <3> QED
      BY <3>1, <3>2, <1>15
  <2>3. CASE q = p
    <3>1. job'[q].at \in {"put", "known"} /\ job'[q].ops = J.ops /\ J.at = "put"
      BY <2>3, <1>1, <1>11
    <3> HIDE DEF j
    <3> QED
      BY <3>1, <2>2, <1>1, <1>13 DEF JobOwn
  <2>4. CASE q # p
    <3>1. job'[q] = J
      BY <2>4, <1>11
    <3>2. J.at = "keep" => IdsKnown(x, J.name)'
      BY <3>1, <2>1, <1>17 DEF JobOwn, JobOK, IsOnRemote
    <3>3. J.at = "merge" => \A n \in J.names : IdsKnown(x, n)'
      BY <2>1, <1>17 DEF JobOwn, JobOK
    <3>4. J.at = "record" => \A k \in J.firsts : IdsKnown(x, ObjectName(q, k))'
      BY <2>1, <1>17 DEF JobOwn, JobOK, IsOnRemote
    <3> QED
      BY <3>1, <3>2, <3>3, <3>4, <2>1, <2>2, <1>1, <1>13 DEF JobOwn
  <2> QED
    BY <2>3, <2>4
<1> QED
  BY <1>18, <1>19, <1>20, <1>21, <1>22, <1>23, <1>24, <1>25, <1>26, <1>27 DEF OwnInv

\* No step but a removal's spoils it, however many processes a machine runs.
LEMMA NextOwn ==
    ASSUME IInv, OwnInv, MaxForgets = 0, [Next]_vars
    PROVE  OwnInv'
<1>1. ASSUME NEW m \in Machine, RecordOp(m) PROVE OwnInv'
  BY <1>1, RecordOpOwn
<1>2. ASSUME NEW p \in Process, NEW goal \in {"pull", "push"}, StartSync(p, goal) PROVE OwnInv'
  BY <1>2, StartSyncOwn
<1>3. ASSUME NEW p \in Process, FetchStep(p) PROVE OwnInv'
  BY <1>3, FetchSegmentOwn, NoteFetchedOwn, KeepFetchedOwn DEF FetchStep
<1>4. ASSUME NEW p \in Process, PullStep(p) PROVE OwnInv'
  BY <1>4, SelectUnappliedOwn, MergeSegmentsOwn, MarkAppliedOwn DEF PullStep
<1>5. ASSUME NEW p \in Process, PushStep(p) PROVE OwnInv'
  BY <1>5, CollectToPushOwn, PutBlobOwn, PutSegmentOwn, EndedOwn,
     NotePushedOwn, KeepPushedOwn DEF PushStep
<1>6. ASSUME NEW p \in Process, ForgetSyncState(p) \/ RecordForget(p) PROVE FALSE
  BY <1>6 DEF ForgetSyncState, RecordForget, OwnInv, NoRemovals, IInv, TypeOK
<1>7. ASSUME NEW p \in Process, Fail(p) PROVE OwnInv'
  BY <1>7, EndedOwn
<1>8. CASE UNCHANGED vars
  <2>1. UNCHANGED <<log, known, segments, minted, remote, job>>
    BY <1>8 DEF vars
  <2> QED
    BY <2>1 DEF OwnInv, NoRemovals, OneOwner, OwnersWrite, ReadIsKnown, OwnInLog,
       WrittenInOrder, UndisturbedOnce, KnownWhole, NamedByFirst, JobOwn, Waiting, Mine,
       InLog, Pushing, OnRemote, IdsKnown, Undisturbed, Overtaken, ObjectName
<1> QED
  BY <1>1, <1>2, <1>3, <1>4, <1>5, <1>6, <1>7, <1>8 DEF Next

LEMMA OwnInductive ==
    ASSUME MaxForgets = 0
    PROVE  Spec => [](IInv /\ OwnInv)
<1>1. Init => OwnInv
  BY DEF Init, EmptyLog, OwnInv, NoRemovals, OneOwner, OwnersWrite, ReadIsKnown, OwnInLog,
     WrittenInOrder, UndisturbedOnce, KnownWhole, NamedByFirst, JobOwn, Idle, Mine,
     Pushing, InLog
<1>2. IInv /\ OwnInv /\ [Next]_vars => OwnInv'
  BY NextOwn
<1> QED
  BY <1>1, <1>2, Invariance, PTL DEF Spec

\* No segment beside another with the same operation.
LEMMA InOneIsOnce ==
    ASSUME IInv, NEW op, \A n, s \in DOMAIN remote : op \in remote[n] \cap remote[s] => n = s
    PROVE  Cardinality({n \in DOMAIN remote : op \in remote[n]}) <= 1
<1> DEFINE S == {n \in DOMAIN remote : op \in remote[n]}
<1>1. S = {} \/ \E n : S = {n}
  OBVIOUS
<1>2. Cardinality(S) \in {0, 1}
  BY <1>1, FS_EmptySet, FS_Singleton
<1> QED
  BY <1>2

\* Where no project is removed, an operation is written in one segment, however
\* many processes of a machine push beside one another and whichever of them
\* stopped part-way: "an interrupted push, whose segment landed before this
\* workspace recorded it, is not written twice" (sync.go, Push).  Only what a pull
\* between two pushes moved, by an older copy of something before it, is excepted.
THEOREM WrittenOnceAlways ==
    ASSUME MaxForgets = 0
    PROVE  Spec => []WrittenOnce
<1>1. IInv /\ OwnInv => WrittenOnce
  <2> SUFFICES ASSUME IInv, OwnInv, NEW op \in minted, ~Overtaken(op)
               PROVE  Cardinality({n \in DOMAIN remote : op \in remote[n]}) <= 1 + forgets
    BY DEF WrittenOnce
  <2>1. \A n, s \in DOMAIN remote : op \in remote[n] \cap remote[s] => n = s
    BY DEF OwnInv, UndisturbedOnce, Undisturbed
  <2>2. PICK k : k = Cardinality({n \in DOMAIN remote : op \in remote[n]})
    OBVIOUS
  <2>3. k <= 1
    BY <2>1, <2>2, InOneIsOnce
  <2>4. forgets = 0
    BY BoundsAreNumbers DEF IInv, TypeOK
  <2> QED
    BY <2>2, <2>3, <2>4
<1> QED
  BY <1>1, OwnInductive, PTL

----------------------------------------------------------------------------
(* A machine that runs one process at a time needs no exception.             *)

\* No two processes share a machine.
Alone == \A p, q \in Process : On[p] = On[q] => p = q

InOneSegment ==
    \A n, s \in DOMAIN remote : \A op \in remote[n] \cap remote[s] : n = s

\* A job has read what its machine wrote, or is going to; a push has nothing
\* that is in a segment but those it wrote itself.
JobAlone(p) ==
    LET j == job[p]
        m == On[p]
    IN  /\ j.at \in {"fetch", "note", "keep"} =>
            \A n \in DOMAIN remote : n.writer = m =>
                \/ n \in DOMAIN segments[m]
                \/ n \in j.todo
                \/ j.at \in {"note", "keep"} /\ n = j.name
        /\ j.at = "put" =>
            \A op \in j.ops, n \in DOMAIN remote : op \in remote[n] =>
                \E i \in FirstIds(j.ops) : n = ObjectName(p, i) /\ op \in SegmentAt(j.ops, i)

AloneInv == InOneSegment /\ \A p \in Process : JobAlone(p)

\* A step of one job that leaves the remote and other machines alone.
LEMMA AloneStep ==
    ASSUME IInv, AloneInv, Alone, UNCHANGED remote, NEW p \in Process, NEW j,
           Goto(p, j), JobAlone(p)',
           \A x \in Machine : x # On[p] => segments'[x] = segments[x]
    PROVE  AloneInv'
<1>1. ASSUME NEW q \in Process, q # p PROVE JobAlone(q)'
  <2>1. /\ On[q] # On[p] /\ On[q] \in Machine /\ job'[q] = job[q] /\ JobAlone(q)
        /\ \A k : ObjectName(q, k)' = ObjectName(q, k)
    BY <1>1, ProcessesRunSomewhere DEF Alone, Goto, IInv, TypeOK, AloneInv, ObjectName
  <2> QED
    BY <2>1 DEF JobAlone
<1> QED
  BY <1>1 DEF AloneInv, InOneSegment

LEMMA StartSyncAlone ==
    ASSUME IInv, AloneInv, Alone, NEW p \in Process, NEW goal \in {"pull", "push"},
           StartSync(p, goal)
    PROVE  AloneInv'
<1>1. PICK T : T = Unread(On[p])
  OBVIOUS
<1>2. Goto(p, [at |-> "fetch", goal |-> goal, todo |-> T]) /\ UNCHANGED <<segments, remote>>
  BY <1>1 DEF StartSync, store
<1>3. job'[p].at = "fetch" /\ job'[p].todo = T
  BY <1>2 DEF Goto, IInv, TypeOK
<1>4. JobAlone(p)'
  BY <1>1, <1>2, <1>3 DEF JobAlone, Unread
<1> QED
  BY <1>2, <1>4, AloneStep

LEMMA FetchStepAlone ==
    ASSUME IInv, AloneInv, Alone, NEW p \in Process, FetchStep(p)
    PROVE  AloneInv'
<1> DEFINE m == On[p]
<1>1. job[p] \in Job /\ JobAlone(p) /\ m \in Machine /\ segments = [x \in Machine |-> segments[x]]
  BY ProcessesRunSomewhere DEF IInv, TypeOK, AloneInv, SegmentsOK
<1>2. CASE FetchSegment(p)
  <2>1. PICK n \in job[p].todo :
          Goto(p, [at |-> "note", goal |-> job[p].goal, todo |-> job[p].todo \ {n},
                   name |-> n, merged |-> HoldsAll(m, remote[n])])
    BY <1>2 DEF FetchSegment
  <2>2. UNCHANGED <<segments, remote>> /\ job[p].at = "fetch"
    BY <1>2 DEF FetchSegment, store
  <2>3. job'[p].at = "note" /\ job'[p].name = n /\ job'[p].todo = job[p].todo \ {n}
    BY <2>1 DEF Goto, IInv, TypeOK
  <2>4. JobAlone(p)'
    BY <2>2, <2>3, <1>1 DEF JobAlone
  <2> QED
    BY <2>1, <2>2, <2>4, AloneStep
<1>3. CASE NoteFetched(p)
  <2>1. /\ UNCHANGED <<segments, remote>> /\ Goto(p, [job[p] EXCEPT !.at = "keep"])
        /\ job[p].at = "note"
    BY <1>3 DEF NoteFetched
  <2>2. job[p] \in [at : {"note", "keep"}, goal : {"pull", "push"},
                    todo : SUBSET Name, name : Name, merged : BOOLEAN]
    BY <2>1, <1>1, JobShapes
  <2>3. job'[p].at = "keep" /\ job'[p].name = job[p].name /\ job'[p].todo = job[p].todo
    BY <2>1, <2>2 DEF Goto, IInv, TypeOK
  <2>4. JobAlone(p)'
    BY <2>1, <2>3, <1>1 DEF JobAlone
  <2> QED
    BY <2>1, <2>4, AloneStep
<1>4. CASE KeepFetched(p)
  <2> DEFINE read == [n \in DOMAIN segments[m] \cup {job[p].name} |->
                         IF n \in DOMAIN segments[m] THEN segments[m][n] ELSE job[p].merged]
  <2>1. /\ segments' = [segments EXCEPT ![m] = read]
        /\ DOMAIN read = DOMAIN segments[m] \cup {job[p].name}
    <3>1. segments' = [segments EXCEPT ![m] = read]
      BY <1>1, <1>4 DEF KeepFetched
    <3>2. DOMAIN read = DOMAIN segments[m] \cup {job[p].name}
      OBVIOUS
    <3> QED
      BY <3>1, <3>2
  <2> HIDE DEF read
  <2>2. /\ UNCHANGED remote /\ job[p].at = "keep"
        /\ Goto(p, [at |-> "fetch", goal |-> job[p].goal, todo |-> job[p].todo])
    BY <1>4 DEF KeepFetched
  <2>3. /\ DOMAIN segments'[m] = DOMAIN segments[m] \cup {job[p].name}
        /\ \A x \in Machine : x # m => segments'[x] = segments[x]
    BY <2>1, <1>1
  <2>4. job'[p].at = "fetch" /\ job'[p].todo = job[p].todo
    BY <2>2 DEF Goto, IInv, TypeOK
  <2>5. JobAlone(p)'
    BY <2>2, <2>3, <2>4, <1>1 DEF JobAlone
  <2> QED
    BY <2>2, <2>3, <2>5, AloneStep
<1> QED
  BY <1>2, <1>3, <1>4 DEF FetchStep

\* The steps that neither fetch nor write leave nothing to be read or written.
LEMMA OtherStepAlone ==
    ASSUME IInv, AloneInv, Alone, NEW p \in Process,
           PullStep(p) \/ PutRefused(p) \/ NotePushed(p) \/ KeepPushed(p) \/ Fail(p)
    PROVE  AloneInv'
<1> DEFINE m == On[p]
           Other == {"idle", "merge", "mark", "record"}
<1>1. job[p] \in Job /\ m \in Machine /\ segments = [x \in Machine |-> segments[x]]
  BY ProcessesRunSomewhere DEF IInv, TypeOK, SegmentsOK
<1>2. UNCHANGED remote /\ \A x \in Machine : x # m => segments'[x] = segments[x]
  BY <1>1 DEF PullStep, SelectUnapplied, MergeSegments, MarkApplied, PutRefused,
     NotePushed, KeepPushed, Fail, store
<1>3. \E j : Goto(p, j) /\ j.at \in Other
  <2>1. CASE SelectUnapplied(p)
    BY <2>1 DEF SelectUnapplied, MergeJob, Idle
  <2>2. CASE MergeSegments(p) \/ MarkApplied(p)
    <3>1. job[p] \in [at : {"merge", "mark"}, names : Some(Name)]
      BY <2>2, <1>1, JobShapes DEF MergeSegments, MarkApplied
    <3>2. \A n : [job[p] EXCEPT !.names = @ \ {n}].at = job[p].at
      BY <3>1
    <3>3. [job[p] EXCEPT !.at = "mark"].at = "mark" /\ Idle.at = "idle"
      BY <3>1 DEF Idle
    <3>4. CASE MergeSegments(p)
      BY <3>3, <3>4 DEF MergeSegments
    <3>5. CASE MarkApplied(p)
      <4>1. PICK n \in job[p].names :
              Goto(p, IF job[p].names = {n} THEN Idle ELSE [job[p] EXCEPT !.names = @ \ {n}])
        BY <3>5 DEF MarkApplied
      <4>2. job[p].at = "mark"
        BY <3>5 DEF MarkApplied
      <4>3. CASE job[p].names = {n}
        BY <4>1, <4>3, <3>3
      <4>4. CASE job[p].names # {n}
        BY <4>1, <4>2, <4>4, <3>2
      <4> QED
        BY <4>3, <4>4
    <3> QED
      BY <2>2, <3>4, <3>5
  <2>3. CASE PutRefused(p) \/ Fail(p)
    BY <2>3 DEF PutRefused, Fail, Idle
  <2>4. CASE NotePushed(p)
    BY <2>4 DEF NotePushed
  <2>5. CASE KeepPushed(p)
    <3>1. PICK i \in job[p].firsts :
            Goto(p, IF job[p].firsts = {i} THEN Idle ELSE [job[p] EXCEPT !.firsts = @ \ {i}])
      BY <2>5 DEF KeepPushed
    <3>2. job[p].at = "record" /\ job[p] \in [at : {"record"}, firsts : Some(Ids)]
      BY <2>5, <1>1, JobShapes DEF KeepPushed
    <3>3. [job[p] EXCEPT !.firsts = @ \ {i}].at = "record" /\ Idle.at = "idle"
      BY <3>2 DEF Idle
    <3>4. CASE job[p].firsts = {i}
      BY <3>1, <3>3, <3>4
    <3>5. CASE job[p].firsts # {i}
      BY <3>1, <3>3, <3>5
    <3> QED
      BY <3>4, <3>5
  <2> QED
    BY <2>1, <2>2, <2>3, <2>4, <2>5 DEF PullStep
<1>4. PICK j : Goto(p, j) /\ j.at \in Other
  BY <1>3
<1>5. job'[p].at \in Other
  BY <1>4 DEF Goto, IInv, TypeOK
<1>6. JobAlone(p)'
  BY <1>5 DEF JobAlone
<1> QED
  BY <1>2, <1>4, <1>6, AloneStep

LEMMA CollectToPushAlone ==
    ASSUME IInv, OwnInv, AloneInv, Alone, NEW p \in Process, CollectToPush(p)
    PROVE  AloneInv'
<1> DEFINE m == On[p]
           put(ops) == [at |-> "put", ops |-> ops, blobs |-> BlobsOf(ops) \ rblobs,
                        firsts |-> FirstIds(ops)]
           j(ops) == IF ops = {} THEN Idle ELSE put(ops)
<1>1. PICK ops : ops = ToPush(m)
  OBVIOUS
<1>2. Goto(p, j(ops)) /\ UNCHANGED <<segments, remote>>
  BY <1>1 DEF CollectToPush, store
<1>3. m \in Machine /\ JobAlone(p) /\ job[p].at = "fetch" /\ job[p].todo = {}
  BY ProcessesRunSomewhere DEF CollectToPush, Fetched, AloneInv
<1>4. \A op \in ops : Mine(m, op) /\ op.id \notin known[m]
  BY <1>1 DEF ToPush, LiveOps, Live, Mine, InLog
<1>5. ASSUME NEW op \in ops, NEW n \in DOMAIN remote, op \in remote[n]
      PROVE  FALSE
  <2>1. n.writer = m
    BY <1>3, <1>4, <1>5 DEF OwnInv, OwnersWrite
  <2>2. n \in DOMAIN segments[m]
    BY <2>1, <1>3 DEF JobAlone
  <2> QED
    BY <2>2, <1>3, <1>4, <1>5 DEF OwnInv, ReadIsKnown, IdsKnown
<1>6. /\ j(ops).at \in {"idle", "put"} /\ job'[p] = j(ops)
      /\ j(ops).at = "put" => j(ops).ops = ops
  BY <1>2 DEF Goto, IInv, TypeOK, Idle
<1> HIDE DEF j
<1>7. JobAlone(p)'
  BY <1>2, <1>5, <1>6 DEF JobAlone
<1> QED
  BY <1>2, <1>7, AloneStep

LEMMA PutBlobAlone ==
    ASSUME IInv, AloneInv, Alone, NEW p \in Process, PutBlob(p)
    PROVE  AloneInv'
<1> DEFINE j(b) == [job[p] EXCEPT !.blobs = @ \ {b}]
<1>1. PICK b \in job[p].blobs : Goto(p, j(b))
  BY DEF PutBlob
<1>2. UNCHANGED <<segments, remote>>
  BY DEF PutBlob, store
<1>3. job[p] \in Job /\ job[p].at = "put" /\ JobAlone(p)
  BY DEF IInv, TypeOK, PutBlob, AloneInv
<1>4. job[p] \in [at : {"put"}, ops : Some(Op), blobs : SUBSET BlobName, firsts : Some(Ids)]
  BY <1>3, JobShapes
<1>5. j(b).at = "put" /\ j(b).ops = job[p].ops /\ job'[p] = j(b)
  BY <1>1, <1>3, <1>4 DEF Goto, IInv, TypeOK
<1>6. JobAlone(p)'
  BY <1>2, <1>3, <1>5 DEF JobAlone, ObjectName
<1> HIDE DEF j
<1> QED
  BY <1>1, <1>2, <1>6, AloneStep

\* What a push writes no other segment holds, and no other push has.
LEMMA PutSegmentAlone ==
    ASSUME IInv, OwnInv, AloneInv, Alone, NEW p \in Process, PutSegment(p)
    PROVE  AloneInv'
<1> DEFINE m == On[p]
           ops == job[p].ops
           new(i) == ObjectName(p, i)
           j(i) == IF job[p].firsts = {i} THEN [at |-> "known", ops |-> ops]
                   ELSE [job[p] EXCEPT !.firsts = @ \ {i}]
<1>1. PICK i \in job[p].firsts :
        /\ i \in FirstIds(ops)
        /\ Grows
        /\ DOMAIN remote' = DOMAIN remote \cup {new(i)}
        /\ remote'[new(i)] = SegmentAt(ops, i)
        /\ Goto(p, j(i))
        /\ job[p].at = "put" /\ job[p].blobs = {}
        /\ UNCHANGED <<log, blobs, known, segments, minted, rblobs, bounds>>
  BY SegmentIsPut
<1>2. PICK s : s = new(i)
  OBVIOUS
<1>3. PICK S : S = SegmentAt(ops, i)
  OBVIOUS
<1>4. /\ job[p] \in Job /\ JobOK(p) /\ JobAlone(p) /\ m \in Machine /\ s.writer = m
  BY <1>2, ProcessesRunSomewhere DEF IInv, TypeOK, JobsOK, AloneInv, ObjectName
<1>5. job[p] \in [at : {"put"}, ops : Some(Op), blobs : SUBSET BlobName, firsts : Some(Ids)]
  BY <1>1, <1>4, JobShapes
<1>6. /\ DOMAIN remote' = DOMAIN remote \cup {s} /\ remote'[s] = S
      /\ \A n \in DOMAIN remote : remote'[n] = remote[n]
  BY <1>1, <1>2, <1>3 DEF Grows
<1>7. ops \in SUBSET Op /\ ops \in SUBSET minted /\ IsFiniteSet(ops) /\ OneIdEach(ops)
  BY <1>1, <1>4, <1>5, FS_Subset DEF JobOK, Pushable, Some, IInv, MintedOK, OneIdEach
<1>8. S \in SUBSET ops
  BY <1>1, <1>3, <1>7, SegmentIsSome DEF Some
<1>9. \A op \in S : op \in minted /\ Mine(m, op)
  BY <1>1, <1>7, <1>8 DEF Mine, Pushing
<1>10. ASSUME NEW op \in S, NEW n \in DOMAIN remote, op \in remote[n] PROVE n = s
  <2>1. PICK k \in FirstIds(ops) : n = new(k) /\ op \in SegmentAt(ops, k)
    BY <1>1, <1>4, <1>8, <1>10 DEF JobAlone
  <2>2. k = i
    BY <2>1, <1>1, <1>3, <1>7, SegmentsApart
  <2> QED
    BY <2>1, <2>2, <1>2
<1>11. /\ job'[p].at \in {"put", "known"} /\ job'[p].ops = ops
       /\ \A q \in Process : q # p => job'[q] = job[q]
  BY <1>1, <1>4, <1>5 DEF Goto, IInv, TypeOK
<1>12. InOneSegment'
  <2> SUFFICES ASSUME NEW n \in DOMAIN remote', NEW t \in DOMAIN remote',
                      NEW op \in remote'[n] \cap remote'[t]
               PROVE  n = t
    BY DEF InOneSegment
  <2>1. CASE n \in DOMAIN remote /\ t \in DOMAIN remote
    BY <2>1, <1>6 DEF AloneInv, InOneSegment
  <2>2. CASE n \notin DOMAIN remote \/ t \notin DOMAIN remote
    BY <2>2, <1>6, <1>10
  <2> QED
    BY <2>1, <2>2
<1> HIDE DEF j
<1>13. JobAlone(p)'
  <2>1. ASSUME NEW op \in ops, NEW n \in DOMAIN remote', op \in remote'[n]
        PROVE  \E k \in FirstIds(ops) : n = new(k) /\ op \in SegmentAt(ops, k)
    <3>1. CASE n \in DOMAIN remote
      BY <3>1, <2>1, <1>1, <1>4, <1>6 DEF JobAlone
    <3>2. CASE n \notin DOMAIN remote
      <4>1. n = new(i) /\ op \in SegmentAt(ops, i)
        BY <3>2, <2>1, <1>2, <1>3, <1>6
      <4> QED
        BY <4>1, <1>1
    <3> QED
      BY <3>1, <3>2
  <2> QED
    BY <2>1, <1>11 DEF JobAlone, ObjectName
<1>14. ASSUME NEW q \in Process, q # p PROVE JobAlone(q)'
  <2> DEFINE x == On[q]
             J == job[q]
  <2>1. x # m /\ x \in Machine /\ job'[q] = J /\ JobAlone(q)
    BY <1>11, <1>14, ProcessesRunSomewhere DEF Alone, AloneInv
  <2>2. J.at \in {"fetch", "note", "keep"} =>
          \A n \in DOMAIN remote' : n.writer = x =>
              \/ n \in DOMAIN segments'[x] \/ n \in J.todo
              \/ J.at \in {"note", "keep"} /\ n = J.name
    BY <2>1, <1>1, <1>4, <1>6 DEF JobAlone
  <2>3. ASSUME J.at = "put", NEW op \in J.ops, NEW n \in DOMAIN remote', op \in remote'[n]
        PROVE  \E k \in FirstIds(J.ops) : n = ObjectName(q, k) /\ op \in SegmentAt(J.ops, k)
    <3>1. CASE n \in DOMAIN remote
      BY <3>1, <2>1, <2>3, <1>6 DEF JobAlone
    <3>2. CASE n \notin DOMAIN remote
      <4>1. n = s /\ op \in S
        BY <3>2, <2>3, <1>6
      <4>2. Mine(x, op)
        BY <2>3 DEF Mine, Pushing
      <4> QED
        BY <4>1, <4>2, <2>1, <1>4, <1>9 DEF OwnInv, OneOwner
    <3> QED
      BY <3>1, <3>2
  <2>4. \A k : ObjectName(q, k)' = ObjectName(q, k)
    BY DEF ObjectName
  <2> QED
    BY <2>1, <2>2, <2>3, <2>4 DEF JobAlone
<1> QED
  BY <1>12, <1>13, <1>14 DEF AloneInv

LEMMA NextAlone ==
    ASSUME IInv, OwnInv, AloneInv, Alone, MaxForgets = 0, [Next]_vars
    PROVE  AloneInv'
<1>1. ASSUME UNCHANGED <<segments, remote, job>> PROVE AloneInv'
  BY <1>1 DEF AloneInv, InOneSegment, JobAlone, ObjectName
<1>2. ASSUME NEW m \in Machine, RecordOp(m) PROVE AloneInv'
  BY <1>1, <1>2 DEF RecordOp
<1>3. ASSUME NEW p \in Process, NEW goal \in {"pull", "push"}, StartSync(p, goal) PROVE AloneInv'
  BY <1>3, StartSyncAlone
<1>4. ASSUME NEW p \in Process, FetchStep(p) PROVE AloneInv'
  BY <1>4, FetchStepAlone
<1>5. ASSUME NEW p \in Process, PullStep(p) \/ Fail(p) PROVE AloneInv'
  BY <1>5, OtherStepAlone
<1>6. ASSUME NEW p \in Process, PushStep(p) PROVE AloneInv'
  BY <1>6, CollectToPushAlone, PutBlobAlone, PutSegmentAlone, OtherStepAlone DEF PushStep
<1>7. ASSUME NEW p \in Process, ForgetSyncState(p) \/ RecordForget(p) PROVE FALSE
  BY <1>7 DEF ForgetSyncState, RecordForget, OwnInv, NoRemovals, IInv, TypeOK
<1>8. ASSUME UNCHANGED vars PROVE AloneInv'
  BY <1>1, <1>8 DEF vars
<1> QED
  BY <1>2, <1>3, <1>4, <1>5, <1>6, <1>7, <1>8 DEF Next

\* Where moreover every machine runs one process, nothing is excepted: a push
\* reads what the pushes before it wrote, also those that were interrupted, and so
\* no operation is ever in two segments.
THEOREM WrittenOnceAlone ==
    ASSUME MaxForgets = 0, Alone
    PROVE  Spec => [](\A op \in minted :
                        Cardinality({n \in DOMAIN remote : op \in remote[n]}) <= 1)
<1>1. Init => AloneInv
  BY DEF Init, AloneInv, InOneSegment, JobAlone, Idle
<1>2. IInv /\ AloneInv => \A op \in minted :
                        Cardinality({n \in DOMAIN remote : op \in remote[n]}) <= 1
  BY InOneIsOnce DEF AloneInv, InOneSegment
<1>3. IInv /\ OwnInv /\ AloneInv /\ [Next]_vars => AloneInv'
  BY NextAlone
<1> QED
  BY <1>1, <1>2, <1>3, OwnInductive, PTL DEF Spec
=============================================================================
