------------------------------- MODULE OpLog -------------------------------
(***************************************************************************)
(* The operation log of one workspace, as an algebra: what appending a     *)
(* batch of operations to a log yields.                                    *)
(*                                                                         *)
(* Models core/workspace/local.go (the workspace_ops table and             *)
(* LocalBackend.record) and core/workspace/opid.go (Merge).  A log is the  *)
(* set of the table's rows and the last position SQLite handed out; the    *)
(* table is declared AUTOINCREMENT, so a position is never handed out      *)
(* twice, even when the row at the newest position is deleted.             *)
(*                                                                         *)
(* An operation is a record of its id, its content address (or NoAddress)  *)
(* and its kind.  Ids are numbers: only their order is used.  One project  *)
(* is modelled, so the project column is left out.  Payloads, moments and  *)
(* everything else an operation carries are abstracted away.               *)
(***************************************************************************)
EXTENDS Naturals, FiniteSets

CONSTANTS
    Ids,        \* the operation ids that can be minted
    Address,    \* the content addresses operations can carry
    KindOf,     \* what the operations of an address are: they say one thing
    NoAddress   \* the address of an operation that carries none, or one that
                \* no other operation shares

\* Zero is kept for "no position" and "no id".
ASSUME IdsAreNumbers == Ids \subseteq Nat \ {0}

ASSUME NoAddressIsNone == NoAddress \notin Address

ASSUME AddressesHaveKinds == KindOf \in [Address -> {"context", "edit"}]

----------------------------------------------------------------------------

\* A context operation, a write to the one edition whose head conditional
\* records check, and the removal of the project.
Kind == {"context", "edit", "forget"}

SaysOneThing(op) == op.addr # NoAddress => op.kind = KindOf[op.addr]

Op == {o \in [id : Ids, addr : Address \cup {NoAddress}, kind : Kind] :
          SaysOneThing(o)}

Row == [id : Ids, addr : Address \cup {NoAddress}, kind : Kind, seq : Nat]

EmptyLog == [rows |-> {}, seq |-> 0]

OpOf(row) == [id |-> row.id, addr |-> row.addr, kind |-> row.kind]

\* Mistake: the position is left out.
WithoutPosition(op, n) == OpOf(op)

AtPosition(op, n) ==
    [id |-> op.id, addr |-> op.addr, kind |-> op.kind, seq |-> n]

SameAddress(o, p) == o.addr # NoAddress /\ o.addr = p.addr

\* Mistake: only the id says what an operation is.
MatchesById(row, op) == row.id = op.id

\* The row holds the operation, under its id or its content address.
Matches(row, op) == row.id = op.id \/ SameAddress(row, op)

\* Mistake: the row just before the removal survives it.
ForgottenButLast(rows, row) ==
    /\ row.kind # "forget"
    /\ \E f \in rows : f.kind = "forget" /\ row.seq + 1 < f.seq

\* The row sits before the project's latest removal.
Forgotten(rows, row) ==
    /\ row.kind # "forget"
    /\ \E f \in rows : f.kind = "forget" /\ row.seq < f.seq

\* What the log holds of the context that exists now.
Live(rows) == {r \in rows : r.kind # "forget" /\ ~Forgotten(rows, r)}

\* Mistake: whichever id came first stands.
AnswersAnyId(rows, op) ==
    \E r \in rows : Matches(r, op) /\ ~Forgotten(rows, r)

\* The log answers an arriving operation with a row it holds: it writes
\* nothing unless the row is forgotten or the arriving id is the older one.
Answers(rows, op) ==
    \E r \in rows : Matches(r, op) /\ ~Forgotten(rows, r) /\ r.id <= op.id

\* Mistake: the operations of a batch are not held against one another.
WrittenUnordered(rows, ops) == {o \in ops : ~Answers(rows, o)}

\* The operations of a batch that the log writes.  The batch is recorded in id
\* order, so of two that share an address the older id is the one written.
Written(rows, ops) ==
    {o \in ops : /\ ~Answers(rows, o)
                 /\ \A p \in ops : SameAddress(p, o) => o.id <= p.id}

\* The position one record transaction gives the operation o of those it
\* writes, the last position handed out being from.
PositionOf(from, new, o) == from + Cardinality({p \in new : p.id <= o.id})

Appended(kept, new, from) ==
    [rows |-> kept \cup {AtPosition(o, PositionOf(from, new, o)) : o \in new},
     seq  |-> from + Cardinality(new)]

\* The rows no operation of ops replaces.
Kept(rows, ops) == {r \in rows : \A o \in ops : ~Matches(r, o)}

\* Mistake: a table without AUTOINCREMENT hands out the position after the
\* newest row's, so that of a deleted newest row comes back.
RecordReusingPositions(log, ops) ==
    LET new  == Written(log.rows, ops)
        kept == Kept(log.rows, new)
        last == CHOOSE n \in 0..log.seq :
                    /\ n = 0 \/ \E r \in kept : r.seq = n
                    /\ \A r \in kept : r.seq <= n
    IN  Appended(kept, new, last)

\* Mistake: the row is deleted before it is asked whether it answers.
RecordDeletingFirst(log, ops) ==
    Appended(Kept(log.rows, ops), Written(log.rows, ops), log.seq)

\* Appends a batch of operations that carry their ids, in id order, in one
\* transaction.  A row a written operation replaces is deleted.
Record(log, ops) ==
    LET new == Written(log.rows, ops)
    IN  Appended(Kept(log.rows, new), new, log.seq)

Latest(ops) == CHOOSE o \in ops : \A p \in ops : p.id <= o.id

\* The same as the code goes about it: the operations one after another in id
\* order, each into the log that those before it left.
RecordInSequence(log, ops) ==
    LET after[some \in SUBSET ops] ==
            IF some = {} THEN log
            ELSE Record(after[some \ {Latest(some)}], {Latest(some)})
    IN  after[ops]

\* An id a log can mint: it sorts after every id the log holds, and its random
\* part keeps it apart from every id minted elsewhere.
Mintable(rows, used, i) == i \in Ids \ used /\ \A r \in rows : r.id < i

\* The position of the last write to the edition, 0 when there is none.
IsSubjectHead(rows, h) ==
    LET edits == {r \in rows : r.kind = "edit"}
    IN  IF edits = {} THEN h = 0
        ELSE /\ \E r \in edits : r.seq = h
             /\ \A r \in edits : r.seq <= h

----------------------------------------------------------------------------
(* What a log holds of a set of operations that arrived in any order. *)

\* Of the operations sharing an address, the one with the oldest id.
Union(ops) == {o \in ops : \A p \in ops : SameAddress(p, o) => o.id <= p.id}

LiveOps(rows) == {OpOf(r) : r \in Live(rows)}
=============================================================================
