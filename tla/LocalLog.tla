------------------------------ MODULE LocalLog ------------------------------
(***************************************************************************)
(* One workspace's operation log and the processes around it: writers that *)
(* record operations, writers of the one edition the workspace home keeps  *)
(* that record conditionally (RecordIf), merges of operations recorded on  *)
(* other machines, the removal of the project, and a watcher that polls    *)
(* the log for what it has not seen.                                       *)
(*                                                                         *)
(* Every action is one IMMEDIATE transaction or one read of                *)
(* core/workspace/local.go.  What other machines do is reduced to minting  *)
(* operations; ContextSync says how they travel.                           *)
(***************************************************************************)
EXTENDS OpLog

CONSTANTS
    Writer      \* the processes that write the edition conditionally

VARIABLES
    log,        \* the workspace_ops table
    minted,     \* every operation recorded so far, on any machine
    arrived,    \* operations recorded or merged here since the last removal
    base,       \* per writer: the head and the edition's rows it has read
    cursor,     \* the position the watcher has read up to
    seen        \* the operations the watcher has been given

vars == <<log, minted, arrived, base, cursor, seen>>

----------------------------------------------------------------------------

EditRows == {r \in log.rows : r.kind = "edit"}

UsedIds == {o.id : o \in minted}

\* A writer that has read nothing, the head, or the edition's rows as well.
NoBase == [read |-> "nothing", head |-> 0, rows |-> {}]

Base == [read : {"nothing", "head", "rows"}, head : Nat, rows : SUBSET Row]

Init ==
    /\ log = EmptyLog
    /\ minted = {}
    /\ arrived = {}
    /\ base = [w \in Writer |-> NoBase]
    /\ cursor = 0
    /\ seen = {}

\* Records one operation under an id minted for it.  One whose content address
\* the log answers is the operation held, and nothing is written.
Accept(op) ==
    /\ Mintable(log.rows, UsedIds, op.id)
    /\ ~Answers(log.rows, op)
    /\ log' = Record(log, {op})
    /\ minted' = minted \cup {op}
    /\ arrived' = arrived \cup {op}

\* A process records a context operation.
RecordNew ==
    /\ \E op \in Op : op.kind = "context" /\ Accept(op)
    /\ UNCHANGED <<base, cursor, seen>>

\* A writer reads the edition's head in the log ...
ReadHead(w) ==
    /\ base[w] = NoBase
    /\ \E h \in 0..log.seq :
        /\ IsSubjectHead(log.rows, h)
        /\ base' = [base EXCEPT ![w] = [read |-> "head", head |-> h, rows |-> {}]]
    /\ UNCHANGED <<log, minted, arrived, cursor, seen>>

\* ... and then the edition, which holds every write up to that head at least.
ReadRows(w) ==
    /\ base[w].read = "head"
    /\ base' = [base EXCEPT ![w] = [@ EXCEPT !.read = "rows", !.rows = EditRows]]
    /\ UNCHANGED <<log, minted, arrived, cursor, seen>>

\* Mistake: the head read is still a write to the edition, if not the last one.
HeadIsThere(w) == base[w].head = 0 \/ \E r \in EditRows : r.seq = base[w].head

\* What a conditional record checks in the transaction that appends.
HeadStands(w) == IsSubjectHead(log.rows, base[w].head)

\* The head stands where the writer read it, and its write is appended.
WriteEdition(w) ==
    /\ base[w].read = "rows"
    /\ HeadStands(w)
    /\ \E op \in Op : op.kind = "edit" /\ Accept(op)
    /\ base' = [base EXCEPT ![w] = NoBase]
    /\ UNCHANGED <<cursor, seen>>

\* The head moved, the log answers the write's address, or the writer gives
\* the write up: nothing is appended.
WriteRefused(w) ==
    /\ base[w].read = "rows"
    /\ base' = [base EXCEPT ![w] = NoBase]
    /\ UNCHANGED <<log, minted, arrived, cursor, seen>>

\* Another machine records an operation, under a clock of its own.
RecordElsewhere ==
    /\ \E op \in Op :
        /\ op.kind # "forget" /\ op.id \notin UsedIds
        /\ minted' = minted \cup {op}
    /\ UNCHANGED <<log, arrived, base, cursor, seen>>

\* Operations that travel arrive in any batch, again or for the first time.
MergeArriving ==
    \E ops \in SUBSET {o \in minted : o.kind # "forget"} :
        /\ log' = Record(log, ops)
        /\ arrived' = arrived \cup ops
        /\ UNCHANGED <<minted, base, cursor, seen>>

\* The removal of the project from the workspace, as the log records it.
RecordForget ==
    /\ \E op \in Op :
        /\ op.kind = "forget" /\ Mintable(log.rows, UsedIds, op.id)
        /\ log' = Record(log, {op})
        /\ minted' = minted \cup {op}
    /\ arrived' = {}
    /\ UNCHANGED <<base, cursor, seen>>

\* The watcher reads the operations after its cursor and moves it to the last.
Poll ==
    LET new == {r \in log.rows : r.seq > cursor}
    IN  /\ \E last \in new :
            /\ \A r \in new : r.seq <= last.seq
            /\ cursor' = last.seq
        /\ seen' = seen \cup {r.id : r \in new}
        /\ UNCHANGED <<log, minted, arrived, base>>

Next ==
    \/ RecordNew
    \/ \E w \in Writer : ReadHead(w) \/ ReadRows(w) \/ WriteEdition(w) \/ WriteRefused(w)
    \/ RecordElsewhere
    \/ MergeArriving
    \/ RecordForget
    \/ Poll

Spec == Init /\ [][Next]_vars

----------------------------------------------------------------------------

TypeOK ==
    /\ log.rows \in SUBSET Row
    /\ log.seq \in Nat
    /\ log = [rows |-> log.rows, seq |-> log.seq]
    /\ minted \in SUBSET Op
    /\ arrived \in SUBSET Op
    /\ base \in [Writer -> Base]
    /\ cursor \in Nat
    /\ seen \in SUBSET Ids

\* The log holds one operation per id and per content address, at a position
\* of its own: no insert of record meets the table's UNIQUE constraints.
OneRowEach ==
    \A r, s \in log.rows :
        r.id = s.id \/ SameAddress(r, s) \/ r.seq = s.seq => r = s

\* The log is the union of what arrived: whatever order operations were
\* recorded and merged in, and however often one arrived, what it holds since
\* the removal is one operation per address, the oldest, and every operation
\* without one.
LogIsUnion == LiveOps(log.rows) = Union(arrived)

\* What a batch leaves can be said at once: from every log there can be, the
\* loop over the batch, in which an operation may replace a row, or be answered
\* by one, that an earlier one of the batch brought, ends where Record says.
RecordIsSequential ==
    \A ops \in SUBSET {o \in minted : o.kind # "forget"} :
        Record(log, ops) = RecordInSequence(log, ops)

\* The watcher misses nothing: every row at or before its cursor was given to
\* it, replaced rows and rows recorded again after a removal included.
WatcherMissesNothing ==
    \A r \in log.rows : r.seq <= cursor => r.id \in seen

\* No edit is lost: a conditional record appends only to the very rows of the
\* edition its writer read, even when a merge replaced one of them meanwhile.
NoLostEdit ==
    [][\A w \in Writer : WriteEdition(w) => EditRows = base[w].rows]_vars
=============================================================================
