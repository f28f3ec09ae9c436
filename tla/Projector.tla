------------------------------- MODULE Projector -------------------------------
(***************************************************************************)
(* The projector (core/projector): the context stores of one project on    *)
(* one machine, the cursor into the operation log they keep beside their   *)
(* rows, and the threads that record writes, merge operations from other   *)
(* machines, reset the context, catch the stores up and rebuild them.      *)
(*                                                                         *)
(* Threads of one process take turns at the stores under one mutex;        *)
(* threads of different processes do not, and the log has its own          *)
(* transactions.  Every row is one cell, and an operation that writes it   *)
(* replaces what it held, as the stores of terms, memory and voice do.     *)
(***************************************************************************)
EXTENDS Integers, SequencesExt

CONSTANTS
    Id,             \* operation ids: numbers, of which only the order counts
    Cell,           \* rows of the stores
    Thread,
    ProcessOf,      \* the process of each thread
    MaxBatch,       \* bound: operations one merge brings
    MaxMerges,      \* bound: merges
    MaxRebuilds,    \* bound: rebuilds a person asks for
    MaxForgets,     \* bound: removals of the project
    MaxFails        \* bound: threads that stop part-way

ASSUME IdAssumption == Id \subseteq Nat \ {0} /\ IsFiniteSet(Id)

VARIABLES
    log,        \* the project's operations by position
    store,      \* per cell: the operation that wrote the row, 0 for no row
    cursor,     \* projector_cursor: the position the stores have applied
    job,        \* what each thread holds in memory
    overtaken,  \* history: an older operation was merged past a newer one unseen
    cutShort,   \* history: a rebuild the log may not ask for again was cut short
    halfRemoved,  \* history: a removal stopped, or others worked, between its two halves
    bounds      \* how many merges, rebuilds, removals and failures there were

vars == <<log, store, cursor, job, overtaken, cutShort, halfRemoved, bounds>>

history == <<overtaken, cutShort, halfRemoved>>

----------------------------------------------------------------------------
(* What the log says *)

Write(id, cell) == [id |-> id, kind |-> "write", cell |-> cell]

\* A reset sets aside what comes before it, from the operation it names on.
Reset(id, before) == [id |-> id, kind |-> "reset", before |-> before]

Removal(id) == [id |-> id, kind |-> "forget"]

Statement == {Write(i, c) : i \in Id, c \in Cell} \cup {Reset(i, b) : i \in Id, b \in Id}

Op == Statement \cup {Removal(i) : i \in Id}

IdsIn(ops) == {ops[i].id : i \in DOMAIN ops}

Newest(ids) == IF ids = {} THEN 0 ELSE Max(ids)

LastForget(ops) == Newest({i \in DOMAIN ops : ops[i].kind = "forget"})

\* The operations since the latest removal.
Live(ops) == {ops[i] : i \in LastForget(ops) + 1 .. Len(ops)}

Resets(ops) == {o \in ops : o.kind = "reset"}

Covers(reset, op) == reset.before <= op.id /\ op.id < reset.id

\* The resets that no later one in force covers.
InForce(resets) ==
    CHOOSE force \in SUBSET resets :
        \A r \in resets : r \in force <=> ~\E s \in force : Covers(s, r)

SetAside(ops) == {o \in ops : \E r \in InForce(Resets(ops)) : Covers(r, o)}

\* What a rebuild replays.
Replayed(ops) == Live(ops) \ SetAside(Live(ops))

Writes(ops, cell) == {o \in ops : o.kind = "write" /\ o.cell = cell}

\* The stores a rebuild leaves: each row as its newest operation in force wrote it.
Rebuilt(ops) == [c \in Cell |-> Newest({o.id : o \in Writes(Replayed(ops), c)})]

\* How many of them have an id no higher than its own.
Rank(op, ops) == Cardinality({o \in ops : o.id <= op.id})

InIdOrder(ops) == [k \in 1 .. Cardinality(ops) |-> CHOOSE o \in ops : Rank(o, ops) = k]

\* A reset among the operations to apply, or one that the log holds and that
\* comes after one of them.
ResetReached(ops, held) ==
    \E r \in Resets(held) :
        \/ r \in ops
        \/ \E o \in ops : o.kind # "forget" /\ o.id < r.id

After(position) == SubSeq(log, position + 1, Len(log))

\* Mistake: the operation after the removal is taken to be applied.
StartPastRemoval == IF cursor = 0 THEN LastForget(log) + 1 ELSE cursor

\* A store that has applied nothing starts after the latest removal.
StartAt(position) == IF position = 0 THEN LastForget(log) ELSE position

Start == StartAt(cursor)

----------------------------------------------------------------------------

Idle == [at |-> "idle", ops |-> <<>>, from |-> 0, last |-> 0, rebuild |-> FALSE]

\* Stores without a row.
Empty == [c \in Cell |-> 0]

Init ==
    /\ log = <<>>
    /\ store = Empty
    /\ cursor = 0
    /\ job = [t \in Thread |-> Idle]
    /\ overtaken = FALSE
    /\ cutShort = FALSE
    /\ halfRemoved = FALSE
    /\ bounds = [merges |-> 0, rebuilds |-> 0, forgets |-> 0, fails |-> 0]

Bounded(what, limit) ==
    /\ bounds[what] < limit
    /\ bounds' = [bounds EXCEPT ![what] = @ + 1]

\* A local id is above the newest of the log.
Mintable(id) == \A i \in IdsIn(log) : i < id

InStores == {"read", "select", "selectAll", "empty", "apply"}

\* Mistake: a mutex for each projector, not for each store.
LockOfOwn(t) == t \in Thread

\* The mutex that the threads of a process share.
LockFree(t) ==
    \A u \in Thread \ {t} : ProcessOf[u] = ProcessOf[t] => job[u].at \notin InStores

At(t, at) == job' = [job EXCEPT ![t].at = at]

\* commit records under the lock, and catches up before it lets go.
RecordWrite(t) ==
    /\ job[t] = Idle
    /\ LockFree(t)
    /\ \E id \in Id, c \in Cell :
          /\ Mintable(id)
          /\ log' = Append(log, Write(id, c))
    /\ At(t, "read")
    /\ UNCHANGED <<store, cursor, history, bounds>>

\* ResetContext records the reset in the ledger, and then asks for a rebuild.
RecordReset(t) ==
    /\ job[t] = Idle
    /\ \E id \in Id, before \in IdsIn(log) :
          /\ Mintable(id)
          /\ log' = Append(log, Reset(id, before))
    /\ At(t, "wantRebuild")
    /\ UNCHANGED <<store, cursor, history, bounds>>

\* A command removes the project.  Its store goes first, the cursor with it, when
\* nothing is using the stores; others may open them again from then on.
RemoveStores(t) ==
    /\ \A u \in Thread : job[u] = Idle
    /\ Bounded("forgets", MaxForgets)
    /\ store' = Empty
    /\ cursor' = 0
    /\ At(t, "forgetting")
    /\ UNCHANGED <<log, history>>

\* Somebody has written to the stores since they were removed, or has read the
\* log and will.
Reused(t) ==
    \/ cursor # 0 \/ store # Empty
    \/ \E u \in Thread \ {t} : job[u].at \in {"select", "empty", "apply"}

\* The removal is recorded last, after the registry has let go of the project.
RecordForget(t) ==
    /\ job[t].at = "forgetting"
    /\ \E id \in Id : Mintable(id) /\ log' = Append(log, Removal(id))
    /\ halfRemoved' = (halfRemoved \/ Reused(t))
    /\ job' = [job EXCEPT ![t] = Idle]
    /\ UNCHANGED <<store, cursor, overtaken, cutShort, bounds>>

----------------------------------------------------------------------------
(* A pull that merges: it decides whether to rebuild, merges, and applies *)

\* What the log holds of the project that other machines may hold as well.
Travelling == {o \in Live(log) : o.kind # "forget"}

\* Mistake: only operations that all sort before what is held ask for a rebuild.
AllSortBefore(ops) == \A o \in ops : o.id < Newest({p.id : p \in Travelling})

\* Whether one of the operations sorts before one the log holds.
SortsBefore(ops) == \E o \in ops : o.id < Newest({p.id : p \in Travelling})

\* A first pull rebuilds in any case.
ReadNewest(t) ==
    /\ job[t] = Idle
    /\ Bounded("merges", MaxMerges)
    /\ \E ops \in SUBSET {o \in Statement : o.id \notin IdsIn(log)} :
          /\ Cardinality(ops) \in 1 .. MaxBatch
          /\ \A o, p \in ops : o.id = p.id => o = p
          /\ job' = [job EXCEPT ![t] = [Idle EXCEPT !.at = "merge",
                                                    !.ops = InIdOrder(ops),
                                                    !.rebuild = SortsBefore(ops) \/ Travelling = {}]]
    /\ UNCHANGED <<log, store, cursor, history>>

MergeOps(t) ==
    /\ job[t].at = "merge"
    /\ LET new == InIdOrder({o \in ToSet(job[t].ops) : o.id \notin IdsIn(log)})
       IN  /\ log' = log \o new
           /\ overtaken' = (overtaken \/ (SortsBefore(ToSet(new)) /\ ~job[t].rebuild))
           /\ job' = [job EXCEPT ![t] =
                IF new = <<>> /\ ~job[t].rebuild THEN Idle
                ELSE [@ EXCEPT !.at = IF job[t].rebuild THEN "wantRebuild" ELSE "wantCatchUp",
                               !.ops = <<>>]]
    /\ UNCHANGED <<store, cursor, cutShort, halfRemoved, bounds>>

----------------------------------------------------------------------------
(* CatchUp *)

StartCatchUp(t) ==
    /\ job[t] = Idle \/ job[t].at = "wantCatchUp"
    /\ LockFree(t)
    /\ At(t, "read")
    /\ UNCHANGED <<log, store, cursor, history, bounds>>

\* The cursor, and the latest removal when there is none.
ReadCursor(t) ==
    /\ job[t].at = "read"
    /\ job' = [job EXCEPT ![t] = [@ EXCEPT !.at = "select", !.from = cursor, !.last = Start]]
    /\ UNCHANGED <<log, store, cursor, history, bounds>>

\* The operations after it in the log's order, and the resets the log holds.
SelectOps(t) ==
    /\ job[t].at = "select"
    /\ LET ops == After(job[t].last)
       IN  job' = [job EXCEPT ![t] =
             IF ResetReached(ToSet(ops), ToSet(log))
               THEN [@ EXCEPT !.at = "selectAll"]
               ELSE [@ EXCEPT !.at = "apply", !.ops = ops, !.last = Len(log)]]
    /\ UNCHANGED <<log, store, cursor, history, bounds>>

\* Operations are applied one transaction each.
ApplyOp(t) ==
    /\ job[t].at = "apply"
    /\ job[t].ops # <<>>
    /\ LET op == Head(job[t].ops)
       IN  store' = IF op.kind = "write" THEN [store EXCEPT ![op.cell] = op.id] ELSE store
    /\ job' = [job EXCEPT ![t].ops = Tail(@)]
    /\ UNCHANGED <<log, cursor, history, bounds>>

\* A catch-up that moved, and every rebuild, sets the cursor, whatever it is now.
SetCursor(t) ==
    /\ job[t].at = "apply"
    /\ job[t].ops = <<>>
    /\ cursor' = IF job[t].from = job[t].last THEN cursor ELSE job[t].last
    /\ job' = [job EXCEPT ![t] = Idle]
    /\ UNCHANGED <<log, store, history, bounds>>

----------------------------------------------------------------------------
(* Rebuild *)

StartRebuild(t) ==
    /\ job[t].at = "wantRebuild"
    /\ LockFree(t)
    /\ At(t, "selectAll")
    /\ UNCHANGED <<log, store, cursor, history, bounds>>

\* A person asks for one.
AskRebuild(t) ==
    /\ job[t] = Idle
    /\ LockFree(t)
    /\ Bounded("rebuilds", MaxRebuilds)
    /\ At(t, "selectAll")
    /\ UNCHANGED <<log, store, cursor, history>>

\* The log, without what a removal and the resets set aside, in id order.
SelectAll(t) ==
    /\ job[t].at = "selectAll"
    /\ job' = [job EXCEPT ![t] =
         [@ EXCEPT !.at = "empty",
                   !.ops = InIdOrder(Replayed(log)),
                   !.from = -1,
                   !.last = IF Live(log) = {} THEN 0 ELSE Len(log)]]
    /\ UNCHANGED <<log, store, cursor, history, bounds>>

EmptyStores(t) ==
    /\ job[t].at = "empty"
    /\ store' = Empty
    /\ At(t, "apply")
    /\ UNCHANGED <<log, cursor, history, bounds>>

----------------------------------------------------------------------------

\* Applied in the log's order, a later operation would be written over.
OutOfOrder ==
    \E i, j \in LastForget(log) + 1 .. Len(log) : i < j /\ log[j].id < log[i].id

\* The position the stores stand at, and those where other threads that have
\* read the log will leave them.
ComingPositions(t) ==
    {cursor} \cup
        {job[u].last : u \in {v \in Thread \ {t} : job[v].at \in {"empty", "apply"}}}

\* From whichever of them the next catch-up starts, it meets a reset and rebuilds.
AsksAgain(t) ==
    \A p \in ComingPositions(t) : ResetReached(ToSet(After(StartAt(p))), ToSet(log))

\* The stores need a rebuild that only this thread knows of: they stand emptied,
\* or what it merged is out of order.
OwesRebuild(t) ==
    /\ \/ job[t].at = "apply" /\ job[t].from = -1
       \/ job[t].rebuild /\ job[t].at # "merge" /\ OutOfOrder
    /\ ~AsksAgain(t)

\* Stores that were taken away are filled again in the order the log has, which is
\* not the order a rebuild takes.
LeavesRemovalHalf(t) == job[t].at = "forgetting" /\ OutOfOrder /\ ~AsksAgain(t)

\* A thread stops part-way: its command is killed, or a call of it fails.
Fail(t) ==
    /\ job[t].at # "idle"
    /\ Bounded("fails", MaxFails)
    /\ cutShort' = (cutShort \/ OwesRebuild(t))
    /\ halfRemoved' = (halfRemoved \/ LeavesRemovalHalf(t))
    /\ job' = [job EXCEPT ![t] = Idle]
    /\ UNCHANGED <<log, store, cursor, overtaken>>

Next ==
    \E t \in Thread :
        \/ RecordWrite(t) \/ RecordReset(t) \/ RemoveStores(t) \/ RecordForget(t)
        \/ ReadNewest(t) \/ MergeOps(t)
        \/ StartCatchUp(t) \/ ReadCursor(t) \/ SelectOps(t) \/ ApplyOp(t) \/ SetCursor(t)
        \/ StartRebuild(t) \/ AskRebuild(t) \/ SelectAll(t) \/ EmptyStores(t)
        \/ Fail(t)

Spec == Init /\ [][Next]_vars

----------------------------------------------------------------------------
(* Properties *)

\* What a thread holds, with positions of a log of this length.
Job(length) ==
    [at : InStores \cup {"idle", "merge", "wantCatchUp", "wantRebuild", "forgetting"},
     ops : Seq(Op),
     from : -1 .. length,
     last : 0 .. length,
     rebuild : BOOLEAN]

TypeOK ==
    /\ log \in Seq(Op)
    /\ store \in [Cell -> Id \cup {0}]
    /\ cursor \in 0 .. Len(log)
    /\ job \in [Thread -> Job(Len(log))]
    /\ overtaken \in BOOLEAN /\ cutShort \in BOOLEAN /\ halfRemoved \in BOOLEAN

\* Nobody is at work and a catch-up would find nothing.
Quiet ==
    /\ \A t \in Thread : job[t] = Idle
    /\ After(Start) = <<>>

\* The stores writes leave behind are the ones a rebuild would leave
\* (the comment on Rebuild, rebuild.go).
StoresAsRebuilt == Quiet => store = Rebuilt(log)

\* In one process only three things bring the stores off the log: an operation
\* merged past one that was recorded after the merge decided not to rebuild, a
\* rebuild that was cut short and that the log does not ask for again from
\* wherever the stores come to stand, and a removal whose two halves came apart:
\* it stopped with the stores taken away and the operations out of order still in
\* force, or the stores were used again before it was recorded.  Whatever else
\* stops part-way, the next catch-up repairs it.
DriftIsExplained == overtaken \/ cutShort \/ halfRemoved \/ StoresAsRebuilt

\* In one process the position that the stores are at goes back only when the
\* stores themselves are taken away, unless the halves of a removal came apart:
\* what a catch-up applied is not applied again over later rows, and a thread
\* never sets the cursor back to where it once read it.
PositionGrows ==
    [][Start' < Start => halfRemoved \/ (cursor' = 0 /\ store' = Empty /\ log' = log)]_vars

=============================================================================
