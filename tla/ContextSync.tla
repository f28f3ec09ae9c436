---------------------------- MODULE ContextSync ----------------------------
(***************************************************************************)
(* A project's context shared by several machines through a remote.        *)
(*                                                                         *)
(* Models core/workspace/sync.go (Sync.Pull, Sync.Push, Sync.fetch), the   *)
(* remotes it writes to (remote.go, fileremote.go, memremote.go), and the  *)
(* removal of a project (workspace.go, Forget).  Each machine keeps its    *)
(* operation log (OpLog) and, beside it, what it knows of the remote: the  *)
(* ids the remote holds, and the segments it has read with whether they    *)
(* are merged.  Machines share nothing but the remote.  Several processes  *)
(* of one machine share its log, its knowledge and its writer id.          *)
(*                                                                         *)
(* A pull or a push is not one transaction: every database statement and   *)
(* every object created is a step, processes interleave between them, and  *)
(* a process can stop after any of them (Fail).  What a step read and a    *)
(* later one uses is kept in the process's job.                            *)
(*                                                                         *)
(* The remote keeps no checkpoints here (SyncOptions.CheckpointEvery < 0), *)
(* and applying a merged log to the project's stores is left to Projector. *)
(***************************************************************************)
EXTENDS OpLog

CONSTANTS
    Machine,        \* the workspaces sharing the project
    Process,        \* the processes running kapi
    On,             \* the machine each process runs on
    SegmentOps,     \* how many operations one segment carries
    MaxFails,       \* bound: how many pulls and pushes stop part-way
    MaxForgets      \* bound: how often the project is removed

ASSUME ProcessesRunSomewhere == On \in [Process -> Machine]

ASSUME SegmentsCarrySome == SegmentOps \in Nat \ {0}

ASSUME BoundsAreNumbers == MaxFails \in Nat /\ MaxForgets \in Nat

VARIABLES
    log,        \* per machine, its operation log
    blobs,      \* per machine, the blobs it holds
    known,      \* per machine, the ids it knows the remote to hold
    segments,   \* per machine, the segments it has read: name -> merged?
    minted,     \* every operation recorded so far
    remote,     \* the remote's segments: name -> operations
    rblobs,     \* the remote's blobs
    job,        \* per process, the pull, push or removal it is in
    fails,      \* how many jobs stopped part-way
    forgets     \* how many removals were started

vars == <<log, blobs, known, segments, minted, remote, rblobs, job,
          fails, forgets>>

store == <<log, blobs, known, segments, minted>>    \* what machines keep
bounds == <<fails, forgets>>

----------------------------------------------------------------------------
(* Segments and blobs. *)

\* A segment's name: the writer, which is the machine, and its first id.
Name == [writer : Machine, first : Ids]

\* An edit keeps its runs in a blob.  Blobs are named by their bytes, so two
\* edits of one address name one blob.
BlobName == Ids \cup Address

BlobOf(op) == IF op.addr = NoAddress THEN op.id ELSE op.addr

BlobsOf(ops) == {BlobOf(o) : o \in {p \in ops : p.kind = "edit"}}

RankIn(ops, o) == Cardinality({p \in ops : p.id < o.id})

\* The operations of a push as segments of SegmentOps, in id order.
SegmentOf(ops, o) ==
    {p \in ops : RankIn(ops, p) \div SegmentOps = RankIn(ops, o) \div SegmentOps}

FirstIds(ops) ==
    {o.id : o \in {p \in ops : RankIn(ops, p) % SegmentOps = 0}}

SegmentAt(ops, i) == SegmentOf(ops, CHOOSE o \in ops : o.id = i)

\* The log holds the operation, by id or by content address.
Held(rows, op) == \E r \in rows : Matches(r, op) /\ ~Forgotten(rows, r)

\* Mistake: what is known to be on the remote is taken to be held here.
KnowsAll(m, ops) == {o.id : o \in ops} \subseteq known[m]

HoldsAll(m, ops) == \A o \in ops : Held(log[m].rows, o)

\* Mistake: operations are pushed after the newest the remote has.
ToPushAfterNewest(m) ==
    {o \in LiveOps(log[m].rows) : \A i \in known[m] : i < o.id}

\* The project's operations that travel and the remote is not known to hold.
ToPush(m) == {o \in LiveOps(log[m].rows) : o.id \notin known[m]}

Unread(m) == DOMAIN remote \ DOMAIN segments[m]

Unapplied(m) == {n \in DOMAIN segments[m] : ~segments[m][n]}

OpsIn(names) == UNION {remote[n] : n \in names}

----------------------------------------------------------------------------
(* Jobs.  What a process holds in memory between two steps. *)

Idle == [at |-> "idle"]

Some(S) == (SUBSET S) \ {{}}

Job ==
    {Idle} \cup
    [at : {"fetch"}, goal : {"pull", "push"}, todo : SUBSET Name] \cup
    [at : {"note", "keep"}, goal : {"pull", "push"}, todo : SUBSET Name,
     name : Name, merged : BOOLEAN] \cup
    [at : {"merge", "mark"}, names : Some(Name)] \cup
    [at : {"put"}, ops : Some(Op), blobs : SUBSET BlobName, firsts : Some(Ids)] \cup
    [at : {"known"}, ops : Some(Op)] \cup
    [at : {"record"}, firsts : Some(Ids)] \cup
    [at : {"forget"}]

Init ==
    /\ log = [m \in Machine |-> EmptyLog]
    /\ blobs = [m \in Machine |-> {}]
    /\ known = [m \in Machine |-> {}]
    /\ segments = [m \in Machine |-> <<>>]
    /\ minted = {}
    /\ remote = <<>>
    /\ rblobs = {}
    /\ job = [p \in Process |-> Idle]
    /\ fails = 0
    /\ forgets = 0

Goto(p, j) == job' = [job EXCEPT ![p] = j]

\* Records one operation under an id minted for it, after its blobs.
Accept(m, op) ==
    /\ Mintable(log[m].rows, {o.id : o \in minted}, op.id)
    /\ ~Answers(log[m].rows, op)
    /\ log' = [log EXCEPT ![m] = Record(@, {op})]
    /\ blobs' = [blobs EXCEPT ![m] = @ \cup BlobsOf({op})]
    /\ minted' = minted \cup {op}

\* A process of the machine records a context operation or an edit.
RecordOp(m) ==
    /\ \E op \in Op : op.kind # "forget" /\ Accept(m, op)
    /\ UNCHANGED <<known, segments, remote, rblobs, job, bounds>>

----------------------------------------------------------------------------
(* Fetch: what Pull and Push begin with. *)

\* Lists the remote's segments and the ones this machine has read.
StartSync(p, goal) ==
    /\ job[p] = Idle
    /\ Goto(p, [at |-> "fetch", goal |-> goal, todo |-> Unread(On[p])])
    /\ UNCHANGED <<store, remote, rblobs, bounds>>

\* Reads one segment and counts what of it the log does not hold.
FetchSegment(p) ==
    /\ job[p].at = "fetch"
    /\ \E n \in job[p].todo :
        Goto(p, [at |-> "note", goal |-> job[p].goal, todo |-> job[p].todo \ {n},
                 name |-> n,
                 merged |-> HoldsAll(On[p], remote[n])])
    /\ UNCHANGED <<store, remote, rblobs, bounds>>

\* Records that the remote holds the segment's operations.
NoteFetched(p) ==
    /\ job[p].at = "note"
    /\ known' = [known EXCEPT ![On[p]] = @ \cup {o.id : o \in remote[job[p].name]}]
    /\ Goto(p, [job[p] EXCEPT !.at = "keep"])
    /\ UNCHANGED <<log, blobs, segments, minted, remote, rblobs, bounds>>

\* Records the segment as read, unless another process has.
KeepFetched(p) ==
    /\ job[p].at = "keep"
    /\ segments' = [segments EXCEPT ![On[p]] =
                       [n \in DOMAIN @ \cup {job[p].name} |->
                           IF n \in DOMAIN @ THEN @[n] ELSE job[p].merged]]
    /\ Goto(p, [at |-> "fetch", goal |-> job[p].goal, todo |-> job[p].todo])
    /\ UNCHANGED <<log, blobs, known, minted, remote, rblobs, bounds>>

----------------------------------------------------------------------------
(* Pull. *)

Fetched(p, goal) ==
    job[p].at = "fetch" /\ job[p].goal = goal /\ job[p].todo = {}

\* Mistake: merging goes on with nothing to merge.
MergeJobAlways(names) == [at |-> "merge", names |-> names]

MergeJob(names) ==
    IF names = {} THEN Idle ELSE [at |-> "merge", names |-> names]

\* Reads the segments not yet merged, and the blobs they name that are missing
\* here.  The pull ends when there is no such segment.
SelectUnapplied(p) ==
    LET m == On[p]
        needed == BlobsOf(OpsIn(Unapplied(m))) \ blobs[m]
    IN  /\ Fetched(p, "pull")
        /\ needed \subseteq rblobs
        /\ blobs' = [blobs EXCEPT ![m] = @ \cup needed]
        /\ Goto(p, MergeJob(Unapplied(m)))
        /\ UNCHANGED <<log, known, segments, minted, remote, rblobs, bounds>>

\* Merges the segments' operations into the log, in one transaction.
MergeSegments(p) ==
    /\ job[p].at = "merge"
    /\ log' = [log EXCEPT ![On[p]] = Record(@, OpsIn(job[p].names))]
    /\ Goto(p, [job[p] EXCEPT !.at = "mark"])
    /\ UNCHANGED <<blobs, known, segments, minted, remote, rblobs, bounds>>

\* Marks one merged segment applied; a segment the machine no longer knows of
\* is no row to update.
MarkApplied(p) ==
    /\ job[p].at = "mark"
    /\ \E n \in job[p].names :
        /\ segments' = [segments EXCEPT ![On[p]] =
                           [s \in DOMAIN @ |-> s = n \/ @[s]]]
        /\ Goto(p, IF job[p].names = {n} THEN Idle
                   ELSE [job[p] EXCEPT !.names = @ \ {n}])
    /\ UNCHANGED <<log, blobs, known, minted, remote, rblobs, bounds>>

----------------------------------------------------------------------------
(* Push. *)

\* Reads the operations to push and the blobs of theirs the remote lacks.
CollectToPush(p) ==
    LET ops == ToPush(On[p])
    IN  /\ Fetched(p, "push")
        /\ Goto(p, IF ops = {} THEN Idle
                   ELSE [at |-> "put", ops |-> ops,
                         blobs |-> BlobsOf(ops) \ rblobs,
                         firsts |-> FirstIds(ops)])
        /\ UNCHANGED <<store, remote, rblobs, bounds>>

\* Creates one blob on the remote.
PutBlob(p) ==
    /\ job[p].at = "put"
    /\ \E b \in job[p].blobs :
        /\ rblobs' = rblobs \cup {b}
        /\ Goto(p, [job[p] EXCEPT !.blobs = @ \ {b}])
    /\ UNCHANGED <<store, remote, bounds>>

\* Mistake: segments do not wait for their blobs.
NextSegmentAtOnce(p, i) ==
    job[p].at = "put" /\ i \in job[p].firsts /\ \A j \in job[p].firsts : i <= j

\* The segment a push writes next: its blobs are there, and it is the oldest.
NextSegment(p, i) ==
    /\ job[p].at = "put"
    /\ job[p].blobs = {}
    /\ i \in job[p].firsts
    /\ \A j \in job[p].firsts : i <= j

\* Mistake: every process mints a writer id of its own.
ObjectNameOfProcess(p, i) == [writer |-> p, first |-> i]

ObjectName(p, i) == [writer |-> On[p], first |-> i]

\* The remote holds an object by that name with other bytes.
ObjectExists(p, i) ==
    /\ ObjectName(p, i) \in DOMAIN remote
    /\ remote[ObjectName(p, i)] # SegmentAt(job[p].ops, i)

\* Creates the next segment; one the remote holds with the same bytes is left
\* as it is.
PutSegment(p) ==
    /\ \E i \in Ids :
        /\ NextSegment(p, i)
        /\ ~ObjectExists(p, i)
        /\ remote' = [n \in DOMAIN remote \cup {ObjectName(p, i)} |->
                         IF n \in DOMAIN remote THEN remote[n]
                         ELSE SegmentAt(job[p].ops, i)]
        /\ Goto(p, IF job[p].firsts = {i} THEN [at |-> "known", ops |-> job[p].ops]
                   ELSE [job[p] EXCEPT !.firsts = @ \ {i}])
    /\ UNCHANGED <<store, rblobs, bounds>>

\* Another process of this machine wrote another segment under the name: the
\* push ends with an error, and the next one reads the remote first.
PutRefused(p) ==
    /\ \E i \in Ids : NextSegment(p, i) /\ ObjectExists(p, i)
    /\ Goto(p, Idle)
    /\ UNCHANGED <<store, remote, rblobs, bounds>>

\* Mistake: a push notes what the remote holds before it is there.
NoteBeforePut(p) ==
    /\ job[p].at = "put"
    /\ known' = [known EXCEPT ![On[p]] = @ \cup {o.id : o \in job[p].ops}]
    /\ UNCHANGED <<log, blobs, segments, minted, remote, rblobs, job, bounds>>

\* Records that the remote holds what was pushed.
NotePushed(p) ==
    /\ job[p].at = "known"
    /\ known' = [known EXCEPT ![On[p]] = @ \cup {o.id : o \in job[p].ops}]
    /\ Goto(p, [at |-> "record", firsts |-> FirstIds(job[p].ops)])
    /\ UNCHANGED <<log, blobs, segments, minted, remote, rblobs, bounds>>

\* Records one written segment as read and merged.
KeepPushed(p) ==
    /\ job[p].at = "record"
    /\ \E i \in job[p].firsts :
        /\ segments' = [segments EXCEPT ![On[p]] =
                           [n \in DOMAIN @ \cup {ObjectName(p, i)} |->
                               n = ObjectName(p, i) \/ @[n]]]
        /\ Goto(p, IF job[p].firsts = {i} THEN Idle
                   ELSE [job[p] EXCEPT !.firsts = @ \ {i}])
    /\ UNCHANGED <<log, blobs, known, minted, remote, rblobs, bounds>>

----------------------------------------------------------------------------
(* Removal and failure. *)

\* Forget discards what the workspace knows of the project's remotes ...
ForgetSyncState(p) ==
    LET m == On[p]
    IN  /\ job[p] = Idle
        /\ forgets < MaxForgets
        /\ forgets' = forgets + 1
        /\ known' = [known EXCEPT ![m] = {}]
        /\ segments' = [segments EXCEPT ![m] = <<>>]
        /\ Goto(p, [at |-> "forget"])
        /\ UNCHANGED <<log, blobs, minted, remote, rblobs, fails>>

\* ... and then records the removal in the log.
RecordForget(p) ==
    /\ job[p].at = "forget"
    /\ \E op \in Op : op.kind = "forget" /\ Accept(On[p], op)
    /\ Goto(p, Idle)
    /\ UNCHANGED <<known, segments, remote, rblobs, bounds>>

\* A job stops part-way: the process ends, its context is cancelled, or the
\* remote cannot be reached.
Fail(p) ==
    /\ job[p] # Idle
    /\ fails < MaxFails
    /\ fails' = fails + 1
    /\ Goto(p, Idle)
    /\ UNCHANGED <<store, remote, rblobs, forgets>>

PullStep(p) == SelectUnapplied(p) \/ MergeSegments(p) \/ MarkApplied(p)

PushStep(p) ==
    \/ CollectToPush(p) \/ PutBlob(p) \/ PutSegment(p) \/ PutRefused(p)
    \/ NotePushed(p) \/ KeepPushed(p)

FetchStep(p) == FetchSegment(p) \/ NoteFetched(p) \/ KeepFetched(p)

Next ==
    \/ \E m \in Machine : RecordOp(m)
    \/ \E p \in Process :
        \/ \E goal \in {"pull", "push"} : StartSync(p, goal)
        \/ FetchStep(p)
        \/ PullStep(p)
        \/ PushStep(p)
        \/ ForgetSyncState(p)
        \/ RecordForget(p)
        \/ Fail(p)

Spec == Init /\ [][Next]_vars

\* A job under way goes on, and every process pulls and pushes again and again.
Fairness ==
    \A p \in Process :
        /\ WF_vars(FetchStep(p) \/ PullStep(p) \/ PushStep(p) \/ RecordForget(p))
        /\ \A goal \in {"pull", "push"} : SF_vars(StartSync(p, goal))

FairSpec == Spec /\ Fairness

----------------------------------------------------------------------------

TypeOK ==
    /\ \A m \in Machine :
        /\ log[m].rows \in SUBSET Row
        /\ log[m].seq \in Nat
        /\ DOMAIN segments[m] \subseteq Name
        /\ \A n \in DOMAIN segments[m] : segments[m][n] \in BOOLEAN
    /\ blobs \in [Machine -> SUBSET BlobName]
    /\ known \in [Machine -> SUBSET Ids]
    /\ minted \in SUBSET Op
    /\ DOMAIN remote \subseteq Name
    /\ \A n \in DOMAIN remote : remote[n] \in Some(Op)
    /\ rblobs \in SUBSET BlobName
    /\ job \in [Process -> Job]
    /\ fails \in 0..MaxFails
    /\ forgets \in 0..MaxForgets

\* A machine takes the remote to hold only what it holds, whatever failed
\* between creating objects and noting them: a push never skips an operation
\* that is nowhere but here.
KnownIsRemote ==
    \A m \in Machine : known[m] \subseteq {o.id : o \in OpsIn(DOMAIN remote)}

\* Neither the remote nor a log ever shows an edit whose blob is not beside it,
\* also while a push or a pull is part-way and after it stopped there.
BlobsBesideOps ==
    /\ BlobsOf(OpsIn(DOMAIN remote)) \subseteq rblobs
    /\ \A m \in Machine : BlobsOf(LiveOps(log[m].rows)) \subseteq blobs[m]

\* An older operation came in that says the same as one before this operation:
\* that one no longer travels, and later pushes cut their segments elsewhere.
Overtaken(op) ==
    \E o, p \in minted : SameAddress(o, p) /\ o.id < p.id /\ p.id <= op.id

\* No operation is written to the remote twice: a push that was interrupted
\* after its segment landed, and one that runs beside another push of the same
\* machine, write each operation in one segment.  A removal forgets what the
\* remote holds, so an operation that a push collects meanwhile is written once
\* more.  Two pushes of one machine also write an operation in two segments when
\* a pull between them replaces an operation before it by an older one.
WrittenOnce ==
    \A op \in minted :
        \/ Overtaken(op)
        \/ Cardinality({n \in DOMAIN remote : op \in remote[n]}) <= 1 + forgets

\* A segment marked merged is never read again, so the log has all of it, under
\* its id or its content address.
AppliedIsHeld ==
    \A m \in Machine : \A n \in DOMAIN segments[m] :
        segments[m][n] => \A op \in remote[n] : Held(log[m].rows, op)

\* What an operation says, whichever id it goes by.
SaidBy(op) == IF op.addr = NoAddress THEN op.id ELSE op.addr

Statements(ops) == {SaidBy(o) : o \in {p \in ops : p.kind # "forget"}}

\* The machine has nothing to push, to read or to merge.
Synced(m) ==
    /\ ToPush(m) = {}
    /\ Unread(m) = {}
    /\ Unapplied(m) = {}
    /\ \A p \in Process : On[p] = m => job[p] = Idle

\* Machines with nothing left to push or pull say the same things.
SyncedAgree ==
    \A m, n \in Machine :
        Synced(m) /\ Synced(n) =>
            Statements(LiveOps(log[m].rows)) = Statements(LiveOps(log[n].rows))

\* The machines, the remote between them and all that happens in between are
\* one shared log of statements (SharedLog).
Shared == INSTANCE SharedLog WITH
    Statement <- Ids \cup Address,
    said <- Statements(minted),
    published <- Statements(OpsIn(DOMAIN remote)),
    holds <- [m \in Machine |-> Statements(LiveOps(log[m].rows))]

SharesOneLog == Shared!Spec

\* Every operation recorded anywhere comes to be held everywhere.
Delivery ==
    \A m \in Machine, i \in Ids :
        (\E op \in minted : op.id = i)
            ~> \E op \in minted : op.id = i /\ Held(log[m].rows, op)

\* Two logs merged into each other hold the same operations, under the same ids
\* (opid.go, Merge).
LogsAgree ==
    \A m, n \in Machine :
        Synced(m) /\ Synced(n) => LiveOps(log[m].rows) = LiveOps(log[n].rows)
=============================================================================
