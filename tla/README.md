# A verification project for neokapi

neokapi keeps the context of a content project (terms, memory, voice, decisions,
edits) in an append-only *operation log* per machine, shares it between machines
through a dumb remote (a directory, a git repository), projects it into stores,
and runs flows of tools over documents. A server, bowrain, shares projects
between people and runs jobs for them.

This directory holds TLA+ models of the parts whose correctness depends on
interleavings, arrival order and failure, the TLC runs that check them, and
proofs about them that hold for every value of the constants.

## 1. Inventory

| Part | State | Operations | What is hard |
|---|---|---|---|
| Operation log (`core/workspace/local.go`, `opid.go`) | `workspace_ops`: rows with position, id, content address, kind, subject | Record, RecordIf, Merge, Since, SubjectHead | operations arrive in any order and again; a merge deletes and replaces rows; conditional writes race with merges and other processes |
| Context sync (`sync.go`) | ids known to be on the remote, segments read and merged | Pull, Push, Fetch | neither is a transaction; processes of one machine share the tables; any step can be the last |
| Remotes (`remote.go`, `fileremote.go`, `memremote.go`, `gitremote.go`) | objects by name, create-only | List, Get, Put | Put of several objects stops part-way |
| Workspace registry (`workspace.go`, `sessions.go`, `imports.go`, `rules.go`, `reset.go`) | projects, checkouts, sync state | Register, Forget, resets | Forget is a file removal, a transaction and a record, with others at work in between |
| Projector (`core/projector`) | the stores, and a cursor into the log | commit, CatchUp, Rebuild, checkpoints | the log's order is not the order of ids; a merge, a catch-up and a rebuild of several processes interleave; crashes between store and cursor |
| Workspace home (`core/workhome`) | heads and rows of the editions kept in the log | stage, commit, rebase | lost updates; two machines rebasing one write |
| Parallel block tool (`core/tool/parallel.go`) | two permit windows, a worker pool, a reassembly ring | Process | order, back-pressure, the barrier, cancellation |
| Flow executor (`core/flow`), streams and skeletons (`core/format`), file home (`core/change/filehome`) | goroutines and bounded channels, a queue of skeleton entries, a block store session, a staged document | RunFile: read, feed, relay, process, write, commit | a stage fails, stops reading or is cancelled while others block on it; reader and writer meet by two ways; another run commits to the same file |
| Jobs (`bowrain/jobs`) | job rows with a lease and two budgets, broker messages, workers, sweepers | create, claim, run, retry, defer, cancel, sweep, revert | at-least-once delivery; row and message written apart; a sweep that takes a live worker for dead |
| Leader lease (`bowrain/store/leader.go`) | one lease row, one flag per instance | renew, release, IsLeader | constructed by no process of the program |
| Automation runs (`bowrain/event`, `bowrain/store/automation_run.go`, `bowrain/server/automation.go`) | a run's row with two counts, a row per step, the context its actions run under, the steps a tracker polls | Execute, CompleteStep, settle, CancelRun, the window's timer, polling | reports of flows and jobs come after the call that started them, from several goroutines; every look and its write are two statements; a run reopens |
| Events (`bowrain/event`) | subscriptions, the push tracker | publish, dispatch, Close | repeated events, full buffers |
| Push apply, breaker, billing, agent pool, plugin daemon | see PROJECT.json | | |

The parts meet like this. A command records through the projector, which encodes
the write as operations, records them in the log (`Record`, or `RecordIf` for an
edit to an edition the workspace home keeps) and applies whatever the stores have
not seen. Sync pushes the log's operations to a remote as *segments* and merges
the segments it reads into the log (`Merge`); then it asks the projector to apply
them, and, when an operation sorts before one already applied, to rebuild.
Several processes (commands, an editor, an assistant) do all this on one machine
at once; SQLite's IMMEDIATE transactions order their writes, nothing orders what
happens between two of them.

On the server, an event's rules name actions. The automation engine executes them
in order, each as a step of one run. Some of them go on in goroutines; some create
jobs, which the workers of `bowrain/jobs` run and a tracker polls; whoever closes
the last step settles the run. Nothing but the rows is shared between these, and
no transaction spans two statements on them.

What makes each part correct:

- *Log*: one row per id and content address; what it holds does not depend on the
  order of arrival; no conditional write overwrites a write its author did not
  read; a reader by position misses nothing.
- *Sync*: an operation recorded anywhere reaches every machine; nothing is taken
  to be on the remote, or merged, that is not; what an interrupted push wrote is
  not written again; an edit never appears without its blob; what a failed push or pull leaves is repaired by
  the next; together the machines are one shared log.
- *Projector*: after any catch-up or rebuild the stores are the fold of the live
  log in id order; a crash is repaired by the next catch-up.
- *Workspace home*: divergent writes are carried over once, on every machine alike.
- *Parallel blocks*: output order is input order; the ring never overwrites;
  structural handlers never overlap block handlers; it always ends.
- *Flow executor*: a document is committed whole or not at all, and never over what
  another run committed; a run returns, with nothing of it left running. (The second
  has exceptions, which section 5 reports.)
- *Jobs*: one owner at a time; every run is paid for, so there are finitely many;
  what ended stays ended; whatever was queued ends.
- *Automation runs*: every report counts, once; the last one ends the run; a
  cancellation reaches what the run started, and nothing else stops it. (The exceptions
  are in section 5.)

## 2. Plan

| # | Module | Composes | Abstract specification | State |
|---|---|---|---|---|
| 1 | `OpLog` | | `Union` of what arrived | written; lemmas proved |
| 2 | `LocalLog` | OpLog | the log is a union; a watcher sees all | written; proved |
| 3 | `ContextSync` | OpLog | `SharedLog` | written; checked; proved |
| 4 | `Projector` | | stores = fold of the live log in id order (`Rebuilt`) | written; checked; proved |
| 5 | `ParallelBlocks` | | `OrderedStage` | written; checked; proved |
| 6 | `ParallelBlocks_proofs` | ParallelBlocks | | permits, the ring, the refinement: proved for every pool |
| 7 | `JobRow`, `JobQueue` | | | written; checked |
| 8 | `JobQueue_proofs` | JobQueue | | every safety property: proved for any number of jobs, workers and sweepers |
| 9 | `FlowPipeline` | | | written; checked |
| 10 | `FlowPipeline_proofs` | FlowPipeline | | every safety property: proved for any document, flow and link |
| 11 | `ContextSync_proofs` | ContextSync | | every safety property and the refinement: proved for any machines, processes, ids and segment size |
| 12 | `AutomationRun` | | | written; checked |
| 13 | `AutomationRun_proofs` | AutomationRun | | every safety property: proved for any number of actions, cancellations and restarts |
| 14 | `Projector_proofs` | Projector | | every safety property: the types for any processes, the rest for the threads of one process |
| 15 | `WorkHome` | OpLog | one head per edition | |
| 16 | change relay, the push tracker, push apply | | | bowrain |
| 17 | checkpoints in `ContextSync` and `Projector`, the git remote | 3, 4 | | last |

## 3. What is modelled

### OpLog: recording, as an algebra

A log is `[rows, seq]`: the rows of `workspace_ops` and the last position SQLite
handed out. `seq` is a field of its own because the table is AUTOINCREMENT: a
merge deletes rows, also the newest, and its position must not come back.
`Record(log, ops)` is `LocalBackend.record` on a batch of operations that carry
ids: an operation is *answered* by a row of its id or address unless that row was
forgotten (it sits before the project's removal) or the arriving id is older;
otherwise the row is deleted and the operation appended at a new position. The
code does this one operation at a time in id order (`RecordInSequence`); `Record`
says what the batch yields in one definition, which is what the other modules use
and prove about. That the two agree from every log there can be and for every
batch is `RecordIsSequential`, checked by the run `local_log` and proved.

Data that no property tells apart is left out: payloads, moments, the project
column (one project), the subject (one edition: kind `"edit"`). An id is a number
because only its order is used. A content address fixes the kind of its
operations (`KindOf`), because an address says what its operation says. Minting
(`Mintable`) takes any unused id above the newest of the log, which is all that
`NewOpID` promises; ids minted on different machines differ by their random part.

### LocalLog: one log and the processes around it

| Action | Code |
|---|---|
| `RecordNew` | `Record` of a context operation |
| `ReadHead`, `ReadRows` | `Home.read`: the head first, the projection afterwards |
| `WriteEdition`, `WriteRefused` | `RecordIf`: the head is checked in the transaction that appends |
| `RecordElsewhere`, `MergeArriving` | other machines mint operations; `Merge` records any batch of them, again and again |
| `RecordForget` | the removal of the project as the log sees it |
| `Poll` | a watcher reading `Since` its cursor |

`arrived` is a history variable: everything recorded or merged here since the
last removal. `LogIsUnion` compares the log with it.

### ContextSync: machines, processes and a remote

Each machine has a log, its blobs, and the sync tables (`known`, `segments`,
where `segments[m][name]` is the `applied` column). A process's `job` is what
`Pull`, `Push` or `Forget` holds in memory. The steps of a pull:

    StartSync, then for each unread segment FetchSegment (Get and notHeld),
    NoteFetched (noteKnown) and KeepFetched (the INSERT); SelectUnapplied
    (unapplied and fetchBlobs); MergeSegments (one transaction); MarkApplied
    (one UPDATE per segment).

A push fetches in the same way and goes on with `CollectToPush`, `PutBlob` for
each blob, `PutSegment` or `PutRefused` for each segment, `NotePushed`, and
`KeepPushed` for each segment. `ForgetSyncState` and `RecordForget` are the two
transactions of `Workspace.Forget`. `Fail` stops any job between any two steps.

Two reads that follow each other and write nothing are one step where the first
only grows: `List` and the SELECT of the segments seen; `removalAt` and the
SELECT of what to push, and the list of the remote's blobs after it; `Get` and
`notHeld`. Blobs are modelled for edits; a blob is named by its address, as its
bytes are. The remote is the one that creates objects one by one (`FileRemote`):
a git remote, which writes a whole Put at once, only has fewer behaviours.
Checkpoints are off, which the code supports (`CheckpointEvery < 0`).

### SharedLog: what sync promises

Machines say things, what was said is published, machines come to hold what was
published, and only a removal takes away. Its statements are *what an operation
says*: its content address, or its id when it has none. `ContextSync` implements
it (`SharesOneLog`) with `holds` mapped to the statements of the live log,
although the ids may differ (finding `LogsAgree`).

### Projector: the stores beside the log

The log is here a sequence of operations by position: addresses and replaced
rows are `OpLog`'s matter, and no operation of this module has an address. A
store row is a cell, and holds the id of the operation that wrote it last;
`cursor` is `projector_cursor`. Threads of one process share a mutex
(`LockFree`), processes do not.

| Action | Code |
|---|---|
| `RecordWrite` | `commit`: records under the lock and goes on to the catch-up without letting go |
| `RecordReset` | `ResetContext`: a ledger record, then a request for a rebuild |
| `ReadNewest`, `MergeOps` | `Sync.merge`: what decides about a rebuild is read before the transaction that merges |
| `StartCatchUp`, `ReadCursor`, `SelectOps`, `ApplyOp`, `SetCursor` | `catchUpLocked`: one step per statement, one per operation applied |
| `StartRebuild`, `AskRebuild`, `SelectAll`, `EmptyStores` | `rebuildLocked`; its replay is `ApplyOp` with `from = -1` |
| `RemoveStores`, `RecordForget` | `Workspace.Forget`: the stores' file goes first, the cursor with it; the removal is recorded in the log last |
| `Fail` | a thread stops between any two of its steps, and lets go of the mutex |

`InForce` and `SetAside` are the code's loop over the log from its newest
operation down, stated as what it computes: a reset is in force when no later
one in force covers it. `Rebuilt` is what a rebuild would leave. `overtaken`,
`cutShort` and `halfRemoved` are history variables; they name the three ways known to
bring the stores of one process off the log, and `DriftIsExplained` says there is no
fourth.

A removal is two steps of one thread, and between them any other thread may open the
stores again, record, merge, catch up or rebuild; the thread may also stop there. Empty
stores with the old operations still in force are then filled again by a catch-up, in
the order the log has and not in the order of ids. `halfRemoved` is set when that makes
a difference: when the removal stops with operations out of order in force that no
reset will have replayed (`LeavesRemovalHalf`), or when it is recorded after the stores
were used again (`Reused`). `RemoveStores` asks that no thread is using the stores when
their file goes, as a command that removes a project is run; what a thread with the
deleted file still open would write goes to no file that anybody opens again. A removal of
the file that fails half-way, and the registry's transaction between the two steps,
which the stores do not see, are left out.

A rebuild that is cut short does no harm where the next catch-up meets a reset and
rebuilds itself, but it has to meet one wherever the stores stand by then
(`AsksAgain`): also at a position that another thread, at work on rows it has read
before, is going to set (`ComingPositions`). The proof asked for that. The case
takes four ids and two failures, which an instance of one row checked as well; a `cutShort` that looks only from the cursor is refuted there.
What a removal does to the sync tables is in `ContextSync`. Left out: checkpoints, the
indexes, the stores of edits and decisions (they merge fields instead of replacing
rows), and the steps a store refuses.

### ParallelBlocks and OrderedStage: a tool over a pool of workers

`OrderedStage` is what a stage promises its neighbours: the Parts it lets
through leave in the order they came, a structural handler runs alone, after the
handlers before it and before those after it, the stage holds a bounded number of
Parts, a success means that everything came out, and no handler runs once it
has returned. `ParallelBlocks` has the goroutines of
`ParallelBlockTool.Process`:

| Goroutine | Actions |
|---|---|
| reader | `AcquirePermit`, `ReadPart` or `InputClosed`, then `SubmitBlock` for a block; `TradePermit`, `PassBarrier` and `HandlePart` when the tool handles the type, `PutPart`; `ReaderStops` wherever it selects on the context; `JoinWorkers` |
| worker | `TakeJob` (looks at the context), `HandleBlock`, `PutResult` or `DropResult`, `CountDone`; `LeavePool` once `jobs` is closed |
| emitter (`Process` itself) | `Receive`, `SendPart` or `SkipDropped`, `ReleasePermit`; `ResultsClosed`, `EmitterStops`; `CancelRest` and `Return` for the deferred function |
| caller | `Cancel` |

A window is a channel of empty structs, so only its length is kept; `jobs` has no
buffer, so a submission is one step of reader and worker. A select with several
channels ready takes any. `TradePermit` joins the send to the other window and
the receive from the block window: the receive cannot wait, since the reader
holds a permit of that window, and nobody sees the state between the two except
as one permit fewer. A handler returns what its Part is marked to return; under a
cancelled context it may fail instead. The refinement maps `passedOn` to
`nextSeq`, counting the Part whose permit is still to be released, and shows the
outcome only once `Process` has returned.

### JobRow and JobQueue: background jobs

`JobRow` has the statements of `bowrain/jobs/store.go`: a statement is a WHERE
(`Owns`, `Claimable`, `Sweepable`) and a SET (`Retried`, `Deferred`, `SweptBack`),
and one UPDATE is one step. Whoever holds the row's current epoch while it is in
processing owns the job; only a claim and a cancellation move the epoch, so a
sweep that makes a row queued leaves the epoch to the next claim, and a revert
gives a row back to whoever held it. `stale` says that `updated_at` lies before
the sweep's cutoff; nothing else of the clock is kept, and `Age` lets the
threshold pass at any time.

| Action | Code |
|---|---|
| `Create`, `Publish`, `PublishFails`, `PublishUnheard` | the handlers that create a job: row, message, and the row's removal when the enqueue reports an error |
| `Cancel` | `CancelJob`, from the job and the automation handlers |
| `Receive`, `VisibilityTimeout`, `MessageLost` | the broker, which is external: SQS, or a channel in the process |
| `Claim` | `processJobWithDeps` up to the claim |
| `Renew`, `Report`, `Abandon` | the heartbeat, the progress writes and the gate at each chunk; a push's note of what its gate refused |
| `Complete`, `Retry`, `Defer`, `Fail`, `Refuse`, `DropIngest`, `FailPush` | the ends of a run, by kind of job: which of them ask for the lease is what the code has |
| `Stumble` | the claim, the load or the last write of the row fails |
| `Resend`, `Announce`, `Ack`, `Nack`, `Crash` | the loop after the run |
| `SweepRequeue`, `SweepFail`, `SweepEnqueue`, `Revert`, `SweeperStops` | `sweepOnce`: two statements, then a message per job, and a revert where that fails |

There are three kinds of job, because three ways to end a run exist: translations
and project checks end under the lease, ingests and model sweeps retry under it
and complete without it, pushes never ask. `claims` is a history variable: how
often a worker took the job on. A job is put back by a deferral with a delay; the
delay is how long its message takes to be received.

### FlowPipeline: one document of a file run

Stage `k` writes link `k` and reads link `k - 1`: the format's reader (stage -1), the
feeder, the relay that seeds state, the tools, the tap, and then the run itself, which
reads the last link through the writer. A link is a channel and carries Parts in order,
so what was sent on it and what was received from it say everything. `feed` is how the
document gets in:

- `"slice"`: it was read before the run (`sliceFeeder`), so the reader is done;
- `"reader"`: the reader streams, in a goroutine of its own that runs under the
  *caller's* context (`StreamParts`), while the feeder's sends look at a context the run
  calls off;
- `"skeleton"`: reader and writer both stream and share a skeleton (`wireSkeleton`).
  The reader writes a Part's entry and then sends the Part; the writer
  (`StreamSkeletonWrite`) takes the entries one by one, in `Next`, which looks at no
  context, and waits for each one's Part, which does. `parsed` and `rendered` are the two
  ends of the skeleton, a queue without a bound. Only the feeder closes it, when it
  returns.

| Actor | Actions | Code |
|---|---|---|
| reader | `Parse`, `Send`, `ReadEnds`, `ReadFails` | `StreamParts` and a streaming reader such as srt's: its error is the last thing it sends |
| feeder | `Receive`, `Send`, `FeedEnds`, `FeedFails`, `FeedCalledOff`, `FeederReturns` | `feedReader`, `sliceFeeder`: ends without an error when called off, closes its link, then the skeleton, and does not join the reader |
| seed relay | `Receive`, `Send`, `End`, `SeedGivesUp`, `SeedDrains` | `runExecuteWrite`: drains when the feed is called off |
| tools | `Receive`, `Send`, `Drop`, `End`, `HandlerFails`, `ToolCalledOff`, `ToolFailed` | `BaseTool.Process` in an errgroup; the link closes before the group hears of the error |
| tap | `Receive`, `Send`, `End` | `runExecuteWrite`: looks at no context |
| writer, in the run | `Write`, `Render`, `WriteCalledOff`, `SkeletonEnds`, `WriteEnds`, `WriteFails` | a `DataFormatWriter`; `StreamSkeletonWrite`, `SkeletonStore.Next` |
| run | `Drain`, `Wait`, `Join`, `CommitFails`, `Commit` | `runExecuteWrite`, then `Produced.Commit` under the file's lock |
| caller, another run | `Interrupt`, `Propagate`, `Rival` | a cancelled context reaches its children one after the other |

A tool stands for any that keeps the contract of `core/tool/tool.go` (receives and
sends observe the context); `ParallelBlocks` shows that the parallel tool ends
when cancelled. A writer that reports success has drained its input, as every
`DataFormatWriter` does by ranging over it. Every Part has one entry in the skeleton:
the text between two entries of Parts is written with no wait and is part of them. An
entry whose Part does not come (a tool dropped it) is rendered as it was read. The model
is the run that is followed or traced, with both relays; without them two links fall
away.

### AutomationRun: what an event starts

One event's run on one server. The engine is one actor, the tracker another, each
flow a third kind, each request to cancel a fourth; `actor[a].at` is where it
stands between two statements. `run` and `status` are the rows, `rx` is the
manager's `runExecution` (`held`: the manager still has it), and `work[i]` how far
the goroutine of action `i` is.

| Action | Code |
|---|---|
| `GetOrCreateRun`, `InsertStep`, `GrowRun`, `Dispatch` | `Execute` up to the executor's return; `CreateStep` is two statements, of which the second reopens the run |
| `BackgroundEnds`, `FlowEnds`, `GiveUp` | the goroutines of `runAction`: reviews and overlays, `executeRunFlow`, `triggerAutoTranslate`, `triggerAutoExtract` |
| `IssueJobs`, `CreateJobs`, `IssueRegistration`, `RegisterJobs` | the statements of the last two: an `ExecContext` looks at its context when it is issued (`Issue`), and takes effect later, whether or not the context has ended by then |
| `JobsEnd`, `Poll` | the workers, seen from here; `checkPending` and `completeStep` up to its look at the step |
| `CloseStep`, `CountStep`, `ReadRun`, `ListSteps`, `WriteRun`, `MarkTerminal` | the same end in `Execute`, `CompleteStep` and `completeStep`: step row, count, `settleAutomationRun`, `settle` |
| `WindowCloses` | the timer of `getOrCreateRun` |
| `AskToCancel`, `StopRun`, `ListOpen`, `SkipStep`, `CloseRun` | `CancelRun` |
| `RequestEnds` | the request of a cancellation is over, and so is the context `CancelRun` writes under |
| `Restart` | the server goes down: rows and jobs stay, everything in memory is gone, what was on its way to the database may still arrive |

An action has one of four kinds: it runs inside `Execute`, or goes on in the
background after its step was closed, or closes its own step, or creates jobs.
The jobs of a step are one, since they are created, registered, polled and
cancelled together. `TrackStep` joins the effect of `RegisterStepJobs`, because a step
not yet tracked is merely not polled; a caller whose context has ended meanwhile may be
told that the statement failed although it took effect, and leaves the step untracked.
A cancellation's calls for a step's jobs and for its row are one step. The writes of a
report do not run under the run's context (a flow closes its step under
`context.WithoutCancel`, engine and tracker under contexts of their own), so they need
no step in which they are issued. Timers and timeouts fire at any time. `auto_translate_new_locale`
creates jobs without a step id and is a `GiveUp`. Left out: statements that fail
although the context is alive, and a cancellation through another instance of the
server, which reaches the rows only. The tracker settles runs without telling the
manager, so `rx` stays as it is there.

`crossed`, `uncounted` and `overwritten` are history variables. They name what the
properties except: a step whose registration was on its way to the database when a
cancellation listed the open steps; a process or a request that ends between a step's
row and its count; and a cancelled run that a settle which had read it before writes
over.

## 4. The runs

| Run | Instance | Shows |
|---|---|---|
| `local_log` | 3 ids, 2 addresses (a rule and a draft), 2 writers | the log is a union, no lost edit, the watcher misses nothing, one row each, batch = sequence |
| `sync` | 2 machines, one process each, 2 ids, segments of 2, one failure, fair | applied is held, blobs beside edits, synced machines agree, SharedLog is implemented, and everything recorded reaches every machine |
| `sync_removal` | 2 processes of one machine, 3 ids, one removal, one failure | a removal beside pulls and pushes; what an interrupted push wrote is not written again, but for what a removal made the machine forget |
| `projector` | 2 threads of one process, 3 ids, 2 rows, one merge of up to 2, one asked-for rebuild, one removal, one failure, symmetric | the stores end as a rebuild would leave them, but for three named causes; the position goes back only with stores taken away |
| `parallel_blocks` | 2 workers, one other permit per worker (a ring of 4), 19 streams of up to 5 Parts, any cancellation, fair | order, barrier, permits, ring, and that it always ends |
| `job_queue` | one job of any kind, 2 workers, 2 sweepers, 2 attempts, 2 deferrals, 2 faults, fair | one owner, runs paid for, ended stays ended, announced stays failed, and every queued job ends |
| `flow_pipeline` | 2 Parts, fed in any of the three ways, 2 tools, links of one, any failure, cancellation and rival, fair | committed only whole, never over a rival, joined at return but for a reader after an error, and it returns |
| `automation_run` | 2 actions of any kind, one cancellation, one restart, fair | reports are counted, the last one settles the run, a cancellation reaches the jobs that were on a row when it looked, and the run ends |
| `automation_stopped` | 2 actions, no restart | violated: the end of the window stops work of a run nobody cancelled |
| `logs_agree` | 2 machines, 2 ids | violated: the logs need not agree on ids |
| `projector_processes` | 2 threads of two processes, 3 ids | violated: an older write may stand over a newer one |
| `flow_starved` | 5 Parts over a skeleton, one tool that may fail, links of one, fair | violated: the run hangs after a tool has failed |

Bounds. Two ids are needed for two operations of one address (the case that
replaces a row), a third for an operation beside them and for a second segment;
a larger instance of `LocalLog` (4 ids, one writer) was checked too and shows
nothing new. `SegmentOps = 2` gives a push of a full segment and of a partial one; three ids, in
`sync_removal`, give two segments in one push. Two machines with three ids (412
thousand states), and two processes of one machine beside a process of another
(1.02 million), were checked too and show nothing new; the theorems below have any
number of either.
`MaxFails` and `MaxForgets` bound how often the environment interferes; one is
enough to put a failure or a removal between any two steps, which is what the
properties speak of. `local_log` may run out of ids, so deadlock is not checked
there; in `ContextSync` a process can always start a pull, and in `Projector` a
thread can always catch up.

In `projector` three ids make an operation below, between and above those held,
and a reset with something on both sides; an instance with four ids, one row
and two failures (20.9 million states) was checked too and shows nothing new. A removal
meets every other step in both halves, since either thread may remove while the other
starts anything. In `parallel_blocks` a
stream of five goes once around the ring of four. Streams fill the block window
(five blocks), fill the other window (three Parts that pass), put blocks on both
sides of a structural Part, and drop or fail the second or the fourth Part.

In `job_queue` one job is enough, because no statement and no step relates two
rows but the sweep, which treats each by its own; two faults let a lost
message meet a failed revert, and a slow worker a late one. The proofs have any
number of each.

In `flow_pipeline` two Parts over links of one are one more than a link holds, so each
actor is met waiting for each of its neighbours, and two tools are needed for one to
fail while the other works. `Faults`, `Droppable` and `Rivals` bound what may go wrong:
between the three ways of feeding everything may, and the first Part may be dropped,
which over a skeleton makes an entry without its Part. The writer of a streaming pair is
starved when the feeder waits for its link while a tool has failed. That takes five
Parts: one in the tool's hand, one in each of the two links before it, one in the relay's
hand and one in the feeder's; `flow_starved` has them. `Returns` was checked too for such a
document with any cancellation and a tool that may drop a Part (738 thousand states):
`Starved` is the only state in which the run stays. The proofs have every fault, for
documents of any length.

In `automation_run` two actions make a run that settles after its first step and
reopens for the second, and reports of both cross; every pair of kinds is an
initial state. The run is over when nothing is left to do, so deadlock is
not checked in it, nor in `job_queue` and the runs of `FlowPipeline`. The proofs have
any number of each.

Fairness (`sync`). A job that is under way goes on (weak fairness of its
next step: nothing blocks it, a database statement ends), and every machine both
pulls and pushes again and again (strong fairness of starting each, because a
machine that only ever pulls would satisfy weak fairness of the disjunction).
The second is an assumption about how people and the background sync use kapi;
the property says what that use achieves. Failures are not fair and are bounded.

Fairness (`parallel_blocks`). The goroutines run, one condition each: a runnable
goroutine is scheduled again, and a handler returns (weak fairness; no goroutine
needs strong fairness, since a window, `jobs` or `results` once usable for a
goroutine stays so until it uses it, or another of the same kind makes progress).
That Parts keep coming until the input is closed, and that what is sent is taken,
is not assumed of the stage: it is the premise of `Ends`. `CancelEnds` goes
without it.

Fairness (`job_queue`). A handler that created a row goes on to its message; a
worker that may receive does, and ends what it runs; each sweeper sweeps (its ticker
runs in every worker process); time passes. None of it covers faults, which are
bounded: a broker that loses every message for ever ends no job.

Fairness (`FlowPipeline`). The goroutines run, the reader's among them, and a cancelled
context reaches its children. Nothing has to fail, the caller need not cancel, and no
tool has to drop a Part: `Returns` holds without any of that. Nor does it need the
reader to have ended.

Fairness (`automation_run`). The engine, the goroutines of actions, the tracker and
whoever is closing a step go on; a cancellation that got past its first look does
too. Jobs end, because the workers run them (`Settles` of `job_queue`). Nobody has
to cancel, and neither the window's timer nor an action that gives up for a reason
of its own has to happen.

## 5. Findings

Each is a run that TLC finds violated; PROJECT.json has the lines.

1. **`LogsAgree`.** `fetch` counts an operation as held when its *address* is, and
   records the segment as applied, so an older id of a held address is never
   merged. Two machines that recorded one decision keep their own ids for it,
   where the docs say the older id stands in both. What they say agrees.
2. **`StoresAsRebuilt` with two processes.** The lock over the stores is per
   process (`docs/internals/edit-model.md` says so), and a catch-up applies what
   it selected and sets the cursor without looking whether either is still right.
   A process that selected an older write applies it over the newer one another
   process has applied; the cursor ends at the head, so only a rebuild repairs it.
3. **`StoppedOnlyByCancel`.** `settle` marks the run as ended as soon as every step
   *so far* has reported, and nothing takes the mark back: not a step that reopens
   the run, not the background work of a step that was closed at once. Five seconds
   after the event the window closes, finds the mark and cancels the run's context,
   with a review, an overlay, a flow or the creation of jobs still under it, where
   `server/automation.go:213` says that an action stops only for a cancellation.
4. **`ReturnsAfterToolError`.** Where reader and writer both stream (srt, json, xml and
   others), a tool that fails on a document longer than the links before it hangs the
   run. The writer waits for the next skeleton entry, or for the skeleton's end, in
   `SkeletonStore.Next`, which looks at no context; the feeder, which would close the
   skeleton, waits for a link that nobody reads; and the feeder's context is cancelled
   after the writer has returned (`filerunner.go:1328`, `1338`). `filerunner.go:1224`
   says that the context is there so that a tool error can unblock the feeder. Only the
   caller's context ends it; `Returns` names the state (`Starved`) and says that there
   is no other.

Other disagreements met while modelling, without a run of their own; where a property
allows one, it does so by name:

- A pull that counted a segment as held before the project's removal records it as
  applied after it (`sync.go:489` and `496`), and it is never read again, where
  `workspace.go:272` says that a pull after a removal reads each remote afresh. With a
  removal `AppliedIsHeld` fails; it is checked and proved without one.
- A streaming reader's goroutine runs under the caller's context. A feeder that the run
  calls off leaves without receiving what is left and joins nobody
  (`filerunner.go:667`), so after a tool's error the reader may wait in a send for good,
  where `format/stream.go:44` says that a caller who walks away cannot strand it: four Parts
  are enough, one that the tool failed on, one in the feeder's hand, one in the reader's
  link and one in the reader's. `JoinedAtReturn` allows it, of the reader only and only
  after an error.
- The stores of a removed project go first and the removal is recorded last
  (`workspace.go:269`, `314`). A catch-up in between finds a store at position 0 and no
  removal, and replays what is to be removed; the removal then lands behind it, and
  since the cursor is past 0 nobody starts over, where `projector.go:615` says that a
  project registered again begins with an empty context. `halfRemoved` names it.
- The registration of a step's jobs looks at its context when it is issued. One that is
  on its way when a cancellation stops the run may take effect after the cancellation
  has listed the steps and their jobs: the step is closed as skipped, with jobs on its
  row that stay in the queue and run, where `automation_run_manager.go:81` says that
  cancelling reaches the queue. `crossed` names it.
- Two processes of one machine share a writer id and may write different bytes under
  one segment name; the second push is refused (`remote.go:57` says that writes
  never collide). Nothing is lost, the next push repairs it.
- Two pushes of one machine write an operation in two segments when a pull between
  them replaces an earlier operation by an older one of the same address: the second
  push then cuts its segments elsewhere. `sync.go:846` promises only that an
  *interrupted* push is not written twice, and a merge drops the copy. `WrittenOnce`
  excepts it (`Overtaken`).
- A job that merely waits in a long queue is swept each time the threshold passes,
  each sweep spends an attempt, and it ends as "stalled before completion" without
  ever having been claimed. `store.go:428` calls the sweep of a waiting job harmless.
- An ingest, a push and a model sweep complete without the lease
  (`worker_ingest.go:84`, `worker_sync.go:401`, `worker_model_sweep.go:57`) and may
  undo a cancellation, or a failure that was announced; `worker.go:540` says that
  every terminal write is under the lease. This is why two properties of `JobQueue`
  speak of translations only.
- `sweeper.go:103` and `worker.go:361` say that nothing looks at queued rows; since
  the sweep takes `status IN ('processing', 'queued')` (`store.go:433`) it does, and
  `Settles` needs it to. A sweep that fails a job announces it to nobody.
- `RevertSweepRequeue` may meet a row that another worker claimed and gave back in the
  meantime; its budget is refunded once more, but never below what was paid
  (`RunsArePaid`).
- The feeder ends without an error when its context is done, a tool that sees its
  input end returns none, and the session is committed over a truncated stream. What
  keeps the truncated document from its file is that the lock asks the context
  (`filelock.go:65`): with `CommitUncalled` in its place `CommittedIsWhole` fails.
  `RunStream` (`filerunner.go:1438`) takes no lock and has no such look.
- A settle that read a run before it was cancelled writes over the cancellation
  (`UpdateRunStatus` has no WHERE on the status), and `CreateStep` may then reopen it
  as running; `store/automation_run.go:38` says that a finished run does not move
  again. In the same way two settles cross and "completed" stands over "partial".
  `overwritten` names it.
- A report and a cancellation that both look before either writes close one step
  twice and count it twice, where the comment at `automation_run_manager.go:303`
  means to exclude it; `CountIsReports` is exact only where nobody cancels.
- A cancellation writes under its request's context; when the client goes away
  half-way, a step may be closed and not counted, and the run stays open.
- Jobs created but not yet registered when a run is cancelled run on; the action's
  context is dead, so they are never registered either (`CancelReachesJobs` excepts
  them as well). In a run that nobody cancels, the step of an action
  whose registration fails, or that finds nothing to do, stays open (`RunSettles` excepts
  it as `Forgotten`).
- The tracker counts a job it cannot read neither as done nor as open, so a step whose
  jobs are unreadable is closed as completed (`step_completion_tracker.go:189`); and a
  run it settles is never marked as ended with the manager, which keeps the run's
  context until it stops.
- `TrackStep` passes no workspace (`server/automation.go:434`), so the runner time of a
  tracked step, which `completeStep` means to bill, is not.

In one process, three ways to leave the stores off the log are named by
`DriftIsExplained`. The third, a removal whose halves come apart (`halfRemoved`), is the
one above, and has a second form: a removal that stops before it is recorded leaves
empty stores beside operations that are still in force, and a catch-up fills them in the
order of arrival. Of the other two the comments of the code promise nothing. A local
write recorded between the moment a pull reads its newest id and the transaction that
merges is not counted when the pull decides about a rebuild (`overtaken`), and a rebuild
that is killed after it emptied the stores is not taken up again unless the log holds a
reset that asks for it (`cutShort`).

## 6. What is proved

### The log

`tlapm` checks, for every set of ids, addresses and writers:

| Theorem (`LocalLog_proofs`) | Property |
|---|---|
| `TypeCorrect` | the type invariant |
| `OneRowEachHolds` | one row per id, address and position |
| `MergeIsUnion` | the log is the union of what arrived |
| `WatcherSeesAll` | a watcher by position misses nothing |
| `EditsAreNotLost` | a conditional record appends to the rows its writer read |
| `LoopIsRecord` | the loop that records a batch one row at a time ends where `Record` says |

They rest on the assumptions the modules declare: ids are positive numbers,
`NoAddress` is not an address, and an address fixes a kind.

The argument. `OpLogLemmas` proves what `Record` yields: positions of a batch lie
above the last one and are distinct (`Positions`, by cardinality of initial
segments), a well-formed log stays so (`RecordWellFormed`), and the live rows
after it are the union of those before and the batch (`RecordIsUnion`), where a
removal in the log never lies after a row it does not forget. That an oldest
operation of an address exists in any batch comes from well-foundedness of `<`
on the naturals. `LocalLog_proofs` shows `IInv` inductive: the type invariant,
`WellFormed` (positions at most `seq`, one row each), what arrived and what the
log holds was minted, each id once (`MintedOK`), a writer's base is at most the
log's position, and while the head it read still stands the edition's rows are
those it read (`BasesOK`), the
cursor is at most `seq` (`CursorOK`), and the two invariants themselves.
`LogIsUnion` alone is not inductive: it does not say that an arriving id that is
held names the same operation. `NoLostEdit` needs `BasesOK`: that the head still
stands says only that one row does; that no *other* row of the edition changed
follows because every change appends a position above all earlier ones
(`EditsAfterRecord`). `RecordIsSequential` needs no invariant but the well-formed
log: a batch is all of it but its newest operation, and then that one
(`RecordOneMore`), so by induction on the size of the batch the loop and `Record`
end in the same rows and positions (`RecordIsTheLoop`).

### Sync

For every set of machines, processes, ids and addresses, every size of a segment and
every number of failures (the assumptions of `OpLog` and `ContextSync`):

| Theorem (`ContextSync_proofs`) | Property | Assumes besides |
|---|---|---|
| `TypeCorrect` | the type invariant | |
| `KnownAlwaysRemote` | `KnownIsRemote` | |
| `BlobsAlwaysBesideOps` | `BlobsBesideOps` | |
| `Refines` | `SharesOneLog`: it implements `SharedLog` | |
| `AppliedAlwaysHeld` | `AppliedIsHeld` | no removal |
| `SyncedAlwaysAgree` | `SyncedAgree` | no removal |
| `WrittenOnceAlways` | `WrittenOnce` | no removal |
| `WrittenOnceAlone` | no operation in two segments, without the exception | no removal, one process per machine |

The argument. None of the first three is inductive, because a job acts on what it
read earlier. `IInv` therefore says what each job's memory is worth where the job
stands (`JobOK`): the segments it is going to fetch, note or merge are on the remote,
the blobs of what it is going to merge are here, the blobs of what it puts are on the
remote or still to be put, and the segments of its push that are no longer to put are
there, with the operations the push collected (`PutSoFar`). Other jobs do not spoil
that, because remote, blobs and what was minted only grow (`Grows`, `JobStays`); so a
step has to be shown to preserve the memory of its own job only (`OneJobMoves`). A
segment is created once with what its name says, since `Put` refuses a name that is
taken. The refinement maps a log to its statements: a merge may drop an id for
another of the same address, and what the log says is still the union
(`StatementsOfUnion`); a removal is the one step that takes away.

`AppliedIsHeld` needs that a machine forgets nothing; section 5 has the counterexample
otherwise. `HeldInv` adds to `IInv` that what a job is *going to* mark
is held (`JobHeld`). From it and `KnownIsRemote` two machines that are `Synced` say
what the remote says, so they agree (`SyncedSaysRemote`).

`WrittenOnceAlways` is the promise about interrupted pushes and pushes beside one
another. It speaks of the *undisturbed* operations (not `Overtaken`), because only
what keeps its place in its writer's log is cut the same way by every push. `OwnInv`
says that

- an operation is one machine's to write (`OneOwner`), meanwhile no other machine's
  segment holds it (`OwnersWrite`), and undisturbed it stays in that log (`OwnInLog`);
- a machine writes in the order of the ids (`WrittenInOrder`): what is on the remote
  is older than what still waits;
- a push under way leaves out nothing older that waits, and with an undisturbed
  operation of a segment that is there it takes all that is older in it (`JobOwn`);
- a writer that knows an operation of a segment knows the undisturbed ones after it
  too (`KnownWhole`), and a segment it has read is known (`ReadIsKnown`).

Two pushes of one machine that overlap therefore start at the same operation, and a
segment that is new to the remote holds nothing undisturbed that is there already
(`SegmentIsNew`); otherwise the names are equal and `Put` refuses the second. A
removal breaks this, since it forgets what is known; `WrittenOnce` beside a removal is
only checked.

Where a machine runs one process, `WrittenOnceAlone` needs no exception: a push
fetches before it collects, so it knows all its machine has written before, and no
operation whatever is in two segments (`InOneSegment`).

### The parallel block tool

For every finite pool of two workers or more, every number of permits per worker
and every set of streams of well-formed Parts (`ConcurrencyAssumption`,
`WindowAssumption`, `StreamsAssumption`):

| Theorem | Property |
|---|---|
| `TypeCorrect` (`ParallelBlocks_proofs`) | `TypeOK`: no window and no counter leaves its range |
| `PermitsMatch` | `PermitsMatchParts`: permits are the Parts held |
| `RingNeverOverwrites` | `ResultsHaveRoom`: no wait for room, no slot used twice |
| `Refines` | `IsOrderedStage`: `Process` implements `OrderedStage` |

The argument. The positions from `nextSeq` to the reader's are *held*. `IInv` of
`ParallelBlocks_proofs` says that a held position is in at most one place (with
a worker, in `results`, in the ring), that the reader has read up to its own
position, that `active` counts the busy workers and the block about to be
submitted (`ActiveOK`), and that the permits match the held Parts. It follows by
counting that what is held, and the Part a permit was taken for, fits the ring
(`HeldFits`): the windows together are as large as the ring. Two positions of
one slot are a whole ring apart (`SlotsRepeat`), so two held ones never share a
slot (`OwnSlot`). Neither `PermitsMatchParts` nor `ResultsHaveRoom` is inductive
alone: a release looks at the slot that is next, so it gives a permit of the
right window back only because the ring holds that very position.

`StageInv`, in the second half of the module, adds what the Parts' fates need: a
verdict is given once and never ahead of the reader (`VerdictsOK`); behind the
reader every structural Part is handled and every block is handled or with a
worker, unless the context is cancelled (`BehindReader`), which is why an open
barrier means that nothing before it is unhandled; results and ring say what the
handlers returned (`FatesOK`); until a cancellation nothing held is lost
(`NothingLost`), so that closed and empty results at an empty slot mean that all
of the stream is out (`AllEmitted`); and the outcome has its cause (`EndOK`,
`OutcomeOK`). Each action then maps to one action of the stage or to a stutter
(`StepMaps`).

### Jobs

For every set of jobs, workers and sweepers, and every number of attempts,
deferrals and faults (`BudgetAssumption`, `NoJobAssumption`, `MaxFaultsAssumption`):

| Theorem (`JobQueue_proofs`) | Property |
|---|---|
| `TypeCorrect` | the type invariant |
| `SettledForever` | `SettledStays`: a translation stays as it ended |
| `EveryRunIsPaid` | `RunsArePaid` |
| `RunsAreBounded` | `BoundedRuns`: a job is run finitely often; a consequence, and not checked by a run |
| `OneOwnerAlways` | `OneOwner` |
| `AnnouncedForever` | `AnnouncedStaysFailed` |

The argument. What any step does to one row is one of a few writes (`RowSteps`):
nothing, a write under the lease, a sweep, a revert, a cancellation, an unleased
write, or a claim, which alone counts as a run. `Paid` is inductive: a row in the
queue has paid for every run, any other for all but one; a live row has budget
left, which is what bounds the runs. `OneOwner` is not inductive: it says nothing
of a worker that lost the lease and of the epoch the next claim gives out.
`Leases` says that a running worker's epoch is at most its row's and that no
two running workers of one job have the same; a claim gives out one above all.

### The pipeline

For every number of Parts, every number of tools from one, every capacity from one,
every way of feeding a document and every bound on what may fail (`PartsAssumption`,
`ToolsAssumption`, `CapacityAssumption`, `FeedsAssumption`, `BoundsAssumption`):

| Theorem (`FlowPipeline_proofs`) | Property |
|---|---|
| `TypeCorrect` | the type invariant |
| `WholeAtCommit` | `CommittedIsWhole` |
| `NothingLeftRunning` | `JoinedAtReturn` |
| `RivalAlwaysKept` | `RivalIsKept` |

The argument. What a stage has received it has sent, holds or has dropped (`Passed`),
and a relay or a tool that is done without an error saw the end of its input (`Ended`); so
while nothing failed and the caller's context stands, a closed link has carried the
document but for what the tools dropped (`Whole`). Two stages lose Parts without an
error, the seed relay, which drains, and the feeder, which walks away from the reader;
both need the feeder's context, which the run calls off only when its tools are done
(`CalledOff`), and then feeder and relay are done too unless a tool failed
(`FeedIsOver`). So a feeder that ends in a clean run has come to the end of the reader's
link and heard its error, if there was one (`Heard`), and the skeleton it has closed by
the time the writer is past it has all its entries (`Rendered`). What the run has seen
where it stands (`Waited`) gives the rest: the end of the last link means that the tap is
done, the errgroup that the tools are, the join that feeder and relay are; of the
reader only `Heard` speaks, which is why it is known to be done where the run succeeds and
not after an error. `Invariant` proves their conjunction, `IInv`: `CommittedIsWhole` alone
is not inductive.

### Automation runs

For every number of actions from one, every finite set of cancellations and every
number of restarts (`ActionsAssumption`, `ActorsAssumption`):

| Theorem (`AutomationRun_proofs`) | Property |
|---|---|
| `TypeCorrect` | the type invariant |
| `CountsReports` | `CountIsReports` |
| `SettledWhenReported` | `ReportedIsSettled` |
| `CancelReaches` | `CancelReachesJobs` |

The argument. `Basics` is inductive: the type invariant, what an actor's place says
of the rest of its state (`Shapes`), that the run has counted the steps that have a
row but for the one being inserted (`StepsMatch`), that a cancellation past its stop
has left no live context behind (`Stopping`), what the tracker and the queue may
hold (`JobsMatch`), and that no two actors but cancellations are about to close the
same step (`OneHolder`), which is where the order of closing comes from: the engine
lets go of a step before its flow or its tracker takes it up.

`CountsReports` follows by counting: a `CloseStep` takes a step that has not reported
and adds one to those counting, by `OneHolder` unless a cancellation is under way.
For `SettledWhenReported`, `SettledInv` says of a run that nobody cancels that when all
of its steps have reported, it is ended or somebody is still between a step's row and
the run's. It stands because the look at the count comes after the increment: the last
of those counting finds `done = steps` (`WholeRun`), so it does not turn back, and a
step the engine adds meanwhile is open. Of a cancelled run it says that a
cancellation which is through has left it cancelled.

`CancelReaches` is about what was on a row in time. `JobsInv` speaks of the steps with
registered jobs in the queue but for those dispatched without a context (`free`) and
those whose registration was on its way when a cancellation listed the steps
(`crossed`): such a step is open or was given up by the tracker, and a cancellation that
has made its list has it there, with its jobs, until it has dealt with it. That stands
because a registration that is *not* on its way at the list cannot be issued any more,
the stop having come before: behind the list, whatever is being registered is in one of the
two sets.

### The projector

For every finite set of ids, every set of cells and threads and every bound
(`IdAssumption`):

| Theorem (`Projector_proofs`) | Property | Under |
|---|---|---|
| `TypeCorrect` | the type invariant | |
| `PositionGrowsAlways` | `PositionGrows`: back only with stores taken away, until a removal's halves come apart | one process |
| `DriftExplained` | `DriftIsExplained` | one process |

`AllInOneProcess` is what the last two assume of `ProcessOf`; without it they are
false (`projector_processes`).

The argument. `TypeInv` adds to the types that the log's ids are distinct, and
those of a merge under way. `ControlInv` is the mutex (`OneInside`) and what it
buys (`PhaseOK`): the cursor is still the one a catch-up read, what it has left to
apply lies beyond the position the stores stand at, and the position it or a
rebuild is going to set is no lower. `PositionGrowsAlways` follows. The first half of a
removal takes the position back with the stores; its second half, on stores that nobody
has used in between, moves it to the end of the log, where nothing is (`ForgetsUnused`).
On stores that somebody has used, the new removal leaves the cursor before it, or a thread
with a position from before it: `ControlInv` is lost, so what is inductive is `TypeInv` and
`ControlInv` *unless* `halfRemoved`, which once set stays (`HalfStays`).

`DriftExplained` compares the stores with a rebuild, and `DriftIsExplained` speaks
only of quiet moments. `DataInv` says what holds on the way there. `Row(l, n, c)`
is the row a rebuild would leave of the log up to position n, and
`Leaves(ops, c, v, w)` that to apply these operations to a cell at v leaves it
at w, said without a fold: the last of them that writes the cell is w, and v is w
where none does. Then

- `RebuildOK`: what a rebuild has left to apply leaves the rows of the log it selected;
- `InversionsCovered`: an operation that comes in the log after one of a newer id, and
  that a catch-up would apply too late from where the stores stand or are going
  to, is one a thread has undertaken to rebuild with, or the catch-up meets a reset;
- `StoresClean`: a cell that nothing beyond the cursor writes is as a rebuild at
  the cursor would have left it, or a rebuild is owed, or a catch-up will rebuild;
- `CatchUpOK`: the same of what a catch-up has left to apply.

The last three hold until something is `overtaken`, `cutShort` or `halfRemoved`, and but
for the time between the halves of a removal while operations out of order are in force
(`RemovalDue`). That time ends in one of three ways: the removal is recorded over stores
nobody has used, which leaves them empty at the end of the log (`EmptyIsClean`); it
stops where every catch-up to come meets a reset and rebuilds (`AllAskAgain`); or
`halfRemoved` is set. Where nothing is out of order a removal that stops half-way does no
harm, since a catch-up in arrival order leaves what a rebuild does. A catch-up that
starts from clean stores and meets neither a reset nor an inversion leaves the row
of the whole log, because ids only go up beyond it and no reset reaches back
(`RowFollows`, `CatchUpBegins`). What is appended changes no row up to an earlier
position and no answer a catch-up would get there (`GrewTo`); so steps outside the
stores only have to undertake what they put out of order (`OuterKept`). At rest
nobody owes anything and nothing lies beyond the cursor, so every row is that of
the whole log (`QuietIsRebuilt`).

The resets in force are a choice that must be shown to exist: they are settled
from the newest down (`InForceAmong`). Order by id is a rank (`IdOrder`). Both, and the
loop of `RecordIsSequential`, are inductions made as a least counterexample among
the numbers (`LeastExists`), since the provers cannot take the library's induction
theorems.

### What is only model-checked

`WrittenOnce` beside a removal; `Delivery`, `Ends`, `CancelEnds`, `Settles`, `Returns`
and `RunSettles` (liveness is beyond tlapm), and with `Returns` that a starved writer is
the only thing that keeps a run from returning.

## 7. What is not modelled

Listed with reasons in PROJECT.json: what the plan above still has, and the parts
without shared state of their own (formats, commands, web interface, pure folds).
In the modelled parts: encodings of segments and payloads, blob sizes and
compression, contact times, opening files and the read-only fallback; what a job
computes, its metering and quotas; the pool that runs several documents at once. By
far most of the repository is readers and writers of document formats, generated
code, a web interface and tables behind handlers: sequential conversions and single
transactions, which tests reach and a model would only repeat.
