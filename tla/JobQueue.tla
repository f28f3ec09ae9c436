------------------------------- MODULE JobQueue -------------------------------
(***************************************************************************)
(* The background jobs of the platform (bowrain/jobs): a row per job in    *)
(* the database, a broker that delivers job ids at least once, the workers'*)
(* loop, and the sweepers that look for rows nobody has written for a      *)
(* while.  Row and message are written one after the other and may part:   *)
(* the message may be lost, delivered again while the job runs, or never   *)
(* have been sent; a worker may be slow, and be taken for dead; a          *)
(* statement or an enqueue may fail, and a process may stop anywhere.      *)
(*                                                                         *)
(* The broker is external: a message in it is visible, or it is hidden by  *)
(* the delivery a worker holds until that delivery is acked, nacked or     *)
(* its visibility timeout lapses.                                          *)
(***************************************************************************)
EXTENDS JobRow, FiniteSets

CONSTANTS
    Job, NoJob, Worker, Sweeper,
    MaxFaults       \* how much may go wrong in a behaviour

ASSUME NoJobAssumption == NoJob \notin Job

ASSUME MaxFaultsAssumption == MaxFaults \in Nat

VARIABLES
    row,        \* per job: its row
    creating,   \* jobs whose handler has not heard from the broker yet
    visible,    \* per job: its messages a worker may receive
    hand,       \* per worker: where its loop is, with which job and lease,
                \* and whether the broker still hides the message for it
    sweep,      \* per sweeper: where sweepOnce is, and the ids it re-enqueues
    announced,  \* jobs published as failed
    claims,     \* per job: how many times a worker has taken it on
    faults      \* how much has gone wrong

vars == <<row, creating, visible, hand, sweep, announced, claims, faults>>

Idle == [at |-> "idle", job |-> NoJob, epoch |-> 0, held |-> FALSE]

SweepIdle == [at |-> "idle", ids |-> {}, id |-> NoJob]

Init ==
    /\ \E kind \in [Job -> Kind] :
          row = [j \in Job |-> [CreatedRow(kind[j]) EXCEPT !.status = "absent"]]
    /\ creating = {}
    /\ visible = [j \in Job |-> 0]
    /\ hand = [w \in Worker |-> Idle]
    /\ sweep = [s \in Sweeper |-> SweepIdle]
    /\ announced = {}
    /\ claims = [j \in Job |-> 0]
    /\ faults = 0

Fault ==
    /\ faults < MaxFaults
    /\ faults' = faults + 1

Enqueue(j) == visible' = [visible EXCEPT ![j] = @ + 1]

\* An enqueue that reports an error may have sent the message all the same.
EnqueueFails(j) == Enqueue(j) \/ UNCHANGED visible

----------------------------------------------------------------------------
(* The handlers that create and cancel jobs, and the clock *)

Create(j) ==
    /\ row[j].status = "absent"
    /\ row' = [row EXCEPT ![j] = CreatedRow(@.kind)]
    /\ creating' = creating \cup {j}
    /\ UNCHANGED <<visible, hand, sweep, announced, claims, faults>>

Publish(j) ==
    /\ j \in creating
    /\ Enqueue(j)
    /\ creating' = creating \ {j}
    /\ UNCHANGED <<row, hand, sweep, announced, claims, faults>>

\* The message is sent, and the handler does not hear of it.
PublishUnheard(j) ==
    /\ j \in creating
    /\ Fault
    /\ Enqueue(j)
    /\ UNCHANGED <<row, creating, hand, sweep, announced, claims>>

\* The handler takes the row back, unless that fails too or the process dies.
PublishFails(j) ==
    /\ j \in creating
    /\ Fault
    /\ creating' = creating \ {j}
    /\ \/ row' = [row EXCEPT ![j] = Deleted(@)]
       \/ UNCHANGED row
    /\ UNCHANGED <<visible, hand, sweep, announced, claims>>

Cancel(j) ==
    /\ row[j].status \in Live
    /\ row' = [row EXCEPT ![j] = Cancelled(@)]
    /\ UNCHANGED <<creating, visible, hand, sweep, announced, claims, faults>>

\* The threshold passes without a write: in a queue or, the heartbeat failing
\* or missing, under a worker.  A handler is done with its job long before.
Age(j) ==
    /\ row[j].status \in Live
    /\ ~row[j].stale
    /\ j \notin creating
    /\ row' = [row EXCEPT ![j].stale = TRUE]
    /\ UNCHANGED <<creating, visible, hand, sweep, announced, claims, faults>>

----------------------------------------------------------------------------
(* The broker *)

Receive(w, j) ==
    /\ hand[w].at = "idle"
    /\ visible[j] > 0
    /\ visible' = [visible EXCEPT ![j] = @ - 1]
    /\ hand' = [hand EXCEPT ![w] = [at |-> "received", job |-> j, epoch |-> 0, held |-> TRUE]]
    /\ UNCHANGED <<row, creating, sweep, announced, claims, faults>>

\* The delivery takes longer than the broker waits, or its ack gets lost.
VisibilityTimeout(w) ==
    /\ hand[w].held
    /\ Fault
    /\ Enqueue(hand[w].job)
    /\ hand' = [hand EXCEPT ![w].held = FALSE]
    /\ UNCHANGED <<row, creating, sweep, announced, claims>>

\* To the dead letters, or with the memory of a broker in the process.
MessageLost(j) ==
    /\ visible[j] > 0
    /\ Fault
    /\ visible' = [visible EXCEPT ![j] = @ - 1]
    /\ UNCHANGED <<row, creating, hand, sweep, announced, claims>>

\* A nacked message is visible again, as is one whose worker has died, if the
\* broker was still hiding it.
Unhide(w) ==
    visible' = IF hand[w].held THEN [visible EXCEPT ![hand[w].job] = @ + 1] ELSE visible

----------------------------------------------------------------------------
(* The workers *)

At(w, at) == hand' = [hand EXCEPT ![w].at = at]

WriteRow(j, r) == row' = [row EXCEPT ![j] = r]

Claim(w) ==
    LET j == hand[w].job IN
    /\ hand[w].at = "received"
    /\ \/ /\ Claimable(row[j])
          /\ WriteRow(j, Claimed(row[j]))
          /\ claims' = [claims EXCEPT ![j] = @ + 1]
          /\ hand' = [hand EXCEPT ![w].at = "running", ![w].epoch = row[j].epoch + 1]
       \/ /\ ~Claimable(row[j])
          /\ At(w, "acking")
          /\ UNCHANGED <<row, claims>>
    /\ UNCHANGED <<creating, visible, sweep, announced, faults>>

Runs(w, kinds) ==
    /\ hand[w].at = "running"
    /\ row[hand[w].job].kind \in kinds

Owner(w) == Owns(row[hand[w].job], hand[w].epoch)

\* The heartbeat, and the gate at every chunk.
Renew(w) ==
    /\ Runs(w, {"translation", "ingest"})
    /\ Owner(w)
    /\ WriteRow(hand[w].job, Renewed(row[hand[w].job]))
    /\ UNCHANGED <<creating, visible, hand, sweep, announced, claims, faults>>

\* A push has neither; what its gate refuses is noted on the row, whoever owns it.
Report(w) ==
    LET j == hand[w].job IN
    /\ Runs(w, {"push"})
    /\ WriteRow(j, StatusWritten(row[j], row[j].status))
    /\ UNCHANGED <<creating, visible, hand, sweep, announced, claims, faults>>

\* The gate finds the lease gone.
Abandon(w) ==
    /\ Runs(w, {"translation", "ingest"})
    /\ ~Owner(w)
    /\ At(w, "acking")
    /\ UNCHANGED <<row, creating, visible, sweep, announced, claims, faults>>

\* A write under the lease: it changes the row only if the worker owns it.
Leased(w, r) == WriteRow(hand[w].job, IF Owner(w) THEN r ELSE row[hand[w].job])

\* Mistake: every kind of job completes as a push does.
CompleteUnleased(w) ==
    /\ hand[w].at = "running"
    /\ WriteRow(hand[w].job, StatusWritten(row[hand[w].job], "completed"))
    /\ At(w, "acking")
    /\ UNCHANGED <<creating, visible, sweep, announced, claims, faults>>

\* Only translations and project checks complete under the lease.
Complete(w) ==
    LET j == hand[w].job IN
    /\ hand[w].at = "running"
    /\ IF row[j].kind = "translation"
         THEN Leased(w, Completed(row[j]))
         ELSE WriteRow(j, StatusWritten(row[j], "completed"))
    /\ At(w, "acking")
    /\ UNCHANGED <<creating, visible, sweep, announced, claims, faults>>

\* A transient failure.
Retry(w) ==
    /\ Runs(w, {"translation", "ingest"})
    /\ Leased(w, Retried(row[hand[w].job]))
    /\ At(w, IF Owner(w) /\ HasBudget(row[hand[w].job]) THEN "resending" ELSE "announcing")
    /\ UNCHANGED <<creating, visible, sweep, announced, claims, faults>>

\* A dependency's breaker is open, or the worker's drain grace is over.
Defer(w) ==
    /\ Runs(w, {"translation"})
    /\ Leased(w, Deferred(row[hand[w].job]))
    /\ At(w, IF Owner(w) /\ MayWait(row[hand[w].job]) THEN "resending" ELSE "announcing")
    /\ UNCHANGED <<creating, visible, sweep, announced, claims, faults>>

\* A permanent failure.
Fail(w) ==
    /\ Runs(w, {"translation"})
    /\ Leased(w, Failed(row[hand[w].job]))
    /\ At(w, IF Owner(w) THEN "announcing" ELSE "acking")
    /\ UNCHANGED <<creating, visible, sweep, announced, claims, faults>>

\* The quota is used up, or the worker lacks what the job needs: the failure
\* is reported whoever owns the row.
Refuse(w) ==
    /\ Runs(w, {"translation", "ingest"})
    /\ Leased(w, Failed(row[hand[w].job]))
    /\ At(w, "announcing")
    /\ UNCHANGED <<creating, visible, sweep, announced, claims, faults>>

\* The ingest's connector is gone: published from here, whoever owns the row.
DropIngest(w) ==
    /\ Runs(w, {"ingest"})
    /\ Leased(w, Failed(row[hand[w].job]))
    /\ announced' = announced \cup {hand[w].job}
    /\ At(w, "acking")
    /\ UNCHANGED <<creating, visible, sweep, claims, faults>>

\* A push is marked failed without a lease.
FailPush(w) ==
    /\ Runs(w, {"push"})
    /\ WriteRow(hand[w].job, StatusWritten(row[hand[w].job], "failed"))
    /\ At(w, "announcing")
    /\ UNCHANGED <<creating, visible, sweep, announced, claims, faults>>

\* The claim, the load or the final write of the row fails.
Stumble(w) ==
    /\ hand[w].at \in {"received", "running"}
    /\ Fault
    /\ At(w, "announcing")
    /\ UNCHANGED <<row, creating, visible, sweep, announced, claims>>

EndRun(w) ==
    \/ Complete(w) \/ Retry(w) \/ Defer(w) \/ Fail(w) \/ Refuse(w)
    \/ DropIngest(w) \/ FailPush(w) \/ Abandon(w)

\* A fresh message for the retry: the one in hand may have been delivered anew.
Resend(w) ==
    /\ hand[w].at = "resending"
    /\ \/ /\ Enqueue(hand[w].job)
          /\ At(w, "acking")
          /\ UNCHANGED faults
       \/ /\ Fault
          /\ EnqueueFails(hand[w].job)
          /\ At(w, "nacking")
    /\ UNCHANGED <<row, creating, sweep, announced, claims>>

\* Mistake: the error is announced, whatever the row says.
AnnounceError(w) ==
    /\ hand[w].at = "announcing"
    /\ announced' = announced \cup {hand[w].job}
    /\ At(w, "acking")
    /\ UNCHANGED <<row, creating, visible, sweep, claims, faults>>

\* The row is read again, and only a failed one is announced.
Announce(w) ==
    /\ hand[w].at = "announcing"
    /\ announced' = IF row[hand[w].job].status = "failed"
                      THEN announced \cup {hand[w].job} ELSE announced
    /\ At(w, "acking")
    /\ UNCHANGED <<row, creating, visible, sweep, claims, faults>>

\* Mistake: the loop keeps the lease of the job it is done with.
LetGoOfMessage(w) == hand' = [hand EXCEPT ![w].at = "idle"]

LetGo(w) == hand' = [hand EXCEPT ![w] = Idle]

Ack(w) ==
    /\ hand[w].at = "acking"
    /\ LetGo(w)
    /\ UNCHANGED <<row, creating, visible, sweep, announced, claims, faults>>

Nack(w) ==
    /\ hand[w].at = "nacking"
    /\ Unhide(w)
    /\ LetGo(w)
    /\ UNCHANGED <<row, creating, sweep, announced, claims, faults>>

Crash(w) ==
    /\ hand[w].at # "idle"
    /\ Fault
    /\ Unhide(w)
    /\ LetGo(w)
    /\ UNCHANGED <<row, creating, sweep, announced, claims>>

----------------------------------------------------------------------------
(* The sweepers *)

Swept == {j \in Job : Sweepable(row[j]) /\ HasBudget(row[j])}

SweptAway == {j \in Job : Sweepable(row[j]) /\ ~HasBudget(row[j])}

SweepRequeue(s) ==
    /\ sweep[s].at = "idle"
    /\ \E j \in Job : Sweepable(row[j])
    /\ row' = [j \in Job |-> IF j \in Swept THEN SweptBack(row[j]) ELSE row[j]]
    /\ sweep' = [sweep EXCEPT ![s] = [at |-> "failing", ids |-> Swept, id |-> NoJob]]
    /\ UNCHANGED <<creating, visible, hand, announced, claims, faults>>

\* The ids still to be enqueued; with none left the sweep is over.
Enqueueing(ids) ==
    IF ids = {} THEN SweepIdle ELSE [at |-> "enqueueing", ids |-> ids, id |-> NoJob]

\* The second statement: if it fails, the sweep gives up on the ids as well.
SweepFail(s) ==
    /\ sweep[s].at = "failing"
    /\ \/ /\ row' = [j \in Job |-> IF j \in SweptAway THEN SweptOut(row[j]) ELSE row[j]]
          /\ sweep' = [sweep EXCEPT ![s] = Enqueueing(@.ids)]
          /\ UNCHANGED faults
       \/ /\ Fault
          /\ sweep' = [sweep EXCEPT ![s] = SweepIdle]
          /\ UNCHANGED row
    /\ UNCHANGED <<creating, visible, hand, announced, claims>>

SweepEnqueue(s) ==
    /\ sweep[s].at = "enqueueing"
    /\ \E j \in sweep[s].ids :
        \/ /\ Enqueue(j)
           /\ sweep' = [sweep EXCEPT ![s] = Enqueueing(@.ids \ {j})]
           /\ UNCHANGED faults
        \/ /\ Fault
           /\ EnqueueFails(j)
           /\ sweep' = [sweep EXCEPT ![s].at = "reverting", ![s].id = j]
    /\ UNCHANGED <<row, creating, hand, announced, claims>>

Revert(s) ==
    /\ sweep[s].at = "reverting"
    /\ \/ /\ WriteRow(sweep[s].id,
                  IF Claimable(row[sweep[s].id]) THEN Reverted(row[sweep[s].id])
                                                 ELSE row[sweep[s].id])
          /\ UNCHANGED faults
       \/ /\ Fault
          /\ UNCHANGED row
    /\ sweep' = [sweep EXCEPT ![s] = Enqueueing(@.ids \ {@.id})]
    /\ UNCHANGED <<creating, visible, hand, announced, claims>>

SweeperStops(s) ==
    /\ sweep[s].at # "idle"
    /\ Fault
    /\ sweep' = [sweep EXCEPT ![s] = SweepIdle]
    /\ UNCHANGED <<row, creating, visible, hand, announced, claims>>

----------------------------------------------------------------------------

JobStep(j) ==
    \/ Create(j) \/ Publish(j) \/ PublishUnheard(j) \/ PublishFails(j)
    \/ Cancel(j) \/ Age(j) \/ MessageLost(j)

WorkerStep(w) ==
    \/ \E j \in Job : Receive(w, j)
    \/ VisibilityTimeout(w) \/ Claim(w) \/ Renew(w) \/ Report(w) \/ EndRun(w)
    \/ Stumble(w) \/ Resend(w) \/ Announce(w) \/ Ack(w) \/ Nack(w) \/ Crash(w)

SweeperStep(s) ==
    \/ SweepRequeue(s) \/ SweepFail(s) \/ SweepEnqueue(s) \/ Revert(s) \/ SweeperStops(s)

Next ==
    \/ \E j \in Job : JobStep(j)
    \/ \E w \in Worker : WorkerStep(w)
    \/ \E s \in Sweeper : SweeperStep(s)

Spec == Init /\ [][Next]_vars

\* A handler, a worker and a sweeper go on; a run ends; time passes.
Fairness ==
    /\ \A j \in Job : WF_vars(Publish(j)) /\ WF_vars(Age(j))
    /\ \A w \in Worker :
        /\ WF_vars(\E j \in Job : Receive(w, j))
        /\ WF_vars(Claim(w))
        /\ WF_vars(EndRun(w))
        /\ WF_vars(Resend(w) \/ Announce(w) \/ Ack(w) \/ Nack(w))
    /\ \A s \in Sweeper :
        WF_vars(SweepRequeue(s) \/ SweepFail(s) \/ SweepEnqueue(s) \/ Revert(s))

FairSpec == Spec /\ Fairness

----------------------------------------------------------------------------
(* Properties *)

HandAt == {"idle", "received", "running", "resending", "announcing", "acking", "nacking"}

\* A worker that is not idle has a job, and only such a worker's message is
\* hidden; what a sweeper re-enqueues are jobs.
TypeOK ==
    /\ row \in [Job -> Row]
    /\ creating \subseteq Job
    /\ visible \in [Job -> Nat]
    /\ hand \in [Worker -> [at : HandAt, job : Job \cup {NoJob}, epoch : Nat, held : BOOLEAN]]
    /\ \A w \in Worker : IF hand[w].at = "idle" THEN hand[w] = Idle ELSE hand[w].job \in Job
    /\ sweep \in [Sweeper -> [at : {"idle", "failing", "enqueueing", "reverting"},
                              ids : SUBSET Job, id : Job \cup {NoJob}]]
    /\ \A s \in Sweeper : sweep[s].at = "reverting" => sweep[s].id \in Job
    /\ announced \subseteq Job
    /\ claims \in [Job -> Nat]
    /\ faults \in 0 .. MaxFaults

\* No two workers hold the lease of a job, however often it is delivered,
\* swept from under a slow worker and handed to another one, or reverted by a
\* sweeper that comes late: what a lost worker writes never reaches the run of
\* the worker that took over.
OneOwner ==
    \A w, v \in Worker :
        /\ hand[w].at = "running" /\ hand[v].at = "running"
        /\ hand[w].job = hand[v].job
        /\ Owner(w) /\ Owner(v)
        => w = v

\* Every run of a job but the current one has been paid for with an attempt or
\* a deferral, a run its worker lost included.  A revert gives back what its
\* sweep spent, and nothing more.
RunsArePaid ==
    \A j \in Job : claims[j] <= row[j].attempts + row[j].deferrals
                                + (IF row[j].status = "queued" THEN 0 ELSE 1)

\* A job is run a bounded number of times, whatever goes wrong with it.
BoundedRuns == \A j \in Job : claims[j] <= MaxAttempts + MaxDeferrals - 1

\* What people are told of a translation stays true: a job announced as failed
\* is not running again and does not end well after all.  (Its handler may
\* still take it back.)
AnnouncedStaysFailed ==
    \A j \in announced : row[j].kind = "translation" => row[j].status \in {"failed", "deleted"}

\* A translation that has ended, or was cancelled, stays as it ended: neither
\* the worker it was taken from nor a sweeper changes it any more.
SettledStays ==
    [][\A j \in Job : row[j].kind = "translation" /\ row[j].status \in Terminal
          => row'[j].status \in {row[j].status, "deleted"}]_vars

\* A job that was queued is ended sooner or later: no combination of lost
\* messages, failed writes, crashes and reverts strands it.
Settles == \A j \in Job : row[j].status \in Live ~> row[j].status \notin Live

=============================================================================
