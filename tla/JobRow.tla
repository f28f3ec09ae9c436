-------------------------------- MODULE JobRow --------------------------------
(***************************************************************************)
(* A row of translation_jobs and the statements of bowrain/jobs/store.go   *)
(* that write it.  A statement is a WHERE, which says whether it applies   *)
(* to a row, and a SET, which gives the row it leaves; each is one UPDATE, *)
(* so the two are one step of whoever runs it.                             *)
(*                                                                         *)
(* The lease is the row's claim epoch: whoever holds the current one of a  *)
(* row in processing owns the job.                                         *)
(***************************************************************************)
EXTENDS Integers

CONSTANTS
    MaxAttempts,    \* how many attempts a job has
    MaxDeferrals    \* how many times it may be put off

ASSUME BudgetAssumption ==
    /\ MaxAttempts \in Nat \ {0}
    /\ MaxDeferrals \in Nat \ {0}

\* What the row's item name routes a job to.  A project check keeps its row as
\* a translation does, a model sweep as a forge ingest does.
Kind == {"translation", "ingest", "push"}

Live == {"queued", "processing"}

Terminal == {"completed", "failed"}

\* updated_at matters only against the sweep's cutoff.
Row == [status    : {"absent", "deleted"} \cup Live \cup Terminal,
        kind      : Kind,
        attempts  : Nat,
        deferrals : Nat,
        epoch     : Nat,
        stale     : BOOLEAN]

CreatedRow(kind) ==
    [status |-> "queued", kind |-> kind, attempts |-> 0, deferrals |-> 0,
     epoch |-> 0, stale |-> FALSE]

\* Every statement but the revert refreshes updated_at.
Written(r, status) == [r EXCEPT !.status = status, !.stale = FALSE]

Exists(r) == r.status \in Live \cup Terminal

\* UpdateJobStatus asks nothing of the row but its id.
StatusWritten(r, status) == IF Exists(r) THEN Written(r, status) ELSE r

Deleted(r) == [r EXCEPT !.status = "deleted"]

----------------------------------------------------------------------------
(* Under the lease *)

Claimable(r) == r.status = "queued"

Claimed(r) == [Written(r, "processing") EXCEPT !.epoch = @ + 1]

\* Mistake: whoever has claimed the job once may write its row.
OwnsAnyEpoch(r, epoch) == r.status = "processing"

Owns(r, epoch) == r.status = "processing" /\ r.epoch = epoch

Renewed(r) == Written(r, "processing")

Completed(r) == Written(r, "completed")

Failed(r) == Written(r, "failed")

HasBudget(r) == r.attempts + 1 < MaxAttempts

Retried(r) ==
    [Written(r, IF HasBudget(r) THEN "queued" ELSE "failed") EXCEPT !.attempts = @ + 1]

MayWait(r) == r.deferrals + 1 < MaxDeferrals

Deferred(r) ==
    [Written(r, IF MayWait(r) THEN "queued" ELSE "failed") EXCEPT !.deferrals = @ + 1]

----------------------------------------------------------------------------
(* Past the lease *)

Cancelled(r) == [Written(r, "failed") EXCEPT !.epoch = @ + 1]

\* Mistake: only jobs in processing are swept.
SweepableProcessing(r) == r.status = "processing" /\ r.stale

Sweepable(r) == r.status \in Live /\ r.stale

\* Mistake: the sweep does not count the attempt.
SweptBackForFree(r) == Written(r, "queued")

\* Sweepable rows with budget left go back to the queue, the others fail.
SweptBack(r) == [Written(r, "queued") EXCEPT !.attempts = @ + 1]

SweptOut(r) == [Written(r, "failed") EXCEPT !.attempts = @ + 1]

Reverted(r) ==
    [r EXCEPT !.status = "processing", !.stale = TRUE,
              !.attempts = IF @ > 0 THEN @ - 1 ELSE 0]

=============================================================================
