--------------------------- MODULE JobQueue_proofs ---------------------------
(***************************************************************************)
(* The safety of JobQueue for every set of jobs, workers and sweepers,     *)
(* every budget and every number of faults.                                *)
(***************************************************************************)
EXTENDS JobQueue, TLAPS

----------------------------------------------------------------------------
(* Rows and hands *)

\* What a statement leaves is a row.
LEMMA StatementsLeaveRows ==
    ASSUME NEW r \in Row
    PROVE  /\ \A k \in Kind : CreatedRow(k) \in Row
           /\ \A s \in Live \cup Terminal : StatusWritten(r, s) \in Row
           /\ Deleted(r) \in Row /\ Claimed(r) \in Row /\ Renewed(r) \in Row
           /\ Completed(r) \in Row /\ Failed(r) \in Row /\ Cancelled(r) \in Row
           /\ Retried(r) \in Row /\ Deferred(r) \in Row
           /\ SweptBack(r) \in Row /\ SweptOut(r) \in Row /\ Reverted(r) \in Row
           /\ [r EXCEPT !.stale = TRUE] \in Row
<1>1. \A s \in Live \cup Terminal : Written(r, s) \in Row
  BY DEF Row, Written, Live, Terminal
<1>2. /\ \A k \in Kind : CreatedRow(k) \in Row
      /\ Deleted(r) \in Row
      /\ [r EXCEPT !.stale = TRUE] \in Row
  BY DEF Row, CreatedRow, Deleted, Live
<1>3. \A s \in Live \cup Terminal :
        /\ [Written(r, s) EXCEPT !.epoch = @ + 1] \in Row
        /\ [Written(r, s) EXCEPT !.attempts = @ + 1] \in Row
        /\ [Written(r, s) EXCEPT !.deferrals = @ + 1] \in Row
  BY <1>1 DEF Row
<1>4. Reverted(r) \in Row
  <2>1. (IF r.attempts > 0 THEN r.attempts - 1 ELSE 0) \in Nat
    BY DEF Row
  <2> QED
    BY <2>1 DEF Row, Reverted, Live
<1> QED
  BY <1>1, <1>2, <1>3, <1>4
     DEF StatusWritten, Claimed, Renewed, Completed, Failed, Cancelled, Retried,
         Deferred, SweptBack, SweptOut, Live, Terminal

\* A report leaves the row what it was, but for its age.
LEMMA ReportedRow ==
    ASSUME NEW r \in Row
    PROVE  StatusWritten(r, r.status) \in Row /\ StatusWritten(r, r.status).kind = r.kind
<1>1. Exists(r) => Written(r, r.status) \in Row /\ Written(r, r.status).kind = r.kind
  BY DEF Row, Written, Exists
<1> QED
  BY <1>1 DEF StatusWritten

\* The part of the type invariant that is about the workers.
HandsOK ==
    /\ hand \in [Worker -> [at : HandAt, job : Job \cup {NoJob}, epoch : Nat, held : BOOLEAN]]
    /\ \A w \in Worker : IF hand[w].at = "idle" THEN hand[w] = Idle ELSE hand[w].job \in Job

SweepsOK ==
    /\ sweep \in [Sweeper -> [at : {"idle", "failing", "enqueueing", "reverting"},
                              ids : SUBSET Job, id : Job \cup {NoJob}]]
    /\ \A s \in Sweeper : sweep[s].at = "reverting" => sweep[s].id \in Job

Hand == [at : HandAt, job : Job \cup {NoJob}, epoch : Nat, held : BOOLEAN]

LEMMA HandChanges ==
    ASSUME HandsOK, NEW w \in Worker, NEW h \in Hand, hand' = [hand EXCEPT ![w] = h],
           h.at # "idle", h.job \in Job
    PROVE  HandsOK'
BY DEF HandsOK, Hand

SweepState == [at : {"idle", "failing", "enqueueing", "reverting"},
               ids : SUBSET Job, id : Job \cup {NoJob}]

LEMMA SweepChanges ==
    ASSUME SweepsOK, NEW s \in Sweeper, NEW e \in SweepState, sweep' = [sweep EXCEPT ![s] = e],
           e.at = "reverting" => e.id \in Job
    PROVE  SweepsOK'
BY DEF SweepsOK, SweepState

LEMMA HandMoves ==
    ASSUME HandsOK, NEW w \in Worker, hand[w].at # "idle", NEW at \in HandAt \ {"idle"}, At(w, at)
    PROVE  HandsOK'
BY DEF HandsOK, At, Idle, HandAt

LEMMA HandOpens ==
    ASSUME HandsOK, NEW w \in Worker, LetGo(w)
    PROVE  HandsOK'
BY DEF HandsOK, LetGo, Idle, HandAt

LEMMA RowWritten ==
    ASSUME TypeOK, NEW j \in Job, NEW r \in Row, WriteRow(j, r)
    PROVE  row' \in [Job -> Row]
BY DEF TypeOK, WriteRow

LEMMA Busy ==
    ASSUME TypeOK, NEW w \in Worker, hand[w].at # "idle"
    PROVE  hand[w].job \in Job /\ row[hand[w].job] \in Row
BY DEF TypeOK

LEMMA LeasedRow ==
    ASSUME TypeOK, NEW w \in Worker, hand[w].at # "idle", NEW r \in Row, Leased(w, r)
    PROVE  row' \in [Job -> Row]
<1>1. (IF Owner(w) THEN r ELSE row[hand[w].job]) \in Row
  BY Busy
<1> QED
  BY <1>1, Busy, RowWritten DEF Leased

LEMMA FaultType ==
    ASSUME TypeOK, Fault
    PROVE  faults' \in 0 .. MaxFaults
BY MaxFaultsAssumption DEF TypeOK, Fault

LEMMA EnqueueType ==
    ASSUME TypeOK, NEW j \in Job, Enqueue(j) \/ UNCHANGED visible
    PROVE  visible' \in [Job -> Nat]
BY DEF TypeOK, Enqueue

LEMMA UnhideType ==
    ASSUME TypeOK, NEW w \in Worker, hand[w].at # "idle", Unhide(w)
    PROVE  visible' \in [Job -> Nat]
BY Busy DEF TypeOK, Unhide

LEMMA TypeParts ==
    TypeOK <=> /\ row \in [Job -> Row]
               /\ creating \subseteq Job
               /\ visible \in [Job -> Nat]
               /\ HandsOK
               /\ SweepsOK
               /\ announced \subseteq Job
               /\ claims \in [Job -> Nat]
               /\ faults \in 0 .. MaxFaults
BY DEF TypeOK, HandsOK, SweepsOK

----------------------------------------------------------------------------
(* Type correctness *)

\* What the broker and the handlers do keeps the types.
LEMMA JobStepType ==
    ASSUME TypeOK, NEW j \in Job, JobStep(j)
    PROVE  TypeOK'
<1>1. row[j] \in Row /\ row[j].kind \in Kind
  BY DEF TypeOK, Row
<1>2. row' \in [Job -> Row]
  <2>1. /\ CreatedRow(row[j].kind) \in Row /\ Deleted(row[j]) \in Row
        /\ Cancelled(row[j]) \in Row /\ [row[j] EXCEPT !.stale = TRUE] \in Row
    BY <1>1, StatementsLeaveRows
  <2>2. CASE Create(j) \/ Cancel(j) \/ Age(j)
    BY <2>1, <2>2 DEF TypeOK, Create, Cancel, Age
  <2>3. CASE PublishFails(j)
    BY <2>1, <2>3 DEF TypeOK, PublishFails
  <2>4. CASE Publish(j) \/ PublishUnheard(j) \/ MessageLost(j)
    BY <2>4 DEF TypeOK, Publish, PublishUnheard, MessageLost
  <2> QED
    BY <2>2, <2>3, <2>4 DEF JobStep
<1>3. visible' \in [Job -> Nat]
  BY DEF TypeOK, JobStep, Create, Publish, PublishUnheard, PublishFails, Cancel, Age,
         MessageLost, Enqueue
<1>4. faults' \in 0 .. MaxFaults
  BY FaultType DEF TypeOK, JobStep, Create, Publish, PublishUnheard, PublishFails, Cancel, Age, MessageLost
<1>5. /\ UNCHANGED <<hand, sweep, announced, claims>>
      /\ creating' \subseteq Job
  BY DEF TypeOK, JobStep, Create, Publish, PublishUnheard, PublishFails, Cancel, Age, MessageLost
<1>6. HandsOK' /\ SweepsOK'
  BY <1>5, TypeParts DEF HandsOK, SweepsOK
<1> QED
  BY <1>2, <1>3, <1>4, <1>5, <1>6 DEF TypeOK, HandsOK, SweepsOK

LEMMA WorkerStepType ==
    ASSUME TypeOK, NEW w \in Worker, WorkerStep(w)
    PROVE  TypeOK'
<1> USE TypeParts
<1>1. CASE \E j \in Job : Receive(w, j)
  <2>1. PICK j \in Job : Receive(w, j)
    BY <1>1
  <2>2. [at |-> "received", job |-> j, epoch |-> 0, held |-> TRUE] \in Hand
    BY DEF Hand, HandAt
  <2>3. HandsOK'
    BY <2>1, <2>2, HandChanges DEF Receive
  <2>4. visible' \in [Job -> Nat]
    BY <2>1 DEF Receive, TypeOK
  <2> QED
    BY <2>1, <2>3, <2>4 DEF Receive, TypeOK, HandsOK
<1>2. CASE VisibilityTimeout(w)
  <2>1. hand[w].at # "idle"
    BY <1>2 DEF VisibilityTimeout, TypeOK, Idle
  <2>2. HandsOK'
    <3> DEFINE h == [hand[w] EXCEPT !.held = FALSE]
    <3>1. hand' = [hand EXCEPT ![w] = h]
      BY <1>2 DEF VisibilityTimeout
    <3>2. h \in Hand /\ h.at = hand[w].at /\ h.job = hand[w].job /\ hand[w].job \in Job
      BY <2>1 DEF HandsOK, Hand
    <3>3. h.at # "idle" /\ h.job \in Job
      BY <2>1, <3>2
    <3>4. HandsOK /\ h \in Hand
      BY <3>2
    <3> HIDE DEF h
    <3> QED
      BY <3>1, <3>3, <3>4, HandChanges
  <2> QED
    BY <1>2, <2>1, <2>2, Busy, FaultType, EnqueueType DEF VisibilityTimeout, TypeOK, HandsOK
<1>3. CASE Claim(w)
  <2>1. hand[w].job \in Job /\ row[hand[w].job] \in Row
    BY <1>3, Busy DEF Claim
  <2>2. row[hand[w].job].epoch + 1 \in Nat
    BY <2>1 DEF Row
  <2>3. HandsOK'
    <3> DEFINE h == [hand[w] EXCEPT !.at = "running", !.epoch = row[hand[w].job].epoch + 1]
    <3>1. CASE hand' = [hand EXCEPT ![w].at = "running", ![w].epoch = row[hand[w].job].epoch + 1]
      <4>1. hand' = [hand EXCEPT ![w] = h]
        BY <3>1
      <4>2. h \in Hand /\ h.at = "running" /\ h.job = hand[w].job
        BY <2>2 DEF HandsOK, Hand, HandAt
      <4> QED
        BY <2>1, <4>1, <4>2, HandChanges
    <3>2. CASE At(w, "acking")
      BY <1>3, <3>2, HandMoves DEF Claim, HandAt
    <3> QED
      BY <1>3, <3>1, <3>2 DEF Claim
  <2>4. row' \in [Job -> Row]
    BY <1>3, <2>1, RowWritten, StatementsLeaveRows DEF Claim, TypeOK
  <2>5. claims' \in [Job -> Nat]
    BY <1>3, <2>1 DEF Claim, TypeOK
  <2> QED
    BY <1>3, <2>3, <2>4, <2>5 DEF Claim, TypeOK, HandsOK
<1>4. CASE Renew(w)
  BY <1>4, Busy, RowWritten, StatementsLeaveRows DEF Renew, Runs, TypeOK
<1>12. CASE Report(w)
  <2>1. hand[w].job \in Job /\ row[hand[w].job] \in Row
    BY <1>12, Busy DEF Report, Runs
  <2>2. StatusWritten(row[hand[w].job], row[hand[w].job].status) \in Row
    BY <2>1, ReportedRow
  <2> QED
    BY <1>12, <2>1, <2>2, RowWritten DEF Report, TypeOK
<1>5. CASE EndRun(w)
  <2>1. hand[w].at = "running" /\ hand[w].job \in Job /\ row[hand[w].job] \in Row
    BY <1>5, Busy
       DEF EndRun, Complete, Retry, Defer, Fail, Refuse, DropIngest, FailPush, Abandon, Runs
  <2>2. HandsOK'
    BY <1>5, <2>1, HandMoves
       DEF EndRun, Complete, Retry, Defer, Fail, Refuse, DropIngest, FailPush, Abandon, HandAt
  <2>3. row' \in [Job -> Row]
    <3>1. CASE Complete(w)
      <4>1. /\ Completed(row[hand[w].job]) \in Row
            /\ StatusWritten(row[hand[w].job], "completed") \in Row
        BY <2>1, StatementsLeaveRows DEF Terminal
      <4> QED
        BY <3>1, <4>1, <2>1, RowWritten, LeasedRow DEF Complete
    <3>2. CASE FailPush(w)
      <4>1. StatusWritten(row[hand[w].job], "failed") \in Row
        BY <2>1, StatementsLeaveRows DEF Terminal
      <4> QED
        BY <3>2, <4>1, <2>1, RowWritten DEF FailPush
    <3>3. CASE Abandon(w)
      BY <3>3 DEF Abandon
    <3>4. CASE Retry(w) \/ Defer(w)
      BY <3>4, <2>1, StatementsLeaveRows, LeasedRow DEF Retry, Defer
    <3>5. CASE Fail(w) \/ Refuse(w) \/ DropIngest(w)
      BY <3>5, <2>1, StatementsLeaveRows, LeasedRow DEF Fail, Refuse, DropIngest
    <3> QED
      BY <1>5, <3>1, <3>2, <3>3, <3>4, <3>5 DEF EndRun
  <2>4. /\ UNCHANGED <<creating, visible, sweep, claims, faults>>
        /\ announced' \subseteq Job
    BY <1>5, <2>1
       DEF EndRun, Complete, Retry, Defer, Fail, Refuse, DropIngest, FailPush, Abandon, TypeOK
  <2> QED
    BY <2>2, <2>3, <2>4 DEF TypeOK, HandsOK
<1>6. CASE Stumble(w)
  BY <1>6, HandMoves, FaultType DEF Stumble, HandAt, TypeOK, HandsOK
<1>7. CASE Resend(w)
  <2>1. HandsOK'
    BY <1>7, HandMoves DEF Resend, HandAt
  <2> QED
    BY <1>7, <2>1, Busy, FaultType, EnqueueType DEF Resend, EnqueueFails, TypeOK, HandsOK
<1>8. CASE Announce(w)
  BY <1>8, HandMoves, Busy DEF Announce, HandAt, TypeOK, HandsOK
<1>9. CASE Ack(w)
  BY <1>9, HandOpens DEF Ack, TypeOK, HandsOK
<1>10. CASE Nack(w)
  BY <1>10, HandOpens, UnhideType DEF Nack, TypeOK, HandsOK
<1>11. CASE Crash(w)
  BY <1>11, HandOpens, UnhideType, FaultType DEF Crash, TypeOK, HandsOK
<1> QED
  BY <1>1, <1>2, <1>3, <1>4, <1>5, <1>6, <1>7, <1>8, <1>9, <1>10, <1>11, <1>12
     DEF WorkerStep

LEMMA SweeperStepType ==
    ASSUME TypeOK, NEW s \in Sweeper, SweeperStep(s)
    PROVE  TypeOK'
<1> USE TypeParts
<1>1. CASE SweepRequeue(s)
  <2>1. row' \in [Job -> Row]
    BY <1>1, StatementsLeaveRows DEF SweepRequeue, TypeOK
  <2>2. SweepsOK'
    BY <1>1 DEF SweepRequeue, SweepsOK, Swept
  <2> QED
    BY <1>1, <2>1, <2>2 DEF SweepRequeue, TypeOK, SweepsOK
<1>2. \A ids \in SUBSET Job :
        Enqueueing(ids) \in [at : {"idle", "enqueueing"}, ids : SUBSET Job, id : {NoJob}]
  BY DEF Enqueueing, SweepIdle
<1>3. CASE SweepFail(s)
  <2>1. row' \in [Job -> Row]
    <3>1. \A j \in Job : row[j] \in Row /\ SweptOut(row[j]) \in Row
      BY StatementsLeaveRows DEF TypeOK
    <3> QED
      BY <1>3, <3>1 DEF SweepFail, TypeOK
  <2>2. SweepsOK'
    BY <1>2, <1>3 DEF SweepFail, SweepsOK, SweepIdle
  <2> QED
    BY <1>3, <2>1, <2>2, FaultType DEF SweepFail, TypeOK, SweepsOK
<1>4. CASE SweepEnqueue(s)
  <2>1. PICK j \in sweep[s].ids :
          /\ sweep[s].at = "enqueueing"
          /\ Enqueue(j) \/ UNCHANGED visible
          /\ \/ sweep' = [sweep EXCEPT ![s] = Enqueueing(@.ids \ {j})]
             \/ sweep' = [sweep EXCEPT ![s].at = "reverting", ![s].id = j]
          /\ UNCHANGED faults \/ Fault
    BY <1>4 DEF SweepEnqueue, EnqueueFails
  <2>2. j \in Job
    BY <2>1 DEF TypeOK
  <2>3. SweepsOK'
    <3>1. CASE sweep' = [sweep EXCEPT ![s] = Enqueueing(@.ids \ {j})]
      <4>1. sweep[s].ids \ {j} \in SUBSET Job
        BY DEF SweepsOK
      <4> DEFINE e == Enqueueing(sweep[s].ids \ {j})
      <4>2. e \in [at : {"idle", "enqueueing"}, ids : SUBSET Job, id : {NoJob}]
        BY <1>2, <4>1
      <4>3. sweep' = [sweep EXCEPT ![s] = e]
        BY <3>1
      <4>4. e \in SweepState /\ e.at # "reverting"
        BY <4>2 DEF SweepState
      <4> HIDE DEF e
      <4> QED
        BY <4>3, <4>4, SweepChanges
    <3>2. CASE sweep' = [sweep EXCEPT ![s].at = "reverting", ![s].id = j]
      <4> DEFINE e == [sweep[s] EXCEPT !.at = "reverting", !.id = j]
      <4>1. e \in SweepState /\ e.id = j
        BY <2>2 DEF SweepsOK, SweepState
      <4>2. sweep' = [sweep EXCEPT ![s] = e]
        BY <3>2
      <4> HIDE DEF e
      <4> QED
        BY <2>2, <4>1, <4>2, SweepChanges
    <3> QED
      BY <2>1, <3>1, <3>2
  <2> QED
    BY <1>4, <2>1, <2>2, <2>3, EnqueueType, FaultType DEF SweepEnqueue, TypeOK, SweepsOK
<1>5. CASE Revert(s)
  <2>1. sweep[s].id \in Job /\ row[sweep[s].id] \in Row
    BY <1>5 DEF Revert, TypeOK
  <2>2. row' \in [Job -> Row]
    BY <1>5, <2>1, RowWritten, StatementsLeaveRows DEF Revert, TypeOK
  <2>3. SweepsOK'
    BY <1>2, <1>5 DEF Revert, SweepsOK
  <2> QED
    BY <1>5, <2>2, <2>3, FaultType DEF Revert, TypeOK, SweepsOK
<1>6. CASE SweeperStops(s)
  <2>1. SweepsOK'
    BY <1>6 DEF SweeperStops, SweepsOK, SweepIdle
  <2> QED
    BY <1>6, <2>1, FaultType DEF SweeperStops, TypeOK, SweepsOK
<1> QED
  BY <1>1, <1>3, <1>4, <1>5, <1>6 DEF SweeperStep

LEMMA InitType == Init => TypeOK
<1> SUFFICES ASSUME Init PROVE TypeOK
  OBVIOUS
<1>1. row \in [Job -> Row]
  <2>1. PICK kind \in [Job -> Kind] :
          row = [j \in Job |-> [CreatedRow(kind[j]) EXCEPT !.status = "absent"]]
    BY DEF Init
  <2>2. \A j \in Job : [CreatedRow(kind[j]) EXCEPT !.status = "absent"] \in Row
    BY DEF CreatedRow, Row
  <2> QED
    BY <2>1, <2>2
<1> QED
  BY <1>1, MaxFaultsAssumption DEF Init, TypeOK, Idle, SweepIdle, HandAt

LEMMA TypeStep == TypeOK /\ [Next]_vars => TypeOK'
<1> SUFFICES ASSUME TypeOK, [Next]_vars PROVE TypeOK'
  OBVIOUS
<1>1. CASE UNCHANGED vars
  BY <1>1 DEF vars, TypeOK
<1> QED
  BY <1>1, JobStepType, WorkerStepType, SweeperStepType DEF Next

\* Every variable keeps its type, and a worker or a sweeper that is in the
\* middle of something knows of which job.
THEOREM TypeCorrect == Spec => []TypeOK
BY InitType, TypeStep, PTL DEF Spec

----------------------------------------------------------------------------
(* What a step does to one row *)

\* A write whose WHERE names the lease finds the job in processing.
LeaseWrite(r, s) ==
    /\ r.status = "processing"
    /\ s \in {Renewed(r), Completed(r), Failed(r), Retried(r), Deferred(r)}

SweepWrite(r, s) ==
    /\ r.status \in Live
    /\ \/ HasBudget(r) /\ s = SweptBack(r)
       \/ ~HasBudget(r) /\ s = SweptOut(r)

UnleasedWrite(r, s) ==
    /\ r.kind # "translation"
    /\ s \in {StatusWritten(r, "completed"), StatusWritten(r, "failed"), StatusWritten(r, r.status)}

\* The writes that are not a claim, which is the one that counts as a run.
OtherWrite(r, s) ==
    \/ s = r
    \/ r.status = "absent" /\ s = CreatedRow(r.kind)
    \/ s = Deleted(r)
    \/ r.status \in Live /\ s \in {Cancelled(r), [r EXCEPT !.stale = TRUE]}
    \/ LeaseWrite(r, s)
    \/ SweepWrite(r, s)
    \/ r.status = "queued" /\ s = Reverted(r)
    \/ UnleasedWrite(r, s)

RowStep(j) ==
    \/ OtherWrite(row[j], row'[j]) /\ claims'[j] = claims[j]
    \/ /\ row[j].status = "queued"
       /\ row'[j] = Claimed(row[j])
       /\ claims'[j] = claims[j] + 1

LEMMA JobRowStep ==
    ASSUME TypeOK, NEW k \in Job, JobStep(k), NEW j \in Job
    PROVE  RowStep(j)
<1>1. claims' = claims
  BY DEF JobStep, Create, Publish, PublishUnheard, PublishFails, Cancel, Age, MessageLost
<1>2. OtherWrite(row[j], row'[j])
  BY DEF TypeOK, OtherWrite, JobStep, Create, Publish, PublishUnheard, PublishFails, Cancel,
         Age, MessageLost
<1> QED
  BY <1>1, <1>2 DEF RowStep

LEMMA WorkerRowStep ==
    ASSUME TypeOK, NEW w \in Worker, WorkerStep(w), NEW j \in Job
    PROVE  RowStep(j)
<1>1. CASE Claim(w)
  <2>1. hand[w].job \in Job
    BY <1>1, Busy DEF Claim
  <2> QED
    BY <1>1, <2>1 DEF Claim, Claimable, WriteRow, RowStep, OtherWrite, TypeOK
<1>2. CASE Renew(w)
  <2>1. hand[w].job \in Job
    BY <1>2, Busy DEF Renew, Runs
  <2> QED
    BY <1>2, <2>1 DEF Renew, Owner, Owns, WriteRow, RowStep, OtherWrite, LeaseWrite, TypeOK
<1>5. CASE Report(w)
  <2>1. hand[w].job \in Job /\ row[hand[w].job].kind = "push"
    BY <1>5, Busy DEF Report, Runs
  <2> QED
    BY <1>5, <2>1 DEF Report, WriteRow, RowStep, OtherWrite, UnleasedWrite, TypeOK
<1>3. CASE EndRun(w)
  <2>1. hand[w].at = "running" /\ hand[w].job \in Job
    BY <1>3, Busy
       DEF EndRun, Complete, Retry, Defer, Fail, Refuse, DropIngest, FailPush, Abandon, Runs
  <2>2. claims' = claims
    BY <1>3
       DEF EndRun, Complete, Retry, Defer, Fail, Refuse, DropIngest, FailPush, Abandon
  <2>3. ASSUME NEW r \in {Completed(row[hand[w].job]), Failed(row[hand[w].job]),
                          Retried(row[hand[w].job]), Deferred(row[hand[w].job])},
               Leased(w, r)
        PROVE  OtherWrite(row[j], row'[j])
    BY <2>1, <2>3 DEF Leased, Owner, Owns, WriteRow, OtherWrite, LeaseWrite, TypeOK
  <2>4. CASE Complete(w)
    <3>1. CASE row[hand[w].job].kind = "translation"
      BY <2>2, <2>3, <2>4, <3>1 DEF Complete, RowStep
    <3>2. CASE row[hand[w].job].kind # "translation"
      BY <2>1, <2>2, <2>4, <3>2 DEF Complete, WriteRow, RowStep, OtherWrite, UnleasedWrite, TypeOK
    <3> QED
      BY <3>1, <3>2
  <2>5. CASE Retry(w) \/ Defer(w)
    BY <2>2, <2>3, <2>5 DEF Retry, Defer, RowStep
  <2>6. CASE Fail(w) \/ Refuse(w) \/ DropIngest(w)
    BY <2>2, <2>3, <2>6 DEF Fail, Refuse, DropIngest, RowStep
  <2>7. CASE FailPush(w)
    BY <2>1, <2>2, <2>7
       DEF FailPush, Runs, WriteRow, RowStep, OtherWrite, UnleasedWrite, TypeOK
  <2>8. CASE Abandon(w)
    BY <2>2, <2>8 DEF Abandon, RowStep, OtherWrite
  <2> QED
    BY <1>3, <2>4, <2>5, <2>6, <2>7, <2>8 DEF EndRun
<1>4. CASE UNCHANGED <<row, claims>>
  BY <1>4 DEF RowStep, OtherWrite
<1> QED
  BY <1>1, <1>2, <1>3, <1>4, <1>5
     DEF WorkerStep, Receive, VisibilityTimeout, Stumble, Resend, Announce, Ack, Nack, Crash

LEMMA SweeperRowStep ==
    ASSUME TypeOK, NEW s \in Sweeper, SweeperStep(s), NEW j \in Job
    PROVE  RowStep(j)
<1>1. claims' = claims
  BY DEF SweeperStep, SweepRequeue, SweepFail, SweepEnqueue, Revert, SweeperStops
<1>2. CASE SweepRequeue(s)
  BY <1>1, <1>2 DEF SweepRequeue, Swept, Sweepable, RowStep, OtherWrite, SweepWrite
<1>3. CASE SweepFail(s)
  BY <1>1, <1>3 DEF SweepFail, SweptAway, Sweepable, RowStep, OtherWrite, SweepWrite
<1>4. CASE Revert(s)
  BY <1>1, <1>4 DEF Revert, WriteRow, Claimable, RowStep, OtherWrite, TypeOK
<1>5. CASE SweepEnqueue(s) \/ SweeperStops(s)
  BY <1>1, <1>5 DEF SweepEnqueue, SweeperStops, RowStep, OtherWrite
<1> QED
  BY <1>2, <1>3, <1>4, <1>5 DEF SweeperStep

LEMMA RowSteps == TypeOK /\ [Next]_vars => \A j \in Job : RowStep(j)
<1>1. UNCHANGED vars => \A j \in Job : RowStep(j)
  BY DEF vars, RowStep, OtherWrite
<1> QED
  BY <1>1, JobRowStep, WorkerRowStep, SweeperRowStep DEF Next

----------------------------------------------------------------------------
(* What a translation ends with *)

LEMMA SettledRow ==
    ASSUME TypeOK, NEW j \in Job, RowStep(j), row[j].kind = "translation",
           row[j].status \in Terminal \cup {"deleted"}
    PROVE  row'[j].status \in {row[j].status, "deleted"}
<1>1. row[j] \in Row
  BY DEF TypeOK
<1> QED
  BY <1>1 DEF RowStep, OtherWrite, LeaseWrite, SweepWrite, UnleasedWrite, Live, Terminal,
              Deleted, Row

\* Once a translation has ended, whoever still runs it and whoever sweeps it
\* leaves its outcome alone, for any number of workers and sweepers.
THEOREM SettledForever == Spec => SettledStays
<1>1. TypeOK /\ [Next]_vars =>
        [\A j \in Job : row[j].kind = "translation" /\ row[j].status \in Terminal
              => row'[j].status \in {row[j].status, "deleted"}]_vars
  BY RowSteps, SettledRow
<1> QED
  BY <1>1, TypeCorrect, PTL DEF Spec, SettledStays

----------------------------------------------------------------------------
(* What a statement leaves of the counts of a row *)

Counts(r, status, attempts, deferrals, epoch) ==
    /\ r.status = status
    /\ r.attempts = attempts
    /\ r.deferrals = deferrals
    /\ r.epoch = epoch

LEMMA WrittenCounts ==
    ASSUME NEW r \in Row, NEW s \in Live \cup Terminal
    PROVE  /\ Counts(Written(r, s), s, r.attempts, r.deferrals, r.epoch)
           /\ Counts([Written(r, s) EXCEPT !.epoch = @ + 1],
                     s, r.attempts, r.deferrals, r.epoch + 1)
           /\ Counts([Written(r, s) EXCEPT !.attempts = @ + 1],
                     s, r.attempts + 1, r.deferrals, r.epoch)
           /\ Counts([Written(r, s) EXCEPT !.deferrals = @ + 1],
                     s, r.attempts, r.deferrals + 1, r.epoch)
           /\ Written(r, s).kind = r.kind
           /\ [Written(r, s) EXCEPT !.epoch = @ + 1].kind = r.kind
           /\ [Written(r, s) EXCEPT !.attempts = @ + 1].kind = r.kind
           /\ [Written(r, s) EXCEPT !.deferrals = @ + 1].kind = r.kind
<1>1. /\ Counts(Written(r, s), s, r.attempts, r.deferrals, r.epoch)
      /\ Written(r, s).kind = r.kind
      /\ Written(r, s) \in Row
  BY DEF Written, Counts, Row
<1> QED
  BY <1>1 DEF Counts, Row

LEMMA StatementCounts ==
    ASSUME NEW r \in Row
    PROVE  /\ Counts(Claimed(r), "processing", r.attempts, r.deferrals, r.epoch + 1)
           /\ Counts(Renewed(r), "processing", r.attempts, r.deferrals, r.epoch)
           /\ Counts(Completed(r), "completed", r.attempts, r.deferrals, r.epoch)
           /\ Counts(Failed(r), "failed", r.attempts, r.deferrals, r.epoch)
           /\ Counts(Retried(r), IF HasBudget(r) THEN "queued" ELSE "failed",
                     r.attempts + 1, r.deferrals, r.epoch)
           /\ Counts(Deferred(r), IF MayWait(r) THEN "queued" ELSE "failed",
                     r.attempts, r.deferrals + 1, r.epoch)
           /\ Counts(Cancelled(r), "failed", r.attempts, r.deferrals, r.epoch + 1)
           /\ Counts(SweptBack(r), "queued", r.attempts + 1, r.deferrals, r.epoch)
           /\ Counts(SweptOut(r), "failed", r.attempts + 1, r.deferrals, r.epoch)
           /\ Counts(Reverted(r), "processing", IF r.attempts > 0 THEN r.attempts - 1 ELSE 0,
                     r.deferrals, r.epoch)
           /\ Counts(Deleted(r), "deleted", r.attempts, r.deferrals, r.epoch)
<1>1. /\ Counts(Claimed(r), "processing", r.attempts, r.deferrals, r.epoch + 1)
      /\ Counts(Renewed(r), "processing", r.attempts, r.deferrals, r.epoch)
      /\ Counts(Completed(r), "completed", r.attempts, r.deferrals, r.epoch)
      /\ Counts(Failed(r), "failed", r.attempts, r.deferrals, r.epoch)
      /\ Counts(Cancelled(r), "failed", r.attempts, r.deferrals, r.epoch + 1)
  BY WrittenCounts DEF Claimed, Renewed, Completed, Failed, Cancelled, Live, Terminal
<1>2. /\ Counts(Retried(r), IF HasBudget(r) THEN "queued" ELSE "failed",
                r.attempts + 1, r.deferrals, r.epoch)
      /\ Counts(Deferred(r), IF MayWait(r) THEN "queued" ELSE "failed",
                r.attempts, r.deferrals + 1, r.epoch)
  BY WrittenCounts DEF Retried, Deferred, Live, Terminal
<1>3. /\ Counts(SweptBack(r), "queued", r.attempts + 1, r.deferrals, r.epoch)
      /\ Counts(SweptOut(r), "failed", r.attempts + 1, r.deferrals, r.epoch)
  BY WrittenCounts DEF SweptBack, SweptOut, Live, Terminal
<1>4. /\ Counts(Reverted(r), "processing", IF r.attempts > 0 THEN r.attempts - 1 ELSE 0,
                r.deferrals, r.epoch)
      /\ Counts(Deleted(r), "deleted", r.attempts, r.deferrals, r.epoch)
  BY DEF Counts, Reverted, Deleted, Row
<1> QED
  BY <1>1, <1>2, <1>3, <1>4

LEMMA KindStays ==
    ASSUME NEW r \in Row, NEW s, OtherWrite(r, s) \/ s = Claimed(r)
    PROVE  s.kind = r.kind
<1>1. CASE s \in {Claimed(r), Renewed(r), Completed(r), Failed(r), Retried(r), Deferred(r),
                  Cancelled(r), SweptBack(r), SweptOut(r),
                  StatusWritten(r, "completed"), StatusWritten(r, "failed"),
                  StatusWritten(r, r.status)}
  <2>1. /\ Claimed(r).kind = r.kind /\ Renewed(r).kind = r.kind /\ Completed(r).kind = r.kind
        /\ Failed(r).kind = r.kind /\ Cancelled(r).kind = r.kind
    BY WrittenCounts DEF Claimed, Renewed, Completed, Failed, Cancelled, Live, Terminal
  <2>2. Retried(r).kind = r.kind /\ Deferred(r).kind = r.kind
    <3>1. \A t \in {"queued", "failed"} :
            /\ [Written(r, t) EXCEPT !.attempts = @ + 1].kind = r.kind
            /\ [Written(r, t) EXCEPT !.deferrals = @ + 1].kind = r.kind
      BY WrittenCounts DEF Live, Terminal
    <3>2. Retried(r).kind = r.kind
      BY <3>1 DEF Retried
    <3>3. Deferred(r).kind = r.kind
      BY <3>1 DEF Deferred
    <3> QED
      BY <3>2, <3>3
  <2>3. SweptBack(r).kind = r.kind /\ SweptOut(r).kind = r.kind
    BY WrittenCounts DEF SweptBack, SweptOut, Live, Terminal
  <2>4. StatusWritten(r, "completed").kind = r.kind /\ StatusWritten(r, "failed").kind = r.kind
    BY WrittenCounts DEF StatusWritten, Live, Terminal
  <2> QED
    BY <1>1, <2>1, <2>2, <2>3, <2>4, ReportedRow
<1>2. CASE s \in {r, CreatedRow(r.kind), Deleted(r), [r EXCEPT !.stale = TRUE], Reverted(r)}
  <2>1. Reverted(r).kind = r.kind
    BY DEF Reverted, Row
  <2>2. Deleted(r).kind = r.kind /\ [r EXCEPT !.stale = TRUE].kind = r.kind
    BY DEF Deleted, Row
  <2>3. CreatedRow(r.kind).kind = r.kind
    BY DEF CreatedRow
  <2> QED
    BY <1>2, <2>1, <2>2, <2>3
<1> QED
  BY <1>1, <1>2 DEF OtherWrite, LeaseWrite, SweepWrite, UnleasedWrite

----------------------------------------------------------------------------
(* Runs are paid for *)

\* What a row and the runs of its job have to do with each other.
PaidRow(r, n) ==
    /\ r.status = "absent" => n = 0 /\ r.epoch = 0
    /\ r.status \in Live => r.attempts < MaxAttempts /\ r.deferrals < MaxDeferrals
    /\ n <= r.attempts + r.deferrals + (IF r.status = "queued" THEN 0 ELSE 1)
    /\ n <= MaxAttempts + MaxDeferrals - 1

Paid == \A j \in Job : PaidRow(row[j], claims[j])

LEMMA ClaimPaid ==
    ASSUME NEW r \in Row, NEW n \in Nat, PaidRow(r, n), r.status = "queued"
    PROVE  PaidRow(Claimed(r), n + 1)
<1>1. r.attempts \in Nat /\ r.deferrals \in Nat
  BY DEF Row
<1> QED
  BY <1>1, StatementCounts, BudgetAssumption DEF PaidRow, Counts, Live

LEMMA OtherPaid ==
    ASSUME NEW r \in Row, NEW n \in Nat, PaidRow(r, n), NEW s, OtherWrite(r, s)
    PROVE  PaidRow(s, n)
<1>1. r.attempts \in Nat /\ r.deferrals \in Nat
  BY DEF Row
<1>2. CASE s = r
  BY <1>2
<1>3. CASE r.status = "absent" /\ s = CreatedRow(r.kind)
  BY <1>3, BudgetAssumption DEF PaidRow, CreatedRow, Live
<1>4. CASE s = Deleted(r)
  BY <1>1, <1>4, StatementCounts DEF PaidRow, Counts, Live
<1>5. CASE r.status \in Live /\ s = Cancelled(r)
  BY <1>1, <1>5, StatementCounts DEF PaidRow, Counts, Live
<1>6. CASE r.status \in Live /\ s = [r EXCEPT !.stale = TRUE]
  BY <1>6 DEF PaidRow, Row
<1>7. CASE LeaseWrite(r, s)
  BY <1>1, <1>7, StatementCounts, BudgetAssumption
     DEF LeaseWrite, PaidRow, Counts, Live, HasBudget, MayWait
<1>8. CASE SweepWrite(r, s)
  BY <1>1, <1>8, StatementCounts, BudgetAssumption
     DEF SweepWrite, PaidRow, Counts, Live, HasBudget
<1>9. CASE r.status = "queued" /\ s = Reverted(r)
  <2> DEFINE fewer == IF r.attempts > 0 THEN r.attempts - 1 ELSE 0
  <2>1. Counts(s, "processing", fewer, r.deferrals, r.epoch)
    BY <1>9, StatementCounts
  <2>2. fewer \in Nat /\ r.attempts <= fewer + 1 /\ fewer <= r.attempts
    BY <1>1
  <2> HIDE DEF fewer
  <2> QED
    BY <1>1, <1>9, <2>1, <2>2, BudgetAssumption DEF PaidRow, Counts, Live
<1>10. CASE UnleasedWrite(r, s)
  <2>1. \/ s = r
        \/ Counts(s, "completed", r.attempts, r.deferrals, r.epoch)
        \/ Counts(s, "failed", r.attempts, r.deferrals, r.epoch)
        \/ Counts(s, r.status, r.attempts, r.deferrals, r.epoch)
    <3>1. /\ Counts(Written(r, "completed"), "completed", r.attempts, r.deferrals, r.epoch)
          /\ Counts(Written(r, "failed"), "failed", r.attempts, r.deferrals, r.epoch)
      BY WrittenCounts DEF Live, Terminal
    <3>2. Exists(r) => Counts(Written(r, r.status), r.status, r.attempts, r.deferrals, r.epoch)
      BY WrittenCounts DEF Exists
    <3> QED
      BY <1>10, <3>1, <3>2 DEF UnleasedWrite, StatusWritten
  <2> QED
    BY <1>1, <2>1 DEF PaidRow, Counts, Live
<1> QED
  BY <1>2, <1>3, <1>4, <1>5, <1>6, <1>7, <1>8, <1>9, <1>10 DEF OtherWrite

LEMMA PaidStep == TypeOK /\ Paid /\ [Next]_vars => Paid'
<1> SUFFICES ASSUME TypeOK, Paid, [Next]_vars, NEW j \in Job
             PROVE  PaidRow(row'[j], claims'[j])
  BY DEF Paid
<1>1. RowStep(j) /\ row[j] \in Row /\ claims[j] \in Nat /\ PaidRow(row[j], claims[j])
  BY RowSteps DEF TypeOK, Paid
<1> QED
  BY <1>1, ClaimPaid, OtherPaid DEF RowStep

LEMMA InitPaid == Init => Paid
<1> SUFFICES ASSUME Init, NEW j \in Job PROVE PaidRow(row[j], claims[j])
  BY DEF Paid
<1>1. Counts(row[j], "absent", 0, 0, 0) /\ claims[j] = 0
  BY DEF Init, CreatedRow, Counts
<1> QED
  BY <1>1, BudgetAssumption DEF PaidRow, Counts, Live

LEMMA PaidAlways == Spec => []Paid
BY InitPaid, PaidStep, TypeCorrect, PTL DEF Spec

\* Whatever becomes of a job, each of its runs but the last has cost it an
\* attempt or a deferral.
THEOREM EveryRunIsPaid == Spec => []RunsArePaid
<1>1. Paid => RunsArePaid
  BY DEF Paid, PaidRow, RunsArePaid
<1> QED
  BY <1>1, PaidAlways, PTL

\* Hence no job runs more often than its two budgets allow together.
THEOREM RunsAreBounded == Spec => []BoundedRuns
<1>1. Paid => BoundedRuns
  BY DEF Paid, PaidRow, BoundedRuns
<1> QED
  BY <1>1, PaidAlways, PTL

----------------------------------------------------------------------------
(* Leases *)

Running(w) == hand[w].at = "running"

\* A lease is an epoch the row has reached, and no two workers have the same.
Leases ==
    /\ \A w \in Worker : Running(w) => hand[w].epoch <= row[hand[w].job].epoch
    /\ \A w, v \in Worker :
          Running(w) /\ Running(v) /\ hand[w].job = hand[v].job /\ hand[w].epoch = hand[v].epoch
          => w = v

\* Only a claim starts a run, and a run keeps its lease.
Kept(w) ==
    Running(w)' => Running(w) /\ hand'[w].job = hand[w].job /\ hand'[w].epoch = hand[w].epoch

LEMMA EpochGrows ==
    ASSUME TypeOK, Paid, NEW j \in Job, RowStep(j)
    PROVE  /\ row[j].epoch \in Nat /\ row'[j].epoch \in Nat
           /\ row'[j].epoch >= row[j].epoch
           /\ row'[j].kind = row[j].kind
<1> DEFINE r == row[j]  s == row'[j]
<1>1. r \in Row /\ r.epoch \in Nat /\ PaidRow(r, claims[j])
  BY DEF TypeOK, Row, Paid
<1>2. OtherWrite(r, s) \/ s = Claimed(r)
  BY DEF RowStep
<1>3. s.kind = r.kind
  BY <1>1, <1>2, KindStays
<1> HIDE DEF r, s
<1>4. s.epoch \in Nat /\ s.epoch >= r.epoch
  <2>1. CASE s \in {r, [r EXCEPT !.stale = TRUE]}
    BY <1>1, <2>1 DEF Row
  <2>2. CASE r.status = "absent" /\ s = CreatedRow(r.kind)
    <3>1. s.epoch = 0 /\ r.epoch = 0
      BY <1>1, <2>2 DEF PaidRow, CreatedRow
    <3> QED
      BY <3>1
  <2>3. CASE UnleasedWrite(r, s)
    <3>1. /\ StatusWritten(r, "completed").epoch = r.epoch
          /\ StatusWritten(r, "failed").epoch = r.epoch
          /\ StatusWritten(r, r.status).epoch = r.epoch
      BY <1>1, WrittenCounts DEF StatusWritten, Exists, Counts, Live, Terminal
    <3> QED
      BY <1>1, <2>3, <3>1 DEF UnleasedWrite
  <2>4. CASE s \in {Claimed(r), Cancelled(r)}
    <3>1. Claimed(r).epoch = r.epoch + 1 /\ Cancelled(r).epoch = r.epoch + 1
      BY <1>1, StatementCounts DEF Counts
    <3> QED
      BY <1>1, <2>4, <3>1
  <2>5. CASE s \in {Renewed(r), Completed(r), Failed(r), Retried(r), Deferred(r),
                    SweptBack(r), SweptOut(r), Reverted(r), Deleted(r)}
    <3>1. /\ Renewed(r).epoch = r.epoch /\ Completed(r).epoch = r.epoch
          /\ Failed(r).epoch = r.epoch /\ Retried(r).epoch = r.epoch
          /\ Deferred(r).epoch = r.epoch /\ SweptBack(r).epoch = r.epoch
          /\ SweptOut(r).epoch = r.epoch /\ Reverted(r).epoch = r.epoch
          /\ Deleted(r).epoch = r.epoch
      BY <1>1, StatementCounts DEF Counts
    <3> QED
      BY <1>1, <2>5, <3>1
  <2> QED
    BY <1>2, <2>1, <2>2, <2>3, <2>4, <2>5 DEF OtherWrite, LeaseWrite, SweepWrite
<1> QED
  BY <1>1, <1>3, <1>4 DEF r, s

LEMMA RunsKept ==
    ASSUME TypeOK, [Next]_vars
    PROVE  \/ \A v \in Worker : Kept(v)
           \/ \E w \in Worker : Claim(w) /\ \A v \in Worker \ {w} : Kept(v)
<1>1. CASE hand' = hand
  BY <1>1 DEF Kept, Running
<1>2. ASSUME NEW w \in Worker, WorkerStep(w), ~Claim(w), ~Renew(w), ~Report(w)
      PROVE  \A v \in Worker : Kept(v)
  <2>1. CASE \E at \in HandAt \ {"running"} : At(w, at)
    BY <2>1 DEF At, Kept, Running, TypeOK
  <2>2. CASE LetGo(w)
    BY <2>2 DEF LetGo, Idle, Kept, Running, TypeOK
  <2>3. CASE \E j \in Job : Receive(w, j)
    BY <2>3 DEF Receive, Kept, Running, TypeOK
  <2>4. CASE VisibilityTimeout(w)
    BY <2>4 DEF VisibilityTimeout, Kept, Running, TypeOK
  <2>5. CASE EndRun(w) \/ Stumble(w) \/ Resend(w) \/ Announce(w)
    BY <2>1, <2>5
       DEF EndRun, Complete, Retry, Defer, Fail, Refuse, DropIngest, FailPush, Abandon,
           Stumble, Resend, Announce, HandAt
  <2>6. CASE Ack(w) \/ Nack(w) \/ Crash(w)
    BY <2>2, <2>6 DEF Ack, Nack, Crash
  <2> QED
    BY <1>2, <2>3, <2>4, <2>5, <2>6 DEF WorkerStep
<1>3. ASSUME NEW w \in Worker, Claim(w), NEW v \in Worker \ {w}
      PROVE  Kept(v)
  BY <1>3 DEF Claim, At, Kept, Running, TypeOK
<1>4. ASSUME NEW w \in Worker, Renew(w) \/ Report(w)
      PROVE  hand' = hand
  BY <1>4 DEF Renew, Report
<1>5. CASE UNCHANGED vars
  BY <1>1, <1>5 DEF vars
<1>6. ASSUME NEW j \in Job, JobStep(j)
      PROVE  hand' = hand
  BY <1>6 DEF JobStep, Create, Publish, PublishUnheard, PublishFails, Cancel, Age, MessageLost
<1>7. ASSUME NEW s \in Sweeper, SweeperStep(s)
      PROVE  hand' = hand
  BY <1>7 DEF SweeperStep, SweepRequeue, SweepFail, SweepEnqueue, Revert, SweeperStops
<1> QED
  BY <1>1, <1>2, <1>3, <1>4, <1>5, <1>6, <1>7 DEF Next

\* A lease that is kept stays within the epochs of its row.
LEMMA KeptBelow ==
    ASSUME TypeOK, Paid, Leases, [Next]_vars, NEW v \in Worker, Kept(v), Running(v)'
    PROVE  /\ Running(v) /\ hand'[v].job = hand[v].job /\ hand'[v].epoch = hand[v].epoch
           /\ hand[v].epoch <= row[hand[v].job].epoch
           /\ hand'[v].epoch <= row'[hand'[v].job].epoch
<1>1. Running(v) /\ hand'[v].job = hand[v].job /\ hand'[v].epoch = hand[v].epoch
  BY DEF Kept
<1>2. hand[v].job \in Job /\ hand[v].epoch \in Nat
  BY <1>1, Busy DEF Running, TypeOK
<1>3. RowStep(hand[v].job)
  BY <1>2, RowSteps
<1> QED
  BY <1>1, <1>2, <1>3, EpochGrows DEF Leases

LEMMA LeasesStep == TypeOK /\ Paid /\ Leases /\ [Next]_vars => Leases'
<1> SUFFICES ASSUME TypeOK, Paid, Leases, [Next]_vars PROVE Leases'
  OBVIOUS
<1>1. CASE \A v \in Worker : Kept(v)
  BY <1>1, KeptBelow DEF Leases, Running
<1>2. ASSUME NEW w \in Worker, Claim(w), \A v \in Worker \ {w} : Kept(v), Running(w)'
      PROVE  Leases'
  <2>1. hand[w].at = "received" /\ hand[w].job \in Job /\ row[hand[w].job] \in Row
    BY <1>2, Busy DEF Claim
  <2>2. hand' = [hand EXCEPT ![w].at = "running", ![w].epoch = row[hand[w].job].epoch + 1]
        /\ WriteRow(hand[w].job, Claimed(row[hand[w].job]))
    BY <1>2, <2>1 DEF Claim, At, Running, TypeOK
  <2>3. hand'[w].job = hand[w].job /\ hand'[w].epoch = row[hand[w].job].epoch + 1
    BY <2>2 DEF TypeOK
  <2>4. row'[hand[w].job].epoch = row[hand[w].job].epoch + 1 /\ row[hand[w].job].epoch \in Nat
    BY <2>1, <2>2, StatementCounts DEF WriteRow, Counts, TypeOK, Row
  <2>5. ASSUME NEW v \in Worker, v # w, Running(v)'
        PROVE  /\ hand'[v].epoch <= row'[hand'[v].job].epoch
               /\ hand'[v].job = hand'[w].job => hand'[v].epoch # hand'[w].epoch
    <3>1. /\ Running(v) /\ hand'[v].job = hand[v].job /\ hand'[v].epoch = hand[v].epoch
          /\ hand[v].epoch <= row[hand[v].job].epoch
          /\ hand'[v].epoch <= row'[hand'[v].job].epoch
      BY <1>2, <2>5, KeptBelow
    <3>2. hand[v].epoch \in Nat
      BY DEF TypeOK
    <3> QED
      BY <2>3, <2>4, <3>1, <3>2
  <2>6. ASSUME NEW v \in Worker \ {w}, NEW u \in Worker \ {w}, Running(v)', Running(u)',
               hand'[v].job = hand'[u].job, hand'[v].epoch = hand'[u].epoch
        PROVE  v = u
    BY <1>2, <2>6, KeptBelow DEF Leases
  <2>7. hand'[w].epoch <= row'[hand'[w].job].epoch
    BY <2>3, <2>4
  <2> QED
    BY <2>5, <2>6, <2>7 DEF Leases, Running
<1>3. ASSUME NEW w \in Worker, \A v \in Worker \ {w} : Kept(v), ~Running(w)'
      PROVE  Leases'
  <2>1. \A v \in Worker : Kept(v)
    BY <1>3 DEF Kept
  <2> QED
    BY <1>1, <2>1
<1> QED
  BY <1>1, <1>2, <1>3, RunsKept

LEMMA InitLeases == Init => Leases
BY DEF Init, Leases, Running, Idle

\* At most one worker holds the lease of a job, for any number of workers and
\* whatever the broker and the sweepers do.
THEOREM OneOwnerAlways == Spec => []OneOwner
<1>1. Leases => OneOwner
  BY DEF Leases, OneOwner, Running, Owner, Owns
<1>2. Spec => []Leases
  BY InitLeases, LeasesStep, TypeCorrect, PaidAlways, PTL DEF Spec
<1> QED
  BY <1>1, <1>2, PTL

----------------------------------------------------------------------------
(* Announcements *)

LEMMA AnnouncedStep == TypeOK /\ Paid /\ AnnouncedStaysFailed /\ [Next]_vars => AnnouncedStaysFailed'
<1> SUFFICES ASSUME TypeOK, Paid, AnnouncedStaysFailed, [Next]_vars,
                    NEW j \in Job, j \in announced', row'[j].kind = "translation"
             PROVE  row'[j].status \in {"failed", "deleted"}
  <2>1. TypeOK /\ [Next]_vars => TypeOK'
    BY TypeStep
  <2>2. TypeOK' => announced' \subseteq Job
    BY DEF TypeOK
  <2> QED
    BY <2>1, <2>2 DEF AnnouncedStaysFailed
<1>1. RowStep(j) /\ row[j].kind = "translation"
  BY RowSteps, EpochGrows
<1>2. CASE j \in announced
  <2>1. row[j].status \in {"failed", "deleted"}
    BY <1>1, <1>2 DEF AnnouncedStaysFailed
  <2> QED
    BY <1>1, <2>1, SettledRow DEF Terminal
<1>3. CASE j \notin announced
  <2>1. PICK w \in Worker : Announce(w) \/ DropIngest(w)
    BY <1>3
       DEF Next, vars, JobStep, Create, Publish, PublishUnheard, PublishFails, Cancel, Age,
           MessageLost, WorkerStep, Receive, VisibilityTimeout, Claim, Renew, Report, EndRun,
           Complete, Retry, Defer, Fail, Refuse, FailPush, Abandon, Stumble, Resend, Ack,
           Nack, Crash, SweeperStep, SweepRequeue, SweepFail, SweepEnqueue, Revert,
           SweeperStops
  <2>2. CASE Announce(w)
    BY <1>3, <2>2 DEF Announce
  <2>3. CASE DropIngest(w)
    BY <1>1, <1>3, <2>3 DEF DropIngest, Runs
  <2> QED
    BY <2>1, <2>2, <2>3
<1> QED
  BY <1>2, <1>3

\* A translation announced as failed stays failed, whoever else runs it.
THEOREM AnnouncedForever == Spec => []AnnouncedStaysFailed
<1>1. Init => AnnouncedStaysFailed
  BY DEF Init, AnnouncedStaysFailed
<1> QED
  BY <1>1, AnnouncedStep, TypeCorrect, PaidAlways, PTL DEF Spec

=============================================================================
