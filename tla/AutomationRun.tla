--------------------------- MODULE AutomationRun ---------------------------
(* The run that an event starts in bowrain: the engine executes the event's     *)
(* actions one after the other and makes each a step of the run; flows and jobs *)
(* report their own steps later; the last report settles the run; a person may  *)
(* cancel it meanwhile (bowrain/event/automation_run_manager.go,                *)
(* automation_run_notifier.go, step_completion_tracker.go,                      *)
(* bowrain/store/automation_run.go, bowrain/server/automation.go).              *)
EXTENDS Naturals, FiniteSets

CONSTANTS
    Actions,      \* how many actions the event's rules name
    Canceller,    \* requests to cancel the run
    Engine,       \* the automation engine, which calls Execute
    Tracker,      \* the StepCompletionTracker
    MaxRestarts   \* how often the server may restart

Step == 1..Actions

ASSUME ActionsAssumption == Actions \in Nat \ {0} /\ MaxRestarts \in Nat

ASSUME ActorsAssumption ==
    /\ IsFiniteSet(Canceller)
    /\ Engine # Tracker
    /\ {Engine, Tracker} \cap (Step \cup Canceller) = {}
    /\ Step \cap Canceller = {}

\* A step's number also names the goroutine that runs its action.
Actor == Step \cup {Engine, Tracker} \cup Canceller

\* What an action does: notify runs inside Execute; create_review_tasks,
\* create_source_review and write_overlay go on in the background, although the
\* step is closed at once; run_flow closes its own step; auto_translate and
\* auto_extract create jobs, whose end the tracker waits for.
Kind == {"inline", "background", "flow", "jobs"}

StepTerminal == {"completed", "failed", "skipped"}
RunTerminal == {"completed", "partial", "cancelled"}

\* What an action's goroutine may be at: it runs, or a statement of it is under
\* way that creates jobs or registers them on the step's row.
Underway == {"running", "creating", "created", "registering"}

VARIABLES
    kind,        \* the kind of each action
    run,         \* the run's row
    status,      \* the status of each step's row; "none" before there is one
    registered,  \* the steps whose row names their jobs
    queued,      \* the steps with jobs that have not ended
    pending,     \* the steps the tracker polls
    work,        \* how far the goroutine of each action is
    free,        \* the actions that run under a background context
    rx,          \* runExecution: the context the run's actions execute under
    actor,       \* where each actor stands in what it is doing
    restarts,
    crossed,     \* history: steps whose jobs were being registered while a
                 \* cancellation listed the open steps
    uncounted,   \* history: a report was written and never counted
    overwritten  \* history: a run that was cancelled was settled after all

vars == <<kind, run, status, registered, queued, pending, work, free, rx, actor,
          restarts, crossed, uncounted, overwritten>>

rows == <<run, status, registered>>
goroutines == <<work, free, queued, pending>>
history == <<kind, restarts, crossed, uncounted, overwritten>>

\* What an actor is about to do, to which step, what it is going to write, and,
\* for a cancellation, the open steps it listed and those with jobs in the list.
ActorState ==
    [at : {"idle", "next", "insert", "grow", "dispatch",
           "close", "count", "settle", "list", "write", "mark",
           "stop", "look", "skip", "done", "refused", "stopped"},
     step : Step \cup {0},
     says : StepTerminal \cup RunTerminal,
     todo : SUBSET Step,
     jobs : SUBSET Step]

Start(a) ==
    [at |-> IF a = Engine THEN "next" ELSE "idle",
     step |-> IF a \in Step THEN a ELSE 0,
     says |-> "completed", todo |-> {}, jobs |-> {}]

Init ==
    /\ kind \in [Step -> Kind]
    /\ run = [status |-> "none", steps |-> 0, done |-> 0]
    /\ status = [i \in Step |-> "none"]
    /\ registered = {} /\ queued = {} /\ pending = {} /\ free = {}
    /\ work = [i \in Step |-> "none"]
    /\ rx = [held |-> FALSE, open |-> FALSE, terminal |-> FALSE, cancelled |-> FALSE]
    /\ actor = [a \in Actor |-> Start(a)]
    /\ restarts = 0
    /\ crossed = {}
    /\ uncounted = FALSE
    /\ overwritten = FALSE

Goto(a, at) == actor' = [actor EXCEPT ![a].at = at]

\* A step is done with: the engine goes on to the event's next action.
AfterClosing(a) == IF a = Engine THEN "next" ELSE "idle"

\* releaseLocked: the context of a run that ended is let go of once the event's
\* window has closed.
Released(x) ==
    IF x.terminal /\ ~x.open THEN [x EXCEPT !.held = FALSE, !.cancelled = TRUE] ELSE x

\* The context of an action is over.
Dead(i) == rx.cancelled /\ i \notin free

----------------------------------------------------------------------------
(* Execute, called for one action after the other. *)

\* getOrCreateRun.  Once the window has closed, the event's further actions
\* belong to another run.
GetOrCreateRun ==
    /\ actor[Engine].at = "next"
    /\ actor[Engine].step < Actions
    /\ \/ /\ run.status = "none"
          /\ run' = [run EXCEPT !.status = "running"]
          /\ rx' = [held |-> TRUE, open |-> TRUE, terminal |-> FALSE, cancelled |-> FALSE]
       \/ /\ rx.open
          /\ UNCHANGED <<run, rx>>
    /\ actor' = [actor EXCEPT ![Engine].at = "insert", ![Engine].step = @ + 1]
    /\ UNCHANGED <<status, registered, goroutines, history>>

\* CreateStep, its INSERT.
InsertStep ==
    /\ actor[Engine].at = "insert"
    /\ status' = [status EXCEPT ![actor[Engine].step] = "running"]
    /\ Goto(Engine, "grow")
    /\ UNCHANGED <<run, registered, goroutines, rx, history>>

\* Mistake: the new step is counted here and where it is inserted.
GrowRunTwice ==
    /\ actor[Engine].at = "grow"
    /\ run' = [run EXCEPT !.steps = @ + 2,
                          !.status = IF @ = "cancelled" THEN @ ELSE "running"]
    /\ Goto(Engine, "dispatch")
    /\ UNCHANGED <<status, registered, goroutines, rx, history>>

\* CreateStep, its UPDATE: a run that settled reopens, a cancelled one does not.
GrowRun ==
    /\ actor[Engine].at = "grow"
    /\ run' = [run EXCEPT !.steps = @ + 1,
                          !.status = IF @ = "cancelled" THEN @ ELSE "running"]
    /\ Goto(Engine, "dispatch")
    /\ UNCHANGED <<status, registered, goroutines, rx, history>>

\* The action goes on by itself, under the run's context if there is one still.
Fork(i) ==
    /\ work' = [work EXCEPT ![i] = "running"]
    /\ free' = IF rx.held THEN free ELSE free \cup {i}

\* Mistake: a flow does not count as an action that reports its own outcome.
DispatchClosingFlows ==
    LET i == actor[Engine].step
        ReturnsWith(outcome) ==
            actor' = [actor EXCEPT ![Engine].at = "close", ![Engine].says = outcome]
    IN  /\ actor[Engine].at = "dispatch"
        /\ \/ ReturnsWith("failed") /\ UNCHANGED <<work, free>>
           \/ kind[i] = "inline" /\ ReturnsWith("completed") /\ UNCHANGED <<work, free>>
           \/ kind[i] \in {"background", "flow"} /\ Fork(i) /\ ReturnsWith("completed")
           \/ kind[i] = "jobs" /\ Fork(i) /\ Goto(Engine, "next")
        /\ UNCHANGED <<rows, queued, pending, rx, history>>

\* The executor returns: an action that reports its own outcome leaves its step
\* open, every other step is closed now; one that was refused is closed failed.
Dispatch ==
    LET i == actor[Engine].step
        ReturnsWith(outcome) ==
            actor' = [actor EXCEPT ![Engine].at = "close", ![Engine].says = outcome]
    IN  /\ actor[Engine].at = "dispatch"
        /\ \/ ReturnsWith("failed") /\ UNCHANGED <<work, free>>
           \/ kind[i] = "inline" /\ ReturnsWith("completed") /\ UNCHANGED <<work, free>>
           \/ kind[i] = "background" /\ Fork(i) /\ ReturnsWith("completed")
           \/ kind[i] \in {"flow", "jobs"} /\ Fork(i) /\ Goto(Engine, "next")
        /\ UNCHANGED <<rows, queued, pending, rx, history>>

----------------------------------------------------------------------------
(* What actions do after Execute has returned. *)

BackgroundEnds(i) ==
    /\ kind[i] = "background" /\ work[i] = "running"
    /\ work' = [work EXCEPT ![i] = "over"]
    /\ UNCHANGED <<rows, queued, pending, free, rx, actor, history>>

\* executeRunFlow: the flow ends, and CompleteStep looks whether the step has
\* already reported.
FlowEnds(i) ==
    /\ kind[i] = "flow" /\ work[i] = "running"
    /\ work' = [work EXCEPT ![i] = "over"]
    /\ \/ status[i] \in StepTerminal /\ UNCHANGED actor
       \/ /\ status[i] \notin StepTerminal
          /\ \E outcome \in {"completed", "failed"} :
                actor' = [actor EXCEPT ![i].at = "close", ![i].says = outcome]
    /\ UNCHANGED <<rows, queued, pending, free, rx, history>>

\* ExecContext looks at the context when a statement starts: what is under way
\* then may take effect although the context ends meanwhile.
Issue(i, from, to) ==
    /\ work[i] = from /\ ~Dead(i)
    /\ work' = [work EXCEPT ![i] = to]
    /\ UNCHANGED <<rows, queued, pending, free, rx, actor, history>>

\* triggerAutoTranslate and triggerAutoExtract create jobs.
IssueJobs(i) == kind[i] = "jobs" /\ Issue(i, "running", "creating")

CreateJobs(i) ==
    /\ work[i] = "creating"
    /\ work' = [work EXCEPT ![i] = "created"]
    /\ queued' = queued \cup {i}
    /\ UNCHANGED <<rows, pending, free, rx, actor, history>>

\* RegisterStepJobs, which the step's jobs are in the queue before.
IssueRegistration(i) == Issue(i, "created", "registering")

\* The jobs are on the step's row, and TrackStep follows: between the two the
\* step is merely not polled.  A caller whose context ended meanwhile may be told
\* that the statement failed, and leaves the step untracked.
RegisterJobs(i) ==
    /\ work[i] = "registering"
    /\ registered' = registered \cup {i}
    /\ \/ pending' = pending \cup {i}
       \/ Dead(i) /\ UNCHANGED pending
    /\ work' = [work EXCEPT ![i] = "over"]
    /\ UNCHANGED <<run, status, queued, free, rx, actor, history>>

\* An action at work on the jobs of its step.
Spawning(i) == kind[i] = "jobs" /\ work[i] \in Underway

\* There was nothing to translate, the workspace may not, a statement failed, or
\* the context is over: no job is created, or jobs are and the step is left
\* untracked.
GiveUp(i) ==
    /\ Spawning(i)
    /\ work' = [work EXCEPT ![i] = "over"]
    /\ UNCHANGED <<rows, queued, pending, free, rx, actor, history>>

\* The jobs of a step end, in whatever way.
JobsEnd(i) ==
    /\ i \in queued
    /\ queued' = queued \ {i}
    /\ UNCHANGED <<rows, pending, work, free, rx, actor, history>>

\* checkPending and the first half of completeStep: the step's jobs have ended,
\* or half an hour has passed; a step that has already reported is left alone.
Poll(i) ==
    /\ actor[Tracker].at = "idle" /\ i \in pending
    /\ pending' = pending \ {i}
    /\ \/ status[i] \in StepTerminal /\ UNCHANGED actor
       \/ /\ status[i] \notin StepTerminal
          /\ \E outcome \in {"completed", "failed"} :
                /\ outcome = "completed" => i \notin queued
                /\ actor' = [actor EXCEPT ![Tracker] =
                                [@ EXCEPT !.at = "close", !.step = i, !.says = outcome]]
    /\ UNCHANGED <<rows, queued, work, free, rx, history>>

----------------------------------------------------------------------------
(* Closing a step, in Execute, CompleteStep and completeStep alike. *)

\* UpdateStepStatus, which does not look at what it overwrites.
CloseStep(a) ==
    /\ actor[a].at = "close"
    /\ status' = [status EXCEPT ![actor[a].step] = actor[a].says]
    /\ Goto(a, "count")
    /\ UNCHANGED <<run, registered, goroutines, rx, history>>

\* Mistake: the tracker counts the step and does not look whether it was the last.
CountStepOnly(a) ==
    /\ actor[a].at = "count"
    /\ run' = [run EXCEPT !.done = @ + 1]
    /\ Goto(a, IF a \in Canceller THEN "skip" ELSE IF a = Tracker THEN "idle" ELSE "settle")
    /\ UNCHANGED <<status, registered, goroutines, rx, history>>

\* IncrementDoneCount.
CountStep(a) ==
    /\ actor[a].at = "count"
    /\ run' = [run EXCEPT !.done = @ + 1]
    /\ Goto(a, IF a \in Canceller THEN "skip" ELSE "settle")
    /\ UNCHANGED <<status, registered, goroutines, rx, history>>

\* Mistake: off by one.
ReadRunStrictly(a) ==
    /\ actor[a].at = "settle"
    /\ Goto(a, IF run.status = "cancelled" \/ run.steps = 0 \/ run.done <= run.steps
               THEN AfterClosing(a) ELSE "list")
    /\ UNCHANGED <<rows, goroutines, rx, history>>

\* settleAutomationRun, its GetRun: a run that was cancelled, or has an open
\* step, is left alone.
ReadRun(a) ==
    /\ actor[a].at = "settle"
    /\ Goto(a, IF run.status = "cancelled" \/ run.steps = 0 \/ run.done < run.steps
               THEN AfterClosing(a) ELSE "list")
    /\ UNCHANGED <<rows, goroutines, rx, history>>

\* ListSteps: the run is partial when a step failed.
ListSteps(a) ==
    /\ actor[a].at = "list"
    /\ actor' = [actor EXCEPT
        ![a].at = "write",
        ![a].says = IF \E i \in Step : status[i] = "failed" THEN "partial" ELSE "completed"]
    /\ UNCHANGED <<rows, goroutines, rx, history>>

\* UpdateRunStatus, which does not look at what it overwrites either.  The
\* tracker is done then; the manager has its context to see to.
WriteRun(a) ==
    /\ actor[a].at = "write"
    /\ run' = [run EXCEPT !.status = actor[a].says]
    /\ Goto(a, IF a = Tracker THEN "idle" ELSE "mark")
    /\ overwritten' = (overwritten \/ run.status = "cancelled")
    /\ UNCHANGED <<status, registered, goroutines, rx, kind, restarts, crossed, uncounted>>

\* settle, under the manager's lock.
MarkTerminal(a) ==
    /\ actor[a].at = "mark"
    /\ rx' = IF rx.held THEN Released([rx EXCEPT !.terminal = TRUE]) ELSE rx
    /\ Goto(a, AfterClosing(a))
    /\ UNCHANGED <<rows, goroutines, history>>

\* The timer of the event's window, five seconds after the run was created.
WindowCloses ==
    /\ rx.open
    /\ rx' = Released([rx EXCEPT !.open = FALSE])
    /\ UNCHANGED <<rows, goroutines, actor, history>>

----------------------------------------------------------------------------
(* CancelRun. *)

\* A run that has finished is not cancelled.
AskToCancel(c) ==
    /\ actor[c].at = "idle" /\ run.status # "none"
    /\ Goto(c, IF run.status \in RunTerminal THEN "refused" ELSE "stop")
    /\ UNCHANGED <<rows, goroutines, rx, history>>

\* Mistake: the run is marked as ended and its context goes on.
MarkRun(c) ==
    /\ actor[c].at = "stop"
    /\ rx' = IF rx.held THEN Released([rx EXCEPT !.terminal = TRUE]) ELSE rx
    /\ Goto(c, "look")
    /\ UNCHANGED <<rows, goroutines, history>>

\* stopRun, under the manager's lock.
StopRun(c) ==
    /\ actor[c].at = "stop"
    /\ rx' = IF rx.held
             THEN Released([rx EXCEPT !.terminal = TRUE, !.cancelled = TRUE]) ELSE rx
    /\ Goto(c, "look")
    /\ UNCHANGED <<rows, goroutines, history>>

\* ListSteps: the open steps, with their jobs.
ListOpen(c) ==
    LET open == {i \in Step : status[i] = "running"}
    IN  /\ actor[c].at = "look"
        /\ actor' = [actor EXCEPT ![c] =
                        [@ EXCEPT !.at = "skip", !.todo = open, !.jobs = open \cap registered]]
        /\ crossed' = crossed \cup {i \in Step : work[i] = "registering"}
        /\ UNCHANGED <<rows, goroutines, rx, kind, restarts, uncounted, overwritten>>

\* The next open step of the list: its jobs are cancelled and the step is closed.
SkipStep(c) ==
    /\ actor[c].at = "skip"
    /\ \E i \in actor[c].todo :
        /\ \A j \in actor[c].todo : i <= j
        /\ queued' = IF i \in actor[c].jobs THEN queued \ {i} ELSE queued
        /\ status' = [status EXCEPT ![i] = "skipped"]
        /\ actor' = [actor EXCEPT ![c].at = "count", ![c].todo = @ \ {i}]
    /\ UNCHANGED <<run, registered, work, free, pending, rx, history>>

CloseRun(c) ==
    /\ actor[c].at = "skip" /\ actor[c].todo = {}
    /\ run' = [run EXCEPT !.status = "cancelled"]
    /\ Goto(c, "done")
    /\ UNCHANGED <<status, registered, goroutines, rx, history>>

\* The request is over before the cancellation is: its context is the request's,
\* so every write that is left fails, and failures but the last are not reported.
RequestEnds(c) ==
    /\ actor[c].at \in {"look", "skip", "count"}
    /\ uncounted' = (uncounted \/ actor[c].at = "count")
    /\ Goto(c, "stopped")
    /\ UNCHANGED <<rows, goroutines, rx, kind, restarts, crossed, overwritten>>

----------------------------------------------------------------------------

\* The server goes down.  The rows and the jobs stay, and what was on its way to
\* the database may still arrive; nothing takes up the rest.
Restart ==
    /\ restarts < MaxRestarts
    /\ restarts' = restarts + 1
    /\ uncounted' = (uncounted \/ \E a \in Actor : actor[a].at = "count")
    /\ work' = [i \in Step |-> IF work[i] = "none" THEN "none" ELSE "over"]
    /\ pending' = {}
    /\ \E arrived \in SUBSET {i \in Step : work[i] = "creating"} : queued' = queued \cup arrived
    /\ \E arrived \in SUBSET {i \in Step : work[i] = "registering"} :
            registered' = registered \cup arrived
    /\ rx' = [held |-> FALSE, open |-> FALSE, terminal |-> FALSE, cancelled |-> TRUE]
    /\ actor' = [a \in Actor |->
        IF a \notin Canceller THEN [Start(a) EXCEPT !.step = actor[a].step]
        ELSE IF actor[a].at \in {"stop", "look", "skip", "count"}
             THEN [actor[a] EXCEPT !.at = "stopped"] ELSE actor[a]]
    /\ UNCHANGED <<run, status, free, kind, crossed, overwritten>>

Execute == GetOrCreateRun \/ InsertStep \/ GrowRun \/ Dispatch

Action(i) ==
    \/ BackgroundEnds(i) \/ FlowEnds(i)
    \/ IssueJobs(i) \/ CreateJobs(i) \/ IssueRegistration(i) \/ RegisterJobs(i)
    \/ (Dead(i) /\ GiveUp(i))

Settle(a) == CloseStep(a) \/ CountStep(a) \/ ReadRun(a) \/ ListSteps(a) \/ WriteRun(a) \/ MarkTerminal(a)

Cancel(c) == StopRun(c) \/ ListOpen(c) \/ SkipStep(c) \/ CloseRun(c)

Next ==
    \/ Execute
    \/ \E i \in Step : Action(i) \/ GiveUp(i) \/ JobsEnd(i) \/ Poll(i)
    \/ \E a \in Actor : Settle(a)
    \/ \E c \in Canceller : AskToCancel(c) \/ Cancel(c) \/ RequestEnds(c)
    \/ WindowCloses
    \/ Restart

Spec == Init /\ [][Next]_vars

\* What was started goes on: goroutines run, flows and jobs end (they have
\* timeouts), the tracker polls.  Nobody need cancel.
Fairness ==
    /\ WF_vars(Execute)
    /\ \A i \in Step : WF_vars(Action(i)) /\ WF_vars(JobsEnd(i)) /\ WF_vars(Poll(i))
    /\ \A a \in Actor : WF_vars(Settle(a))
    /\ \A c \in Canceller : WF_vars(Cancel(c))

FairSpec == Spec /\ Fairness

----------------------------------------------------------------------------

TypeOK ==
    /\ kind \in [Step -> Kind]
    /\ run \in [status : {"none", "running"} \cup RunTerminal,
                steps : 0..Actions, done : Nat]
    /\ status \in [Step -> {"none", "running"} \cup StepTerminal]
    /\ registered \in SUBSET Step
    /\ queued \in SUBSET Step
    /\ pending \in SUBSET Step
    /\ free \in SUBSET Step
    /\ work \in [Step -> {"none", "over"} \cup Underway]
    /\ rx \in [held : BOOLEAN, open : BOOLEAN, terminal : BOOLEAN, cancelled : BOOLEAN]
    /\ actor \in [Actor -> ActorState]
    /\ restarts \in 0..MaxRestarts
    /\ crossed \in SUBSET Step
    /\ uncounted \in BOOLEAN
    /\ overwritten \in BOOLEAN

Reported == {i \in Step : status[i] \in StepTerminal}

Counting == {a \in Actor : actor[a].at = "count"}

\* A cancellation got past the look at the run's status.
Asked == \E c \in Canceller : actor[c].at \notin {"idle", "refused"}

Undisturbed == ~Asked /\ restarts = 0

\* Every step that reported is counted towards the run, or about to be, so that
\* the last report finds the run whole; and it is counted once, except where a
\* cancellation and a report close one step at the same time (both look at the
\* step before either writes).
CountIsReports ==
    /\ uncounted \/ Cardinality(Reported) <= run.done + Cardinality(Counting)
    /\ Undisturbed => Cardinality(Reported) = run.done + Cardinality(Counting)

\* Nobody is about to write to the run.
Quiet == \A a \in Actor : actor[a].at \in {"idle", "next", "done", "refused", "stopped"}

\* What was started was also finished, or never written over.
NothingCutShort ==
    /\ restarts = 0 /\ ~overwritten
    /\ \A c \in Canceller : actor[c].at # "stopped"

\* A run whose steps have all reported does not stay open, whichever report came
\* last and whatever the engine added meanwhile.
ReportedIsSettled ==
    NothingCutShort /\ Quiet /\ run.steps > 0 /\ (\A i \in Step : status[i] # "running")
        => run.status \in RunTerminal

\* Once a cancellation is through, none of the run's jobs is left in the queue
\* ("cancelling a run reaches the queue rather than leaving those jobs to run to
\* completion", SetJobCanceller), except those of four kinds of step: one whose
\* jobs were created but are not registered, one whose registration was on its way
\* to the database when the cancellation listed the open steps, one the tracker
\* gave up on after half an hour, and one dispatched when the run had no context
\* any more.
CancelReachesJobs ==
    (\E c \in Canceller : actor[c].at = "done") =>
        \A i \in queued :
            i \notin registered \/ i \in crossed \/ status[i] = "failed" \/ i \in free

\* An action "stops for one reason only, which is that the run was cancelled"
\* (doExecuteAction).
StoppedOnlyByCancel ==
    \A i \in Step : work[i] \in Underway /\ Dead(i) => Asked

\* A step that nothing will report: its jobs were not registered, or the server
\* went down.
Forgotten(i) ==
    /\ status[i] = "running" /\ i \notin pending
    /\ work[i] \notin Underway
    /\ \A a \in Actor : actor[a].at \in {"dispatch", "close"} => actor[a].step # i

\* Every run ends and stays ended, unless a step of it is forgotten, or the server
\* or a cancellation stopped half-way, or a cancelled run was settled after all.
RunSettles ==
    <>[](\/ run.status \in RunTerminal
         \/ \E i \in Step : Forgotten(i)
         \/ ~NothingCutShort)
============================================================================
