------------------------ MODULE AutomationRun_proofs ------------------------
(* Proofs about AutomationRun, for any number of actions and requests to cancel. *)
EXTENDS AutomationRun, FiniteSetTheorems, TLAPS

USE DEF Underway

----------------------------------------------------------------------------
(* The inductive invariant. *)

Closing == {"close", "count", "settle", "list", "write"}

\* Where each actor can stand, and what it has in hand there.
Shapes ==
    /\ actor[Engine].at \in {"next", "insert", "grow", "dispatch", "mark"} \cup Closing
    /\ actor[Engine].at # "next" => actor[Engine].step \in Step
    /\ actor[Tracker].at \in {"idle"} \cup Closing
    /\ actor[Tracker].at = "close" => actor[Tracker].step \in registered
    /\ \A i \in Step :
        /\ actor[i].step = i
        /\ actor[i].at \in {"idle", "mark"} \cup Closing
        /\ actor[i].at # "idle" => kind[i] = "flow" /\ work[i] = "over"
    /\ \A c \in Canceller :
        /\ actor[c].at \in {"idle", "stop", "look", "skip", "count", "done", "refused", "stopped"}
        /\ actor[c].at = "done" => actor[c].todo = {}
        /\ \A i \in actor[c].todo : status[i] # "none"
    /\ \A a \in Actor :
        /\ actor[a].at = "close" => actor[a].says \in {"completed", "failed"}
        /\ actor[a].at = "write" => actor[a].says \in {"completed", "partial"}

\* The steps before the engine's are created and counted, those after it are not.
StepsMatch ==
    LET e == actor[Engine]
    IN  /\ run.status = "none" => e.at = "next" /\ e.step = 0 /\ ~rx.open
        /\ run.steps <= e.step
        /\ e.at \in {"insert", "grow"} => run.steps < e.step
        /\ restarts = 0 =>
            run.steps = IF e.at \in {"insert", "grow"} THEN e.step - 1 ELSE e.step
        /\ \A i \in Step :
            /\ i > e.step \/ (e.at = "insert" /\ i = e.step) => status[i] = "none"
            /\ restarts = 0 /\ status[i] = "none" =>
                i > e.step \/ (e.at = "insert" /\ i = e.step)
            /\ i > e.step \/ (e.at \in {"insert", "grow", "dispatch"} /\ i = e.step) =>
                work[i] = "none"

\* From the moment a cancellation has stopped the run, its context is over.
Stopping ==
    /\ run.status # "none" => rx.held \/ rx.cancelled
    /\ \A a \in Actor : actor[a].at \notin {"idle", "next"} => run.status # "none"
    /\ \A c \in Canceller :
        /\ actor[c].at \in {"look", "skip", "count", "done"} => rx.cancelled

\* Jobs are registered once, by the action that created them.
JobsMatch ==
    /\ \A i \in registered : work[i] = "over" /\ kind[i] = "jobs"
    /\ \A i \in pending : i \in registered
    /\ \A i \in Step : work[i] \in Underway \ {"running"} => kind[i] = "jobs"

\* Who may still close step i: Execute, the action's goroutine while it runs (2)
\* or reports (4), or the tracker, which polls the step (3) or closes it (5).
Holds(i, who) ==
    \/ who = 1 /\ actor[Engine].at \in {"grow", "dispatch", "close"} /\ actor[Engine].step = i
    \/ who = 2 /\ work[i] \in Underway /\ kind[i] \in {"flow", "jobs"}
    \/ who = 3 /\ i \in pending
    \/ who = 4 /\ actor[i].at = "close"
    \/ who = 5 /\ actor[Tracker].at = "close" /\ actor[Tracker].step = i

\* A step has one of them at a time, and while it has one only a cancellation has
\* closed it.
OneHolder ==
    /\ \A i \in Step : \A x, y \in 1..5 : Holds(i, x) /\ Holds(i, y) => x = y
    /\ \A i \in Step : \A x \in 1..5 : Holds(i, x) => status[i] \in {"running", "skipped"}
    /\ \A i \in Step : status[i] = "skipped" => Asked /\ rx.cancelled

Basics == TypeOK /\ Shapes /\ StepsMatch /\ Stopping /\ JobsMatch /\ OneHolder

----------------------------------------------------------------------------
(* Actors and their moves. *)

\* The roles are taken by different actors.
LEMMA Roles ==
    /\ Engine \in Actor /\ Tracker \in Actor /\ Engine # Tracker
    /\ Engine \notin Canceller /\ Tracker \notin Canceller
    /\ \A i \in Step : i \in Actor /\ i # Engine /\ i # Tracker /\ i \notin Canceller
    /\ \A c \in Canceller : c \in Actor /\ c # Engine /\ c # Tracker /\ c \notin Step
    /\ \A a \in Actor : a \in Step \/ a = Engine \/ a = Tracker \/ a \in Canceller
BY ActorsAssumption DEF Actor

\* Steps are numbers, the engine's place among them included.
LEMMA StepsAreNumbers ==
    /\ \A i \in Step : i \in Nat /\ i \in 1..Actions
    /\ \A i \in Step \cup {0} : i \in Nat /\ i <= Actions /\ (i > 0 => i \in Step)
    /\ \A i \in Nat : i < Actions => i + 1 \in Step
    /\ Actions \in Nat /\ 0 \notin Step
BY ActionsAssumption DEF Step

\* Where an actor starts is somewhere it can be.
LEMMA StartIsState == \A a \in Actor : Start(a) \in ActorState
<1> SUFFICES ASSUME NEW a \in Actor PROVE Start(a) \in ActorState
  OBVIOUS
<1>1. (IF a = Engine THEN "next" ELSE "idle") \in {"idle", "next"}
  OBVIOUS
<1>2. (IF a \in Step THEN a ELSE 0) \in Step \cup {0}
  OBVIOUS
<1> QED
  BY <1>1, <1>2 DEF Start, ActorState, StepTerminal

\* What Goto does to an actor and to the others.
LEMMA OneMoves ==
    ASSUME TypeOK, NEW a \in Actor, NEW at, Goto(a, at)
    PROVE  /\ actor'[a].at = at /\ actor'[a].step = actor[a].step
           /\ actor'[a].says = actor[a].says
           /\ actor'[a].todo = actor[a].todo /\ actor'[a].jobs = actor[a].jobs
           /\ \A b \in Actor : b # a => actor'[b] = actor[b]
BY DEF TypeOK, Goto, ActorState

\* A move within the places an actor can be.
LEMMA MoveIsTyped ==
    ASSUME TypeOK, NEW a \in Actor, NEW at, Goto(a, at),
           at \in {"idle", "next", "insert", "grow", "dispatch", "close", "count", "settle",
                   "list", "write", "mark", "stop", "look", "skip", "done", "refused", "stopped"}
    PROVE  actor' \in [Actor -> ActorState]
BY DEF TypeOK, Goto, ActorState

\* A record with the fields of an actor's state, whichever of them were changed.
LEMMA EditIsState ==
    ASSUME NEW x \in ActorState,
           NEW at \in {"idle", "next", "insert", "grow", "dispatch", "close", "count", "settle",
                   "list", "write", "mark", "stop", "look", "skip", "done", "refused", "stopped"}
    PROVE  /\ \A step \in Step \cup {0} : [x EXCEPT !.at = at, !.step = step] \in ActorState
           /\ \A says \in StepTerminal \cup RunTerminal :
                /\ [x EXCEPT !.at = at, !.says = says] \in ActorState
                /\ \A step \in Step \cup {0} :
                     [x EXCEPT !.at = at, !.step = step, !.says = says] \in ActorState
           /\ \A todo \in SUBSET Step :
                /\ [x EXCEPT !.at = at, !.todo = todo] \in ActorState
                /\ \A jobs \in SUBSET Step :
                     [x EXCEPT !.at = at, !.todo = todo, !.jobs = jobs] \in ActorState
<1>1. [x EXCEPT !.at = at] \in ActorState
  BY DEF ActorState
<1>2. \A y \in ActorState :
         /\ \A step \in Step \cup {0} : [y EXCEPT !.step = step] \in ActorState
         /\ \A says \in StepTerminal \cup RunTerminal : [y EXCEPT !.says = says] \in ActorState
         /\ \A todo \in SUBSET Step : [y EXCEPT !.todo = todo] \in ActorState
         /\ \A jobs \in SUBSET Step : [y EXCEPT !.jobs = jobs] \in ActorState
  BY DEF ActorState
<1> QED
  BY <1>1, <1>2

LEMMA InitInv == Init => Basics
<1> SUFFICES ASSUME Init PROVE Basics
  OBVIOUS
<1>1. TypeOK
  <2>1. actor \in [Actor -> ActorState]
    BY StartIsState DEF Init
  <2>2. run \in [status : {"none", "running"} \cup RunTerminal, steps : 0..Actions, done : Nat]
    BY StepsAreNumbers DEF Init
  <2>3. rx \in [held : BOOLEAN, open : BOOLEAN, terminal : BOOLEAN, cancelled : BOOLEAN]
    BY DEF Init
  <2>4. restarts \in 0..MaxRestarts
    BY ActionsAssumption DEF Init
  <2> QED
    BY <2>1, <2>2, <2>3, <2>4 DEF Init, TypeOK
<1>2. /\ actor[Engine].at = "next" /\ actor[Engine].step = 0
      /\ \A a \in Actor : a # Engine => actor[a].at = "idle"
      /\ \A i \in Step : actor[i].step = i
      /\ \A c \in Canceller : actor[c].todo = {}
  BY Roles DEF Init, Start
<1>3. Shapes
  BY <1>2, Roles DEF Shapes, Init, Start
<1>4. StepsMatch
  BY <1>2, StepsAreNumbers DEF StepsMatch, Init
<1>5. JobsMatch
  BY DEF JobsMatch, Init
<1>6. OneHolder
  BY <1>2, Roles DEF OneHolder, Holds, Init
<1>7. Stopping
  BY <1>2, Roles DEF Stopping, Init
<1> QED
  BY <1>1, <1>3, <1>4, <1>5, <1>6, <1>7 DEF Basics
----------------------------------------------------------------------------
(* Every step keeps the types. *)

\* releaseLocked leaves a context's entry an entry.
LEMMA ReleasedIsTyped ==
    ASSUME NEW x \in [held : BOOLEAN, open : BOOLEAN, terminal : BOOLEAN, cancelled : BOOLEAN]
    PROVE  /\ Released(x) \in [held : BOOLEAN, open : BOOLEAN, terminal : BOOLEAN, cancelled : BOOLEAN]
           /\ x.cancelled => Released(x).cancelled
           /\ x.held => Released(x).held \/ Released(x).cancelled
BY DEF Released

LEMMA TypeStep == Basics /\ [Next]_vars => TypeOK'
<1> SUFFICES ASSUME Basics, [Next]_vars PROVE TypeOK'
  OBVIOUS
<1>0. TypeOK /\ Shapes /\ StepsMatch
  BY DEF Basics
<1>a. actor[Engine].step \in Step \cup {0} /\ actor[Engine].step + 1 \in Nat
  BY <1>0, Roles, StepsAreNumbers DEF TypeOK, ActorState
<1>b. \A a \in Actor : actor[a] \in ActorState
  BY <1>0 DEF TypeOK
<1>c. \A a \in Actor : actor[a].at = "close" =>
         actor[a].step \in Step /\ actor[a].says \in {"completed", "failed"}
  BY <1>0, Roles DEF Shapes, TypeOK
<1>1. CASE GetOrCreateRun
  <2>1. actor[Engine].step + 1 \in Step
    BY <1>1, <1>a, StepsAreNumbers DEF GetOrCreateRun
  <2> DEFINE moved == [actor[Engine] EXCEPT !.at = "insert", !.step = @ + 1]
  <2>5. moved \in ActorState
    <3>1. ASSUME NEW s \in Step
          PROVE  [actor[Engine] EXCEPT !.at = "insert", !.step = s] \in ActorState
      BY <1>b, Roles, EditIsState
    <3> QED
      BY <2>1, <3>1
  <2>6. actor' = [actor EXCEPT ![Engine] = moved]
    BY <1>0, <1>1, Roles DEF GetOrCreateRun, TypeOK, ActorState
  <2>2. actor' \in [Actor -> ActorState]
    BY <1>0, <2>5, <2>6, Roles DEF TypeOK
  <2>3. run' \in [status : {"none", "running"} \cup RunTerminal, steps : 0..Actions, done : Nat]
    BY <1>0, <1>1 DEF GetOrCreateRun, TypeOK
  <2>4. rx' \in [held : BOOLEAN, open : BOOLEAN, terminal : BOOLEAN, cancelled : BOOLEAN]
    <3>1. rx \in [held : BOOLEAN, open : BOOLEAN, terminal : BOOLEAN, cancelled : BOOLEAN]
      BY <1>0 DEF TypeOK
    <3>2. rx' = rx \/ rx' = [held |-> TRUE, open |-> TRUE, terminal |-> FALSE, cancelled |-> FALSE]
      BY <1>1 DEF GetOrCreateRun
    <3>3. [held |-> TRUE, open |-> TRUE, terminal |-> FALSE, cancelled |-> FALSE]
             \in [held : BOOLEAN, open : BOOLEAN, terminal : BOOLEAN, cancelled : BOOLEAN]
      OBVIOUS
    <3> QED
      BY <3>1, <3>2, <3>3
  <2> QED
    BY <1>0, <1>1, <2>2, <2>3, <2>4 DEF GetOrCreateRun, TypeOK, goroutines, history
<1>2. CASE InsertStep
  <2>1. actor' \in [Actor -> ActorState]
    BY <1>0, <1>2, Roles, MoveIsTyped DEF InsertStep
  <2> QED
    BY <1>0, <1>2, <2>1 DEF InsertStep, TypeOK, goroutines, history
<1>3. CASE GrowRun
  <2>1. actor' \in [Actor -> ActorState]
    BY <1>0, <1>3, Roles, MoveIsTyped DEF GrowRun
  <2>2. run.steps + 1 \in 0..Actions
    BY <1>0, <1>3, <1>a, StepsAreNumbers DEF GrowRun, StepsMatch, TypeOK
  <2>3. run' \in [status : {"none", "running"} \cup RunTerminal, steps : 0..Actions, done : Nat]
    BY <1>0, <1>3, <2>2 DEF GrowRun, TypeOK
  <2> QED
    BY <1>0, <1>3, <2>1, <2>3 DEF GrowRun, TypeOK, goroutines, history
<1>4. CASE Dispatch
  <2>1. actor[Engine].step \in Step
    BY <1>0, <1>4 DEF Dispatch, Shapes
  <2>4. ASSUME NEW outcome \in {"completed", "failed"},
               actor' = [actor EXCEPT ![Engine].at = "close", ![Engine].says = outcome]
        PROVE  actor' \in [Actor -> ActorState]
    <3> DEFINE moved == [actor[Engine] EXCEPT !.at = "close", !.says = outcome]
    <3>1. moved \in ActorState
      BY <1>b, Roles, EditIsState DEF StepTerminal
    <3>2. actor' = [actor EXCEPT ![Engine] = moved]
      BY <1>0, <2>4, Roles DEF TypeOK, ActorState
    <3> QED
      BY <1>0, <3>1, <3>2, Roles DEF TypeOK
  <2>2. actor' \in [Actor -> ActorState]
    BY <1>0, <1>4, <2>4, Roles, MoveIsTyped DEF Dispatch
  <2>3. work' \in [Step -> {"none", "over"} \cup Underway] /\ free' \in SUBSET Step
    BY <1>0, <1>4, <2>1 DEF Dispatch, Fork, TypeOK
  <2> QED
    BY <1>0, <1>4, <2>2, <2>3 DEF Dispatch, TypeOK, rows, history
<1>5. ASSUME NEW i \in Step, BackgroundEnds(i) PROVE TypeOK'
  BY <1>0, <1>5 DEF BackgroundEnds, TypeOK, rows, history
<1>6. ASSUME NEW i \in Step, FlowEnds(i) PROVE TypeOK'
  <2>2. ASSUME NEW outcome \in {"completed", "failed"},
               actor' = [actor EXCEPT ![i].at = "close", ![i].says = outcome]
        PROVE  actor' \in [Actor -> ActorState]
    <3> DEFINE moved == [actor[i] EXCEPT !.at = "close", !.says = outcome]
    <3>1. moved \in ActorState
      BY <1>b, Roles, EditIsState DEF StepTerminal
    <3>2. actor' = [actor EXCEPT ![i] = moved]
      BY <1>0, <2>2, Roles DEF TypeOK, ActorState
    <3> QED
      BY <1>0, <3>1, <3>2, Roles DEF TypeOK
  <2>1. actor' \in [Actor -> ActorState]
    BY <1>0, <1>6, <2>2 DEF FlowEnds, TypeOK
  <2> QED
    BY <1>0, <1>6, <2>1 DEF FlowEnds, TypeOK, rows, history
<1>7. ASSUME NEW i \in Step, CreateJobs(i) PROVE TypeOK'
  BY <1>0, <1>7 DEF CreateJobs, TypeOK, rows, history
<1>8. ASSUME NEW i \in Step, RegisterJobs(i) PROVE TypeOK'
  BY <1>0, <1>8 DEF RegisterJobs, TypeOK, history
<1>9. ASSUME NEW i \in Step, GiveUp(i) PROVE TypeOK'
  BY <1>0, <1>9 DEF GiveUp, TypeOK, rows, history
<1>27. ASSUME NEW i \in Step, IssueJobs(i) \/ IssueRegistration(i) PROVE TypeOK'
  BY <1>0, <1>27 DEF IssueJobs, IssueRegistration, Issue, TypeOK, rows, history
<1>10. ASSUME NEW i \in Step, JobsEnd(i) PROVE TypeOK'
  BY <1>0, <1>10 DEF JobsEnd, TypeOK, rows, history
<1>11. ASSUME NEW i \in Step, Poll(i) PROVE TypeOK'
  <2>2. ASSUME NEW outcome \in {"completed", "failed"}
        PROVE  [actor[Tracker] EXCEPT !.at = "close", !.step = i, !.says = outcome] \in ActorState
    BY <1>b, Roles, EditIsState DEF StepTerminal
  <2>1. actor' \in [Actor -> ActorState]
    BY <1>0, <1>11, <2>2, Roles DEF Poll, TypeOK
  <2> QED
    BY <1>0, <1>11, <2>1 DEF Poll, TypeOK, rows, history
<1>12. ASSUME NEW a \in Actor, CloseStep(a) PROVE TypeOK'
  <2>1. actor' \in [Actor -> ActorState]
    BY <1>0, <1>12, MoveIsTyped DEF CloseStep
  <2>2. status' \in [Step -> {"none", "running"} \cup StepTerminal]
    BY <1>0, <1>12, <1>c DEF CloseStep, TypeOK, StepTerminal
  <2> QED
    BY <1>0, <1>12, <2>1, <2>2 DEF CloseStep, TypeOK, goroutines, history
<1>13. ASSUME NEW a \in Actor, CountStep(a) PROVE TypeOK'
  <2>1. actor' \in [Actor -> ActorState]
    BY <1>0, <1>13, MoveIsTyped DEF CountStep
  <2>2. run' \in [status : {"none", "running"} \cup RunTerminal, steps : 0..Actions, done : Nat]
    BY <1>0, <1>13 DEF CountStep, TypeOK
  <2> QED
    BY <1>0, <1>13, <2>1, <2>2 DEF CountStep, TypeOK, goroutines, history
<1>14. ASSUME NEW a \in Actor, ReadRun(a) PROVE TypeOK'
  <2>1. actor' \in [Actor -> ActorState]
    BY <1>0, <1>14, MoveIsTyped DEF ReadRun, AfterClosing
  <2> QED
    BY <1>0, <1>14, <2>1 DEF ReadRun, TypeOK, rows, goroutines, history
<1>15. ASSUME NEW a \in Actor, ListSteps(a) PROVE TypeOK'
  <2> DEFINE verdict == IF \E i \in Step : status[i] = "failed" THEN "partial" ELSE "completed"
             moved == [actor[a] EXCEPT !.at = "write", !.says = verdict]
  <2>2. verdict \in RunTerminal
    BY DEF RunTerminal
  <2>3. moved \in ActorState
    BY <1>b, <2>2, EditIsState
  <2>4. actor' = [actor EXCEPT ![a] = moved]
    BY <1>0, <1>15 DEF ListSteps, TypeOK, ActorState
  <2>1. actor' \in [Actor -> ActorState]
    BY <1>0, <2>3, <2>4 DEF TypeOK
  <2> QED
    BY <1>0, <1>15, <2>1 DEF ListSteps, TypeOK, rows, goroutines, history
<1>16. ASSUME NEW a \in Actor, WriteRun(a) PROVE TypeOK'
  <2>1. actor' \in [Actor -> ActorState]
    BY <1>0, <1>16, MoveIsTyped DEF WriteRun
  <2>2. actor[a].says \in RunTerminal
    BY <1>0, <1>16 DEF WriteRun, Shapes, RunTerminal
  <2>3. run' \in [status : {"none", "running"} \cup RunTerminal, steps : 0..Actions, done : Nat]
    BY <1>0, <1>16, <2>2 DEF WriteRun, TypeOK
  <2>4. overwritten' \in BOOLEAN
    BY <1>0, <1>16 DEF WriteRun, TypeOK
  <2> QED
    BY <1>0, <1>16, <2>1, <2>3, <2>4 DEF WriteRun, TypeOK, goroutines
<1>17. ASSUME NEW a \in Actor, MarkTerminal(a) PROVE TypeOK'
  <2>1. actor' \in [Actor -> ActorState]
    BY <1>0, <1>17, MoveIsTyped DEF MarkTerminal, AfterClosing
  <2>2. [rx EXCEPT !.terminal = TRUE] \in [held : BOOLEAN, open : BOOLEAN, terminal : BOOLEAN, cancelled : BOOLEAN]
    BY <1>0 DEF TypeOK
  <2>3. rx' \in [held : BOOLEAN, open : BOOLEAN, terminal : BOOLEAN, cancelled : BOOLEAN]
    BY <1>0, <1>17, <2>2, ReleasedIsTyped DEF MarkTerminal, TypeOK
  <2> QED
    BY <1>0, <1>17, <2>1, <2>3 DEF MarkTerminal, TypeOK, rows, goroutines, history
<1>18. CASE WindowCloses
  <2>2. [rx EXCEPT !.open = FALSE] \in [held : BOOLEAN, open : BOOLEAN, terminal : BOOLEAN, cancelled : BOOLEAN]
    BY <1>0 DEF TypeOK
  <2>3. rx' \in [held : BOOLEAN, open : BOOLEAN, terminal : BOOLEAN, cancelled : BOOLEAN]
    BY <1>18, <2>2, ReleasedIsTyped DEF WindowCloses
  <2> QED
    BY <1>0, <1>18, <2>3 DEF WindowCloses, TypeOK, rows, goroutines, history
<1>19. ASSUME NEW c \in Canceller, AskToCancel(c) PROVE TypeOK'
  <2>1. actor' \in [Actor -> ActorState]
    BY <1>0, <1>19, Roles, MoveIsTyped DEF AskToCancel
  <2> QED
    BY <1>0, <1>19, <2>1 DEF AskToCancel, TypeOK, rows, goroutines, history
<1>20. ASSUME NEW c \in Canceller, StopRun(c) PROVE TypeOK'
  <2>1. actor' \in [Actor -> ActorState]
    BY <1>0, <1>20, Roles, MoveIsTyped DEF StopRun
  <2>2. [rx EXCEPT !.terminal = TRUE, !.cancelled = TRUE] \in [held : BOOLEAN, open : BOOLEAN, terminal : BOOLEAN, cancelled : BOOLEAN]
    BY <1>0 DEF TypeOK
  <2>3. rx' \in [held : BOOLEAN, open : BOOLEAN, terminal : BOOLEAN, cancelled : BOOLEAN]
    BY <1>0, <1>20, <2>2, ReleasedIsTyped DEF StopRun, TypeOK
  <2> QED
    BY <1>0, <1>20, <2>1, <2>3 DEF StopRun, TypeOK, rows, goroutines, history
<1>21. ASSUME NEW c \in Canceller, ListOpen(c) PROVE TypeOK'
  <2>1. actor' \in [Actor -> ActorState]
    <3>1. ASSUME NEW t \in SUBSET Step, NEW j \in SUBSET Step
          PROVE  [actor[c] EXCEPT !.at = "skip", !.todo = t, !.jobs = j] \in ActorState
      BY <1>b, Roles, EditIsState
    <3> DEFINE open == {i \in Step : status[i] = "running"}
    <3>2. open \in SUBSET Step /\ open \cap registered \in SUBSET Step
      OBVIOUS
    <3>3. actor' = [actor EXCEPT ![c] = [@ EXCEPT !.at = "skip", !.todo = open,
                                                  !.jobs = open \cap registered]]
      BY <1>21 DEF ListOpen
    <3> QED
      BY <1>0, <3>1, <3>2, <3>3, Roles DEF TypeOK
  <2> QED
    BY <1>0, <1>21, <2>1 DEF ListOpen, TypeOK, rows, goroutines, history
<1>22. ASSUME NEW c \in Canceller, SkipStep(c) PROVE TypeOK'
  <2>4. PICK i \in actor[c].todo :
            actor' = [actor EXCEPT ![c].at = "count", ![c].todo = @ \ {i}]
    BY <1>22 DEF SkipStep
  <2> DEFINE moved == [actor[c] EXCEPT !.at = "count", !.todo = @ \ {i}]
  <2>5. moved \in ActorState
    <3>1. actor[c].todo \ {i} \in SUBSET Step
      BY <1>b, Roles DEF ActorState
    <3>2. ASSUME NEW t \in SUBSET Step
          PROVE  [actor[c] EXCEPT !.at = "count", !.todo = t] \in ActorState
      BY <1>b, Roles, EditIsState
    <3> QED
      BY <3>1, <3>2
  <2>6. actor' = [actor EXCEPT ![c] = moved]
    BY <1>0, <2>4, Roles DEF TypeOK, ActorState
  <2>1. actor' \in [Actor -> ActorState]
    BY <1>0, <2>5, <2>6, Roles DEF TypeOK
  <2>2. status' \in [Step -> {"none", "running"} \cup StepTerminal]
    BY <1>0, <1>22 DEF SkipStep, TypeOK, StepTerminal
  <2>3. queued' \in SUBSET Step
    BY <1>0, <1>22 DEF SkipStep, TypeOK
  <2> QED
    BY <1>0, <1>22, <2>1, <2>2, <2>3 DEF SkipStep, TypeOK, history
<1>23. ASSUME NEW c \in Canceller, CloseRun(c) PROVE TypeOK'
  <2>1. actor' \in [Actor -> ActorState]
    BY <1>0, <1>23, Roles, MoveIsTyped DEF CloseRun
  <2>2. run' \in [status : {"none", "running"} \cup RunTerminal, steps : 0..Actions, done : Nat]
    BY <1>0, <1>23 DEF CloseRun, TypeOK, RunTerminal
  <2> QED
    BY <1>0, <1>23, <2>1, <2>2 DEF CloseRun, TypeOK, goroutines, history
<1>24. ASSUME NEW c \in Canceller, RequestEnds(c) PROVE TypeOK'
  <2>1. actor' \in [Actor -> ActorState]
    BY <1>0, <1>24, Roles, MoveIsTyped DEF RequestEnds
  <2>2. uncounted' \in BOOLEAN
    BY <1>0, <1>24 DEF RequestEnds, TypeOK
  <2> QED
    BY <1>0, <1>24, <2>1, <2>2 DEF RequestEnds, TypeOK, rows, goroutines
<1>25. CASE Restart
  <2>1. actor' \in [Actor -> ActorState]
    <3>1. \A a \in Actor : [Start(a) EXCEPT !.step = actor[a].step] \in ActorState
      BY <1>0, StartIsState DEF TypeOK, ActorState
    <3>2. \A a \in Actor : [actor[a] EXCEPT !.at = "stopped"] \in ActorState
      BY <1>0 DEF TypeOK, ActorState
    <3> QED
      BY <1>0, <1>25, <3>1, <3>2 DEF Restart, TypeOK
  <2>2. work' \in [Step -> {"none", "over"} \cup Underway]
    BY <1>0, <1>25 DEF Restart, TypeOK
  <2>3. restarts' \in 0..MaxRestarts
    BY <1>0, <1>25, ActionsAssumption DEF Restart, TypeOK
  <2>4. uncounted' \in BOOLEAN
    BY <1>0, <1>25 DEF Restart, TypeOK
  <2>5. rx' \in [held : BOOLEAN, open : BOOLEAN, terminal : BOOLEAN, cancelled : BOOLEAN]
    BY <1>25 DEF Restart
  <2>6. queued' \in SUBSET Step /\ registered' \in SUBSET Step
    BY <1>0, <1>25 DEF Restart, TypeOK
  <2> QED
    BY <1>0, <1>25, <2>1, <2>2, <2>3, <2>4, <2>5, <2>6 DEF Restart, TypeOK
<1>26. CASE UNCHANGED vars
  BY <1>0, <1>26 DEF TypeOK, vars
<1> QED
  BY <1>1, <1>2, <1>3, <1>4, <1>5, <1>6, <1>7, <1>8, <1>9, <1>10, <1>11, <1>12, <1>13,
     <1>14, <1>15, <1>16, <1>17, <1>18, <1>19, <1>20, <1>21, <1>22, <1>23, <1>24, <1>25, <1>26, <1>27
     DEF Next, Execute, Action, Settle, Cancel
----------------------------------------------------------------------------
(* What the actions do, field by field. *)

LEMMA GetOrCreateEffect ==
    ASSUME TypeOK, GetOrCreateRun
    PROVE  /\ actor[Engine].at = "next" /\ actor[Engine].step + 1 \in Step
           /\ actor'[Engine].at = "insert" /\ actor'[Engine].step = actor[Engine].step + 1
           /\ \A b \in Actor : b # Engine => actor'[b] = actor[b]
           /\ run'.steps = run.steps /\ run'.done = run.done
           /\ \/ /\ run.status = "none" /\ run'.status = "running"
                 /\ rx'.held /\ rx'.open /\ ~rx'.cancelled
              \/ rx.open /\ UNCHANGED <<run, rx>>
           /\ UNCHANGED <<status, registered, queued, pending, work, free, kind,
                          restarts, crossed, uncounted, overwritten>>
<1>1. actor[Engine].step + 1 \in Step
  BY Roles, StepsAreNumbers DEF TypeOK, ActorState, GetOrCreateRun
<1>2. /\ actor'[Engine].at = "insert" /\ actor'[Engine].step = actor[Engine].step + 1
      /\ \A b \in Actor : b # Engine => actor'[b] = actor[b]
  BY Roles DEF TypeOK, ActorState, GetOrCreateRun
<1>3. /\ run'.steps = run.steps /\ run'.done = run.done
      /\ \/ /\ run.status = "none" /\ run'.status = "running"
            /\ rx'.held /\ rx'.open /\ ~rx'.cancelled
         \/ rx.open /\ UNCHANGED <<run, rx>>
  BY DEF TypeOK, GetOrCreateRun
<1> QED
  BY <1>1, <1>2, <1>3 DEF GetOrCreateRun, goroutines, history

LEMMA GrowEffect ==
    ASSUME TypeOK, GrowRun
    PROVE  /\ actor[Engine].at = "grow" /\ actor'[Engine].at = "dispatch"
           /\ actor'[Engine].step = actor[Engine].step
           /\ \A b \in Actor : b # Engine => actor'[b] = actor[b]
           /\ run'.steps = run.steps + 1 /\ run'.done = run.done
           /\ run'.status # "none"
           /\ run.status = "cancelled" => run'.status = "cancelled"
           /\ UNCHANGED <<status, registered, queued, pending, work, free, rx, kind,
                          restarts, crossed, uncounted, overwritten>>
BY Roles, OneMoves DEF TypeOK, GrowRun, goroutines, history

\* An outcome is known.
LEMMA OneCloses ==
    ASSUME TypeOK, NEW a \in Actor, NEW outcome,
           actor' = [actor EXCEPT ![a].at = "close", ![a].says = outcome]
    PROVE  /\ actor'[a].at = "close" /\ actor'[a].says = outcome
           /\ actor'[a].step = actor[a].step
           /\ \A b \in Actor : b # a => actor'[b] = actor[b]
BY DEF TypeOK, ActorState

LEMMA DispatchEffect ==
    ASSUME TypeOK, Shapes, Dispatch
    PROVE  /\ actor[Engine].at = "dispatch" /\ actor[Engine].step \in Step
           /\ actor'[Engine].step = actor[Engine].step
           /\ \A b \in Actor : b # Engine => actor'[b] = actor[b]
           /\ \A j \in Step : j # actor[Engine].step => work'[j] = work[j]
           /\ free \subseteq free'
           /\ \/ /\ actor'[Engine].at = "close" /\ work' = work
                 /\ \/ actor'[Engine].says = "failed"
                    \/ actor'[Engine].says = "completed" /\ kind[actor[Engine].step] = "inline"
              \/ /\ actor'[Engine].at = "close" /\ actor'[Engine].says = "completed"
                 /\ kind[actor[Engine].step] = "background"
                 /\ work'[actor[Engine].step] = "running"
              \/ /\ actor'[Engine].at = "next"
                 /\ kind[actor[Engine].step] \in {"flow", "jobs"}
                 /\ work'[actor[Engine].step] = "running"
           /\ UNCHANGED <<run, status, registered, queued, pending, rx, kind,
                          restarts, crossed, uncounted, overwritten>>
<1> DEFINE i == actor[Engine].step
           ReturnsWith(outcome) ==
             actor' = [actor EXCEPT ![Engine].at = "close", ![Engine].says = outcome]
<1>1. actor[Engine].at = "dispatch" /\ i \in Step
  BY DEF Dispatch, Shapes
<1>2. ASSUME NEW outcome, ReturnsWith(outcome)
      PROVE  /\ actor'[Engine].at = "close" /\ actor'[Engine].says = outcome
             /\ actor'[Engine].step = i
             /\ \A b \in Actor : b # Engine => actor'[b] = actor[b]
  BY <1>2, Roles, OneCloses
<1>3. Fork(i) => /\ work'[i] = "running" /\ free \subseteq free'
                 /\ \A j \in Step : j # i => work'[j] = work[j]
  BY <1>1 DEF Fork, TypeOK
<1>4. Goto(Engine, "next") =>
         /\ actor'[Engine].at = "next" /\ actor'[Engine].step = i
         /\ \A b \in Actor : b # Engine => actor'[b] = actor[b]
  BY Roles, OneMoves
<1>5. \/ ReturnsWith("failed") /\ UNCHANGED <<work, free>>
      \/ kind[i] = "inline" /\ ReturnsWith("completed") /\ UNCHANGED <<work, free>>
      \/ kind[i] = "background" /\ Fork(i) /\ ReturnsWith("completed")
      \/ kind[i] \in {"flow", "jobs"} /\ Fork(i) /\ Goto(Engine, "next")
  BY DEF Dispatch
<1>6. UNCHANGED <<run, status, registered, queued, pending, rx, kind,
                  restarts, crossed, uncounted, overwritten>>
  BY DEF Dispatch, rows, history
<1> HIDE DEF i, ReturnsWith
<1>7. CASE ReturnsWith("failed") /\ UNCHANGED <<work, free>>
  BY <1>1, <1>2, <1>6, <1>7 DEF i
<1>8. CASE kind[i] = "inline" /\ ReturnsWith("completed") /\ UNCHANGED <<work, free>>
  BY <1>1, <1>2, <1>6, <1>8 DEF i
<1>9. CASE kind[i] = "background" /\ Fork(i) /\ ReturnsWith("completed")
  BY <1>1, <1>2, <1>3, <1>6, <1>9 DEF i
<1>10. CASE kind[i] \in {"flow", "jobs"} /\ Fork(i) /\ Goto(Engine, "next")
  BY <1>1, <1>3, <1>4, <1>6, <1>10 DEF i
<1> QED
  BY <1>5, <1>7, <1>8, <1>9, <1>10

LEMMA FlowEffect ==
    ASSUME TypeOK, NEW i \in Step, FlowEnds(i)
    PROVE  /\ kind[i] = "flow" /\ work[i] = "running" /\ work'[i] = "over"
           /\ \A j \in Step : j # i => work'[j] = work[j]
           /\ \A b \in Actor : b # i => actor'[b] = actor[b]
           /\ \/ status[i] \in StepTerminal /\ actor'[i] = actor[i]
              \/ /\ status[i] \notin StepTerminal
                 /\ actor'[i].at = "close" /\ actor'[i].step = actor[i].step
                 /\ actor'[i].says \in {"completed", "failed"}
           /\ UNCHANGED <<run, status, registered, queued, pending, free, rx, kind,
                          restarts, crossed, uncounted, overwritten>>
<1>1. work'[i] = "over" /\ \A j \in Step : j # i => work'[j] = work[j]
  BY DEF FlowEnds, TypeOK
<1>2. /\ \A b \in Actor : b # i => actor'[b] = actor[b]
      /\ \/ status[i] \in StepTerminal /\ actor'[i] = actor[i]
         \/ /\ status[i] \notin StepTerminal
            /\ actor'[i].at = "close" /\ actor'[i].step = actor[i].step
            /\ actor'[i].says \in {"completed", "failed"}
  <2>1. CASE status[i] \in StepTerminal
    BY <2>1 DEF FlowEnds
  <2>2. CASE status[i] \notin StepTerminal
    <3>1. PICK outcome \in {"completed", "failed"} :
             actor' = [actor EXCEPT ![i].at = "close", ![i].says = outcome]
      BY <2>2 DEF FlowEnds
    <3>2. /\ actor'[i].at = "close" /\ actor'[i].says = outcome
          /\ actor'[i].step = actor[i].step
          /\ \A b \in Actor : b # i => actor'[b] = actor[b]
      BY <3>1, Roles, OneCloses
    <3> QED
      BY <2>2, <3>1, <3>2
  <2> QED
    BY <2>1, <2>2
<1> QED
  BY <1>1, <1>2 DEF FlowEnds, rows, history

LEMMA PollEffect ==
    ASSUME TypeOK, NEW i \in Step, Poll(i)
    PROVE  /\ actor[Tracker].at = "idle" /\ i \in pending /\ pending' = pending \ {i}
           /\ \A b \in Actor : b # Tracker => actor'[b] = actor[b]
           /\ \/ status[i] \in StepTerminal /\ actor'[Tracker] = actor[Tracker]
              \/ /\ status[i] \notin StepTerminal
                 /\ actor'[Tracker].at = "close" /\ actor'[Tracker].step = i
                 /\ actor'[Tracker].says \in {"completed", "failed"}
                 /\ actor'[Tracker].says = "completed" => i \notin queued
           /\ UNCHANGED <<run, status, registered, queued, work, free, rx, kind,
                          restarts, crossed, uncounted, overwritten>>
<1>1. CASE status[i] \in StepTerminal
  BY <1>1 DEF Poll, rows, history
<1>2. ASSUME NEW outcome \in {"completed", "failed"},
             actor' = [actor EXCEPT ![Tracker] =
                         [@ EXCEPT !.at = "close", !.step = i, !.says = outcome]]
      PROVE  /\ \A b \in Actor : b # Tracker => actor'[b] = actor[b]
             /\ actor'[Tracker].at = "close" /\ actor'[Tracker].step = i
             /\ actor'[Tracker].says = outcome
  BY <1>2, Roles DEF TypeOK, ActorState
<1>3. CASE status[i] \notin StepTerminal
  <2>1. PICK outcome \in {"completed", "failed"} :
           /\ outcome = "completed" => i \notin queued
           /\ actor' = [actor EXCEPT ![Tracker] =
                         [@ EXCEPT !.at = "close", !.step = i, !.says = outcome]]
    BY <1>3 DEF Poll
  <2>2. /\ actor[Tracker].at = "idle" /\ i \in pending /\ pending' = pending \ {i}
        /\ UNCHANGED <<run, status, registered, queued, work, free, rx, kind,
                       restarts, crossed, uncounted, overwritten>>
    BY DEF Poll, rows, history
  <2>3. /\ \A b \in Actor : b # Tracker => actor'[b] = actor[b]
        /\ actor'[Tracker].at = "close" /\ actor'[Tracker].step = i
        /\ actor'[Tracker].says = outcome
    BY <1>2, <2>1
  <2> QED
    BY <1>3, <2>1, <2>2, <2>3
<1> QED
  BY <1>1, <1>3
LEMMA CloseEffect ==
    ASSUME TypeOK, NEW a \in Actor, CloseStep(a), actor[a].step \in Step
    PROVE  /\ actor[a].at = "close" /\ actor'[a].at = "count"
           /\ actor'[a].step = actor[a].step /\ actor'[a].says = actor[a].says
           /\ \A b \in Actor : b # a => actor'[b] = actor[b]
           /\ status'[actor[a].step] = actor[a].says
           /\ \A j \in Step : j # actor[a].step => status'[j] = status[j]
           /\ UNCHANGED <<run, registered, queued, pending, work, free, rx, kind,
                          restarts, crossed, uncounted, overwritten>>
<1>1. /\ status'[actor[a].step] = actor[a].says
      /\ \A j \in Step : j # actor[a].step => status'[j] = status[j]
  BY DEF TypeOK, CloseStep
<1> QED
  BY <1>1, OneMoves DEF CloseStep, goroutines, history

LEMMA CountEffect ==
    ASSUME TypeOK, NEW a \in Actor, CountStep(a)
    PROVE  /\ actor[a].at = "count"
           /\ actor'[a].at = IF a \in Canceller THEN "skip" ELSE "settle"
           /\ actor'[a].step = actor[a].step
           /\ actor'[a].todo = actor[a].todo /\ actor'[a].jobs = actor[a].jobs
           /\ \A b \in Actor : b # a => actor'[b] = actor[b]
           /\ run'.status = run.status /\ run'.steps = run.steps /\ run'.done = run.done + 1
           /\ UNCHANGED <<status, registered, queued, pending, work, free, rx, kind,
                          restarts, crossed, uncounted, overwritten>>
BY OneMoves DEF TypeOK, CountStep, goroutines, history

LEMMA ListEffect ==
    ASSUME TypeOK, NEW a \in Actor, ListSteps(a)
    PROVE  /\ actor[a].at = "list" /\ actor'[a].at = "write"
           /\ actor'[a].says \in {"completed", "partial"}
           /\ actor'[a].step = actor[a].step
           /\ \A b \in Actor : b # a => actor'[b] = actor[b]
           /\ UNCHANGED <<run, status, registered, queued, pending, work, free, rx, kind,
                          restarts, crossed, uncounted, overwritten>>
<1>1. /\ actor[a].at = "list" /\ actor'[a].at = "write"
      /\ actor'[a].says \in {"completed", "partial"}
      /\ actor'[a].step = actor[a].step
      /\ \A b \in Actor : b # a => actor'[b] = actor[b]
  BY DEF TypeOK, ActorState, ListSteps
<1> QED
  BY <1>1 DEF ListSteps, rows, goroutines, history

LEMMA WriteEffect ==
    ASSUME TypeOK, NEW a \in Actor, WriteRun(a)
    PROVE  /\ actor[a].at = "write" /\ actor'[a].at = IF a = Tracker THEN "idle" ELSE "mark"
           /\ actor'[a].step = actor[a].step /\ actor'[a].says = actor[a].says
           /\ \A b \in Actor : b # a => actor'[b] = actor[b]
           /\ run'.status = actor[a].says /\ run'.steps = run.steps /\ run'.done = run.done
           /\ overwritten' = (overwritten \/ run.status = "cancelled")
           /\ UNCHANGED <<status, registered, queued, pending, work, free, rx, kind,
                          restarts, crossed, uncounted>>
BY OneMoves DEF TypeOK, WriteRun, goroutines

\* A context that is over stays over, and one that is let go of is over.
LEMMA ContextEffect ==
    ASSUME TypeOK,
           \/ WindowCloses
           \/ \E a \in Actor : MarkTerminal(a)
           \/ \E c \in Canceller : StopRun(c)
    PROVE  /\ rx'.open => rx.open
           /\ rx.cancelled => rx'.cancelled
           /\ rx.held \/ rx.cancelled => rx'.held \/ rx'.cancelled
           /\ UNCHANGED <<run, status, registered, queued, pending, work, free, kind,
                          restarts, crossed, uncounted, overwritten>>
<1>1. CASE WindowCloses
  BY <1>1 DEF TypeOK, WindowCloses, Released, rows, goroutines, history
<1>2. ASSUME NEW a \in Actor, MarkTerminal(a)
      PROVE  /\ rx'.open => rx.open
             /\ rx.cancelled => rx'.cancelled
             /\ rx.held \/ rx.cancelled => rx'.held \/ rx'.cancelled
             /\ UNCHANGED <<run, status, registered, queued, pending, work, free, kind,
                            restarts, crossed, uncounted, overwritten>>
  BY <1>2 DEF TypeOK, MarkTerminal, Released, rows, goroutines, history
<1>3. ASSUME NEW c \in Canceller, StopRun(c)
      PROVE  /\ rx'.open => rx.open
             /\ rx.cancelled => rx'.cancelled
             /\ rx.held \/ rx.cancelled => rx'.held \/ rx'.cancelled
             /\ UNCHANGED <<run, status, registered, queued, pending, work, free, kind,
                            restarts, crossed, uncounted, overwritten>>
  BY <1>3 DEF TypeOK, StopRun, Released, rows, goroutines, history
<1> QED
  BY <1>1, <1>2, <1>3

LEMMA MarkEffect ==
    ASSUME TypeOK, NEW a \in Actor, MarkTerminal(a)
    PROVE  /\ actor[a].at = "mark" /\ actor'[a].at = AfterClosing(a)
           /\ actor'[a].step = actor[a].step
           /\ \A b \in Actor : b # a => actor'[b] = actor[b]
BY OneMoves DEF MarkTerminal

LEMMA StopEffect ==
    ASSUME TypeOK, NEW c \in Canceller, StopRun(c)
    PROVE  /\ actor[c].at = "stop" /\ actor'[c].at = "look"
           /\ actor'[c].todo = actor[c].todo /\ actor'[c].jobs = actor[c].jobs
           /\ \A b \in Actor : b # c => actor'[b] = actor[b]
           /\ rx.held => rx'.cancelled
BY Roles, OneMoves DEF TypeOK, StopRun, Released

LEMMA LookEffect ==
    ASSUME TypeOK, NEW c \in Canceller, ListOpen(c)
    PROVE  /\ actor[c].at = "look" /\ actor'[c].at = "skip"
           /\ actor'[c].todo = {i \in Step : status[i] = "running"}
           /\ actor'[c].jobs = {i \in Step : status[i] = "running"} \cap registered
           /\ \A b \in Actor : b # c => actor'[b] = actor[b]
           /\ crossed' = crossed \cup {i \in Step : work[i] = "registering"}
           /\ UNCHANGED <<run, status, registered, queued, pending, work, free, rx, kind,
                          restarts, uncounted, overwritten>>
<1>1. /\ actor[c].at = "look" /\ actor'[c].at = "skip"
      /\ actor'[c].todo = {i \in Step : status[i] = "running"}
      /\ actor'[c].jobs = {i \in Step : status[i] = "running"} \cap registered
      /\ \A b \in Actor : b # c => actor'[b] = actor[b]
  BY Roles DEF TypeOK, ActorState, ListOpen
<1> QED
  BY <1>1 DEF ListOpen, rows, goroutines, history

LEMMA SkipEffect ==
    ASSUME TypeOK, NEW c \in Canceller, SkipStep(c)
    PROVE  \E i \in actor[c].todo :
             /\ i \in Step
             /\ queued' = IF i \in actor[c].jobs THEN queued \ {i} ELSE queued
             /\ status'[i] = "skipped"
             /\ \A j \in Step : j # i => status'[j] = status[j]
             /\ actor[c].at = "skip" /\ actor'[c].at = "count"
             /\ actor'[c].todo = actor[c].todo \ {i}
             /\ actor'[c].jobs = actor[c].jobs
             /\ \A b \in Actor : b # c => actor'[b] = actor[b]
             /\ UNCHANGED <<run, registered, pending, work, free, rx, kind,
                            restarts, crossed, uncounted, overwritten>>
<1>1. c \in Actor /\ actor[c] \in ActorState
  BY Roles DEF TypeOK
<1>2. PICK i \in actor[c].todo :
         /\ queued' = IF i \in actor[c].jobs THEN queued \ {i} ELSE queued
         /\ status' = [status EXCEPT ![i] = "skipped"]
         /\ actor' = [actor EXCEPT ![c].at = "count", ![c].todo = @ \ {i}]
  BY DEF SkipStep
<1>3. /\ actor'[c].at = "count" /\ actor'[c].todo = actor[c].todo \ {i}
      /\ actor'[c].jobs = actor[c].jobs
      /\ \A b \in Actor : b # c => actor'[b] = actor[b]
  BY <1>1, <1>2 DEF TypeOK, ActorState
<1>4. i \in Step
  BY <1>1 DEF ActorState
<1>5. status'[i] = "skipped" /\ \A j \in Step : j # i => status'[j] = status[j]
  BY <1>2, <1>4 DEF TypeOK
<1>6. /\ actor[c].at = "skip"
      /\ UNCHANGED <<run, registered, pending, work, free, rx, kind,
                     restarts, crossed, uncounted, overwritten>>
  BY DEF SkipStep, history
<1> QED
  BY <1>2, <1>3, <1>4, <1>5, <1>6

LEMMA RestartEffect ==
    ASSUME TypeOK, Restart
    PROVE  /\ actor'[Engine].at = "next" /\ actor'[Tracker].at = "idle"
           /\ \A i \in Step : actor'[i].at = "idle"
           /\ \A a \in Actor \ Canceller : actor'[a].step = actor[a].step
           /\ \A c \in Canceller :
                /\ actor'[c].todo = actor[c].todo /\ actor'[c].jobs = actor[c].jobs
                /\ actor'[c].at = IF actor[c].at \in {"stop", "look", "skip", "count"}
                                  THEN "stopped" ELSE actor[c].at
           /\ \A i \in Step : work'[i] = IF work[i] = "none" THEN "none" ELSE "over"
           /\ pending' = {} /\ rx'.cancelled /\ ~rx'.open
           /\ restarts' = restarts + 1
           /\ uncounted' = (uncounted \/ \E a \in Actor : actor[a].at = "count")
           /\ \A i \in queued' : i \in queued \/ (i \in Step /\ work[i] = "creating")
           /\ \A i \in registered' : i \in registered \/ (i \in Step /\ work[i] = "registering")
           /\ registered \subseteq registered' /\ queued \subseteq queued'
           /\ UNCHANGED <<run, status, free, kind, crossed, overwritten>>
<1>1. /\ actor'[Engine].at = "next" /\ actor'[Tracker].at = "idle"
      /\ \A i \in Step : actor'[i].at = "idle"
      /\ \A a \in Actor \ Canceller : actor'[a].step = actor[a].step
  BY Roles DEF TypeOK, ActorState, Restart, Start
<1>2. \A c \in Canceller :
        /\ actor'[c].todo = actor[c].todo /\ actor'[c].jobs = actor[c].jobs
        /\ actor'[c].at = IF actor[c].at \in {"stop", "look", "skip", "count"}
                          THEN "stopped" ELSE actor[c].at
  BY Roles DEF TypeOK, ActorState, Restart
<1>3. /\ \A i \in Step : work'[i] = IF work[i] = "none" THEN "none" ELSE "over"
      /\ pending' = {} /\ rx'.cancelled /\ ~rx'.open /\ restarts' = restarts + 1
      /\ uncounted' = (uncounted \/ \E a \in Actor : actor[a].at = "count")
      /\ UNCHANGED <<run, status, free, kind, crossed, overwritten>>
  BY DEF TypeOK, Restart, rows
<1>4. /\ \A i \in queued' : i \in queued \/ (i \in Step /\ work[i] = "creating")
      /\ \A i \in registered' : i \in registered \/ (i \in Step /\ work[i] = "registering")
      /\ registered \subseteq registered' /\ queued \subseteq queued'
  BY DEF TypeOK, Restart
<1> QED
  BY <1>1, <1>2, <1>3, <1>4

LEMMA InsertEffect ==
    ASSUME TypeOK, Shapes, InsertStep
    PROVE  /\ actor[Engine].at = "insert" /\ actor[Engine].step \in Step
           /\ actor'[Engine].at = "grow" /\ actor'[Engine].step = actor[Engine].step
           /\ \A b \in Actor : b # Engine => actor'[b] = actor[b]
           /\ status'[actor[Engine].step] = "running"
           /\ \A j \in Step : j # actor[Engine].step => status'[j] = status[j]
           /\ UNCHANGED <<run, registered, queued, pending, work, free, rx, kind,
                          restarts, crossed, uncounted, overwritten>>
<1>1. actor[Engine].at = "insert" /\ actor[Engine].step \in Step
  BY DEF InsertStep, Shapes
<1>2. /\ status'[actor[Engine].step] = "running"
      /\ \A j \in Step : j # actor[Engine].step => status'[j] = status[j]
  BY <1>1 DEF TypeOK, InsertStep
<1> QED
  BY <1>1, <1>2, Roles, OneMoves DEF InsertStep, goroutines, history

\* What the goroutine of an action does, and the end of a step's jobs.
LEMMA WorkEffect ==
    ASSUME TypeOK, NEW i \in Step,
           \/ BackgroundEnds(i) \/ IssueJobs(i) \/ CreateJobs(i)
           \/ IssueRegistration(i) \/ RegisterJobs(i) \/ GiveUp(i) \/ JobsEnd(i)
    PROVE  /\ \A j \in Step : j # i => work'[j] = work[j]
           /\ \/ work[i] = "running" /\ kind[i] = "background" /\ work'[i] = "over"
                 /\ UNCHANGED <<registered, queued, pending>>
              \/ work[i] = "running" /\ kind[i] = "jobs" /\ ~Dead(i) /\ work'[i] = "creating"
                 /\ UNCHANGED <<registered, queued, pending>>
              \/ work[i] = "creating" /\ work'[i] = "created"
                 /\ queued' = queued \cup {i} /\ UNCHANGED <<registered, pending>>
              \/ work[i] = "created" /\ ~Dead(i) /\ work'[i] = "registering"
                 /\ UNCHANGED <<registered, queued, pending>>
              \/ work[i] = "registering" /\ work'[i] = "over"
                 /\ registered' = registered \cup {i}
                 /\ pending' \in {pending \cup {i}, pending} /\ UNCHANGED queued
              \/ work[i] \in Underway /\ kind[i] = "jobs" /\ work'[i] = "over"
                 /\ UNCHANGED <<registered, queued, pending>>
              \/ queued' = queued \ {i} /\ UNCHANGED <<work, registered, pending>>
           /\ UNCHANGED <<run, status, actor, free, rx, kind, restarts, crossed, uncounted,
                          overwritten>>
<1>1. CASE BackgroundEnds(i)
  BY <1>1 DEF TypeOK, BackgroundEnds, rows, history
<1>2. CASE CreateJobs(i)
  BY <1>2 DEF TypeOK, CreateJobs, rows, history
<1>3. CASE RegisterJobs(i)
  BY <1>3 DEF TypeOK, RegisterJobs, history
<1>4. CASE GiveUp(i)
  BY <1>4 DEF TypeOK, GiveUp, Spawning, rows, history
<1>6. CASE IssueJobs(i) \/ IssueRegistration(i)
  BY <1>6 DEF TypeOK, IssueJobs, IssueRegistration, Issue, rows, history
<1>5. CASE JobsEnd(i)
  BY <1>5 DEF TypeOK, JobsEnd, rows, history
<1> QED
  BY <1>1, <1>2, <1>3, <1>4, <1>5, <1>6

LEMMA ReadEffect ==
    ASSUME TypeOK, NEW a \in Actor, ReadRun(a)
    PROVE  /\ actor[a].at = "settle"
           /\ actor'[a].at = IF run.status = "cancelled" \/ run.steps = 0 \/ run.done < run.steps
                             THEN (IF a = Engine THEN "next" ELSE "idle") ELSE "list"
           /\ actor'[a].step = actor[a].step
           /\ \A b \in Actor : b # a => actor'[b] = actor[b]
           /\ UNCHANGED <<run, status, registered, queued, pending, work, free, rx, kind,
                          restarts, crossed, uncounted, overwritten>>
BY OneMoves DEF ReadRun, AfterClosing, rows, goroutines, history

\* The ends of a request to cancel.
LEMMA RequestEffect ==
    ASSUME TypeOK, NEW c \in Canceller, AskToCancel(c) \/ CloseRun(c) \/ RequestEnds(c)
    PROVE  /\ \/ /\ actor[c].at = "idle" /\ run.status # "none"
                 /\ actor'[c].at \in {"refused", "stop"} /\ UNCHANGED <<run, uncounted>>
              \/ /\ actor[c].at = "skip" /\ actor[c].todo = {} /\ actor'[c].at = "done"
                 /\ run'.status = "cancelled" /\ run'.steps = run.steps /\ run'.done = run.done
                 /\ UNCHANGED uncounted
              \/ /\ actor[c].at \in {"look", "skip", "count"} /\ actor'[c].at = "stopped"
                 /\ uncounted' = (uncounted \/ actor[c].at = "count")
                 /\ UNCHANGED run
           /\ actor'[c].todo = actor[c].todo /\ actor'[c].jobs = actor[c].jobs
           /\ \A b \in Actor : b # c => actor'[b] = actor[b]
           /\ UNCHANGED <<status, registered, queued, pending, work, free, rx, kind,
                          restarts, crossed, overwritten>>
<1>1. CASE AskToCancel(c)
  BY <1>1, Roles, OneMoves DEF AskToCancel, rows, goroutines, history
<1>2. CASE CloseRun(c)
  <2>1. run'.status = "cancelled" /\ run'.steps = run.steps /\ run'.done = run.done
    BY <1>2 DEF CloseRun, TypeOK
  <2> QED
    BY <1>2, <2>1, Roles, OneMoves DEF CloseRun, goroutines, history
<1>3. CASE RequestEnds(c)
  BY <1>3, Roles, OneMoves DEF RequestEnds, rows, goroutines
<1> QED
  BY <1>1, <1>2, <1>3
----------------------------------------------------------------------------
(* Every step keeps the basic invariants. *)

\* Actors stay where they can stand.
LEMMA ShapesStep == Basics /\ [Next]_vars => Shapes'
<1> SUFFICES ASSUME Basics, [Next]_vars PROVE Shapes'
  OBVIOUS
<1>0. TypeOK /\ Shapes /\ StepsMatch /\ Stopping /\ JobsMatch /\ OneHolder
  BY DEF Basics
<1>c. \A a \in Actor : actor[a].at = "close" =>
         actor[a].step \in Step /\ actor[a].says \in {"completed", "failed"}
  BY <1>0, Roles DEF Shapes, TypeOK
<1>t. \A a \in Actor : CloseStep(a) => actor[a].step \in Step
  BY <1>c DEF CloseStep
<1>m. registered \subseteq Step /\ pending \subseteq Step /\ queued \subseteq Step
  BY <1>0 DEF TypeOK
<1>l. \A c \in Canceller : actor[c].todo \subseteq Step
  BY <1>0, Roles DEF TypeOK, ActorState
<1>1. CASE GetOrCreateRun
  <2>1. /\ actor'[Engine].at = "insert" /\ actor'[Engine].step \in Step
        /\ \A b \in Actor : b # Engine => actor'[b] = actor[b]
        /\ UNCHANGED <<status, registered, work, kind>>
    BY <1>0, <1>1, GetOrCreateEffect
  <2> QED
    BY <1>0, <2>1, Roles DEF Shapes, Closing
<1>2. CASE InsertStep
  BY <1>0, <1>2, <1>l, <1>m, Roles, InsertEffect DEF Shapes, Closing, StepsMatch, JobsMatch
<1>3. CASE GrowRun
  BY <1>0, <1>3, <1>l, <1>m, Roles, GrowEffect DEF Shapes, Closing, StepsMatch, JobsMatch
<1>4. CASE Dispatch
  BY <1>0, <1>4, <1>l, <1>m, Roles, DispatchEffect DEF Shapes, Closing, StepsMatch, JobsMatch
<1>5. ASSUME NEW i \in Step, BackgroundEnds(i) PROVE Shapes'
  BY <1>0, <1>5, <1>l, <1>m, Roles, WorkEffect DEF Shapes, Closing, StepsMatch, JobsMatch
<1>6. ASSUME NEW i \in Step, FlowEnds(i) PROVE Shapes'
  BY <1>0, <1>6, <1>l, <1>m, Roles, FlowEffect DEF Shapes, Closing, StepsMatch, JobsMatch
<1>7. ASSUME NEW i \in Step, CreateJobs(i) PROVE Shapes'
  BY <1>0, <1>7, <1>l, <1>m, Roles, WorkEffect DEF Shapes, Closing, StepsMatch, JobsMatch
<1>8. ASSUME NEW i \in Step, RegisterJobs(i) PROVE Shapes'
  BY <1>0, <1>8, <1>l, <1>m, Roles, WorkEffect DEF Shapes, Closing, StepsMatch, JobsMatch
<1>9. ASSUME NEW i \in Step, GiveUp(i) PROVE Shapes'
  BY <1>0, <1>9, <1>l, <1>m, Roles, WorkEffect DEF Shapes, Closing, StepsMatch, JobsMatch
<1>27. ASSUME NEW i \in Step, IssueJobs(i) \/ IssueRegistration(i) PROVE Shapes'
  BY <1>0, <1>27, <1>l, <1>m, Roles, WorkEffect DEF Shapes, Closing, StepsMatch, JobsMatch
<1>10. ASSUME NEW i \in Step, JobsEnd(i) PROVE Shapes'
  BY <1>0, <1>10, <1>l, <1>m, Roles, WorkEffect DEF Shapes, Closing, StepsMatch, JobsMatch
<1>11. ASSUME NEW i \in Step, Poll(i) PROVE Shapes'
  BY <1>0, <1>11, <1>l, <1>m, Roles, PollEffect DEF Shapes, Closing, StepsMatch, JobsMatch
<1>12. ASSUME NEW a \in Actor, CloseStep(a) PROVE Shapes'
  BY <1>0, <1>12, <1>l, <1>m, Roles, <1>c, <1>t, CloseEffect DEF Shapes, Closing, StepsMatch, JobsMatch
<1>13. ASSUME NEW a \in Actor, CountStep(a) PROVE Shapes'
  BY <1>0, <1>13, <1>l, <1>m, Roles, CountEffect DEF Shapes, Closing, StepsMatch, JobsMatch
<1>14. ASSUME NEW a \in Actor, ReadRun(a) PROVE Shapes'
  BY <1>0, <1>14, <1>l, <1>m, Roles, ReadEffect DEF Shapes, Closing, StepsMatch, JobsMatch
<1>15. ASSUME NEW a \in Actor, ListSteps(a) PROVE Shapes'
  BY <1>0, <1>15, <1>l, <1>m, Roles, ListEffect DEF Shapes, Closing, StepsMatch, JobsMatch
<1>16. ASSUME NEW a \in Actor, WriteRun(a) PROVE Shapes'
  BY <1>0, <1>16, <1>l, <1>m, Roles, WriteEffect DEF Shapes, Closing, StepsMatch, JobsMatch
<1>17. ASSUME NEW a \in Actor, MarkTerminal(a) PROVE Shapes'
  BY <1>0, <1>17, <1>l, <1>m, Roles, MarkEffect, ContextEffect DEF AfterClosing, Shapes, Closing, StepsMatch, JobsMatch
<1>18. CASE WindowCloses
  BY <1>0, <1>18, <1>l, <1>m, Roles, ContextEffect DEF WindowCloses, Shapes, Closing, StepsMatch, JobsMatch
<1>19. ASSUME NEW c \in Canceller, AskToCancel(c) PROVE Shapes'
  BY <1>0, <1>19, <1>l, <1>m, Roles, RequestEffect DEF Shapes, Closing, StepsMatch, JobsMatch
<1>20. ASSUME NEW c \in Canceller, StopRun(c) PROVE Shapes'
  BY <1>0, <1>20, <1>l, <1>m, Roles, StopEffect, ContextEffect DEF Shapes, Closing, StepsMatch, JobsMatch
<1>21. ASSUME NEW c \in Canceller, ListOpen(c) PROVE Shapes'
  BY <1>0, <1>21, <1>l, <1>m, Roles, LookEffect DEF Shapes, Closing, StepsMatch, JobsMatch
<1>22. ASSUME NEW c \in Canceller, SkipStep(c) PROVE Shapes'
  BY <1>0, <1>22, <1>l, <1>m, Roles, SkipEffect DEF Shapes, Closing, StepsMatch, JobsMatch
<1>23. ASSUME NEW c \in Canceller, CloseRun(c) PROVE Shapes'
  BY <1>0, <1>23, <1>l, <1>m, Roles, RequestEffect DEF Shapes, Closing, StepsMatch, JobsMatch
<1>24. ASSUME NEW c \in Canceller, RequestEnds(c) PROVE Shapes'
  BY <1>0, <1>24, <1>l, <1>m, Roles, RequestEffect DEF Shapes, Closing, StepsMatch, JobsMatch
<1>25. CASE Restart
  BY <1>0, <1>25, <1>l, <1>m, Roles, RestartEffect DEF Shapes, Closing, StepsMatch, JobsMatch
<1>26. CASE UNCHANGED vars
  BY <1>0, <1>26 DEF Shapes, Closing, StepsMatch, JobsMatch, vars
<1> QED
  BY <1>1, <1>2, <1>3, <1>4, <1>5, <1>6, <1>7, <1>8, <1>9, <1>10, <1>11, <1>12, <1>13,
     <1>14, <1>15, <1>16, <1>17, <1>18, <1>19, <1>20, <1>21, <1>22, <1>23, <1>24, <1>25, <1>26, <1>27
     DEF Next, Execute, Action, Settle, Cancel

\* Steps are created and counted in order.
LEMMA StepsMatchStep == Basics /\ [Next]_vars => StepsMatch'
<1> SUFFICES ASSUME Basics, [Next]_vars PROVE StepsMatch'
  OBVIOUS
<1>0. TypeOK /\ Shapes /\ StepsMatch /\ Stopping /\ JobsMatch /\ OneHolder
  BY DEF Basics
<1>c. \A a \in Actor : actor[a].at = "close" =>
         actor[a].step \in Step /\ actor[a].says \in {"completed", "failed"}
  BY <1>0, Roles DEF Shapes, TypeOK
<1>t. \A a \in Actor : CloseStep(a) => actor[a].step \in Step
  BY <1>c DEF CloseStep
<1>n. run.steps \in Nat /\ actor[Engine].step \in Nat /\ restarts \in Nat
  BY <1>0, Roles, StepsAreNumbers, ActionsAssumption DEF TypeOK, ActorState
<1>m. registered \subseteq Step /\ pending \subseteq Step /\ queued \subseteq Step
  BY <1>0 DEF TypeOK
<1>1. CASE GetOrCreateRun
  <2>1. /\ actor[Engine].at = "next"
        /\ actor'[Engine].at = "insert" /\ actor'[Engine].step = actor[Engine].step + 1
        /\ run'.steps = run.steps
        /\ UNCHANGED <<status, work, restarts>>
    BY <1>0, <1>1, GetOrCreateEffect
  <2>2. run'.status # "none"
    BY <1>0, <1>1, GetOrCreateEffect DEF StepsMatch
  <2> QED
    BY <1>0, <1>n, <2>1, <2>2, StepsAreNumbers DEF StepsMatch
<1>2. CASE InsertStep
  BY <1>0, <1>2, <1>n, <1>m, Roles, StepsAreNumbers, InsertEffect DEF StepsMatch, Shapes, JobsMatch
<1>3. CASE GrowRun
  BY <1>0, <1>3, <1>n, <1>m, Roles, StepsAreNumbers, GrowEffect DEF StepsMatch, Shapes, JobsMatch
<1>4. CASE Dispatch
  BY <1>0, <1>4, <1>n, <1>m, Roles, StepsAreNumbers, DispatchEffect DEF StepsMatch, Shapes, JobsMatch
<1>5. ASSUME NEW i \in Step, BackgroundEnds(i) PROVE StepsMatch'
  BY <1>0, <1>5, <1>n, <1>m, Roles, StepsAreNumbers, WorkEffect DEF StepsMatch, Shapes, JobsMatch
<1>6. ASSUME NEW i \in Step, FlowEnds(i) PROVE StepsMatch'
  BY <1>0, <1>6, <1>n, <1>m, Roles, StepsAreNumbers, FlowEffect DEF StepsMatch, Shapes, JobsMatch
<1>7. ASSUME NEW i \in Step, CreateJobs(i) PROVE StepsMatch'
  BY <1>0, <1>7, <1>n, <1>m, Roles, StepsAreNumbers, WorkEffect DEF StepsMatch, Shapes, JobsMatch
<1>8. ASSUME NEW i \in Step, RegisterJobs(i) PROVE StepsMatch'
  BY <1>0, <1>8, <1>n, <1>m, Roles, StepsAreNumbers, WorkEffect DEF StepsMatch, Shapes, JobsMatch
<1>9. ASSUME NEW i \in Step, GiveUp(i) PROVE StepsMatch'
  BY <1>0, <1>9, <1>n, <1>m, Roles, StepsAreNumbers, WorkEffect DEF StepsMatch, Shapes, JobsMatch
<1>27. ASSUME NEW i \in Step, IssueJobs(i) \/ IssueRegistration(i) PROVE StepsMatch'
  BY <1>0, <1>27, <1>n, <1>m, Roles, StepsAreNumbers, WorkEffect DEF StepsMatch, Shapes, JobsMatch
<1>10. ASSUME NEW i \in Step, JobsEnd(i) PROVE StepsMatch'
  BY <1>0, <1>10, <1>n, <1>m, Roles, StepsAreNumbers, WorkEffect DEF StepsMatch, Shapes, JobsMatch
<1>11. ASSUME NEW i \in Step, Poll(i) PROVE StepsMatch'
  BY <1>0, <1>11, <1>n, <1>m, Roles, StepsAreNumbers, PollEffect DEF StepsMatch, Shapes, JobsMatch
<1>12. ASSUME NEW a \in Actor, CloseStep(a) PROVE StepsMatch'
  BY <1>0, <1>12, <1>n, <1>m, Roles, StepsAreNumbers, <1>c, <1>t, CloseEffect DEF StepsMatch, Shapes, JobsMatch
<1>13. ASSUME NEW a \in Actor, CountStep(a) PROVE StepsMatch'
  BY <1>0, <1>13, <1>n, <1>m, Roles, StepsAreNumbers, CountEffect DEF StepsMatch, Shapes, JobsMatch
<1>14. ASSUME NEW a \in Actor, ReadRun(a) PROVE StepsMatch'
  BY <1>0, <1>14, <1>n, <1>m, Roles, StepsAreNumbers, ReadEffect DEF StepsMatch, Shapes, JobsMatch
<1>15. ASSUME NEW a \in Actor, ListSteps(a) PROVE StepsMatch'
  BY <1>0, <1>15, <1>n, <1>m, Roles, StepsAreNumbers, ListEffect DEF StepsMatch, Shapes, JobsMatch
<1>16. ASSUME NEW a \in Actor, WriteRun(a) PROVE StepsMatch'
  BY <1>0, <1>16, <1>n, <1>m, Roles, StepsAreNumbers, WriteEffect DEF StepsMatch, Shapes, JobsMatch
<1>17. ASSUME NEW a \in Actor, MarkTerminal(a) PROVE StepsMatch'
  BY <1>0, <1>17, <1>n, <1>m, Roles, StepsAreNumbers, MarkEffect, ContextEffect DEF AfterClosing, StepsMatch, Shapes, JobsMatch
<1>18. CASE WindowCloses
  BY <1>0, <1>18, <1>n, <1>m, Roles, StepsAreNumbers, ContextEffect DEF WindowCloses, StepsMatch, Shapes, JobsMatch
<1>19. ASSUME NEW c \in Canceller, AskToCancel(c) PROVE StepsMatch'
  BY <1>0, <1>19, <1>n, <1>m, Roles, StepsAreNumbers, RequestEffect DEF StepsMatch, Shapes, JobsMatch
<1>20. ASSUME NEW c \in Canceller, StopRun(c) PROVE StepsMatch'
  BY <1>0, <1>20, <1>n, <1>m, Roles, StepsAreNumbers, StopEffect, ContextEffect DEF StepsMatch, Shapes, JobsMatch
<1>21. ASSUME NEW c \in Canceller, ListOpen(c) PROVE StepsMatch'
  BY <1>0, <1>21, <1>n, <1>m, Roles, StepsAreNumbers, LookEffect DEF StepsMatch, Shapes, JobsMatch
<1>22. ASSUME NEW c \in Canceller, SkipStep(c) PROVE StepsMatch'
  BY <1>0, <1>22, <1>n, <1>m, Roles, StepsAreNumbers, SkipEffect DEF StepsMatch, Shapes, JobsMatch
<1>23. ASSUME NEW c \in Canceller, CloseRun(c) PROVE StepsMatch'
  BY <1>0, <1>23, <1>n, <1>m, Roles, StepsAreNumbers, RequestEffect DEF StepsMatch, Shapes, JobsMatch
<1>24. ASSUME NEW c \in Canceller, RequestEnds(c) PROVE StepsMatch'
  BY <1>0, <1>24, <1>n, <1>m, Roles, StepsAreNumbers, RequestEffect DEF StepsMatch, Shapes, JobsMatch
<1>25. CASE Restart
  BY <1>0, <1>25, <1>n, <1>m, Roles, StepsAreNumbers, RestartEffect DEF StepsMatch, Shapes, JobsMatch
<1>26. CASE UNCHANGED vars
  BY <1>0, <1>26 DEF StepsMatch, Shapes, JobsMatch, vars
<1> QED
  BY <1>1, <1>2, <1>3, <1>4, <1>5, <1>6, <1>7, <1>8, <1>9, <1>10, <1>11, <1>12, <1>13,
     <1>14, <1>15, <1>16, <1>17, <1>18, <1>19, <1>20, <1>21, <1>22, <1>23, <1>24, <1>25, <1>26, <1>27
     DEF Next, Execute, Action, Settle, Cancel

\* A cancellation stops the run before it goes on.
LEMMA StoppingStep == Basics /\ [Next]_vars => Stopping'
<1> SUFFICES ASSUME Basics, [Next]_vars PROVE Stopping'
  OBVIOUS
<1>0. TypeOK /\ Shapes /\ StepsMatch /\ Stopping /\ JobsMatch /\ OneHolder
  BY DEF Basics
<1>c. \A a \in Actor : actor[a].at = "close" =>
         actor[a].step \in Step /\ actor[a].says \in {"completed", "failed"}
  BY <1>0, Roles DEF Shapes, TypeOK
<1>t. \A a \in Actor : CloseStep(a) => actor[a].step \in Step
  BY <1>c DEF CloseStep
<1>m. registered \subseteq Step /\ pending \subseteq Step /\ queued \subseteq Step
  BY <1>0 DEF TypeOK
<1>n. actor[Engine].step \in Nat
  BY <1>0, Roles, StepsAreNumbers DEF TypeOK, ActorState
<1>1. CASE GetOrCreateRun
  BY <1>0, <1>1, <1>m, <1>n, Roles, StepsAreNumbers, GetOrCreateEffect DEF Stopping, Shapes, StepsMatch, JobsMatch
<1>2. CASE InsertStep
  BY <1>0, <1>2, <1>m, <1>n, Roles, StepsAreNumbers, InsertEffect DEF Stopping, Shapes, StepsMatch, JobsMatch
<1>3. CASE GrowRun
  BY <1>0, <1>3, <1>m, <1>n, Roles, StepsAreNumbers, GrowEffect DEF Stopping, Shapes, StepsMatch, JobsMatch
<1>4. CASE Dispatch
  BY <1>0, <1>4, <1>m, <1>n, Roles, StepsAreNumbers, DispatchEffect DEF Stopping, Shapes, StepsMatch, JobsMatch
<1>5. ASSUME NEW i \in Step, BackgroundEnds(i) PROVE Stopping'
  BY <1>0, <1>5, <1>m, <1>n, Roles, StepsAreNumbers, WorkEffect DEF Stopping, Shapes, StepsMatch, JobsMatch
<1>6. ASSUME NEW i \in Step, FlowEnds(i) PROVE Stopping'
  BY <1>0, <1>6, <1>m, <1>n, Roles, StepsAreNumbers, FlowEffect DEF Stopping, Shapes, StepsMatch, JobsMatch
<1>7. ASSUME NEW i \in Step, CreateJobs(i) PROVE Stopping'
  BY <1>0, <1>7, <1>m, <1>n, Roles, StepsAreNumbers, WorkEffect DEF Stopping, Shapes, StepsMatch, JobsMatch
<1>8. ASSUME NEW i \in Step, RegisterJobs(i) PROVE Stopping'
  BY <1>0, <1>8, <1>m, <1>n, Roles, StepsAreNumbers, WorkEffect DEF Stopping, Shapes, StepsMatch, JobsMatch
<1>9. ASSUME NEW i \in Step, GiveUp(i) PROVE Stopping'
  BY <1>0, <1>9, <1>m, <1>n, Roles, StepsAreNumbers, WorkEffect DEF Stopping, Shapes, StepsMatch, JobsMatch
<1>27. ASSUME NEW i \in Step, IssueJobs(i) \/ IssueRegistration(i) PROVE Stopping'
  BY <1>0, <1>27, <1>m, <1>n, Roles, StepsAreNumbers, WorkEffect DEF Stopping, Shapes, StepsMatch, JobsMatch
<1>10. ASSUME NEW i \in Step, JobsEnd(i) PROVE Stopping'
  BY <1>0, <1>10, <1>m, <1>n, Roles, StepsAreNumbers, WorkEffect DEF Stopping, Shapes, StepsMatch, JobsMatch
<1>11. ASSUME NEW i \in Step, Poll(i) PROVE Stopping'
  BY <1>0, <1>11, <1>m, <1>n, Roles, StepsAreNumbers, PollEffect DEF Stopping, Shapes, StepsMatch, JobsMatch
<1>12. ASSUME NEW a \in Actor, CloseStep(a) PROVE Stopping'
  BY <1>0, <1>12, <1>m, <1>n, Roles, StepsAreNumbers, <1>c, <1>t, CloseEffect DEF Stopping, Shapes, StepsMatch, JobsMatch
<1>13. ASSUME NEW a \in Actor, CountStep(a) PROVE Stopping'
  BY <1>0, <1>13, <1>m, <1>n, Roles, StepsAreNumbers, CountEffect DEF Stopping, Shapes, StepsMatch, JobsMatch
<1>14. ASSUME NEW a \in Actor, ReadRun(a) PROVE Stopping'
  BY <1>0, <1>14, <1>m, <1>n, Roles, StepsAreNumbers, ReadEffect DEF Stopping, Shapes, StepsMatch, JobsMatch
<1>15. ASSUME NEW a \in Actor, ListSteps(a) PROVE Stopping'
  BY <1>0, <1>15, <1>m, <1>n, Roles, StepsAreNumbers, ListEffect DEF Stopping, Shapes, StepsMatch, JobsMatch
<1>16. ASSUME NEW a \in Actor, WriteRun(a) PROVE Stopping'
  BY <1>0, <1>16, <1>m, <1>n, Roles, StepsAreNumbers, WriteEffect DEF Stopping, Shapes, StepsMatch, JobsMatch
<1>17. ASSUME NEW a \in Actor, MarkTerminal(a) PROVE Stopping'
  BY <1>0, <1>17, <1>m, <1>n, Roles, StepsAreNumbers, MarkEffect, ContextEffect DEF AfterClosing, Stopping, Shapes, StepsMatch, JobsMatch
<1>18. CASE WindowCloses
  BY <1>0, <1>18, <1>m, <1>n, Roles, StepsAreNumbers, ContextEffect DEF WindowCloses, Stopping, Shapes, StepsMatch, JobsMatch
<1>19. ASSUME NEW c \in Canceller, AskToCancel(c) PROVE Stopping'
  BY <1>0, <1>19, <1>m, <1>n, Roles, StepsAreNumbers, RequestEffect DEF Stopping, Shapes, StepsMatch, JobsMatch
<1>20. ASSUME NEW c \in Canceller, StopRun(c) PROVE Stopping'
  BY <1>0, <1>20, <1>m, <1>n, Roles, StepsAreNumbers, StopEffect, ContextEffect DEF Stopping, Shapes, StepsMatch, JobsMatch
<1>21. ASSUME NEW c \in Canceller, ListOpen(c) PROVE Stopping'
  BY <1>0, <1>21, <1>m, <1>n, Roles, StepsAreNumbers, LookEffect DEF Stopping, Shapes, StepsMatch, JobsMatch
<1>22. ASSUME NEW c \in Canceller, SkipStep(c) PROVE Stopping'
  BY <1>0, <1>22, <1>m, <1>n, Roles, StepsAreNumbers, SkipEffect DEF Stopping, Shapes, StepsMatch, JobsMatch
<1>23. ASSUME NEW c \in Canceller, CloseRun(c) PROVE Stopping'
  BY <1>0, <1>23, <1>m, <1>n, Roles, StepsAreNumbers, RequestEffect DEF Stopping, Shapes, StepsMatch, JobsMatch
<1>24. ASSUME NEW c \in Canceller, RequestEnds(c) PROVE Stopping'
  BY <1>0, <1>24, <1>m, <1>n, Roles, StepsAreNumbers, RequestEffect DEF Stopping, Shapes, StepsMatch, JobsMatch
<1>25. CASE Restart
  BY <1>0, <1>25, <1>m, <1>n, Roles, StepsAreNumbers, RestartEffect DEF Stopping, Shapes, StepsMatch, JobsMatch
<1>26. CASE UNCHANGED vars
  BY <1>0, <1>26 DEF Stopping, Shapes, StepsMatch, JobsMatch, vars
<1> QED
  BY <1>1, <1>2, <1>3, <1>4, <1>5, <1>6, <1>7, <1>8, <1>9, <1>10, <1>11, <1>12, <1>13,
     <1>14, <1>15, <1>16, <1>17, <1>18, <1>19, <1>20, <1>21, <1>22, <1>23, <1>24, <1>25, <1>26, <1>27
     DEF Next, Execute, Action, Settle, Cancel

\* Jobs are registered once.
LEMMA JobsMatchStep == Basics /\ [Next]_vars => JobsMatch'
<1> SUFFICES ASSUME Basics, [Next]_vars PROVE JobsMatch'
  OBVIOUS
<1>0. TypeOK /\ Shapes /\ StepsMatch /\ Stopping /\ JobsMatch /\ OneHolder
  BY DEF Basics
<1>c. \A a \in Actor : actor[a].at = "close" =>
         actor[a].step \in Step /\ actor[a].says \in {"completed", "failed"}
  BY <1>0, Roles DEF Shapes, TypeOK
<1>t. \A a \in Actor : CloseStep(a) => actor[a].step \in Step
  BY <1>c DEF CloseStep
<1>m. registered \subseteq Step /\ pending \subseteq Step /\ queued \subseteq Step
  BY <1>0 DEF TypeOK
<1>1. CASE GetOrCreateRun
  BY <1>0, <1>1, <1>m, Roles, StepsAreNumbers, GetOrCreateEffect DEF JobsMatch, StepsMatch, Shapes
<1>2. CASE InsertStep
  BY <1>0, <1>2, <1>m, Roles, StepsAreNumbers, InsertEffect DEF JobsMatch, StepsMatch, Shapes
<1>3. CASE GrowRun
  BY <1>0, <1>3, <1>m, Roles, StepsAreNumbers, GrowEffect DEF JobsMatch, StepsMatch, Shapes
<1>4. CASE Dispatch
  BY <1>0, <1>4, <1>m, Roles, StepsAreNumbers, DispatchEffect DEF JobsMatch, StepsMatch, Shapes
<1>5. ASSUME NEW i \in Step, BackgroundEnds(i) PROVE JobsMatch'
  BY <1>0, <1>5, <1>m, Roles, StepsAreNumbers, WorkEffect DEF JobsMatch, StepsMatch, Shapes
<1>6. ASSUME NEW i \in Step, FlowEnds(i) PROVE JobsMatch'
  BY <1>0, <1>6, <1>m, Roles, StepsAreNumbers, FlowEffect DEF JobsMatch, StepsMatch, Shapes
<1>7. ASSUME NEW i \in Step, CreateJobs(i) PROVE JobsMatch'
  BY <1>0, <1>7, <1>m, Roles, StepsAreNumbers, WorkEffect DEF JobsMatch, StepsMatch, Shapes
<1>8. ASSUME NEW i \in Step, RegisterJobs(i) PROVE JobsMatch'
  BY <1>0, <1>8, <1>m, Roles, StepsAreNumbers, WorkEffect DEF JobsMatch, StepsMatch, Shapes
<1>9. ASSUME NEW i \in Step, GiveUp(i) PROVE JobsMatch'
  BY <1>0, <1>9, <1>m, Roles, StepsAreNumbers, WorkEffect DEF JobsMatch, StepsMatch, Shapes
<1>27. ASSUME NEW i \in Step, IssueJobs(i) \/ IssueRegistration(i) PROVE JobsMatch'
  BY <1>0, <1>27, <1>m, Roles, StepsAreNumbers, WorkEffect DEF JobsMatch, StepsMatch, Shapes
<1>10. ASSUME NEW i \in Step, JobsEnd(i) PROVE JobsMatch'
  BY <1>0, <1>10, <1>m, Roles, StepsAreNumbers, WorkEffect DEF JobsMatch, StepsMatch, Shapes
<1>11. ASSUME NEW i \in Step, Poll(i) PROVE JobsMatch'
  BY <1>0, <1>11, <1>m, Roles, StepsAreNumbers, PollEffect DEF JobsMatch, StepsMatch, Shapes
<1>12. ASSUME NEW a \in Actor, CloseStep(a) PROVE JobsMatch'
  BY <1>0, <1>12, <1>m, Roles, StepsAreNumbers, <1>c, <1>t, CloseEffect DEF JobsMatch, StepsMatch, Shapes
<1>13. ASSUME NEW a \in Actor, CountStep(a) PROVE JobsMatch'
  BY <1>0, <1>13, <1>m, Roles, StepsAreNumbers, CountEffect DEF JobsMatch, StepsMatch, Shapes
<1>14. ASSUME NEW a \in Actor, ReadRun(a) PROVE JobsMatch'
  BY <1>0, <1>14, <1>m, Roles, StepsAreNumbers, ReadEffect DEF JobsMatch, StepsMatch, Shapes
<1>15. ASSUME NEW a \in Actor, ListSteps(a) PROVE JobsMatch'
  BY <1>0, <1>15, <1>m, Roles, StepsAreNumbers, ListEffect DEF JobsMatch, StepsMatch, Shapes
<1>16. ASSUME NEW a \in Actor, WriteRun(a) PROVE JobsMatch'
  BY <1>0, <1>16, <1>m, Roles, StepsAreNumbers, WriteEffect DEF JobsMatch, StepsMatch, Shapes
<1>17. ASSUME NEW a \in Actor, MarkTerminal(a) PROVE JobsMatch'
  BY <1>0, <1>17, <1>m, Roles, StepsAreNumbers, MarkEffect, ContextEffect DEF AfterClosing, JobsMatch, StepsMatch, Shapes
<1>18. CASE WindowCloses
  BY <1>0, <1>18, <1>m, Roles, StepsAreNumbers, ContextEffect DEF WindowCloses, JobsMatch, StepsMatch, Shapes
<1>19. ASSUME NEW c \in Canceller, AskToCancel(c) PROVE JobsMatch'
  BY <1>0, <1>19, <1>m, Roles, StepsAreNumbers, RequestEffect DEF JobsMatch, StepsMatch, Shapes
<1>20. ASSUME NEW c \in Canceller, StopRun(c) PROVE JobsMatch'
  BY <1>0, <1>20, <1>m, Roles, StepsAreNumbers, StopEffect, ContextEffect DEF JobsMatch, StepsMatch, Shapes
<1>21. ASSUME NEW c \in Canceller, ListOpen(c) PROVE JobsMatch'
  BY <1>0, <1>21, <1>m, Roles, StepsAreNumbers, LookEffect DEF JobsMatch, StepsMatch, Shapes
<1>22. ASSUME NEW c \in Canceller, SkipStep(c) PROVE JobsMatch'
  BY <1>0, <1>22, <1>m, Roles, StepsAreNumbers, SkipEffect DEF JobsMatch, StepsMatch, Shapes
<1>23. ASSUME NEW c \in Canceller, CloseRun(c) PROVE JobsMatch'
  BY <1>0, <1>23, <1>m, Roles, StepsAreNumbers, RequestEffect DEF JobsMatch, StepsMatch, Shapes
<1>24. ASSUME NEW c \in Canceller, RequestEnds(c) PROVE JobsMatch'
  BY <1>0, <1>24, <1>m, Roles, StepsAreNumbers, RequestEffect DEF JobsMatch, StepsMatch, Shapes
<1>25. CASE Restart
  BY <1>0, <1>25, <1>m, Roles, StepsAreNumbers, RestartEffect DEF JobsMatch, StepsMatch, Shapes
<1>26. CASE UNCHANGED vars
  BY <1>0, <1>26 DEF JobsMatch, StepsMatch, Shapes, vars
<1> QED
  BY <1>1, <1>2, <1>3, <1>4, <1>5, <1>6, <1>7, <1>8, <1>9, <1>10, <1>11, <1>12, <1>13,
     <1>14, <1>15, <1>16, <1>17, <1>18, <1>19, <1>20, <1>21, <1>22, <1>23, <1>24, <1>25, <1>26, <1>27
     DEF Next, Execute, Action, Settle, Cancel

\* A step has one holder at a time.
LEMMA OneHolderStep == Basics /\ [Next]_vars => OneHolder'
<1> SUFFICES ASSUME Basics, [Next]_vars PROVE OneHolder'
  OBVIOUS
<1>0. TypeOK /\ Shapes /\ StepsMatch /\ Stopping /\ JobsMatch /\ OneHolder
  BY DEF Basics
<1>c. \A a \in Actor : actor[a].at = "close" =>
         actor[a].step \in Step /\ actor[a].says \in {"completed", "failed"}
  BY <1>0, Roles DEF Shapes, TypeOK
<1>t. \A a \in Actor : CloseStep(a) => actor[a].step \in Step
  BY <1>c DEF CloseStep
<1>m. registered \subseteq Step /\ pending \subseteq Step /\ queued \subseteq Step
  BY <1>0 DEF TypeOK
<1>1. CASE GetOrCreateRun
  BY <1>0, <1>1, <1>m, Roles, StepsAreNumbers, GetOrCreateEffect DEF OneHolder, Holds, Shapes, JobsMatch, StepsMatch, Stopping, Closing, StepTerminal, Asked
<1>2. CASE InsertStep
  BY <1>0, <1>2, <1>m, Roles, StepsAreNumbers, InsertEffect DEF OneHolder, Holds, Shapes, JobsMatch, StepsMatch, Stopping, Closing, StepTerminal, Asked
<1>3. CASE GrowRun
  BY <1>0, <1>3, <1>m, Roles, StepsAreNumbers, GrowEffect DEF OneHolder, Holds, Shapes, JobsMatch, StepsMatch, Stopping, Closing, StepTerminal, Asked
<1>4. CASE Dispatch
  BY <1>0, <1>4, <1>m, Roles, StepsAreNumbers, DispatchEffect DEF OneHolder, Holds, Shapes, JobsMatch, StepsMatch, Stopping, Closing, StepTerminal, Asked
<1>5. ASSUME NEW i \in Step, BackgroundEnds(i) PROVE OneHolder'
  BY <1>0, <1>5, <1>m, Roles, StepsAreNumbers, WorkEffect DEF OneHolder, Holds, Shapes, JobsMatch, StepsMatch, Stopping, Closing, StepTerminal, Asked
<1>6. ASSUME NEW i \in Step, FlowEnds(i) PROVE OneHolder'
  BY <1>0, <1>6, <1>m, Roles, StepsAreNumbers, FlowEffect DEF OneHolder, Holds, Shapes, JobsMatch, StepsMatch, Stopping, Closing, StepTerminal, Asked
<1>7. ASSUME NEW i \in Step, CreateJobs(i) PROVE OneHolder'
  BY <1>0, <1>7, <1>m, Roles, StepsAreNumbers, WorkEffect DEF OneHolder, Holds, Shapes, JobsMatch, StepsMatch, Stopping, Closing, StepTerminal, Asked
<1>8. ASSUME NEW i \in Step, RegisterJobs(i) PROVE OneHolder'
  BY <1>0, <1>8, <1>m, Roles, StepsAreNumbers, WorkEffect DEF OneHolder, Holds, Shapes, JobsMatch, StepsMatch, Stopping, Closing, StepTerminal, Asked
<1>9. ASSUME NEW i \in Step, GiveUp(i) PROVE OneHolder'
  BY <1>0, <1>9, <1>m, Roles, StepsAreNumbers, WorkEffect DEF OneHolder, Holds, Shapes, JobsMatch, StepsMatch, Stopping, Closing, StepTerminal, Asked
<1>27. ASSUME NEW i \in Step, IssueJobs(i) \/ IssueRegistration(i) PROVE OneHolder'
  BY <1>0, <1>27, <1>m, Roles, StepsAreNumbers, WorkEffect DEF OneHolder, Holds, Shapes, JobsMatch, StepsMatch, Stopping, Closing, StepTerminal, Asked
<1>10. ASSUME NEW i \in Step, JobsEnd(i) PROVE OneHolder'
  BY <1>0, <1>10, <1>m, Roles, StepsAreNumbers, WorkEffect DEF OneHolder, Holds, Shapes, JobsMatch, StepsMatch, Stopping, Closing, StepTerminal, Asked
<1>11. ASSUME NEW i \in Step, Poll(i) PROVE OneHolder'
  BY <1>0, <1>11, <1>m, Roles, StepsAreNumbers, PollEffect DEF OneHolder, Holds, Shapes, JobsMatch, StepsMatch, Stopping, Closing, StepTerminal, Asked
<1>12. ASSUME NEW a \in Actor, CloseStep(a) PROVE OneHolder'
  BY <1>0, <1>12, <1>m, Roles, StepsAreNumbers, <1>c, <1>t, CloseEffect DEF OneHolder, Holds, Shapes, JobsMatch, StepsMatch, Stopping, Closing, StepTerminal, Asked
<1>13. ASSUME NEW a \in Actor, CountStep(a) PROVE OneHolder'
  BY <1>0, <1>13, <1>m, Roles, StepsAreNumbers, CountEffect DEF OneHolder, Holds, Shapes, JobsMatch, StepsMatch, Stopping, Closing, StepTerminal, Asked
<1>14. ASSUME NEW a \in Actor, ReadRun(a) PROVE OneHolder'
  BY <1>0, <1>14, <1>m, Roles, StepsAreNumbers, ReadEffect DEF OneHolder, Holds, Shapes, JobsMatch, StepsMatch, Stopping, Closing, StepTerminal, Asked
<1>15. ASSUME NEW a \in Actor, ListSteps(a) PROVE OneHolder'
  BY <1>0, <1>15, <1>m, Roles, StepsAreNumbers, ListEffect DEF OneHolder, Holds, Shapes, JobsMatch, StepsMatch, Stopping, Closing, StepTerminal, Asked
<1>16. ASSUME NEW a \in Actor, WriteRun(a) PROVE OneHolder'
  BY <1>0, <1>16, <1>m, Roles, StepsAreNumbers, WriteEffect DEF OneHolder, Holds, Shapes, JobsMatch, StepsMatch, Stopping, Closing, StepTerminal, Asked
<1>17. ASSUME NEW a \in Actor, MarkTerminal(a) PROVE OneHolder'
  BY <1>0, <1>17, <1>m, Roles, StepsAreNumbers, MarkEffect, ContextEffect DEF AfterClosing, OneHolder, Holds, Shapes, JobsMatch, StepsMatch, Stopping, Closing, StepTerminal, Asked
<1>18. CASE WindowCloses
  BY <1>0, <1>18, <1>m, Roles, StepsAreNumbers, ContextEffect DEF WindowCloses, OneHolder, Holds, Shapes, JobsMatch, StepsMatch, Stopping, Closing, StepTerminal, Asked
<1>19. ASSUME NEW c \in Canceller, AskToCancel(c) PROVE OneHolder'
  BY <1>0, <1>19, <1>m, Roles, StepsAreNumbers, RequestEffect DEF OneHolder, Holds, Shapes, JobsMatch, StepsMatch, Stopping, Closing, StepTerminal, Asked
<1>20. ASSUME NEW c \in Canceller, StopRun(c) PROVE OneHolder'
  BY <1>0, <1>20, <1>m, Roles, StepsAreNumbers, StopEffect, ContextEffect DEF OneHolder, Holds, Shapes, JobsMatch, StepsMatch, Stopping, Closing, StepTerminal, Asked
<1>21. ASSUME NEW c \in Canceller, ListOpen(c) PROVE OneHolder'
  BY <1>0, <1>21, <1>m, Roles, StepsAreNumbers, LookEffect DEF OneHolder, Holds, Shapes, JobsMatch, StepsMatch, Stopping, Closing, StepTerminal, Asked
<1>22. ASSUME NEW c \in Canceller, SkipStep(c) PROVE OneHolder'
  BY <1>0, <1>22, <1>m, Roles, StepsAreNumbers, SkipEffect DEF OneHolder, Holds, Shapes, JobsMatch, StepsMatch, Stopping, Closing, StepTerminal, Asked
<1>23. ASSUME NEW c \in Canceller, CloseRun(c) PROVE OneHolder'
  BY <1>0, <1>23, <1>m, Roles, StepsAreNumbers, RequestEffect DEF OneHolder, Holds, Shapes, JobsMatch, StepsMatch, Stopping, Closing, StepTerminal, Asked
<1>24. ASSUME NEW c \in Canceller, RequestEnds(c) PROVE OneHolder'
  BY <1>0, <1>24, <1>m, Roles, StepsAreNumbers, RequestEffect DEF OneHolder, Holds, Shapes, JobsMatch, StepsMatch, Stopping, Closing, StepTerminal, Asked
<1>25. CASE Restart
  BY <1>0, <1>25, <1>m, Roles, StepsAreNumbers, RestartEffect DEF OneHolder, Holds, Shapes, JobsMatch, StepsMatch, Stopping, Closing, StepTerminal, Asked
<1>26. CASE UNCHANGED vars
  BY <1>0, <1>26 DEF OneHolder, Holds, Shapes, JobsMatch, StepsMatch, Stopping, Closing, StepTerminal, Asked, vars
<1> QED
  BY <1>1, <1>2, <1>3, <1>4, <1>5, <1>6, <1>7, <1>8, <1>9, <1>10, <1>11, <1>12, <1>13,
     <1>14, <1>15, <1>16, <1>17, <1>18, <1>19, <1>20, <1>21, <1>22, <1>23, <1>24, <1>25, <1>26, <1>27
     DEF Next, Execute, Action, Settle, Cancel

\* The basic invariants hold, which is what every proof below builds on.
THEOREM BasicsHold == Spec => []Basics
<1>1. Basics /\ [Next]_vars => Basics'
  <2> SUFFICES ASSUME Basics, [Next]_vars PROVE Basics'
    OBVIOUS
  <2> QED
    BY TypeStep, ShapesStep, StepsMatchStep, StoppingStep, JobsMatchStep, OneHolderStep DEF Basics
<1> QED
  BY InitInv, <1>1, PTL DEF Spec

\* Run, steps, jobs, context and actors keep their types, for any number of actions,
\* of requests to cancel and of restarts.
THEOREM TypeCorrect == Spec => []TypeOK
<1>1. Basics => TypeOK
  BY DEF Basics
<1> QED
  BY BasicsHold, <1>1, PTL

----------------------------------------------------------------------------
(* Every report is counted. *)

LEMMA FiniteSets ==
    /\ IsFiniteSet(Step) /\ IsFiniteSet(Actor)
    /\ \A S \in SUBSET Step : IsFiniteSet(S) /\ Cardinality(S) \in Nat
    /\ \A S \in SUBSET Actor : IsFiniteSet(S) /\ Cardinality(S) \in Nat
<1>1. IsFiniteSet(Step)
  BY ActionsAssumption, FS_Interval DEF Step
<1>2. IsFiniteSet({Engine, Tracker})
  <2>1. {Engine, Tracker} = {Engine} \cup {Tracker}
    OBVIOUS
  <2>2. IsFiniteSet({Engine}) /\ IsFiniteSet({Tracker})
    BY FS_Singleton
  <2> QED
    BY <2>1, <2>2, FS_AddElement
<1>3. IsFiniteSet(Actor)
  BY <1>1, <1>2, ActorsAssumption, FS_Union DEF Actor
<1> QED
  BY <1>1, <1>3, FS_Subset, FS_CardinalityType

\* Adding a new element, adding any, and removing one.
LEMMA OneMore ==
    ASSUME NEW S, IsFiniteSet(S), NEW x
    PROVE  /\ x \notin S => Cardinality(S \cup {x}) = Cardinality(S) + 1
           /\ Cardinality(S \cup {x}) <= Cardinality(S) + 1
           /\ x \in S => Cardinality(S \ {x}) = Cardinality(S) - 1
<1>1. Cardinality(S) \in Nat
  BY FS_CardinalityType
<1>2. x \notin S => Cardinality(S \cup {x}) = Cardinality(S) + 1
  BY FS_AddElement
<1>3. x \in S => S \cup {x} = S
  OBVIOUS
<1>4. x \in S => Cardinality(S \ {x}) = Cardinality(S) - 1
  BY FS_RemoveElement
<1> QED
  BY <1>1, <1>2, <1>3, <1>4

\* A cancellation that got past the look at the run's status stays one.
LEMMA RequestsGoOn == Basics /\ [Next]_vars =>
    \A c \in Canceller : actor[c].at \notin {"idle", "refused"} => actor'[c].at \notin {"idle", "refused"}
<1> DEFINE GoOn == \A c \in Canceller :
             actor[c].at \notin {"idle", "refused"} => actor'[c].at \notin {"idle", "refused"}
<1> SUFFICES ASSUME Basics, [Next]_vars PROVE GoOn
  OBVIOUS
<1>0. TypeOK /\ Shapes
  BY DEF Basics
<1>c. \A a \in Actor : actor[a].at = "close" =>
         actor[a].step \in Step /\ actor[a].says \in {"completed", "failed"}
  BY <1>0, Roles DEF Shapes, TypeOK
<1>t. \A a \in Actor : CloseStep(a) => actor[a].step \in Step
  BY <1>c DEF CloseStep
<1>1. CASE GetOrCreateRun
  BY <1>0, <1>1, Roles, GetOrCreateEffect DEF Shapes, Closing
<1>2. CASE InsertStep
  BY <1>0, <1>2, Roles, InsertEffect DEF Shapes, Closing
<1>3. CASE GrowRun
  BY <1>0, <1>3, Roles, GrowEffect DEF Shapes, Closing
<1>4. CASE Dispatch
  BY <1>0, <1>4, Roles, DispatchEffect DEF Shapes, Closing
<1>5. ASSUME NEW i \in Step, BackgroundEnds(i) PROVE GoOn
  BY <1>0, <1>5, Roles, WorkEffect DEF Shapes, Closing
<1>6. ASSUME NEW i \in Step, FlowEnds(i) PROVE GoOn
  BY <1>0, <1>6, Roles, FlowEffect DEF Shapes, Closing
<1>7. ASSUME NEW i \in Step, CreateJobs(i) PROVE GoOn
  BY <1>0, <1>7, Roles, WorkEffect DEF Shapes, Closing
<1>8. ASSUME NEW i \in Step, RegisterJobs(i) PROVE GoOn
  BY <1>0, <1>8, Roles, WorkEffect DEF Shapes, Closing
<1>9. ASSUME NEW i \in Step, GiveUp(i) PROVE GoOn
  BY <1>0, <1>9, Roles, WorkEffect DEF Shapes, Closing
<1>27. ASSUME NEW i \in Step, IssueJobs(i) \/ IssueRegistration(i) PROVE GoOn
  BY <1>0, <1>27, Roles, WorkEffect DEF Shapes, Closing
<1>10. ASSUME NEW i \in Step, JobsEnd(i) PROVE GoOn
  BY <1>0, <1>10, Roles, WorkEffect DEF Shapes, Closing
<1>11. ASSUME NEW i \in Step, Poll(i) PROVE GoOn
  BY <1>0, <1>11, Roles, PollEffect DEF Shapes, Closing
<1>12. ASSUME NEW a \in Actor, CloseStep(a) PROVE GoOn
  BY <1>0, <1>12, Roles, <1>c, <1>t, CloseEffect DEF Shapes, Closing
<1>13. ASSUME NEW a \in Actor, CountStep(a) PROVE GoOn
  BY <1>0, <1>13, Roles, CountEffect DEF Shapes, Closing
<1>14. ASSUME NEW a \in Actor, ReadRun(a) PROVE GoOn
  BY <1>0, <1>14, Roles, ReadEffect DEF Shapes, Closing
<1>15. ASSUME NEW a \in Actor, ListSteps(a) PROVE GoOn
  BY <1>0, <1>15, Roles, ListEffect DEF Shapes, Closing
<1>16. ASSUME NEW a \in Actor, WriteRun(a) PROVE GoOn
  BY <1>0, <1>16, Roles, WriteEffect DEF Shapes, Closing
<1>17. ASSUME NEW a \in Actor, MarkTerminal(a) PROVE GoOn
  BY <1>0, <1>17, Roles, MarkEffect, ContextEffect DEF AfterClosing, Shapes, Closing
<1>18. CASE WindowCloses
  BY <1>0, <1>18, Roles, ContextEffect DEF WindowCloses, Shapes, Closing
<1>19. ASSUME NEW c \in Canceller, AskToCancel(c) PROVE GoOn
  BY <1>0, <1>19, Roles, RequestEffect DEF Shapes, Closing
<1>20. ASSUME NEW c \in Canceller, StopRun(c) PROVE GoOn
  BY <1>0, <1>20, Roles, StopEffect, ContextEffect DEF Shapes, Closing
<1>21. ASSUME NEW c \in Canceller, ListOpen(c) PROVE GoOn
  BY <1>0, <1>21, Roles, LookEffect DEF Shapes, Closing
<1>22. ASSUME NEW c \in Canceller, SkipStep(c) PROVE GoOn
  BY <1>0, <1>22, Roles, SkipEffect DEF Shapes, Closing
<1>23. ASSUME NEW c \in Canceller, CloseRun(c) PROVE GoOn
  BY <1>0, <1>23, Roles, RequestEffect DEF Shapes, Closing
<1>24. ASSUME NEW c \in Canceller, RequestEnds(c) PROVE GoOn
  BY <1>0, <1>24, Roles, RequestEffect DEF Shapes, Closing
<1>25. CASE Restart
  BY <1>0, <1>25, Roles, RestartEffect DEF Shapes, Closing
<1>26. CASE UNCHANGED vars
  BY <1>0, <1>26 DEF Shapes, Closing, vars
<1> QED
  BY <1>1, <1>2, <1>3, <1>4, <1>5, <1>6, <1>7, <1>8, <1>9, <1>10, <1>11, <1>12, <1>13,
     <1>14, <1>15, <1>16, <1>17, <1>18, <1>19, <1>20, <1>21, <1>22, <1>23, <1>24, <1>25, <1>26, <1>27
     DEF Next, Execute, Action, Settle, Cancel

LEMMA AskedStays == Basics /\ [Next]_vars => (Asked => Asked') /\ (Undisturbed' => Undisturbed)
<1> SUFFICES ASSUME Basics, [Next]_vars PROVE (Asked => Asked') /\ (Undisturbed' => Undisturbed)
  OBVIOUS
<1>1. Asked => Asked'
  BY RequestsGoOn DEF Asked
<1>2. restarts' = 0 => restarts = 0
  <2>1. restarts \in Nat
    BY ActionsAssumption DEF Basics, TypeOK
  <2>2. restarts' = restarts \/ restarts' = restarts + 1
    BY DEF Next, vars, Execute, Action, Settle, Cancel, GetOrCreateRun, InsertStep, GrowRun, Dispatch,
       BackgroundEnds, FlowEnds, IssueJobs, CreateJobs, IssueRegistration, RegisterJobs, Issue, GiveUp, JobsEnd, Poll, CloseStep, CountStep,
       ReadRun, ListSteps, WriteRun, MarkTerminal, WindowCloses, AskToCancel, StopRun, ListOpen,
       SkipStep, CloseRun, RequestEnds, Restart, history
  <2> QED
    BY <2>1, <2>2
<1> QED
  BY <1>1, <1>2 DEF Undisturbed
\* A step that reports nothing and counts nothing.
LEMMA NothingReported ==
    ASSUME CountIsReports, Undisturbed' => Undisturbed,
           \A k \in Step : k \in Reported' <=> k \in Reported,
           \A b \in Actor : actor'[b].at = "count" <=> actor[b].at = "count",
           run'.done = run.done, uncounted' = uncounted
    PROVE  CountIsReports'
<1>1. Reported' = Reported
  BY DEF Reported
<1>2. Counting' = Counting
  BY DEF Counting
<1> QED
  BY <1>1, <1>2 DEF CountIsReports

\* An actor closes step i and is about to count it.
LEMMA OneReported ==
    ASSUME CountIsReports, Undisturbed' => Undisturbed, TypeOK,
           NEW i \in Step, i \in Reported', Undisturbed => i \notin Reported,
           \A j \in Step : j # i => (j \in Reported' <=> j \in Reported),
           NEW a \in Actor, actor[a].at # "count", actor'[a].at = "count",
           \A b \in Actor : b # a => actor'[b] = actor[b],
           run'.done = run.done, uncounted' = uncounted
    PROVE  CountIsReports'
<1>1. Reported' = Reported \cup {i}
  BY DEF Reported
<1>2. Counting' = Counting \cup {a} /\ a \notin Counting
  BY DEF Counting
<1>3. IsFiniteSet(Reported) /\ IsFiniteSet(Counting)
      /\ Cardinality(Reported) \in Nat /\ Cardinality(Counting) \in Nat /\ run.done \in Nat
  BY FiniteSets DEF Reported, Counting, TypeOK
<1>4. Cardinality(Counting') = Cardinality(Counting) + 1
  BY <1>2, <1>3, OneMore
<1>5. Cardinality(Reported') <= Cardinality(Reported) + 1
  BY <1>1, <1>3, OneMore
<1>6. Undisturbed => Cardinality(Reported') = Cardinality(Reported) + 1
  BY <1>1, <1>3, OneMore
<1>7. Cardinality(Reported') \in Nat
  BY FiniteSets DEF Reported
<1> QED
  BY <1>3, <1>4, <1>5, <1>6, <1>7 DEF CountIsReports

\* Every step keeps the count.
LEMMA CountsStep == Basics /\ CountIsReports /\ [Next]_vars => CountIsReports'
<1> SUFFICES ASSUME Basics, CountIsReports, [Next]_vars PROVE CountIsReports'
  OBVIOUS
<1>0. TypeOK /\ Shapes /\ StepsMatch /\ OneHolder /\ CountIsReports
  BY DEF Basics
<1>c. \A a \in Actor : actor[a].at = "close" =>
         actor[a].step \in Step /\ actor[a].says \in {"completed", "failed"}
  BY <1>0, Roles DEF Shapes, TypeOK
<1>t. \A a \in Actor : CloseStep(a) => actor[a].step \in Step
  BY <1>c DEF CloseStep
<1>u. Undisturbed' => Undisturbed
  BY AskedStays
<1>n. actor[Engine].step \in Nat
  BY <1>0, Roles, StepsAreNumbers DEF TypeOK, ActorState
<1>1. CASE GetOrCreateRun
  <2>1. /\ \A k \in Step : k \in Reported' <=> k \in Reported
        /\ \A b \in Actor : actor'[b].at = "count" <=> actor[b].at = "count"
        /\ run'.done = run.done /\ uncounted' = uncounted
    BY <1>0, <1>1, Roles, GetOrCreateEffect DEF Reported, StepTerminal, Shapes, Closing
  <2> QED
    BY <1>0, <1>u, <2>1, NothingReported
<1>2. CASE InsertStep
  <2>1. /\ \A k \in Step : k \in Reported' <=> k \in Reported
        /\ \A b \in Actor : actor'[b].at = "count" <=> actor[b].at = "count"
        /\ run'.done = run.done /\ uncounted' = uncounted
    BY <1>0, <1>2, <1>n, Roles, InsertEffect DEF Reported, StepTerminal, StepsMatch
  <2> QED
    BY <1>0, <1>u, <2>1, NothingReported
<1>3. CASE GrowRun
  <2>1. /\ \A k \in Step : k \in Reported' <=> k \in Reported
        /\ \A b \in Actor : actor'[b].at = "count" <=> actor[b].at = "count"
        /\ run'.done = run.done /\ uncounted' = uncounted
    BY <1>0, <1>3, Roles, GrowEffect DEF Reported, StepTerminal, Shapes, Closing
  <2> QED
    BY <1>0, <1>u, <2>1, NothingReported
<1>4. CASE Dispatch
  <2>1. /\ \A k \in Step : k \in Reported' <=> k \in Reported
        /\ \A b \in Actor : actor'[b].at = "count" <=> actor[b].at = "count"
        /\ run'.done = run.done /\ uncounted' = uncounted
    BY <1>0, <1>4, Roles, DispatchEffect DEF Reported, StepTerminal, Shapes, Closing
  <2> QED
    BY <1>0, <1>u, <2>1, NothingReported
<1>5. ASSUME NEW i \in Step, BackgroundEnds(i) PROVE CountIsReports'
  <2>1. /\ \A k \in Step : k \in Reported' <=> k \in Reported
        /\ \A b \in Actor : actor'[b].at = "count" <=> actor[b].at = "count"
        /\ run'.done = run.done /\ uncounted' = uncounted
    BY <1>0, <1>5, Roles, WorkEffect DEF Reported, StepTerminal, Shapes, Closing
  <2> QED
    BY <1>0, <1>u, <2>1, NothingReported
<1>6. ASSUME NEW i \in Step, FlowEnds(i) PROVE CountIsReports'
  <2>1. /\ \A k \in Step : k \in Reported' <=> k \in Reported
        /\ \A b \in Actor : actor'[b].at = "count" <=> actor[b].at = "count"
        /\ run'.done = run.done /\ uncounted' = uncounted
    BY <1>0, <1>6, Roles, FlowEffect DEF Reported, StepTerminal, Shapes, Closing
  <2> QED
    BY <1>0, <1>u, <2>1, NothingReported
<1>7. ASSUME NEW i \in Step, CreateJobs(i) PROVE CountIsReports'
  <2>1. /\ \A k \in Step : k \in Reported' <=> k \in Reported
        /\ \A b \in Actor : actor'[b].at = "count" <=> actor[b].at = "count"
        /\ run'.done = run.done /\ uncounted' = uncounted
    BY <1>0, <1>7, Roles, WorkEffect DEF Reported, StepTerminal, Shapes, Closing
  <2> QED
    BY <1>0, <1>u, <2>1, NothingReported
<1>8. ASSUME NEW i \in Step, RegisterJobs(i) PROVE CountIsReports'
  <2>1. /\ \A k \in Step : k \in Reported' <=> k \in Reported
        /\ \A b \in Actor : actor'[b].at = "count" <=> actor[b].at = "count"
        /\ run'.done = run.done /\ uncounted' = uncounted
    BY <1>0, <1>8, Roles, WorkEffect DEF Reported, StepTerminal, Shapes, Closing
  <2> QED
    BY <1>0, <1>u, <2>1, NothingReported
<1>9. ASSUME NEW i \in Step, GiveUp(i) PROVE CountIsReports'
  <2>1. /\ \A k \in Step : k \in Reported' <=> k \in Reported
        /\ \A b \in Actor : actor'[b].at = "count" <=> actor[b].at = "count"
        /\ run'.done = run.done /\ uncounted' = uncounted
    BY <1>0, <1>9, Roles, WorkEffect DEF Reported, StepTerminal, Shapes, Closing
  <2> QED
    BY <1>0, <1>u, <2>1, NothingReported
<1>27. ASSUME NEW i \in Step, IssueJobs(i) \/ IssueRegistration(i) PROVE CountIsReports'
  <2>1. /\ \A k \in Step : k \in Reported' <=> k \in Reported
        /\ \A b \in Actor : actor'[b].at = "count" <=> actor[b].at = "count"
        /\ run'.done = run.done /\ uncounted' = uncounted
    BY <1>0, <1>27, Roles, WorkEffect DEF Reported, StepTerminal, Shapes, Closing
  <2> QED
    BY <1>0, <1>u, <2>1, NothingReported
<1>10. ASSUME NEW i \in Step, JobsEnd(i) PROVE CountIsReports'
  <2>1. /\ \A k \in Step : k \in Reported' <=> k \in Reported
        /\ \A b \in Actor : actor'[b].at = "count" <=> actor[b].at = "count"
        /\ run'.done = run.done /\ uncounted' = uncounted
    BY <1>0, <1>10, Roles, WorkEffect DEF Reported, StepTerminal, Shapes, Closing
  <2> QED
    BY <1>0, <1>u, <2>1, NothingReported
<1>11. ASSUME NEW i \in Step, Poll(i) PROVE CountIsReports'
  <2>1. /\ \A k \in Step : k \in Reported' <=> k \in Reported
        /\ \A b \in Actor : actor'[b].at = "count" <=> actor[b].at = "count"
        /\ run'.done = run.done /\ uncounted' = uncounted
    BY <1>0, <1>11, Roles, PollEffect DEF Reported, StepTerminal, Shapes, Closing
  <2> QED
    BY <1>0, <1>u, <2>1, NothingReported
<1>12. ASSUME NEW a \in Actor, CloseStep(a) PROVE CountIsReports'
  <2> DEFINE s == actor[a].step
  <2>1. s \in Step /\ s \in Reported'
    BY <1>0, <1>12, <1>c, <1>t, <1>t, CloseEffect DEF Reported, StepTerminal
  <2>2. Undisturbed => s \notin Reported
    <3>1. a \notin Canceller
      BY <1>0, <1>12, <1>t, CloseEffect DEF Shapes
    <3>2. \E x \in 1..5 : Holds(s, x)
      <4>1. CASE a = Engine
        BY <1>0, <1>12, <1>t, <4>1, CloseEffect DEF Holds
      <4>2. CASE a = Tracker
        BY <1>0, <1>12, <1>t, <4>2, CloseEffect DEF Holds
      <4>3. CASE a \in Step
        BY <1>0, <1>12, <1>t, <4>3, CloseEffect DEF Holds, Shapes
      <4> QED
        BY <3>1, <4>1, <4>2, <4>3, Roles
    <3> QED
      BY <1>0, <2>1, <3>2 DEF OneHolder, Undisturbed, Reported, StepTerminal
  <2>3. \A j \in Step : j # s => (j \in Reported' <=> j \in Reported)
    BY <1>0, <1>12, <1>t, CloseEffect DEF Reported
  <2>4. /\ actor[a].at # "count" /\ actor'[a].at = "count"
        /\ \A b \in Actor : b # a => actor'[b] = actor[b]
        /\ run'.done = run.done /\ uncounted' = uncounted
    BY <1>0, <1>12, <1>t, CloseEffect
  <2> QED
    BY <1>0, <1>u, <2>1, <2>2, <2>3, <2>4, OneReported
<1>13. ASSUME NEW a \in Actor, CountStep(a) PROVE CountIsReports'
  <2>1. Reported' = Reported /\ uncounted' = uncounted /\ run'.done = run.done + 1
    BY <1>0, <1>13, CountEffect DEF Reported
  <2>2. Counting' = Counting \ {a} /\ a \in Counting
    BY <1>0, <1>13, CountEffect DEF Counting
  <2>3. /\ IsFiniteSet(Counting) /\ Cardinality(Counting) \in Nat
        /\ Cardinality(Reported) \in Nat /\ run.done \in Nat
    BY <1>0, FiniteSets DEF Counting, Reported, TypeOK
  <2>4. Cardinality(Counting') = Cardinality(Counting) - 1
    BY <2>2, <2>3, OneMore
  <2> QED
    BY <1>0, <1>u, <2>1, <2>3, <2>4 DEF CountIsReports
<1>14. ASSUME NEW a \in Actor, ReadRun(a) PROVE CountIsReports'
  <2>1. /\ \A k \in Step : k \in Reported' <=> k \in Reported
        /\ \A b \in Actor : actor'[b].at = "count" <=> actor[b].at = "count"
        /\ run'.done = run.done /\ uncounted' = uncounted
    BY <1>0, <1>14, Roles, ReadEffect DEF Reported, StepTerminal, Shapes, Closing
  <2> QED
    BY <1>0, <1>u, <2>1, NothingReported
<1>15. ASSUME NEW a \in Actor, ListSteps(a) PROVE CountIsReports'
  <2>1. /\ \A k \in Step : k \in Reported' <=> k \in Reported
        /\ \A b \in Actor : actor'[b].at = "count" <=> actor[b].at = "count"
        /\ run'.done = run.done /\ uncounted' = uncounted
    BY <1>0, <1>15, Roles, ListEffect DEF Reported, StepTerminal, Shapes, Closing
  <2> QED
    BY <1>0, <1>u, <2>1, NothingReported
<1>16. ASSUME NEW a \in Actor, WriteRun(a) PROVE CountIsReports'
  <2>1. /\ \A k \in Step : k \in Reported' <=> k \in Reported
        /\ \A b \in Actor : actor'[b].at = "count" <=> actor[b].at = "count"
        /\ run'.done = run.done /\ uncounted' = uncounted
    BY <1>0, <1>16, Roles, WriteEffect DEF Reported, StepTerminal, Shapes, Closing
  <2> QED
    BY <1>0, <1>u, <2>1, NothingReported
<1>17. ASSUME NEW a \in Actor, MarkTerminal(a) PROVE CountIsReports'
  <2>1. /\ \A k \in Step : k \in Reported' <=> k \in Reported
        /\ \A b \in Actor : actor'[b].at = "count" <=> actor[b].at = "count"
        /\ run'.done = run.done /\ uncounted' = uncounted
    BY <1>0, <1>17, Roles, MarkEffect, ContextEffect DEF Reported, StepTerminal, Shapes, Closing, AfterClosing
  <2> QED
    BY <1>0, <1>u, <2>1, NothingReported
<1>18. CASE WindowCloses
  <2>1. /\ \A k \in Step : k \in Reported' <=> k \in Reported
        /\ \A b \in Actor : actor'[b].at = "count" <=> actor[b].at = "count"
        /\ run'.done = run.done /\ uncounted' = uncounted
    BY <1>0, <1>18, Roles, ContextEffect DEF Reported, StepTerminal, Shapes, Closing, WindowCloses
  <2> QED
    BY <1>0, <1>u, <2>1, NothingReported
<1>19. ASSUME NEW c \in Canceller, AskToCancel(c) PROVE CountIsReports'
  <2>0. actor[c].at = "idle"
    BY <1>19 DEF AskToCancel
  <2>1. /\ \A k \in Step : k \in Reported' <=> k \in Reported
        /\ \A b \in Actor : actor'[b].at = "count" <=> actor[b].at = "count"
        /\ run'.done = run.done /\ uncounted' = uncounted
    BY <1>0, <1>19, <2>0, Roles, RequestEffect DEF Reported, StepTerminal, Shapes, Closing
  <2> QED
    BY <1>0, <1>u, <2>1, NothingReported
<1>20. ASSUME NEW c \in Canceller, StopRun(c) PROVE CountIsReports'
  <2>1. /\ \A k \in Step : k \in Reported' <=> k \in Reported
        /\ \A b \in Actor : actor'[b].at = "count" <=> actor[b].at = "count"
        /\ run'.done = run.done /\ uncounted' = uncounted
    BY <1>0, <1>20, Roles, StopEffect, ContextEffect DEF Reported, StepTerminal, Shapes, Closing
  <2> QED
    BY <1>0, <1>u, <2>1, NothingReported
<1>21. ASSUME NEW c \in Canceller, ListOpen(c) PROVE CountIsReports'
  <2>1. /\ \A k \in Step : k \in Reported' <=> k \in Reported
        /\ \A b \in Actor : actor'[b].at = "count" <=> actor[b].at = "count"
        /\ run'.done = run.done /\ uncounted' = uncounted
    BY <1>0, <1>21, Roles, LookEffect DEF Reported, StepTerminal, Shapes, Closing
  <2> QED
    BY <1>0, <1>u, <2>1, NothingReported
<1>22. ASSUME NEW c \in Canceller, SkipStep(c) PROVE CountIsReports'
  <2>1. PICK i \in actor[c].todo :
          /\ i \in Step /\ status'[i] = "skipped"
          /\ \A j \in Step : j # i => status'[j] = status[j]
          /\ actor[c].at = "skip" /\ actor'[c].at = "count"
          /\ \A b \in Actor : b # c => actor'[b] = actor[b]
          /\ UNCHANGED <<run, uncounted>>
    BY <1>0, <1>22, SkipEffect
  <2>2. i \in Reported' /\ \A j \in Step : j # i => (j \in Reported' <=> j \in Reported)
    BY <2>1 DEF Reported, StepTerminal
  <2>3. ~Undisturbed
    BY <2>1 DEF Undisturbed, Asked
  <2> QED
    BY <1>0, <1>u, <2>1, <2>2, <2>3, Roles, OneReported
<1>23. ASSUME NEW c \in Canceller, CloseRun(c) PROVE CountIsReports'
  <2>0. actor[c].at = "skip" /\ uncounted' = uncounted
    BY <1>23 DEF CloseRun, history
  <2>1. /\ \A k \in Step : k \in Reported' <=> k \in Reported
        /\ \A b \in Actor : actor'[b].at = "count" <=> actor[b].at = "count"
        /\ run'.done = run.done /\ uncounted' = uncounted
    BY <1>0, <1>23, <2>0, Roles, RequestEffect DEF Reported, StepTerminal, Shapes, Closing
  <2> QED
    BY <1>0, <1>u, <2>1, NothingReported
<1>24. ASSUME NEW c \in Canceller, RequestEnds(c) PROVE CountIsReports'
  <2>0. actor[c].at \in {"look", "skip", "count"} /\ UNCHANGED run /\ actor'[c].at = "stopped"
    BY <1>0, <1>24, Roles, OneMoves DEF RequestEnds, rows
  <2>1. Reported' = Reported /\ run' = run /\ ~Undisturbed'
    BY <1>0, <1>24, <2>0, RequestEffect DEF Reported, Undisturbed, Asked
  <2>2. CASE actor[c].at = "count"
    BY <1>0, <1>24, <2>1, <2>2, RequestEffect DEF CountIsReports, RequestEnds
  <2>3. CASE actor[c].at # "count"
    <3>1. Counting' = Counting
      BY <1>0, <1>24, <2>3, Roles, RequestEffect DEF Counting, RequestEnds
    <3> QED
      BY <1>0, <1>24, <2>1, <2>3, <3>1 DEF CountIsReports, RequestEnds
  <2> QED
    BY <2>2, <2>3
<1>25. CASE Restart
  <2>1. Reported' = Reported /\ run' = run
    BY <1>0, <1>25, RestartEffect DEF Reported
  <2>2. ~Undisturbed'
    <3>1. restarts \in Nat
      BY <1>0, ActionsAssumption DEF TypeOK
    <3> QED
      BY <1>0, <1>25, <3>1, RestartEffect DEF Undisturbed
  <2>3. CASE \E a \in Actor : actor[a].at = "count"
    BY <1>0, <1>25, <2>2, <2>3, RestartEffect DEF CountIsReports
  <2>4. CASE ~\E a \in Actor : actor[a].at = "count"
    <3>1. uncounted' = uncounted
      BY <1>0, <1>25, <2>4, RestartEffect DEF TypeOK
    <3>2. \A a \in Actor : actor'[a].at # "count"
      BY <1>0, <1>25, <2>4, Roles, RestartEffect
    <3>3. Counting' = Counting
      BY <2>4, <3>2 DEF Counting
    <3> QED
      BY <1>0, <2>1, <2>2, <3>1, <3>3 DEF CountIsReports
  <2> QED
    BY <2>3, <2>4
<1>26. CASE UNCHANGED vars
  <2>1. Reported' = Reported /\ Counting' = Counting
    BY <1>26 DEF vars, Reported, Counting
  <2> QED
    BY <1>0, <1>u, <1>26, <2>1 DEF vars, CountIsReports
<1> QED
  BY <1>1, <1>2, <1>3, <1>4, <1>5, <1>6, <1>7, <1>8, <1>9, <1>10, <1>11, <1>12, <1>13,
     <1>14, <1>15, <1>16, <1>17, <1>18, <1>19, <1>20, <1>21, <1>22, <1>23, <1>24, <1>25, <1>26, <1>27
     DEF Next, Execute, Action, Settle, Cancel

\* Every step that reported is counted, or about to be, and counted once where
\* nobody cancelled: CompleteStep's look at the step and its write are two
\* statements, but no two actors hold one step at a time.
THEOREM CountsReports == Spec => []CountIsReports
<1>1. Init => CountIsReports
  <2> SUFFICES ASSUME Init PROVE CountIsReports
    OBVIOUS
  <2>1. Reported = {} /\ Counting = {}
    BY DEF Init, Start, Reported, Counting, StepTerminal
  <2> QED
    BY <2>1, FS_EmptySet DEF Init, CountIsReports
<1> QED
  BY <1>1, CountsStep, BasicsHold, PTL DEF Spec
----------------------------------------------------------------------------
(* A cancellation reaches the jobs. *)

\* Steps with registered jobs in the queue, dispatched while the run had a context
\* and not being registered while a cancellation listed the open steps.
Queued == (registered \cap queued) \ (free \cup crossed)

\* Such a step is open, or the tracker gave up on it; nobody is about to complete
\* it; and a cancellation that listed the open steps has it, with its jobs, still
\* before it: what was not being registered then cannot be any more, the context
\* being over.
JobsInv ==
    /\ \A i \in Queued : status[i] \in {"running", "failed"}
    /\ \A a \in Actor : actor[a].at = "close" /\ actor[a].says = "completed" =>
          actor[a].step \notin registered \cap queued
    /\ \A c \in Canceller :
        /\ actor[c].at \in {"skip", "count"} =>
              \A i \in (actor[c].todo \cap registered) \ (free \cup crossed) : i \in actor[c].jobs
        /\ actor[c].at \in {"skip", "count", "done"} =>
              /\ \A i \in Queued : status[i] = "failed" \/ i \in actor[c].todo
              /\ \A i \in Step : work[i] = "registering" => i \in free \cup crossed
    /\ \A i \in Step : work[i] = "registering" /\ status[i] = "skipped" => i \in free \cup crossed

\* Every step keeps them.
LEMMA JobsStep == Basics /\ JobsInv /\ [Next]_vars => JobsInv'
<1> SUFFICES ASSUME Basics, JobsInv, [Next]_vars PROVE JobsInv'
  OBVIOUS
<1>0. TypeOK /\ Shapes /\ StepsMatch /\ Stopping /\ JobsMatch /\ OneHolder /\ JobsInv
  BY DEF Basics
<1>c. \A a \in Actor : actor[a].at = "close" =>
         actor[a].step \in Step /\ actor[a].says \in {"completed", "failed"}
  BY <1>0, Roles DEF Shapes, TypeOK
<1>t. \A a \in Actor : CloseStep(a) => actor[a].step \in Step
  BY <1>c DEF CloseStep
<1>m. registered \subseteq Step /\ pending \subseteq Step /\ queued \subseteq Step
  BY <1>0 DEF TypeOK
<1>n. actor[Engine].step \in Nat
  BY <1>0, Roles, StepsAreNumbers DEF TypeOK, ActorState
<1>1. CASE GetOrCreateRun
  BY <1>0, <1>1, <1>m, Roles, GetOrCreateEffect DEF JobsInv, Queued, Shapes, Stopping, Closing
<1>2. CASE InsertStep
  BY <1>0, <1>2, <1>m, <1>n, Roles, InsertEffect DEF JobsInv, Queued, Shapes, StepsMatch, JobsMatch
<1>3. CASE GrowRun
  BY <1>0, <1>3, <1>m, Roles, GrowEffect DEF JobsInv, Queued, Shapes, Stopping, Closing
<1>4. CASE Dispatch
  BY <1>0, <1>4, <1>m, <1>n, Roles, DispatchEffect DEF JobsInv, Queued, Shapes, StepsMatch, JobsMatch
<1>5. ASSUME NEW i \in Step, BackgroundEnds(i) PROVE JobsInv'
  <2>1. /\ UNCHANGED <<status, registered, queued, free, crossed, rx, actor>>
        /\ \A j \in Step : work'[j] = "registering" => work[j] = "registering"
    BY <1>0, <1>5 DEF BackgroundEnds, rows, history, TypeOK
  <2> QED
    BY <1>0, <2>1 DEF JobsInv, Queued
<1>6. ASSUME NEW i \in Step, FlowEnds(i) PROVE JobsInv'
  BY <1>0, <1>6, <1>m, Roles, FlowEffect DEF JobsInv, Queued, Shapes, JobsMatch
<1>7. ASSUME NEW i \in Step, CreateJobs(i) PROVE JobsInv'
  <2>1. /\ queued' = queued \cup {i}
        /\ \A j \in Step : work'[j] = "registering" => work[j] = "registering"
        /\ UNCHANGED <<status, registered, free, crossed, rx, actor>>
    BY <1>0, <1>7 DEF CreateJobs, rows, history, TypeOK
  <2>2. i \notin registered
    BY <1>0, <1>7 DEF JobsMatch, CreateJobs
  <2>3. registered' \cap queued' = registered \cap queued /\ Queued' = Queued
    BY <2>1, <2>2 DEF Queued
  <2> QED
    BY <1>0, <2>1, <2>3 DEF JobsInv
<1>8. ASSUME NEW i \in Step, RegisterJobs(i) PROVE JobsInv'
  <2>1. /\ registered' = registered \cup {i} /\ work[i] = "registering"
        /\ \A j \in Step : work'[j] = "registering" => work[j] = "registering"
        /\ UNCHANGED <<run, status, queued, actor, free, rx, kind, crossed>>
    BY <1>0, <1>8 DEF RegisterJobs, history, TypeOK
  <2>2. Holds(i, 2)
    BY <1>0, <2>1 DEF Holds, JobsMatch
  <2>3. status[i] \in {"running", "skipped"} /\ (status[i] = "skipped" => i \in free \cup crossed)
    BY <1>0, <2>1, <2>2 DEF OneHolder, JobsInv
  <2>4. \A a \in Actor : actor[a].at = "close" => actor[a].step # i
    <3> SUFFICES ASSUME NEW a \in Actor, actor[a].at = "close", actor[a].step = i PROVE FALSE
      OBVIOUS
    <3>1. a \notin Canceller
      BY <1>0 DEF Shapes
    <3>2. Holds(i, 1) \/ Holds(i, 4) \/ Holds(i, 5)
      BY <1>0, <3>1, Roles DEF Holds, Shapes
    <3> QED
      BY <1>0, <2>2, <3>2 DEF OneHolder
  <2>5. \A c \in Canceller : actor[c].at \in {"skip", "count", "done"} => i \in free \cup crossed
    BY <1>0, <2>1 DEF JobsInv
  <2>6. Queued' = IF i \in queued \ (free \cup crossed) THEN Queued \cup {i} ELSE Queued
    BY <2>1 DEF Queued
  <2>7. \A j \in Queued' : status'[j] \in {"running", "failed"}
    BY <1>0, <2>1, <2>3, <2>6 DEF JobsInv
  <2>8. \A a \in Actor : actor'[a].at = "close" /\ actor'[a].says = "completed" =>
           actor'[a].step \notin registered' \cap queued'
    BY <1>0, <2>1, <2>4 DEF JobsInv
  <2>9. ASSUME NEW c \in Canceller
        PROVE  /\ actor'[c].at \in {"skip", "count"} =>
                     \A j \in (actor'[c].todo \cap registered') \ (free' \cup crossed') :
                         j \in actor'[c].jobs
               /\ actor'[c].at \in {"skip", "count", "done"} =>
                     /\ \A j \in Queued' : status'[j] = "failed" \/ j \in actor'[c].todo
                     /\ \A j \in Step : work'[j] = "registering" => j \in free' \cup crossed'
    BY <1>0, <2>1, <2>5, <2>6 DEF JobsInv
  <2>10. \A j \in Step : work'[j] = "registering" /\ status'[j] = "skipped"
                             => j \in free' \cup crossed'
    BY <1>0, <2>1 DEF JobsInv
  <2> QED
    BY <2>7, <2>8, <2>9, <2>10 DEF JobsInv
<1>9. ASSUME NEW i \in Step, GiveUp(i) PROVE JobsInv'
  <2>1. /\ UNCHANGED <<status, registered, queued, free, crossed, rx, actor>>
        /\ \A j \in Step : work'[j] = "registering" => work[j] = "registering"
    BY <1>0, <1>9 DEF GiveUp, rows, history, TypeOK
  <2> QED
    BY <1>0, <2>1 DEF JobsInv, Queued
<1>27. ASSUME NEW i \in Step, IssueJobs(i) \/ IssueRegistration(i) PROVE JobsInv'
  <2>1. /\ UNCHANGED <<status, registered, queued, free, crossed, rx, actor>>
        /\ \A j \in Step : work'[j] = "registering" => work[j] = "registering" \/ ~Dead(j)
    BY <1>0, <1>27 DEF IssueJobs, IssueRegistration, Issue, rows, history, TypeOK
  <2>2. \A j \in Step : ~Dead(j) => j \in free \/ ~rx.cancelled
    BY DEF Dead
  <2>3. \A j \in Step : ~Dead(j) /\ status[j] = "skipped" => j \in free
    BY <1>0, <2>2 DEF OneHolder
  <2>4. \A c \in Canceller : actor[c].at \in {"skip", "count", "done"} =>
            \A j \in Step : ~Dead(j) => j \in free
    BY <1>0, <2>2 DEF Stopping
  <2>5. Queued' = Queued
    BY <2>1 DEF Queued
  <2> QED
    BY <1>0, <2>1, <2>3, <2>4, <2>5 DEF JobsInv
<1>10. ASSUME NEW i \in Step, JobsEnd(i) PROVE JobsInv'
  <2>1. queued' = queued \ {i}
        /\ UNCHANGED <<status, registered, work, free, crossed, rx, actor>>
    BY <1>10 DEF JobsEnd, rows, history
  <2> QED
    BY <1>0, <2>1 DEF JobsInv, Queued
<1>11. ASSUME NEW i \in Step, Poll(i) PROVE JobsInv'
  BY <1>0, <1>11, <1>m, Roles, PollEffect DEF JobsInv, Queued, Shapes
<1>12. ASSUME NEW a \in Actor, CloseStep(a) PROVE JobsInv'
  <2>1. \A i \in Queued' : i \in Queued /\ i \in Step
    BY <1>0, <1>12, <1>m, <1>t, CloseEffect DEF Queued
  <2>2. \A i \in Queued' : status'[i] = status[i] \/ status'[i] = "failed"
    BY <1>0, <1>12, <1>c, <1>t, <1>t, <2>1, CloseEffect DEF JobsInv, Queued
  <2> QED
    BY <1>0, <1>12, <1>t, <2>1, <2>2, Roles, CloseEffect DEF JobsInv, Shapes
<1>13. ASSUME NEW a \in Actor, CountStep(a) PROVE JobsInv'
  BY <1>0, <1>13, <1>m, Roles, CountEffect DEF JobsInv, Queued, Shapes, Stopping, Closing
<1>14. ASSUME NEW a \in Actor, ReadRun(a) PROVE JobsInv'
  BY <1>0, <1>14, <1>m, Roles, ReadEffect DEF JobsInv, Queued, Shapes, Stopping, Closing
<1>15. ASSUME NEW a \in Actor, ListSteps(a) PROVE JobsInv'
  BY <1>0, <1>15, <1>m, Roles, ListEffect DEF JobsInv, Queued, Shapes, Stopping, Closing
<1>16. ASSUME NEW a \in Actor, WriteRun(a) PROVE JobsInv'
  BY <1>0, <1>16, <1>m, Roles, WriteEffect DEF JobsInv, Queued, Shapes, Stopping, Closing
<1>17. ASSUME NEW a \in Actor, MarkTerminal(a) PROVE JobsInv'
  BY <1>0, <1>17, <1>m, Roles, MarkEffect, ContextEffect DEF AfterClosing, JobsInv, Queued, Shapes, Stopping, Closing
<1>18. CASE WindowCloses
  BY <1>0, <1>18, <1>m, Roles, ContextEffect DEF WindowCloses, JobsInv, Queued, Shapes, Stopping, Closing
<1>19. ASSUME NEW c \in Canceller, AskToCancel(c) PROVE JobsInv'
  BY <1>0, <1>19, <1>m, Roles, RequestEffect DEF JobsInv, Queued, Shapes, Stopping, Closing
<1>20. ASSUME NEW c \in Canceller, StopRun(c) PROVE JobsInv'
  BY <1>0, <1>20, <1>m, Roles, StopEffect, ContextEffect DEF JobsInv, Queued, Shapes, Stopping, Closing
<1>21. ASSUME NEW c \in Canceller, ListOpen(c) PROVE JobsInv'
  <2>1. \A i \in Queued : status[i] = "running" \/ status[i] = "failed"
    BY <1>0 DEF JobsInv
  <2>2. Queued' = Queued /\ Queued \subseteq Step
    BY <1>0, <1>21, <1>m, LookEffect DEF Queued, JobsMatch, TypeOK
  <2> QED
    BY <1>0, <1>21, <1>m, <2>1, <2>2, Roles, LookEffect DEF JobsInv, Shapes
<1>22. ASSUME NEW c \in Canceller, SkipStep(c) PROVE JobsInv'
  <2>1. PICK i \in actor[c].todo :
          /\ i \in Step
          /\ queued' = IF i \in actor[c].jobs THEN queued \ {i} ELSE queued
          /\ status'[i] = "skipped"
          /\ \A j \in Step : j # i => status'[j] = status[j]
          /\ actor[c].at = "skip" /\ actor'[c].at = "count"
          /\ actor'[c].todo = actor[c].todo \ {i}
          /\ actor'[c].jobs = actor[c].jobs
          /\ \A b \in Actor : b # c => actor'[b] = actor[b]
          /\ UNCHANGED <<run, registered, work, free, crossed, rx>>
    BY <1>0, <1>22, SkipEffect
  <2>2. i \notin Queued'
    BY <1>0, <2>1 DEF JobsInv, Queued
  <2>3. Queued' \subseteq Queued /\ \A j \in Queued' : j \in Step /\ status'[j] = status[j]
    BY <1>m, <2>1, <2>2 DEF Queued
  <2>4. \A j \in Queued' : status'[j] \in {"running", "failed"}
    BY <1>0, <2>3 DEF JobsInv
  <2>5. \A a \in Actor : actor'[a].at = "close" /\ actor'[a].says = "completed" =>
           actor'[a].step \notin registered' \cap queued'
    BY <1>0, <2>1 DEF JobsInv
  <2>6. ASSUME NEW d \in Canceller
        PROVE  /\ actor'[d].at \in {"skip", "count"} =>
                     \A j \in (actor'[d].todo \cap registered') \ (free' \cup crossed') :
                         j \in actor'[d].jobs
               /\ actor'[d].at \in {"skip", "count", "done"} =>
                     /\ \A j \in Queued' : status'[j] = "failed" \/ j \in actor'[d].todo
                     /\ \A j \in Step : work'[j] = "registering" => j \in free' \cup crossed'
    BY <1>0, <2>1, <2>2, <2>3, Roles DEF JobsInv
  <2>7. \A j \in Step : work'[j] = "registering" /\ status'[j] = "skipped"
                            => j \in free' \cup crossed'
    BY <1>0, <2>1 DEF JobsInv
  <2> QED
    BY <2>4, <2>5, <2>6, <2>7 DEF JobsInv
<1>23. ASSUME NEW c \in Canceller, CloseRun(c) PROVE JobsInv'
  BY <1>0, <1>23, <1>m, Roles, RequestEffect DEF JobsInv, Queued, Shapes, Stopping, Closing
<1>24. ASSUME NEW c \in Canceller, RequestEnds(c) PROVE JobsInv'
  BY <1>0, <1>24, <1>m, Roles, RequestEffect DEF JobsInv, Queued, Shapes, Stopping, Closing
<1>25. CASE Restart
  <2>1. /\ \A i \in Step : work'[i] # "registering"
        /\ \A a \in Actor \ Canceller : actor'[a].at # "close"
        /\ \A c \in Canceller :
             /\ actor'[c].at \notin {"close", "skip", "count"}
             /\ actor'[c].at = "done" => actor[c].at = "done" /\ actor'[c].todo = actor[c].todo
        /\ UNCHANGED <<status, free, crossed>>
    BY <1>0, <1>25, Roles, RestartEffect DEF Shapes
  <2>2. ASSUME NEW i \in Queued'
        PROVE  i \in Queued \/ (i \in Step /\ work[i] = "registering")
    <3>1. i \in queued' /\ i \in registered' /\ i \notin free \cup crossed
      BY <2>1 DEF Queued
    <3>2. i \in registered \/ (i \in Step /\ work[i] = "registering")
      BY <1>0, <1>25, <3>1, RestartEffect
    <3>3. i \in queued \/ (i \in Step /\ work[i] = "creating")
      BY <1>0, <1>25, <3>1, RestartEffect
    <3> QED
      BY <1>0, <3>1, <3>2, <3>3 DEF Queued, JobsMatch
  <2>3. \A i \in Queued' : i \notin free \cup crossed
    BY <2>1 DEF Queued
  <2>4. ASSUME NEW i \in Queued' PROVE status[i] \in {"running", "failed"}
    <3>1. CASE i \in Queued
      BY <1>0, <3>1 DEF JobsInv
    <3>2. CASE i \in Step /\ work[i] = "registering"
      <4>1. Holds(i, 2)
        BY <1>0, <3>2 DEF Holds, JobsMatch
      <4>2. status[i] \in {"running", "skipped"}
        BY <1>0, <3>2, <4>1 DEF OneHolder
      <4> QED
        BY <1>0, <2>3, <3>2, <4>2 DEF JobsInv
    <3> QED
      BY <2>2, <3>1, <3>2
  <2>5. ASSUME NEW c \in Canceller, actor'[c].at = "done", NEW i \in Queued'
        PROVE  status[i] = "failed" \/ i \in actor'[c].todo
    BY <1>0, <2>1, <2>2, <2>3, <2>5 DEF JobsInv
  <2> QED
    BY <2>1, <2>4, <2>5 DEF JobsInv
<1>26. CASE UNCHANGED vars
  BY <1>0, <1>26 DEF JobsInv, Queued, Shapes, Stopping, Closing, vars
<1> QED
  BY <1>1, <1>2, <1>3, <1>4, <1>5, <1>6, <1>7, <1>8, <1>9, <1>10, <1>11, <1>12, <1>13,
     <1>14, <1>15, <1>16, <1>17, <1>18, <1>19, <1>20, <1>21, <1>22, <1>23, <1>24, <1>25, <1>26, <1>27
     DEF Next, Execute, Action, Settle, Cancel

\* Once a cancellation is through, no job that was registered is left in the queue,
\* except where the registration itself was on its way to the database when the
\* cancellation listed the open steps (ExecContext looks at the context when it
\* starts), the tracker gave up on the step, or the run had no context: CancelRun
\* stops the run before it lists its steps, so no registration begins any more.
THEOREM CancelReaches == Spec => []CancelReachesJobs
<1>1. Init => JobsInv
  BY Roles DEF Init, Start, JobsInv, Queued
<1>2. Basics /\ JobsInv => CancelReachesJobs
  BY DEF Basics, TypeOK, Shapes, JobsInv, Queued, CancelReachesJobs
<1> QED
  BY <1>1, <1>2, JobsStep, BasicsHold, PTL DEF Spec
----------------------------------------------------------------------------
(* A run whose steps have all reported is settled. *)

\* Somebody who has closed a step has not come to the end of settling the run.
Settling == \E a \in Actor : actor[a].at \in {"count", "settle", "list", "write"}

AllReported == run.steps > 0 /\ \A i \in Step : status[i] # "running"

\* Where nothing cuts in, a run whose steps have all reported is ended, or somebody
\* is about to end it; and a cancellation that went through stands.
SettledInv ==
    /\ Undisturbed /\ AllReported => run.status \in RunTerminal \/ Settling
    /\ (\E c \in Canceller : actor[c].at = "done") /\ ~overwritten => run.status = "cancelled"

\* The last report finds the run whole: nothing else is being counted.
LEMMA WholeRun ==
    ASSUME Basics, CountIsReports, Undisturbed, AllReported, Counting = {}
    PROVE  run.done = run.steps
<1>0. TypeOK /\ Shapes /\ StepsMatch /\ OneHolder
  BY DEF Basics
<1>1. actor[Engine].step \in Nat /\ run.steps \in Nat /\ run.done \in Nat /\ run.steps <= Actions
  BY <1>0, Roles, StepsAreNumbers DEF TypeOK, ActorState
<1>2. actor[Engine].at # "grow"
  <2> SUFFICES ASSUME actor[Engine].at = "grow" PROVE FALSE
    OBVIOUS
  <2>1. actor[Engine].step \in Step /\ Holds(actor[Engine].step, 1)
    BY <1>0 DEF Shapes, Holds
  <2> QED
    BY <1>0, <2>1 DEF OneHolder, AllReported, Undisturbed
<1>3. \A i \in Step : status[i] \in StepTerminal <=> i <= run.steps
  <2> SUFFICES ASSUME NEW i \in Step PROVE status[i] \in StepTerminal <=> i <= run.steps
    OBVIOUS
  <2>1. i \in Nat /\ status[i] \in {"none"} \cup StepTerminal /\ "none" \notin StepTerminal
    BY <1>0, StepsAreNumbers DEF AllReported, TypeOK, StepTerminal
  <2> QED
    BY <1>0, <1>1, <1>2, <2>1 DEF StepsMatch, Undisturbed
<1>4. Reported = 1..run.steps
  BY <1>1, <1>3, StepsAreNumbers DEF Reported, Step
<1>5. Cardinality(Reported) = run.steps
  <2>1. \A n \in Nat : Cardinality(1..n) = n
    BY FS_Interval
  <2> QED
    BY <1>1, <1>4, <2>1
<1> QED
  BY <1>1, <1>5, FS_EmptySet DEF CountIsReports

\* Every step keeps it.
LEMMA SettledStep == Basics /\ CountIsReports /\ SettledInv /\ [Next]_vars => SettledInv'
<1> SUFFICES ASSUME Basics, CountIsReports, SettledInv, [Next]_vars PROVE SettledInv'
  OBVIOUS
<1>0. TypeOK /\ Shapes /\ StepsMatch /\ Stopping /\ OneHolder /\ Basics /\ CountIsReports /\ SettledInv
  BY DEF Basics
<1>c. \A a \in Actor : actor[a].at = "close" =>
         actor[a].step \in Step /\ actor[a].says \in {"completed", "failed"}
  BY <1>0, Roles DEF Shapes, TypeOK
<1>t. \A a \in Actor : CloseStep(a) => actor[a].step \in Step
  BY <1>c DEF CloseStep
<1>u. Undisturbed' => Undisturbed
  BY AskedStays
<1>n. actor[Engine].step \in Nat /\ run.steps \in Nat
  BY <1>0, Roles, StepsAreNumbers DEF TypeOK, ActorState
<1>1. CASE GetOrCreateRun
  <2>1. /\ actor'[Engine].at = "insert" /\ actor[Engine].at = "next"
        /\ \A b \in Actor : b # Engine => actor'[b] = actor[b]
        /\ run'.steps = run.steps
        /\ run.status = "none" \/ run' = run
        /\ UNCHANGED <<status, overwritten>>
    BY <1>0, <1>1, GetOrCreateEffect
  <2>2. run.status = "none" => run.steps = 0 /\ \A c \in Canceller : actor[c].at # "done"
    BY <1>0, <1>n, Roles DEF StepsMatch, Stopping
  <2>3. CASE run.status = "none"
    BY <2>1, <2>2, <2>3, Roles DEF SettledInv, AllReported
  <2>4. CASE run' = run
    BY <1>0, <1>u, <2>1, <2>4, Roles DEF SettledInv, AllReported, Settling
  <2> QED
    BY <2>1, <2>3, <2>4
<1>2. CASE InsertStep
  <2>1. ~AllReported'
    BY <1>0, <1>2, InsertEffect DEF AllReported
  <2> QED
    BY <1>0, <1>2, <2>1, Roles, InsertEffect DEF SettledInv
<1>3. CASE GrowRun
  <2>1. Undisturbed => ~AllReported'
    <3>1. actor[Engine].step \in Step /\ Holds(actor[Engine].step, 1)
      BY <1>0, <1>3, GrowEffect DEF Shapes, Holds
    <3> QED
      BY <1>0, <1>3, <3>1, GrowEffect DEF OneHolder, AllReported, Undisturbed
  <2> QED
    BY <1>0, <1>u, <1>3, <2>1, Roles, GrowEffect DEF SettledInv
<1>4. CASE Dispatch
  <2>1. Settling => Settling'
    BY <1>0, <1>4, Roles, DispatchEffect DEF Settling, Shapes, Closing
  <2>2. AllReported' => AllReported
    BY <1>0, <1>4, Roles, DispatchEffect DEF AllReported
  <2>3. run' = run /\ overwritten' = overwritten
    BY <1>0, <1>4, Roles, DispatchEffect
  <2>4. \A c \in Canceller : actor'[c].at = "done" => actor[c].at = "done"
    BY <1>0, <1>4, Roles, DispatchEffect DEF Shapes, Closing
  <2> QED
    BY <1>0, <1>u, <2>1, <2>2, <2>3, <2>4 DEF SettledInv
<1>5. ASSUME NEW i \in Step, BackgroundEnds(i) PROVE SettledInv'
  <2>1. Settling => Settling'
    BY <1>0, <1>5, Roles, WorkEffect DEF Settling, Shapes, Closing
  <2>2. AllReported' => AllReported
    BY <1>0, <1>5, Roles, WorkEffect DEF AllReported
  <2>3. run' = run /\ overwritten' = overwritten
    BY <1>0, <1>5, Roles, WorkEffect
  <2>4. \A c \in Canceller : actor'[c].at = "done" => actor[c].at = "done"
    BY <1>0, <1>5, Roles, WorkEffect DEF Shapes, Closing
  <2> QED
    BY <1>0, <1>u, <2>1, <2>2, <2>3, <2>4 DEF SettledInv
<1>6. ASSUME NEW i \in Step, FlowEnds(i) PROVE SettledInv'
  <2>1. Settling => Settling'
    BY <1>0, <1>6, Roles, FlowEffect DEF Settling, Shapes, Closing
  <2>2. AllReported' => AllReported
    BY <1>0, <1>6, Roles, FlowEffect DEF AllReported
  <2>3. run' = run /\ overwritten' = overwritten
    BY <1>0, <1>6, Roles, FlowEffect
  <2>4. \A c \in Canceller : actor'[c].at = "done" => actor[c].at = "done"
    BY <1>0, <1>6, Roles, FlowEffect DEF Shapes, Closing
  <2> QED
    BY <1>0, <1>u, <2>1, <2>2, <2>3, <2>4 DEF SettledInv
<1>7. ASSUME NEW i \in Step, CreateJobs(i) PROVE SettledInv'
  <2>1. Settling => Settling'
    BY <1>0, <1>7, Roles, WorkEffect DEF Settling, Shapes, Closing
  <2>2. AllReported' => AllReported
    BY <1>0, <1>7, Roles, WorkEffect DEF AllReported
  <2>3. run' = run /\ overwritten' = overwritten
    BY <1>0, <1>7, Roles, WorkEffect
  <2>4. \A c \in Canceller : actor'[c].at = "done" => actor[c].at = "done"
    BY <1>0, <1>7, Roles, WorkEffect DEF Shapes, Closing
  <2> QED
    BY <1>0, <1>u, <2>1, <2>2, <2>3, <2>4 DEF SettledInv
<1>8. ASSUME NEW i \in Step, RegisterJobs(i) PROVE SettledInv'
  <2>1. Settling => Settling'
    BY <1>0, <1>8, Roles, WorkEffect DEF Settling, Shapes, Closing
  <2>2. AllReported' => AllReported
    BY <1>0, <1>8, Roles, WorkEffect DEF AllReported
  <2>3. run' = run /\ overwritten' = overwritten
    BY <1>0, <1>8, Roles, WorkEffect
  <2>4. \A c \in Canceller : actor'[c].at = "done" => actor[c].at = "done"
    BY <1>0, <1>8, Roles, WorkEffect DEF Shapes, Closing
  <2> QED
    BY <1>0, <1>u, <2>1, <2>2, <2>3, <2>4 DEF SettledInv
<1>9. ASSUME NEW i \in Step, GiveUp(i) PROVE SettledInv'
  <2>1. Settling => Settling'
    BY <1>0, <1>9, Roles, WorkEffect DEF Settling, Shapes, Closing
  <2>2. AllReported' => AllReported
    BY <1>0, <1>9, Roles, WorkEffect DEF AllReported
  <2>3. run' = run /\ overwritten' = overwritten
    BY <1>0, <1>9, Roles, WorkEffect
  <2>4. \A c \in Canceller : actor'[c].at = "done" => actor[c].at = "done"
    BY <1>0, <1>9, Roles, WorkEffect DEF Shapes, Closing
  <2> QED
    BY <1>0, <1>u, <2>1, <2>2, <2>3, <2>4 DEF SettledInv
<1>27. ASSUME NEW i \in Step, IssueJobs(i) \/ IssueRegistration(i) PROVE SettledInv'
  <2>1. Settling => Settling'
    BY <1>0, <1>27, Roles, WorkEffect DEF Settling, Shapes, Closing
  <2>2. AllReported' => AllReported
    BY <1>0, <1>27, Roles, WorkEffect DEF AllReported
  <2>3. run' = run /\ overwritten' = overwritten
    BY <1>0, <1>27, Roles, WorkEffect
  <2>4. \A c \in Canceller : actor'[c].at = "done" => actor[c].at = "done"
    BY <1>0, <1>27, Roles, WorkEffect DEF Shapes, Closing
  <2> QED
    BY <1>0, <1>u, <2>1, <2>2, <2>3, <2>4 DEF SettledInv
<1>10. ASSUME NEW i \in Step, JobsEnd(i) PROVE SettledInv'
  <2>1. Settling => Settling'
    BY <1>0, <1>10, Roles, WorkEffect DEF Settling, Shapes, Closing
  <2>2. AllReported' => AllReported
    BY <1>0, <1>10, Roles, WorkEffect DEF AllReported
  <2>3. run' = run /\ overwritten' = overwritten
    BY <1>0, <1>10, Roles, WorkEffect
  <2>4. \A c \in Canceller : actor'[c].at = "done" => actor[c].at = "done"
    BY <1>0, <1>10, Roles, WorkEffect DEF Shapes, Closing
  <2> QED
    BY <1>0, <1>u, <2>1, <2>2, <2>3, <2>4 DEF SettledInv
<1>11. ASSUME NEW i \in Step, Poll(i) PROVE SettledInv'
  <2>1. Settling => Settling'
    BY <1>0, <1>11, Roles, PollEffect DEF Settling, Shapes, Closing
  <2>2. AllReported' => AllReported
    BY <1>0, <1>11, Roles, PollEffect DEF AllReported
  <2>3. run' = run /\ overwritten' = overwritten
    BY <1>0, <1>11, Roles, PollEffect
  <2>4. \A c \in Canceller : actor'[c].at = "done" => actor[c].at = "done"
    BY <1>0, <1>11, Roles, PollEffect DEF Shapes, Closing
  <2> QED
    BY <1>0, <1>u, <2>1, <2>2, <2>3, <2>4 DEF SettledInv
<1>12. ASSUME NEW a \in Actor, CloseStep(a) PROVE SettledInv'
  <2>1. Settling'
    BY <1>0, <1>12, <1>t, CloseEffect DEF Settling
  <2> QED
    BY <1>0, <1>12, <1>t, <2>1, Roles, CloseEffect DEF SettledInv
<1>13. ASSUME NEW a \in Actor, CountStep(a) PROVE SettledInv'
  <2>1. Undisturbed' => Settling'
    <3>1. Undisturbed' => a \notin Canceller
      BY <1>0, <1>u, <1>13, CountEffect DEF Undisturbed, Asked
    <3> QED
      BY <1>0, <1>13, <3>1, CountEffect DEF Settling
  <2> QED
    BY <1>0, <1>13, <2>1, Roles, CountEffect DEF SettledInv
<1>14. ASSUME NEW a \in Actor, ReadRun(a) PROVE SettledInv'
  <2>1. /\ actor[a].at = "settle"
        /\ actor'[a].at = IF run.status = "cancelled" \/ run.steps = 0 \/ run.done < run.steps
                          THEN (IF a = Engine THEN "next" ELSE "idle") ELSE "list"
        /\ \A b \in Actor : b # a => actor'[b] = actor[b]
        /\ UNCHANGED <<run, status, overwritten, restarts>>
    BY <1>0, <1>14, ReadEffect
  <2>2. ASSUME Undisturbed', AllReported' PROVE run'.status \in RunTerminal \/ Settling'
    <3>1. Undisturbed /\ AllReported
      BY <1>u, <2>1, <2>2 DEF AllReported
    <3>2. CASE \E b \in Actor : b # a /\ actor[b].at = "count"
      BY <2>1, <3>2 DEF Settling
    <3>3. CASE ~\E b \in Actor : b # a /\ actor[b].at = "count"
      <4>1. Counting = {}
        BY <2>1, <3>3 DEF Counting
      <4>2. run.done = run.steps /\ run.steps \in Nat
        BY <1>0, <3>1, <4>1, WholeRun DEF TypeOK
      <4>3. CASE run.status = "cancelled"
        BY <2>1, <4>3 DEF RunTerminal
      <4>4. CASE run.status # "cancelled"
        <5>1. actor'[a].at = "list"
          BY <2>1, <3>1, <4>2, <4>4 DEF AllReported
        <5> QED
          BY <5>1 DEF Settling
      <4> QED
        BY <4>3, <4>4
    <3> QED
      BY <3>2, <3>3
  <2>3. (\E c \in Canceller : actor'[c].at = "done") /\ ~overwritten' => run'.status = "cancelled"
    BY <1>0, <2>1, Roles DEF SettledInv
  <2> QED
    BY <2>2, <2>3 DEF SettledInv
<1>15. ASSUME NEW a \in Actor, ListSteps(a) PROVE SettledInv'
  <2>1. Settling'
    BY <1>0, <1>15, ListEffect DEF Settling
  <2> QED
    BY <1>0, <1>15, <2>1, Roles, ListEffect DEF SettledInv
<1>16. ASSUME NEW a \in Actor, WriteRun(a) PROVE SettledInv'
  <2>1. run'.status \in RunTerminal
    BY <1>0, <1>16, WriteEffect DEF Shapes, RunTerminal
  <2>2. ASSUME NEW c \in Canceller, actor'[c].at = "done", ~overwritten' PROVE FALSE
    <3>1. actor[c].at = "done" /\ ~overwritten /\ run.status # "cancelled"
      <4>1. /\ actor'[a].at \in {"idle", "mark"} /\ \A b \in Actor : b # a => actor'[b] = actor[b]
            /\ overwritten' = (overwritten \/ run.status = "cancelled")
        BY <1>0, <1>16, WriteEffect
      <4> QED
        BY <2>2, <4>1, Roles
    <3> QED
      BY <1>0, <3>1 DEF SettledInv
  <2> QED
    BY <2>1, <2>2 DEF SettledInv
<1>17. ASSUME NEW a \in Actor, MarkTerminal(a) PROVE SettledInv'
  <2>1. Settling => Settling'
    BY <1>0, <1>17, Roles, MarkEffect, ContextEffect DEF Settling, Shapes, Closing, AfterClosing
  <2>2. AllReported' => AllReported
    BY <1>0, <1>17, Roles, MarkEffect, ContextEffect DEF AllReported
  <2>3. run' = run /\ overwritten' = overwritten
    BY <1>0, <1>17, Roles, MarkEffect, ContextEffect
  <2>4. \A c \in Canceller : actor'[c].at = "done" => actor[c].at = "done"
    BY <1>0, <1>17, Roles, MarkEffect, ContextEffect DEF Shapes, Closing, AfterClosing
  <2> QED
    BY <1>0, <1>u, <2>1, <2>2, <2>3, <2>4 DEF SettledInv
<1>18. CASE WindowCloses
  <2>1. Settling => Settling'
    BY <1>0, <1>18, Roles, ContextEffect DEF Settling, Shapes, Closing, WindowCloses
  <2>2. AllReported' => AllReported
    BY <1>0, <1>18, Roles, ContextEffect DEF AllReported, WindowCloses
  <2>3. run' = run /\ overwritten' = overwritten
    BY <1>0, <1>18, Roles, ContextEffect DEF WindowCloses
  <2>4. \A c \in Canceller : actor'[c].at = "done" => actor[c].at = "done"
    BY <1>0, <1>18, Roles, ContextEffect DEF Shapes, Closing, WindowCloses
  <2> QED
    BY <1>0, <1>u, <2>1, <2>2, <2>3, <2>4 DEF SettledInv
<1>19. ASSUME NEW c \in Canceller, AskToCancel(c) PROVE SettledInv'
  <2>1. /\ actor[c].at = "idle" /\ actor'[c].at \in {"refused", "stop"}
        /\ \A b \in Actor : b # c => actor'[b] = actor[b]
        /\ UNCHANGED <<run, status, overwritten>>
    BY <1>0, <1>19, Roles, OneMoves DEF AskToCancel, rows, history
  <2>2. Settling => Settling'
    BY <2>1 DEF Settling
  <2>3. AllReported' = AllReported
    BY <2>1 DEF AllReported
  <2> QED
    BY <1>0, <1>u, <2>1, <2>2, <2>3, Roles DEF SettledInv
<1>20. ASSUME NEW c \in Canceller, StopRun(c) PROVE SettledInv'
  <2>1. ~Undisturbed'
    BY <1>0, <1>20, Roles, StopEffect, ContextEffect DEF Undisturbed, Asked
  <2> QED
    BY <1>0, <1>20, <2>1, Roles, StopEffect, ContextEffect DEF SettledInv
<1>21. ASSUME NEW c \in Canceller, ListOpen(c) PROVE SettledInv'
  <2>1. ~Undisturbed'
    BY <1>0, <1>21, Roles, LookEffect DEF Undisturbed, Asked
  <2> QED
    BY <1>0, <1>21, <2>1, Roles, LookEffect DEF SettledInv
<1>22. ASSUME NEW c \in Canceller, SkipStep(c) PROVE SettledInv'
  <2>1. ~Undisturbed'
    BY <1>0, <1>22, Roles, SkipEffect DEF Undisturbed, Asked
  <2> QED
    BY <1>0, <1>22, <2>1, Roles, SkipEffect DEF SettledInv
<1>23. ASSUME NEW c \in Canceller, CloseRun(c) PROVE SettledInv'
  <2>1. actor'[c].at = "done" /\ run'.status = "cancelled"
    BY <1>0, <1>23, Roles, OneMoves DEF CloseRun, TypeOK
  <2> QED
    BY <2>1 DEF SettledInv, RunTerminal
<1>24. ASSUME NEW c \in Canceller, RequestEnds(c) PROVE SettledInv'
  <2>1. /\ actor[c].at \in {"look", "skip", "count"} /\ actor'[c].at = "stopped"
        /\ \A b \in Actor : b # c => actor'[b] = actor[b]
        /\ UNCHANGED <<run, overwritten>>
    BY <1>0, <1>24, Roles, OneMoves DEF RequestEnds, rows
  <2>2. ~Undisturbed'
    BY <2>1 DEF Undisturbed, Asked
  <2> QED
    BY <1>0, <2>1, <2>2, Roles DEF SettledInv
<1>25. CASE Restart
  <2>1. ~Undisturbed'
    <3>1. restarts \in Nat
      BY <1>0, ActionsAssumption DEF TypeOK
    <3> QED
      BY <1>0, <1>25, <3>1, RestartEffect DEF Undisturbed
  <2> QED
    BY <1>0, <1>25, <2>1, RestartEffect DEF SettledInv
<1>26. CASE UNCHANGED vars
  BY <1>0, <1>u, <1>26 DEF SettledInv, AllReported, Settling, Shapes, Closing, vars
<1> QED
  BY <1>1, <1>2, <1>3, <1>4, <1>5, <1>6, <1>7, <1>8, <1>9, <1>10, <1>11, <1>12, <1>13,
     <1>14, <1>15, <1>16, <1>17, <1>18, <1>19, <1>20, <1>21, <1>22, <1>23, <1>24, <1>25, <1>26, <1>27
     DEF Next, Execute, Action, Settle, Cancel

\* A run whose steps have all reported does not stay open, whichever report came
\* last: CreateStep reopens the run, and the report of the new step settles it again.
THEOREM SettledWhenReported == Spec => []ReportedIsSettled
<1>1. Init => SettledInv
  BY Roles DEF Init, Start, SettledInv, AllReported
<1>2. Basics /\ SettledInv => ReportedIsSettled
  <2> SUFFICES ASSUME Basics, SettledInv, NothingCutShort, Quiet, AllReported
               PROVE  run.status \in RunTerminal
    BY DEF ReportedIsSettled, AllReported
  <2>1. ~Settling
    BY DEF Quiet, Settling
  <2>2. CASE Asked
    <3>1. PICK c \in Canceller : actor[c].at \notin {"idle", "refused"}
      BY <2>2 DEF Asked
    <3>2. actor[c].at = "done"
      BY <3>1, Roles DEF Quiet, NothingCutShort, Basics, Shapes
    <3> QED
      BY <3>2 DEF SettledInv, NothingCutShort, RunTerminal
  <2>3. CASE ~Asked
    BY <2>1, <2>3 DEF SettledInv, NothingCutShort, Undisturbed
  <2> QED
    BY <2>2, <2>3
<1> QED
  BY <1>1, <1>2, SettledStep, BasicsHold, CountsReports, PTL DEF Spec
============================================================================
