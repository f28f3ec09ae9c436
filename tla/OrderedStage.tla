---------------------------- MODULE OrderedStage ----------------------------
(***************************************************************************)
(* What a stage of a flow promises its neighbours when it handles blocks   *)
(* concurrently: the Parts it lets through come out in the order they came *)
(* in, a handler that changes structure runs alone and in its place, the   *)
(* stage holds a bounded number of Parts, and when it returns nothing of   *)
(* it is still running.  BaseTool.Process keeps the same promise with one  *)
(* Part at a time; ParallelBlocks implements it with a pool of workers.    *)
(***************************************************************************)
EXTENDS Integers, Sequences, FiniteSets

CONSTANTS
    BlockCap,   \* blocks the stage may hold
    HeldCap     \* Parts of any type it may hold

VARIABLES
    stream,     \* the Parts that come in
    taken,      \* how many of them the stage has taken
    handling,   \* positions of the Parts a handler is running for
    handled,    \* positions of the Parts a handler has run for
    passedOn,   \* how many Parts have left the stage, those dropped included
    out,        \* positions of the Parts that came out, in order
    calledOff,  \* whether the caller has cancelled
    outcome     \* what the stage returned

vars == <<stream, taken, handling, handled, passedOn, out, calledOff, outcome>>

\* The Part at a position, counted from 0 as the code counts.
PartAt(s) == stream[s + 1]

HeldBlocks == {s \in passedOn .. taken - 1 : PartAt(s).type = "block"}

\* Whether a Part needs no handler any more.
Settled(s) == PartAt(s).type = "passed" \/ s \in handled

Init ==
    /\ taken = 0
    /\ handling = {}
    /\ handled = {}
    /\ passedOn = 0
    /\ out = <<>>
    /\ calledOff = FALSE
    /\ outcome = "running"

Take ==
    /\ taken < Len(stream)
    /\ taken - passedOn < HeldCap
    /\ Cardinality(HeldBlocks) < BlockCap
    /\ taken' = taken + 1
    /\ UNCHANGED <<stream, handling, handled, passedOn, out, calledOff, outcome>>

\* A structural handler waits for everything before it.
BeginStructural(s) ==
    /\ PartAt(s).type = "handled"
    /\ handling = {}
    /\ \A t \in 0 .. s - 1 : Settled(t)

\* A block's handler waits for the structural handlers before it.
BeginBlock(s) ==
    /\ PartAt(s).type = "block"
    /\ \A t \in 0 .. s - 1 : PartAt(t).type = "handled" => Settled(t)
    /\ \A t \in handling : PartAt(t).type = "block"

Begin(s) ==
    /\ s \in passedOn .. taken - 1
    /\ s \notin handling \cup handled
    /\ BeginStructural(s) \/ BeginBlock(s)
    /\ handling' = handling \cup {s}
    /\ UNCHANGED <<stream, taken, handled, passedOn, out, calledOff, outcome>>

End(s) ==
    /\ s \in handling
    /\ handling' = handling \ {s}
    /\ handled' = handled \cup {s}
    /\ UNCHANGED <<stream, taken, passedOn, out, calledOff, outcome>>

PassOn ==
    /\ passedOn < taken
    /\ Settled(passedOn)
    /\ PartAt(passedOn).fate # "error"
    /\ out' = IF PartAt(passedOn).fate = "keep" THEN Append(out, passedOn) ELSE out
    /\ passedOn' = passedOn + 1
    /\ UNCHANGED <<stream, taken, handling, handled, calledOff, outcome>>

CallOff ==
    /\ ~calledOff
    /\ calledOff' = TRUE
    /\ UNCHANGED <<stream, taken, handling, handled, passedOn, out, outcome>>

\* Success means that everything came out; a failure was some handler's.
Return(o) ==
    /\ handling = {}
    /\ o = "ok" => passedOn = Len(stream)
    /\ o = "error" => calledOff \/ \E s \in handled : PartAt(s).fate = "error"
    /\ o = "cancelled" => calledOff
    /\ outcome' = o
    /\ UNCHANGED <<stream, taken, handling, handled, passedOn, out, calledOff>>

Next ==
    /\ outcome = "running"
    /\ \/ Take
       \/ \E s \in 0 .. taken - 1 : Begin(s) \/ End(s)
       \/ PassOn
       \/ CallOff
       \/ \E o \in {"ok", "error", "cancelled"} : Return(o)

Spec == Init /\ [][Next]_vars

=============================================================================
