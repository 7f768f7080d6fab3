----------------------------- MODULE HostControl -----------------------------
(****************************************************************************)
(* HostController of computer/host.py: the mouse and keyboard input that    *)
(* Cleo gives to the user's own computer, one operation at a time, each in  *)
(* a thread; stops, which do not wait for ever; and the user, whose own     *)
(* input pauses the operations until control is handed back.                *)
(*                                                                          *)
(* The desktop broker is external: it sends operations with the activity    *)
(* baseline of the last result, "mark" when the user hands control back,    *)
(* and stops.  So is Windows, which may reject an input.  A step is what a  *)
(* thread does between two calls of the system; geometry, screenshots and   *)
(* the texts typed are left out.                                            *)
(****************************************************************************)
EXTENDS Naturals, Sequences

CONSTANTS
    Calls,        \* operations the broker may send
    Stops,        \* stops it may send
    Ops,          \* the kinds of operation
    MaxActivity,  \* bound: inputs of the user
    MaxFaults     \* bound: inputs Windows rejects

VARIABLES
    lock,        \* who holds _lock: a call, a stop or Free
    generation, active, pending,
    baseline,    \* _activity_baseline: the count of the user's inputs, or Unknown
    tracked,     \* _keys and _buttons
    calls,       \* the local state of each _run
    stops,       \* the local state of each _stop
    monitor,     \* the input hooks have not been closed
    activity,    \* external: how often the user gave input
    down,        \* external: the keys and buttons Cleo's input holds down
    told,        \* external: the baseline the broker knows, or Unknown
    ghost,       \* late, unpaused, unseen: an input was given after a settled stop,
                 \* during a pause, with activity nobody acknowledged;
                 \* settled: the generation of the last settled stop; raced: a stop
                 \* released without the lock; stuck: what Windows would not release
    faults

vars == <<lock, generation, active, pending, baseline, tracked, calls, stops, monitor,
          activity, down, told, ghost, faults>>
control == <<generation, active, pending, baseline>>
world == <<activity, told, monitor>>

Free == "free"
None == "none"
Unknown == MaxActivity + 1  \* no baseline yet
Keys == {"left", "ctrl", "win", "k"}
Counts == 0 .. Unknown

\* The steps of the operations.
Step(do, key) == [do |-> do, key |-> key]
Check  == <<Step("generation", None), Step("user", None)>>
Input  == <<Step("input", None)>>
Press(key) == <<Step("hold", key), Step("down", key)>>
Combo(modifiers, key) ==
    (IF modifiers = None THEN <<>> ELSE Check \o <<Step("pressed", modifiers), Step("down", modifiers)>>)
    \o (IF key = None THEN <<>> ELSE Check \o Press(key) \o <<Step("tapped", key)>>)
    \o <<Step("finally", None)>>
Handler(op) ==
    CASE op = "move"   -> Input
      [] op = "click"  -> Input \o Check \o Press("left") \o <<Step("up", "left")>>
      [] op = "drag"   -> Input \o Press("left") \o <<Step("try", "left")>> \o Check \o Input
                          \o <<Step("finally", None)>>
      [] op = "key"    -> Combo("ctrl", "k")
      [] op = "type"   -> Check \o Input
      [] op = "launch" -> Combo("win", None) \o Check \o Check \o Input \o Check \o Combo(None, "k")
      [] OTHER         -> <<Step("grab", None)>>
Script(op) == Check \o Handler(op) \o Check \o <<Step("end", None)>>

Idle == [at |-> "idle", op |-> "move", generation |-> 0, began |-> 0, given |-> Unknown, pc |-> 1,
         pressed |-> {}, seen |-> 0, shot |-> Unknown, raised |-> None]

Done == [Idle EXCEPT !.at = "done"]

Init ==
    /\ lock = Free /\ generation = 0 /\ active = 0 /\ pending = FALSE /\ baseline = Unknown
    /\ tracked = {} /\ calls = [c \in Calls |-> Idle]
    /\ stops = [s \in Stops |-> [at |-> "idle", locked |-> FALSE, generation |-> 0, exit |-> FALSE]]
    /\ monitor = TRUE /\ activity = 0 /\ down = {} /\ told = Unknown
    /\ ghost = [late |-> FALSE, unpaused |-> FALSE, unseen |-> FALSE, acknowledged |-> Unknown,
                settled |-> 0, raced |-> FALSE, stuck |-> {}, paused |-> FALSE]
    /\ faults = 0

Fault == faults < MaxFaults /\ faults' = faults + 1

------------------------------------------------------------------------------
(* An operation: it takes the generation, then the lock.                    *)

Request(c) ==
    /\ calls[c].at = "idle"
    /\ \E op \in Ops :
        calls' = [calls EXCEPT ![c] = [Idle EXCEPT !.at = "requested", !.op = op, !.given = told]]
    /\ UNCHANGED <<lock, control, tracked, stops, world, down, ghost, faults>>

Arrive(c) ==
    /\ calls[c].at = "requested"
    /\ calls' = [calls EXCEPT ![c].at = "waiting", ![c].generation = generation,
                              ![c].began = generation]
    /\ UNCHANGED <<lock, control, tracked, stops, world, down, ghost, faults>>

Busy(c) ==
    /\ calls[c].at = "waiting" /\ lock # Free
    /\ calls' = [calls EXCEPT ![c] = Done]
    /\ UNCHANGED <<lock, control, tracked, stops, world, down, ghost, faults>>

\* Only the user's handing back acknowledges what the user did.
Mark(c) ==
    /\ calls[c].at = "waiting" /\ lock = Free /\ calls[c].op = "mark"
    /\ active' = calls[c].generation /\ pending' = FALSE
    /\ calls' = [calls EXCEPT ![c] = Done]
    /\ IF monitor
       THEN /\ baseline' = activity /\ told' = activity
            /\ ghost' = [ghost EXCEPT !.acknowledged = activity, !.paused = FALSE]
       ELSE UNCHANGED <<baseline, told>> /\ ghost' = [ghost EXCEPT !.paused = FALSE]
    /\ UNCHANGED <<lock, generation, tracked, stops, monitor, activity, down, faults>>

FirstBaseline(c) ==
    IF calls[c].given # Unknown THEN calls[c].given
    ELSE IF baseline # Unknown THEN baseline ELSE activity

\* (mutant) The generation is taken under the lock.
EnterLateRead(c) ==
    /\ calls[c].at = "waiting" /\ lock = Free /\ calls[c].op # "mark"
    /\ lock' = c /\ active' = generation
    /\ baseline' = FirstBaseline(c)
    /\ calls' = [calls EXCEPT ![c].at = "running"]
    /\ ghost' = [ghost EXCEPT !.acknowledged = IF @ = Unknown THEN FirstBaseline(c) ELSE @]
    /\ UNCHANGED <<generation, pending, tracked, stops, world, down, faults>>
Enter(c) ==
    /\ calls[c].at = "waiting" /\ lock = Free /\ calls[c].op # "mark"
    /\ lock' = c /\ active' = calls[c].generation
    /\ baseline' = FirstBaseline(c)
    /\ calls' = [calls EXCEPT ![c].at = "running"]
    /\ ghost' = [ghost EXCEPT !.acknowledged = IF @ = Unknown THEN FirstBaseline(c) ELSE @]
    /\ UNCHANGED <<generation, pending, tracked, stops, world, down, faults>>

At(c, do) ==
    /\ lock = c /\ calls[c].at = "running"
    /\ Script(calls[c].op)[calls[c].pc].do = do
Key(c) == Script(calls[c].op)[calls[c].pc].key
Onward(c) == [calls EXCEPT ![c].pc = @ + 1]
Raise(c, what) == [calls EXCEPT ![c].at = "unwinding", ![c].raised = what]

\* _checkpoint looks at the generation first; the monitor may take its time.
CheckGeneration(c) ==
    /\ At(c, "generation")
    /\ calls' = IF generation = active THEN Onward(c) ELSE Raise(c, "stopped")
    /\ UNCHANGED <<lock, control, tracked, stops, world, down, ghost, faults>>

CheckUser(c) ==
    /\ At(c, "user")
    /\ CASE pending \/ (monitor /\ activity # baseline) ->
              /\ pending' = TRUE /\ calls' = Raise(c, "user")
              /\ ghost' = [ghost EXCEPT !.paused = TRUE]
         [] ~pending /\ ~monitor ->
              calls' = Raise(c, "stopped") /\ UNCHANGED <<pending, ghost>>
         [] OTHER ->
              /\ calls' = [Onward(c) EXCEPT ![c].seen = activity]
              /\ UNCHANGED <<pending, ghost>>
    /\ UNCHANGED <<lock, generation, active, baseline, tracked, stops, world, down, faults>>

\* What the user has a right to expect of every input.
Given(c) ==
    ghost' = [ghost EXCEPT
        !.late = @ \/ calls[c].began < ghost.settled,
        !.unpaused = @ \/ ghost.paused,
        !.unseen = @ \/ calls[c].seen # ghost.acknowledged]

Rejected(c) ==
    Fault /\ calls' = Raise(c, "rejected") /\ UNCHANGED <<down, ghost>>

\* Input that leaves nothing down: a move, the wheel, text, a window brought up.
GiveInput(c) ==
    /\ At(c, "input")
    /\ \/ Given(c) /\ calls' = Onward(c) /\ UNCHANGED <<down, faults>>
       \/ Rejected(c)
    /\ UNCHANGED <<lock, control, tracked, stops, world>>

\* A key is remembered before it is pressed.
Hold(c) ==
    /\ At(c, "hold") \/ At(c, "pressed")
    /\ tracked' = tracked \cup {Key(c)}
    /\ calls' = IF At(c, "pressed") THEN [Onward(c) EXCEPT ![c].pressed = @ \cup {Key(c)}]
                ELSE Onward(c)
    /\ UNCHANGED <<lock, control, stops, world, down, ghost, faults>>

Down(c) ==
    /\ At(c, "down")
    /\ \/ /\ down' = down \cup {Key(c)} /\ Given(c)
          /\ calls' = Onward(c) /\ UNCHANGED faults
       \/ Rejected(c)
    /\ UNCHANGED <<lock, control, tracked, stops, world>>

\* _release_button, and the end of a tap, which fails when a stop has cleared
\* the list meanwhile.
Up(c) ==
    /\ At(c, "up") \/ At(c, "tapped")
    /\ \/ /\ down' = down \ {Key(c)} /\ tracked' = tracked \ {Key(c)}
          /\ calls' = IF At(c, "tapped") /\ Key(c) \notin tracked THEN Raise(c, "stopped")
                      ELSE Onward(c)
          /\ UNCHANGED <<ghost, faults>>
       \/ /\ Fault /\ calls' = Raise(c, "rejected")
          /\ ghost' = [ghost EXCEPT !.stuck = @ \cup {Key(c)}]
          /\ UNCHANGED <<down, tracked>>
    /\ UNCHANGED <<lock, control, stops, world>>

\* The drag is inside its try block: its button will be released if it is
\* still in the list by then.
Try(c) ==
    /\ At(c, "try")
    /\ calls' = [Onward(c) EXCEPT ![c].pressed = {Key(c)}]
    /\ UNCHANGED <<lock, control, tracked, stops, world, down, ghost, faults>>

\* What the finally blocks still have to release: a combination its modifiers,
\* a drag its button when it is in the list.
Owed(c) ==
    IF calls[c].op = "drag" THEN calls[c].pressed \cap tracked ELSE calls[c].pressed

Finally(c) ==
    /\ At(c, "finally") \/ (lock = c /\ calls[c].at = "unwinding")
    /\ Owed(c) # {}
    /\ \E k \in Owed(c) :
        /\ tracked' = tracked \ {k}
        /\ calls' = [calls EXCEPT ![c].pressed = @ \ {k}]
        /\ \/ down' = down \ {k} /\ UNCHANGED <<ghost, faults>>
           \/ /\ Fault /\ UNCHANGED down
              /\ ghost' = [ghost EXCEPT !.stuck = @ \cup {k}]
    /\ UNCHANGED <<lock, control, stops, world>>

Through(c) ==
    /\ At(c, "finally") /\ Owed(c) = {}
    /\ calls' = [Onward(c) EXCEPT ![c].pressed = {}]
    /\ UNCHANGED <<lock, control, tracked, stops, world, down, ghost, faults>>

Grab(c) ==
    /\ At(c, "grab")
    /\ calls' = IF monitor THEN [Onward(c) EXCEPT ![c].shot = activity] ELSE Raise(c, "stopped")
    /\ UNCHANGED <<lock, control, tracked, stops, world, down, ghost, faults>>

\* A screenshot keeps the baseline it was taken with, an action takes a new one.
End(c) ==
    /\ At(c, "end") /\ lock' = Free
    /\ calls' = [calls EXCEPT ![c] = Done]
    /\ IF calls[c].op = "screenshot"
       THEN baseline' = calls[c].shot /\ told' = calls[c].shot /\ UNCHANGED ghost
       ELSE IF monitor
       THEN /\ baseline' = activity /\ told' = activity
            /\ ghost' = [ghost EXCEPT !.acknowledged = activity]
       ELSE UNCHANGED <<baseline, told, ghost>>
    /\ UNCHANGED <<generation, active, pending, tracked, stops, activity, monitor, down, faults>>

\* An operation that failed: the user's activity also releases what is tracked
\* (_release goes through the list first and clears it then).
Fail(c) ==
    /\ lock = c /\ calls[c].at = "unwinding" /\ Owed(c) = {}
    /\ IF calls[c].raised = "user"
       THEN /\ down' = down \ tracked
            /\ calls' = [calls EXCEPT ![c].at = "clearing"] /\ UNCHANGED lock
       ELSE /\ lock' = Free /\ calls' = [calls EXCEPT ![c] = Done] /\ UNCHANGED down
    /\ UNCHANGED <<control, tracked, stops, world, ghost, faults>>

Clear(c) ==
    /\ lock = c /\ calls[c].at = "clearing"
    /\ tracked' = {} /\ lock' = Free /\ calls' = [calls EXCEPT ![c] = Done]
    /\ UNCHANGED <<control, stops, world, down, ghost, faults>>

Running(c) ==
    \/ CheckGeneration(c) \/ CheckUser(c) \/ GiveInput(c) \/ Hold(c) \/ Down(c) \/ Up(c) \/ Try(c)
    \/ Finally(c) \/ Through(c) \/ Grab(c) \/ End(c) \/ Fail(c) \/ Clear(c)

------------------------------------------------------------------------------
(* A stop: it outdates the operations, then waits three seconds.            *)

BeginStop(s) ==
    /\ stops[s].at = "idle" /\ generation' = generation + 1
    /\ \E exit \in BOOLEAN :
        stops' = [stops EXCEPT ![s] = [at |-> "waiting", locked |-> FALSE,
                                       generation |-> generation + 1, exit |-> exit]]
    /\ UNCHANGED <<lock, active, pending, baseline, tracked, calls, world, down, ghost, faults>>

StopLocks(s) ==
    /\ stops[s].at = "waiting" /\ lock = Free /\ lock' = s
    /\ stops' = [stops EXCEPT ![s].at = "releasing", ![s].locked = TRUE]
    /\ UNCHANGED <<control, tracked, calls, world, down, ghost, faults>>

\* Three seconds are over.
StopGivesUp(s) ==
    /\ stops[s].at = "waiting" /\ lock # Free
    /\ stops' = [stops EXCEPT ![s].at = "releasing"]
    /\ ghost' = [ghost EXCEPT !.raced = TRUE]
    /\ UNCHANGED <<lock, control, tracked, calls, world, down, faults>>

StopReleases(s) ==
    /\ stops[s].at = "releasing" /\ down' = down \ tracked
    /\ stops' = [stops EXCEPT ![s].at = "clearing"]
    /\ UNCHANGED <<lock, control, tracked, calls, world, ghost, faults>>

StopEnds(s) ==
    /\ stops[s].at = "clearing" /\ tracked' = {}
    /\ stops' = [stops EXCEPT ![s].at = "done"]
    /\ monitor' = (monitor /\ ~stops[s].exit)
    /\ IF stops[s].locked
       THEN /\ lock' = Free
            /\ ghost' = [ghost EXCEPT !.settled = IF @ < stops[s].generation THEN stops[s].generation ELSE @]
       ELSE UNCHANGED <<lock, ghost>>
    /\ UNCHANGED <<control, calls, activity, told, down, faults>>

UserActs ==
    /\ activity < MaxActivity /\ activity' = activity + 1
    /\ UNCHANGED <<lock, control, tracked, calls, stops, monitor, down, told, ghost, faults>>

Next ==
    \/ \E c \in Calls : Request(c) \/ Arrive(c) \/ Busy(c) \/ Mark(c) \/ Enter(c) \/ Running(c)
    \/ \E s \in Stops : BeginStop(s) \/ StopLocks(s) \/ StopGivesUp(s) \/ StopReleases(s) \/ StopEnds(s)
    \/ UserActs

Spec == Init /\ [][Next]_vars

------------------------------------------------------------------------------
TypeOK ==
    /\ lock \in Calls \cup Stops \cup {Free} /\ generation \in Nat /\ active \in Nat
    /\ pending \in BOOLEAN /\ monitor \in BOOLEAN
    /\ {baseline, told, ghost.acknowledged} \subseteq Counts /\ activity \in 0 .. MaxActivity
    /\ tracked \subseteq Keys /\ down \subseteq Keys

\* When a stop has returned settled, no operation that had begun before it
\* gives input any more, not even one that waited for the lock all the time.
\* (host.py:601-628, tests/integrations/test_computer_host.py:349)
StopIsFinal == ~ghost.late

\* Whatever way an operation ends, by itself, at a stop, for the user or with
\* an input Windows rejects, nothing of it stays pressed, unless Windows would
\* not release it or a stop that gave up waiting released beside it.
NothingLeftDown ==
    lock = Free /\ ~ghost.raced => down \subseteq ghost.stuck

\* Once the user's own input has been noticed, nothing is typed or clicked
\* before the user hands control back; and every input follows a look that saw
\* no activity since what was acknowledged last.  (host.py:612-623, 660-666)
PausesForUser == ~ghost.unpaused /\ ~ghost.unseen

InputControlled == TypeOK /\ StopIsFinal /\ NothingLeftDown /\ PausesForUser

\* Three statements that do not hold.  A stop that gave up waiting clears the
\* list while a drag presses its button, and nobody releases it; an operation
\* sent before a stop may read the generation after it; and what the user does
\* between the last look of an action and its new baseline is overlooked.
NeverLeftDown == lock = Free => down \subseteq ghost.stuck
SentBeforeIsStopped ==
    [][\A s \in Stops, c \in Calls :
        stops[s].at = "waiting" /\ calls[c].at = "requested" => calls[c].at' # "waiting"]_vars
NothingOverlooked ==
    [][\A c \in Calls : End(c) /\ calls[c].op # "screenshot" => baseline' = calls[c].seen]_vars
==============================================================================
