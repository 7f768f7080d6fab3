------------------------------ MODULE ClaudeTurn ------------------------------
(***************************************************************************)
(* ClaudeProvider.prompt: one prompt read from the stream of a Claude CLI   *)
(* process that goes on working after its first result.  Background tasks   *)
(* wake the model for further turns on the same stream; the prompt waits    *)
(* for them up to a ceiling, a cancellation or the end of the stream.       *)
(*                                                                         *)
(* The CLI is external: it starts tasks while a turn runs, announces them   *)
(* and their end, and answers each notification with one result (empty ones *)
(* first when it answers several together), as the recorded sequences of    *)
(* tests/integrations/test_claude_background_turns.py do.  Questions and    *)
(* approvals are TurnRelay's subject; text and tool blocks are left out.    *)
(***************************************************************************)
EXTENDS Naturals, Sequences, FiniteSets, SequencesExt

CONSTANTS
    Tasks,       \* background tasks the CLI may start
    MaxPrompts,  \* bound: prompts of the session
    MaxUnread,   \* bound: the CLI goes on while fewer frames are unread
    MaxEvents    \* bound: cancellations, closings, deaths and failed connections

ASSUME ClaudeTurnAssumption ==
    MaxPrompts \in Nat \ {0} /\ MaxUnread \in Nat \ {0} /\ MaxEvents \in Nat

VARIABLES
    rt,       \* _ClaudeRuntime
    loop,     \* the local state of prompt
    cli,      \* external: the CLI process
    stream,   \* its frames that prompt has not yet received
    ceiling,  \* wait_ceiling is not 0
    done,     \* how each prompt ended
    items,    \* ghost: tool items of background tasks: opened and closed
    events    \* how many of MaxEvents happened

vars == <<rt, loop, cli, stream, ceiling, done, items, events>>

Prompts == 1 .. MaxPrompts
None    == [k |-> "none", of |-> 0, tasks |-> {}, out |-> "ok", wake |-> FALSE]
Frame(k, of, tasks, out, wake) ==
    [k |-> k, of |-> of, tasks |-> tasks, out |-> out, wake |-> wake]

\* a process: the turn it runs, for which prompt, its live tasks and, in order,
\* the prompts it still owes an answer to a notification
Process == [alive |-> TRUE, turn |-> "idle", of |-> 0, query |-> 0, live |-> {}, wakes |-> <<>>]
Dead    == [Process EXCEPT !.alive = FALSE]
Reading == [at |-> "read", n |-> 0, inWait |-> FALSE, got |-> None, result |-> None,
            stage |-> 0, asked |-> FALSE, dropped |-> FALSE]
Resting(l) == [Reading EXCEPT !.at = "idle", !.n = l.n]

Init ==
    /\ rt = [active |-> FALSE, waiting |-> FALSE, abandoned |-> FALSE, reconnect |-> FALSE,
             owed |-> 0, background |-> {}, closed |-> FALSE]
    /\ loop = Resting(Reading)
    /\ cli = Process
    /\ stream = <<>>
    /\ ceiling \in BOOLEAN
    /\ done = [n \in Prompts |-> [status |-> "none", of |-> 0, left |-> FALSE, asked |-> FALSE]]
    /\ items = [opened |-> {}, closed |-> {}]
    /\ events = 0

Event == events < MaxEvents /\ events' = events + 1
Runs == cli.alive /\ Len(stream) < MaxUnread
Emit(frames) == stream' = stream \o frames

\* the frame at hand, and those after it
Incoming ==
    IF loop.at = "handle" THEN loop.got
    ELSE IF loop.at = "read" /\ ~loop.inWait /\ stream # <<>> THEN Head(stream) ELSE None
Rest == IF loop.at = "read" /\ Incoming # None THEN Tail(stream) ELSE stream

\* what the CLI has not yet told or done of prompt n
Owes(n) ==
    cli.live # {} \/ n \in ToSet(cli.wakes) \/ (cli.turn # "idle" /\ cli.of = n)
Left(n) ==
    Owes(n) \/ \E i \in DOMAIN Rest : Rest[i].of = n /\ Rest[i].k \in {"notify", "result"}

------------------------------------------------------------------------------
(* The CLI.                                                                 *)

CliBegins ==
    /\ Runs /\ cli.turn = "idle" /\ cli.query # 0
    /\ cli' = [cli EXCEPT !.turn = "main", !.of = cli.query, !.query = 0]
    /\ Emit(<<Frame("init", cli.query, {}, "ok", FALSE)>>)
    /\ UNCHANGED <<rt, loop, ceiling, done, items, events>>

\* a task is announced by a task_started frame or by a snapshot
CliStarts(t) ==
    /\ Runs /\ cli.turn # "idle" /\ t \notin cli.live \cup items.opened
    /\ t \notin loop.got.tasks /\ \A i \in DOMAIN stream : t \notin stream[i].tasks
    /\ cli' = [cli EXCEPT !.live = @ \cup {t}]
    /\ \/ Emit(<<Frame("started", cli.of, {t}, "ok", FALSE)>>)
       \/ Emit(<<Frame("live", cli.of, cli.live \cup {t}, "ok", FALSE)>>)
    /\ UNCHANGED <<rt, loop, ceiling, done, items, events>>

\* its end is notified, and a snapshot may follow
CliTaskEnds(t) ==
    /\ Runs /\ t \in cli.live
    /\ cli' = [cli EXCEPT !.live = @ \ {t}, !.wakes = Append(@, cli.of)]
    /\ LET note == Frame("notify", cli.of, {t}, "ok", FALSE) IN
       \/ Emit(<<note>>)
       \/ Emit(<<note, Frame("live", cli.of, cli.live \ {t}, "ok", FALSE)>>)
    /\ UNCHANGED <<rt, loop, ceiling, done, items, events>>

CliEndsTurn(out) ==
    /\ Runs /\ cli.turn # "idle"
    /\ cli' = [cli EXCEPT !.turn = "idle"]
    /\ Emit(<<Frame("result", cli.of, {}, out, cli.turn = "wake")>>)
    /\ UNCHANGED <<rt, loop, ceiling, done, items>>

\* woken by the last notification; the ones before it get an empty result
CliWakes ==
    /\ Runs /\ cli.turn = "idle" /\ cli.query = 0 /\ cli.wakes # <<>>
    /\ IF Len(cli.wakes) > 1
       THEN /\ cli' = [cli EXCEPT !.wakes = Tail(@)]
            /\ Emit(<<Frame("result", Head(cli.wakes), {}, "empty", TRUE)>>)
       ELSE /\ cli' = [cli EXCEPT !.turn = "wake", !.of = Head(cli.wakes), !.wakes = <<>>]
            /\ \/ Emit(<<Frame("init", Head(cli.wakes), {}, "ok", TRUE)>>)
               \/ Emit(<<Frame("say", Head(cli.wakes), {}, "ok", TRUE)>>)
    /\ UNCHANGED <<rt, loop, ceiling, done, items, events>>

CliDies ==
    /\ Event
    /\ cli.alive
    /\ cli' = Dead
    /\ loop' = [loop EXCEPT !.dropped = @ \/ (rt.active /\ Owes(loop.n))]
    /\ UNCHANGED <<rt, stream, ceiling, done, items>>

------------------------------------------------------------------------------
(* The prompt.                                                              *)

Prompt ==
    /\ loop.at = "idle" /\ loop.n < MaxPrompts /\ ~rt.closed
    /\ LET n == loop.n + 1 fresh == rt.reconnect IN
       /\ loop' = [Reading EXCEPT !.n = n]
       /\ rt' = [rt EXCEPT !.active = TRUE, !.waiting = FALSE, !.abandoned = FALSE,
                           !.reconnect = FALSE, !.owed = 0, !.background = {}]
       /\ cli' = [(IF fresh THEN Process ELSE cli) EXCEPT !.query = n]
       /\ stream' = IF fresh THEN <<>> ELSE stream
    /\ items' = [opened |-> {}, closed |-> {}]
    /\ UNCHANGED <<ceiling, done, events>>

\* reconnecting fails before the prompt is active; the runtime stays as it is
ReconnectFails ==
    /\ loop.at = "idle" /\ loop.n < MaxPrompts /\ ~rt.closed /\ rt.reconnect
    /\ Event
    /\ loop' = [loop EXCEPT !.n = @ + 1]
    /\ done' = [done EXCEPT ![loop.n + 1].status = "raised"]
    /\ UNCHANGED <<rt, cli, stream, ceiling, items>>

\* finally: nothing of the turn stays in the runtime
Ends(status, of) ==
    /\ loop' = Resting(loop)
    /\ done' = [done EXCEPT ![loop.n] =
           [status |-> status, of |-> of, left |-> loop.dropped \/ Left(loop.n), asked |-> loop.asked]]
Settled(r) == [r EXCEPT !.active = FALSE, !.waiting = FALSE, !.owed = 0, !.background = {}]
Disconnected == cli' = Dead /\ stream' = <<>>

\* a broken or stopped stream is not read again
Raises(status) ==
    /\ Ends(status, 0)
    /\ rt' = [Settled(rt) EXCEPT !.reconnect = TRUE]
    /\ Disconnected
    /\ UNCHANGED <<items, ceiling>>

\* mutant: the stream of an abandoned turn is kept
AbandonsKept(status, of, background) ==
    /\ Ends(status, of)
    /\ rt' = Settled(rt)
    /\ items' = [items EXCEPT !.closed = @ \cup background]
    /\ UNCHANGED <<ceiling, cli, stream>>

\* mutant: the items of the remaining tasks stay open
AbandonsOpen(status, of, background) ==
    /\ Ends(status, of)
    /\ rt' = [Settled(rt) EXCEPT !.reconnect = TRUE]
    /\ Disconnected
    /\ UNCHANGED <<items, ceiling>>

\* the remaining tasks are closed as failed items and the stream is dropped
Abandons(status, of, background) ==
    /\ Ends(status, of)
    /\ rt' = [Settled(rt) EXCEPT !.reconnect = TRUE]
    /\ items' = [items EXCEPT !.closed = @ \cup background]
    /\ Disconnected
    /\ UNCHANGED ceiling

\* the status of the last result
StatusOf(result) ==
    CASE result.out = "bad" -> "failed" [] result.out = "cancelled" -> "cancelled"
      [] OTHER -> "completed"

\* while it waits, a frame may have arrived that is not handled yet: a
\* cancellation can come between (else the order makes no difference)
Receive ==
    /\ loop.at = "read" /\ loop.inWait /\ stream # <<>>
    /\ loop' = [loop EXCEPT !.at = "handle", !.got = Head(stream)]
    /\ stream' = Tail(stream)
    /\ UNCHANGED <<rt, cli, ceiling, done, items, events>>

Reads(l) ==
    /\ loop' = [l EXCEPT !.at = "read", !.got = None, !.inWait = rt'.waiting]
    /\ stream' = Rest

\* the stage's result is no longer the one that counts once a further turn shows
Woken(l) == IF rt.waiting THEN [l EXCEPT !.result = None] ELSE l
HandleTurn ==
    /\ Incoming.k \in {"init", "say"}
    /\ rt' = [rt EXCEPT !.waiting = FALSE]
    /\ Reads(Woken(loop))
    /\ UNCHANGED <<cli, ceiling, done, items, events>>

\* _track_background
Opened(new) == [items EXCEPT !.opened = @ \cup new]
HandleStarted ==
    /\ Incoming.k = "started"
    /\ rt' = [rt EXCEPT !.background = @ \cup Incoming.tasks]
    /\ items' = Opened(Incoming.tasks)
    /\ Reads(loop)
    /\ UNCHANGED <<cli, ceiling, done, events>>

HandleSnapshot ==
    /\ Incoming.k = "live"
    /\ rt' = [rt EXCEPT !.background = Incoming.tasks]
    /\ items' = [Opened(Incoming.tasks) EXCEPT
                    !.closed = @ \cup (rt.background \ Incoming.tasks)]
    /\ Reads(loop)
    /\ UNCHANGED <<cli, ceiling, done, events>>

\* every notification owes one result
HandleNotification ==
    /\ Incoming.k = "notify"
    /\ rt' = [rt EXCEPT !.owed = @ + 1, !.background = @ \ Incoming.tasks]
    /\ items' = [items EXCEPT !.closed = @ \cup (rt.background \cap Incoming.tasks)]
    /\ Reads(loop)
    /\ UNCHANGED <<cli, ceiling, done, events>>

OwedAfter(f) == IF (loop.stage > 0 \/ f.wake) /\ rt.owed > 0 THEN rt.owed - 1 ELSE rt.owed
LastResult(f) == rt.background = {} /\ OwedAfter(f) = 0

\* the last result ends the prompt, and so does one of a turn that went wrong
HandleLast ==
    /\ Incoming.k = "result" /\ LastResult(Incoming)
    /\ Ends(StatusOf(Incoming), Incoming.of)
    /\ rt' = Settled(rt)
    /\ stream' = Rest
    /\ UNCHANGED <<cli, ceiling, items, events>>

Stops(f) == f.out \in {"bad", "cancelled"} \/ ~ceiling
HandleAbandoned ==
    /\ Incoming.k = "result" /\ ~LastResult(Incoming)
    /\ Stops(Incoming)
    /\ Abandons(StatusOf(Incoming), Incoming.of, rt.background)
    /\ UNCHANGED events

\* mutant: the prompt goes on reading without a ceiling
HandleStageUntimed ==
    LET f == Incoming IN
    /\ f.k = "result" /\ ~LastResult(f) /\ ~Stops(f)
    /\ rt' = [rt EXCEPT !.owed = OwedAfter(f)]
    /\ Reads([loop EXCEPT !.result = f, !.stage = IF f.out # "empty" THEN 1 ELSE @])
    /\ UNCHANGED <<cli, ceiling, done, items, events>>

\* a stage ended: what its tasks owe is waited for
HandleStage ==
    LET f == Incoming IN
    /\ f.k = "result" /\ ~LastResult(f) /\ ~Stops(f)
    /\ rt' = [rt EXCEPT !.owed = OwedAfter(f), !.waiting = TRUE]
    /\ Reads([loop EXCEPT !.result = f, !.stage = 1])
    /\ UNCHANGED <<cli, ceiling, done, items, events>>

\* nothing came for the length of the ceiling
Timeout ==
    /\ loop.at = "read" /\ loop.inWait /\ cli.alive /\ stream = <<>>
    /\ cli.turn = "idle"
    /\ Abandons("failed", 0, rt.background)
    /\ UNCHANGED events

\* the stream ends while it is waited for, or during a turn
StreamEnds ==
    /\ loop.at = "read" /\ ~cli.alive /\ stream = <<>>
    /\ IF loop.inWait
       THEN IF rt.abandoned THEN Abandons("cancelled", 0, rt.background) ELSE Raises("raised")
       ELSE \/ Raises("raised")
            \/ /\ loop.result # None
               /\ Ends(StatusOf(loop.result), loop.result.of)
               /\ rt' = Settled(rt)
               /\ UNCHANGED <<cli, stream, ceiling, items>>
    /\ UNCHANGED events

\* the task that runs the prompt is cancelled where it awaits
CancelTask ==
    /\ loop.at \in {"read", "handle"}
    /\ Event
    /\ Raises("raised")

------------------------------------------------------------------------------
(* cancel and close, from other tasks.                                      *)

Interrupted ==
    IF cli.alive /\ cli.turn # "idle"
    THEN /\ cli' = [cli EXCEPT !.turn = "idle"]
         /\ Emit(<<Frame("result", cli.of, {}, "cancelled", cli.turn = "wake")>>)
    ELSE UNCHANGED <<cli, stream>>

\* only an idle stream is dropped; a running turn is interrupted
Cancel ==
    /\ rt.active /\ ~loop.asked
    /\ Event
    /\ loop' = [loop EXCEPT !.asked = TRUE, !.dropped = @ \/ (rt.waiting /\ Left(loop.n))]
    /\ IF rt.waiting
       THEN /\ rt' = [rt EXCEPT !.abandoned = TRUE, !.waiting = FALSE, !.reconnect = TRUE]
            /\ Disconnected
       ELSE Interrupted /\ UNCHANGED rt
    /\ UNCHANGED <<ceiling, done, items>>

Close ==
    /\ ~rt.closed
    /\ Event
    /\ rt' = [rt EXCEPT !.closed = TRUE, !.abandoned = @ \/ (rt.active /\ rt.waiting)]
    /\ loop' = [loop EXCEPT !.asked = rt.active]
    /\ Disconnected
    /\ UNCHANGED <<ceiling, done, items>>

Handle ==
    \/ HandleTurn \/ HandleStarted \/ HandleSnapshot \/ HandleNotification
    \/ HandleLast \/ HandleAbandoned \/ HandleStage

Next ==
    \/ CliBegins \/ CliWakes \/ CliDies
    \/ \E t \in Tasks : CliStarts(t) \/ CliTaskEnds(t)
    \/ CliEndsTurn("ok") /\ UNCHANGED events
    \/ CliEndsTurn("bad") /\ Event
    \/ Prompt \/ ReconnectFails \/ Receive \/ Handle \/ Timeout \/ StreamEnds
    \/ CancelTask \/ Cancel \/ Close

Fairness ==
    /\ WF_vars(Receive) /\ WF_vars(Handle) /\ WF_vars(Timeout) /\ WF_vars(StreamEnds)
    /\ WF_vars(CliBegins) /\ WF_vars(CliEndsTurn("ok") /\ UNCHANGED events)

Spec == Init /\ [][Next]_vars /\ Fairness

Symmetry == Permutations(Tasks)

------------------------------------------------------------------------------
\* A prompt's answer is one the CLI gave to that prompt or to its tasks, never
\* the tail of an earlier prompt's work.
OwnReply ==
    \A n \in Prompts : done[n].status \in {"completed", "failed"} => done[n].of \in {0, n}

\* A completed prompt left nothing behind, unless the user asked not to wait
\* (a ceiling of 0) or stopped it: no task runs, no notification is unanswered.
CompletedIsWhole ==
    \A n \in Prompts :
        done[n].status = "completed" /\ ceiling /\ ~done[n].asked => ~done[n].left

\* A prompt that returns has closed the item of each task it showed, unless the
\* stream was dropped under it.
ItemsClosed ==
    loop.at = "idle" /\ loop.n > 0 /\ done[loop.n].status \in {"completed", "failed", "cancelled"}
    /\ ~done[loop.n].asked => items.opened \subseteq items.closed

\* Waiting for background tasks ends, however silent they are.
EventuallyEnds == rt.active ~> ~rt.active

\* A prompt that was stopped while it waited is not reported as completed with
\* the reply of its stage.
StoppedIsNotCompleted ==
    \A n \in Prompts : done[n].status = "completed" /\ ceiling => ~done[n].left

\* However a turn ends, it says its own, and what it says of itself and of its
\* items is settled.
TurnTrue == OwnReply /\ CompletedIsWhole /\ ItemsClosed
==============================================================================
