------------------------------ MODULE TurnRelay ------------------------------
(****************************************************************************)
(* One turn of an ACP agent, from the prompt to the terminal event of the   *)
(* session log (AgentService._prompt in harnesses/service.py, with the ACP  *)
(* client host of integrations/harnesses/acp.py and the PermissionBroker    *)
(* of harnesses/approvals.py).                                              *)
(*                                                                          *)
(* Every notification and every permission request of the agent runs in a   *)
(* task of its own.  `relay` puts its event at the end of one queue and     *)
(* waits; one consumer stores the event and then shows it to the client.    *)
(* When the prompt is over, `finalize` closes the queue with a sentinel,    *)
(* waits for the consumer, adds what was not relayed, and writes the        *)
(* terminal event.  Approvals are decided by the user, by the end of the    *)
(* turn, or by AgentService.cancel from another task.                       *)
(*                                                                          *)
(* A step is what a task does between two awaits; the tasks interleave.     *)
(* MaxFailures and MaxCancels bound the faults; a notification or a request *)
(* arrives when its task first runs, at any time, also after the turn.      *)
(****************************************************************************)
EXTENDS Naturals, Sequences, FiniteSets, SequencesExt

CONSTANTS
    Updates,      \* session/update notifications the agent may send
    Planned,      \* those of them that also yield a plan event (TodoWrite)
    Approvals,    \* session/request_permission calls the agent may make
    MaxFailures,  \* failing writes or client notifications
    MaxCancels    \* cancellations of the task that awaits the turn

ASSUME RelayAssumption ==
    /\ Planned \subseteq Updates
    /\ MaxFailures \in Nat /\ MaxCancels \in Nat

Sweepers == {"turn", "side"}     \* who runs end_turn: prompt() or cancel()
Deciders == Sweepers \cup {"user"}
Decision(who) == IF who = "user" THEN "accept" ELSE "cancel"
Answers == {"accept", "cancel"}
Outcomes == {"completed", "cancelled", "failed"}

Update(u) == <<"update", u>>
Plan(u) == <<"plan", u>>
Request(a) == <<"request", a>>
Response(a, d) == <<"response", a, d>>
Events == {Update(u) : u \in Updates} \cup {Plan(u) : u \in Planned}
          \cup {Request(a) : a \in Approvals}
          \cup {Response(a, d) : a \in Approvals, d \in Answers}
Sentinel == <<"sentinel">>
Terminal(status) == <<"terminal", status>>
Terminals == {Terminal(status) : status \in Outcomes}

VARIABLES
    svc,       \* the service's coroutine: "prompting", "draining", "ended"
    acp,       \* AcpProvider.prompt: "waiting", "unwinding", "ending", "left"
    outcome,   \* what the prompt came to, once it has left "waiting"
    task,      \* task of each notification or request
    pending,   \* PermissionBroker.pending
    resolving, \* <<approval, decider>> whose response is being delivered
    answer,    \* the decision each asker's future holds, or "none"
    sweep,     \* per sweeper: approvals of its snapshot left, and whether it runs
    active,    \* _AcpClientHost._turn_active
    bound,     \* the host's callback is set
    events,    \* _AcpClientHost.events, which become ProviderTurn.events
    captured,  \* ProviderTurn.events
    queue,     \* pending of _prompt
    consumer,  \* the deliver task runs
    closing,   \* relay drops what comes
    live,      \* events stored as they came (live_events)
    failed,    \* events whose delivery failed
    shown,     \* events the client has been shown
    log,       \* the turn's part of the session log
    accepted,  \* events relay has put in the queue, in that order (ghost)
    torn,      \* a cancellation cut an end_turn short (ghost)
    faults, cancels

broker == <<pending, resolving, answer, sweep, active, bound>>
relayVars == <<queue, closing, events, accepted>>
delivery == <<consumer, live, failed, shown, log>>
turn == <<svc, acp, outcome, captured, torn, cancels>>
vars == <<task, broker, relayVars, delivery, turn, faults>>

Callers == Updates \cup Approvals

TypeOK ==
    /\ svc \in {"prompting", "draining", "ended"}
    /\ acp \in {"waiting", "unwinding", "ending", "left"}
    /\ outcome \in Outcomes \cup {"none"}
    /\ task \in [Callers -> {"unsent", "first", "last", "dropped"}]
    /\ pending \subseteq Approvals
    /\ resolving \subseteq (Approvals \X Deciders)
    /\ \A r \in resolving : r[1] \notin pending
    /\ answer \in [Approvals -> Answers \cup {"none"}]
    /\ sweep \in [Sweepers -> [left : SUBSET Approvals, on : BOOLEAN]]
    /\ {active, bound, consumer, closing, torn} \subseteq BOOLEAN
    /\ ToSet(events) \cup ToSet(captured) \cup ToSet(accepted) \cup live \cup failed
         \cup ToSet(shown) \subseteq Events
    /\ ToSet(queue) \subseteq Events \cup {Sentinel}
    /\ ToSet(log) \subseteq Events \cup Terminals
    /\ faults \in 0..MaxFailures /\ cancels \in 0..MaxCancels

Init ==
    /\ svc = "prompting" /\ acp = "waiting" /\ outcome = "none"
    /\ task = [c \in Callers |-> "unsent"]
    /\ pending = {} /\ resolving = {} /\ answer = [a \in Approvals |-> "none"]
    /\ sweep = [s \in Sweepers |-> [left |-> {}, on |-> FALSE]]
    /\ active = TRUE /\ bound = TRUE
    /\ events = <<>> /\ captured = <<>> /\ queue = <<>> /\ accepted = <<>>
    /\ consumer = TRUE /\ closing = FALSE /\ live = {} /\ failed = {}
    /\ shown = <<>> /\ log = <<>>
    /\ torn = FALSE /\ faults = 0 /\ cancels = 0

\* relay: at the end of the queue while the turn takes events.
EnqueueFirst(q, e) == <<e>> \o q
Enqueue(q, e) == Append(q, e)
Relays == bound /\ ~closing
Relay(e) ==
    /\ queue' = IF Relays THEN Enqueue(queue, e) ELSE queue
    /\ accepted' = IF Relays THEN Append(accepted, e) ELSE accepted
\* emit_event through relay returns at once when the event is not taken.
Delivered(e) == e \in ToSet(shown) \/ e \in failed
Waits(e) == e \in ToSet(accepted) /\ ~Delivered(e)

----------------------------------------------------------------------------
(* The agent's notifications and requests, each in its own task. *)

\* session_update up to its first emit_event; it holds on to the callback.
HandleUpdate(u) ==
    /\ task[u] = "unsent"
    /\ events' = events \o IF u \in Planned THEN <<Update(u), Plan(u)>> ELSE <<Update(u)>>
    /\ Relay(Update(u))
    /\ task' = [task EXCEPT ![u] = IF ~Relays THEN "dropped"
                                   ELSE IF u \in Planned THEN "first" ELSE "last"]
    /\ UNCHANGED <<closing, broker, delivery, turn, faults>>

\* The relay of its first event returns and the plan event follows, through
\* the callback the task took when it began.
NextEvent(u) ==
    /\ task[u] = "first" /\ Delivered(Update(u))
    /\ LET relays == Update(u) \notin failed /\ ~closing IN
         /\ queue' = IF relays THEN Enqueue(queue, Plan(u)) ELSE queue
         /\ accepted' = IF relays THEN Append(accepted, Plan(u)) ELSE accepted
    /\ task' = [task EXCEPT ![u] = "last"]
    /\ UNCHANGED <<closing, events, broker, delivery, turn, faults>>

\* request_permission in user mode: a turn that is ending takes no more
\* requests, otherwise PermissionBroker.ask registers the request and emits it.
TakesRequestsBound == bound
TakesRequests == active /\ bound

HandleRequest(a) ==
    /\ task[a] = "unsent"
    /\ IF TakesRequests
       THEN /\ pending' = pending \cup {a}
            /\ events' = Append(events, Request(a))
            /\ Relay(Request(a))
            /\ task' = [task EXCEPT ![a] = "last"]
       ELSE /\ task' = [task EXCEPT ![a] = "dropped"]
            /\ UNCHANGED <<pending, events, queue, accepted>>
    /\ UNCHANGED <<resolving, answer, sweep, active, bound, closing, delivery, turn, faults>>

\* The delivery of the request raised before anyone decided it: the asker
\* withdraws it and answers the agent with an error.
Withdraw(a) ==
    /\ task[a] = "last" /\ Request(a) \in failed /\ answer[a] = "none"
    /\ task' = [task EXCEPT ![a] = "dropped"]
    /\ pending' = pending \ {a}
    /\ UNCHANGED <<resolving, answer, sweep, active, bound, relayVars, delivery, turn, faults>>

\* What a task still waits for, once it has nothing more to emit.
Released(c) ==
    \/ task[c] = "dropped"
    \/ /\ task[c] = "last"
       /\ IF c \in Updates THEN \A e \in {Update(c), Plan(c)} : ~Waits(e)
                           ELSE ~Waits(Request(c)) /\ answer[c] # "none"

----------------------------------------------------------------------------
(* PermissionBroker.resolve: the request is claimed before its response is  *)
(* delivered, and the asker's future is set after that, recorded or not.    *)
ClaimedAfter(a) == pending \ {a}

BeginResolve(a, who) ==
    /\ a \in pending
    /\ pending' = ClaimedAfter(a)
    /\ resolving' = resolving \cup {<<a, who>>}
    /\ events' = Append(events, Response(a, Decision(who)))
    /\ Relay(Response(a, Decision(who)))

\* The user decides on a request the client shows.
Decide(a) ==
    /\ Request(a) \in ToSet(shown)
    /\ ~\E r \in resolving : r = <<a, "user">>
    /\ BeginResolve(a, "user")
    /\ UNCHANGED <<answer, sweep, active, bound, closing, task, delivery, turn, faults>>

EndResolve(a, who) ==
    /\ <<a, who>> \in resolving
    /\ ~Waits(Response(a, Decision(who)))
    /\ resolving' = resolving \ {<<a, who>>}
    /\ answer' = [answer EXCEPT ![a] = IF @ = "none" THEN Decision(who) ELSE @]

Decided(a) ==
    /\ EndResolve(a, "user")
    /\ UNCHANGED <<pending, sweep, active, bound, task, relayVars, delivery, turn, faults>>

----------------------------------------------------------------------------
(* end_turn: no more requests, every pending one cancelled in turn, then    *)
(* the callback is dropped.                                                 *)

BeginEnd(s) ==
    /\ sweep' = [sweep EXCEPT ![s] = [left |-> pending, on |-> TRUE]]
    /\ active' = FALSE

\* cancel_all's loop: the next pending request of the snapshot.
SweepNext(s) ==
    /\ sweep[s].on
    /\ ~\E r \in resolving : r[2] = s
    /\ \E a \in sweep[s].left \cap pending :
         /\ BeginResolve(a, s)
         /\ sweep' = [sweep EXCEPT ![s].left = @ \ {a}]
    /\ UNCHANGED <<answer, active, bound, closing, task, delivery, turn, faults>>

SweepSet(s) ==
    /\ \E a \in Approvals : EndResolve(a, s)
    /\ UNCHANGED <<pending, sweep, active, bound, task, relayVars, delivery, turn, faults>>

Swept(s) ==
    /\ sweep[s].on
    /\ ~\E r \in resolving : r[2] = s
    /\ sweep[s].left \cap pending = {}

\* AgentService.cancel: end_turn from another task, then the agent is told.
SideCancel ==
    /\ acp = "waiting" /\ ~sweep["side"].on /\ active
    /\ BeginEnd("side")
    /\ UNCHANGED <<pending, resolving, answer, bound, task, relayVars, delivery, turn, faults>>

SideCancelled ==
    /\ Swept("side")
    /\ sweep' = [sweep EXCEPT !["side"].on = FALSE]
    /\ bound' = FALSE
    /\ UNCHANGED <<pending, resolving, answer, active, task, relayVars, delivery, turn, faults>>

\* The agent answers the prompt, or the connection fails.
PromptReturns ==
    /\ acp = "waiting" /\ acp' = "ending"
    /\ outcome' \in {"completed", "failed"}
    /\ BeginEnd("turn")
    /\ UNCHANGED <<svc, captured, torn, cancels, pending, resolving, answer, bound,
                   task, relayVars, delivery, faults>>

\* A cancellation reaches whatever prompt() awaits.  Its handler runs
\* end_turn; the `finally` clause runs it once more.  One that strikes while
\* the last end_turn cancels a request sets that request's future and leaves
\* the rest of the snapshot, and the callback, as they are.
CancelPrompt ==
    /\ svc = "prompting" /\ cancels < MaxCancels
    /\ cancels' = cancels + 1
    /\ outcome' = "cancelled"
    /\ \/ /\ acp = "waiting" /\ acp' = "unwinding"
          /\ BeginEnd("turn")
          /\ UNCHANGED <<resolving, answer, torn, captured>>
       \/ \E a \in Approvals :
            /\ <<a, "turn">> \in resolving
            /\ resolving' = resolving \ {<<a, "turn">>}
            /\ answer' = [answer EXCEPT ![a] = IF @ = "none" THEN "cancel" ELSE @]
            /\ \/ /\ acp = "unwinding" /\ acp' = "ending"
                  /\ BeginEnd("turn")
                  /\ UNCHANGED <<torn, captured>>
               \/ /\ acp = "ending" /\ acp' = "left"
                  /\ torn' = TRUE
                  /\ sweep' = [sweep EXCEPT !["turn"] = [left |-> {}, on |-> FALSE]]
                  /\ UNCHANGED <<active, captured>>
    /\ UNCHANGED <<svc, pending, bound, task, relayVars, delivery, faults>>

TurnSwept ==
    /\ Swept("turn")
    /\ bound' = FALSE
    /\ \/ /\ acp = "unwinding" /\ acp' = "ending"    \* connection.cancel, then finally
          /\ sweep' = [sweep EXCEPT !["turn"].left = pending]
          /\ UNCHANGED captured
       \/ /\ acp = "ending" /\ acp' = "left"
          /\ sweep' = [sweep EXCEPT !["turn"].on = FALSE]
          /\ captured' = events
    /\ UNCHANGED <<svc, outcome, torn, cancels, pending, resolving, answer, active,
                   task, relayVars, delivery, faults>>

----------------------------------------------------------------------------
(* The consumer: an event is written in a worker thread, and shown when the *)
(* write has returned.  It goes on after a failure.                         *)

Take ==
    /\ consumer /\ queue # <<>> /\ Head(queue) # Sentinel
    /\ queue' = Tail(queue)
    /\ UNCHANGED <<closing, events, accepted, consumer, task, broker, turn>>

StoreAndShow ==
    /\ Take
    /\ log' = Append(log, Head(queue))
    /\ live' = live \cup {Head(queue)}
    /\ shown' = Append(shown, Head(queue))
    /\ UNCHANGED <<failed, faults>>

\* The write raises, before or after the line is in the file.
StoreFails ==
    /\ Take
    /\ faults < MaxFailures /\ faults' = faults + 1
    /\ failed' = failed \cup {Head(queue)}
    /\ log' \in {log, Append(log, Head(queue))}
    /\ UNCHANGED <<live, shown>>

\* The client's stream raises after the write.
ShowFails ==
    /\ Take
    /\ faults < MaxFailures /\ faults' = faults + 1
    /\ failed' = failed \cup {Head(queue)}
    /\ log' = Append(log, Head(queue))
    /\ live' = live \cup {Head(queue)}
    /\ UNCHANGED shown

ConsumerEnds ==
    /\ consumer /\ queue # <<>> /\ Head(queue) = Sentinel
    /\ queue' = Tail(queue) /\ consumer' = FALSE
    /\ UNCHANGED <<closing, events, accepted, live, failed, shown, log, task, broker, turn,
                   faults>>

----------------------------------------------------------------------------
(* finalize, which no cancellation reaches. *)

\* The queue is closed behind what has been accepted.
StartFinalize ==
    /\ svc = "prompting" /\ acp = "left"
    /\ svc' = "draining"
    /\ closing' = TRUE
    /\ queue' = Append(queue, Sentinel)
    /\ UNCHANGED <<acp, outcome, captured, torn, cancels, events, accepted, task, broker,
                   delivery, faults>>

\* A failed delivery outweighs the provider's answer or error.
ProviderStatus == outcome
FinalStatus == IF failed # {} THEN "failed" ELSE outcome

WholeCapture == captured
\* Of the events that were captured those that were not stored, in their order.
Unstored == {i \in DOMAIN captured : captured[i] \notin live}
Leftovers ==
    [k \in 1 .. Cardinality(Unstored) |->
       captured[CHOOSE i \in Unstored : Cardinality({j \in Unstored : j <= i}) = k]]

Drained == closing /\ ~consumer

EndTurn ==
    /\ svc = "draining" /\ Drained
    /\ svc' = "ended"
    /\ \/ /\ log' = IF FinalStatus = "completed"
                    THEN log \o Leftovers \o <<Terminal("completed")>>
                    ELSE Append(log, Terminal(FinalStatus))
          /\ UNCHANGED faults
       \/ /\ FinalStatus = "completed" /\ faults < MaxFailures
          /\ faults' = faults + 1
          /\ log' = Append(log, Terminal("failed"))
    /\ UNCHANGED <<acp, outcome, captured, torn, cancels, task, broker, relayVars,
                   consumer, live, failed, shown>>

----------------------------------------------------------------------------
Deliver == StoreAndShow \/ StoreFails \/ ShowFails \/ ConsumerEnds
Loop ==
    \/ \E u \in Updates : NextEvent(u)
    \/ \E a \in Approvals : Withdraw(a) \/ Decided(a)
    \/ \E s \in Sweepers : SweepNext(s) \/ SweepSet(s)
    \/ SideCancelled \/ TurnSwept \/ StartFinalize \/ EndTurn

Next ==
    \/ \E u \in Updates : HandleUpdate(u)
    \/ \E a \in Approvals : HandleRequest(a) \/ Decide(a)
    \/ SideCancel \/ PromptReturns \/ CancelPrompt
    \/ Loop \/ Deliver

\* Every ready task of the event loop runs, in some order, and every write
\* returns.  Nothing makes the user decide or the agent answer.
Fairness ==
    /\ WF_vars(Deliver)
    /\ \A u \in Updates : WF_vars(NextEvent(u))
    /\ \A a \in Approvals : WF_vars(Withdraw(a)) /\ WF_vars(Decided(a))
    /\ \A s \in Sweepers : WF_vars(SweepNext(s) \/ SweepSet(s))
    /\ WF_vars(SideCancelled) /\ WF_vars(TurnSwept)
    /\ WF_vars(StartFinalize) /\ WF_vars(EndTurn)

Spec == Init /\ [][Next]_vars /\ Fairness

----------------------------------------------------------------------------
(* Properties. *)

Before(e, f, seq) == \E i, j \in DOMAIN seq : i < j /\ seq[i] = e /\ seq[j] = f
Times(e) == Cardinality({i \in DOMAIN log : log[i] = e})
Ended == svc = "ended"

\* However the tasks interleave, the log and the client get the relayed events
\* in the order relay took them, and the client sees nothing that had to be
\* stored and was not (the FIFO and its one consumer in _prompt).
ArrivalOrder ==
    /\ \A e, f \in live : Before(e, f, log) => Before(e, f, accepted)
    /\ \A e \in live : Times(e) = 1 /\ e \in ToSet(accepted)
    /\ \A e, f \in ToSet(shown) : Before(e, f, shown) => Before(e, f, accepted)
    /\ ToSet(shown) \subseteq live
    /\ \A i, j \in DOMAIN accepted : accepted[i] = accepted[j] => i = j

\* A turn the log calls completed is there as a whole: every event the agent
\* produced up to its answer that is worth storing is in the log exactly once,
\* relayed or left over, and no delivery failed (deliver, finalize).
CompletedIsWhole ==
    Terminal("completed") \in ToSet(log) =>
      /\ failed = {}
      /\ \A e \in ToSet(captured) \cup ToSet(accepted) : Times(e) = 1

\* The terminal event closes the turn: nothing of the turn is written after
\* it, whatever arrives late or is still being decided.
TerminalIsLast ==
    [][(\E t \in Terminals : t \in ToSet(log)) => log' = log]_vars

\* An approval is decided once: the log never holds two responses to it, and
\* the agent is never given a decision other than the one recorded, whoever
\* among the user, the ending turn and a cancellation came first.
DecidedOnce ==
    \A a \in Approvals :
      /\ Cardinality({i \in DOMAIN log : log[i] \in {Response(a, d) : d \in Answers}}) <= 1
      /\ \A d \in Answers :
           Response(a, d) \in ToSet(log) /\ answer[a] # "none" => answer[a] = d

\* When the turn is over, every task of the agent ends: no notification waits
\* for a delivery nobody makes and no request for a decision nobody can take.
\* (A cancellation that strikes while the last end_turn cancels requests can
\* leave requests behind; that case is excluded here.)
EveryTaskEnds ==
    Ended /\ ~torn ~> \A c \in Callers : task[c] # "unsent" => Released(c)

\* The log and the client have the turn in order and, once completed, whole; an
\* approval has one decision, the same for log and agent.
RelayedWhole == TypeOK /\ ArrivalOrder /\ CompletedIsWhole /\ DecidedOnce

\* A turn that is over is over: for its log, and for every task of the agent.
RelayEnds == TerminalIsLast /\ EveryTaskEnds
==============================================================================
