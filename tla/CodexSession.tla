---------------------------- MODULE CodexSession ----------------------------
(****************************************************************************)
(* One Codex session of integrations/harnesses/codex.py: its turns, the     *)
(* approval and question brokers (codex_approvals.py, questions.py), and    *)
(* the app-server clients behind it.                                        *)
(*                                                                          *)
(* A reader thread takes the server's messages one after the other; a       *)
(* request blocks it until the brokers answer, so nothing behind the        *)
(* request is read before that.  The event loop runs prompt(), the task     *)
(* that streams the turn, the decisions of the user, and cancel(), close()  *)
(* or archive_session() of another caller.  A step is what one of them does *)
(* between two awaits (or what the thread does between two locks).          *)
(*                                                                          *)
(* The app server and its SDK are external: the server starts a turn, sends *)
(* messages and requests, completes the turn, and answers an interrupt of a *)
(* turn that is over with an error or not.  MaxTurns, MaxNotes, MaxFaults,  *)
(* MaxCancels and MaxClients bound turns, messages per turn, failing event  *)
(* deliveries and dying servers, cancellations, and clients.                *)
(****************************************************************************)
EXTENDS Naturals, Sequences, FiniteSets

CONSTANTS
    Approvals,    \* approval requests the server may make
    Questions,    \* questions it may ask
    Decisions,    \* what the user may decide
    MaxTurns, MaxFaults, MaxClients

Requests == Approvals \cup Questions
NoRequest == "no request"
Clients == 1..MaxClients
Modes == {"user", "deny_all"}
SideOps == {"cancel", "close", "archive"}
\* What a request is answered with: an approval is accepted, declined or
\* cancelled, a question is answered or not ("cancel").
Acks == {"ack prompt", "error prompt", "ack side", "error side"}
Answers == {"accept", "decline", "cancel", "unavailable"}
EndPcs == {"idle", "torn"}

VARIABLES
    \* The prompt and its turn.
    turns,      \* prompts begun
    prompt,     \* where prompt() is
    task,       \* the turn task: "none", "starting", "streaming", "done"
    active,     \* runtime.active_turn is set
    attended,   \* enable_user_approvals has been called
    bound,      \* the approval broker's callback is set
    asks,       \* the question broker's callback is set
    cancelled,  \* this prompt has been cancelled (ghost)
    \* The app server and the reader thread.
    native,     \* the turn in the server: "none", "starting", "running", "over"
    wire,       \* what it has sent and the thread has not read
    reader,     \* the request the thread is in, or NoRequest
    stage,      \* of that request: "emitting", "waiting"
    \* The brokers.
    response,   \* the decision fixed for each request, "none" before
    done,       \* requests whose waiting thread has been woken
    emitting,   \* <<who, request>>: a response being delivered
    recorded,   \* the responses delivered for each request
    given,      \* what the server was answered
    told,       \* what resolve() told the user's client
    \* The session and its clients.
    session,    \* the handle is in _sessions
    client,     \* runtime.client
    life,       \* each client: "none", "up", "open" (thread open), "closed"
    mode,       \* the approval mode each client was launched with
    option,     \* runtime.options.approval_mode
    wanted,     \* the mode of the update in progress
    update,     \* where _reconnect_computer_permissions is, or "none"
    side,       \* where cancel, close or archive_session is
    op,         \* which of them it is
    faults

turnVars == <<turns, prompt, task, active, attended, bound, asks, cancelled>>
serverVars == <<native, wire>>
readerVars == <<reader, stage>>
brokerVars == <<response, done, emitting, recorded, given, told>>
clientVars == <<session, client, life, mode, option, wanted, update>>
sideVars == <<side, op>>
vars == <<turnVars, serverVars, readerVars, brokerVars, clientVars, sideVars, faults>>

TypeOK ==
    /\ turns \in 0..MaxTurns /\ faults \in 0..MaxFaults
    /\ prompt \in {"idle", "shielded", "unasking", "refusing", "starting", "interrupt",
                   "interrupting", "draining", "dropping", "closing", "gathering",
                   "clearing", "leaving", "torn"}
    /\ task \in {"none", "starting", "streaming", "done"}
    /\ {active, attended, bound, asks, cancelled, session} \subseteq BOOLEAN
    /\ native \in {"none", "starting", "running", "over"}
    /\ wire \in Seq(Requests \cup {"started", "completed", "eof"}
                   \cup Acks)
    /\ stage \in {"emitting", "waiting"}
    /\ reader \in Requests \cup {NoRequest, "stopped"}
    /\ response \in [Requests -> Answers \cup {"none"}]
    /\ done \subseteq Requests
    /\ emitting \subseteq ({"user", "prompt", "side", "poll"} \X Requests)
    /\ recorded \in [Requests -> SUBSET Answers]
    /\ given \in [Requests -> Answers \cup {"none"}]
    /\ told \in [Requests -> Answers \cup {"none"}]
    /\ client \in Clients /\ life \in [Clients -> {"none", "up", "open", "closed"}]
    /\ mode \in [Clients -> Modes] /\ option \in Modes /\ wanted \in Modes
    /\ update \in {"none", "entered", "switching", "failed", "restoring"}
    /\ side \in {"none", "unasking", "refusing", "interrupt", "interrupting",
                 "closing", "done"}
    /\ op \in SideOps

Init ==
    /\ turns = 0 /\ prompt = "idle" /\ task = "none" /\ active = FALSE /\ bound = FALSE
    /\ asks = FALSE /\ attended \in BOOLEAN
    /\ cancelled = FALSE
    /\ native = "none" /\ wire = <<>> /\ reader = NoRequest /\ stage = "emitting"
    /\ response = [x \in Requests |-> "none"] /\ done = {} /\ emitting = {}
    /\ recorded = [x \in Requests |-> {}]
    /\ given = [x \in Requests |-> "none"] /\ told = [x \in Requests |-> "none"]
    /\ session = FALSE /\ client = 1 /\ life = [c \in Clients |-> "none"]
    /\ mode = [c \in Clients |-> "user"] /\ option = "user" /\ wanted = "user"
    /\ update = "none" /\ side = "none" /\ op = "cancel" /\ faults = 0

Alive == life[client] = "open"
Disturb == faults < MaxFaults /\ faults' = faults + 1

----------------------------------------------------------------------------
(* The session: opening it, and replacing its client when the approval mode *)
(* changes.  Only one client may have the thread open.                       *)

\* create_session, resume_session, fork_session: a client that cannot open
\* its thread is closed and no session is kept.
Open ==
    /\ life[1] = "none"
    /\ \/ life' = [life EXCEPT ![1] = "open"] /\ session' = TRUE /\ UNCHANGED faults
       \/ Disturb
          /\ life' = [life EXCEPT ![1] = "closed"] /\ UNCHANGED session
    /\ UNCHANGED <<client, mode, option, wanted, update, turnVars, serverVars,
                   readerVars, brokerVars, sideVars>>

\* The next client's index, while the bound allows one.
Fresh == CHOOSE c \in Clients : life[c] = "none" /\ \A d \in 1..(c - 1) : life[d] # "none"
HasFresh == \E c \in Clients : life[c] = "none"

\* update_session_options with another approval mode, called while no run
\* uses the session (a change during a run is queued): the new client starts.
BeginUpdate ==
    /\ session /\ update = "none" /\ prompt \in EndPcs /\ ~active /\ HasFresh
    /\ wanted' \in Modes \ {option}
    /\ update' = "entered"
    /\ life' = [life EXCEPT ![Fresh] = "up"]
    /\ mode' = [mode EXCEPT ![Fresh] = wanted']
    /\ UNCHANGED <<session, client, option, turnVars, serverVars, readerVars, brokerVars,
                   sideVars, faults>>

Entered == CHOOSE c \in Clients : life[c] = "up"

\* The client that goes is closed.
GiveUp == life' = [life EXCEPT ![client] = "closed"]

\* The old client gives up the thread before the new one opens it.
CloseOld ==
    /\ update = "entered" /\ GiveUp
    /\ wire' = <<>> /\ native' = "over"
    /\ update' = "switching"
    /\ UNCHANGED <<session, client, mode, option, wanted, turnVars,
                   readerVars, brokerVars, sideVars, faults>>

\* The new client opens the thread, and becomes the session's with the new
\* options; or it fails, is closed, and another one starts with the old ones.
Switch ==
    /\ update = "switching"
    /\ \/ life' = [life EXCEPT ![Entered] = "open"]
          /\ client' = Entered /\ option' = wanted /\ update' = "none"
          /\ reader' = NoRequest /\ UNCHANGED <<mode, faults>>
       \/ HasFresh /\ Disturb
          /\ life' = [life EXCEPT ![Entered] = "closed", ![Fresh] = "up"]
          /\ mode' = [mode EXCEPT ![Fresh] = option]
          /\ update' = "restoring"
          /\ UNCHANGED <<client, option, reader>>
    /\ UNCHANGED <<session, wanted, stage, turnVars, serverVars, brokerVars, sideVars>>

\* The previous policy is back, or the session is left with its closed client.
Restore ==
    /\ update = "restoring"
    /\ \/ life' = [life EXCEPT ![Entered] = "open"] /\ client' = Entered
          /\ reader' = NoRequest /\ UNCHANGED faults
       \/ Disturb
          /\ life' = [life EXCEPT ![Entered] = "closed"] /\ UNCHANGED <<client, reader>>
    /\ update' = "none"
    /\ UNCHANGED <<session, mode, option, wanted, stage, turnVars, serverVars, brokerVars,
                   sideVars>>

----------------------------------------------------------------------------
(* The app server (external). *)

Send(m) == wire' = Append(wire, m)

ServerStarts ==
    /\ native = "starting" /\ Alive
    /\ native' = "running" /\ Send("started")
    /\ UNCHANGED <<turnVars, readerVars, brokerVars, clientVars, sideVars, faults>>

Unasked(x) ==
    /\ response[x] = "none" /\ given[x] = "none" /\ reader # x
    /\ x \notin {wire[i] : i \in 1..Len(wire)}
ServerAsks(x) ==
    /\ native = "running" /\ Alive /\ Unasked(x)
    /\ Send(x)
    /\ UNCHANGED <<native, turnVars, readerVars, brokerVars, clientVars, sideVars,
                   faults>>

ServerCompletes ==
    /\ native = "running" /\ Alive
    /\ \A x \in Requests : Unasked(x) \/ given[x] # "none"
    /\ native' = "over" /\ Send("completed")
    /\ UNCHANGED <<turnVars, readerVars, brokerVars, clientVars, sideVars, faults>>

\* The server process dies.
ServerDies ==
    /\ Alive /\ Disturb
    /\ life' = [life EXCEPT ![client] = "closed"]
    /\ native' = "over" /\ Send("eof")
    /\ UNCHANGED <<session, client, mode, option, wanted, update, turnVars,
                   readerVars, brokerVars, sideVars>>

----------------------------------------------------------------------------
(* The reader thread. *)

Message == wire[1]
Reading == reader = NoRequest /\ wire # <<>>

\* The stream of the turn: its start, and its end.  The messages in between
\* become events of the turn in this order and wait for nothing here.
ReadTurn ==
    /\ Reading /\ Message \in {"started", "completed"}
    /\ wire' = Tail(wire)
    /\ task' = IF Message = "started" /\ task = "starting" THEN "streaming"
               ELSE IF Message = "completed" /\ task = "streaming" THEN "done" ELSE task
    /\ active' = (active \/ (Message = "started" /\ task = "starting"))
    /\ UNCHANGED <<native, turns, prompt, attended, bound, asks, cancelled, readerVars,
                   brokerVars, clientVars, sideVars, faults>>

\* The end of the server's output: the thread stops, and with it every wait
\* for the server.
ReadEnd ==
    /\ Reading /\ Message = "eof"
    /\ wire' = Tail(wire) /\ reader' = "stopped"
    /\ task' = IF task = "none" THEN "none" ELSE "done"
    /\ UNCHANGED <<native, stage, turns, prompt, active, attended, bound, asks,
                   cancelled, brokerVars, clientVars, sideVars, faults>>

\* CodexApprovalBroker.handle: without a callback an approval is declined,
\* otherwise it is pending from here on and its event is sent to the loop.
ReadApproval ==
    /\ Reading /\ Message \in Approvals
    /\ wire' = Tail(wire)
    /\ IF bound THEN reader' = Message /\ stage' = "emitting" /\ UNCHANGED given
       ELSE given' = [given EXCEPT ![Message] = "decline"] /\ UNCHANGED <<reader, stage>>
    /\ UNCHANGED <<native, response, done, emitting, recorded, told, turnVars,
                   clientVars, sideVars, faults>>

\* ask_sync, and ask in the loop: a question that is not well formed (what
\* normalize_questions refuses) or that nobody can be asked has no answer.
CanAsk(wellFormed) == wellFormed /\ asks
ReadQuestion ==
    /\ Reading /\ Message \in Questions
    /\ wire' = Tail(wire)
    /\ \E wellFormed \in BOOLEAN :
         IF CanAsk(wellFormed)
         THEN reader' = Message /\ stage' = "emitting" /\ UNCHANGED given
         ELSE given' = [given EXCEPT ![Message] = "cancel"] /\ UNCHANGED <<reader, stage>>
    /\ UNCHANGED <<native, response, done, emitting, recorded, told, turnVars,
                   clientVars, sideVars, faults>>

Answer(x, a) ==
    /\ given' = [given EXCEPT ![x] = a]
    /\ reader' = NoRequest

\* The request's event is delivered, or that fails: then an approval is given
\* the decision already made or declined, and a question ends in an error.
Delivered ==
    /\ reader \in Requests /\ stage = "emitting"
    /\ \/ stage' = "waiting" /\ UNCHANGED <<reader, given, faults>>
       \/ /\ Disturb /\ UNCHANGED stage
          /\ Answer(reader, IF response[reader] # "none" THEN response[reader]
                            ELSE IF reader \in Approvals THEN "decline" ELSE "cancel")
    /\ UNCHANGED <<response, done, emitting, recorded, told, turnVars, serverVars,
                   clientVars, sideVars>>

\* The thread is woken and answers the server.
Decided ==
    /\ reader \in Requests /\ stage = "waiting" /\ reader \in done
    /\ Answer(reader, response[reader])
    /\ UNCHANGED <<stage, response, done, emitting, recorded, told, turnVars, serverVars,
                   clientVars, sideVars, faults>>

----------------------------------------------------------------------------
(* Decisions. *)

Pending == {reader} \cap Requests
Undecided == {x \in Pending : response[x] = "none"}

KeepResolving == UNCHANGED <<given, turnVars, serverVars, readerVars, clientVars, sideVars>>
Submits(x) ==
    /\ session /\ x \in Undecided /\ <<"user", x>> \notin emitting
    /\ emitting' = emitting \cup {<<"user", x>>}
Submitted(x, ok) ==
    /\ <<"user", x>> \in emitting /\ emitting' = emitting \ {<<"user", x>>}
    /\ IF ok THEN UNCHANGED faults ELSE Disturb

\* CodexApprovalBroker.resolve: the decision is fixed under the lock, then
\* delivered; the thread is woken whether the delivery succeeded or not.
ResolveApproval(x, d) ==
    /\ Submits(x) /\ response' = [response EXCEPT ![x] = d]
    /\ UNCHANGED <<done, recorded, told, faults>> /\ KeepResolving
ApprovalResolved(x, ok) ==
    /\ Submitted(x, ok)
    /\ recorded' = IF ok THEN [recorded EXCEPT ![x] = @ \cup {response[x]}] ELSE recorded
    /\ done' = done \cup {x} /\ told' = [told EXCEPT ![x] = response[x]]
    /\ UNCHANGED response /\ KeepResolving

\* A plausible defect: the answers are released without being recorded.
ReleasedUnrecorded(x, ok) == response[x] = "none"
\* QuestionBroker.resolve: the answers are delivered, then released if the
\* question is still open.
ResolveQuestion(x) ==
    /\ Submits(x) /\ UNCHANGED <<response, done, recorded, told, faults>> /\ KeepResolving
Released(x, ok) == ok /\ response[x] = "none"
QuestionResolved(x, ok) ==
    /\ Submitted(x, ok)
    /\ recorded' = IF ok THEN [recorded EXCEPT ![x] = @ \cup {"accept"}] ELSE recorded
    /\ IF Released(x, ok)
       THEN /\ response' = [response EXCEPT ![x] = "accept"]
            /\ told' = [told EXCEPT ![x] = "accept"] /\ done' = done \cup {x}
       ELSE UNCHANGED <<response, told, done>>
    /\ KeepResolving
ResolveEnds(x) ==
    \E ok \in BOOLEAN : IF x \in Approvals THEN ApprovalResolved(x, ok)
                        ELSE QuestionResolved(x, ok)

\* ask's watch over the transport: a question nobody can deliver an answer to
\* any more is withdrawn.
Poll ==
    /\ reader \in Questions /\ stage = "waiting" /\ reader \in Undecided /\ ~Alive
    /\ <<"poll", reader>> \notin emitting
    /\ emitting' = emitting \cup {<<"poll", reader>>}
    /\ UNCHANGED <<response, done, recorded, given, told, turnVars, serverVars, readerVars,
                   clientVars, sideVars, faults>>

\* cancel_all of both brokers: a question's withdrawal is delivered first, an
\* approval's cancellation is fixed first.  who delivers it; a cancellation
\* of who cuts the delivery short but still withdraws the question.
Withdrawn(x) ==
    /\ response' = IF response[x] = "none" THEN [response EXCEPT ![x] = "cancel"] ELSE response
    /\ done' = done \cup {x}
WithdrawalEnds(who, x) ==
    /\ who \in {"prompt", "side", "poll"} /\ <<who, x>> \in emitting
    /\ emitting' = emitting \ {<<who, x>>}
    /\ Withdrawn(x)
    /\ \/ /\ recorded' = [recorded EXCEPT ![x] =
                           @ \cup {IF who = "poll" THEN "unavailable" ELSE "cancel"}]
          /\ UNCHANGED faults
       \/ Disturb /\ UNCHANGED recorded
    /\ UNCHANGED <<given, told, turnVars, serverVars, readerVars, clientVars, sideVars>>

\* The two steps a caller takes through the brokers; each is over when
\* nothing is left to deliver.
Unask(who) ==
    /\ Undecided \cap Questions # {}
    /\ emitting' = emitting \cup {<<who, x>> : x \in Undecided}
    /\ UNCHANGED <<response, done, recorded, given, told>>
Refuse(who) ==
    /\ (Pending \cap Approvals) \ done # {}
    /\ response' = [x \in Requests |-> IF x \in Undecided THEN "cancel" ELSE response[x]]
    /\ done' = done \cup Pending
    /\ emitting' = emitting \cup {<<who, x>> : x \in Undecided}
    /\ UNCHANGED <<recorded, given, told>>
Busy(who) == \E x \in Requests : <<who, x>> \in emitting
NothingToUnask(who) == ~Busy(who) /\ Undecided \cap Questions = {}
NothingToRefuse(who) == ~Busy(who) /\ Pending \cap Approvals \subseteq done

----------------------------------------------------------------------------
(* prompt(): the turn under the session's lock. *)

\* _start_turn: the turn's task asks the server to start the turn.
StartTurn ==
    IF Alive THEN task' = "starting" /\ native' = "starting"
    ELSE task' = "done" /\ UNCHANGED native

\* The lock is free, and the callbacks are set.
StartPrompt ==
    /\ session /\ prompt \in EndPcs /\ turns < MaxTurns /\ update = "none"
    /\ turns' = turns + 1 /\ prompt' = "shielded" /\ bound' = attended /\ asks' = TRUE
    /\ cancelled' = FALSE
    /\ StartTurn
    /\ UNCHANGED <<active, attended, wire, readerVars, brokerVars, clientVars, sideVars, faults>>

\* One step of prompt() from pc to next; what it changes besides.
Moves(from, next) == prompt = from /\ prompt' = next
KeepTurn == UNCHANGED <<turns, task, attended, bound, asks, cancelled>>
KeepRest == UNCHANGED <<readerVars, clientVars, sideVars, faults>>
Finally == IF task = "done" THEN "clearing" ELSE "dropping"

TurnEnds == /\ Moves("shielded", "clearing") /\ task = "done"
            /\ KeepTurn /\ KeepRest /\ UNCHANGED <<active, serverVars, brokerVars>>

\* turn_started is set once _start_turn has returned or failed.
TurnStarted == task # "starting"

\* The cancelled prompt withdraws what is open and interrupts the turn, once
\* it has started; the shielded task reads on until the turn is over.
CancelledSteps ==
    \/ prompt = "unasking" /\ ~Busy("prompt") /\ Unask("prompt")
       /\ UNCHANGED <<prompt, active, serverVars>>
    \/ Moves("unasking", "refusing") /\ NothingToUnask("prompt")
       /\ UNCHANGED <<active, serverVars, brokerVars>>
    \/ prompt = "refusing" /\ ~Busy("prompt") /\ Refuse("prompt")
       /\ UNCHANGED <<prompt, active, serverVars>>
    \/ Moves("refusing", "starting") /\ NothingToRefuse("prompt")
       /\ UNCHANGED <<active, serverVars, brokerVars>>
    \/ Moves("starting", "interrupt") /\ TurnStarted
       /\ UNCHANGED <<active, serverVars, brokerVars>>
    \/ Moves("draining", "clearing") /\ task = "done"
       /\ UNCHANGED <<active, serverVars, brokerVars>>

\* interrupt(): the server stops the turn; one that is over already it may
\* refuse to interrupt.  who waits for the answer.
Interrupt(ack, error) ==
    /\ native' = "over"
    /\ \/ native = "running" /\ wire' = wire \o <<ack, "completed">>
       \/ native # "running" /\ \E a \in {ack, error} : wire' = Append(wire, a)
InterruptTurn ==
    \/ Moves("interrupt", "draining") /\ (task = "done" \/ ~active) /\ UNCHANGED serverVars
    \/ /\ prompt = "interrupt" /\ task # "done" /\ active
       /\ IF Alive THEN prompt' = "interrupting" /\ Interrupt("ack prompt", "error prompt")
          ELSE prompt' = "dropping" /\ UNCHANGED serverVars
Interrupts == InterruptTurn /\ UNCHANGED <<active, brokerVars>>

\* The thread reads the answer to an interrupt.  close() goes on to close the
\* client; an error ends cancel() and close() alike.
AfterInterrupt == IF op = "close" THEN "closing" ELSE "done"
ReadAck ==
    /\ Reading /\ Message \in Acks
    /\ wire' = Tail(wire)
    /\ prompt' = CASE prompt = "interrupting" /\ Message = "ack prompt" -> "draining"
                   [] prompt = "interrupting" /\ Message = "error prompt" -> Finally
                   [] OTHER -> prompt
    /\ side' = CASE side = "interrupting" /\ Message = "ack side" -> AfterInterrupt
                 [] side = "interrupting" /\ Message = "error side" -> "done"
                 [] OTHER -> side
    /\ UNCHANGED <<op, native, turns, task, active, attended, bound, asks,
                   cancelled, readerVars, brokerVars, clientVars, faults>>

\* finally: a turn still unfinished loses its client; then the brokers are
\* unbound and the lock is released.  What is open is withdrawn once more
\* there: nothing is (LeavesNothing).
FinallySteps ==
    \/ prompt = "dropping" /\ ~Busy("prompt") /\ Refuse("prompt")
       /\ UNCHANGED <<prompt, active, bound, asks>>
    \/ Moves("dropping", "closing") /\ NothingToRefuse("prompt")
       /\ UNCHANGED <<active, bound, asks, brokerVars>>
    \/ Moves("gathering", "clearing") /\ task = "done"
       /\ UNCHANGED <<active, bound, asks, brokerVars>>
    \/ Moves("clearing", "leaving")
       /\ active' = FALSE /\ asks' = FALSE /\ UNCHANGED <<bound, brokerVars>>
    \/ Moves("leaving", "idle")
       /\ bound' = FALSE /\ UNCHANGED <<active, asks, brokerVars>>

\* client.close() ends the server and with it the thread's input.
Close(c) ==
    /\ life' = [life EXCEPT ![c] = "closed"]
    /\ IF life[c] = "open" THEN native' = "over" /\ wire' = Append(wire, "eof")
       ELSE UNCHANGED <<native, wire>>
CloseClient ==
    /\ Moves("closing", "gathering") /\ Close(client)
    /\ KeepTurn /\ UNCHANGED <<active, readerVars, brokerVars, session, client, mode, option,
                              wanted, update, sideVars, faults>>

PromptStep ==
    \/ CancelledSteps /\ KeepTurn /\ KeepRest
    \/ Interrupts /\ KeepTurn /\ KeepRest
    \/ FinallySteps /\ UNCHANGED <<turns, task, attended, cancelled, serverVars>>
       /\ KeepRest

\* A cancellation of prompt()'s task, the first or another one.  It ends the
\* wait prompt() is in; in the except clause the finally follows, in the
\* finally the rest is skipped.  The unshielded wait takes the task along.
Waits == CASE prompt \in {"unasking", "refusing", "dropping"}
                -> Busy("prompt")
           [] prompt \in {"shielded", "draining", "gathering"} -> task # "done"
           [] prompt = "starting" -> task = "starting"
           [] OTHER -> prompt \in {"interrupting", "closing"}
Cut(ems) == {e \in ems : e[1] # "prompt"}
CutShort == {x \in Questions : <<"prompt", x>> \in emitting}
Cancel ==
    /\ Waits /\ Disturb /\ cancelled' = TRUE
    /\ prompt' = CASE prompt = "shielded" -> "unasking"
                   [] prompt \in {"unasking", "refusing", "starting", "interrupting"} -> Finally
                   [] prompt = "draining" -> "clearing"
                   [] OTHER -> "torn"
    /\ task' = IF prompt \in {"draining", "gathering"} THEN "done" ELSE task
    /\ emitting' = Cut(emitting)
    /\ response' = [x \in Requests |-> IF x \in CutShort /\ response[x] = "none"
                                       THEN "cancel" ELSE response[x]]
    /\ done' = done \cup CutShort
    /\ UNCHANGED <<recorded, given, told, turns, active, attended, bound, asks, serverVars,
                   readerVars, clientVars, sideVars>>

----------------------------------------------------------------------------
(* cancel, close and archive_session, called from another task; a session is *)
(* archived by a command, between two prompts.                               *)

BeginSide(o) ==
    /\ session /\ side = "none" /\ Disturb
    /\ op' = o /\ session' = (o = "cancel")
    /\ IF o = "archive" THEN prompt \in EndPcs /\ side' = "closing" ELSE side' = "unasking"
    /\ UNCHANGED <<client, life, mode, option, wanted, update, turnVars, serverVars,
                   readerVars, brokerVars>>

SideBrokers ==
    \/ side = "unasking" /\ ~Busy("side") /\ Unask("side") /\ UNCHANGED side
    \/ side = "unasking" /\ NothingToUnask("side") /\ side' = "refusing"
       /\ UNCHANGED brokerVars
    \/ side = "refusing" /\ ~Busy("side") /\ Refuse("side") /\ UNCHANGED side
    \/ side = "refusing" /\ NothingToRefuse("side") /\ side' = "interrupt"
       /\ UNCHANGED brokerVars
SideInterrupts ==
    \/ side = "interrupt" /\ ~active /\ side' = AfterInterrupt /\ UNCHANGED serverVars
    \/ /\ side = "interrupt" /\ active
       /\ IF Alive THEN side' = "interrupting" /\ Interrupt("ack side", "error side")
          ELSE side' = "done" /\ UNCHANGED serverVars
    \/ side = "interrupting" /\ reader = "stopped" /\ side' = "done" /\ UNCHANGED serverVars
SideStep ==
    /\ \/ SideBrokers /\ UNCHANGED <<serverVars, life>>
       \/ SideInterrupts /\ UNCHANGED <<brokerVars, life>>
       \/ side = "closing" /\ side' = "done" /\ Close(client) /\ UNCHANGED brokerVars
    /\ UNCHANGED <<op, turnVars, readerVars, session, client, mode, option, wanted, update,
                   faults>>

----------------------------------------------------------------------------
Server == \/ ServerStarts \/ ServerCompletes
          \/ (\E x \in Requests : ServerAsks(x)) \/ ServerDies
Reader == ReadTurn \/ ReadEnd \/ ReadApproval \/ ReadQuestion \/ ReadAck \/ Decided
Withdrawal == \E who \in {"prompt", "side", "poll"}, x \in Requests : WithdrawalEnds(who, x)
Broker == Delivered \/ Poll \/ (\E x \in Requests : ResolveEnds(x))
          \/ Withdrawal
User == \/ \E x \in Approvals, d \in Decisions : ResolveApproval(x, d)
        \/ \E x \in Questions : ResolveQuestion(x)
Prompt == TurnEnds \/ PromptStep \/ CloseClient
Updating == CloseOld \/ Switch \/ Restore

Next == \/ Open \/ BeginUpdate \/ Updating \/ Server \/ Reader \/ Broker \/ User
        \/ StartPrompt \/ Prompt \/ Cancel \/ (\E o \in SideOps : BeginSide(o)) \/ SideStep

Fairness ==
    /\ WF_vars(Reader) /\ WF_vars(Prompt) /\ WF_vars(SideStep) /\ WF_vars(Updating)
    /\ WF_vars(ServerStarts)
    /\ WF_vars(Delivered) /\ WF_vars(Poll)
    /\ WF_vars(\E x \in Requests : ResolveEnds(x)) /\ WF_vars(Withdrawal)

Spec == Init /\ [][Next]_vars /\ Fairness

----------------------------------------------------------------------------
(* Properties. *)

\* An approval has one decision: the one the server is given, the client is told
\* and the log holds, and the cancellation that races it never replaces it.  The
\* answer to a question is released to the server only after it is in the log, and
\* the client is told so; a question the log says anything of is decided.
\* (codex_approvals.py:101-153, questions.py:125-175)
DecisionsTrue ==
    /\ TypeOK
    /\ \A x \in Requests :
        /\ given[x] \in Decisions => response[x] = given[x]
        /\ told[x] # "none" => response[x] = told[x]
    /\ \A x \in Approvals : recorded[x] \subseteq {response[x]}
    /\ \A x \in Questions :
        /\ response[x] = "accept" => "accept" \in recorded[x] /\ told[x] = "accept"
        /\ recorded[x] # {} => response[x] # "none"

\* Does not hold: what the log says was answered, the server was given.  resolve()
\* puts "answered" into the log before it looks whether the question was withdrawn
\* meanwhile, and then tells its caller that it was.  (questions.py:155-157)
AnsweredIsGiven ==
    \A x \in Questions : "accept" \in recorded[x] /\ given[x] # "none" => given[x] = "accept"

\* The thread never waits for a decision after prompt() has ended, and
\* prompt()'s finally finds nothing open: nobody could decide it any more.
\* (codex.py:342-364)
Decidable ==
    /\ (reader \in Requests /\ stage = "waiting" /\ reader \notin done)
         => prompt \notin EndPcs
    /\ prompt \in {"clearing", "leaving"} => Undecided = {}

\* Never do two clients have the thread open, and the session's client works
\* under the approval mode its options name, also when a change of that mode
\* has failed half way.  (codex.py:432-490: "The native rollout permits only
\* one writer")
ClientHeld ==
    /\ Cardinality({c \in Clients : life[c] = "open"}) <= 1
    /\ (Alive /\ update = "none") => mode[client] = option
    /\ Decidable

\* A cancelled prompt ends although the server would not end the turn by
\* itself, unless a request that reached the user after the withdrawal still
\* waits for the user.  (codex.py:337-364)
AwaitsUser == reader \in Requests /\ stage = "waiting" /\ reader \in Undecided /\ session
Cancelling == cancelled /\ prompt \notin EndPcs
CancelOver == prompt \in EndPcs \/ AwaitsUser \/ ~session
CancelledEnds == Cancelling ~> CancelOver

\* Two statements that do not hold.  A request that comes between the
\* withdrawal and the interrupt keeps the thread from reading the answer to
\* the interrupt: without the user the cancelled prompt does not end.  And a
\* session closed while its client is replaced keeps the new client.
CancelledEndsAlone ==
    Cancelling ~> (prompt \in EndPcs \/ ~session)
NoLeak ==
    (~session /\ update = "none" /\ side \in {"none", "done"})
        => \A c \in Clients : life[c] \in {"none", "closed"}

=============================================================================
