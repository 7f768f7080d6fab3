---------------------------- MODULE ClaudeSession ----------------------------
(***************************************************************************)
(* One logical session of ClaudeProvider (integrations/harnesses/claude.py) *)
(* and the CLI processes behind it.  The session outlives them: options     *)
(* that a process takes only as it starts, a dropped stream and a rewind    *)
(* each replace it by one that resumes the native conversation.             *)
(*                                                                         *)
(* A step is what a coroutine does between two awaits.  Updates, prompts    *)
(* and rewinds hold runtime.lock; cancel and close do not.  A turn is one   *)
(* step to begin and one to end: ClaudeTurn has it in detail.  An await     *)
(* that raises stands for a cancellation at that await as well.  What a     *)
(* process that is asked to exit may still do is not modelled, nor is a     *)
(* second cancellation while a failed operation disconnects.                *)
(***************************************************************************)
EXTENDS Naturals, FiniteSets

CONSTANTS
    Callers,     \* coroutines that use the session
    Models, Efforts,
    Modes,       \* permission modes, of which "bypassPermissions" is one
    Keep,        \* an option that an update does not mention (None)
    Wishes,      \* the updates that are asked for, records as Settings or with Keep
    Defaults,    \* the settings of a session nobody has changed
    MaxClients,  \* bound: processes started
    MaxFaults    \* bound: awaits that raise, and deaths of the process

VARIABLES
    session,   \* the entry in ClaudeProvider._sessions
    rt,        \* _ClaudeRuntime
    clients,   \* the processes: how they were started, what they work with
    callers,   \* local state of each coroutine
    lock,      \* who holds runtime.lock
    unsure,    \* ghost: options a failed update may have left in the process
    last,      \* ghost: the conversation of the last turn that counts
    cut,       \* ghost: a rewind has failed after it set native_session_id
    overtaken, \* ghost: the session was closed under an operation
    faults

vars == <<session, rt, clients, callers, lock, unsure, last, cut, overtaken, faults>>

Clients  == 1 .. MaxClients
Settings == [model : Models, effort : Efforts, mode : Modes]
Bypass(settings) == settings.mode = "bypassPermissions"

\* Native conversations: none yet, one begun by a process, the one a session is
\* resumed with, the copy a rewind made for a process.
Stored == MaxClients + 1
Copy(k) == MaxClients + 1 + k
Natives == 0 .. 2 * MaxClients + 1

Process(settings, resume, k) ==
    [life |-> "starting", settings |-> settings, flag |-> Bypass(settings),
     native |-> IF resume = 0 THEN k ELSE resume]
Unstarted == [life |-> "unused", settings |-> Defaults, flag |-> FALSE, native |-> 0]
Gone(process) == [Unstarted EXCEPT !.life = "down", !.native = process.native]
Idle == [op |-> "none", at |-> "idle", next |-> Defaults, fresh |-> 0, native |-> 0]
InTurn == [Idle EXCEPT !.at = "turn"]

Init ==
    /\ session = "new"
    /\ rt = [client |-> 1, options |-> Defaults, native |-> 0, reconnect |-> FALSE,
             active |-> FALSE]
    /\ clients = [k \in Clients |-> Unstarted]
    /\ callers = [c \in Callers |-> Idle]
    /\ lock = "free" /\ unsure = {} /\ last = 0
    /\ cut = FALSE /\ overtaken = FALSE /\ faults = 0

Fault == faults < MaxFaults /\ faults' = faults + 1
Up(k) == clients[k].life = "up"
Ups(k)  == clients' = [clients EXCEPT ![k].life = "up"]
Goes(k) == clients' = [clients EXCEPT ![k] = Gone(@)]
Finish(c) ==
    /\ callers' = [callers EXCEPT ![c] = Idle]
    /\ lock' = IF lock = c THEN "free" ELSE lock
\* the process that a coroutine starts next
Startable(k) == clients[k].life = "unused" /\ \A j \in 1 .. k - 1 : clients[j].life # "unused"

\* _connect: the process is started with these options.
Starts(c, k, op, settings, resume) ==
    /\ Startable(k)
    /\ clients' = [clients EXCEPT ![k] = Process(settings, resume, k)]
    /\ callers' = [callers EXCEPT ![c] =
           [@ EXCEPT !.op = op, !.at = "connect", !.next = settings, !.fresh = k,
                     !.native = resume]]

----------------------------------------------------------------------------
(* create_session, resume_session and their variants with a context.        *)

Create(c) ==
    /\ session = "new" /\ \A d \in Callers : callers[d] = Idle
    /\ \E k \in Clients, m \in Models, native \in {0, Stored} :
         Starts(c, k, "create", Defaults, native)
    /\ UNCHANGED <<session, rt, lock, unsure, last, cut, overtaken, faults>>

\* connect returns, the permission mode is the one asked for and the memory
\* server answers.
Created(c) ==
    /\ callers[c].at = "connect" /\ callers[c].op = "create"
    /\ Ups(callers[c].fresh)
    /\ session' = "open"
    /\ rt' = [client |-> callers[c].fresh, options |-> callers[c].next,
              native |-> callers[c].native, reconnect |-> FALSE, active |-> FALSE]
    /\ last' = callers[c].native
    /\ Finish(c)
    /\ UNCHANGED <<unsure, cut, overtaken, faults>>

\* It raises: connecting, which the SDK undoes itself, reading the mode, another
\* mode, a memory server that does not connect.  The new process is disconnected,
\* the runtime is as it was.
ConnectFails(c) ==
    /\ callers[c].at = "connect"
    /\ Fault
    /\ Goes(callers[c].fresh)
    /\ Finish(c)
    /\ UNCHANGED <<session, rt, unsure, last, cut, overtaken>>

----------------------------------------------------------------------------
(* An update, a prompt or a rewind looks the session up, and waits for the   *)
(* lock.  A rewind is refused while a turn is active: none is when it takes   *)
(* the lock.                                                                *)

LookUp(c) ==
    /\ session = "open" /\ callers[c] = Idle
    /\ callers' = [callers EXCEPT ![c].at = "queued"]
    /\ UNCHANGED <<session, rt, clients, lock, unsure, last, cut, overtaken, faults>>

\* What an update asks for, from what the runtime says is applied.
Wanted(now, want) == IF want = Keep THEN now ELSE want
NextOptions(options, want) ==
    [model |-> Wanted(options.model, want.model), effort |-> Wanted(options.effort, want.effort),
     mode |-> Wanted(options.mode, want.mode)]
\* mutant: only entering bypass mode starts a process
RelaunchEntering(next) ==
    \/ rt.reconnect
    \/ next.effort # rt.options.effort
    \/ next.mode # rt.options.mode /\ Bypass(next)
\* Effort is a startup option, and a process enters bypass mode only if it was
\* launched with that flag; leaving it also gets a fresh process.
Relaunch(next) ==
    \/ rt.reconnect
    \/ next.effort # rt.options.effort
    \/ next.mode # rt.options.mode /\ (Bypass(next) \/ Bypass(rt.options))

Takes(c) == callers[c].at = "queued" /\ lock = "free"

\* An update that needs no process asks the one there is, or changes nothing.
After(next, step) ==
    CASE step = "lock" /\ next.model # rt.options.model -> "model"
      [] step \in {"lock", "model"} /\ next.mode # rt.options.mode -> "mode"
      [] OTHER -> "done"
BeginUpdate(c) ==
    /\ Takes(c) /\ lock' = c
    /\ \E want \in Wishes :
         LET next == NextOptions(rt.options, want) IN
         IF Relaunch(next)
         THEN \E k \in Clients : Starts(c, k, "update", next, rt.native)
         ELSE /\ callers' = [callers EXCEPT ![c].next = next, ![c].at = After(next, "lock")]
              /\ UNCHANGED clients
    /\ UNCHANGED <<session, rt, unsure, last, cut, overtaken, faults>>

\* A prompt resumes the conversation on a new stream if the last was dropped.
BeginPrompt(c) ==
    /\ Takes(c) /\ lock' = c
    /\ IF rt.reconnect
       THEN /\ \E k \in Clients : Starts(c, k, "prompt", rt.options, rt.native)
            /\ UNCHANGED rt
       ELSE /\ rt' = [rt EXCEPT !.active = TRUE]
            /\ callers' = [callers EXCEPT ![c] = InTurn]
            /\ UNCHANGED clients
    /\ UNCHANGED <<session, unsure, last, cut, overtaken, faults>>

\* A rewind of a conversation that has not begun is refused.
BeginRewind(c) ==
    /\ Takes(c)
    /\ IF rt.native = 0
       THEN Finish(c)
       ELSE callers' = [callers EXCEPT ![c].at = "fork"] /\ lock' = c
    /\ UNCHANGED <<session, rt, clients, unsure, last, cut, overtaken, faults>>

\* The copy ends before the edited message, or there is nothing before it.
Fork(c) ==
    /\ callers[c].at = "fork"
    /\ \E k \in Clients : \E native \in {0, Copy(k)} :
         /\ Starts(c, k, "rewind", rt.options, native)
         /\ rt' = [rt EXCEPT !.native = native]
    /\ cut' = TRUE
    /\ UNCHANGED <<session, lock, unsure, last, overtaken, faults>>

ForkFails(c) ==
    /\ callers[c].at = "fork"
    /\ Fault
    /\ Finish(c)
    /\ UNCHANGED <<session, rt, clients, unsure, last, cut, overtaken>>

----------------------------------------------------------------------------
(* _reconnect_runtime: the old process goes when the new one is there.      *)

Connected(c) ==
    /\ callers[c].at = "connect" /\ callers[c].op # "create"
    /\ Ups(callers[c].fresh)
    /\ callers' = [callers EXCEPT ![c].at = "swap"]
    /\ UNCHANGED <<session, rt, lock, unsure, last, cut, overtaken, faults>>

Swapped(c) ==
    /\ callers[c].at = "swap"
    /\ clients' = [clients EXCEPT ![rt.client] = Gone(@)]
    /\ rt' = [rt EXCEPT !.client = callers[c].fresh, !.reconnect = FALSE,
                        !.options = callers[c].next, !.active = callers[c].op = "prompt"]
    /\ IF callers[c].op = "prompt"
       THEN callers' = [callers EXCEPT ![c] = InTurn] /\ UNCHANGED lock
       ELSE Finish(c)
    /\ unsure' = {}
    /\ IF callers[c].op = "rewind"
       THEN last' = callers[c].native /\ cut' = FALSE
       ELSE UNCHANGED <<last, cut>>
    /\ UNCHANGED <<session, overtaken, faults>>

\* Disconnecting the old one raises: the new one is disconnected instead.
SwapFails(c) ==
    /\ callers[c].at = "swap"
    /\ Fault
    /\ \E old \in {clients[rt.client], Gone(clients[rt.client])} :
         clients' = [clients EXCEPT ![callers[c].fresh] = Gone(@), ![rt.client] = old]
    /\ Finish(c)
    /\ UNCHANGED <<session, rt, unsure, last, cut, overtaken>>

----------------------------------------------------------------------------
(* The rest of an update: set_model, set_permission_mode, then the options. *)

Asked(c) == callers[c].at
Sets(c) ==
    /\ Asked(c) \in {"model", "mode"} /\ Up(rt.client)
    /\ clients' = [clients EXCEPT ![rt.client].settings[Asked(c)] = callers[c].next[Asked(c)]]
    /\ callers' = [callers EXCEPT ![c].at = After(callers[c].next, Asked(c))]
    /\ UNCHANGED <<session, rt, lock, unsure, last, cut, overtaken, faults>>

\* It raises, and the process may have the option nevertheless.  The runtime's
\* options are the ones of before the update.
Changed(c) == {f \in {"model", "mode"} : callers[c].next[f] # rt.options[f]}
SetFails(c) ==
    /\ Asked(c) \in {"model", "mode"}
    /\ IF Up(rt.client) THEN Fault ELSE UNCHANGED faults
    /\ \/ UNCHANGED clients
       \/ /\ Up(rt.client)
          /\ clients' = [clients EXCEPT ![rt.client].settings[Asked(c)] =
                                            callers[c].next[Asked(c)]]
    /\ unsure' = unsure \cup Changed(c)
    /\ Finish(c)
    /\ UNCHANGED <<session, rt, last, cut, overtaken>>

Updated(c) ==
    /\ callers[c].at = "done"
    /\ rt' = [rt EXCEPT !.options = callers[c].next]
    /\ unsure' = unsure \ Changed(c)
    /\ Finish(c)
    /\ UNCHANGED <<session, clients, last, cut, overtaken, faults>>

----------------------------------------------------------------------------
(* The turn, its cancellation and the end of the session.                   *)

\* init names the conversation; the last result ends the turn.
TurnEnds(c) ==
    /\ callers[c].at = "turn" /\ Up(rt.client) /\ ~rt.reconnect
    /\ rt' = [rt EXCEPT !.native = clients[rt.client].native, !.active = FALSE]
    /\ last' = clients[rt.client].native /\ cut' = FALSE
    /\ Finish(c)
    /\ UNCHANGED <<session, clients, unsure, overtaken, faults>>

\* Cancelled, broken or given up, before or after init: the stream is dropped.
TurnBreaks(c) ==
    /\ callers[c].at = "turn"
    /\ IF Up(rt.client) THEN Fault ELSE UNCHANGED faults
    /\ \E native \in {rt.native, clients[rt.client].native} :
         rt' = [rt EXCEPT !.native = native, !.reconnect = TRUE, !.active = FALSE]
    /\ Goes(rt.client)
    /\ Finish(c)
    /\ UNCHANGED <<session, unsure, last, cut, overtaken>>

\* cancel while the turn waits for background tasks: _drop_waiting_stream.
Cancel ==
    /\ session = "open" /\ rt.active /\ ~rt.reconnect
    /\ rt' = [rt EXCEPT !.reconnect = TRUE]
    /\ Goes(rt.client)
    /\ UNCHANGED <<session, callers, lock, unsure, last, cut, overtaken, faults>>

ClientDies ==
    /\ Up(rt.client) /\ session = "open"
    /\ Fault
    /\ Goes(rt.client)
    /\ UNCHANGED <<session, rt, callers, lock, unsure, last, cut, overtaken>>

\* close forgets the session, cancels what waits for the user, and disconnects
\* the process the runtime has by then.
Close ==
    /\ session = "open" /\ session' = "closing"
    /\ overtaken' = \E c \in Callers : callers[c] # Idle
    /\ UNCHANGED <<rt, clients, callers, lock, unsure, last, cut, faults>>

Closed ==
    /\ session = "closing" /\ session' = "closed"
    /\ Goes(rt.client)
    /\ UNCHANGED <<rt, callers, lock, unsure, last, cut, overtaken, faults>>

----------------------------------------------------------------------------
Updating(c) == BeginUpdate(c) \/ Sets(c) \/ SetFails(c) \/ Updated(c)
Prompting(c) == BeginPrompt(c) \/ TurnEnds(c) \/ TurnBreaks(c)
Rewinding(c) == BeginRewind(c) \/ Fork(c) \/ ForkFails(c)
Connecting(c) ==
    Create(c) \/ Created(c) \/ ConnectFails(c) \/ Connected(c) \/ Swapped(c) \/ SwapFails(c)

Next ==
    \/ \E c \in Callers : LookUp(c) \/ Updating(c) \/ Prompting(c) \/ Rewinding(c) \/ Connecting(c)
    \/ Cancel \/ ClientDies \/ Close \/ Closed

Spec == Init /\ [][Next]_vars

----------------------------------------------------------------------------
(* Properties. *)

Starting(k) == \E c \in Callers : callers[c].fresh = k /\ callers[c].at \in {"connect", "swap"}

TypeOK ==
    /\ session \in {"new", "open", "closing", "closed"}
    /\ rt \in [client : Clients, options : Settings, native : Natives, reconnect : BOOLEAN,
               active : BOOLEAN]
    /\ \A k \in Clients :
         clients[k].life \in {"unused", "starting", "up", "down"}
         /\ clients[k].settings \in Settings /\ clients[k].native \in Natives
    /\ lock \in Callers \cup {"free"}
    /\ unsure \subseteq {"model", "mode"} /\ last \in Natives
    /\ \A c \in Callers : callers[c].next \in Settings /\ callers[c].fresh \in 0 .. MaxClients

\* Every process that runs belongs to the session or is about to; after close
\* none runs, unless the session was closed while an operation replaced it.
ProcessesHeld ==
    /\ \A k \in Clients : Up(k) => (k = rt.client /\ session # "new") \/ Starting(k)
    /\ session = "closed" /\ ~overtaken => \A k \in Clients : ~Up(k)

\* session_options tells what the process works with, also after updates and
\* replacements in any order, but for an option whose update failed.
OptionsTrue ==
    session = "open" /\ lock = "free" /\ Up(rt.client) =>
      \A f \in {"model", "effort", "mode"} \ unsure :
        clients[rt.client].settings[f] = rt.options[f]

\* Only a session in bypass mode has a process that was launched for it, and no
\* other process is ever in that mode, whatever failed before.
BypassLaunched ==
    /\ \A k \in Clients : Bypass(clients[k].settings) => clients[k].flag
    /\ session = "open" /\ Up(rt.client) => clients[rt.client].flag = Bypass(rt.options)

\* A turn goes on in the conversation of the last one, or in the copy a rewind
\* made of it, on whichever process it runs.
Continues ==
    \A c \in Callers : callers[c].at = "turn" /\ ~cut /\ Up(rt.client) =>
        last \in {0, clients[rt.client].native}

ClaudeSessionHolds == TypeOK /\ ProcessesHeld /\ OptionsTrue /\ BypassLaunched /\ Continues

\* Does not hold: "Return the model and effort currently applied"
\* (claude.py:266); a failed update leaves the process with what it took, and the
\* next update compares with the old options and may skip what would repair it.
OptionsAlwaysTrue ==
    session = "open" /\ lock = "free" /\ Up(rt.client) =>
        clients[rt.client].settings = rt.options

\* Does not hold: a session closed while an operation replaces its process
\* leaves the new one running.
NoneLeft == session = "closed" /\ (\A c \in Callers : callers[c] = Idle) =>
    \A k \in Clients : ~Up(k)
=============================================================================
