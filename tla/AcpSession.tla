------------------------------ MODULE AcpSession ------------------------------
(***************************************************************************)
(* One conversation of AcpProvider (integrations/harnesses/acp.py) and the  *)
(* agent processes that the provider starts for it: one for each session it *)
(* opens, and short-lived ones to test a connection or to read the models.  *)
(*                                                                         *)
(* A step is what a coroutine does between two awaits.  Updates and prompts *)
(* hold runtime.lock; enable_user_approvals, cancel and close do not.  An   *)
(* await that raises stands for a cancellation at that await as well.  What *)
(* an agent changes in its options unasked is not modelled, nor is a turn's *)
(* content, which TurnRelay has.                                            *)
(***************************************************************************)
EXTENDS Naturals, FiniteSets

CONSTANTS
    Callers,    \* coroutines that use the provider
    Values,     \* what the model and the effort can be set to, a record of two sets
    Usual,      \* the value of each that an agent starts with
    Exposed,    \* the sets of controls that agents may expose
    Wanted,     \* the models that sessions are opened with
    Chosen,     \* the approval modes that updates ask for
    None,
    MaxAgents,  \* bound: processes started
    MaxFaults   \* bound: awaits that raise, and agents that die

VARIABLES
    auto,      \* spec.auto_approve
    agents,    \* the processes, with the options they work with
    rts,       \* _AcpRuntime and its host, for each process
    session,   \* AcpProvider._sessions: whose runtime the conversation has, or 0
    callers,   \* local state of each coroutine
    chosen,    \* ghost: the approval mode that somebody chose for it
    unsure,    \* ghost: its last update failed
    lost,      \* ghost: agents that nothing refers to any more
    faults

vars == <<auto, agents, rts, session, callers, chosen, unsure, lost, faults>>

Agents   == 1 .. MaxAgents
Controls == {"model", "effort"}
Modes    == {"user", "auto_allow", "deny_all"}

\* The agent exposes some controls, each with its current value.
Unstarted == [life |-> "unused", controls |-> {}, config |-> [f \in Controls |-> None]]
Gone      == [Unstarted EXCEPT !.life = "down"]

\* _AcpClientHost: configured approval is explicit, the implicit refusal is not.
HostMode == IF auto THEN "auto_allow" ELSE "deny_all"
NoRuntime ==
    [known |-> [f \in Controls |-> None], options |-> [f \in Controls |-> None],
     approval |-> "deny_all", mode |-> "deny_all", explicit |-> FALSE, enabled |-> FALSE,
     attending |-> FALSE, active |-> FALSE, lock |-> "free"]
\* Of a runtime that is closed the lock and the turn matter.
Forgotten(r) == [NoRuntime EXCEPT !.active = r.active, !.lock = r.lock]
Kept(k, r)   == IF k = session THEN r ELSE Forgotten(r)
Idle == [at |-> "idle", op |-> "none", k |-> 0]

Init ==
    /\ auto \in BOOLEAN
    /\ agents = [k \in Agents |-> Unstarted]
    /\ rts = [k \in Agents |-> NoRuntime]
    /\ session = 0
    /\ callers = [c \in Callers |-> Idle]
    /\ chosen = None
    /\ unsure = FALSE /\ lost = {} /\ faults = 0

Fault == faults < MaxFaults /\ faults' = faults + 1
Up(k) == agents[k].life = "up"
At(c, at) == callers[c].at = at
Goes(c, at) == callers' = [callers EXCEPT ![c].at = at]
Finish(c) == callers' = [callers EXCEPT ![c] = Idle]
Exits(k) == agents' = [agents EXCEPT ![k] = Gone]

----------------------------------------------------------------------------
(* Opening: create_session, resume_session, check_connection, list_models.  *)

\* A conversation is opened when AgentService has no route to it, which it looks
\* up before it awaits; a probe is opened at any time.
Open(c, op) ==
    /\ callers[c] = Idle
    /\ op # "probe" => session = 0
    /\ \E k \in Agents :
         /\ agents[k].life = "unused" /\ \A j \in 1 .. k - 1 : agents[j].life # "unused"
         /\ agents' = [agents EXCEPT ![k].life = "starting"]
         /\ callers' = [callers EXCEPT ![c].at = "connect", ![c].op = op, ![c].k = k]
    /\ UNCHANGED <<auto, rts, session, chosen, unsure, lost, faults>>

\* The process runs, with its own defaults.
Connected(c) ==
    /\ At(c, "connect")
    /\ \E controls \in Exposed :
         agents' = [agents EXCEPT ![callers[c].k] =
             [life |-> "up", controls |-> controls,
              config |-> [f \in Controls |-> IF f \in controls THEN Usual[f] ELSE None]]]
    /\ callers' = [callers EXCEPT ![c].at = callers[c].op, ![c].op = "none"]
    /\ UNCHANGED <<auto, rts, session, chosen, unsure, lost, faults>>

\* _session_options: what the agent says, else what was there.
SessionOptions(known, fallback) ==
    [f \in Controls |-> IF known[f] # None THEN known[f] ELSE fallback[f]]

Register(k, known, model) ==
    /\ session' = k
    /\ lost' = IF session = 0 THEN lost ELSE lost \cup {session}
    /\ rts' = [j \in Agents |-> IF j # k THEN Forgotten(rts[j]) ELSE
         [NoRuntime EXCEPT !.known = known, !.mode = HostMode, !.approval = HostMode,
                           !.explicit = auto,
                           !.options = SessionOptions(known,
                               [f \in Controls |-> IF f = "model" THEN model ELSE None])]]
    /\ chosen' = IF auto THEN "auto_allow" ELSE None
    /\ unsure' = FALSE

\* The agent sets an option; its other one may follow.
Settings(config, f, v) == {new \in [Controls -> Values.model \cup Values.effort \cup {None}] :
    /\ new[f] = v
    /\ \A g \in Controls : IF config[g] = None THEN new[g] = None ELSE new[g] \in Values[g]}

\* A new session is created with a model if the agent has that control; one that
\* is loaded has the options it had.
Opened(c) ==
    LET k == callers[c].k IN
    /\ callers[c].at \in {"create", "resume"} /\ Up(k)
    /\ \E model \in Wanted \cup {None} :
         IF At(c, "create") /\ model # None /\ "model" \in agents[k].controls
         THEN \E config \in Settings(agents[k].config, "model", model) :
                /\ agents' = [agents EXCEPT ![k].config = config]
                /\ Register(k, config, model)
         ELSE Register(k, agents[k].config, model) /\ UNCHANGED agents
    /\ Finish(c)
    /\ UNCHANGED <<auto, faults>>

\* A probe ends as it asked what it wanted, an opening as it raised: connecting,
\* an agent that cannot load, the session, its model.  The process exits.
Probed(c) ==
    /\ At(c, "probe") /\ Exits(callers[c].k) /\ Finish(c)
    /\ UNCHANGED <<auto, rts, session, chosen, unsure, lost, faults>>

OpenFails(c) ==
    /\ callers[c].at \in {"connect", "create", "resume"}
    /\ IF agents[callers[c].k].life = "down" THEN UNCHANGED faults ELSE Fault
    /\ Exits(callers[c].k)
    /\ Finish(c)
    /\ UNCHANGED <<auto, rts, session, chosen, unsure, lost>>

----------------------------------------------------------------------------
(* update_session_options and enable_user_approvals.                        *)

LookUp(c) ==
    /\ callers[c] = Idle /\ session # 0
    /\ callers' = [callers EXCEPT ![c].at = "queued", ![c].k = session]
    /\ UNCHANGED <<auto, agents, rts, session, chosen, unsure, lost, faults>>

Takes(c) == At(c, "queued") /\ rts[callers[c].k].lock = "free"

BeginUpdate(c) ==
    /\ Takes(c)
    /\ Goes(c, "update")
    /\ rts' = [rts EXCEPT ![callers[c].k].lock = c]
    /\ UNCHANGED <<auto, agents, session, chosen, unsure, lost, faults>>

\* Of the options that are asked for, the model is set before the effort.
Asks(c, f) == At(c, "update") \/ (At(c, "model") /\ f = "effort")
Set(k, f) ==
    \E v \in Values[f] : \E config \in Settings(agents[k].config, f, v) :
        /\ f \in agents[k].controls /\ Up(k)
        /\ agents' = [agents EXCEPT ![k].config = config]

Sets(c, f) ==
    /\ Asks(c, f) /\ Set(callers[c].k, f)
    /\ rts' = [rts EXCEPT ![callers[c].k].known = agents'[callers[c].k].config]
    /\ Goes(c, f)
    /\ UNCHANGED <<auto, session, chosen, unsure, lost, faults>>

\* The agent has no such control, or it raises, having set the option or not.
\* runtime.options stay what they were, whatever was set before.
SetFails(c, f) ==
    LET k == callers[c].k IN
    /\ Asks(c, f)
    /\ IF Up(k) /\ rts[k].known[f] # None THEN Fault ELSE UNCHANGED faults
    /\ UNCHANGED agents \/ Set(k, f)
    /\ rts' = [rts EXCEPT ![k].lock = "free"]
    /\ unsure' = (unsure \/ k = session)
    /\ Finish(c)
    /\ UNCHANGED <<auto, session, chosen, lost>>

\* What the update sets at its end, with the approval mode if that is asked for.
Updated(c) ==
    LET k == callers[c].k IN
    /\ callers[c].at \in {"update"} \cup Controls
    /\ \E approval \in Chosen \cup {None} :
         /\ rts' = [rts EXCEPT ![k] = Kept(k,
              [@ EXCEPT !.lock = "free", !.options = SessionOptions(rts[k].known, @),
                        !.mode = IF approval # None THEN approval ELSE @,
                        !.approval = IF approval # None THEN approval ELSE @,
                        !.explicit = @ \/ approval # None])]
         /\ chosen' = IF k = session /\ approval # None THEN approval ELSE chosen
    /\ unsure' = (unsure /\ (k = session => rts[k].known # agents[k].config))
    /\ Finish(c)
    /\ UNCHANGED <<auto, agents, session, lost, faults>>

\* mutant: the desktop's approvals replace whatever mode there is
AsksUserAlways(k) == TRUE
\* What the user chose, or the configuration, is kept.
AsksUser(k) == ~rts[k].explicit

EnableUserApprovals ==
    /\ session # 0
    /\ rts' = [rts EXCEPT ![session].enabled = TRUE,
                          ![session].mode = IF AsksUser(session) THEN "user" ELSE @,
                          ![session].approval = IF AsksUser(session) THEN "user" ELSE @]
    /\ UNCHANGED <<auto, agents, session, callers, chosen, unsure, lost, faults>>

----------------------------------------------------------------------------
(* prompt, cancel and close.                                                *)

BeginPrompt(c) ==
    /\ Takes(c)
    /\ rts' = [rts EXCEPT ![callers[c].k].lock = c, ![callers[c].k].attending = TRUE,
                          ![callers[c].k].active = TRUE]
    /\ Goes(c, "turn")
    /\ UNCHANGED <<auto, agents, session, chosen, unsure, lost, faults>>

\* The agent answers, fails, or the prompt is cancelled.
EndPrompt(c) ==
    /\ At(c, "turn")
    /\ rts' = [rts EXCEPT ![callers[c].k].lock = "free", ![callers[c].k].attending = FALSE,
                          ![callers[c].k].active = FALSE]
    /\ Finish(c)
    /\ UNCHANGED <<auto, agents, session, chosen, unsure, lost, faults>>

Cancel ==
    /\ session # 0 /\ rts[session].attending
    /\ rts' = [rts EXCEPT ![session].attending = FALSE]
    /\ UNCHANGED <<auto, agents, session, callers, chosen, unsure, lost, faults>>

Close(c) ==
    /\ callers[c] = Idle /\ session # 0
    /\ session' = 0
    /\ rts' = [rts EXCEPT ![session] = Forgotten(@)]
    /\ callers' = [callers EXCEPT ![c].at = "close", ![c].k = session]
    /\ UNCHANGED <<auto, agents, chosen, unsure, lost, faults>>

Closed(c) ==
    /\ At(c, "close") /\ Exits(callers[c].k) /\ Finish(c)
    /\ UNCHANGED <<auto, rts, session, chosen, unsure, lost, faults>>

\* Telling a running turn to stop raises: the process is not asked to exit.
CloseFails(c) ==
    /\ At(c, "close")
    /\ rts[callers[c].k].active
    /\ IF Up(callers[c].k) THEN Fault ELSE UNCHANGED faults
    /\ lost' = lost \cup {callers[c].k}
    /\ Finish(c)
    /\ UNCHANGED <<auto, agents, rts, session, chosen, unsure>>

AgentDies(k) ==
    /\ Up(k) /\ Fault /\ Exits(k)
    /\ UNCHANGED <<auto, rts, session, callers, chosen, unsure, lost>>

----------------------------------------------------------------------------
Opening(c) ==
    \/ \E op \in {"create", "resume", "probe"} : Open(c, op)
    \/ Connected(c) \/ Opened(c) \/ Probed(c) \/ OpenFails(c)
Updating(c) ==
    \/ BeginUpdate(c) \/ Updated(c)
    \/ \E f \in Controls : Sets(c, f) \/ SetFails(c, f)
Prompting(c) == BeginPrompt(c) \/ EndPrompt(c)
Closing(c) == Close(c) \/ Closed(c) \/ CloseFails(c)

Next ==
    \/ \E c \in Callers :
         Opening(c) \/ LookUp(c) \/ Updating(c) \/ Prompting(c) \/ Closing(c)
    \/ EnableUserApprovals \/ Cancel
    \/ \E k \in Agents : AgentDies(k)

Spec == Init /\ [][Next]_vars

----------------------------------------------------------------------------
(* Properties. *)

TypeOK ==
    /\ auto \in BOOLEAN /\ session \in 0 .. MaxAgents
    /\ \A k \in Agents :
         /\ agents[k].life \in {"unused", "starting", "up", "down"}
         /\ agents[k].controls \subseteq Controls
         /\ rts[k].mode \in Modes /\ rts[k].approval \in Modes
         /\ rts[k].lock \in Callers \cup {"free"}
    /\ unsure \in BOOLEAN /\ lost \subseteq Agents
    /\ \A c \in Callers : callers[c].k \in 0 .. MaxAgents

\* Every agent that runs is the conversation's, or of an operation that will
\* register it or have it exit; the others are those of two openings that crossed
\* and of a close that failed.
AgentsHeld ==
    \A k \in Agents : agents[k].life \in {"starting", "up"} =>
        \/ k = session \/ k \in lost
        \/ \E c \in Callers : callers[c].k = k
             /\ callers[c].at \in {"connect", "create", "resume", "probe", "close"}

\* session_options says what the agent works with, whatever it changed by itself
\* as another option was set, but after an update that failed.
OptionsTrue ==
    session # 0 /\ ~unsure /\ Up(session) /\ rts[session].lock = "free" =>
        \A f \in agents[session].controls :
            rts[session].options[f] = agents[session].config[f]

\* The mode that the options name is the one requests are decided by; it is what
\* was chosen last, in the configuration or for the session, also if the desktop
\* turns its approvals on before, after or in the middle of that update.
ApprovalTrue ==
    session # 0 =>
        /\ rts[session].approval = rts[session].mode
        /\ rts[session].mode = CASE chosen # None -> chosen
                                 [] rts[session].enabled -> "user"
                                 [] OTHER -> "deny_all"

\* Requests are taken only while a prompt runs, and one at a time does, also when
\* the session is cancelled or closed under it.
TurnAttended ==
    /\ \A k \in Agents : rts[k].attending => rts[k].active
    /\ \A c \in Callers : At(c, "turn") <=>
         callers[c].k # 0 /\ rts[callers[c].k].active /\ rts[callers[c].k].lock = c

AcpSessionHolds == TypeOK /\ AgentsHeld /\ OptionsTrue /\ ApprovalTrue /\ TurnAttended

\* Does not hold: "Return the model and effort exposed by the ACP session"
\* (acp.py:634); an update that sets the model and then finds no such effort
\* raises, and the options still name the old model.
OptionsAlwaysTrue ==
    session # 0 /\ Up(session) /\ rts[session].lock = "free" =>
        rts[session].options = SessionOptions(agents[session].config, rts[session].options)
=============================================================================
