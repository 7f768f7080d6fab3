------------------------------ MODULE Permissions ------------------------------
(***************************************************************************)
(* The permissions a development task runs under: the options of its       *)
(* resident harness session, those its manifest saves, the choice queued   *)
(* for the next run (pending_runtime_permissions), the preset of the       *)
(* routing policy and the user's requests, which wait for the harness      *)
(* under the thread's runtime lock (desktop/service.py _update_runtime,    *)
(* _apply_pending_permissions, _apply_routing_permissions, switch_harness; *)
(* harnesses/service.py update_session_options, resume_session).           *)
(*                                                                         *)
(* An option is one of Fields with one of Values; a harness that offers    *)
(* fewer, the evolution workspace and the model, effort and speed choices, *)
(* which are never queued, are left out.                                   *)
(***************************************************************************)
EXTENDS Naturals, FiniteSets

CONSTANTS Providers, Fields, Values,
          Default,              \* what a new native session starts with
          None,
          MaxChoices, MaxTurns, MaxFaults     \* bounds of the model

Options == [Fields -> Values]
Choices == UNION {[F -> Values] : F \in (SUBSET Fields) \ {{}}}
Presets == {"inherit", "ask", "full"}

VARIABLES provider,     \* manifest: the harness of the task
          saved,        \* manifest: runtime_options
          pending,      \* manifest: pending_runtime_permissions
          live,         \* the resident session's options, None without one
          policy,       \* permission_preset where routing is automatic
          lock,         \* the runtime lock of the thread
          request,      \* the request that holds it
          switching,    \* a harness switch under way
          turn,         \* the turn under way
          told,         \* what the user was last told the next run has
          choices, turns, faults

vars == <<provider, saved, pending, live, policy, lock, request, switching, turn, told,
          choices, turns, faults>>
bounds == <<choices, turns, faults>>

TypeOK ==
  /\ provider \in Providers /\ saved \in Options /\ told \in Options
  /\ pending \in {None} \cup [provider : Providers, options : Choices]
  /\ live \in Options \cup {None}
  /\ policy \in Presets /\ lock \in {None, "request", "turn", "switch"}
  /\ switching \in BOOLEAN

Over(options, base) == [f \in Fields |-> IF f \in DOMAIN options THEN options[f] ELSE base[f]]
Merge(options, base) ==
  [f \in DOMAIN options \cup DOMAIN base |-> IF f \in DOMAIN options THEN options[f] ELSE base[f]]
Nothing == [f \in {} |-> Default]

\* native_permissions: what a preset means to the harness.
Native(preset) == [f \in Fields |-> IF preset = "full" THEN "high" ELSE "low"]
QueuedFor(p) == IF pending # None /\ pending.provider = p THEN pending.options ELSE Nothing
Queued == QueuedFor(provider)
Running == turn # None

\* A session that is not resident is resumed with the options saved for it.
Resumed == IF live = None THEN saved ELSE live
\* update_session_options: the harness takes the options, the manifest saves them.
Update(options) ==
  /\ live' = Over(options, Resumed)
  /\ saved' = live'

------------------------------------------------------------------------------
(* requests *)

\* update_runtime: refused while a preset rules or the harness is switched.
Choose(options) ==
  /\ choices < MaxChoices /\ choices' = choices + 1
  /\ lock = None /\ ~switching /\ policy = "inherit"
  /\ lock' = "request"
  /\ request' = [options |-> options, pending |-> pending, stage |-> "ensuring", stale |-> FALSE]
  /\ UNCHANGED <<provider, saved, pending, live, policy, switching, turn, told, turns, faults>>

Answered == lock' = None /\ request' = None

\* During a run the choice waits for the next one, over what waited when it
\* was made.
Waited == IF request.pending # None /\ request.pending.provider = provider
          THEN request.pending.options ELSE Nothing
QueueAlone ==
  /\ lock = "request" /\ request.stage = "ensuring" /\ Running
  /\ UNCHANGED <<provider, saved, policy, switching, bounds>>
  /\ live' = Resumed
  /\ pending' = [provider |-> provider, options |-> request.options]
  /\ told' = IF request.stale THEN Over(Queued', saved) ELSE Over(request.options, told)
  /\ turn' = [turn EXCEPT !.changed = @ \/ turn.stage # "running"]
  /\ Answered
Queue ==
  /\ lock = "request" /\ request.stage = "ensuring" /\ Running
  /\ UNCHANGED <<provider, saved, policy, switching, bounds>>
  /\ live' = Resumed
  /\ pending' = [provider |-> provider, options |-> Merge(request.options, Waited)]
  /\ told' = IF request.stale THEN Over(Queued', saved) ELSE Over(request.options, told)
  /\ turn' = [turn EXCEPT !.changed = @ \/ turn.stage # "running"]
  /\ Answered

\* Otherwise it is applied now, with what waited for the same harness.
BeginUpdate ==
  /\ lock = "request" /\ request.stage = "ensuring" /\ ~Running
  /\ live' = Resumed
  /\ request' = [request EXCEPT !.options = Merge(@, Waited), !.stage = "applying"]
  /\ UNCHANGED <<provider, saved, pending, policy, lock, switching, turn, told, bounds>>
Updated ==
  /\ lock = "request" /\ request.stage = "applying"
  /\ Update(request.options)
  /\ pending' = None
  /\ told' = saved'
  /\ Answered
  /\ UNCHANGED <<provider, policy, switching, turn, bounds>>
RequestFails ==
  /\ lock = "request"
  /\ faults < MaxFaults /\ faults' = faults + 1
  /\ Answered
  /\ UNCHANGED <<provider, saved, pending, live, policy, switching, turn, told, choices, turns>>

Discard ==
  /\ lock = None /\ ~switching /\ pending # None
  /\ pending' = None
  /\ told' = saved
  /\ turn' = IF Running /\ turn.stage # "running" THEN [turn EXCEPT !.changed = TRUE] ELSE turn
  /\ UNCHANGED <<provider, saved, live, policy, lock, request, switching, bounds>>

\* The routing policy is a file of its own: it may change at any time.
SetPolicy(preset) ==
  /\ choices < MaxChoices /\ choices' = choices + 1
  /\ preset # policy
  /\ policy' = preset
  /\ turn' = IF Running /\ turn.stage # "running" THEN [turn EXCEPT !.changed = TRUE] ELSE turn
  /\ UNCHANGED <<provider, saved, pending, live, lock, request, switching, told, turns, faults>>

------------------------------------------------------------------------------
(* turns *)

\* The turn is reserved with the manifest of that moment.
Reserve ==
  /\ turns < MaxTurns /\ turns' = turns + 1
  /\ ~Running /\ ~switching
  /\ turn' = [stage |-> "reserved", pending |-> pending, preset |-> policy, options |-> None,
              due |-> told, changed |-> lock # None]
  /\ UNCHANGED <<provider, saved, pending, live, policy, lock, request, switching, told,
                 choices, faults>>

TurnLocks ==
  /\ Running /\ turn.stage = "reserved" /\ lock = None
  /\ lock' = "turn"
  /\ turn' = [turn EXCEPT !.stage = "locked"]
  /\ UNCHANGED <<provider, saved, pending, live, policy, request, switching, told, bounds>>

\* What was queued since belongs to the following run; while a preset rules
\* the queue stays.
Due == turn.pending # None /\ policy = "inherit" /\ pending = turn.pending
NothingDue ==
  /\ Running /\ turn.stage = "locked" /\ ~Due
  /\ lock' = None
  /\ turn' = [turn EXCEPT !.stage = "unlocked", !.pending = pending]
  /\ UNCHANGED <<provider, saved, pending, live, policy, request, switching, told, bounds>>
BeginApply ==
  /\ Running /\ turn.stage = "locked" /\ Due /\ turn.pending.provider = provider
  /\ live' = Resumed
  /\ turn' = [turn EXCEPT !.stage = "applying"]
  /\ UNCHANGED <<provider, saved, pending, policy, lock, request, switching, told, bounds>>
Applied ==
  /\ Running /\ turn.stage = "applying"
  /\ Update(turn.pending.options)
  /\ pending' = IF pending = turn.pending THEN None ELSE pending
  /\ turn' = [turn EXCEPT !.stage = "unlocked", !.pending = pending']
  /\ lock' = None
  /\ UNCHANGED <<provider, policy, request, switching, told, bounds>>

\* _apply_routing_permissions: the preset is read, then applied without the lock.
ReadPreset ==
  /\ Running /\ turn.stage = "unlocked"
  /\ turn' = [turn EXCEPT !.stage = "routing", !.preset = policy]
  /\ UNCHANGED <<provider, saved, pending, live, policy, lock, request, switching, told, bounds>>
Routed ==
  /\ Running /\ turn.stage = "routing"
  /\ UNCHANGED <<provider, policy, lock, switching, bounds>>
  /\ turn' = [turn EXCEPT !.stage = "routed"]
  /\ IF turn.preset = "inherit" THEN UNCHANGED <<saved, live, pending, request, told>>
     ELSE /\ Update(Native(turn.preset))
          /\ pending' = IF pending = turn.pending THEN None ELSE pending
          /\ request' = IF request # None THEN [request EXCEPT !.stale = TRUE] ELSE None
          /\ told' = Over(Queued', saved')

Submit ==
  /\ Running /\ turn.stage = "routed"
  /\ live' = Resumed
  /\ turn' = [turn EXCEPT !.stage = "running", !.options = Resumed]
  /\ UNCHANGED <<provider, saved, pending, policy, lock, request, switching, told, bounds>>
\* A queue of the harness before a switch, or an error of the harness, ends
\* the turn before it begins.
TurnRefused ==
  /\ Running /\ turn.stage = "locked" /\ Due /\ turn.pending.provider # provider
  /\ turn' = None
  /\ lock' = None
  /\ UNCHANGED <<provider, saved, pending, live, policy, request, switching, told, bounds>>
TurnFails ==
  /\ Running /\ turn.stage \in {"applying", "routing"}
  /\ faults < MaxFaults /\ faults' = faults + 1
  /\ turn' = None
  /\ lock' = IF lock = "turn" THEN None ELSE lock
  /\ UNCHANGED <<provider, saved, pending, live, policy, request, switching, told, choices, turns>>
EndTurn ==
  /\ Running /\ turn.stage = "running"
  /\ turn' = None
  /\ UNCHANGED <<provider, saved, pending, live, policy, lock, request, switching, told, bounds>>

------------------------------------------------------------------------------
(* the harness and the process *)

\* switch_harness: the flag first, then the turn is waited for, then the lock.
BeginSwitch ==
  /\ choices < MaxChoices /\ choices' = choices + 1
  /\ ~switching
  /\ switching' = TRUE
  /\ UNCHANGED <<provider, saved, pending, live, policy, lock, request, turn, told, turns, faults>>
SwitchLocks ==
  /\ switching /\ ~Running /\ lock = None
  /\ lock' = "switch"
  /\ UNCHANGED <<provider, saved, pending, live, policy, request, switching, turn, told, bounds>>
\* A fresh session of another harness, prepared with its defaults or the preset.
Switched(p) ==
  /\ lock = "switch" /\ p # provider
  /\ provider' = p
  /\ live' = IF policy = "inherit" THEN [f \in Fields |-> Default] ELSE Native(policy)
  /\ saved' = live'
  /\ told' = Over(QueuedFor(p), saved')
  /\ lock' = None /\ switching' = FALSE
  /\ UNCHANGED <<pending, policy, request, turn, bounds>>
SwitchFails ==
  /\ lock = "switch"
  /\ lock' = None /\ switching' = FALSE
  /\ UNCHANGED <<provider, saved, pending, live, policy, request, turn, told, bounds>>

\* The session is closed while nothing uses it.
Close ==
  /\ ~Running /\ lock = None /\ live # None
  /\ live' = None
  /\ UNCHANGED <<provider, saved, pending, policy, lock, request, switching, turn, told, bounds>>
Restart ==
  /\ faults < MaxFaults /\ faults' = faults + 1
  /\ live' = None /\ turn' = None /\ lock' = None /\ request' = None /\ switching' = FALSE
  /\ UNCHANGED <<provider, saved, pending, policy, told, choices, turns>>

Init ==
  /\ provider \in Providers
  /\ saved = [f \in Fields |-> Default] /\ told = saved
  /\ pending = None /\ live = None
  /\ policy = "inherit"
  /\ lock = None /\ request = None /\ switching = FALSE /\ turn = None
  /\ choices = 0 /\ turns = 0 /\ faults = 0

Next ==
  \/ \E options \in Choices : Choose(options)
  \/ Queue \/ BeginUpdate \/ Updated \/ RequestFails \/ Discard
  \/ \E preset \in Presets : SetPolicy(preset)
  \/ Reserve \/ TurnLocks \/ NothingDue \/ BeginApply \/ Applied \/ ReadPreset \/ Routed
  \/ Submit \/ TurnRefused \/ TurnFails \/ EndTurn
  \/ BeginSwitch \/ SwitchLocks \/ SwitchFails \/ Close \/ Restart
  \/ \E p \in Providers : Switched(p)

Spec == Init /\ [][Next]_vars

------------------------------------------------------------------------------
(* properties *)

\* The next run has what the user was told it has.
NextRunAsTold == Over(Queued, saved) = told

\* A turn runs under the preset, else under the choice made before it was
\* reserved, unless the user changed one of them before it was submitted.
RunsAsChosen ==
  Running /\ turn.stage = "running" /\ ~turn.changed =>
    turn.options = IF turn.preset = "inherit" THEN turn.due ELSE Native(turn.preset)

\* The permissions of a turn do not change under it (service.py:1851-1862).
NotUnderTheRun == Running /\ turn.stage = "running" => live = turn.options

\* A task runs under the permissions its user chose.
PermissionsAsChosen == TypeOK /\ NextRunAsTold /\ RunsAsChosen /\ NotUnderTheRun

\* Does not hold: see the README.
RunsAsDue ==
  Running /\ turn.stage = "running" /\ turn.preset = "inherit" => turn.options \in {turn.due, told}
==============================================================================
