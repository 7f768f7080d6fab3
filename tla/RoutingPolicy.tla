----------------------------- MODULE RoutingPolicy -----------------------------
(***************************************************************************)
(* The routing policy: desktop/routing_settings.py saves it as several files *)
(* for a window that says which revision it was shown; turns capture its     *)
(* permission preset (desktop/service.py), and the workers a turn delegates  *)
(* to, often started by another process, read the policy again and run under *)
(* what was captured (routing/permissions.py, routing/execution.py).         *)
(*                                                                         *)
(* task-tracking.json and routing-v2.json are written like the others and    *)
(* left out.  Which candidates exist is Delegation's.                        *)
(***************************************************************************)
EXTENDS Naturals, Sequences, FiniteSets

CONSTANTS Presets,                           \* permission presets, "inherit" among them
          Windows,                           \* windows that edit the policy
          Preview,                           \* the one of local_config.py
          None,
          MaxSaves, MaxTurns, MaxFaults      \* bounds of the model

VARIABLES files,      \* the policy, by the file that holds the part
          shown,      \* by window: the policy it was shown, with its revision
          op,         \* by window: its request and where it stands
          apart,      \* the preview runs as a process of its own
          thread,     \* the conversation's routing_mode
          native,     \* the permissions of its native session
          turn,       \* the running turn
          captured,   \* routing_permission_run_id and _preset of the manifest
          worker,     \* the worker being started or running
          blind,      \* a save replaced a policy its window had not been shown
          overlapped, \* two processes were saving at once
          torn,       \* a process died between two files
          saves, turns, faults
vars == <<files, shown, op, apart, thread, native, turn, captured, worker, blind, overlapped,
          torn, saves, turns, faults>>
settings == <<files, shown, op, blind, overlapped, torn>>
session  == <<thread, native, turn, captured, worker>>

Idle   == [at |-> "idle"]
Policy == [permissions : Presets, execution : {"manual", "auto"}, base : BOOLEAN]
Order  == <<"permissions", "execution", "base">>

\* "enabled" is in every update; the rest is optional.
Updates == {[base |-> FALSE], [base |-> TRUE], [base |-> TRUE, execution |-> "auto"]}
             \cup {[base |-> TRUE, permissions |-> p] : p \in Presets}

\* What the update names is replaced, the rest kept.
Updated(policy, u) ==
  [f \in DOMAIN policy |-> IF f \in DOMAIN u THEN u[f] ELSE policy[f]]

\* Between the second look at the revision and the last file nothing is awaited.
Saving(w) == op[w].at \in {"load", "write"}
Process(w) == IF apart /\ w = Preview THEN "preview" ELSE "desktop"
Free(p) == \A w \in Windows : Process(w) = p => ~Saving(w)

Init ==
  /\ files \in {[permissions |-> p, execution |-> "manual", base |-> p # "inherit"] : p \in Presets}
  /\ shown = [w \in Windows |-> None] /\ op = [w \in Windows |-> Idle]
  /\ apart \in BOOLEAN
  /\ thread = "default" /\ native \in {"own"} \cup (Presets \ {"inherit"})
  /\ turn = Idle /\ captured = None /\ worker = Idle
  /\ blind = FALSE /\ overlapped = FALSE /\ torn = FALSE
  /\ saves = 0 /\ turns = 0 /\ faults = 0

-------------------------------------------------------------------------------
(* RoutingControls *)

\* view: the revision is read first, so that a policy another process changes
\* between the two reads can only be refused later.
View(w) ==
  /\ op[w] = Idle /\ Free(Process(w)) /\ shown[w] # files
  /\ shown' = [shown EXCEPT ![w] = files]
  /\ UNCHANGED <<files, op, blind, overlapped, torn, apart, session, saves, turns, faults>>

\* save: it awaits the candidates before it compares the revision.
Submit(w) ==
  /\ op[w] = Idle /\ shown[w] # None /\ saves < MaxSaves /\ saves' = saves + 1
  /\ \E u \in Updates : op' = [op EXCEPT ![w] = [at |-> "view", update |-> u]]
  /\ UNCHANGED <<files, shown, blind, overlapped, torn, apart, session, turns, faults>>
CompareEarly(w) ==
  /\ op[w].at = "view" /\ Free(Process(w))
  /\ op' = [op EXCEPT ![w] = [at |-> "load", update |-> op[w].update]]
  /\ overlapped' = (overlapped \/ \E v \in Windows : Saving(v))
  /\ UNCHANGED <<files, shown, blind, torn, apart, session, saves, turns, faults>>
Compare(w) ==
  /\ op[w].at = "view" /\ Free(Process(w))
  /\ op' = [op EXCEPT ![w] = IF shown[w] = files
                             THEN [at |-> "load", update |-> op[w].update] ELSE Idle]
  /\ overlapped' = (overlapped \/ \E v \in Windows : Saving(v))
  /\ UNCHANGED <<files, shown, blind, torn, apart, session, saves, turns, faults>>
Load(w) ==
  /\ op[w].at = "load"
  /\ op' = [op EXCEPT ![w] = [at |-> "write", left |-> Order,
                              policy |-> Updated(files, op[w].update)]]
  /\ blind' = (blind \/ files # shown[w])
  /\ UNCHANGED <<files, shown, overlapped, torn, apart, session, saves, turns, faults>>
\* save_policy: one file after the other; the window then sees the result
Write(w) ==
  /\ op[w].at = "write"
  /\ LET f    == Head(op[w].left)
         left == Tail(op[w].left)
     IN /\ files' = [files EXCEPT ![f] = op[w].policy[f]]
        /\ op' = [op EXCEPT ![w] = IF left = <<>> THEN Idle ELSE [@ EXCEPT !.left = left]]
        /\ shown' = [shown EXCEPT ![w] = IF left = <<>> THEN files' ELSE @]
  /\ UNCHANGED <<blind, overlapped, torn, apart, session, saves, turns, faults>>

-------------------------------------------------------------------------------
(* turns of the conversation *)

Mode(p) == IF p.base /\ (IF thread = "default" THEN p.execution ELSE thread) = "auto"
           THEN "auto" ELSE "manual"

\* _validate_routing_mode, and only between turns
ChooseMode(m) ==
  /\ turn = Idle /\ Free("desktop") /\ thread # m
  /\ m = "auto" => files.base
  /\ thread' = m
  /\ UNCHANGED <<settings, apart, native, turn, captured, worker, saves, turns, faults>>
\* _apply_routing_permissions reads the preset, then awaits the native session.
BeginTurn ==
  /\ turn = Idle /\ turns < MaxTurns /\ turns' = turns + 1 /\ Free("desktop")
  /\ turn' = IF Mode(files) = "auto" THEN [at |-> "apply", preset |-> files.permissions]
             ELSE [at |-> "running"]
  /\ UNCHANGED <<settings, apart, thread, native, captured, worker, saves, faults>>
Capture ==
  /\ turn.at = "apply" /\ Free("desktop")
  /\ native' = IF turn.preset = "inherit" THEN native ELSE turn.preset
  /\ captured' = [run |-> turns, preset |-> turn.preset]
  /\ turn' = [at |-> "running"]
  /\ UNCHANGED <<settings, apart, thread, worker, saves, turns, faults>>
EndTurn ==
  /\ turn.at \in {"apply", "running"} /\ Free("desktop")
  /\ turn' = Idle
  /\ captured' = IF captured # None /\ captured.run = turns THEN None ELSE captured
  /\ UNCHANGED <<settings, apart, thread, native, worker, saves, turns, faults>>

-------------------------------------------------------------------------------
(* a delegated worker *)

LatestPreset(p) == IF Mode(p) # "auto" THEN "inherit" ELSE p.permissions
RoutingPreset(p) ==
  IF Mode(p) # "auto" THEN "inherit"
  ELSE IF captured # None THEN captured.preset ELSE p.permissions

\* create_service reads the policy once; a disabled one delegates nothing.
StartWorker ==
  /\ turn.at = "running" /\ worker = Idle /\ Mode(files) = "auto"
  /\ worker' = [at |-> "constrain", turn |-> turns, policy |-> files]
  /\ UNCHANGED <<settings, apart, thread, native, turn, captured, saves, turns, faults>>
\* _constrain_parent: the coordinator must have what its worker would get.
Constrain ==
  /\ worker.at = "constrain"
  /\ worker' = IF RoutingPreset(worker.policy) \in {"inherit", native}
               THEN [worker EXCEPT !.at = "prepare"] ELSE Idle
  /\ UNCHANGED <<settings, apart, thread, native, turn, captured, saves, turns, faults>>
Prepare ==
  /\ worker.at = "prepare"
  /\ worker' = [at |-> "running", turn |-> worker.turn, runs |-> RoutingPreset(worker.policy)]
  /\ UNCHANGED <<settings, apart, thread, native, turn, captured, saves, turns, faults>>
WorkerEnds ==
  /\ worker # Idle /\ worker' = Idle
  /\ UNCHANGED <<settings, apart, thread, native, turn, captured, saves, turns, faults>>

\* A process dies; the worker is another one's.
Crash(p) ==
  /\ faults < MaxFaults /\ faults' = faults + 1
  /\ p = "preview" => apart
  /\ op' = [w \in Windows |-> IF Process(w) = p THEN Idle ELSE op[w]]
  /\ shown' = [w \in Windows |-> IF Process(w) = p THEN None ELSE shown[w]]
  /\ torn' = (torn \/ \E w \in Windows : Process(w) = p /\ op[w].at = "write")
  /\ turn' = IF p = "desktop" THEN Idle ELSE turn
  /\ UNCHANGED <<files, blind, overlapped, apart, thread, native, captured, worker, saves, turns>>

-------------------------------------------------------------------------------
Next ==
  \/ \E w \in Windows : View(w) \/ Submit(w) \/ Compare(w) \/ Load(w) \/ Write(w)
  \/ \E m \in {"manual", "auto"} : ChooseMode(m)
  \/ BeginTurn \/ Capture \/ EndTurn
  \/ StartWorker \/ Constrain \/ Prepare \/ WorkerEnds
  \/ \E p \in {"desktop", "preview"} : Crash(p)

Spec == Init /\ [][Next]_vars

-------------------------------------------------------------------------------
(* properties *)

TypeOK ==
  /\ files \in Policy
  /\ native \in Presets \cup {"own"}
  /\ captured # None => captured.run \in 1..MaxTurns /\ captured.preset \in Presets

\* A save replaces the policy its window was shown and no other, unless two
\* processes saved at once.  (routing_settings.py:219-221)
NoBlindSave == blind => overlapped

\* A worker runs under the preset its turn captured, and never under one that
\* the coordinator itself does not have, whatever is saved meanwhile.
\* (routing/permissions.py:35, execution.py:564-583)
WorkersAsCaptured ==
  worker.at = "running" /\ turn.at = "running" /\ worker.turn = turns
    /\ captured # None /\ captured.run = turns =>
      /\ worker.runs = captured.preset
      /\ worker.runs \in {"inherit", native}

PolicyHolds == TypeOK /\ NoBlindSave /\ WorkersAsCaptured
===============================================================================
