------------------------------- MODULE Handoff -------------------------------
(***************************************************************************)
(* One development conversation moving between harnesses: AgentService's    *)
(* route to a native session, the switch that prepares a fresh native       *)
(* session with the history so far and commits it, the turns that deliver   *)
(* that history, and the desktop that opens the conversation again after    *)
(* the process died.                                                        *)
(*                                                                         *)
(* The store is seen through append_events and update_manifest (SessionLog  *)
(* has their steps): an append either happens, log then manifest, or it     *)
(* raises after a prefix of its records reached the log.  A native session  *)
(* is what it has been told: a set of turns.                                *)
(***************************************************************************)
EXTENDS Naturals, Sequences, FiniteSets

CONSTANTS
    Providers,      \* harnesses
    First,          \* the harness the conversation was created with
    MaxTurns,       \* bound: user requests
    MaxNatives,     \* bound: native sessions, one per switch or restore
    MaxNotes        \* bound: other records appended (turn_diff, model changes)

ASSUME HandoffAssumption ==
    /\ First \in Providers
    /\ MaxTurns \in Nat
    /\ MaxNatives \in Nat \ {0}
    /\ MaxNotes \in Nat

VARIABLES
    log,        \* events.jsonl
    manifest,   \* manifest.json: provider, native_session_id, last_event_seq
    natives,    \* the native sessions created so far, at their harnesses
    route,      \* AgentService._sessions: the live route, or NoRoute
    adopted,    \* the desktop has it in _productivity_sessions
    step,       \* where the running operation stands, or "idle"
    cand,       \* the switch being prepared
    turn        \* how many turns were begun

vars == <<log, manifest, natives, route, adopted, step, cand, turn>>

Turns == 1 .. MaxTurns

User(t)      == [kind |-> "user",      turn |-> t, nat |-> 0]
Answer(t)    == [kind |-> "answer",    turn |-> t, nat |-> 0]
Completed(t) == [kind |-> "completed", turn |-> t, nat |-> 0]
Failed(t)    == [kind |-> "failed",    turn |-> t, nat |-> 0]
Note         == [kind |-> "note",      turn |-> 0, nat |-> 0]
Switch(n)    == [kind |-> "switch",    turn |-> 0, nat |-> n]
Submitted(n) == [kind |-> "submitted", turn |-> 0, nat |-> n]
Delivered(n) == [kind |-> "delivered", turn |-> 0, nat |-> n]

Logged(e)   == \E i \in DOMAIN log : log[i] = e
Finished    == {t \in Turns : Logged(Completed(t))}
History     == {t \in Turns : Logged(User(t))}
NoteCount   == Cardinality({i \in DOMAIN log : log[i] = Note})
LatestOf(S) == CHOOSE i \in S : \A j \in S : j <= i

NoRoute == [nat |-> 0, hand |-> FALSE, ctx |-> {}, warned |-> FALSE]
NoCand  == [nat |-> 0, ctx |-> {}, warned |-> FALSE, seen |-> 0]

(* Mutant: any delivery confirms the newest switch, whichever it was for.  *)
PendingAnyDelivery(p) ==
    /\ \E i \in DOMAIN log : /\ log[i].kind = "switch"
                            /\ natives[log[i].nat].prov = p
    /\ ~ \E j \in DOMAIN log : log[j].kind = "delivered"

(* pending_handoff: the newest switch to this provider has no record of    *)
(* delivery.                                                                *)
Pending(p) ==
    LET switches == {i \in DOMAIN log : /\ log[i].kind = "switch"
                                        /\ natives[log[i].nat].prov = p}
    IN  /\ switches # {}
        /\ ~ \E j \in DOMAIN log : /\ j > LatestOf(switches)
                                   /\ log[j] = Delivered(log[LatestOf(switches)].nat)

(* unresolved_submissions: handoffs whose last submission was never         *)
(* confirmed.                                                               *)
Unresolved ==
    {n \in DOMAIN natives :
        \E i \in DOMAIN log : /\ log[i] = Submitted(n)
                              /\ \A j \in DOMAIN log : log[j] = Delivered(n) => j < i}
-----------------------------------------------------------------------------
(* append_events, with the manifest as changed by its manifest_updates.    *)
Record(batch, changed) ==
    /\ log' = log \o batch
    /\ manifest' = [changed EXCEPT !.seq = Len(log')]

(* Mutant: the manifest is written first.                                  *)
RecordFailsManifestFirst(batch) ==
    /\ \E k \in 0 .. Len(batch) : log' = log \o SubSeq(batch, 1, k)
    /\ manifest' = [manifest EXCEPT !.seq = Len(log) + Len(batch)]

(* It raised: a prefix of the batch may be in the log, the manifest is the *)
(* old one.                                                                 *)
RecordFails(batch) ==
    /\ \E k \in 0 .. Len(batch) : log' = log \o SubSeq(batch, 1, k)
    /\ UNCHANGED manifest

(* ContextSnapshots.reconcile.                                             *)
Ahead    == {i \in DOMAIN log : i > manifest.seq}
Commits == {i \in Ahead : log[i].kind \in {"switch", "delivered"}}

Reconcilable ==
    \/ Ahead = {}
    \/ /\ Commits # {}
       /\ \A i \in Ahead : i > LatestOf(Commits) => log[i].kind = "completed"

Reconciled ==
    IF Ahead = {} THEN manifest
    ELSE LET n == log[LatestOf(Commits)].nat
             p == IF log[LatestOf(Commits)].kind = "switch"
                  THEN natives[n].prov
                  ELSE manifest.prov
         IN  [prov |-> p, nat |-> n, seq |-> Len(log)]

Init ==
    /\ log = <<>>
    /\ natives = <<[prov |-> First, known |-> {}]>>
    /\ manifest = [prov |-> First, nat |-> 1, seq |-> 0]
    /\ route = [NoRoute EXCEPT !.nat = 1]
    /\ adopted = TRUE
    /\ step = "idle"
    /\ cand = NoCand
    /\ turn = 0
-----------------------------------------------------------------------------
(* _switch_session up to the creation of a fresh native session at p; m is *)
(* the manifest that reconcile left.                                        *)
Prepare(p, m) ==
    /\ Len(natives) < MaxNatives
    /\ manifest' = m
    /\ natives' = Append(natives, [prov |-> p, known |-> {}])
    /\ cand' = [nat |-> Len(natives'), ctx |-> History,
                warned |-> Unresolved # {}, seen |-> Len(log)]
    /\ step' = "prepare"
    /\ UNCHANGED <<log, route, adopted, turn>>

(* The user picks another harness.                                         *)
BeginSwitch(p) ==
    /\ step = "idle"
    /\ p # manifest.prov
    /\ Reconcilable
    /\ Prepare(p, Reconciled)

(* reconcile repaired the manifest, but the target could not be started.   *)
SwitchRefused ==
    /\ step = "idle"
    /\ Reconcilable
    /\ manifest' = Reconciled
    /\ UNCHANGED <<log, natives, route, adopted, step, cand, turn>>

ResumeNative(m) ==
    /\ route = NoRoute
    /\ route' = [NoRoute EXCEPT !.nat = m.nat]
    /\ adopted' = TRUE
    /\ manifest' = m
    /\ UNCHANGED <<log, natives, step, cand, turn>>

(* _ensure_productivity_session: a conversation with no handoff pending is *)
(* resumed at its native session.                                           *)
OpenNative ==
    /\ step = "idle"
    /\ ~adopted
    /\ ~Pending(manifest.prov)
    /\ ResumeNative(manifest)

(* Otherwise restore_session: reconcile, look again, and resume or switch  *)
(* to the same harness anew.                                                *)
OpenPending ==
    /\ step = "idle"
    /\ ~adopted
    /\ Pending(manifest.prov)
    /\ Reconcilable
    /\ IF Pending(Reconciled.prov)
       THEN Prepare(Reconciled.prov, Reconciled)
       ELSE ResumeNative(Reconciled)

(* The candidate's login, options or permissions failed, or the history    *)
(* changed while they were awaited; the candidate is closed.                *)
CandidateFails ==
    /\ step = "prepare"
    /\ step' = "idle"
    /\ cand' = NoCand
    /\ UNCHANGED <<log, manifest, natives, route, adopted, turn>>

Unchanged == Len(log) = cand.seen

CommitSwitch ==
    /\ step = "prepare"
    /\ Unchanged
    /\ Record(<<Switch(cand.nat)>>,
              [manifest EXCEPT !.prov = natives[cand.nat].prov, !.nat = cand.nat])
    /\ route' = [nat |-> cand.nat, hand |-> TRUE,
                 ctx |-> cand.ctx, warned |-> cand.warned]
    /\ step' = "close_old"
    /\ UNCHANGED <<natives, adopted, cand, turn>>

(* Mutant: the manifest names the candidate before the switch is recorded. *)
CommitFailsNamed ==
    /\ step = "prepare"
    /\ Unchanged
    /\ manifest' = [manifest EXCEPT !.prov = natives[cand.nat].prov, !.nat = cand.nat]
    /\ step' = "recover"
    /\ UNCHANGED <<log, natives, route, adopted, cand, turn>>

CommitFails ==
    /\ step = "prepare"
    /\ Unchanged
    /\ RecordFails(<<Switch(cand.nat)>>)
    /\ step' = "recover"
    /\ UNCHANGED <<natives, route, adopted, cand, turn>>

(* The handler of the failed commit, after it awaited the candidate's      *)
(* close: a commit that reached the log takes the old route down and is     *)
(* applied to the manifest, if reconcile can and its write succeeds.        *)
Recover ==
    /\ step = "recover"
    /\ IF Logged(Switch(cand.nat))
       THEN /\ route' = NoRoute
            /\ manifest' \in {manifest} \cup (IF Reconcilable THEN {Reconciled} ELSE {})
       ELSE UNCHANGED <<route, manifest>>
    /\ step' = "idle"
    /\ cand' = NoCand
    /\ UNCHANGED <<log, natives, adopted, turn>>

(* Closing the candidate raised or was cancelled: the rest of the handler  *)
(* does not run.                                                            *)
RecoverAborted ==
    /\ step = "recover"
    /\ step' = "idle"
    /\ cand' = NoCand
    /\ UNCHANGED <<log, manifest, natives, route, adopted, turn>>

(* The old route was closed, successfully or not, and the desktop takes    *)
(* the session; a cancellation meanwhile leaves it with what it had.        *)
FinishSwitch ==
    /\ step = "close_old"
    /\ step' = "idle"
    /\ cand' = NoCand
    /\ adopted' \in {TRUE, adopted}
    /\ UNCHANGED <<log, manifest, natives, route, turn>>
-----------------------------------------------------------------------------
(* _prompt records the request before anything else; an unknown route is a *)
(* KeyError and changes nothing.                                            *)
BeginTurn ==
    /\ step = "idle"
    /\ adopted
    /\ route # NoRoute
    /\ turn < MaxTurns
    /\ turn' = turn + 1
    /\ \/ /\ Record(<<User(turn')>>, manifest)
          /\ step' = "submit"
       \/ /\ RecordFails(<<User(turn')>>)
          /\ step' = step
    /\ UNCHANGED <<natives, route, adopted, cand>>

(* Mutant: the handoff is confirmed when it is submitted.                  *)
SubmitAsDelivered ==
    /\ step = "submit"
    /\ step' = "call"
    /\ IF route.hand THEN Record(<<Delivered(route.nat)>>, manifest)
                     ELSE UNCHANGED <<log, manifest>>
    /\ UNCHANGED <<natives, route, adopted, cand, turn>>

(* A pending handoff is recorded as submitted before the harness is called.*)
Submit ==
    /\ step = "submit"
    /\ IF route.hand
       THEN \/ /\ Record(<<Submitted(route.nat)>>, manifest)
               /\ step' = "call"
            \/ /\ RecordFails(<<Submitted(route.nat)>>)
               /\ step' = "idle"
       ELSE /\ step' = "call"
            /\ UNCHANGED <<log, manifest>>
    /\ UNCHANGED <<natives, route, adopted, cand, turn>>

(* The prompt reaches the native session, with the history if it is still  *)
(* owed.                                                                    *)
ProviderReceives ==
    /\ step = "call"
    /\ natives' = [natives EXCEPT ![route.nat].known = @ \cup route.ctx \cup {turn}]
    /\ step' = "running"
    /\ UNCHANGED <<log, manifest, route, adopted, cand, turn>>

(* provider.prompt raised, before or after the harness had the prompt: the *)
(* turn is marked failed in the manifest's status and has no record of its  *)
(* end.                                                                     *)
TurnRaises ==
    /\ step \in {"call", "running"}
    /\ step' = "idle"
    /\ UNCHANGED <<log, manifest, natives, route, adopted, cand, turn>>

TurnEnds(batch) ==
    /\ step = "running"
    /\ \/ /\ Record(batch, [manifest EXCEPT !.nat = route.nat])
          /\ step' = IF Completed(turn) \in {batch[i] : i \in DOMAIN batch}
                     THEN "refresh" ELSE "idle"
       \/ /\ RecordFails(batch)
          /\ step' = "idle"
    /\ UNCHANGED <<natives, route, adopted, cand, turn>>

Delivery == IF route.hand THEN <<Delivered(route.nat)>> ELSE <<>>

TurnCompletes == TurnEnds(<<Answer(turn)>> \o Delivery \o <<Completed(turn)>>)

(* Mutant: a failed turn too clears the handoff of the route.              *)
TurnFailsCleared ==
    /\ step = "running"
    /\ Record(<<Failed(turn)>>, [manifest EXCEPT !.nat = route.nat])
    /\ route' = [route EXCEPT !.hand = FALSE, !.ctx = {}, !.warned = FALSE]
    /\ step' = "idle"
    /\ UNCHANGED <<natives, adopted, cand, turn>>

TurnFails == TurnEnds(<<Failed(turn)>>)

(* After refresh_compact the route owes no history; if it raised, it still *)
(* does.                                                                    *)
RefreshTurn ==
    /\ step = "refresh"
    /\ \/ /\ manifest' = [manifest EXCEPT !.seq = Len(log)]
          /\ route' = [route EXCEPT !.hand = FALSE, !.ctx = {}, !.warned = FALSE]
       \/ UNCHANGED <<manifest, route>>
    /\ step' = "idle"
    /\ UNCHANGED <<log, natives, adopted, cand, turn>>
-----------------------------------------------------------------------------
(* Other writers.  A reader of another conversation repairs every stale    *)
(* projection it meets, with refresh_compact; records that are not part of  *)
(* a turn are appended outside the session lock.                            *)
Refresh ==
    /\ manifest.seq # Len(log)
    /\ manifest' = [manifest EXCEPT !.seq = Len(log)]
    /\ UNCHANGED <<log, natives, route, adopted, step, cand, turn>>

AppendNote ==
    /\ step \in {"idle", "prepare"}
    /\ NoteCount < MaxNotes
    /\ Record(<<Note>>, manifest)
    /\ UNCHANGED <<natives, route, adopted, step, cand, turn>>

(* The process dies, at any moment, or is closed.                          *)
Restart ==
    /\ step' = "idle"
    /\ route' = NoRoute
    /\ adopted' = FALSE
    /\ cand' = NoCand
    /\ UNCHANGED <<log, manifest, natives, turn>>

Next ==
    \/ \E p \in Providers : BeginSwitch(p)
    \/ SwitchRefused \/ OpenNative \/ OpenPending
    \/ CandidateFails \/ CommitSwitch \/ CommitFails
    \/ Recover \/ RecoverAborted \/ FinishSwitch
    \/ BeginTurn \/ Submit \/ ProviderReceives \/ TurnRaises
    \/ TurnCompletes \/ TurnFails \/ RefreshTurn
    \/ Refresh \/ AppendNote \/ Restart

Spec == Init /\ [][Next]_vars
-----------------------------------------------------------------------------
Events == {User(t) : t \in Turns} \cup {Answer(t) : t \in Turns}
          \cup {Completed(t) : t \in Turns} \cup {Failed(t) : t \in Turns}
          \cup {Note} \cup {Switch(n) : n \in 1 .. MaxNatives}
          \cup {Submitted(n) : n \in 1 .. MaxNatives}
          \cup {Delivered(n) : n \in 1 .. MaxNatives}

(* The values the variables take; the manifest is never ahead of the log.  *)
TypeOK ==
    /\ log \in Seq(Events)
    /\ manifest \in [prov : Providers, nat : 1 .. MaxNatives, seq : Nat]
    /\ manifest.nat <= Len(natives)
    /\ manifest.seq <= Len(log)
    /\ natives \in Seq([prov : Providers, known : SUBSET Turns])
    /\ Len(natives) \in 1 .. MaxNatives
    /\ route \in [nat : 0 .. MaxNatives, hand : BOOLEAN, ctx : SUBSET Turns,
                  warned : BOOLEAN]
    /\ route.nat <= Len(natives)
    /\ adopted \in BOOLEAN
    /\ step \in {"idle", "prepare", "recover", "close_old",
                 "submit", "call", "running", "refresh"}
    /\ cand \in [nat : 0 .. MaxNatives, ctx : SUBSET Turns, warned : BOOLEAN, seen : Nat]
    /\ cand.nat <= Len(natives)
    /\ turn \in 0 .. MaxTurns

(* A harness that works on a request has been told of every turn the       *)
(* conversation completed, whatever was switched, lost, retried or restored *)
(* before.                                                                  *)
ContextComplete == step = "running" => Finished \subseteq natives[route.nat].known

(* A route that owes no history goes to the first native session or to one *)
(* whose handoff was recorded as delivered: a switch that was prepared and  *)
(* never reached its harness is not mistaken for a conversation.            *)
ResumeOnlyAcknowledged ==
    route # NoRoute /\ ~route.hand => route.nat = 1 \/ Logged(Delivered(route.nat))

(* Nothing is recorded as delivered that the harness did not receive.      *)
NoFalseAcknowledgement ==
    \A n \in DOMAIN natives : Logged(Delivered(n)) => natives[n].known # {}

(* A harness that is handed the history after another one received it and  *)
(* never confirmed (its tools may have run) has been warned of that.        *)
WarnedOfUnconfirmed ==
    step = "running" /\ route.hand =>
        \A n \in 2 .. Len(natives) :
            n # route.nat /\ natives[n].known # {} /\ ~Logged(Delivered(n))
                => route.warned

(* A request is never recorded on the strength of a switch whose record is *)
(* missing: the native session the manifest names was committed.            *)
ManifestCommitted == manifest.nat = 1 \/ Logged(Switch(manifest.nat))

(* "A complete log commit may precede a failed manifest/index update.      *)
(* Recover it before any later user request" (cleo/harnesses/service.py):   *)
(* a request goes to the harness of the last switch in the log.             *)
CommittedSwitchHonoured ==
    step = "submit" =>
        \A n \in DOMAIN natives :
            Logged(Switch(n)) => n <= route.nat

(* "Initialize a returned harness route before publishing it to desktop    *)
(* callers" (cleo/desktop/service.py): a published session has a route.  It *)
(* loses it in Recover, and refuses every request from then on.             *)
PublishedHasRoute == step = "idle" /\ adopted => route # NoRoute

(* What the log and the manifest confirm of a switch is so, and only what is *)
(* confirmed is resumed.                                                    *)
Confirmed ==
    /\ TypeOK
    /\ ResumeOnlyAcknowledged
    /\ NoFalseAcknowledgement
    /\ ManifestCommitted
    /\ WarnedOfUnconfirmed
=============================================================================
