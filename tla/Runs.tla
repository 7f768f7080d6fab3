-------------------------------- MODULE Runs --------------------------------
(***************************************************************************)
(* RunSupervisor and the operations of the desktop service that rely on it: *)
(* the life of a run (stream_turn) from its check to its finish, its        *)
(* cancellation, harness switches that wait for it, deleting a            *)
(* conversation, and undoing or resetting the files a run changed.          *)
(*                                                                         *)
(* All conversations work in one directory, which is where they meet: the   *)
(* guard serialises claims, undos and resets, and a run whose directory     *)
(* was shared leaves no record by which its changes could be undone.        *)
(***************************************************************************)
EXTENDS Integers, FiniteSets

CONSTANTS
    Threads,    \* conversations
    Streams,    \* bound: calls of stream_turn; each edits files at most once
    MaxEvents   \* bound: cancellations, switches, deletions, undos, resets
                \* and store calls that fail

ASSUME RunsAssumption ==
    /\ Threads \cap Streams = {}
    /\ {"free", "reset", "none"} \cap (Threads \cup Streams) = {}
    /\ MaxEvents \in Nat

VARIABLES
    stage,      \* where each stream_turn call is
    of,         \* its conversation
    cancelling, \* the runs whose task was cancelled
    snap,       \* the trees a run has captured so far
    tasks,      \* RunSupervisor.tasks
    claims,     \* RunSupervisor.workspaces: who claimed the directory
    guard,      \* who holds workspace_guard
    applying,   \* the undo or reset that holds it has passed its checks
    lock,       \* who holds the conversation's runtime lock
    switch,     \* switch_harness; all but "none" are in harness_switches
    awaited,    \* the run a switch waits for
    op,         \* delete_thread, past its check
    deleted,
    shared,     \* the manifest's undo_checkpoint_shared
    checkpoint, \* the manifest's undo_checkpoint
    tree,       \* the files: the edits in them, named by the run that made it
    made        \* of the events that MaxEvents bounds

vars == <<stage, of, cancelling, snap, tasks, claims, guard, applying, lock, switch,
          awaited, op, deleted, shared, checkpoint, tree, made>>
supervisor == <<tasks, claims>>
switches   == <<switch, awaited>>
changes    == <<shared, checkpoint, tree>>

None  == "none"
NoCheckpoint == [kept |-> FALSE, before |-> {}, after |-> {}]

Init ==
    /\ stage = [r \in Streams |-> "new"]
    /\ of = [r \in Streams |-> None]
    /\ cancelling = {}
    /\ snap = [r \in Streams |-> NoCheckpoint]
    /\ tasks = [t \in Threads |-> None]
    /\ claims = {}
    /\ guard = "free"
    /\ applying = FALSE
    /\ lock = [t \in Threads |-> None]
    /\ switch = [t \in Threads |-> None]
    /\ awaited = [t \in Threads |-> None]
    /\ op = [t \in Threads |-> None]
    /\ deleted = {}
    /\ shared = {}
    /\ checkpoint = [t \in Threads |-> NoCheckpoint]
    /\ tree = {}
    /\ made = 0
-----------------------------------------------------------------------------
(* A run whose task is not done; its conversation.                          *)
Live(r) == stage[r] \notin {"new", "gone", "failed"}
T(r)    == of[r]

(* RunSupervisor.unfinished and is_running.                                 *)
Unfinished(t) == tasks[t] # None /\ Live(tasks[t])
IsRunning(t)  == tasks[t] # None

IsSwitching(t) == switch[t] # None

(* The run's body is over; its finally clause waits for the guard, unless   *)
(* nobody holds it ("holder" is who does then).                             *)
Leave(r, holder) ==
    IF holder = "free"
    THEN stage' = [stage EXCEPT ![r] = "cleaning"] /\ guard' = r
    ELSE stage' = [stage EXCEPT ![r] = "waiting"] /\ guard' = holder

(* The calls are alike, so they are made in a fixed order.                 *)
NextStream == CHOOSE r \in Streams : stage[r] = "new"

(* One more of the bounded events.                                         *)
Event == made < MaxEvents /\ made' = made + 1

Goto(r, next) == stage' = [stage EXCEPT ![r] = next]

(* Mutant: a run that is being switched away does not keep others out.      *)
StartWhileSwitching(r, t) ==
    /\ stage[r] = "new" /\ r = NextStream
    /\ t \notin deleted
    /\ ~Unfinished(t)
    /\ of' = [of EXCEPT ![r] = t]
    /\ tasks' = [tasks EXCEPT ![t] = r]
    /\ \E kind \in {"started", "command"} : Goto(r, kind)
    /\ UNCHANGED <<cancelling, snap, claims, guard, applying, lock, switches, op,
                   deleted, changes, made>>

(* stream_turn up to its first await: the hooks that run in between do not  *)
(* suspend, so that checks and start are one step.  Some are slash commands.*)
Start(r, t) ==
    /\ stage[r] = "new" /\ r = NextStream
    /\ t \notin deleted
    /\ ~IsSwitching(t)
    /\ ~Unfinished(t)
    /\ of' = [of EXCEPT ![r] = t]
    /\ tasks' = [tasks EXCEPT ![t] = r]
    /\ \E kind \in {"started", "command"} : Goto(r, kind)
    /\ UNCHANGED <<cancelling, snap, claims, guard, applying, lock, switches, op,
                   deleted, changes, made>>

(* A slash command is a run that claims nothing.                            *)
Command(r) ==
    /\ stage[r] = "command"
    /\ Leave(r, guard)
    /\ UNCHANGED <<of, cancelling, snap, supervisor, applying, lock, switches, op,
                   deleted, changes, made>>

(* Pending permissions are applied under the conversation's runtime lock.   *)
LockRuntime(r) ==
    /\ stage[r] = "started"
    /\ T(r) \notin deleted
    /\ lock[T(r)] = None
    /\ lock' = [lock EXCEPT ![T(r)] = r]
    /\ Goto(r, "permissions")
    /\ UNCHANGED <<of, cancelling, snap, supervisor, guard, applying, switches, op,
                   deleted, changes, made>>

(* Mutant: the runtime lock is kept.                                        *)
ApplyHoldingLock(r) ==
    /\ stage[r] = "permissions"
    /\ T(r) \notin deleted
    /\ Goto(r, "claim")
    /\ UNCHANGED <<of, cancelling, snap, supervisor, guard, applying, lock, switches, op,
                   deleted, changes, made>>

ApplyPermissions(r) ==
    /\ stage[r] = "permissions"
    /\ T(r) \notin deleted
    /\ lock' = [lock EXCEPT ![T(r)] = None]
    /\ Goto(r, "claim")
    /\ UNCHANGED <<of, cancelling, snap, supervisor, guard, applying, switches, op,
                   deleted, changes, made>>

(* The guard is taken, and the directory looked up in a thread.             *)
LockWorkspace(r) ==
    /\ stage[r] = "claim"
    /\ guard = "free"
    /\ guard' = r
    /\ Goto(r, "claiming")
    /\ UNCHANGED <<of, cancelling, snap, supervisor, applying, lock, switches, op,
                   deleted, changes, made>>

(* Mutant: the runs that were there first are not told.                     *)
ClaimWithoutPeers(r) ==
    /\ stage[r] = "claiming"
    /\ LET t == T(r)
           peers == claims \ {t} IN
       /\ claims' = claims \cup {t}
       /\ shared' = IF peers = {} THEN shared \ {t} ELSE shared \cup {t}
    /\ Goto(r, "claimed")
    /\ guard' = "free"
    /\ UNCHANGED <<of, cancelling, snap, tasks, applying, lock, switches, op,
                   deleted, checkpoint, tree, made>>

(* claim_workspace, then the manifests; those of a deleted conversation     *)
(* cannot be written, and the run fails with its claim made.                *)
Claim(r) ==
    /\ stage[r] = "claiming"
    /\ LET t == T(r)
           peers == claims \ {t} IN
       /\ claims' = claims \cup {t}
       /\ shared' = CASE t \in deleted   -> shared
                      [] peers = {}      -> shared \ {t}
                      [] OTHER           -> shared \cup {t} \cup (peers \ deleted)
       /\ IF ({t} \cup peers) \cap deleted = {}
          THEN Goto(r, "claimed") /\ guard' = "free"
          ELSE Leave(r, "free")
    /\ UNCHANGED <<of, cancelling, snap, tasks, applying, lock, switches, op,
                   deleted, checkpoint, tree, made>>
-----------------------------------------------------------------------------
(* _stream_productivity: the previous record is dropped and the tree before *)
(* the turn captured, which git may refuse (chats never have a record).     *)
Open(r) ==
    /\ stage[r] = "claimed"
    /\ T(r) \notin deleted
    /\ checkpoint' = [checkpoint EXCEPT ![T(r)] = NoCheckpoint]
    /\ \E works \in BOOLEAN :
          snap' = [snap EXCEPT ![r] = [NoCheckpoint EXCEPT !.kept = works,
                                                           !.before = tree]]
    /\ Goto(r, "working")
    /\ UNCHANGED <<of, cancelling, supervisor, guard, applying, lock, switches, op,
                   deleted, shared, tree, made>>

(* The agent edits a file.                                                  *)
Edit(r) ==
    /\ stage[r] = "working"
    /\ r \notin cancelling
    /\ tree' = tree \cup {r}
    /\ UNCHANGED <<stage, of, cancelling, snap, supervisor, guard, applying, lock,
                   switches, op, deleted, shared, checkpoint, made>>

(* The turn is over, or was cancelled: the tree is captured in a thread...  *)
Capture(r) ==
    /\ stage[r] = "working"
    /\ snap' = [snap EXCEPT ![r].after = tree]
    /\ Goto(r, "captured")
    /\ UNCHANGED <<of, cancelling, supervisor, guard, applying, lock, switches, op,
                   deleted, changes, made>>

(* ...and recorded, unless others worked there meanwhile.                   *)
Record(r) ==
    /\ stage[r] = "captured"
    /\ T(r) \notin deleted
    /\ checkpoint' = [checkpoint EXCEPT
          ![T(r)] = IF snap[r].kept /\ T(r) \notin shared THEN snap[r] ELSE NoCheckpoint]
    /\ snap' = [snap EXCEPT ![r] = NoCheckpoint]
    /\ Leave(r, guard)
    /\ UNCHANGED <<of, cancelling, supervisor, applying, lock, switches, op,
                   deleted, shared, tree, made>>

(* The store cannot load the conversation of the run: the body raises.      *)
Fail(r) ==
    /\ stage[r] \in {"command", "started", "permissions", "claim", "claimed",
                     "working", "captured"}
    /\ T(r) \in deleted
    /\ lock' = [t \in Threads |-> IF lock[t] = r THEN None ELSE lock[t]]
    /\ Leave(r, guard)
    /\ UNCHANGED <<of, cancelling, snap, supervisor, applying, switches, op,
                   deleted, changes, made>>

TakeGuard(r) ==
    /\ stage[r] = "waiting"
    /\ guard = "free"
    /\ guard' = r
    /\ Goto(r, "cleaning")
    /\ UNCHANGED <<of, cancelling, snap, supervisor, applying, lock, switches, op,
                   deleted, changes, made>>

(* RunSupervisor.finish.                                                    *)
Finished(r) == /\ tasks' = [tasks EXCEPT ![T(r)] = None]
               /\ claims' = claims \ {T(r)}

(* The finally clause: a shared record is dropped, then the run forgotten,  *)
(* before the guard is released.                                            *)
Finish(r) ==
    /\ stage[r] = "cleaning"
    /\ T(r) \notin deleted
    /\ checkpoint' = [checkpoint EXCEPT
          ![T(r)] = IF T(r) \in shared THEN NoCheckpoint ELSE @]
    /\ Finished(r)
    /\ Goto(r, "gone")
    /\ guard' = "free"
    /\ UNCHANGED <<of, cancelling, snap, applying, lock, switches, op, deleted,
                   shared, tree, made>>

(* Loading the manifest, or writing it, fails: the run ends registered.     *)
FinishFails(r) ==
    /\ stage[r] = "cleaning"
    /\ \/ T(r) \in deleted /\ UNCHANGED made
       \/ Event
    /\ Goto(r, "failed")
    /\ guard' = "free"
    /\ UNCHANGED <<of, cancelling, snap, supervisor, applying, lock, switches, op,
                   deleted, changes>>
-----------------------------------------------------------------------------
(* cancel: the task is cancelled where it is suspended.                     *)
Cancel(r) ==
    /\ Live(r)
    /\ r \notin cancelling
    /\ Event
    /\ cancelling' = cancelling \cup {r}
    /\ \/ /\ stage[r] \in {"command", "started", "permissions", "claim", "claimed"}
          /\ lock' = [t \in Threads |-> IF lock[t] = r THEN None ELSE lock[t]]
          /\ Leave(r, guard)
          /\ UNCHANGED <<supervisor>>
       \/ /\ stage[r] = "claiming"          \* the guard is released again
          /\ Leave(r, "free")
          /\ UNCHANGED <<supervisor, lock>>
       \/ /\ stage[r] = "working"           \* the turn still captures the tree
          /\ UNCHANGED <<stage, supervisor, guard, lock>>
       \/ /\ stage[r] = "captured"          \* without recording it
          /\ Leave(r, guard)
          /\ UNCHANGED <<supervisor, lock>>
       \/ /\ stage[r] = "waiting"           \* the finally clause is left
          /\ Goto(r, "gone")
          /\ UNCHANGED <<supervisor, guard, lock>>
       \/ /\ stage[r] = "cleaning"          \* it is discarding a shared record
          /\ T(r) \in shared /\ checkpoint[T(r)].kept
          /\ T(r) \notin deleted
          /\ Finished(r)
          /\ Goto(r, "gone")
          /\ guard' = "free"
          /\ UNCHANGED lock
    /\ UNCHANGED <<of, snap, applying, switches, op, deleted, changes>>
-----------------------------------------------------------------------------
(* Mutant: the runtime lock is taken before the run has ended.              *)
LockBeforeWaiting(t) ==
    /\ Event
    /\ ~IsSwitching(t)
    /\ t \notin deleted
    /\ lock[t] = None
    /\ switch' = [switch EXCEPT ![t] = IF Unfinished(t) THEN "waiting" ELSE "locking"]
    /\ awaited' = [awaited EXCEPT ![t] = tasks[t]]
    /\ lock' = [lock EXCEPT ![t] = t]
    /\ UNCHANGED <<stage, of, cancelling, snap, supervisor, guard, applying, op,
                   deleted, changes>>

(* switch_harness: marked, then the run in progress is waited for...        *)
BeginSwitch(t) ==
    /\ Event
    /\ ~IsSwitching(t)
    /\ t \notin deleted
    /\ switch' = [switch EXCEPT ![t] = IF Unfinished(t) THEN "waiting" ELSE "locking"]
    /\ awaited' = [awaited EXCEPT ![t] = IF Unfinished(t) THEN tasks[t] ELSE None]
    /\ UNCHANGED <<stage, of, cancelling, snap, supervisor, guard, applying, lock, op,
                   deleted, changes>>

RunEnded(t) ==
    /\ switch[t] = "waiting"
    /\ ~Live(awaited[t])
    /\ switch' = [switch EXCEPT ![t] = "locking"]
    /\ awaited' = [awaited EXCEPT ![t] = None]
    /\ UNCHANGED <<stage, of, cancelling, snap, supervisor, guard, applying, lock, op,
                   deleted, changes, made>>

(* ...and the harness exchanged under the runtime lock.                     *)
LockSwitch(t) ==
    /\ switch[t] = "locking"
    /\ lock[t] \in {None, t}
    /\ lock' = [lock EXCEPT ![t] = t]
    /\ switch' = [switch EXCEPT ![t] = "exchanging"]
    /\ UNCHANGED <<stage, of, cancelling, snap, supervisor, guard, applying, awaited, op,
                   deleted, changes, made>>

(* It is done, has failed, or its caller went away.                         *)
EndSwitch(t) ==
    /\ IsSwitching(t)
    /\ switch' = [switch EXCEPT ![t] = None]
    /\ awaited' = [awaited EXCEPT ![t] = None]
    /\ lock' = [lock EXCEPT ![t] = IF @ = t THEN None ELSE @]
    /\ UNCHANGED <<stage, of, cancelling, snap, supervisor, guard, applying, op,
                   deleted, changes, made>>
-----------------------------------------------------------------------------
(* delete_thread checks, then closes the harness session and its record.    *)
BeginDelete(t) ==
    /\ Event
    /\ op[t] = None
    /\ t \notin deleted
    /\ ~IsRunning(t) /\ ~IsSwitching(t)
    /\ op' = [op EXCEPT ![t] = "delete"]
    /\ UNCHANGED <<stage, of, cancelling, snap, supervisor, guard, applying, lock,
                   switches, deleted, changes>>

Delete(t) ==
    /\ op[t] = "delete"
    /\ op' = [op EXCEPT ![t] = None]
    /\ deleted' = deleted \cup {t}
    /\ checkpoint' = [checkpoint EXCEPT ![t] = NoCheckpoint]
    /\ UNCHANGED <<stage, of, cancelling, snap, supervisor, guard, applying, lock,
                   switches, shared, tree, made>>
-----------------------------------------------------------------------------
(* undo_changes and reset_workspace hold the guard throughout; they check   *)
(* when they know the directory.                                            *)
TakeGuardFor(who) ==
    /\ Event
    /\ who \notin deleted
    /\ guard = "free"
    /\ guard' = who
    /\ UNCHANGED <<stage, of, cancelling, snap, supervisor, applying, lock, switches, op,
                   deleted, changes>>

Refuse(who) ==
    /\ guard = who
    /\ guard' = "free"
    /\ applying' = FALSE
    /\ UNCHANGED <<stage, of, cancelling, snap, supervisor, lock, switches, op, deleted,
                   changes, made>>

UndoPasses(t) ==
    /\ guard = t /\ ~applying
    /\ claims = {} /\ t \notin shared /\ ~IsRunning(t)
    /\ checkpoint[t].kept
    /\ applying' = TRUE
    /\ UNCHANGED <<stage, of, cancelling, snap, supervisor, guard, lock, switches, op,
                   deleted, changes, made>>

(* undo_git_checkpoint: the tree must be as the turn left it.               *)
Undo(t) ==
    /\ guard = t /\ applying
    /\ checkpoint[t].kept
    /\ tree = checkpoint[t].after
    /\ tree' = checkpoint[t].before
    /\ checkpoint' = [checkpoint EXCEPT ![t] = NoCheckpoint]
    /\ applying' = FALSE
    /\ guard' = "free"
    /\ UNCHANGED <<stage, of, cancelling, snap, supervisor, lock, switches, op, deleted,
                   shared, made>>

ResetPasses ==
    /\ guard = "reset" /\ ~applying
    /\ claims = {}
    /\ applying' = TRUE
    /\ UNCHANGED <<stage, of, cancelling, snap, supervisor, guard, lock, switches, op,
                   deleted, changes, made>>

Reset ==
    /\ guard = "reset" /\ applying
    /\ tree' = {}
    /\ applying' = FALSE
    /\ guard' = "free"
    /\ UNCHANGED <<stage, of, cancelling, snap, supervisor, lock, switches, op, deleted,
                   shared, checkpoint, made>>
-----------------------------------------------------------------------------
Run(r) ==
    \/ Command(r) \/ LockRuntime(r) \/ ApplyPermissions(r) \/ LockWorkspace(r)
    \/ Claim(r) \/ Open(r) \/ Capture(r) \/ Record(r) \/ Fail(r)
    \/ TakeGuard(r) \/ Finish(r) \/ FinishFails(r)

Files ==
    \/ \E who \in Threads \cup {"reset"} : TakeGuardFor(who) \/ Refuse(who)
    \/ \E t \in Threads : UndoPasses(t) \/ Undo(t)
    \/ ResetPasses \/ Reset

Next ==
    \/ \E r \in Streams : Run(r) \/ Edit(r) \/ Cancel(r)
    \/ \E r \in Streams, t \in Threads : Start(r, t)
    \/ \E t \in Threads :
          \/ BeginSwitch(t) \/ RunEnded(t) \/ LockSwitch(t) \/ EndSwitch(t)
          \/ BeginDelete(t) \/ Delete(t)
    \/ Files

(* Tasks of one event loop run until they end, and turns end; the guard     *)
(* wakes its waiters in order.  Nobody owes a call or a cancellation.       *)
Fairness ==
    /\ \A r \in Streams :
          /\ WF_vars(Run(r))
          /\ SF_vars(LockWorkspace(r)) /\ SF_vars(TakeGuard(r))
    /\ \A t \in Threads :
          WF_vars(RunEnded(t)) /\ WF_vars(LockSwitch(t))
    /\ WF_vars(\E who \in Threads \cup {"reset"} : Refuse(who))

Spec == Init /\ [][Next]_vars /\ Fairness
-----------------------------------------------------------------------------
Stages == {"new", "command", "started", "permissions", "claim", "claiming",
           "claimed", "working", "captured", "waiting", "cleaning", "gone",
           "failed"}

Checkpoints == [kept : BOOLEAN, before : SUBSET Streams, after : SUBSET Streams]

(* The values the variables take; a lock is held by someone at a place that *)
(* takes it.                                                                *)
TypeOK ==
    /\ stage \in [Streams -> Stages]
    /\ of \in [Streams -> Threads \cup {None}]
    /\ cancelling \subseteq Streams
    /\ snap \in [Streams -> Checkpoints]
    /\ tasks \in [Threads -> Streams \cup {None}]
    /\ claims \subseteq Threads
    /\ guard \in {"free", "reset"} \cup Threads \cup Streams
    /\ guard \in Streams => stage[guard] \in {"claiming", "cleaning"}
    /\ applying => guard \in Threads \cup {"reset"}
    /\ lock \in [Threads -> {None} \cup Threads \cup Streams]
    /\ \A t \in Threads :
          \/ lock[t] \in {None, t}
          \/ lock[t] \in Streams /\ of[lock[t]] = t /\ stage[lock[t]] = "permissions"
    /\ switch \in [Threads -> {None, "waiting", "locking", "exchanging"}]
    /\ awaited \in [Threads -> Streams \cup {None}]
    /\ op \in [Threads -> {None, "delete"}]
    /\ deleted \subseteq Threads
    /\ shared \subseteq Threads
    /\ checkpoint \in [Threads -> Checkpoints]
    /\ tree \subseteq Streams
    /\ made \in 0 .. MaxEvents

(* "Runs in progress: at most one per thread" (runs.py): whatever was       *)
(* cancelled or failed before, a run whose task goes on is the one that its *)
(* conversation has registered, so that it can be cancelled and waited for. *)
OneRunPerThread == \A r \in Streams : Live(r) => tasks[T(r)] = r

(* "Wait for the entire current turn, then switch" (service.py): while the  *)
(* harness is exchanged no run of the conversation goes on.                 *)
SwitchedWhenIdle ==
    \A t \in Threads : switch[t] = "exchanging" => ~\E r \in Streams : Live(r) /\ T(r) = t

(* "Undo only the changes made by the latest productivity turn": what an    *)
(* undo that passed its checks takes out of the files, one run of that      *)
(* conversation put there, however many others worked in the directory.     *)
UndoesOwnChanges ==
    \A t \in Threads :
        guard = t /\ applying /\ checkpoint[t].kept /\ tree = checkpoint[t].after =>
            \E r \in Streams : of[r] = t /\ tree \ checkpoint[t].before \subseteq {r}

(* "Held while a run claims a workspace and while undo/reset inspect it":   *)
(* no run works on the files while an undo or a reset changes them.         *)
FilesChangedAlone ==
    applying => ~\E r \in Streams : stage[r] \in {"claimed", "working", "captured"}

(* A switch that waits for a run gets its turn: neither the runtime lock    *)
(* nor the guard makes the run wait for the switch.                         *)
EventuallySwitched ==
    \A t \in Threads : switch[t] = "waiting" ~> switch[t] # "waiting"

(* "Cancel the thread's run and wait until it has cleaned up" (runs.py): a  *)
(* cancelled run that is over and raised nothing else has left the          *)
(* registry.  It has not when it was cancelled while its finally clause     *)
(* waited for the guard.                                                    *)
CancelledIsCleanedUp ==
    \A r \in cancelling : stage[r] = "gone" => tasks[T(r)] # r

(* "A thread that is running ... cannot be deleted" (locales.json).  The    *)
(* check comes before an await, after which a run may have started.         *)
RunningIsNotDeleted ==
    [][\A t \in Threads : op[t] = "delete" /\ op'[t] = None => ~Unfinished(t)]_vars

(* Runs and switches of one conversation keep each other out.               *)
RunsExclude == TypeOK /\ OneRunPerThread /\ SwitchedWhenIdle

(* What an undo or a reset does to the files is what it says.               *)
FilesHold == UndoesOwnChanges /\ FilesChangedAlone
=============================================================================
