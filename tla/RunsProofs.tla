----------------------------- MODULE RunsProofs -----------------------------
(***************************************************************************)
(* What TLAPS proves of Runs for any conversations, calls and number of     *)
(* events: runs of one conversation keep each other and its switches out,   *)
(* no run works on the files while they are undone or reset, and an undo    *)
(* takes back the edits of one run of its conversation.                     *)
(***************************************************************************)
EXTENDS Runs, TLAPS

(* A run works on the files; it has claimed the directory and not left.     *)
Works(r) == stage[r] \in {"claimed", "working", "captured"}

(* A call has a conversation once it was made, and none before.             *)
Placed == \A r \in Streams : of[r] = None <=> stage[r] = "new"

(* A run is registered for its own conversation.                            *)
RegisteredHere == \A t \in Threads : tasks[t] # None => of[tasks[t]] = t

(* A switch waits for the only run there is, and goes on when there is none.*)
SwitchWaits ==
    \A t \in Threads :
        /\ switch[t] = "waiting" => \A r \in Streams : Live(r) /\ of[r] = t
            => r = awaited[t]
        /\ switch[t] \in {"locking", "exchanging"} => ~\E r \in Streams :
            Live(r) /\ of[r] = t

(* The guard is held by the run that is at a place it needs it for.         *)
HoldsGuard == \A r \in Streams : stage[r] \in {"claiming", "cleaning"}
    => guard = r

(* Who works has claimed, and an undo or a reset has seen no claim.         *)
Claimed == \A r \in Streams : Works(r) => of[r] \in claims
Unclaimed == applying => claims = {}

(* Two that work at once know it, unless their conversation is deleted.     *)
SharingKnown ==
    \A r, s \in Streams : Works(r) /\ Works(s) /\ r # s
        => of[r] \in shared \cup deleted

(* Whoever works alone has made all the changes since its first tree.       *)
ChangesAreOwn ==
    \A r \in Streams :
        snap[r].kept /\ of[r] \notin shared \cup deleted =>
            /\ stage[r] = "working" => tree \ snap[r].before \subseteq {r}
            /\ stage[r] = "captured"
                => snap[r].after \ snap[r].before \subseteq {r}

(* A checkpoint brackets the edits of one run of its conversation.          *)
CheckpointsAreOwn ==
    \A t \in Threads : checkpoint[t].kept =>
        \E r \in Streams : /\ of[r] = t
                           /\ checkpoint[t].after \ checkpoint[t].before \subseteq {r}

(* The inductive invariant.                                                *)
IInv ==
    /\ TypeOK
    /\ Placed
    /\ RegisteredHere
    /\ OneRunPerThread
    /\ SwitchWaits
    /\ HoldsGuard
    /\ Claimed
    /\ Unclaimed
    /\ SharingKnown
    /\ ChangesAreOwn
    /\ CheckpointsAreOwn

(* A record of the tree before the turn, and one of the tree after it.      *)
LEMMA FirstTree ==
    ASSUME NEW k \in BOOLEAN, NEW b \in SUBSET Streams
    PROVE  LET c == [NoCheckpoint EXCEPT !.kept = k, !.before = b] IN
           c \in Checkpoints /\ c.before = b
BY DEF Checkpoints, NoCheckpoint

LEMMA SecondTree ==
    ASSUME NEW c \in Checkpoints, NEW a \in SUBSET Streams
    PROVE  LET d == [c EXCEPT !.after = a] IN
           d \in Checkpoints /\ d.kept = c.kept /\ d.before = c.before
               /\ d.after = a
BY DEF Checkpoints

(* The variables keep their types, and the guard and the locks their holders.*)
LEMMA TypesKept ==
    ASSUME TypeOK, Placed, HoldsGuard, [Next]_vars
    PROVE  TypeOK' /\ Placed' /\ HoldsGuard'
<1> USE RunsAssumption DEF TypeOK, Placed, HoldsGuard, None, Stages, T,
        supervisor, switches, changes
<1> DEFINE Kept == TypeOK' /\ Placed' /\ HoldsGuard'
<1>1. ASSUME NEW r \in Streams, Command(r) PROVE Kept
  <2> USE <1>1 DEF Command, Leave
  <2>1. /\ stage' \in [Streams -> Stages]
        /\ guard' \in {"free", "reset"} \cup Threads \cup Streams
        /\ shared' \subseteq Threads /\ claims' \subseteq Threads
        /\ tasks' \in [Threads -> Streams \cup {None}]
        /\ lock' \in [Threads -> {None} \cup Threads \cup Streams]
    OBVIOUS
  <2>3. /\ guard' \in Streams => stage'[guard'] \in {"claiming", "cleaning"}
        /\ applying' => guard' \in Threads \cup {"reset"}
    OBVIOUS
  <2>4. ASSUME NEW t \in Threads
        PROVE  \/ lock'[t] \in {None, t}
               \/ /\ lock'[t] \in Streams /\ of'[lock'[t]] = t
                  /\ stage'[lock'[t]] = "permissions"
    BY <2>4
  <2>5. Placed' /\ HoldsGuard'
    OBVIOUS
  <2> QED
    BY <2>1, <2>3, <2>4, <2>5 DEF Checkpoints, NoCheckpoint
<1>2. ASSUME NEW r \in Streams, LockRuntime(r) PROVE Kept
  BY <1>2 DEF LockRuntime, Goto, NoCheckpoint, Checkpoints
<1>3. ASSUME NEW r \in Streams, ApplyPermissions(r) PROVE Kept
  BY <1>3 DEF ApplyPermissions, Goto, NoCheckpoint, Checkpoints
<1>4. ASSUME NEW r \in Streams, LockWorkspace(r) PROVE Kept
  BY <1>4 DEF LockWorkspace, Goto, NoCheckpoint, Checkpoints
<1>5. ASSUME NEW r \in Streams, Claim(r) PROVE Kept
  <2> USE <1>5 DEF Claim, Goto, Leave
  <2>1. /\ stage' \in [Streams -> Stages]
        /\ guard' \in {"free", "reset"} \cup Threads \cup Streams
        /\ shared' \subseteq Threads /\ claims' \subseteq Threads
        /\ tasks' \in [Threads -> Streams \cup {None}]
        /\ lock' \in [Threads -> {None} \cup Threads \cup Streams]
    OBVIOUS
  <2>3. /\ guard' \in Streams => stage'[guard'] \in {"claiming", "cleaning"}
        /\ applying' => guard' \in Threads \cup {"reset"}
    OBVIOUS
  <2>4. ASSUME NEW t \in Threads
        PROVE  \/ lock'[t] \in {None, t}
               \/ /\ lock'[t] \in Streams /\ of'[lock'[t]] = t
                  /\ stage'[lock'[t]] = "permissions"
    BY <2>4
  <2>5. Placed' /\ HoldsGuard'
    OBVIOUS
  <2> QED
    BY <2>1, <2>3, <2>4, <2>5 DEF Checkpoints, NoCheckpoint
<1>6. ASSUME NEW r \in Streams, Open(r) PROVE Kept
  <2> USE <1>6 DEF Open, Goto
  <2>1. /\ stage' \in [Streams -> Stages]
        /\ guard' \in {"free", "reset"} \cup Threads \cup Streams
        /\ shared' \subseteq Threads /\ claims' \subseteq Threads
        /\ tasks' \in [Threads -> Streams \cup {None}]
        /\ lock' \in [Threads -> {None} \cup Threads \cup Streams]
    OBVIOUS
  <2>2. snap' \in [Streams -> Checkpoints]
      /\ checkpoint' \in [Threads -> Checkpoints]
    <3>1. PICK works \in BOOLEAN :
              snap' = [snap EXCEPT ![r] = [NoCheckpoint EXCEPT !.kept = works,
                                                               !.before = tree]]
      OBVIOUS
    <3>2. NoCheckpoint \in Checkpoints
      BY DEF Checkpoints, NoCheckpoint
    <3>3. [NoCheckpoint EXCEPT !.kept = works, !.before = tree] \in Checkpoints
      BY FirstTree
    <3> QED
      BY <3>1, <3>2, <3>3
  <2>3. /\ guard' \in Streams => stage'[guard'] \in {"claiming", "cleaning"}
        /\ applying' => guard' \in Threads \cup {"reset"}
    OBVIOUS
  <2>4. ASSUME NEW t \in Threads
        PROVE  \/ lock'[t] \in {None, t}
               \/ /\ lock'[t] \in Streams /\ of'[lock'[t]] = t
                  /\ stage'[lock'[t]] = "permissions"
    BY <2>4
  <2>5. Placed' /\ HoldsGuard'
    OBVIOUS
  <2> QED
    BY <2>1, <2>2, <2>3, <2>4, <2>5
<1>7. ASSUME NEW r \in Streams, Capture(r) PROVE Kept
  <2> USE <1>7 DEF Capture, Goto
  <2>1. /\ stage' \in [Streams -> Stages]
        /\ guard' \in {"free", "reset"} \cup Threads \cup Streams
        /\ shared' \subseteq Threads /\ claims' \subseteq Threads
        /\ tasks' \in [Threads -> Streams \cup {None}]
        /\ lock' \in [Threads -> {None} \cup Threads \cup Streams]
    OBVIOUS
  <2>2. snap' \in [Streams -> Checkpoints]
      /\ checkpoint' \in [Threads -> Checkpoints]
    <3>1. [snap[r] EXCEPT !.after = tree] \in Checkpoints
      BY SecondTree
    <3> QED
      BY <3>1
  <2>3. /\ guard' \in Streams => stage'[guard'] \in {"claiming", "cleaning"}
        /\ applying' => guard' \in Threads \cup {"reset"}
    OBVIOUS
  <2>4. ASSUME NEW t \in Threads
        PROVE  \/ lock'[t] \in {None, t}
               \/ /\ lock'[t] \in Streams /\ of'[lock'[t]] = t
                  /\ stage'[lock'[t]] = "permissions"
    BY <2>4
  <2>5. Placed' /\ HoldsGuard'
    OBVIOUS
  <2> QED
    BY <2>1, <2>2, <2>3, <2>4, <2>5
<1>8. ASSUME NEW r \in Streams, Record(r) PROVE Kept
  BY <1>8 DEF Record, Leave, NoCheckpoint, Checkpoints
<1>9. ASSUME NEW r \in Streams, Fail(r) PROVE Kept
  <2> USE <1>9 DEF Fail, Leave
  <2>1. /\ stage' \in [Streams -> Stages]
        /\ guard' \in {"free", "reset"} \cup Threads \cup Streams
        /\ shared' \subseteq Threads /\ claims' \subseteq Threads
        /\ tasks' \in [Threads -> Streams \cup {None}]
        /\ lock' \in [Threads -> {None} \cup Threads \cup Streams]
    OBVIOUS
  <2>3. /\ guard' \in Streams => stage'[guard'] \in {"claiming", "cleaning"}
        /\ applying' => guard' \in Threads \cup {"reset"}
    OBVIOUS
  <2>4. ASSUME NEW t \in Threads
        PROVE  \/ lock'[t] \in {None, t}
               \/ /\ lock'[t] \in Streams /\ of'[lock'[t]] = t
                  /\ stage'[lock'[t]] = "permissions"
    BY <2>4
  <2>5. Placed' /\ HoldsGuard'
    OBVIOUS
  <2> QED
    BY <2>1, <2>3, <2>4, <2>5 DEF Checkpoints, NoCheckpoint
<1>10. ASSUME NEW r \in Streams, TakeGuard(r) PROVE Kept
  BY <1>10 DEF TakeGuard, Goto, NoCheckpoint, Checkpoints
<1>11. ASSUME NEW r \in Streams, Finish(r) PROVE Kept
  BY <1>11 DEF Finish, Finished, Goto, NoCheckpoint, Checkpoints
<1>12. ASSUME NEW r \in Streams, FinishFails(r) PROVE Kept
  BY <1>12 DEF FinishFails, Goto, Event, NoCheckpoint, Checkpoints
<1>13. ASSUME NEW r \in Streams, Edit(r) PROVE Kept
  BY <1>13 DEF Edit, NoCheckpoint, Checkpoints
<1>14. ASSUME NEW r \in Streams, Cancel(r) PROVE Kept
  <2> USE <1>14 DEF Cancel, Live, Event, Goto, Leave, Finished
  <2>1. /\ stage' \in [Streams -> Stages]
        /\ guard' \in {"free", "reset"} \cup Threads \cup Streams
        /\ shared' \subseteq Threads /\ claims' \subseteq Threads
        /\ tasks' \in [Threads -> Streams \cup {None}]
        /\ lock' \in [Threads -> {None} \cup Threads \cup Streams]
    OBVIOUS
  <2>3. /\ guard' \in Streams => stage'[guard'] \in {"claiming", "cleaning"}
        /\ applying' => guard' \in Threads \cup {"reset"}
    OBVIOUS
  <2>4. ASSUME NEW t \in Threads
        PROVE  \/ lock'[t] \in {None, t}
               \/ /\ lock'[t] \in Streams /\ of'[lock'[t]] = t
                  /\ stage'[lock'[t]] = "permissions"
    BY <2>4
  <2>5. Placed' /\ HoldsGuard'
    OBVIOUS
  <2> QED
    BY <2>1, <2>3, <2>4, <2>5 DEF Checkpoints, NoCheckpoint
<1>15. ASSUME NEW r \in Streams, NEW t \in Threads, Start(r, t) PROVE Kept
  BY <1>15 DEF Start, Goto, IsSwitching, Unfinished, Live, NoCheckpoint,
     Checkpoints
<1>16. ASSUME NEW t \in Threads, BeginSwitch(t) PROVE Kept
  BY <1>16 DEF BeginSwitch, Event, IsSwitching, Unfinished, Live, NoCheckpoint,
     Checkpoints
<1>17. ASSUME NEW t \in Threads, RunEnded(t) PROVE Kept
  BY <1>17 DEF RunEnded, Live, NoCheckpoint, Checkpoints
<1>18. ASSUME NEW t \in Threads, LockSwitch(t) PROVE Kept
  BY <1>18 DEF LockSwitch, NoCheckpoint, Checkpoints
<1>19. ASSUME NEW t \in Threads, EndSwitch(t) PROVE Kept
  BY <1>19 DEF EndSwitch, IsSwitching, NoCheckpoint, Checkpoints
<1>20. ASSUME NEW t \in Threads, BeginDelete(t) PROVE Kept
  BY <1>20 DEF BeginDelete, Event, NoCheckpoint, Checkpoints
<1>21. ASSUME NEW t \in Threads, Delete(t) PROVE Kept
  BY <1>21 DEF Delete, NoCheckpoint, Checkpoints
<1>22. ASSUME NEW t \in Threads, UndoPasses(t) PROVE Kept
  BY <1>22 DEF UndoPasses, NoCheckpoint, Checkpoints
<1>23. ASSUME NEW t \in Threads, Undo(t) PROVE Kept
  BY <1>23 DEF Undo, NoCheckpoint, Checkpoints
<1>24. ASSUME NEW who \in Threads \cup {"reset"}, TakeGuardFor(who) PROVE Kept
  BY <1>24 DEF TakeGuardFor, Event, NoCheckpoint, Checkpoints
<1>25. ASSUME NEW who \in Threads \cup {"reset"}, Refuse(who) PROVE Kept
  BY <1>25 DEF Refuse, NoCheckpoint, Checkpoints
<1>26. ASSUME ResetPasses PROVE Kept
  BY <1>26 DEF ResetPasses, NoCheckpoint, Checkpoints
<1>27. ASSUME Reset PROVE Kept
  BY <1>27 DEF Reset, NoCheckpoint, Checkpoints
<1>28. ASSUME UNCHANGED vars PROVE Kept
  BY <1>28 DEF vars
<1> QED
  BY <1>1, <1>2, <1>3, <1>4, <1>5, <1>6, <1>7, <1>8, <1>9, <1>10, <1>11, <1>12,
     <1>13, <1>14, <1>15, <1>16, <1>17, <1>18, <1>19, <1>20, <1>21, <1>22, <1>23,
     <1>24, <1>25, <1>26, <1>27, <1>28 DEF Next, Run, Files

(* Who goes on is registered, and who is registered is at home.              *)
LEMMA RegistrationKept ==
    ASSUME TypeOK, Placed, RegisteredHere, OneRunPerThread, SwitchWaits,
        [Next]_vars
    PROVE  RegisteredHere' /\ OneRunPerThread' /\ SwitchWaits'
<1> USE RunsAssumption DEF TypeOK, Placed, RegisteredHere, OneRunPerThread,
        SwitchWaits, None, Stages, Live, T, supervisor, switches, changes
<1> DEFINE Kept == RegisteredHere' /\ OneRunPerThread' /\ SwitchWaits'
<1>1. ASSUME NEW r \in Streams, Command(r) PROVE Kept
  BY <1>1 DEF Command, Leave
<1>2. ASSUME NEW r \in Streams, LockRuntime(r) PROVE Kept
  BY <1>2 DEF LockRuntime, Goto
<1>3. ASSUME NEW r \in Streams, ApplyPermissions(r) PROVE Kept
  BY <1>3 DEF ApplyPermissions, Goto
<1>4. ASSUME NEW r \in Streams, LockWorkspace(r) PROVE Kept
  BY <1>4 DEF LockWorkspace, Goto
<1>5. ASSUME NEW r \in Streams, Claim(r) PROVE Kept
  BY <1>5 DEF Claim, Goto, Leave
<1>6. ASSUME NEW r \in Streams, Open(r) PROVE Kept
  BY <1>6 DEF Open, Goto
<1>7. ASSUME NEW r \in Streams, Capture(r) PROVE Kept
  BY <1>7 DEF Capture, Goto
<1>8. ASSUME NEW r \in Streams, Record(r) PROVE Kept
  BY <1>8 DEF Record, Leave
<1>9. ASSUME NEW r \in Streams, Fail(r) PROVE Kept
  BY <1>9 DEF Fail, Leave
<1>10. ASSUME NEW r \in Streams, TakeGuard(r) PROVE Kept
  BY <1>10 DEF TakeGuard, Goto
<1>11. ASSUME NEW r \in Streams, Finish(r) PROVE Kept
  BY <1>11 DEF Finish, Finished, Goto
<1>12. ASSUME NEW r \in Streams, FinishFails(r) PROVE Kept
  BY <1>12 DEF FinishFails, Goto, Event
<1>13. ASSUME NEW r \in Streams, Edit(r) PROVE Kept
  BY <1>13 DEF Edit
<1>14. ASSUME NEW r \in Streams, Cancel(r) PROVE Kept
  BY <1>14 DEF Cancel, Live, Event, Goto, Leave, Finished
<1>15. ASSUME NEW r \in Streams, NEW t \in Threads, Start(r, t) PROVE Kept
  BY <1>15 DEF Start, Goto, IsSwitching, Unfinished, Live
<1>16. ASSUME NEW t \in Threads, BeginSwitch(t) PROVE Kept
  BY <1>16 DEF BeginSwitch, Event, IsSwitching, Unfinished, Live
<1>17. ASSUME NEW t \in Threads, RunEnded(t) PROVE Kept
  BY <1>17 DEF RunEnded, Live
<1>18. ASSUME NEW t \in Threads, LockSwitch(t) PROVE Kept
  BY <1>18 DEF LockSwitch
<1>19. ASSUME NEW t \in Threads, EndSwitch(t) PROVE Kept
  BY <1>19 DEF EndSwitch, IsSwitching
<1>20. ASSUME NEW t \in Threads, BeginDelete(t) PROVE Kept
  BY <1>20 DEF BeginDelete, Event
<1>21. ASSUME NEW t \in Threads, Delete(t) PROVE Kept
  BY <1>21 DEF Delete
<1>22. ASSUME NEW t \in Threads, UndoPasses(t) PROVE Kept
  BY <1>22 DEF UndoPasses
<1>23. ASSUME NEW t \in Threads, Undo(t) PROVE Kept
  BY <1>23 DEF Undo
<1>24. ASSUME NEW who \in Threads \cup {"reset"}, TakeGuardFor(who) PROVE Kept
  BY <1>24 DEF TakeGuardFor, Event
<1>25. ASSUME NEW who \in Threads \cup {"reset"}, Refuse(who) PROVE Kept
  BY <1>25 DEF Refuse
<1>26. ASSUME ResetPasses PROVE Kept
  BY <1>26 DEF ResetPasses
<1>27. ASSUME Reset PROVE Kept
  BY <1>27 DEF Reset
<1>28. ASSUME UNCHANGED vars PROVE Kept
  BY <1>28 DEF vars
<1> QED
  BY <1>1, <1>2, <1>3, <1>4, <1>5, <1>6, <1>7, <1>8, <1>9, <1>10, <1>11, <1>12,
     <1>13, <1>14, <1>15, <1>16, <1>17, <1>18, <1>19, <1>20, <1>21, <1>22, <1>23,
     <1>24, <1>25, <1>26, <1>27, <1>28 DEF Next, Run, Files

(* Who works has claimed the directory, and is told of those it shares it   *)
(* with.                                                                    *)
LEMMA ClaimsKept ==
    ASSUME TypeOK, Placed, HoldsGuard, OneRunPerThread, Claimed, Unclaimed,
        SharingKnown, [Next]_vars
    PROVE  Claimed' /\ Unclaimed' /\ SharingKnown'
<1> USE RunsAssumption DEF TypeOK, Placed, HoldsGuard, OneRunPerThread, Claimed,
        Unclaimed, SharingKnown, Works, None, Stages, Live, T, supervisor,
        switches, changes
<1> DEFINE Kept == Claimed' /\ Unclaimed' /\ SharingKnown'
<1>1. ASSUME NEW r \in Streams, Command(r) PROVE Kept
  BY <1>1 DEF Command, Leave
<1>2. ASSUME NEW r \in Streams, LockRuntime(r) PROVE Kept
  BY <1>2 DEF LockRuntime, Goto
<1>3. ASSUME NEW r \in Streams, ApplyPermissions(r) PROVE Kept
  BY <1>3 DEF ApplyPermissions, Goto
<1>4. ASSUME NEW r \in Streams, LockWorkspace(r) PROVE Kept
  BY <1>4 DEF LockWorkspace, Goto
<1>5. ASSUME NEW r \in Streams, Claim(r) PROVE Kept
  BY <1>5 DEF Claim, Goto, Leave
<1>6. ASSUME NEW r \in Streams, Open(r) PROVE Kept
  BY <1>6 DEF Open, Goto
<1>7. ASSUME NEW r \in Streams, Capture(r) PROVE Kept
  BY <1>7 DEF Capture, Goto
<1>8. ASSUME NEW r \in Streams, Record(r) PROVE Kept
  BY <1>8 DEF Record, Leave
<1>9. ASSUME NEW r \in Streams, Fail(r) PROVE Kept
  BY <1>9 DEF Fail, Leave
<1>10. ASSUME NEW r \in Streams, TakeGuard(r) PROVE Kept
  BY <1>10 DEF TakeGuard, Goto
<1>11. ASSUME NEW r \in Streams, Finish(r) PROVE Kept
  BY <1>11 DEF Finish, Finished, Goto
<1>12. ASSUME NEW r \in Streams, FinishFails(r) PROVE Kept
  BY <1>12 DEF FinishFails, Goto, Event
<1>13. ASSUME NEW r \in Streams, Edit(r) PROVE Kept
  BY <1>13 DEF Edit
<1>14. ASSUME NEW r \in Streams, Cancel(r) PROVE Kept
  BY <1>14 DEF Cancel, Live, Event, Goto, Leave, Finished
<1>15. ASSUME NEW r \in Streams, NEW t \in Threads, Start(r, t) PROVE Kept
  BY <1>15 DEF Start, Goto, IsSwitching, Unfinished, Live
<1>16. ASSUME NEW t \in Threads, BeginSwitch(t) PROVE Kept
  BY <1>16 DEF BeginSwitch, Event, IsSwitching, Unfinished, Live
<1>17. ASSUME NEW t \in Threads, RunEnded(t) PROVE Kept
  BY <1>17 DEF RunEnded, Live
<1>18. ASSUME NEW t \in Threads, LockSwitch(t) PROVE Kept
  BY <1>18 DEF LockSwitch
<1>19. ASSUME NEW t \in Threads, EndSwitch(t) PROVE Kept
  BY <1>19 DEF EndSwitch, IsSwitching
<1>20. ASSUME NEW t \in Threads, BeginDelete(t) PROVE Kept
  BY <1>20 DEF BeginDelete, Event
<1>21. ASSUME NEW t \in Threads, Delete(t) PROVE Kept
  BY <1>21 DEF Delete
<1>22. ASSUME NEW t \in Threads, UndoPasses(t) PROVE Kept
  BY <1>22 DEF UndoPasses
<1>23. ASSUME NEW t \in Threads, Undo(t) PROVE Kept
  BY <1>23 DEF Undo
<1>24. ASSUME NEW who \in Threads \cup {"reset"}, TakeGuardFor(who) PROVE Kept
  BY <1>24 DEF TakeGuardFor, Event
<1>25. ASSUME NEW who \in Threads \cup {"reset"}, Refuse(who) PROVE Kept
  BY <1>25 DEF Refuse
<1>26. ASSUME ResetPasses PROVE Kept
  BY <1>26 DEF ResetPasses
<1>27. ASSUME Reset PROVE Kept
  BY <1>27 DEF Reset
<1>28. ASSUME UNCHANGED vars PROVE Kept
  BY <1>28 DEF vars
<1> QED
  BY <1>1, <1>2, <1>3, <1>4, <1>5, <1>6, <1>7, <1>8, <1>9, <1>10, <1>11, <1>12,
     <1>13, <1>14, <1>15, <1>16, <1>17, <1>18, <1>19, <1>20, <1>21, <1>22, <1>23,
     <1>24, <1>25, <1>26, <1>27, <1>28 DEF Next, Run, Files

(* Who works alone makes all the changes.                                   *)
LEMMA ChangesKept ==
    ASSUME TypeOK, Placed, OneRunPerThread, Claimed, Unclaimed, SharingKnown,
        ChangesAreOwn, CheckpointsAreOwn, [Next]_vars
    PROVE  ChangesAreOwn' /\ CheckpointsAreOwn'
<1> USE RunsAssumption DEF TypeOK, Placed, OneRunPerThread, Claimed, Unclaimed,
        SharingKnown, ChangesAreOwn, CheckpointsAreOwn, Works, None, Stages,
        Checkpoints, NoCheckpoint, Live, T, supervisor, switches, changes
<1> DEFINE Kept == ChangesAreOwn' /\ CheckpointsAreOwn'
<1>1. ASSUME NEW r \in Streams, Command(r) PROVE Kept
  BY <1>1 DEF Command, Leave
<1>2. ASSUME NEW r \in Streams, LockRuntime(r) PROVE Kept
  BY <1>2 DEF LockRuntime, Goto
<1>3. ASSUME NEW r \in Streams, ApplyPermissions(r) PROVE Kept
  BY <1>3 DEF ApplyPermissions, Goto
<1>4. ASSUME NEW r \in Streams, LockWorkspace(r) PROVE Kept
  BY <1>4 DEF LockWorkspace, Goto
<1>5. ASSUME NEW r \in Streams, Claim(r) PROVE Kept
  BY <1>5 DEF Claim, Goto, Leave
<1>6. ASSUME NEW r \in Streams, Open(r) PROVE Kept
  BY <1>6 DEF Open, Goto
<1>7. ASSUME NEW r \in Streams, Capture(r) PROVE Kept
  BY <1>7 DEF Capture, Goto
<1>8. ASSUME NEW r \in Streams, Record(r) PROVE Kept
  BY <1>8 DEF Record, Leave
<1>9. ASSUME NEW r \in Streams, Fail(r) PROVE Kept
  BY <1>9 DEF Fail, Leave
<1>10. ASSUME NEW r \in Streams, TakeGuard(r) PROVE Kept
  BY <1>10 DEF TakeGuard, Goto
<1>11. ASSUME NEW r \in Streams, Finish(r) PROVE Kept
  BY <1>11 DEF Finish, Finished, Goto
<1>12. ASSUME NEW r \in Streams, FinishFails(r) PROVE Kept
  BY <1>12 DEF FinishFails, Goto, Event
<1>13. ASSUME NEW r \in Streams, Edit(r) PROVE Kept
  BY <1>13 DEF Edit
<1>14. ASSUME NEW r \in Streams, Cancel(r) PROVE Kept
  <2> USE <1>14 DEF Cancel, Event, Goto, Leave, Finished
  <2>1. snap' = snap /\ tree' = tree /\ checkpoint' = checkpoint /\ of' = of
        /\ shared' = shared /\ deleted' = deleted
    OBVIOUS
  <2>2. \A s \in Streams : stage'[s] \in {"working", "captured"}
      => stage'[s] = stage[s]
    OBVIOUS
  <2> QED
    BY <2>1, <2>2
<1>15. ASSUME NEW r \in Streams, NEW t \in Threads, Start(r, t) PROVE Kept
  <2> USE <1>15 DEF Start, Goto
  <2>1. snap' = snap /\ tree' = tree /\ checkpoint' = checkpoint
        /\ shared' = shared /\ deleted' = deleted
    OBVIOUS
  <2>2. \A s \in Streams : stage'[s] \in {"working", "captured"}
      => stage'[s] = stage[s] /\ s # r
    OBVIOUS
  <2>3. \A s \in Streams : of[s] \in Threads => of'[s] = of[s]
    OBVIOUS
  <2>4. \A s \in Streams : s # r => of'[s] = of[s]
    OBVIOUS
  <2>5. ChangesAreOwn'
    BY ONLY <2>1, <2>2, <2>4, ChangesAreOwn DEF ChangesAreOwn
  <2>6. CheckpointsAreOwn'
    BY ONLY <2>1, <2>3, CheckpointsAreOwn DEF CheckpointsAreOwn
  <2> QED
    BY <2>5, <2>6
<1>16. ASSUME NEW t \in Threads, BeginSwitch(t) PROVE Kept
  BY <1>16 DEF BeginSwitch, Event, IsSwitching, Unfinished, Live
<1>17. ASSUME NEW t \in Threads, RunEnded(t) PROVE Kept
  BY <1>17 DEF RunEnded, Live
<1>18. ASSUME NEW t \in Threads, LockSwitch(t) PROVE Kept
  BY <1>18 DEF LockSwitch
<1>19. ASSUME NEW t \in Threads, EndSwitch(t) PROVE Kept
  BY <1>19 DEF EndSwitch, IsSwitching
<1>20. ASSUME NEW t \in Threads, BeginDelete(t) PROVE Kept
  BY <1>20 DEF BeginDelete, Event
<1>21. ASSUME NEW t \in Threads, Delete(t) PROVE Kept
  BY <1>21 DEF Delete
<1>22. ASSUME NEW t \in Threads, UndoPasses(t) PROVE Kept
  BY <1>22 DEF UndoPasses
<1>23. ASSUME NEW t \in Threads, Undo(t) PROVE Kept
  <2> USE <1>23 DEF Undo
  <2>1. CheckpointsAreOwn'
    OBVIOUS
  <2>2. \A r \in Streams : ~Works(r)
    OBVIOUS
  <2>3. ChangesAreOwn'
    OBVIOUS
  <2> QED
    BY <2>1, <2>2, <2>3
<1>24. ASSUME NEW who \in Threads \cup {"reset"}, TakeGuardFor(who) PROVE Kept
  BY <1>24 DEF TakeGuardFor, Event
<1>25. ASSUME NEW who \in Threads \cup {"reset"}, Refuse(who) PROVE Kept
  BY <1>25 DEF Refuse
<1>26. ASSUME ResetPasses PROVE Kept
  BY <1>26 DEF ResetPasses
<1>27. ASSUME Reset PROVE Kept
  BY <1>27 DEF Reset
<1>28. ASSUME UNCHANGED vars PROVE Kept
  BY <1>28 DEF vars
<1> QED
  BY <1>1, <1>2, <1>3, <1>4, <1>5, <1>6, <1>7, <1>8, <1>9, <1>10, <1>11, <1>12,
     <1>13, <1>14, <1>15, <1>16, <1>17, <1>18, <1>19, <1>20, <1>21, <1>22, <1>23,
     <1>24, <1>25, <1>26, <1>27, <1>28 DEF Next, Run, Files

(* It holds of the program before any call.                                 *)
LEMMA InvInitially == Init => IInv
<1> SUFFICES ASSUME Init PROVE IInv
  OBVIOUS
<1> USE RunsAssumption DEF Init, None
<1>1. TypeOK
  BY DEF TypeOK, Stages, Checkpoints, NoCheckpoint
<1>2. Placed /\ RegisteredHere /\ OneRunPerThread /\ SwitchWaits /\ HoldsGuard
  BY DEF Placed, RegisteredHere, OneRunPerThread, SwitchWaits, HoldsGuard, Live, T
<1>3. Claimed /\ Unclaimed /\ SharingKnown /\ ChangesAreOwn /\ CheckpointsAreOwn
  BY DEF Claimed, Unclaimed, SharingKnown, ChangesAreOwn, CheckpointsAreOwn,
     Works,
         NoCheckpoint
<1> QED
  BY <1>1, <1>2, <1>3 DEF IInv

(* Every step keeps it.                                                     *)
LEMMA InvKept == IInv /\ [Next]_vars => IInv'
BY TypesKept, RegistrationKept, ClaimsKept, ChangesKept DEF IInv

(* The inductive invariant holds of every behaviour.                        *)
THEOREM InvHolds == Spec => []IInv
BY InvInitially, InvKept, PTL DEF Spec

(* For any conversations and calls, however many are cancelled, fail, are   *)
(* deleted or switched: stream_turn and switch_harness keep each other out, *)
(* and the run that goes on is the one that can be cancelled and waited for.*)
THEOREM RunsAreExclusive == Spec => []RunsExclude
<1>1. IInv => RunsExclude
  BY DEF IInv, RunsExclude, SwitchWaits, SwitchedWhenIdle, T
<1> QED
  BY <1>1, InvHolds, PTL

(* For any number of conversations that work in one directory: an undo takes*)
(* back the edits of one run of its conversation, and neither it nor a reset*)
(* touches the files while a run works on them.                             *)
THEOREM FilesAreSafe == Spec => []FilesHold
<1>1. ASSUME IInv PROVE UndoesOwnChanges
  BY <1>1 DEF IInv, CheckpointsAreOwn, UndoesOwnChanges
<1>2. ASSUME IInv PROVE FilesChangedAlone
  BY <1>2 DEF IInv, TypeOK, Claimed, Unclaimed, FilesChangedAlone, Works
<1>3. IInv => FilesHold
  BY <1>1, <1>2 DEF FilesHold
<1> QED
  BY <1>3, InvHolds, PTL
=============================================================================
