---------------------------- MODULE GitCheckpoint ----------------------------
(***************************************************************************)
(* integrations/git.py: the commits that bracket one turn of a development   *)
(* task, the private ref that keeps them, and the undo that takes the turn's *)
(* changes out again.  Each step is one git command; the user edits, stages  *)
(* and commits in the same repository between any two of them.  Runs has the *)
(* same undo as one step, and says when it may begin.                       *)
(*                                                                         *)
(* A file is the set of the edits in it, so that a patch applies where its   *)
(* edits are as it found them, whatever else the file holds.                *)
(***************************************************************************)
EXTENDS Naturals, FiniteSets

CONSTANTS Files, None,
          MaxEdits, MaxTurns, MaxFaults      \* bounds of the model

VARIABLES head,       \* how many commits the user made
          work,       \* the working tree
          index,      \* the staging area
          ref,        \* refs/cleo/undo: the checkpoint it keeps, or None
          manifest,   \* undo_checkpoint
          turn,       \* the turn and what was captured of it
          undo,       \* the undo and what it read
          mine,       \* the edits the user made outside turns, by file
          since,      \* files the user touched since the undo compared
          staged,     \* files the user staged since then, "all" after a commit
          report,     \* what the last undo said
          torn,       \* a crash or a command cut short left it half done
          edits, turns, faults
vars == <<head, work, index, ref, manifest, turn, undo, mine, since, staged, report, torn,
          edits, turns, faults>>
repo   == <<head, work, index>>
user   == <<mine, since, staged>>
bounds == <<edits, turns, faults>>

Idle == [at |-> "idle"]
Tree == [Files -> SUBSET (1..MaxEdits)]

\* what a command that may have failed or run into its time limit leaves
Fault == faults < MaxFaults /\ faults' = faults + 1

Init ==
  /\ head = 0 /\ work = [f \in Files |-> {}] /\ index = work
  /\ ref = None /\ manifest = None
  /\ turn = Idle /\ undo = Idle
  /\ mine = [f \in Files |-> {}] /\ since = {} /\ staged = FALSE
  /\ report = "none" /\ torn = FALSE
  /\ edits = 0 /\ turns = 0 /\ faults = 0

-------------------------------------------------------------------------------
(* the user and the agent in the repository *)

Writes(f, e) == work' = [work EXCEPT ![f] = @ \cup {e}] /\ edits' = e
UserEdits(f) ==
  /\ edits < MaxEdits /\ Writes(f, edits + 1)
  /\ mine' = IF turn = Idle THEN [mine EXCEPT ![f] = @ \cup {edits + 1}] ELSE mine
  /\ since' = since \cup {f}
  /\ UNCHANGED <<head, index, ref, manifest, turn, undo, staged, report, torn, turns, faults>>
\* Taking an edit out matters while an undo works.
UserReverts(f) ==
  /\ undo # Idle
  /\ \E e \in work[f] : work' = [work EXCEPT ![f] = @ \ {e}]
  /\ mine' = [g \in Files |-> mine[g] \cap work'[g]]
  /\ since' = since \cup {f}
  /\ UNCHANGED <<head, index, ref, manifest, turn, undo, staged, report, torn, bounds>>
UserStages(f) ==
  /\ index[f] # work[f]
  /\ index' = [index EXCEPT ![f] = work[f]] /\ staged' = TRUE
  /\ UNCHANGED <<head, work, ref, manifest, turn, undo, mine, since, report, torn, bounds>>
\* the index is what the commit holds
UserCommits ==
  /\ head < 1 /\ head' = head + 1 /\ staged' = TRUE
  /\ UNCHANGED <<work, index, ref, manifest, turn, undo, mine, since, report, torn, bounds>>
AgentWrites(f) ==
  /\ turn.at = "running" /\ edits < MaxEdits
  /\ \/ Writes(f, edits + 1)
     \/ \E e \in work[f] : work' = [work EXCEPT ![f] = @ \ {e}] /\ UNCHANGED edits
  /\ mine' = [g \in Files |-> mine[g] \cap work'[g]]
  /\ UNCHANGED <<head, index, ref, manifest, turn, undo, since, staged, report, torn, turns, faults>>

-------------------------------------------------------------------------------
(* the turn: _stream_productivity *)

\* The checkpoint of the turn before is given up, in the repository first.
BeginTurn ==
  /\ turn = Idle /\ undo = Idle /\ turns < MaxTurns /\ turns' = turns + 1
  /\ ref' = IF manifest = None THEN ref ELSE None
  /\ turn' = [at |-> "discarded"]
  /\ UNCHANGED <<repo, manifest, undo, user, report, torn, edits, faults>>
Forget ==
  /\ turn.at = "discarded"
  /\ manifest' = None /\ turn' = [at |-> "head"]
  /\ UNCHANGED <<repo, ref, undo, user, report, torn, bounds>>

\* create_git_checkpoint: HEAD, then the index, then the files
ReadHead ==
  /\ turn.at = "head"
  /\ turn' = [at |-> "index", head |-> head]
  /\ UNCHANGED <<repo, ref, manifest, undo, user, report, torn, bounds>>
ReadIndex ==
  /\ turn.at = "index"
  /\ turn' = [at |-> "work", head |-> turn.head, index |-> index]
  /\ UNCHANGED <<repo, ref, manifest, undo, user, report, torn, bounds>>
Keep ==
  /\ turn.at = "work"
  /\ LET before == [head |-> turn.head, index |-> turn.index, work |-> work, after |-> None]
     IN ref' = before /\ turn' = [at |-> "running", of |-> before]
  /\ UNCHANGED <<repo, manifest, undo, user, report, torn, bounds>>
\* Without a checkpoint the turn runs all the same.
CannotKeep ==
  /\ turn.at \in {"head", "index", "work"} /\ Fault
  /\ turn' = [at |-> "running", of |-> None]
  /\ UNCHANGED <<repo, ref, manifest, undo, user, report, torn, edits, turns>>

\* finalize_git_checkpoint: only over the same HEAD; nobody else moves the ref
Discarded == ref' = None /\ manifest' = None /\ turn' = Idle
EndTurn ==
  /\ turn.at = "running"
  /\ IF turn.of = None
     THEN turn' = Idle /\ UNCHANGED <<ref, manifest>>
     ELSE IF turn.of.head # head
     THEN Discarded
     ELSE turn' = [at |-> "captured", of |-> turn.of, index |-> index] /\ UNCHANGED <<ref, manifest>>
  /\ UNCHANGED <<repo, undo, user, report, torn, bounds>>
Capture ==
  /\ turn.at = "captured"
  /\ LET after == [index |-> turn.index, work |-> work]
         whole == [turn.of EXCEPT !.after = after]
     IN ref' = whole /\ turn' = [at |-> "save", of |-> whole]
  /\ UNCHANGED <<repo, manifest, undo, user, report, torn, bounds>>
SaveCheckpoint ==
  /\ turn.at = "save"
  /\ manifest' = turn.of /\ turn' = Idle
  /\ UNCHANGED <<repo, ref, undo, user, report, torn, bounds>>
FinalizeFails ==
  /\ turn.at \in {"captured", "save"} /\ Fault /\ Discarded
  /\ UNCHANGED <<repo, undo, user, report, torn, edits, turns>>

-------------------------------------------------------------------------------
(* undo_git_checkpoint *)

Patched(f, from, to) == (work[f] \ (from[f] \ to[f])) \cup (to[f] \ from[f])
Applies(f, from, to) == from[f] \ to[f] \subseteq work[f] /\ (to[f] \ from[f]) \cap work[f] = {}
Changed(c) == {f \in Files : c.work[f] # c.after.work[f]}

Ends(what) == undo' = Idle /\ report' = what
BeginUndo ==
  /\ undo = Idle /\ turn = Idle /\ manifest # None
  /\ IF manifest.head # head
     THEN Ends("refused") /\ UNCHANGED <<since, staged>>
     ELSE /\ undo' = [at |-> "index", of |-> manifest] /\ report' = "none"
          /\ UNCHANGED <<since, staged>>
  /\ UNCHANGED <<repo, ref, manifest, turn, mine, torn, bounds>>
UndoReadsIndex ==
  /\ undo.at = "index"
  /\ undo' = [at |-> "work", of |-> undo.of, index |-> index] /\ staged' = FALSE
  /\ UNCHANGED <<repo, ref, manifest, turn, mine, since, report, torn, bounds>>
UnchangedWork(i, w, c) == w = c.after.work
UnchangedSince(i, w, c) == i = c.after.index /\ w = c.after.work
UndoCompares ==
  /\ undo.at = "work"
  /\ IF UnchangedSince(undo.index, work, undo.of)
     THEN undo' = [at |-> "apply", of |-> undo.of] /\ since' = {} /\ UNCHANGED report
     ELSE Ends("refused") /\ UNCHANGED since
  /\ UNCHANGED <<repo, ref, manifest, turn, mine, staged, torn, bounds>>

\* git apply changes every file of the patch or none.
Apply ==
  /\ undo.at = "apply"
  /\ LET c == undo.of
     IN IF \A f \in Changed(c) : Applies(f, c.after.work, c.work)
        THEN /\ work' = [f \in Files |-> Patched(f, c.after.work, c.work)]
             /\ undo' = [at |-> "read-tree", of |-> c] /\ UNCHANGED report
        ELSE Ends("refused") /\ UNCHANGED work
  /\ UNCHANGED <<head, index, ref, manifest, turn, user, torn, bounds>>
\* It ran into its time limit and was killed on the way.
ApplyKilled ==
  /\ undo.at = "apply" /\ Fault
  /\ LET c == undo.of
     IN \E some \in SUBSET Changed(c) :
          /\ \A f \in some : Applies(f, c.after.work, c.work)
          /\ work' = [f \in Files |-> IF f \in some THEN Patched(f, c.after.work, c.work)
                                      ELSE work[f]]
          /\ torn' = (torn \/ some # {})
  /\ Ends("failed")
  /\ UNCHANGED <<head, index, ref, manifest, turn, user, edits, turns>>
RestoreIndex ==
  /\ undo.at = "read-tree"
  /\ index' = undo.of.index /\ undo' = [at |-> "forget", of |-> undo.of]
  /\ ref' = IF ref = undo.of THEN None ELSE ref
  /\ UNCHANGED <<head, work, manifest, turn, user, report, torn, bounds>>
\* _restore_after_worktree: the files are put back as the turn left them.
IndexFails ==
  /\ undo.at = "read-tree" /\ Fault
  /\ LET c == undo.of
         can == \A f \in Changed(c) : Applies(f, c.work, c.after.work)
     IN /\ work' = IF can THEN [f \in Files |-> Patched(f, c.work, c.after.work)] ELSE work
        /\ torn' = (torn \/ ~can)
  /\ Ends("failed")
  /\ UNCHANGED <<head, index, ref, manifest, turn, user, edits, turns>>
Undone ==
  /\ undo.at = "forget"
  /\ manifest' = None /\ Ends("undone")
  /\ UNCHANGED <<repo, ref, turn, user, torn, bounds>>

\* The backend stops: what is in the repository and the manifest stays.
Crash ==
  /\ Fault /\ (turn # Idle \/ undo # Idle)
  /\ turn' = Idle /\ undo' = Idle /\ report' = "none"
  /\ torn' = (torn \/ undo.at \in {"read-tree", "forget"} \/ turn.at = "discarded")
  /\ UNCHANGED <<repo, ref, manifest, user, edits, turns>>

-------------------------------------------------------------------------------
Next ==
  \/ \E f \in Files : UserEdits(f) \/ UserReverts(f) \/ UserStages(f) \/ AgentWrites(f)
  \/ UserCommits
  \/ BeginTurn \/ Forget \/ ReadHead \/ ReadIndex \/ Keep \/ CannotKeep
  \/ EndTurn \/ Capture \/ SaveCheckpoint \/ FinalizeFails
  \/ BeginUndo \/ UndoReadsIndex \/ UndoCompares \/ Apply \/ ApplyKilled
  \/ RestoreIndex \/ IndexFails \/ Undone \/ Crash

Spec == Init /\ [][Next]_vars

-------------------------------------------------------------------------------
(* properties *)

TypeOK ==
  /\ work \in Tree /\ index \in Tree /\ mine \in Tree
  /\ since \subseteq Files /\ staged \in BOOLEAN /\ torn \in BOOLEAN
  /\ report \in {"none", "refused", "failed", "undone"}

\* "Restore the state before one turn without discarding earlier changes": what
\* the user wrote outside turns stays in the files, whatever an undo does and
\* wherever it stops.  (git.py:330-409)
UserEditsStay == \A f \in Files : mine[f] \subseteq work[f]

\* An undo that says so took out what the turn did: files the user has not
\* touched since the comparison, and a staging area nobody used, are as before.
UndoneExactly ==
  undo.at = "forget" =>
    /\ \A f \in Files \ since : work[f] = undo.of.work[f]
    /\ ~staged => index = undo.of.index

\* An undo replaces only a staging area it compared, unless the user staged or
\* committed while it worked.
StagedStays ==
  undo.at = "read-tree" /\ ~staged => index = undo.of.after.index

\* What an undo would need is kept by the ref, so that git never collects it,
\* unless a crash came between the ref and the manifest.
CheckpointKept ==
  manifest # None /\ turn = Idle /\ undo.at # "forget" /\ ~torn => ref = manifest

CheckpointHolds == TypeOK /\ UserEditsStay /\ UndoneExactly /\ StagedStays /\ CheckpointKept
===============================================================================
