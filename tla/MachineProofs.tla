---------------------------- MODULE MachineProofs ----------------------------
(***************************************************************************)
(* What TLAPS proves of parts of the machine, each by itself and for all    *)
(* values of its constants: the checkpoint by which a turn is undone, the   *)
(* passwords of the sandbox and the timing record of a run.  What a theorem *)
(* takes the constants to be is its antecedent.                             *)
(***************************************************************************)
EXTENDS MCMachine, Naturals, Sequences, FiniteSets, SequenceTheorems, TLAPS

------------------------------------------------------------------------------
(* The checkpoint of a turn and its undo (GitCheckpoint).                   *)

\* A checkpoint before its turn has ended, and after.
Before == [head : Nat, index : Git!Tree, work : Git!Tree, after : {Nil}]
Whole  == [head : Nat, index : Git!Tree, work : Git!Tree,
           after : [index : Git!Tree, work : Git!Tree]]

GitTypes ==
    /\ Git!TypeOK /\ head \in Nat /\ edits \in 0 .. MaxEdits
    /\ \A f \in Files : work[f] \subseteq 1 .. edits
    /\ manifest # Nil => manifest \in Whole
    /\ turn.at \in {"idle", "discarded", "head", "index", "work", "running", "captured", "save"}
    /\ turn.at = "idle" => turn = Git!Idle
    /\ turn.at = "index" => turn.head \in Nat
    /\ turn.at = "work" => turn.head \in Nat /\ turn.index \in Git!Tree
    /\ turn.at = "running" => turn.of \in Before \cup {Nil}
    /\ turn.at = "captured" => turn.of \in Before \ {Nil} /\ turn.index \in Git!Tree
    /\ turn.at = "save" => turn.of \in Whole
    /\ undo.at \in {"idle", "index", "work", "apply", "read-tree", "forget"}
    /\ undo.at = "idle" => undo = Git!Idle

\* Nothing the user wrote outside turns is among what a patch of this checkpoint
\* takes out, either way.
Spares(c) == \A f \in Files :
    /\ c.work[f] \cup c.after.work[f] \subseteq 1 .. edits
    /\ mine[f] \cap ((c.after.work[f] \ c.work[f]) \cup (c.work[f] \ c.after.work[f])) = {}

MineSpared ==
    /\ Git!UserEditsStay
    /\ manifest # Nil => Spares(manifest)
    /\ turn.at \in {"running", "captured"} /\ turn.of # Nil =>
         \A f \in Files : mine[f] \subseteq turn.of.work[f] /\ turn.of.work[f] \subseteq 1 .. edits
    /\ turn.at = "save" => Spares(turn.of)

\* An undo is of the checkpoint the manifest has, and no turn runs.
OneAtOnce ==
    /\ undo.at # "idle" => turn = Git!Idle /\ manifest # Nil /\ undo.of = manifest
    /\ turn.at \in {"head", "index", "work", "running", "captured", "save"} => manifest = Nil
    /\ turn.at = "save" => ref = turn.of
    /\ Git!CheckpointKept

\* What an undo found, where the user has not been since.
AsCompared ==
    /\ undo.at = "work" /\ ~staged => index = undo.index
    /\ undo.at \in {"apply", "read-tree"} /\ ~staged => index = undo.of.after.index
    /\ undo.at = "apply" => \A f \in Files \ since : work[f] = undo.of.after.work[f]
    /\ undo.at = "read-tree" => \A f \in Files \ since : work[f] = undo.of.work[f]
    /\ Git!UndoneExactly

GitInv == GitTypes /\ MineSpared /\ OneAtOnce /\ AsCompared

\* What the constants are taken to be.
GitValues == MaxEdits \in Nat

\* The invariant holds at the start: there is no checkpoint.
LEMMA GitInit == GitValues /\ Git!Init => GitInv
  <1> SUFFICES ASSUME GitValues, Git!Init
               PROVE  GitInv
    OBVIOUS
  <1>1. turn.at = "idle" /\ undo.at = "idle"
    BY DEF Git!Init, Git!Idle
  <1>2. GitTypes
    <2>1. [f \in Files |-> {}] \in Git!Tree
      BY DEF Git!Tree
    <2>2. 0 \in 0 .. MaxEdits
      BY DEF GitValues
    <2> QED
      BY <1>1, <2>1, <2>2 DEF Git!Init, GitTypes, Git!TypeOK
  <1>3. MineSpared
    BY <1>1 DEF Git!Init, MineSpared, Git!UserEditsStay
  <1>4. OneAtOnce /\ AsCompared
    BY <1>1 DEF Git!Init, OneAtOnce, AsCompared, Git!CheckpointKept, Git!UndoneExactly
  <1> QED
    BY <1>2, <1>3, <1>4 DEF GitInv

\* A patch takes out what it says and nothing else.
LEMMA PatchSpares ==
  ASSUME NEW f \in Files, NEW from, NEW to, work[f] \subseteq 1 .. edits,
         to[f] \subseteq 1 .. edits,
         mine[f] \subseteq work[f], mine[f] \cap (from[f] \ to[f]) = {}
  PROVE  /\ Git!Patched(f, from, to) \subseteq 1 .. edits
         /\ mine[f] \subseteq Git!Patched(f, from, to)
         /\ work[f] = from[f] => Git!Patched(f, from, to) = to[f]
  BY DEF Git!Patched

\* An edit of the user is new, so no checkpoint has it.
LEMMA GitUserEditsKeeps ==
  ASSUME GitValues, GitInv, NEW f \in Files, Git!UserEdits(f)
  PROVE  GitInv'
  <1> USE DEF GitInv, Git!repo, Git!user, Git!bounds
  <1>1. GitTypes'
    BY DEF Git!UserEdits, GitTypes, Git!TypeOK, GitValues, Git!Idle, Git!Fault, Git!Ends,
       Git!Discarded,
       Git!Writes, Git!Tree, Before, Whole, OneAtOnce
  <1>2. MineSpared'
    BY DEF Git!UserEdits, GitTypes, Git!TypeOK, GitValues, Git!Idle, Git!Fault, Git!Ends,
       Git!Discarded,
       Git!Writes, Git!Tree, Before, Whole, MineSpared, Spares, Git!UserEditsStay, OneAtOnce
  <1>3. OneAtOnce'
    BY DEF Git!UserEdits, GitTypes, Git!Idle, Git!Fault, Git!Ends, Git!Discarded, Git!Writes,
       OneAtOnce, Git!CheckpointKept
  <1>4. AsCompared'
    BY DEF Git!UserEdits, GitTypes, Git!TypeOK, Git!Tree, Git!Idle, Git!Fault, Git!Ends,
       Git!Discarded, Git!Writes,
       OneAtOnce, AsCompared, Git!UndoneExactly
  <1> QED
    BY <1>1, <1>2, <1>3, <1>4

\* What the user takes out is no longer among what an undo could lose.
LEMMA GitUserRevertsKeeps ==
  ASSUME GitValues, GitInv, NEW f \in Files, Git!UserReverts(f)
  PROVE  GitInv'
  <1> USE DEF GitInv, Git!repo, Git!user, Git!bounds
  <1>1. GitTypes'
    BY DEF Git!UserReverts, GitTypes, Git!TypeOK, GitValues, Git!Idle, Git!Fault, Git!Ends,
       Git!Discarded,
       Git!Writes, Git!Tree, Before, Whole, OneAtOnce
  <1>2. MineSpared'
    BY DEF Git!UserReverts, GitTypes, Git!TypeOK, GitValues, Git!Idle, Git!Fault, Git!Ends,
       Git!Discarded,
       Git!Writes, Git!Tree, Before, Whole, MineSpared, Spares, Git!UserEditsStay, OneAtOnce
  <1>3. OneAtOnce'
    BY DEF Git!UserReverts, GitTypes, Git!Idle, Git!Fault, Git!Ends, Git!Discarded, Git!Writes,
       OneAtOnce, Git!CheckpointKept
  <1>4. AsCompared'
    BY DEF Git!UserReverts, GitTypes, Git!TypeOK, Git!Tree, Git!Idle, Git!Fault, Git!Ends,
       Git!Discarded, Git!Writes,
       OneAtOnce, AsCompared, Git!UndoneExactly
  <1> QED
    BY <1>1, <1>2, <1>3, <1>4

\* Staging changes the index, which an undo under way is told of.
LEMMA GitUserStagesKeeps ==
  ASSUME GitValues, GitInv, NEW f \in Files, Git!UserStages(f)
  PROVE  GitInv'
  <1> USE DEF GitInv, Git!repo, Git!user, Git!bounds
  <1>1. GitTypes'
    BY DEF Git!UserStages, GitTypes, Git!TypeOK, GitValues, Git!Idle, Git!Fault, Git!Ends,
       Git!Discarded,
       Git!Writes, Git!Tree, Before, Whole, OneAtOnce
  <1>2. MineSpared'
    BY DEF Git!UserStages, GitTypes, Git!TypeOK, GitValues, Git!Idle, Git!Fault, Git!Ends,
       Git!Discarded,
       Git!Writes, Git!Tree, Before, Whole, MineSpared, Spares, Git!UserEditsStay, OneAtOnce
  <1>3. OneAtOnce'
    BY DEF Git!UserStages, GitTypes, Git!Idle, Git!Fault, Git!Ends, Git!Discarded, Git!Writes,
       OneAtOnce, Git!CheckpointKept
  <1>4. AsCompared'
    BY DEF Git!UserStages, GitTypes, Git!TypeOK, Git!Tree, Git!Idle, Git!Fault, Git!Ends,
       Git!Discarded, Git!Writes,
       OneAtOnce, AsCompared, Git!UndoneExactly
  <1> QED
    BY <1>1, <1>2, <1>3, <1>4

\* The agent writes in a turn, over what the user had.
LEMMA GitAgentWritesKeeps ==
  ASSUME GitValues, GitInv, NEW f \in Files, Git!AgentWrites(f)
  PROVE  GitInv'
  <1> USE DEF GitInv, Git!repo, Git!user, Git!bounds
  <1>1. GitTypes'
    BY DEF Git!AgentWrites, GitTypes, Git!TypeOK, GitValues, Git!Idle, Git!Fault, Git!Ends,
       Git!Discarded,
       Git!Writes, Git!Tree, Before, Whole, OneAtOnce
  <1>2. MineSpared'
    BY DEF Git!AgentWrites, GitTypes, Git!TypeOK, GitValues, Git!Idle, Git!Fault, Git!Ends,
       Git!Discarded,
       Git!Writes, Git!Tree, Before, Whole, MineSpared, Spares, Git!UserEditsStay, OneAtOnce
  <1>3. OneAtOnce'
    BY DEF Git!AgentWrites, GitTypes, Git!Idle, Git!Fault, Git!Ends, Git!Discarded, Git!Writes,
       OneAtOnce, Git!CheckpointKept
  <1>4. AsCompared'
    BY DEF Git!AgentWrites, GitTypes, Git!TypeOK, Git!Tree, Git!Idle, Git!Fault, Git!Ends,
       Git!Discarded, Git!Writes,
       OneAtOnce, AsCompared, Git!UndoneExactly
  <1> QED
    BY <1>1, <1>2, <1>3, <1>4

\* A commit is seen by an undo as a staged tree.
LEMMA GitUserCommitsKeeps ==
  ASSUME GitValues, GitInv, Git!UserCommits
  PROVE  GitInv'
  <1> USE DEF GitInv, Git!repo, Git!user, Git!bounds
  <1>1. GitTypes'
    BY DEF Git!UserCommits, GitTypes, Git!TypeOK, GitValues, Git!Idle, Git!Fault, Git!Ends,
       Git!Discarded,
       Git!Writes, Git!Tree, Before, Whole, OneAtOnce
  <1>2. MineSpared'
    BY DEF Git!UserCommits, GitTypes, Git!TypeOK, GitValues, Git!Idle, Git!Fault, Git!Ends,
       Git!Discarded,
       Git!Writes, Git!Tree, Before, Whole, MineSpared, Spares, Git!UserEditsStay, OneAtOnce
  <1>3. OneAtOnce'
    BY DEF Git!UserCommits, GitTypes, Git!Idle, Git!Fault, Git!Ends, Git!Discarded, Git!Writes,
       OneAtOnce, Git!CheckpointKept
  <1>4. AsCompared'
    BY DEF Git!UserCommits, GitTypes, Git!TypeOK, Git!Tree, Git!Idle, Git!Fault, Git!Ends,
       Git!Discarded, Git!Writes,
       OneAtOnce, AsCompared, Git!UndoneExactly
  <1> QED
    BY <1>1, <1>2, <1>3, <1>4

\* A turn begins with the last checkpoint discarded.
LEMMA GitBeginTurnKeeps ==
  ASSUME GitValues, GitInv, Git!BeginTurn
  PROVE  GitInv'
  <1> USE DEF GitInv, Git!repo, Git!user, Git!bounds
  <1>1. GitTypes'
    BY DEF Git!BeginTurn, GitTypes, Git!TypeOK, GitValues, Git!Idle, Git!Fault, Git!Ends,
       Git!Discarded,
       Git!Writes, Git!Tree, Before, Whole, OneAtOnce
  <1>2. MineSpared'
    BY DEF Git!BeginTurn, GitTypes, Git!TypeOK, GitValues, Git!Idle, Git!Fault, Git!Ends,
       Git!Discarded,
       Git!Writes, Git!Tree, Before, Whole, MineSpared, Spares, Git!UserEditsStay, OneAtOnce
  <1>3. OneAtOnce'
    BY DEF Git!BeginTurn, GitTypes, Git!Idle, Git!Fault, Git!Ends, Git!Discarded, Git!Writes,
       OneAtOnce, Git!CheckpointKept
  <1>4. AsCompared'
    BY DEF Git!BeginTurn, GitTypes, Git!TypeOK, Git!Tree, Git!Idle, Git!Fault, Git!Ends,
       Git!Discarded, Git!Writes,
       OneAtOnce, AsCompared, Git!UndoneExactly
  <1> QED
    BY <1>1, <1>2, <1>3, <1>4

\* The reference of a discarded checkpoint is removed.
LEMMA GitForgetKeeps ==
  ASSUME GitValues, GitInv, Git!Forget
  PROVE  GitInv'
  <1> USE DEF GitInv, Git!repo, Git!user, Git!bounds
  <1>1. GitTypes'
    BY DEF Git!Forget, GitTypes, Git!TypeOK, GitValues, Git!Idle, Git!Fault, Git!Ends,
       Git!Discarded,
       Git!Writes, Git!Tree, Before, Whole, OneAtOnce
  <1>2. MineSpared'
    BY DEF Git!Forget, GitTypes, Git!TypeOK, GitValues, Git!Idle, Git!Fault, Git!Ends,
       Git!Discarded,
       Git!Writes, Git!Tree, Before, Whole, MineSpared, Spares, Git!UserEditsStay, OneAtOnce
  <1>3. OneAtOnce'
    BY DEF Git!Forget, GitTypes, Git!Idle, Git!Fault, Git!Ends, Git!Discarded, Git!Writes,
       OneAtOnce, Git!CheckpointKept
  <1>4. AsCompared'
    BY DEF Git!Forget, GitTypes, Git!TypeOK, Git!Tree, Git!Idle, Git!Fault, Git!Ends,
       Git!Discarded, Git!Writes,
       OneAtOnce, AsCompared, Git!UndoneExactly
  <1> QED
    BY <1>1, <1>2, <1>3, <1>4

\* The commit is read first.
LEMMA GitReadHeadKeeps ==
  ASSUME GitValues, GitInv, Git!ReadHead
  PROVE  GitInv'
  <1> USE DEF GitInv, Git!repo, Git!user, Git!bounds
  <1>1. GitTypes'
    BY DEF Git!ReadHead, GitTypes, Git!TypeOK, GitValues, Git!Idle, Git!Fault, Git!Ends,
       Git!Discarded,
       Git!Writes, Git!Tree, Before, Whole, OneAtOnce
  <1>2. MineSpared'
    BY DEF Git!ReadHead, GitTypes, Git!TypeOK, GitValues, Git!Idle, Git!Fault, Git!Ends,
       Git!Discarded,
       Git!Writes, Git!Tree, Before, Whole, MineSpared, Spares, Git!UserEditsStay, OneAtOnce
  <1>3. OneAtOnce'
    BY DEF Git!ReadHead, GitTypes, Git!Idle, Git!Fault, Git!Ends, Git!Discarded, Git!Writes,
       OneAtOnce, Git!CheckpointKept
  <1>4. AsCompared'
    BY DEF Git!ReadHead, GitTypes, Git!TypeOK, Git!Tree, Git!Idle, Git!Fault, Git!Ends,
       Git!Discarded, Git!Writes,
       OneAtOnce, AsCompared, Git!UndoneExactly
  <1> QED
    BY <1>1, <1>2, <1>3, <1>4

\* Then the index.
LEMMA GitReadIndexKeeps ==
  ASSUME GitValues, GitInv, Git!ReadIndex
  PROVE  GitInv'
  <1> USE DEF GitInv, Git!repo, Git!user, Git!bounds
  <1>1. GitTypes'
    BY DEF Git!ReadIndex, GitTypes, Git!TypeOK, GitValues, Git!Idle, Git!Fault, Git!Ends,
       Git!Discarded,
       Git!Writes, Git!Tree, Before, Whole, OneAtOnce
  <1>2. MineSpared'
    BY DEF Git!ReadIndex, GitTypes, Git!TypeOK, GitValues, Git!Idle, Git!Fault, Git!Ends,
       Git!Discarded,
       Git!Writes, Git!Tree, Before, Whole, MineSpared, Spares, Git!UserEditsStay, OneAtOnce
  <1>3. OneAtOnce'
    BY DEF Git!ReadIndex, GitTypes, Git!Idle, Git!Fault, Git!Ends, Git!Discarded, Git!Writes,
       OneAtOnce, Git!CheckpointKept
  <1>4. AsCompared'
    BY DEF Git!ReadIndex, GitTypes, Git!TypeOK, Git!Tree, Git!Idle, Git!Fault, Git!Ends,
       Git!Discarded, Git!Writes,
       OneAtOnce, AsCompared, Git!UndoneExactly
  <1> QED
    BY <1>1, <1>2, <1>3, <1>4

\* Then the working tree: the checkpoint before the turn.
LEMMA GitKeepKeeps ==
  ASSUME GitValues, GitInv, Git!Keep
  PROVE  GitInv'
  <1> USE DEF GitInv, Git!repo, Git!user, Git!bounds
  <1>1. GitTypes'
    BY DEF Git!Keep, GitTypes, Git!TypeOK, GitValues, Git!Idle, Git!Fault, Git!Ends,
       Git!Discarded,
       Git!Writes, Git!Tree, Before, Whole, OneAtOnce
  <1>2. MineSpared'
    BY DEF Git!Keep, GitTypes, Git!TypeOK, GitValues, Git!Idle, Git!Fault, Git!Ends,
       Git!Discarded,
       Git!Writes, Git!Tree, Before, Whole, MineSpared, Spares, Git!UserEditsStay, OneAtOnce
  <1>3. OneAtOnce'
    BY DEF Git!Keep, GitTypes, Git!Idle, Git!Fault, Git!Ends, Git!Discarded, Git!Writes,
       OneAtOnce, Git!CheckpointKept
  <1>4. AsCompared'
    BY DEF Git!Keep, GitTypes, Git!TypeOK, Git!Tree, Git!Idle, Git!Fault, Git!Ends,
       Git!Discarded, Git!Writes,
       OneAtOnce, AsCompared, Git!UndoneExactly
  <1> QED
    BY <1>1, <1>2, <1>3, <1>4

\* A turn whose state cannot be kept runs without a checkpoint.
LEMMA GitCannotKeepKeeps ==
  ASSUME GitValues, GitInv, Git!CannotKeep
  PROVE  GitInv'
  <1> USE DEF GitInv, Git!repo, Git!user, Git!bounds
  <1>1. GitTypes'
    BY DEF Git!CannotKeep, GitTypes, Git!TypeOK, GitValues, Git!Idle, Git!Fault, Git!Ends,
       Git!Discarded,
       Git!Writes, Git!Tree, Before, Whole, OneAtOnce
  <1>2. MineSpared'
    BY DEF Git!CannotKeep, GitTypes, Git!TypeOK, GitValues, Git!Idle, Git!Fault, Git!Ends,
       Git!Discarded,
       Git!Writes, Git!Tree, Before, Whole, MineSpared, Spares, Git!UserEditsStay, OneAtOnce
  <1>3. OneAtOnce'
    BY DEF Git!CannotKeep, GitTypes, Git!Idle, Git!Fault, Git!Ends, Git!Discarded, Git!Writes,
       OneAtOnce, Git!CheckpointKept
  <1>4. AsCompared'
    BY DEF Git!CannotKeep, GitTypes, Git!TypeOK, Git!Tree, Git!Idle, Git!Fault, Git!Ends,
       Git!Discarded, Git!Writes,
       OneAtOnce, AsCompared, Git!UndoneExactly
  <1> QED
    BY <1>1, <1>2, <1>3, <1>4

\* The index after the turn.
LEMMA GitEndTurnKeeps ==
  ASSUME GitValues, GitInv, Git!EndTurn
  PROVE  GitInv'
  <1> USE DEF GitInv, Git!repo, Git!user, Git!bounds
  <1>1. GitTypes'
    BY DEF Git!EndTurn, GitTypes, Git!TypeOK, GitValues, Git!Idle, Git!Fault, Git!Ends,
       Git!Discarded,
       Git!Writes, Git!Tree, Before, Whole, OneAtOnce
  <1>2. MineSpared'
    BY DEF Git!EndTurn, GitTypes, Git!TypeOK, GitValues, Git!Idle, Git!Fault, Git!Ends,
       Git!Discarded,
       Git!Writes, Git!Tree, Before, Whole, MineSpared, Spares, Git!UserEditsStay, OneAtOnce
  <1>3. OneAtOnce'
    BY DEF Git!EndTurn, GitTypes, Git!Idle, Git!Fault, Git!Ends, Git!Discarded, Git!Writes,
       OneAtOnce, Git!CheckpointKept
  <1>4. AsCompared'
    BY DEF Git!EndTurn, GitTypes, Git!TypeOK, Git!Tree, Git!Idle, Git!Fault, Git!Ends,
       Git!Discarded, Git!Writes,
       OneAtOnce, AsCompared, Git!UndoneExactly
  <1> QED
    BY <1>1, <1>2, <1>3, <1>4

\* The working tree after the turn: the checkpoint is whole.
LEMMA GitCaptureKeeps ==
  ASSUME GitValues, GitInv, Git!Capture
  PROVE  GitInv'
  <1> USE DEF GitInv, Git!repo, Git!user, Git!bounds
  <1>1. GitTypes'
    BY DEF Git!Capture, GitTypes, Git!TypeOK, GitValues, Git!Idle, Git!Fault, Git!Ends,
       Git!Discarded,
       Git!Writes, Git!Tree, Before, Whole, OneAtOnce
  <1>2. MineSpared'
    <2>1. turn.of \in Before /\ turn.index \in Git!Tree /\ work \in Git!Tree
      BY DEF Git!Capture, GitTypes, Git!TypeOK
    <2>2. PICK whole : whole = [turn.of EXCEPT !.after = [index |-> turn.index, work |-> work]]
      OBVIOUS
    <2>3. /\ turn' = [at |-> "save", of |-> whole]
          /\ UNCHANGED <<work, mine, edits, manifest>>
      BY <2>2 DEF Git!Capture
    <2>4. whole.work = turn.of.work /\ whole.after.work = work
      BY <2>1, <2>2 DEF Before
    <2>5. manifest = Nil
      BY DEF Git!Capture, OneAtOnce
    <2>6. turn.of # Nil => Spares(whole)'
      BY <2>3, <2>4 DEF Git!Capture, MineSpared, GitTypes, Spares, Git!UserEditsStay
    <2> QED
      BY <2>1, <2>3, <2>5, <2>6 DEF Git!Capture, MineSpared, GitTypes, Git!UserEditsStay
  <1>3. OneAtOnce'
    BY DEF Git!Capture, GitTypes, Git!Idle, Git!Fault, Git!Ends, Git!Discarded, Git!Writes,
       OneAtOnce, Git!CheckpointKept
  <1>4. AsCompared'
    BY DEF Git!Capture, GitTypes, Git!TypeOK, Git!Tree, Git!Idle, Git!Fault, Git!Ends,
       Git!Discarded, Git!Writes,
       OneAtOnce, AsCompared, Git!UndoneExactly
  <1> QED
    BY <1>1, <1>2, <1>3, <1>4

\* The manifest names the checkpoint that the reference keeps.
LEMMA GitSaveCheckpointKeeps ==
  ASSUME GitValues, GitInv, Git!SaveCheckpoint
  PROVE  GitInv'
  <1> USE DEF GitInv, Git!repo, Git!user, Git!bounds
  <1>1. GitTypes'
    BY DEF Git!SaveCheckpoint, GitTypes, Git!TypeOK, GitValues, Git!Idle, Git!Fault, Git!Ends,
       Git!Discarded,
       Git!Writes, Git!Tree, Before, Whole, OneAtOnce
  <1>2. MineSpared'
    BY DEF Git!SaveCheckpoint, GitTypes, Git!TypeOK, GitValues, Git!Idle, Git!Fault, Git!Ends,
       Git!Discarded,
       Git!Writes, Git!Tree, Before, Whole, MineSpared, Spares, Git!UserEditsStay, OneAtOnce
  <1>3. OneAtOnce'
    BY DEF Git!SaveCheckpoint, GitTypes, Git!Idle, Git!Fault, Git!Ends, Git!Discarded,
       Git!Writes,
       OneAtOnce, Git!CheckpointKept
  <1>4. AsCompared'
    BY DEF Git!SaveCheckpoint, GitTypes, Git!TypeOK, Git!Tree, Git!Idle, Git!Fault, Git!Ends,
       Git!Discarded, Git!Writes,
       OneAtOnce, AsCompared, Git!UndoneExactly
  <1> QED
    BY <1>1, <1>2, <1>3, <1>4

\* A checkpoint that cannot be made whole is dropped.
LEMMA GitFinalizeFailsKeeps ==
  ASSUME GitValues, GitInv, Git!FinalizeFails
  PROVE  GitInv'
  <1> USE DEF GitInv, Git!repo, Git!user, Git!bounds
  <1>1. GitTypes'
    BY DEF Git!FinalizeFails, GitTypes, Git!TypeOK, GitValues, Git!Idle, Git!Fault, Git!Ends,
       Git!Discarded,
       Git!Writes, Git!Tree, Before, Whole, OneAtOnce
  <1>2. MineSpared'
    BY DEF Git!FinalizeFails, GitTypes, Git!TypeOK, GitValues, Git!Idle, Git!Fault, Git!Ends,
       Git!Discarded,
       Git!Writes, Git!Tree, Before, Whole, MineSpared, Spares, Git!UserEditsStay, OneAtOnce
  <1>3. OneAtOnce'
    BY DEF Git!FinalizeFails, GitTypes, Git!Idle, Git!Fault, Git!Ends, Git!Discarded,
       Git!Writes,
       OneAtOnce, Git!CheckpointKept
  <1>4. AsCompared'
    BY DEF Git!FinalizeFails, GitTypes, Git!TypeOK, Git!Tree, Git!Idle, Git!Fault, Git!Ends,
       Git!Discarded, Git!Writes,
       OneAtOnce, AsCompared, Git!UndoneExactly
  <1> QED
    BY <1>1, <1>2, <1>3, <1>4

\* An undo starts from the checkpoint of the manifest.
LEMMA GitBeginUndoKeeps ==
  ASSUME GitValues, GitInv, Git!BeginUndo
  PROVE  GitInv'
  <1> USE DEF GitInv, Git!repo, Git!user, Git!bounds
  <1>1. GitTypes'
    BY DEF Git!BeginUndo, GitTypes, Git!TypeOK, GitValues, Git!Idle, Git!Fault, Git!Ends,
       Git!Discarded,
       Git!Writes, Git!Tree, Before, Whole, OneAtOnce
  <1>2. MineSpared'
    BY DEF Git!BeginUndo, GitTypes, Git!TypeOK, GitValues, Git!Idle, Git!Fault, Git!Ends,
       Git!Discarded,
       Git!Writes, Git!Tree, Before, Whole, MineSpared, Spares, Git!UserEditsStay, OneAtOnce
  <1>3. OneAtOnce'
    BY DEF Git!BeginUndo, GitTypes, Git!Idle, Git!Fault, Git!Ends, Git!Discarded, Git!Writes,
       OneAtOnce, Git!CheckpointKept
  <1>4. AsCompared'
    BY DEF Git!BeginUndo, GitTypes, Git!TypeOK, Git!Tree, Git!Idle, Git!Fault, Git!Ends,
       Git!Discarded, Git!Writes,
       OneAtOnce, AsCompared, Git!UndoneExactly
  <1> QED
    BY <1>1, <1>2, <1>3, <1>4

\* It reads the index.
LEMMA GitUndoReadsIndexKeeps ==
  ASSUME GitValues, GitInv, Git!UndoReadsIndex
  PROVE  GitInv'
  <1> USE DEF GitInv, Git!repo, Git!user, Git!bounds
  <1>1. GitTypes'
    BY DEF Git!UndoReadsIndex, GitTypes, Git!TypeOK, GitValues, Git!Idle, Git!Fault, Git!Ends,
       Git!Discarded,
       Git!Writes, Git!Tree, Before, Whole, OneAtOnce
  <1>2. MineSpared'
    BY DEF Git!UndoReadsIndex, GitTypes, Git!TypeOK, GitValues, Git!Idle, Git!Fault, Git!Ends,
       Git!Discarded,
       Git!Writes, Git!Tree, Before, Whole, MineSpared, Spares, Git!UserEditsStay, OneAtOnce
  <1>3. OneAtOnce'
    BY DEF Git!UndoReadsIndex, GitTypes, Git!Idle, Git!Fault, Git!Ends, Git!Discarded,
       Git!Writes,
       OneAtOnce, Git!CheckpointKept
  <1>4. AsCompared'
    BY DEF Git!UndoReadsIndex, GitTypes, Git!TypeOK, Git!Tree, Git!Idle, Git!Fault, Git!Ends,
       Git!Discarded, Git!Writes,
       OneAtOnce, AsCompared, Git!UndoneExactly
  <1> QED
    BY <1>1, <1>2, <1>3, <1>4

\* It goes on only where both trees are as the turn left them.
LEMMA GitUndoComparesKeeps ==
  ASSUME GitValues, GitInv, Git!UndoCompares
  PROVE  GitInv'
  <1> USE DEF GitInv, Git!repo, Git!user, Git!bounds
  <1>1. GitTypes'
    BY DEF Git!UndoCompares, GitTypes, Git!TypeOK, GitValues, Git!Idle, Git!Fault, Git!Ends,
       Git!Discarded,
       Git!Writes, Git!Tree, Before, Whole, OneAtOnce
  <1>2. MineSpared'
    BY DEF Git!UndoCompares, GitTypes, Git!TypeOK, GitValues, Git!Idle, Git!Fault, Git!Ends,
       Git!Discarded,
       Git!Writes, Git!Tree, Before, Whole, MineSpared, Spares, Git!UserEditsStay, OneAtOnce
  <1>3. OneAtOnce'
    BY DEF Git!UndoCompares, GitTypes, Git!Idle, Git!Fault, Git!Ends, Git!Discarded, Git!Writes,
       OneAtOnce, Git!CheckpointKept
  <1>4. AsCompared'
    <2>1. /\ undo.at = "work" /\ UNCHANGED <<index, work, staged>>
          /\ \/ /\ undo' = [at |-> "apply", of |-> undo.of]
                /\ undo.index = undo.of.after.index /\ work = undo.of.after.work
             \/ undo' = Git!Idle
      BY DEF Git!UndoCompares, Git!UnchangedSince, Git!Ends
    <2> QED
      BY <2>1 DEF AsCompared, Git!UndoneExactly, Git!Idle
  <1> QED
    BY <1>1, <1>2, <1>3, <1>4

\* The patch takes the turn's changes out of the working tree.
LEMMA GitApplyKeeps ==
  ASSUME GitValues, GitInv, Git!Apply
  PROVE  GitInv'
  <1> USE DEF GitInv, Git!repo, Git!user, Git!bounds
  <1>0. PICK c \in Whole :
          /\ c = undo.of /\ c = manifest /\ manifest # Nil /\ undo.at = "apply" /\ turn = Git!Idle
          /\ turn.at = "idle" /\ Spares(c)
    BY DEF Git!Apply, GitTypes, OneAtOnce, MineSpared, Git!Idle
  <1>5. /\ work \in Git!Tree /\ edits \in 0 .. MaxEdits
        /\ \A f \in Files : work[f] \subseteq 1 .. edits /\ mine[f] \subseteq work[f]
    BY DEF GitTypes, Git!TypeOK, MineSpared, Git!UserEditsStay
  <1>6. \A f \in Files : 
          /\ Git!Patched(f, c.after.work, c.work) \subseteq 1 .. edits
          /\ mine[f] \subseteq Git!Patched(f, c.after.work, c.work)
          /\ work[f] = c.after.work[f] => Git!Patched(f, c.after.work, c.work) = c.work[f]
    BY <1>0, <1>5, PatchSpares DEF Spares
  <1>7. \/ work' = [f \in Files |-> Git!Patched(f, c.after.work, c.work)]
           /\ undo' = [at |-> "read-tree", of |-> c]
        \/ work' = work /\ undo' = Git!Idle
    BY <1>0 DEF Git!Apply, Git!Ends
  <1>8. /\ work' = [f \in Files |-> work'[f]]
        /\ \A f \in Files : work'[f] \subseteq 1 .. edits /\ mine[f] \subseteq work'[f]
    BY <1>5, <1>6, <1>7 DEF Git!Tree
  <1>9. work' \in Git!Tree
    <2>1. 1 .. edits \subseteq 1 .. MaxEdits
      BY <1>5 DEF GitValues
    <2> QED
      BY <1>7, <1>8, <2>1 DEF Git!Tree
  <1>1. GitTypes'
    BY <1>0, <1>9, <1>8 DEF Git!Apply, GitTypes, Git!TypeOK, Git!Idle, Git!Ends, Git!Fault
  <1>2. MineSpared'
    BY <1>0, <1>9, <1>8 DEF Git!Apply, MineSpared, Spares, Git!UserEditsStay, Git!Ends,
       Git!Idle,
       Git!Fault
  <1>3. OneAtOnce'
    BY DEF Git!Apply, GitTypes, Git!Idle, Git!Fault, Git!Ends, Git!Discarded, Git!Writes,
       OneAtOnce, Git!CheckpointKept
  <1>4. AsCompared'
    BY <1>0, <1>5, <1>6, <1>7 DEF Git!Apply, AsCompared, Git!UndoneExactly, Git!Idle
  <1> QED
    BY <1>1, <1>2, <1>3, <1>4

\* A patch that is cut short may leave some files as they were.
LEMMA GitApplyKilledKeeps ==
  ASSUME GitValues, GitInv, Git!ApplyKilled
  PROVE  GitInv'
  <1> USE DEF GitInv, Git!repo, Git!user, Git!bounds
  <1>0. PICK c \in Whole :
          /\ c = undo.of /\ c = manifest /\ manifest # Nil /\ undo.at = "apply" /\ turn = Git!Idle
          /\ turn.at = "idle" /\ Spares(c)
    BY DEF Git!ApplyKilled, GitTypes, OneAtOnce, MineSpared, Git!Idle
  <1>5. /\ work \in Git!Tree /\ edits \in 0 .. MaxEdits
        /\ \A f \in Files : work[f] \subseteq 1 .. edits /\ mine[f] \subseteq work[f]
    BY DEF GitTypes, Git!TypeOK, MineSpared, Git!UserEditsStay
  <1>6. \A f \in Files : 
          /\ Git!Patched(f, c.after.work, c.work) \subseteq 1 .. edits
          /\ mine[f] \subseteq Git!Patched(f, c.after.work, c.work)
          /\ work[f] = c.after.work[f] => Git!Patched(f, c.after.work, c.work) = c.work[f]
    BY <1>0, <1>5, PatchSpares DEF Spares
  <1>7. /\ work' = [f \in Files |-> work'[f]]
        /\ \A f \in Files : work'[f] \in {work[f], Git!Patched(f, c.after.work, c.work)}
    BY <1>0 DEF Git!ApplyKilled
  <1>8. \A f \in Files : work'[f] \subseteq 1 .. edits /\ mine[f] \subseteq work'[f]
    BY <1>5, <1>6, <1>7
  <1>9. work' \in Git!Tree
    <2>1. 1 .. edits \subseteq 1 .. MaxEdits
      BY <1>5 DEF GitValues
    <2> QED
      BY <1>7, <1>8, <2>1 DEF Git!Tree
  <1>1. GitTypes'
    BY <1>0, <1>9, <1>8 DEF Git!ApplyKilled, GitTypes, Git!TypeOK, Git!Idle, Git!Ends, Git!Fault
  <1>2. MineSpared'
    BY <1>0, <1>9, <1>8 DEF Git!ApplyKilled, MineSpared, Spares, Git!UserEditsStay, Git!Ends,
       Git!Idle, Git!Fault
  <1>3. OneAtOnce'
    BY DEF Git!ApplyKilled, GitTypes, Git!Idle, Git!Fault, Git!Ends, Git!Discarded, Git!Writes,
       OneAtOnce, Git!CheckpointKept
  <1>4. AsCompared'
    BY DEF Git!ApplyKilled, GitTypes, Git!TypeOK, Git!Tree, Git!Idle, Git!Fault, Git!Ends,
       Git!Discarded, Git!Writes,
       OneAtOnce, AsCompared, Git!UndoneExactly
  <1> QED
    BY <1>1, <1>2, <1>3, <1>4

\* The index before the turn is read back.
LEMMA GitRestoreIndexKeeps ==
  ASSUME GitValues, GitInv, Git!RestoreIndex
  PROVE  GitInv'
  <1> USE DEF GitInv, Git!repo, Git!user, Git!bounds
  <1>1. GitTypes'
    BY DEF Git!RestoreIndex, GitTypes, Git!TypeOK, GitValues, Git!Idle, Git!Fault, Git!Ends,
       Git!Discarded,
       Git!Writes, Git!Tree, Before, Whole, OneAtOnce
  <1>2. MineSpared'
    BY DEF Git!RestoreIndex, GitTypes, Git!TypeOK, GitValues, Git!Idle, Git!Fault, Git!Ends,
       Git!Discarded,
       Git!Writes, Git!Tree, Before, Whole, MineSpared, Spares, Git!UserEditsStay, OneAtOnce
  <1>3. OneAtOnce'
    BY DEF Git!RestoreIndex, GitTypes, Git!Idle, Git!Fault, Git!Ends, Git!Discarded, Git!Writes,
       OneAtOnce, Git!CheckpointKept
  <1>4. AsCompared'
    BY DEF Git!RestoreIndex, GitTypes, Git!TypeOK, Git!Tree, Git!Idle, Git!Fault, Git!Ends,
       Git!Discarded, Git!Writes,
       OneAtOnce, AsCompared, Git!UndoneExactly
  <1> QED
    BY <1>1, <1>2, <1>3, <1>4

\* Where it cannot be, the undo says so.
LEMMA GitIndexFailsKeeps ==
  ASSUME GitValues, GitInv, Git!IndexFails
  PROVE  GitInv'
  <1> USE DEF GitInv, Git!repo, Git!user, Git!bounds
  <1>0. PICK c \in Whole :
          /\ c = undo.of /\ c = manifest /\ manifest # Nil /\ undo.at = "read-tree"
          /\ turn = Git!Idle /\ turn.at = "idle" /\ Spares(c)
    BY DEF Git!IndexFails, GitTypes, OneAtOnce, MineSpared, Git!Idle
  <1>5. /\ work \in Git!Tree /\ edits \in 0 .. MaxEdits
        /\ \A f \in Files : work[f] \subseteq 1 .. edits /\ mine[f] \subseteq work[f]
    BY DEF GitTypes, Git!TypeOK, MineSpared, Git!UserEditsStay
  <1>6. \A f \in Files : 
          /\ Git!Patched(f, c.work, c.after.work) \subseteq 1 .. edits
          /\ mine[f] \subseteq Git!Patched(f, c.work, c.after.work)
          /\ work[f] = c.work[f] => Git!Patched(f, c.work, c.after.work) = c.after.work[f]
    BY <1>0, <1>5, PatchSpares DEF Spares
  <1>7. /\ work' = [f \in Files |-> work'[f]]
        /\ \A f \in Files : work'[f] \in {work[f], Git!Patched(f, c.work, c.after.work)}
    BY <1>0, <1>5 DEF Git!IndexFails, Git!Tree
  <1>8. \A f \in Files : work'[f] \subseteq 1 .. edits /\ mine[f] \subseteq work'[f]
    BY <1>5, <1>6, <1>7
  <1>9. work' \in Git!Tree
    <2>1. 1 .. edits \subseteq 1 .. MaxEdits
      BY <1>5 DEF GitValues
    <2> QED
      BY <1>7, <1>8, <2>1 DEF Git!Tree
  <1>1. GitTypes'
    BY <1>0, <1>9, <1>8 DEF Git!IndexFails, GitTypes, Git!TypeOK, Git!Idle, Git!Ends, Git!Fault
  <1>2. MineSpared'
    BY <1>0, <1>9, <1>8 DEF Git!IndexFails, MineSpared, Spares, Git!UserEditsStay, Git!Ends,
       Git!Idle, Git!Fault
  <1>3. OneAtOnce'
    BY DEF Git!IndexFails, GitTypes, Git!Idle, Git!Fault, Git!Ends, Git!Discarded, Git!Writes,
       OneAtOnce, Git!CheckpointKept
  <1>4. AsCompared'
    BY DEF Git!IndexFails, GitTypes, Git!TypeOK, Git!Tree, Git!Idle, Git!Fault, Git!Ends,
       Git!Discarded, Git!Writes,
       OneAtOnce, AsCompared, Git!UndoneExactly
  <1> QED
    BY <1>1, <1>2, <1>3, <1>4

\* The checkpoint that was undone is forgotten.
LEMMA GitUndoneKeeps ==
  ASSUME GitValues, GitInv, Git!Undone
  PROVE  GitInv'
  <1> USE DEF GitInv, Git!repo, Git!user, Git!bounds
  <1>1. GitTypes'
    BY DEF Git!Undone, GitTypes, Git!TypeOK, GitValues, Git!Idle, Git!Fault, Git!Ends,
       Git!Discarded,
       Git!Writes, Git!Tree, Before, Whole, OneAtOnce
  <1>2. MineSpared'
    BY DEF Git!Undone, GitTypes, Git!TypeOK, GitValues, Git!Idle, Git!Fault, Git!Ends,
       Git!Discarded,
       Git!Writes, Git!Tree, Before, Whole, MineSpared, Spares, Git!UserEditsStay, OneAtOnce
  <1>3. OneAtOnce'
    BY DEF Git!Undone, GitTypes, Git!Idle, Git!Fault, Git!Ends, Git!Discarded, Git!Writes,
       OneAtOnce, Git!CheckpointKept
  <1>4. AsCompared'
    BY DEF Git!Undone, GitTypes, Git!TypeOK, Git!Tree, Git!Idle, Git!Fault, Git!Ends,
       Git!Discarded, Git!Writes,
       OneAtOnce, AsCompared, Git!UndoneExactly
  <1> QED
    BY <1>1, <1>2, <1>3, <1>4

\* A crash leaves the trees, the reference and the manifest.
LEMMA GitCrashKeeps ==
  ASSUME GitValues, GitInv, Git!Crash
  PROVE  GitInv'
  <1> USE DEF GitInv, Git!repo, Git!user, Git!bounds
  <1>1. GitTypes'
    BY DEF Git!Crash, GitTypes, Git!TypeOK, GitValues, Git!Idle, Git!Fault, Git!Ends,
       Git!Discarded,
       Git!Writes, Git!Tree, Before, Whole, OneAtOnce
  <1>2. MineSpared'
    BY DEF Git!Crash, GitTypes, Git!TypeOK, GitValues, Git!Idle, Git!Fault, Git!Ends,
       Git!Discarded,
       Git!Writes, Git!Tree, Before, Whole, MineSpared, Spares, Git!UserEditsStay, OneAtOnce
  <1>3. OneAtOnce'
    BY DEF Git!Crash, GitTypes, Git!Idle, Git!Fault, Git!Ends, Git!Discarded, Git!Writes,
       OneAtOnce, Git!CheckpointKept
  <1>4. AsCompared'
    BY DEF Git!Crash, GitTypes, Git!TypeOK, Git!Tree, Git!Idle, Git!Fault, Git!Ends,
       Git!Discarded, Git!Writes,
       OneAtOnce, AsCompared, Git!UndoneExactly
  <1> QED
    BY <1>1, <1>2, <1>3, <1>4

\* A step that changes no variable.
LEMMA GitStutters ==
  ASSUME GitInv, UNCHANGED Git!vars
  PROVE  GitInv'
  <1>1. UNCHANGED <<head, work, index, ref, manifest, turn, undo, mine, since, staged, report,
                    torn, edits>>
    BY DEF Git!vars
  <1>2. GitTypes'
    BY <1>1 DEF GitInv, GitTypes, Git!TypeOK
  <1>3. MineSpared'
    BY <1>1 DEF GitInv, MineSpared, Spares, Git!UserEditsStay
  <1>4. OneAtOnce' /\ AsCompared'
    BY <1>1 DEF GitInv, OneAtOnce, AsCompared, Git!CheckpointKept, Git!UndoneExactly
  <1> QED
    BY <1>2, <1>3, <1>4 DEF GitInv

\* Every step keeps the invariant.
LEMMA GitStep ==
  ASSUME GitValues, GitInv, [Git!Next]_(Git!vars)
  PROVE  GitInv'
  <1>1. CASE Git!Next
    BY <1>1, GitUserEditsKeeps, GitUserRevertsKeeps, GitUserStagesKeeps, GitAgentWritesKeeps,
       GitUserCommitsKeeps, GitBeginTurnKeeps, GitForgetKeeps, GitReadHeadKeeps,
       GitReadIndexKeeps,
       GitKeepKeeps, GitCannotKeepKeeps, GitEndTurnKeeps, GitCaptureKeeps,
       GitSaveCheckpointKeeps,
       GitFinalizeFailsKeeps, GitBeginUndoKeeps, GitUndoReadsIndexKeeps, GitUndoComparesKeeps,
       GitApplyKeeps,
       GitApplyKilledKeeps, GitRestoreIndexKeeps, GitIndexFailsKeeps, GitUndoneKeeps,
       GitCrashKeeps
    DEF Git!Next
  <1>2. CASE UNCHANGED Git!vars
    BY <1>2, GitStutters
  <1> QED
    BY <1>1, <1>2

\* The invariant says what an undo takes out and what it spares.
LEMMA GitImplies == GitInv => Git!CheckpointHolds
  <1>1. AsCompared => Git!StagedStays
    BY DEF AsCompared, Git!StagedStays
  <1> QED
    BY <1>1 DEF GitInv, GitTypes, MineSpared, OneAtOnce, AsCompared, Git!CheckpointHolds

\* An undo takes back the turn's edits alone: what the user wrote outside turns
\* stays in the files wherever an undo stops, files and a staging area nobody
\* touched meanwhile are as before the turn, and what an undo would need is kept.
\* (git.py:330-409)
THEOREM CheckpointIsTrue ==
  GitValues => (Git!Spec => []Git!CheckpointHolds)
  <1> SUFFICES ASSUME GitValues
               PROVE  Git!Spec => []Git!CheckpointHolds
    OBVIOUS
  <1>1. GitInv /\ [Git!Next]_(Git!vars) => GitInv'
    BY GitStep
  <1> QED
    BY GitInit, <1>1, GitImplies, PTL DEF Git!Spec

\* The invariant, of the behaviours of a suite that are of this part.
GitPart == part = "git" => GitInv

\* What a run checks of the undo, for any constants: it takes the turn's edits and
\* none of the user's.
THEOREM UndoTakesTheTurnAlone == GitValues => (SuiteSpec => []CheckpointHolds)
  <1> SUFFICES ASSUME GitValues
               PROVE  SuiteSpec => []CheckpointHolds
    OBVIOUS
  <1>1. SuiteInit => GitPart
    BY GitInit DEF SuiteInit, GitPart
  <1>2. GitPart /\ [SuiteNext]_suite => GitPart'
    <2> SUFFICES ASSUME part' = "git", GitPart, [SuiteNext]_suite
                 PROVE  GitInv'
      BY DEF GitPart
    <2>1. part = "git" /\ [Git!Next]_(Git!vars)
      <3>1. CASE SuiteNext
        BY <3>1 DEF SuiteNext
      <3>2. CASE UNCHANGED suite
        BY <3>2 DEF suite, git, Git!vars
      <3> QED
        BY <3>1, <3>2
    <2> QED
      BY <2>1, GitStep DEF GitPart
  <1>3. GitPart => CheckpointHolds
    BY GitImplies DEF GitPart, CheckpointHolds
  <1> QED
    BY <1>1, <1>2, <1>3, PTL DEF SuiteSpec

------------------------------------------------------------------------------
(* The passwords of the sandbox accounts (SandboxCredentials).              *)

\* The files, what is saved of a validation, and a run of the coordinator.
Records == [Sandbox!Roles -> Sandbox!Versions]
SecretFiles  == [state : {"missing", "corrupt", "newer", "checked"}, records : Records]
Stored  == [validated : [is : BOOLEAN, file : SecretFiles, times : Records],
            known : SUBSET (Sandbox!Roles \X Sandbox!Versions)]
Coordinations ==
    [at : {"idle", "locking", "looking", "waiting", "holding", "writing", "checking", "rereading",
           "saving"},
     op : {"reconcile", "restore"}, state : Stored, times : Records, current : SecretFiles,
     file : SecretFiles, roles : SUBSET Sandbox!Roles, valid : SUBSET Sandbox!Roles]
Failed == SUBSET (Sandbox!Roles \X Sandbox!Versions)
Ghosts == [near : BOOLEAN, interrupted : BOOLEAN, worse : BOOLEAN, evicted : Failed]

CredentialTypes ==
    /\ Sandbox!TypeOK
    /\ users \in [Sandbox!Homes -> SecretFiles] /\ backups \subseteq SecretFiles
    /\ state \in Stored /\ run \in [Processes -> Coordinations]
    /\ failures \in [Sandbox!Roles -> [Sandbox!Versions -> Nat]]
    /\ setups \in 0 .. MaxSetups
    /\ ghost \in Ghosts
    /\ setup \in [at : {"none", "setting"}, home : Sandbox!Homes,
                  todo : SUBSET Sandbox!Roles, number : Nat, near : BOOLEAN]

\* A setup that runs has a number nobody has seen.
Seen(v) == v <= setups /\ (setup.at = "setting" => v < setups)
SeenStored(s) ==
    /\ \A r \in Sandbox!Roles : Seen(s.validated.times[r])
    /\ \A k \in s.known : Seen(k[2])
RunNumbered(p) ==
    /\ SeenStored(run[p].state)
    /\ \A r \in Sandbox!Roles : /\ Seen(run[p].times[r]) /\ run[p].file.records[r] <= setups
                               /\ run[p].current.records[r] <= setups
Numbered ==
    /\ setup.at = "setting" => setup.number = setups /\ (setup.near => ghost.near)
    /\ \A r \in Sandbox!Roles :
         /\ password[r] <= setups /\ setOn[r] <= setups
         /\ setup.at = "setting" /\ r \in setup.todo => password[r] < setups /\ setOn[r] < setups
         /\ \A h \in Sandbox!Homes : users[h].records[r] <= setups
         /\ \A f \in backups : f.records[r] <= setups
    /\ SeenStored(state)
    /\ \A p \in Processes : RunNumbered(p)

\* One process coordinates, and no setup runs while it holds the mutex.
RunExcluded(p) ==
    /\ run[p].at \notin {"idle", "locking"} => lock = p
    /\ run[p].at \in {"waiting", "holding"} => run[p].state = state
    /\ run[p].at \in {"holding", "writing", "checking", "rereading", "saving"} =>
         mutex = p /\ run[p].times = setOn
Excluded ==
    /\ mutex = "setup" <=> setup.at = "setting"
    /\ \A p \in Processes : RunExcluded(p)

\* What is remembered is true, as long as the passwords are of the same time.
TrueOf(s) ==
    /\ ~ghost.near /\ s.validated.is /\ s.validated.times = setOn =>
         \A r \in Sandbox!Roles : password[r] = s.validated.file.records[r]
    /\ \A k \in s.known : password[k[1]] # k[2]
Remembered == TrueOf(state) /\ \A p \in Processes : TrueOf(run[p].state)

\* What is about to be written works where it takes the place of what does.
RunImproves(p) ==
    /\ run[p].at \in {"checking", "rereading"} => run[p].op = "reconcile"
    /\ run[p].at \in {"writing", "checking", "rereading"} /\ run[p].op = "reconcile" =>
         \A r \in run[p].valid \cup run[p].roles : password[r] = run[p].file.records[r]
    /\ /\ run[p].at = "writing" /\ run[p].op = "reconcile"
       /\ users["cleo"].state = "checked"
       => \A r \in Sandbox!Roles : password[r] = users["cleo"].records[r] =>
            password[r] = run[p].file.records[r]
Improves == Sandbox!NeverWorse /\ \A p \in Processes : RunImproves(p)

\* A logon that failed is known, at least to the run that tried it, until it is
\* forgotten for a newer one.
Told(p) == run[p].at \in {"writing", "checking", "rereading", "saving"}
Reported(r, v) ==
    \/ <<r, v>> \in state.known
    \/ \E p \in Processes : Told(p) /\ <<r, v>> \in run[p].state.known
TriedOnce ==
    /\ \A p \in Processes : Told(p) => state.known \subseteq run[p].state.known \cup ghost.evicted
    /\ ~ghost.interrupted => \A r \in Sandbox!Roles, v \in Sandbox!Versions :
         <<r, v>> \notin ghost.evicted =>
           /\ failures[r][v] <= 1
           /\ failures[r][v] # 0 => Reported(r, v)

CredentialInv ==
    CredentialTypes /\ Numbered /\ Excluded /\ Remembered /\ Improves /\ TriedOnce

\* What the constants are taken to be.
CredentialValues ==
    MaxSetups \in Nat /\ MaxFaults \in Nat /\ Processes \cap {"free", "setup"} = {}

\* What a run begins with.
LEMMA Defaults ==
  ASSUME CredentialValues
  PROVE  /\ Sandbox!Blank \in Records /\ \A r \in Sandbox!Roles : Sandbox!Blank[r] = 0
         /\ Sandbox!Missing \in SecretFiles /\ Sandbox!Missing.records = Sandbox!Blank
         /\ Sandbox!Missing.state = "missing"
         /\ Sandbox!Nothing \in [is : BOOLEAN, file : SecretFiles, times : Records]
         /\ Sandbox!Nothing.is = FALSE /\ Sandbox!Nothing.times = Sandbox!Blank
         /\ [validated |-> Sandbox!Nothing, known |-> {}] \in Stored
         /\ Sandbox!Idle \in Coordinations /\ Sandbox!Idle.at = "idle"
         /\ Sandbox!Idle.state = [validated |-> Sandbox!Nothing, known |-> {}]
         /\ ~Sandbox!Idle.state.validated.is /\ Sandbox!Idle.state.known = {}
         /\ Sandbox!Idle.state.validated.times = Sandbox!Blank
         /\ Sandbox!Idle.times = Sandbox!Blank /\ Sandbox!Idle.file = Sandbox!Missing
         /\ Sandbox!Idle.current = Sandbox!Missing
  <1>1. Sandbox!Blank \in Records /\ \A r \in Sandbox!Roles : Sandbox!Blank[r] = 0
    BY DEF CredentialValues, Records, Sandbox!Blank, Sandbox!Versions
  <1>2. Sandbox!Missing \in SecretFiles /\ Sandbox!Missing.records = Sandbox!Blank
        /\ Sandbox!Missing.state = "missing"
    BY <1>1 DEF SecretFiles, Sandbox!Missing, Sandbox!File
  <1>4. /\ Sandbox!Nothing \in [is : BOOLEAN, file : SecretFiles, times : Records]
        /\ Sandbox!Nothing.is = FALSE /\ Sandbox!Nothing.times = Sandbox!Blank
    BY <1>1, <1>2 DEF Sandbox!Nothing
  <1>5. PICK s \in Stored : s = [validated |-> Sandbox!Nothing, known |-> {}]
    BY <1>4 DEF Stored
  <1>6. /\ Sandbox!Idle \in Coordinations /\ Sandbox!Idle.at = "idle" /\ Sandbox!Idle.state = s
        /\ Sandbox!Idle.times = Sandbox!Blank /\ Sandbox!Idle.file = Sandbox!Missing
        /\ Sandbox!Idle.current = Sandbox!Missing
    BY <1>1, <1>2, <1>5 DEF Coordinations, Sandbox!Idle
  <1>7. s.validated.is = FALSE /\ s.validated.times = Sandbox!Blank /\ s.known = {}
    BY <1>4, <1>5
  <1> QED
    BY <1>1, <1>2, <1>4, <1>5, <1>6, <1>7

\* The invariant holds at the start: nothing was validated and nothing tried.
LEMMA CredentialInit == CredentialValues /\ Sandbox!Init => CredentialInv
  <1> SUFFICES ASSUME CredentialValues, Sandbox!Init
               PROVE  CredentialInv
    OBVIOUS
  <1>1. /\ Sandbox!Blank \in Records /\ \A r \in Sandbox!Roles : Sandbox!Blank[r] = 0
        /\ Sandbox!Missing \in SecretFiles /\ Sandbox!Missing.records = Sandbox!Blank
        /\ Sandbox!Idle \in Coordinations /\ Sandbox!Idle.at = "idle"
        /\ Sandbox!Idle.times = Sandbox!Blank /\ Sandbox!Idle.file = Sandbox!Missing
        /\ Sandbox!Idle.current = Sandbox!Missing
    BY Defaults
  <1>2. users \in [Sandbox!Homes -> SecretFiles]
        /\ \A h \in Sandbox!Homes : users[h].records = Sandbox!Blank
    BY <1>1 DEF Sandbox!Init, SecretFiles, Sandbox!File
  <1>3. PICK s \in Stored : /\ s = [validated |-> Sandbox!Nothing, known |-> {}]
                            /\ s.validated.is = FALSE /\ s.validated.times = Sandbox!Blank
                            /\ s.known = {} /\ Sandbox!Idle.state = s
    BY Defaults
  <1>4. CredentialTypes
    <2>1. Sandbox!NoSetup \in [at : {"none", "setting"}, home : Sandbox!Homes,
                               todo : SUBSET Sandbox!Roles, number : Nat, near : BOOLEAN]
      BY DEF Sandbox!NoSetup, Sandbox!Homes
    <2>2. /\ setups = 0 /\ 0 \in 0 .. MaxSetups /\ 0 \in 0 .. MaxFaults /\ 0 \in Nat
      BY DEF CredentialValues, Sandbox!Init
    <2>3. failures \in [Sandbox!Roles -> [Sandbox!Versions -> Nat]]
      BY DEF Sandbox!Init
    <2>5. ghost \in Ghosts /\ ghost.evicted = {}
      BY DEF Sandbox!Init, Ghosts, Failed
    <2>4. Sandbox!TypeOK
      BY <1>1, <1>3, <2>2, <2>5 DEF Sandbox!Init, Sandbox!TypeOK, Records, Sandbox!Free
    <2> QED
      BY <1>1, <1>2, <1>3, <2>1, <2>2, <2>3, <2>4, <2>5 DEF Sandbox!Init, CredentialTypes
  <1>5. setup.at = "none" /\ setups = 0
    BY DEF Sandbox!Init, Sandbox!NoSetup
  <1>6. \A p \in Processes : run[p] = Sandbox!Idle
    BY DEF Sandbox!Init
  <1>7. Numbered
    BY <1>1, <1>2, <1>3, <1>5, <1>6
    DEF Sandbox!Init, Numbered, RunNumbered, Seen, SeenStored
  <1>8. Excluded
    BY <1>1, <1>5, <1>6 DEF Sandbox!Init, Excluded, RunExcluded, Sandbox!Free
  <1>9. Remembered
    BY <1>3, <1>6 DEF Sandbox!Init, Remembered, TrueOf
  <1>10. Improves
    BY <1>1, <1>6 DEF Sandbox!Init, Improves, RunImproves, Sandbox!NeverWorse
  <1>11. TriedOnce
    BY <1>1, <1>3, <1>6 DEF Sandbox!Init, TriedOnce, Told
  <1> QED
    BY <1>4, <1>7, <1>8, <1>9, <1>10, <1>11 DEF CredentialInv

\* A process that is past the lock is the only one.
LEMMA Alone ==
  ASSUME CredentialInv, NEW p \in Processes, NEW q \in Processes, q # p,
         run[p].at \notin {"idle", "locking"}
  PROVE  run[q].at \in {"idle", "locking"}
  BY DEF CredentialInv, Excluded, RunExcluded

\* A process that has not come past the lock is not touched by what others do.
LEMMA RunAside ==
  ASSUME CredentialInv, NEW q \in Processes, run[q].at \in {"idle", "locking"},
         run'[q] = run[q], UNCHANGED Sandbox!machine, ghost'.near = ghost.near
  PROVE  /\ RunNumbered(q)' /\ RunExcluded(q)' /\ TrueOf(run[q].state)' /\ RunImproves(q)'
         /\ ~Told(q)' /\ ~Told(q)
  <1>1. UNCHANGED <<password, setOn, setup, setups>>
    BY DEF Sandbox!machine
  <1> QED
    BY <1>1 DEF CredentialInv, Numbered, RunNumbered, SeenStored, Seen, RunExcluded, Remembered,
       TrueOf, RunImproves, Told

\* A step of the process that is past the lock.
LEMMA OneRuns ==
  ASSUME CredentialInv, NEW p \in Processes, NEW c \in Coordinations,
         run' = [run EXCEPT ![p] = c]
  PROVE  /\ run' \in [Processes -> Coordinations] /\ run'[p] = c
         /\ \A q \in Processes : q # p => run'[q] = run[q]
  BY DEF CredentialInv, CredentialTypes

\* Codex deletes a file it could not log on with.
LEMMA CredentialCodexDeletesKeeps ==
  ASSUME CredentialValues, CredentialInv, Sandbox!CodexDeletes
  PROVE  CredentialInv'
  <1> USE DEF CredentialInv
  <1>1. /\ users' = [users EXCEPT !["cleo"] = Sandbox!Missing] /\ denied' = TRUE
        /\ UNCHANGED <<password, setOn, setup, setups, mutex, lock, state, backups, run, runs,
                       failures, ghost, faults>>
    BY DEF Sandbox!CodexDeletes, Sandbox!machine
  <1>2. /\ users' \in [Sandbox!Homes -> SecretFiles]
        /\ \A h \in Sandbox!Homes : users'[h] \in {users[h], Sandbox!Missing}
        /\ users'["cleo"] = Sandbox!Missing
    BY <1>1, Defaults DEF CredentialTypes, Sandbox!Homes
  <1>3. CredentialTypes'
    BY <1>1, <1>2 DEF CredentialTypes, Sandbox!TypeOK
  <1>4. Numbered'
    BY <1>1, <1>2, Defaults DEF CredentialTypes, Numbered, RunNumbered, SeenStored, Seen
  <1>5. Excluded' /\ Remembered'
    BY <1>1 DEF Excluded, RunExcluded, Remembered, TrueOf
  <1>6. Improves'
    BY <1>1, <1>2, Defaults DEF Improves, RunImproves, Sandbox!NeverWorse
  <1>7. TriedOnce'
    BY <1>1 DEF TriedOnce, Told, Reported
  <1> QED
    BY <1>3, <1>4, <1>5, <1>6, <1>7

\* While a setup has the mutex, no process is past it.
LEMMA NoneHolds ==
  ASSUME CredentialValues, CredentialInv, mutex \in {"free", "setup"}, NEW p \in Processes
  PROVE  run[p].at \in {"idle", "locking", "looking", "waiting"}
  <1>1. run[p].at \in {"idle", "locking", "looking", "waiting", "holding", "writing",
                       "checking", "rereading", "saving"}
    BY DEF CredentialInv, CredentialTypes, Coordinations
  <1> QED
    BY <1>1 DEF CredentialInv, CredentialValues, Excluded, RunExcluded

\* A setup takes the mutex, and a number nobody has seen.
LEMMA CredentialSetupBeginsKeeps ==
  ASSUME CredentialValues, CredentialInv, NEW h \in Sandbox!Homes, Sandbox!SetupBegins(h)
  PROVE  CredentialInv'
  <1> USE DEF CredentialInv
  <1>1. PICK near \in BOOLEAN :
          /\ setup' = [at |-> "setting", home |-> h, todo |-> Sandbox!Roles,
                       number |-> setups + 1, near |-> near]
          /\ IF near THEN faults < MaxFaults /\ faults' = faults + 1
                          /\ ghost' = [ghost EXCEPT !.near = TRUE]
             ELSE UNCHANGED <<ghost, faults>>
    BY DEF Sandbox!SetupBegins, Sandbox!Fault
  <1>2. /\ mutex = "free" /\ mutex' = "setup" /\ setups < MaxSetups /\ setups' = setups + 1
        /\ UNCHANGED <<password, setOn, users, denied, lock, state, backups, run, runs, failures>>
    BY DEF Sandbox!SetupBegins, Sandbox!Free
  <1>3. /\ ghost' \in Ghosts
        /\ near => ghost'.near
        /\ ghost.near => ghost'.near
        /\ ghost'.interrupted = ghost.interrupted /\ ghost'.worse = ghost.worse
        /\ ghost'.evicted = ghost.evicted
    <2>1. /\ ghost = [near |-> ghost.near, interrupted |-> ghost.interrupted,
                      worse |-> ghost.worse, evicted |-> ghost.evicted]
          /\ ghost \in Ghosts
      BY DEF CredentialTypes, Ghosts
    <2>2. CASE ~near
      BY <1>1, <2>1, <2>2
    <2>3. CASE near
      <3>1. ghost' = [ghost EXCEPT !.near = TRUE]
        BY <1>1, <2>3
      <3> QED
        BY <2>1, <2>3, <3>1 DEF Ghosts
    <2> QED
      BY <2>2, <2>3
  <1>4. /\ setups \in Nat /\ setups' \in 0 .. MaxSetups /\ faults' \in 0 .. MaxFaults
        /\ setups + 1 \in Nat
    BY <1>1, <1>2 DEF CredentialTypes, CredentialValues, Sandbox!TypeOK
  <1>5. CredentialTypes'
    BY <1>1, <1>2, <1>3, <1>4 DEF CredentialTypes, Sandbox!TypeOK, Sandbox!Free
  <1>6. \A v \in Nat : v <= setups => Seen(v)' /\ v <= setups' /\ v < setups'
    BY <1>1, <1>2, <1>4 DEF Seen
  <1>7. /\ password \in Records /\ setOn \in Records
        /\ users \in [Sandbox!Homes -> SecretFiles] /\ backups \subseteq SecretFiles
        /\ state \in Stored /\ run \in [Processes -> Coordinations]
    BY DEF CredentialTypes, Sandbox!TypeOK, Records
  <1>8. /\ \A f \in SecretFiles, r \in Sandbox!Roles : f.records[r] \in Nat
        /\ \A s \in Stored : /\ \A r \in Sandbox!Roles : s.validated.times[r] \in Nat
                             /\ \A k \in s.known : k[2] \in Nat
        /\ \A f \in Records, r \in Sandbox!Roles : f[r] \in Nat
    BY DEF SecretFiles, Stored, Records, Sandbox!Versions, CredentialValues
  <1>9. \A s \in Stored : SeenStored(s) => SeenStored(s)'
    BY <1>6, <1>8 DEF SeenStored, Seen
  <1>10. ASSUME NEW p \in Processes
         PROVE  RunNumbered(p)'
    <2>1. /\ run[p].state \in Stored /\ run[p].file \in SecretFiles /\ run[p].times \in Records
          /\ run[p].current \in SecretFiles
      BY <1>7 DEF Coordinations
    <2> QED
      BY <1>2, <1>6, <1>8, <1>9, <2>1 DEF Numbered, RunNumbered, Seen
  <1>11. Numbered'
    BY <1>1, <1>2, <1>3, <1>6, <1>7, <1>8, <1>9, <1>10 DEF Numbered
  <1>12. \A p \in Processes : run[p].at \in {"idle", "locking", "looking", "waiting"}
    BY <1>2, NoneHolds
  <1>13. Excluded'
    BY <1>1, <1>2, <1>12 DEF Excluded, RunExcluded
  <1>14. Remembered'
    BY <1>2, <1>3 DEF Remembered, TrueOf
  <1>15. Improves'
    BY <1>2, <1>3, <1>12 DEF Improves, RunImproves, Sandbox!NeverWorse
  <1>16. TriedOnce'
    BY <1>2, <1>3 DEF TriedOnce, Told, Reported
  <1> QED
    BY <1>5, <1>11, <1>13, <1>14, <1>15, <1>16

\* A new password makes no record work that was known to fail.
LEMMA CredentialSetsPasswordKeeps ==
  ASSUME CredentialValues, CredentialInv, NEW r \in Sandbox!Roles, Sandbox!SetsPassword(r)
  PROVE  CredentialInv'
  <1> USE DEF CredentialInv
  <1>1. /\ setup.at = "setting" /\ r \in setup.todo /\ setup.number = setups
        /\ setup.near => ghost.near
        /\ password' = [password EXCEPT ![r] = setups]
        /\ setup' = [setup EXCEPT !.todo = @ \ {r}]
        /\ setOn' = IF setup.near THEN setOn ELSE [setOn EXCEPT ![r] = setups]
        /\ UNCHANGED <<users, denied, setups, mutex, lock, state, backups, run, runs, failures,
                       ghost, faults>>
    BY DEF Sandbox!SetsPassword, Numbered
  <1>2. setups \in Nat /\ setups \in Sandbox!Versions
    BY DEF CredentialTypes, CredentialValues, Sandbox!Versions
  <1>3. /\ password' \in Records /\ setOn' \in Records
        /\ \A q \in Sandbox!Roles : /\ password'[q] = IF q = r THEN setups ELSE password[q]
                                    /\ setOn'[q] \in {setOn[q], setups}
                                    /\ q # r => setOn'[q] = setOn[q]
        /\ ~ghost.near => setOn'[r] = setups
    BY <1>1, <1>2 DEF CredentialTypes, Sandbox!TypeOK, Records
  <1>4. /\ setup' \in [at : {"none", "setting"}, home : Sandbox!Homes,
                       todo : SUBSET Sandbox!Roles, number : Nat, near : BOOLEAN]
        /\ setup'.at = "setting" /\ setup'.todo = setup.todo \ {r}
        /\ setup'.number = setups /\ setup'.near = setup.near
    BY <1>1 DEF CredentialTypes
  <1>5. CredentialTypes'
    BY <1>1, <1>3, <1>4 DEF CredentialTypes, Sandbox!TypeOK, Records
  <1>6. \A v : Seen(v)' = Seen(v)
    BY <1>1, <1>4 DEF Seen
  <1>7. Numbered'
    BY <1>1, <1>2, <1>3, <1>4, <1>6 DEF Numbered, RunNumbered, SeenStored
  <1>8. /\ mutex = "setup"
        /\ \A p \in Processes : run[p].at \in {"idle", "locking", "looking", "waiting"}
    BY <1>1, NoneHolds DEF Excluded
  <1>9. Excluded'
    BY <1>1, <1>4, <1>8 DEF Excluded, RunExcluded
  <1>10. ASSUME NEW s \in Stored, SeenStored(s), TrueOf(s)
         PROVE  TrueOf(s)'
    <2>1. s.validated.times[r] < setups /\ s.validated.times[r] \in Nat
      BY <1>1, <1>10 DEF SeenStored, Seen, Stored, Records, Sandbox!Versions, CredentialValues
    <2>2. ~ghost.near => s.validated.times # setOn'
      BY <1>2, <1>3, <2>1
    <2>3. ASSUME NEW k \in s.known
          PROVE  password'[k[1]] # k[2]
      <3>1. k[1] \in Sandbox!Roles /\ k[2] \in Nat /\ k[2] < setups
        BY <1>1, <1>10 DEF SeenStored, Seen, Stored, Sandbox!Versions, CredentialValues
      <3> QED
        BY <1>2, <1>3, <1>10, <3>1 DEF TrueOf
    <2> QED
      BY <1>1, <2>2, <2>3 DEF TrueOf
  <1>11. Remembered'
    <2>1. state \in Stored /\ \A p \in Processes : run[p].state \in Stored
      BY DEF CredentialTypes, Coordinations
    <2> QED
      BY <1>1, <1>10, <2>1 DEF Remembered, Numbered, RunNumbered
  <1>12. Improves'
    BY <1>1, <1>8 DEF Improves, RunImproves, Sandbox!NeverWorse
  <1>13. TriedOnce'
    BY <1>1 DEF TriedOnce, Told, Reported
  <1> QED
    BY <1>5, <1>7, <1>9, <1>11, <1>12, <1>13

\* A setup writes the file of its home, or dies before.
LEMMA CredentialSetupEndsKeeps ==
  ASSUME CredentialValues, CredentialInv, Sandbox!SetupEnds
  PROVE  CredentialInv'
  <1> USE DEF CredentialInv
  <1>1. /\ setup.at = "setting" /\ setup.number = setups
        /\ mutex' = "free" /\ setup' = Sandbox!NoSetup
        /\ UNCHANGED <<password, setOn, setups, lock, state, backups, run, runs, failures, ghost>>
    BY DEF Sandbox!SetupEnds, Numbered, Sandbox!Free
  <1>2. /\ setups \in Nat /\ setups \in Sandbox!Versions /\ setup.home \in Sandbox!Homes
        /\ faults' \in 0 .. MaxFaults
    <2>1. setups \in Nat /\ setups \in Sandbox!Versions /\ setup.home \in Sandbox!Homes
      BY DEF CredentialTypes, CredentialValues, Sandbox!Versions
    <2>2. faults \in 0 .. MaxFaults /\ MaxFaults \in Nat
      BY DEF CredentialTypes, CredentialValues, Sandbox!TypeOK
    <2>3. faults' = faults \/ (faults < MaxFaults /\ faults' = faults + 1)
      BY DEF Sandbox!SetupEnds, Sandbox!Fault
    <2> QED
      BY <2>1, <2>2, <2>3
  <1>3. PICK f \in SecretFiles :
          /\ f = Sandbox!File("checked", [r \in Sandbox!Roles |-> setup.number])
          /\ \A r \in Sandbox!Roles : f.records[r] = setups
    <2>1. PICK c \in Records : /\ c = [r \in Sandbox!Roles |-> setup.number]
                               /\ \A r \in Sandbox!Roles : c[r] = setups
      <3>1. [r \in Sandbox!Roles |-> setup.number] \in Records
        BY <1>1, <1>2 DEF Records
      <3>2. \A r \in Sandbox!Roles : [q \in Sandbox!Roles |-> setup.number][r] = setups
        BY <1>1
      <3> QED
        BY <3>1, <3>2
    <2>2. PICK f : f = [state |-> "checked", records |-> c]
      OBVIOUS
    <2>3. f \in SecretFiles /\ f.records = c
      BY <2>2 DEF SecretFiles
    <2> QED
      BY <2>1, <2>2, <2>3 DEF Sandbox!File
  <1>4. users' = users \/ users' = [users EXCEPT ![setup.home] = f]
    BY <1>3 DEF Sandbox!SetupEnds
  <1>5. users' \in [Sandbox!Homes -> SecretFiles]
        /\ \A h \in Sandbox!Homes : users'[h] \in {users[h], f}
    BY <1>2, <1>4 DEF CredentialTypes
  <1>6. /\ setup' \in [at : {"none", "setting"}, home : Sandbox!Homes,
                       todo : SUBSET Sandbox!Roles, number : Nat, near : BOOLEAN]
        /\ setup'.at = "none"
    BY <1>1 DEF Sandbox!NoSetup, Sandbox!Homes
  <1>7. CredentialTypes'
    BY <1>1, <1>2, <1>5, <1>6 DEF CredentialTypes, Sandbox!TypeOK, Sandbox!Free
  <1>8. Numbered'
    BY <1>1, <1>2, <1>3, <1>5, <1>6 DEF Numbered, RunNumbered, SeenStored, Seen
  <1>9. \A p \in Processes : run[p].at \in {"idle", "locking", "looking", "waiting"}
    BY <1>1, NoneHolds DEF Excluded
  <1>10. Excluded'
    BY <1>1, <1>6, <1>9 DEF Excluded, RunExcluded
  <1>11. Remembered'
    BY <1>1 DEF Remembered, TrueOf
  <1>12. Improves'
    BY <1>1, <1>9 DEF Improves, RunImproves, Sandbox!NeverWorse
  <1>13. TriedOnce'
    BY <1>1 DEF TriedOnce, Told, Reported
  <1> QED
    BY <1>7, <1>8, <1>10, <1>11, <1>12, <1>13

\* What a step of the process that is past the lock has to see to.
LEMMA CredentialStepKeeps ==
  ASSUME CredentialInv, NEW p \in Processes, run[p].at \notin {"idle", "locking"},
         UNCHANGED Sandbox!machine, ghost'.near = ghost.near,
         \A q \in Processes : q # p => run'[q] = run[q],
         CredentialTypes', mutex' = "setup" <=> mutex = "setup",
         \A r \in Sandbox!Roles : /\ \A h \in Sandbox!Homes : users'[h].records[r] <= setups
                                  /\ \A f \in backups' : f.records[r] <= setups,
         SeenStored(state)', TrueOf(state)', Sandbox!NeverWorse',
         RunNumbered(p)', RunExcluded(p)', TrueOf(run[p].state)', RunImproves(p)',
         Told(p)' => state'.known \subseteq run'[p].state.known \cup ghost'.evicted,
         ~ghost'.interrupted => \A r \in Sandbox!Roles, v \in Sandbox!Versions :
           <<r, v>> \notin ghost'.evicted =>
             /\ failures'[r][v] <= 1
             /\ failures'[r][v] # 0 => \/ <<r, v>> \in state'.known
                                       \/ Told(p)' /\ <<r, v>> \in run'[p].state.known
  PROVE  CredentialInv'
  <1>1. UNCHANGED <<password, setOn, setup, setups>>
    BY DEF Sandbox!machine
  <1>2. ASSUME NEW q \in Processes
        PROVE  /\ RunNumbered(q)' /\ RunExcluded(q)' /\ TrueOf(run[q].state)' /\ RunImproves(q)'
               /\ Told(q)' => state'.known \subseteq run'[q].state.known \cup ghost'.evicted
    <2>1. CASE q = p
      BY <2>1
    <2>2. CASE q # p
      BY <2>2, Alone, RunAside
    <2> QED
      BY <2>1, <2>2
  <1>3. Numbered'
    BY <1>1, <1>2 DEF CredentialInv, Numbered
  <1>4. Excluded'
    BY <1>1, <1>2 DEF CredentialInv, Excluded
  <1>5. Remembered' /\ Improves'
    BY <1>2 DEF Remembered, Improves
  <1>6. TriedOnce'
    BY <1>2 DEF TriedOnce, Reported
  <1> QED
    BY <1>3, <1>4, <1>5, <1>6 DEF CredentialInv

\* What the process that is past the lock knows of the logons that failed.
LEMMA FailuresKnown ==
  ASSUME CredentialInv, NEW p \in Processes, run[p].at \notin {"idle", "locking"},
         ~ghost.interrupted, NEW r \in Sandbox!Roles, NEW v \in Sandbox!Versions,
         <<r, v>> \notin ghost.evicted
  PROVE  /\ failures[r][v] <= 1
         /\ failures[r][v] # 0 => \/ <<r, v>> \in state.known
                                  \/ Told(p) /\ <<r, v>> \in run[p].state.known
  BY Alone DEF CredentialInv, TriedOnce, Reported, Told

\* A run that has looked at nothing.
LEMMA AtRest ==
  ASSUME CredentialValues, CredentialInv, NEW p \in Processes, UNCHANGED <<setups, setup>>,
         run'[p].state = Sandbox!Idle.state, run'[p].times = Sandbox!Blank,
         run'[p].file = Sandbox!Missing, run'[p].current = Sandbox!Missing
  PROVE  RunNumbered(p)' /\ TrueOf(run[p].state)'
  <1>1. setups \in Nat /\ (setup.at = "setting" => 0 < setups)
    <2>1. setups \in Nat
      BY DEF CredentialInv, CredentialTypes, CredentialValues
    <2>2. setup.at = "setting" => \A r \in Sandbox!Roles : Seen(state.validated.times[r])
      BY DEF CredentialInv, Numbered, SeenStored
    <2>3. \A r \in Sandbox!Roles : state.validated.times[r] \in Nat
      BY DEF CredentialInv, CredentialTypes, Stored, Records, Sandbox!Versions, CredentialValues
    <2>4. "offline" \in Sandbox!Roles
      BY DEF Sandbox!Roles
    <2> QED
      BY <2>1, <2>2, <2>3, <2>4 DEF Seen
  <1>2. Seen(0)'
    BY <1>1 DEF Seen
  <1>3. /\ ~run'[p].state.validated.is /\ run'[p].state.known = {}
        /\ \A r \in Sandbox!Roles : /\ run'[p].state.validated.times[r] = 0 /\ run'[p].times[r] = 0
                                     /\ run'[p].file.records[r] = 0
                                     /\ run'[p].current.records[r] = 0
    BY Defaults
  <1>4. RunNumbered(p)'
    BY <1>1, <1>2, <1>3 DEF RunNumbered, SeenStored
  <1>5. TrueOf(run[p].state)'
    BY <1>3 DEF TrueOf
  <1> QED
    BY <1>4, <1>5

\* A process that leaves holds nothing.
LEMMA Leaves ==
  ASSUME CredentialValues, CredentialInv, NEW p \in Processes, Sandbox!Leave(p),
         UNCHANGED <<setups, setup>>
  PROVE  /\ run' \in [Processes -> Coordinations]
         /\ \A q \in Processes : q # p => run'[q] = run[q]
         /\ run'[p].at = "idle" /\ ~Told(p)'
         /\ lock' \in Processes \cup {"free"} /\ mutex' \in Processes \cup {"free", "setup"}
         /\ \A q \in Processes : q # p => (lock = q => lock' = q) /\ (mutex = q => mutex' = q)
         /\ mutex' = "setup" <=> mutex = "setup"
         /\ RunNumbered(p)' /\ RunExcluded(p)' /\ TrueOf(run[p].state)' /\ RunImproves(p)'
  <1>1. /\ run' = [run EXCEPT ![p] = Sandbox!Idle]
        /\ lock' = IF lock = p THEN "free" ELSE lock
        /\ mutex' = IF mutex = p THEN "free" ELSE mutex
    BY DEF Sandbox!Leave, Sandbox!Free
  <1>2. /\ run' \in [Processes -> Coordinations] /\ run'[p] = Sandbox!Idle
        /\ \A q \in Processes : q # p => run'[q] = run[q]
    BY <1>1, Defaults, OneRuns
  <1>3. /\ lock' \in Processes \cup {"free"} /\ mutex' \in Processes \cup {"free", "setup"}
        /\ mutex' = "setup" <=> mutex = "setup"
        /\ \A q \in Processes : q # p => (lock = q => lock' = q) /\ (mutex = q => mutex' = q)
    BY <1>1 DEF CredentialInv, CredentialTypes, Sandbox!TypeOK, Sandbox!Free, CredentialValues
  <1>5. RunNumbered(p)' /\ TrueOf(run[p].state)'
    BY <1>2, Defaults, AtRest
  <1>6. RunExcluded(p)' /\ RunImproves(p)' /\ ~Told(p)'
    BY <1>2, Defaults DEF RunExcluded, RunImproves, Told
  <1> QED
    BY <1>2, <1>3, <1>5, <1>6, Defaults

\* What is nowhere but in the run that begins stays as it was.
LEMMA CredentialBeginKeeps ==
  ASSUME CredentialValues, CredentialInv, NEW p \in Processes,
         NEW o \in {"reconcile", "restore"}, Sandbox!Begin(p, o)
  PROVE  CredentialInv'
  <1> USE DEF CredentialInv
  <1>1. PICK c \in Coordinations :
          /\ run' = [run EXCEPT ![p] = c] /\ c.at = "locking"
          /\ c.state = Sandbox!Idle.state /\ c.times = Sandbox!Blank /\ c.file = Sandbox!Missing
          /\ c.current = Sandbox!Missing
    <2>1. PICK c : c = [Sandbox!Idle EXCEPT !.at = "locking", !.op = o]
      OBVIOUS
    <2>2. c \in Coordinations /\ c.at = "locking" /\ c.state = Sandbox!Idle.state
          /\ c.times = Sandbox!Blank /\ c.file = Sandbox!Missing /\ c.current = Sandbox!Missing
      BY <2>1, Defaults DEF Coordinations
    <2> QED
      BY <2>1, <2>2 DEF Sandbox!Begin
  <1>2. /\ run[p].at = "idle"
        /\ UNCHANGED <<password, setOn, setup, setups, users, denied, mutex, lock, state, backups,
                       failures, ghost, faults>>
    BY DEF Sandbox!Begin, Sandbox!machine
  <1>3. /\ run' \in [Processes -> Coordinations] /\ run'[p] = c
        /\ \A q \in Processes : q # p => run'[q] = run[q]
    BY <1>1, OneRuns
  <1>4. CredentialTypes'
    BY <1>2, <1>3 DEF CredentialTypes, Sandbox!TypeOK
  <1>6. ASSUME NEW q \in Processes
        PROVE  RunNumbered(q)' /\ RunExcluded(q)' /\ TrueOf(run[q].state)' /\ RunImproves(q)'
               /\ (Told(q)' <=> Told(q)) /\ (Told(q) => run'[q] = run[q])
    <2>1. CASE q = p
      <3>1. RunNumbered(p)' /\ TrueOf(run[p].state)'
        BY <1>1, <1>2, <1>3, AtRest
      <3>2. RunExcluded(p)' /\ RunImproves(p)' /\ ~Told(p)' /\ ~Told(p)
        BY <1>1, <1>2, <1>3 DEF RunExcluded, RunImproves, Told
      <3> QED
        BY <2>1, <3>1, <3>2
    <2>2. CASE q # p
      BY <1>2, <1>3, <2>2
      DEF Numbered, RunNumbered, SeenStored, Seen, Excluded, RunExcluded, Remembered, TrueOf,
          Improves, RunImproves, Told
    <2> QED
      BY <2>1, <2>2
  <1>7. Numbered'
    BY <1>2, <1>6 DEF Numbered, SeenStored, Seen
  <1>8. Excluded' /\ Improves'
    BY <1>2, <1>6 DEF Excluded, Improves, Sandbox!NeverWorse
  <1>9. Remembered'
    BY <1>2, <1>6 DEF Remembered, TrueOf
  <1>10. TriedOnce'
    BY <1>2, <1>6 DEF TriedOnce, Reported
  <1> QED
    BY <1>4, <1>7, <1>8, <1>9, <1>10

\* A process that gives up before it has tried a record.
LEMMA GivesUp ==
  ASSUME CredentialValues, CredentialInv, NEW p \in Processes, Sandbox!Leave(p), ~Told(p),
         UNCHANGED <<password, setOn, setup, setups, users, denied, state, backups, failures,
                     ghost, faults>>
  PROVE  CredentialInv'
  <1> USE DEF CredentialInv
  <1>1. /\ run' \in [Processes -> Coordinations]
        /\ \A q \in Processes : q # p => run'[q] = run[q]
        /\ ~Told(p)'
        /\ lock' \in Processes \cup {"free"} /\ mutex' \in Processes \cup {"free", "setup"}
        /\ \A q \in Processes : q # p => (lock = q => lock' = q) /\ (mutex = q => mutex' = q)
        /\ mutex' = "setup" <=> mutex = "setup"
        /\ RunNumbered(p)' /\ RunExcluded(p)' /\ TrueOf(run[p].state)' /\ RunImproves(p)'
    BY Leaves
  <1>2. CredentialTypes'
    BY <1>1 DEF CredentialTypes, Sandbox!TypeOK, Sandbox!Free
  <1>3. ASSUME NEW q \in Processes, q # p
        PROVE  RunNumbered(q)' /\ RunExcluded(q)' /\ TrueOf(run[q].state)' /\ RunImproves(q)'
               /\ (Told(q)' <=> Told(q)) /\ run'[q] = run[q]
    <2>1. run'[q] = run[q] /\ (lock = q => lock' = q) /\ (mutex = q => mutex' = q)
      BY <1>1, <1>3
    <2>2. RunNumbered(q)' /\ (Told(q)' <=> Told(q))
      BY <2>1 DEF Numbered, RunNumbered, SeenStored, Seen, Told
    <2>3. RunExcluded(q)'
      BY <2>1 DEF Excluded, RunExcluded
    <2>4. TrueOf(run[q].state)' /\ RunImproves(q)'
      BY <2>1 DEF Remembered, TrueOf, Improves, RunImproves
    <2> QED
      BY <2>1, <2>2, <2>3, <2>4
  <1>4. Numbered'
    BY <1>1, <1>3 DEF Numbered, SeenStored, Seen
  <1>5. Excluded' /\ Improves'
    BY <1>1, <1>3 DEF Excluded, Improves, Sandbox!NeverWorse
  <1>6. Remembered'
    BY <1>1, <1>3 DEF Remembered, TrueOf
  <1>7. TriedOnce'
    BY <1>1, <1>3 DEF TriedOnce, Reported
  <1> QED
    BY <1>2, <1>4, <1>5, <1>6, <1>7

\* One process takes the lock of the coordinator; the others are deferred.
LEMMA CredentialTakeLockKeeps ==
  ASSUME CredentialValues, CredentialInv, NEW p \in Processes, Sandbox!TakeLock(p)
  PROVE  CredentialInv'
  <1> USE DEF CredentialInv
  <1>1. /\ run[p].at = "locking"
        /\ UNCHANGED <<password, setOn, setup, setups, users, denied, state, backups, failures,
                       ghost, faults>>
    BY DEF Sandbox!TakeLock, Sandbox!machine
  <1>2. CASE lock # "free"
    <2>1. Sandbox!Leave(p) /\ ~Told(p)
      BY <1>1, <1>2 DEF Sandbox!TakeLock, Told, Sandbox!Free
    <2> QED
      BY <1>1, <2>1, GivesUp
  <1>3. CASE lock = "free"
    <2>1. lock' = p /\ mutex' = mutex
          /\ run' = [run EXCEPT ![p] = [run[p] EXCEPT !.at = "looking"]]
      BY <1>3 DEF Sandbox!TakeLock, Sandbox!Free
    <2>2. PICK c \in Coordinations :
            /\ run' = [run EXCEPT ![p] = c] /\ c.at = "looking"
            /\ c.state = run[p].state /\ c.times = run[p].times /\ c.file = run[p].file
            /\ c.current = run[p].current
      <3>1. PICK c : c = [run[p] EXCEPT !.at = "looking"]
        OBVIOUS
      <3>2. run[p] \in Coordinations
        BY DEF CredentialTypes
      <3>3. c \in Coordinations /\ c.at = "looking"
            /\ c.state = run[p].state /\ c.times = run[p].times /\ c.file = run[p].file
            /\ c.current = run[p].current
        BY <3>1, <3>2 DEF Coordinations
      <3>4. run' = [run EXCEPT ![p] = c]
        BY <2>1, <3>1 DEF CredentialTypes
      <3> QED
        BY <3>3, <3>4
    <2>3. /\ run' \in [Processes -> Coordinations] /\ run'[p] = c
          /\ \A q \in Processes : q # p => run'[q] = run[q]
      BY <2>2, OneRuns
    <2>4. CredentialTypes'
      BY <1>1, <2>1, <2>3 DEF CredentialTypes, Sandbox!TypeOK
    <2>5. \A q \in Processes : run[q].at \in {"idle", "locking"}
      BY <1>3 DEF Excluded, RunExcluded, CredentialValues
    <2>6. ASSUME NEW q \in Processes
          PROVE  RunNumbered(q)' /\ RunExcluded(q)' /\ TrueOf(run[q].state)' /\ RunImproves(q)'
                 /\ ~Told(q) /\ ~Told(q)'
      <3>1. /\ run'[q].state = run[q].state /\ run'[q].times = run[q].times
            /\ run'[q].file = run[q].file /\ run'[q].current = run[q].current
            /\ run'[q].at \in {"idle", "locking", "looking"}
            /\ run'[q].at = "looking" => q = p
        BY <2>2, <2>3, <2>5
      <3>2. RunNumbered(q)'
        BY <1>1, <3>1 DEF Numbered, RunNumbered, SeenStored, Seen
      <3>3. RunExcluded(q)' /\ RunImproves(q)' /\ ~Told(q)' /\ ~Told(q)
        BY <2>1, <2>5, <3>1 DEF RunExcluded, RunImproves, Told
      <3>4. TrueOf(run[q].state)'
        BY <1>1, <3>1 DEF Remembered, TrueOf
      <3> QED
        BY <3>2, <3>3, <3>4
    <2>7. Numbered'
      BY <1>1, <2>6 DEF Numbered, SeenStored, Seen
    <2>8. Excluded' /\ Improves'
      BY <1>1, <2>1, <2>6 DEF Excluded, Improves, Sandbox!NeverWorse
    <2>9. Remembered'
      BY <1>1, <2>6 DEF Remembered, TrueOf
    <2>10. TriedOnce'
      BY <1>1, <2>6 DEF TriedOnce, Reported
    <2> QED
      BY <2>4, <2>7, <2>8, <2>9, <2>10
  <1> QED
    BY <1>2, <1>3

\* A run that finds what was validated unchanged looks no further.
LEMMA CredentialLookKeeps ==
  ASSUME CredentialValues, CredentialInv, NEW p \in Processes, Sandbox!Look(p)
  PROVE  CredentialInv'
  <1> USE DEF CredentialInv
  <1>1. /\ run[p].at = "looking"
        /\ UNCHANGED <<password, setOn, setup, setups, users, denied, state, backups, failures,
                       ghost, faults>>
        /\ UNCHANGED Sandbox!machine
    BY DEF Sandbox!Look, Sandbox!machine
  <1>2. CASE Sandbox!Leave(p)
    BY <1>1, <1>2, GivesUp DEF Told
  <1>3. CASE lock' = lock /\ mutex' = mutex
             /\ run' = [run EXCEPT ![p] = [run[p] EXCEPT
                  !.at = "waiting", !.state = state, !.current = users["cleo"]]]
    <2>1. PICK c \in Coordinations :
            /\ run' = [run EXCEPT ![p] = c] /\ c.at = "waiting"
            /\ c.state = state /\ c.times = run[p].times /\ c.file = run[p].file
            /\ c.current = users["cleo"]
      <3>1. PICK c : c = [run[p] EXCEPT
                            !.at = "waiting", !.state = state, !.current = users["cleo"]]
        OBVIOUS
      <3>2. run[p] \in Coordinations /\ state \in Stored /\ users["cleo"] \in SecretFiles
        BY DEF CredentialTypes, Sandbox!Homes
      <3>3. c \in Coordinations /\ c.at = "waiting"
            /\ c.state = state /\ c.times = run[p].times /\ c.file = run[p].file
            /\ c.current = users["cleo"]
        BY <3>1, <3>2 DEF Coordinations
      <3>4. run' = [run EXCEPT ![p] = c]
        BY <1>3, <3>1 DEF CredentialTypes
      <3> QED
        BY <3>3, <3>4
    <2>2. /\ run' \in [Processes -> Coordinations] /\ run'[p] = c
          /\ \A q \in Processes : q # p => run'[q] = run[q]
      BY <2>1, OneRuns
    <2>3. CredentialTypes'
      BY <1>1, <1>3, <2>2 DEF CredentialTypes, Sandbox!TypeOK
    <2>4. SeenStored(state)' /\ TrueOf(state)'
      BY <1>1 DEF Numbered, SeenStored, Seen, Remembered, TrueOf
    <2>5. RunNumbered(p)'
      BY <1>1, <2>1, <2>2 DEF Numbered, RunNumbered, SeenStored, Seen, Sandbox!Homes
    <2>6. RunExcluded(p)' /\ RunImproves(p)' /\ ~Told(p)'
      BY <1>1, <1>3, <2>1, <2>2 DEF Excluded, RunExcluded, RunImproves, Told
    <2>7. TrueOf(run[p].state)'
      BY <1>1, <2>1, <2>2 DEF Remembered, TrueOf
    <2>8. ~Told(p)
      BY <1>1 DEF Told
    <2>9. \A r \in Sandbox!Roles : /\ \A h \in Sandbox!Homes : users'[h].records[r] <= setups
                                   /\ \A f \in backups' : f.records[r] <= setups
      BY <1>1 DEF Numbered
    <2>10. ~ghost.interrupted => \A r \in Sandbox!Roles, v \in Sandbox!Versions :
             <<r, v>> \notin ghost.evicted =>
               failures[r][v] <= 1 /\ (failures[r][v] # 0 => <<r, v>> \in state.known)
      BY <1>1, <2>8, FailuresKnown
    <2>11. Sandbox!NeverWorse'
      BY <1>1 DEF Improves, Sandbox!NeverWorse
    <2> QED
      BY <1>1, <1>3, <2>2, <2>3, <2>4, <2>5, <2>6, <2>7, <2>9, <2>10, <2>11, CredentialStepKeeps
  <1> QED
    BY <1>2, <1>3 DEF Sandbox!Look

\* A run that has the mutex reads the times of the passwords.
LEMMA CredentialTakeMutexKeeps ==
  ASSUME CredentialValues, CredentialInv, NEW p \in Processes, Sandbox!TakeMutex(p)
  PROVE  CredentialInv'
  <1> USE DEF CredentialInv
  <1>1. /\ run[p].at = "waiting"
        /\ UNCHANGED <<password, setOn, setup, setups, users, denied, state, backups, failures,
                       ghost, faults>>
        /\ UNCHANGED Sandbox!machine
    BY DEF Sandbox!TakeMutex, Sandbox!machine
  <1>2. CASE Sandbox!Leave(p)
    BY <1>1, <1>2, GivesUp DEF Told
  <1>3. CASE mutex = "free" /\ mutex' = p /\ lock' = lock
             /\ run' = [run EXCEPT ![p] = [run[p] EXCEPT !.at = "holding", !.times = setOn]]
    <2>1. PICK c \in Coordinations :
            /\ run' = [run EXCEPT ![p] = c] /\ c.at = "holding"
            /\ c.state = run[p].state /\ c.times = setOn /\ c.file = run[p].file
            /\ c.current = run[p].current
      <3>1. PICK c : c = [run[p] EXCEPT !.at = "holding", !.times = setOn]
        OBVIOUS
      <3>2. run[p] \in Coordinations /\ setOn \in Records
        BY DEF CredentialTypes, Sandbox!TypeOK, Records
      <3>3. c \in Coordinations /\ c.at = "holding"
            /\ c.state = run[p].state /\ c.times = setOn /\ c.file = run[p].file
            /\ c.current = run[p].current
        BY <3>1, <3>2 DEF Coordinations
      <3>4. run' = [run EXCEPT ![p] = c]
        BY <1>3, <3>1 DEF CredentialTypes
      <3> QED
        BY <3>3, <3>4
    <2>2. /\ run' \in [Processes -> Coordinations] /\ run'[p] = c
          /\ \A q \in Processes : q # p => run'[q] = run[q]
      BY <2>1, OneRuns
    <2>3. CredentialTypes'
      BY <1>1, <1>3, <2>2 DEF CredentialTypes, Sandbox!TypeOK
    <2>4. SeenStored(state)' /\ TrueOf(state)'
      BY <1>1 DEF Numbered, SeenStored, Seen, Remembered, TrueOf
    <2>5. setup.at # "setting" /\ mutex' # "setup" /\ mutex # "setup"
      BY <1>3 DEF Excluded, CredentialValues
    <2>6. RunNumbered(p)'
      BY <1>1, <2>1, <2>2, <2>5 DEF Numbered, RunNumbered, SeenStored, Seen
    <2>7. RunExcluded(p)' /\ RunImproves(p)' /\ ~Told(p)'
      BY <1>1, <1>3, <2>1, <2>2 DEF Excluded, RunExcluded, RunImproves, Told
    <2>8. TrueOf(run[p].state)'
      BY <1>1, <2>1, <2>2 DEF Remembered, TrueOf
    <2>9. ~Told(p)
      BY <1>1 DEF Told
    <2>10. \A r \in Sandbox!Roles : /\ \A h \in Sandbox!Homes : users'[h].records[r] <= setups
                                    /\ \A f \in backups' : f.records[r] <= setups
      BY <1>1 DEF Numbered
    <2>11. ~ghost.interrupted => \A r \in Sandbox!Roles, v \in Sandbox!Versions :
             <<r, v>> \notin ghost.evicted =>
               failures[r][v] <= 1 /\ (failures[r][v] # 0 => <<r, v>> \in state.known)
      BY <1>1, <2>9, FailuresKnown
    <2>12. Sandbox!NeverWorse'
      BY <1>1 DEF Improves, Sandbox!NeverWorse
    <2> QED
      BY <1>1, <2>2, <2>3, <2>4, <2>5, <2>6, <2>7, <2>8, <2>10, <2>11, <2>12,
         CredentialStepKeeps
  <1> QED
    BY <1>2, <1>3 DEF Sandbox!TakeMutex, Sandbox!Free

\* A process that holds the mutex: no setup runs, and the times are those of the machine.
LEMMA Holder ==
  ASSUME CredentialValues, CredentialInv, NEW p \in Processes,
         run[p].at \in {"holding", "writing", "checking", "rereading", "saving"}
  PROVE  /\ mutex = p /\ lock = p /\ mutex # "setup" /\ setup.at # "setting"
         /\ run[p].times = setOn /\ run[p] \in Coordinations
  BY DEF CredentialInv, Excluded, RunExcluded, CredentialValues, CredentialTypes

\* A restore takes a file that was kept; it is no longer validated.
LEMMA CredentialChooseKeeps ==
  ASSUME CredentialValues, CredentialInv, NEW p \in Processes, Sandbox!Choose(p)
  PROVE  CredentialInv'
  <1> USE DEF CredentialInv
  <1>1. /\ run[p].at = "holding" /\ run[p].op = "restore"
        /\ UNCHANGED <<password, setOn, setup, setups, users, denied, mutex, lock, state, backups,
                       failures, ghost, faults>>
        /\ UNCHANGED Sandbox!machine
    BY DEF Sandbox!Choose, Sandbox!machine
  <1>2. PICK b \in backups :
          run' = [run EXCEPT ![p] = [run[p] EXCEPT
            !.at = "writing", !.current = users["cleo"], !.file = b,
            !.state = [run[p].state EXCEPT !.validated = Sandbox!Nothing]]]
    BY DEF Sandbox!Choose
  <1>3. /\ mutex = p /\ lock = p /\ mutex # "setup" /\ setup.at # "setting"
        /\ run[p].times = setOn /\ run[p] \in Coordinations
    BY <1>1, Holder
  <1>4. PICK s \in Stored :
          /\ s = [run[p].state EXCEPT !.validated = Sandbox!Nothing]
          /\ ~s.validated.is /\ s.known = run[p].state.known
          /\ \A r \in Sandbox!Roles : s.validated.times[r] = 0
    <2>1. PICK s : s = [run[p].state EXCEPT !.validated = Sandbox!Nothing]
      OBVIOUS
    <2>2. run[p].state \in Stored
      BY <1>3 DEF Coordinations
    <2>3. s \in Stored /\ s.validated = Sandbox!Nothing /\ s.known = run[p].state.known
      BY <2>1, <2>2, Defaults DEF Stored
    <2>4. ~s.validated.is /\ \A r \in Sandbox!Roles : s.validated.times[r] = 0
      BY <2>3, Defaults
    <2> QED
      BY <2>1, <2>3, <2>4
  <1>5. PICK c \in Coordinations :
          /\ run' = [run EXCEPT ![p] = c] /\ c.at = "writing" /\ c.op = "restore"
          /\ c.state = s /\ c.times = run[p].times /\ c.file = b
          /\ c.current = users["cleo"]
    <2>1. PICK c : c = [run[p] EXCEPT
                          !.at = "writing", !.current = users["cleo"], !.file = b, !.state = s]
      OBVIOUS
    <2>2. b \in SecretFiles /\ users["cleo"] \in SecretFiles
      BY DEF CredentialTypes, Sandbox!Homes
    <2>3. c.at = "writing" /\ c.op = "restore" /\ c.state = s /\ c.times = run[p].times
          /\ c.current = users["cleo"] /\ c.file = b /\ c.roles = run[p].roles
          /\ c.valid = run[p].valid
      BY <1>1, <1>3, <1>4, <2>1 DEF Coordinations
    <2>5. c \in Coordinations
      BY <1>3, <1>4, <2>1, <2>2 DEF Coordinations
    <2>4. run' = [run EXCEPT ![p] = c]
      BY <1>2, <1>4, <2>1
    <2> QED
      BY <2>3, <2>4, <2>5
  <1>6. /\ run' \in [Processes -> Coordinations] /\ run'[p] = c
        /\ \A q \in Processes : q # p => run'[q] = run[q]
    BY <1>5, OneRuns
  <1>7. CredentialTypes'
    BY <1>1, <1>6 DEF CredentialTypes, Sandbox!TypeOK
  <1>8. SeenStored(state)' /\ TrueOf(state)'
    BY <1>1 DEF Numbered, SeenStored, Seen, Remembered, TrueOf
  <1>9. setups \in Nat
    BY DEF CredentialTypes, CredentialValues
  <1>10. RunNumbered(p)'
    <2>1. /\ \A k \in s.known : Seen(k[2])
          /\ \A r \in Sandbox!Roles : Seen(s.validated.times[r]) /\ Seen(setOn[r])
                                      /\ b.records[r] <= setups
                                      /\ users["cleo"].records[r] <= setups
      BY <1>3, <1>4, <1>9 DEF Numbered, RunNumbered, SeenStored, Seen, Sandbox!Homes
    <2>2. \A v : Seen(v)' = Seen(v)
      BY <1>1 DEF Seen
    <2>3. /\ run'[p].state = s /\ run'[p].times = setOn /\ run'[p].file = b
          /\ run'[p].current = users["cleo"]
      BY <1>3, <1>5, <1>6
    <2> QED
      BY <1>1, <2>1, <2>2, <2>3 DEF RunNumbered, SeenStored
  <1>11. RunExcluded(p)' /\ RunImproves(p)'
    BY <1>1, <1>3, <1>5, <1>6 DEF RunExcluded, RunImproves
  <1>12. TrueOf(run[p].state)'
    <2>1. \A k \in s.known : password[k[1]] # k[2]
      BY <1>4 DEF Remembered, TrueOf
    <2>2. run'[p].state = s
      BY <1>5, <1>6
    <2> QED
      BY <1>1, <1>4, <2>1, <2>2 DEF TrueOf
  <1>13. run[p].state = state /\ ~Told(p)
    BY <1>1 DEF Excluded, RunExcluded, Told
  <1>14. state'.known \subseteq run'[p].state.known \cup ghost'.evicted
    BY <1>1, <1>4, <1>5, <1>6, <1>13
  <1>15. \A r \in Sandbox!Roles : /\ \A h \in Sandbox!Homes : users'[h].records[r] <= setups
                                  /\ \A f \in backups' : f.records[r] <= setups
    BY <1>1 DEF Numbered
  <1>16. ~ghost.interrupted => \A r \in Sandbox!Roles, v \in Sandbox!Versions :
           <<r, v>> \notin ghost.evicted =>
             failures[r][v] <= 1 /\ (failures[r][v] # 0 => <<r, v>> \in state.known)
    BY <1>1, <1>13, FailuresKnown
  <1>17. Sandbox!NeverWorse'
    BY <1>1 DEF Improves, Sandbox!NeverWorse
  <1> QED
    BY <1>1, <1>6, <1>7, <1>8, <1>10, <1>11, <1>12, <1>14, <1>15, <1>16, <1>17,
       CredentialStepKeeps

\* A run that is past the lock and is cut off.
LEMMA CutOff ==
  ASSUME CredentialValues, CredentialInv, NEW p \in Processes,
         run[p].at \notin {"idle", "locking"}, Sandbox!Leave(p),
         UNCHANGED <<password, setOn, setup, setups, users, state, failures>>,
         faults' = faults \/ (faults < MaxFaults /\ faults' = faults + 1),
         ghost' = [ghost EXCEPT !.interrupted = TRUE],
         backups' \subseteq SecretFiles,
         \A r \in Sandbox!Roles : \A f \in backups' : f.records[r] <= setups
  PROVE  CredentialInv'
  <1> USE DEF CredentialInv
  <1>1. /\ run' \in [Processes -> Coordinations]
        /\ \A q \in Processes : q # p => run'[q] = run[q]
        /\ ~Told(p)'
        /\ lock' \in Processes \cup {"free"} /\ mutex' \in Processes \cup {"free", "setup"}
        /\ mutex' = "setup" <=> mutex = "setup"
        /\ RunNumbered(p)' /\ RunExcluded(p)' /\ TrueOf(run[p].state)' /\ RunImproves(p)'
    BY Leaves
  <1>2. /\ ghost' \in Ghosts /\ ghost'.evicted = ghost.evicted
        /\ ghost'.near = ghost.near /\ ghost'.worse = ghost.worse /\ ghost'.interrupted
    BY DEF CredentialTypes, Ghosts
  <1>3. faults' \in 0 .. MaxFaults
    BY DEF CredentialTypes, CredentialValues, Sandbox!TypeOK
  <1>4. CredentialTypes'
    BY <1>1, <1>2, <1>3 DEF CredentialTypes, Sandbox!TypeOK, Sandbox!Free
  <1>5. SeenStored(state)' /\ TrueOf(state)'
    BY <1>2 DEF Numbered, SeenStored, Seen, Remembered, TrueOf
  <1>6. Sandbox!NeverWorse'
    BY <1>2 DEF Improves, Sandbox!NeverWorse
  <1>7. \A r \in Sandbox!Roles : /\ \A h \in Sandbox!Homes : users'[h].records[r] <= setups
                                 /\ \A f \in backups' : f.records[r] <= setups
    BY DEF Numbered
  <1>8. UNCHANGED Sandbox!machine
    BY DEF Sandbox!machine
  <1> QED
    BY <1>1, <1>2, <1>4, <1>5, <1>6, <1>7, <1>8, CredentialStepKeeps

\* A process that dies holds nothing, and its run was interrupted.
LEMMA CredentialCrashKeeps ==
  ASSUME CredentialValues, CredentialInv, NEW p \in Processes, Sandbox!Crash(p)
  PROVE  CredentialInv'
  <1> USE DEF CredentialInv
  <1>1. /\ run[p].at # "idle" /\ Sandbox!Leave(p)
        /\ faults < MaxFaults /\ faults' = faults + 1
        /\ ghost' = [ghost EXCEPT !.interrupted = TRUE]
        /\ UNCHANGED <<password, setOn, setup, setups, users, denied, state, backups, failures>>
    BY DEF Sandbox!Crash, Sandbox!machine, Sandbox!Fault
  <1>2. CASE run[p].at # "locking"
    BY <1>1, <1>2, CutOff DEF CredentialTypes, Numbered
  <1>3. CASE run[p].at = "locking"
    <2>1. /\ run' \in [Processes -> Coordinations]
          /\ \A q \in Processes : q # p => run'[q] = run[q]
          /\ ~Told(p)' /\ ~Told(p)
          /\ lock' \in Processes \cup {"free"} /\ mutex' \in Processes \cup {"free", "setup"}
          /\ \A q \in Processes : q # p => (lock = q => lock' = q) /\ (mutex = q => mutex' = q)
          /\ mutex' = "setup" <=> mutex = "setup"
          /\ RunNumbered(p)' /\ RunExcluded(p)' /\ TrueOf(run[p].state)' /\ RunImproves(p)'
      BY <1>1, <1>3, Leaves DEF Told
    <2>2. /\ ghost' \in Ghosts /\ ghost'.evicted = ghost.evicted
          /\ ghost'.near = ghost.near /\ ghost'.worse = ghost.worse /\ ghost'.interrupted
      BY <1>1 DEF CredentialTypes, Ghosts
    <2>3. faults' \in 0 .. MaxFaults
      BY <1>1 DEF CredentialTypes, CredentialValues, Sandbox!TypeOK
    <2>4. CredentialTypes'
      BY <1>1, <2>1, <2>2, <2>3 DEF CredentialTypes, Sandbox!TypeOK, Sandbox!Free
    <2>5. ASSUME NEW q \in Processes, q # p
          PROVE  RunNumbered(q)' /\ RunExcluded(q)' /\ TrueOf(run[q].state)' /\ RunImproves(q)'
                 /\ (Told(q)' <=> Told(q)) /\ run'[q] = run[q]
      <3>1. run'[q] = run[q] /\ (lock = q => lock' = q) /\ (mutex = q => mutex' = q)
        BY <2>1, <2>5
      <3>2. RunNumbered(q)' /\ (Told(q)' <=> Told(q))
        BY <1>1, <3>1 DEF Numbered, RunNumbered, SeenStored, Seen, Told
      <3>3. RunExcluded(q)'
        BY <1>1, <3>1 DEF Excluded, RunExcluded
      <3>4. TrueOf(run[q].state)' /\ RunImproves(q)'
        BY <1>1, <2>2, <3>1 DEF Remembered, TrueOf, Improves, RunImproves
      <3> QED
        BY <3>1, <3>2, <3>3, <3>4
    <2>6. Numbered'
      BY <1>1, <2>1, <2>2, <2>5 DEF Numbered, SeenStored, Seen
    <2>7. Excluded' /\ Improves'
      BY <1>1, <2>1, <2>2, <2>5 DEF Excluded, Improves, Sandbox!NeverWorse
    <2>8. Remembered'
      BY <1>1, <2>1, <2>2, <2>5 DEF Remembered, TrueOf
    <2>9. TriedOnce'
      BY <1>1, <2>1, <2>2, <2>5 DEF TriedOnce
    <2> QED
      BY <2>4, <2>6, <2>7, <2>8, <2>9
  <1> QED
    BY <1>2, <1>3

\* What a run has learned is saved as it ends.
LEMMA CredentialSaveKeeps ==
  ASSUME CredentialValues, CredentialInv, NEW p \in Processes, Sandbox!Save(p)
  PROVE  CredentialInv'
  <1> USE DEF CredentialInv
  <1>1. /\ run[p].at = "saving" /\ Sandbox!Leave(p)
        /\ UNCHANGED <<password, setOn, setup, setups, users, denied, backups, failures>>
    BY DEF Sandbox!Save, Sandbox!machine
  <1>2. CASE /\ faults < MaxFaults /\ faults' = faults + 1 /\ state' = state
             /\ ghost' = [ghost EXCEPT !.interrupted = TRUE]
    BY <1>1, <1>2, CutOff DEF CredentialTypes, Numbered
  <1>3. CASE state' = run[p].state /\ ghost' = ghost /\ faults' = faults
    <2>1. /\ run' \in [Processes -> Coordinations]
          /\ \A q \in Processes : q # p => run'[q] = run[q]
          /\ ~Told(p)'
          /\ lock' \in Processes \cup {"free"} /\ mutex' \in Processes \cup {"free", "setup"}
          /\ mutex' = "setup" <=> mutex = "setup"
          /\ RunNumbered(p)' /\ RunExcluded(p)' /\ TrueOf(run[p].state)' /\ RunImproves(p)'
      BY <1>1, Leaves
    <2>2. run[p].state \in Stored /\ run[p].state.known \subseteq Sandbox!Roles \X Sandbox!Versions
      BY DEF CredentialTypes, Coordinations, Stored
    <2>3. CredentialTypes'
      BY <1>1, <1>3, <2>1, <2>2 DEF CredentialTypes, Sandbox!TypeOK, Sandbox!Free
    <2>4. SeenStored(state)' /\ TrueOf(state)'
      BY <1>1, <1>3 DEF Numbered, RunNumbered, SeenStored, Seen, Remembered, TrueOf
    <2>5. state.known \subseteq state'.known \cup ghost.evicted
      BY <1>1, <1>3 DEF TriedOnce, Told
    <2>6. ~ghost.interrupted => \A r \in Sandbox!Roles, v \in Sandbox!Versions :
            <<r, v>> \notin ghost.evicted =>
              failures[r][v] <= 1 /\ (failures[r][v] # 0 => <<r, v>> \in state'.known)
      BY <1>1, <1>3, <2>5, FailuresKnown
    <2>7. Sandbox!NeverWorse'
      BY <1>3 DEF Improves, Sandbox!NeverWorse
    <2>8. \A r \in Sandbox!Roles : /\ \A h \in Sandbox!Homes : users'[h].records[r] <= setups
                                   /\ \A f \in backups' : f.records[r] <= setups
      BY <1>1 DEF Numbered
    <2>9. UNCHANGED Sandbox!machine
      BY <1>1 DEF Sandbox!machine
    <2> QED
      BY <1>1, <1>3, <2>1, <2>3, <2>4, <2>6, <2>7, <2>8, <2>9, CredentialStepKeeps
  <1> QED
    BY <1>2, <1>3 DEF Sandbox!Save, Sandbox!Fault

\* What a step of the process that holds the mutex has to see to.
LEMMA CredentialHolderKeeps ==
  ASSUME CredentialValues, CredentialInv, NEW p \in Processes,
         run[p].at \in {"holding", "writing", "checking", "rereading", "saving"},
         NEW c \in Coordinations, run' = [run EXCEPT ![p] = c],
         c.at \in {"writing", "checking", "rereading", "saving"}, c.times = run[p].times,
         UNCHANGED <<password, setOn, setup, setups, mutex, lock, state, faults>>,
         users' \in [Sandbox!Homes -> SecretFiles], backups' \subseteq SecretFiles,
         \A r \in Sandbox!Roles : /\ \A h \in Sandbox!Homes : users'[h].records[r] <= setups
                                  /\ \A f \in backups' : f.records[r] <= setups
                                  /\ c.file.records[r] <= setups
                                  /\ c.current.records[r] <= setups,
         SeenStored(c.state), TrueOf(c.state),
         state.known \subseteq c.state.known \cup ghost'.evicted,
         c.at \in {"checking", "rereading"} => c.op = "reconcile",
         c.at \in {"writing", "checking", "rereading"} /\ c.op = "reconcile" =>
           \A r \in c.valid \cup c.roles : password[r] = c.file.records[r],
         c.at = "writing" /\ c.op = "reconcile" /\ users'["cleo"].state = "checked" =>
           \A r \in Sandbox!Roles :
             password[r] = users'["cleo"].records[r] => password[r] = c.file.records[r],
         ghost' \in Ghosts, ghost'.near = ghost.near, ghost'.worse = ghost.worse,
         failures' \in [Sandbox!Roles -> [Sandbox!Versions -> Nat]],
         ~ghost'.interrupted => \A r \in Sandbox!Roles, v \in Sandbox!Versions :
           <<r, v>> \notin ghost'.evicted =>
             failures'[r][v] <= 1 /\ (failures'[r][v] # 0 => <<r, v>> \in c.state.known)
  PROVE  CredentialInv'
  <1>1. /\ mutex = p /\ lock = p /\ mutex # "setup" /\ setup.at # "setting"
        /\ run[p].times = setOn /\ run[p] \in Coordinations
    BY Holder
  <1>2. /\ run' \in [Processes -> Coordinations] /\ run'[p] = c
        /\ \A q \in Processes : q # p => run'[q] = run[q]
    BY OneRuns
  <1>3. CredentialTypes'
    BY <1>2 DEF CredentialInv, CredentialTypes, Sandbox!TypeOK, Ghosts, Failed
  <1>4. SeenStored(state)' /\ TrueOf(state)'
    BY DEF CredentialInv, Numbered, SeenStored, Seen, Remembered, TrueOf
  <1>5. RunNumbered(p)'
    <2>1. \A v : Seen(v)' = Seen(v)
      BY DEF Seen
    <2>2. \A r \in Sandbox!Roles : Seen(setOn[r])
      BY <1>1 DEF CredentialInv, Numbered, Seen
    <2> QED
      BY <1>1, <1>2, <2>1, <2>2 DEF RunNumbered, SeenStored
  <1>6. RunExcluded(p)' /\ Told(p)'
    BY <1>1, <1>2 DEF RunExcluded, Told
  <1>7. TrueOf(run[p].state)'
    BY <1>2 DEF TrueOf
  <1>8. RunImproves(p)'
    BY <1>2 DEF RunImproves
  <1>9. Sandbox!NeverWorse'
    BY DEF CredentialInv, Improves, Sandbox!NeverWorse
  <1>10. UNCHANGED Sandbox!machine
    BY DEF Sandbox!machine
  <1>11. Told(p)' => state'.known \subseteq run'[p].state.known \cup ghost'.evicted
    BY <1>2
  <1>12. ~ghost'.interrupted => \A r \in Sandbox!Roles, v \in Sandbox!Versions :
           <<r, v>> \notin ghost'.evicted =>
             /\ failures'[r][v] <= 1
             /\ failures'[r][v] # 0 => \/ <<r, v>> \in state'.known
                                       \/ Told(p)' /\ <<r, v>> \in run'[p].state.known
    BY <1>2, <1>6
  <1>13. run[p].at \notin {"idle", "locking"}
    OBVIOUS
  <1> QED
    BY <1>2, <1>3, <1>4, <1>5, <1>6, <1>7, <1>8, <1>9, <1>10, <1>11, <1>12, <1>13,
       CredentialStepKeeps

\* The file is replaced by one whose records work where its own did.
LEMMA CredentialWriteKeeps ==
  ASSUME CredentialValues, CredentialInv, NEW p \in Processes, Sandbox!Write(p)
  PROVE  CredentialInv'
  <1> USE DEF CredentialInv
  <1>1. /\ run[p].at = "writing"
        /\ UNCHANGED <<password, setOn, setup, setups, state, failures>>
    BY DEF Sandbox!Write, Sandbox!machine
  <1>2. /\ run[p] \in Coordinations /\ run[p].file \in SecretFiles /\ run[p].state \in Stored
        /\ run[p].current \in SecretFiles
        /\ users["cleo"] \in SecretFiles /\ users \in [Sandbox!Homes -> SecretFiles]
        /\ backups \subseteq SecretFiles /\ "cleo" \in Sandbox!Homes
    BY DEF CredentialTypes, Coordinations, Sandbox!Homes
  <1>3. /\ Sandbox!Kept(run[p].current) \subseteq SecretFiles
        /\ \A r \in Sandbox!Roles : \A f \in Sandbox!Kept(run[p].current) : f.records[r] <= setups
    BY <1>2 DEF Sandbox!Kept, Numbered, RunNumbered
  <1>4. CASE /\ faults < MaxFaults /\ faults' = faults + 1 /\ Sandbox!Leave(p)
             /\ backups' \in {backups, Sandbox!Kept(run[p].current)}
             /\ ghost' = [ghost EXCEPT !.interrupted = TRUE]
             /\ UNCHANGED <<users, denied>>
    <2>1. /\ backups' \subseteq SecretFiles
          /\ \A r \in Sandbox!Roles : \A f \in backups' : f.records[r] <= setups
      BY <1>2, <1>3, <1>4 DEF Numbered
    <2> QED
      BY <1>1, <1>4, <2>1, CutOff
  <1>5. CASE /\ users' = [users EXCEPT !["cleo"] = run[p].file]
             /\ backups' = Sandbox!Kept(run[p].current)
             /\ run' = [run EXCEPT ![p] = [run[p] EXCEPT
                  !.at = IF run[p].op = "restore" THEN "saving" ELSE "checking"]]
             /\ ghost' = [ghost EXCEPT !.worse = @ \/
                  (run[p].op = "reconcile" /\ users["cleo"].state = "checked"
                   /\ \E r \in Sandbox!Roles : Sandbox!Works(r, users["cleo"].records[r])
                                               /\ ~Sandbox!Works(r, run[p].file.records[r]))]
             /\ UNCHANGED <<lock, mutex, faults>>
    <2>1. PICK c \in Coordinations :
            /\ run' = [run EXCEPT ![p] = c]
            /\ c.at = IF run[p].op = "restore" THEN "saving" ELSE "checking"
            /\ c.op = run[p].op /\ c.state = run[p].state /\ c.times = run[p].times
            /\ c.file = run[p].file /\ c.roles = run[p].roles /\ c.valid = run[p].valid
            /\ c.current = run[p].current
      <3>1. PICK c : c = [run[p] EXCEPT !.at =
                            IF run[p].op = "restore" THEN "saving" ELSE "checking"]
        OBVIOUS
      <3>2. /\ c \in Coordinations
            /\ c.at = IF run[p].op = "restore" THEN "saving" ELSE "checking"
            /\ c.op = run[p].op /\ c.state = run[p].state /\ c.times = run[p].times
            /\ c.file = run[p].file /\ c.roles = run[p].roles /\ c.valid = run[p].valid
            /\ c.current = run[p].current
        BY <1>2, <3>1 DEF Coordinations
      <3>3. run' = [run EXCEPT ![p] = c]
        BY <1>5, <3>1 DEF CredentialTypes
      <3> QED
        BY <3>2, <3>3
    <2>2. RunImproves(p) /\ run[p].op \in {"reconcile", "restore"}
      BY <1>2 DEF Improves, Coordinations
    <2>3. ghost' = ghost
      <3>1. ~(run[p].op = "reconcile" /\ users["cleo"].state = "checked"
              /\ \E r \in Sandbox!Roles : Sandbox!Works(r, users["cleo"].records[r])
                                          /\ ~Sandbox!Works(r, run[p].file.records[r]))
        BY <1>1, <2>2 DEF RunImproves, Sandbox!Works
      <3>2. ghost.worse = FALSE
        BY DEF CredentialTypes, Ghosts, Improves, Sandbox!NeverWorse
      <3>3. ghost' = [ghost EXCEPT !.worse = FALSE]
        BY <1>5, <3>1, <3>2
      <3> QED
        BY <3>2, <3>3 DEF CredentialTypes, Ghosts
    <2>4. users' \in [Sandbox!Homes -> SecretFiles]
          /\ \A h \in Sandbox!Homes : users'[h] \in {users[h], run[p].file}
      BY <1>2, <1>5
    <2>5. /\ RunNumbered(p) /\ TrueOf(run[p].state)
          /\ state.known \subseteq run[p].state.known \cup ghost.evicted
      BY <1>1 DEF Numbered, Remembered, TriedOnce, Told
    <2>6. \A r \in Sandbox!Roles : /\ \A h \in Sandbox!Homes : users'[h].records[r] <= setups
                                   /\ \A f \in backups' : f.records[r] <= setups
                                   /\ c.file.records[r] <= setups
                                   /\ c.current.records[r] <= setups
      BY <1>3, <1>5, <2>1, <2>4, <2>5 DEF Numbered, RunNumbered
    <2>7. /\ SeenStored(c.state) /\ TrueOf(c.state)
          /\ state.known \subseteq c.state.known \cup ghost.evicted
      BY <2>1, <2>5 DEF RunNumbered
    <2>8. ~ghost.interrupted => \A r \in Sandbox!Roles, v \in Sandbox!Versions :
            <<r, v>> \notin ghost.evicted =>
              failures[r][v] <= 1 /\ (failures[r][v] # 0 => <<r, v>> \in c.state.known)
      BY <1>1, <2>7, <2>1, FailuresKnown
    <2>9. /\ c.at \in {"checking", "saving"} /\ (c.at = "checking" => c.op = "reconcile")
          /\ c.at = "checking" => \A r \in c.valid \cup c.roles : password[r] = c.file.records[r]
      BY <1>1, <2>1, <2>2 DEF RunImproves
    <2>10. failures' \in [Sandbox!Roles -> [Sandbox!Versions -> Nat]]
           /\ backups' \subseteq SecretFiles /\ ghost \in Ghosts
      BY <1>1, <1>3, <1>5 DEF CredentialTypes
    <2>11. /\ state.known \subseteq c.state.known \cup ghost'.evicted
           /\ ghost' \in Ghosts /\ ghost'.near = ghost.near /\ ghost'.worse = ghost.worse
      BY <2>3, <2>7, <2>10
    <2>12. ~ghost'.interrupted => \A r \in Sandbox!Roles, v \in Sandbox!Versions :
             <<r, v>> \notin ghost'.evicted =>
               failures'[r][v] <= 1 /\ (failures'[r][v] # 0 => <<r, v>> \in c.state.known)
      BY <1>1, <2>3, <2>8
    <2>13. /\ c.at \in {"writing", "checking", "rereading", "saving"} /\ c.at # "writing"
           /\ c.at \in {"checking", "rereading"} => c.op = "reconcile"
           /\ c.at \in {"writing", "checking", "rereading"} /\ c.op = "reconcile" =>
                \A r \in c.valid \cup c.roles : password[r] = c.file.records[r]
      BY <2>9
    <2> HIDE DEF CredentialInv
    <2> QED
      BY <1>1, <1>5, <2>1, <2>4, <2>6, <2>7, <2>10, <2>11, <2>12, <2>13, CredentialHolderKeeps,
         ZenonT(30)
  <1> QED
    BY <1>4, <1>5 DEF Sandbox!Write, Sandbox!Fault

\* A file that is not protected is removed; one that is will be read again.
LEMMA CredentialProtectKeeps ==
  ASSUME CredentialValues, CredentialInv, NEW p \in Processes, Sandbox!Protect(p)
  PROVE  CredentialInv'
  <1> USE DEF CredentialInv
  <1>1. /\ run[p].at = "checking"
        /\ UNCHANGED <<password, setOn, setup, setups, mutex, lock, state, backups, failures,
                       ghost, faults>>
    BY DEF Sandbox!Protect, Sandbox!machine
  <1>2. /\ run[p] \in Coordinations /\ users \in [Sandbox!Homes -> SecretFiles]
        /\ run \in [Processes -> Coordinations] /\ ghost \in Ghosts
    BY DEF CredentialTypes
  <1>3. /\ RunNumbered(p) /\ TrueOf(run[p].state) /\ RunImproves(p)
        /\ state.known \subseteq run[p].state.known \cup ghost.evicted
    BY <1>1 DEF Numbered, Remembered, TriedOnce, Told, Improves
  <1>4. PICK at \in {"rereading", "saving"} :
          run' = [run EXCEPT ![p] = [run[p] EXCEPT !.at = at]]
    BY DEF Sandbox!Protect
  <1>5. PICK c \in Coordinations :
          /\ run' = [run EXCEPT ![p] = c] /\ c.at = at /\ c.op = run[p].op
          /\ c.state = run[p].state /\ c.times = run[p].times /\ c.file = run[p].file
          /\ c.roles = run[p].roles /\ c.valid = run[p].valid /\ c.current = run[p].current
    <2>1. PICK c : c = [run[p] EXCEPT !.at = at]
      OBVIOUS
    <2>2. /\ c \in Coordinations /\ c.at = at /\ c.op = run[p].op
          /\ c.state = run[p].state /\ c.times = run[p].times /\ c.file = run[p].file
          /\ c.roles = run[p].roles /\ c.valid = run[p].valid /\ c.current = run[p].current
      BY <1>2, <2>1 DEF Coordinations
    <2> QED
      BY <1>4, <2>1, <2>2
  <1>6. users' = users \/ users' = [users EXCEPT !["cleo"] = Sandbox!Missing]
    BY DEF Sandbox!Protect
  <1>7. users' \in [Sandbox!Homes -> SecretFiles]
        /\ \A h \in Sandbox!Homes : users'[h] \in {users[h], Sandbox!Missing}
    BY <1>2, <1>6, Defaults
  <1>8. setups \in Nat
    BY DEF CredentialTypes, CredentialValues
  <1>9. \A r \in Sandbox!Roles : /\ \A h \in Sandbox!Homes : users'[h].records[r] <= setups
                                 /\ \A f \in backups' : f.records[r] <= setups
                                 /\ c.file.records[r] <= setups
                                 /\ c.current.records[r] <= setups
    <2>1. \A r \in Sandbox!Roles : Sandbox!Missing.records[r] = 0
      BY Defaults
    <2> QED
      BY <1>1, <1>3, <1>5, <1>7, <1>8, <2>1 DEF Numbered, RunNumbered
  <1>10. SeenStored(c.state) /\ TrueOf(c.state)
    BY <1>3, <1>5 DEF RunNumbered
  <1>11. /\ c.op = "reconcile"
         /\ \A r \in c.valid \cup c.roles : password[r] = c.file.records[r]
    BY <1>1, <1>3, <1>5 DEF RunImproves
  <1>12. ~ghost.interrupted => \A r \in Sandbox!Roles, v \in Sandbox!Versions :
           <<r, v>> \notin ghost.evicted =>
             failures[r][v] <= 1 /\ (failures[r][v] # 0 => <<r, v>> \in c.state.known)
    BY <1>1, <1>3, <1>5, FailuresKnown
  <1>13. /\ failures' \in [Sandbox!Roles -> [Sandbox!Versions -> Nat]]
         /\ backups' \subseteq SecretFiles
    BY <1>1 DEF CredentialTypes
  <1> QED
    BY <1>1, <1>2, <1>3, <1>5, <1>7, <1>9, <1>10, <1>11, <1>12, <1>13, CredentialHolderKeeps,
         ZenonT(30)

\* What was written and is still there is validated; a run that cannot read it ends.
LEMMA CredentialRereadKeeps ==
  ASSUME CredentialValues, CredentialInv, NEW p \in Processes, Sandbox!Reread(p)
  PROVE  CredentialInv'
  <1> USE DEF CredentialInv
  <1>1. /\ run[p].at = "rereading"
        /\ UNCHANGED <<password, setOn, setup, setups, users, denied, state, backups, failures,
                       faults>>
    BY DEF Sandbox!Reread, Sandbox!machine
  <1>2. CASE Sandbox!Leave(p) /\ ghost' = [ghost EXCEPT !.interrupted = TRUE]
    BY <1>1, <1>2, CutOff DEF CredentialTypes, Numbered
  <1>3. CASE /\ run' = [run EXCEPT ![p] = [run[p] EXCEPT !.at = "saving", !.state =
                  [known |-> run[p].state.known, validated |->
                   IF run[p].valid \cup run[p].roles = Sandbox!Roles
                   THEN [is |-> TRUE, file |-> run[p].file, times |-> run[p].times]
                   ELSE Sandbox!Nothing]]]
             /\ UNCHANGED <<mutex, lock, ghost>>
    <2>1. /\ run[p] \in Coordinations /\ run[p].file \in SecretFiles /\ run[p].state \in Stored
          /\ run[p].times \in Records /\ run \in [Processes -> Coordinations] /\ ghost \in Ghosts
      BY DEF CredentialTypes, Coordinations
    <2>2. /\ RunNumbered(p) /\ TrueOf(run[p].state) /\ RunImproves(p)
          /\ state.known \subseteq run[p].state.known \cup ghost.evicted
      BY <1>1 DEF Numbered, Remembered, TriedOnce, Told, Improves
    <2>3. setup.at # "setting" /\ run[p].times = setOn
      BY <1>1, Holder
    <2>4. PICK v : v = IF run[p].valid \cup run[p].roles = Sandbox!Roles
                       THEN [is |-> TRUE, file |-> run[p].file, times |-> run[p].times]
                       ELSE Sandbox!Nothing
      OBVIOUS
    <2>5. v \in [is : BOOLEAN, file : SecretFiles, times : Records]
      BY <2>1, <2>4, Defaults
    <2>6. PICK s \in Stored : /\ s = [known |-> run[p].state.known, validated |-> v]
                              /\ s.known = run[p].state.known /\ s.validated = v
      <3>1. PICK known : known = run[p].state.known
        OBVIOUS
      <3>2. known \in SUBSET (Sandbox!Roles \X Sandbox!Versions)
        BY <2>1, <3>1 DEF Stored
      <3>3. [known |-> known, validated |-> v] \in Stored
        BY <2>5, <3>2 DEF Stored
      <3> QED
        BY <3>1, <3>3
    <2>7. PICK c \in Coordinations :
            /\ run' = [run EXCEPT ![p] = c] /\ c.at = "saving" /\ c.state = s
            /\ c.times = run[p].times /\ c.file = run[p].file /\ c.current = run[p].current
      <3>1. PICK c : c = [run[p] EXCEPT !.at = "saving", !.state = s]
        OBVIOUS
      <3>2. /\ c \in Coordinations /\ c.at = "saving" /\ c.state = s
            /\ c.times = run[p].times /\ c.file = run[p].file /\ c.current = run[p].current
        BY <2>1, <3>1 DEF Coordinations
      <3>3. run' = [run EXCEPT ![p] = c]
        BY <1>3, <2>4, <2>6, <3>1
      <3> QED
        BY <3>2, <3>3
    <2>8. setups \in Nat
      BY DEF CredentialTypes, CredentialValues
    <2>9. SeenStored(s)
      <3>1. \A k \in s.known : Seen(k[2])
        BY <2>2, <2>6 DEF RunNumbered, SeenStored
      <3>2. \A r \in Sandbox!Roles : Seen(0) /\ Seen(setOn[r])
        BY <2>3, <2>8 DEF Seen, Numbered
      <3>3. \A r \in Sandbox!Roles : Sandbox!Nothing.times[r] = 0
        BY Defaults
      <3>4. \A r \in Sandbox!Roles : Seen(s.validated.times[r])
        BY <2>3, <2>4, <2>6, <3>2, <3>3
      <3> QED
        BY <3>1, <3>4 DEF SeenStored
    <2>10. TrueOf(s)
      <3>1. CASE v = Sandbox!Nothing
        BY <2>2, <2>6, <3>1, Defaults DEF TrueOf
      <3>2. CASE /\ run[p].valid \cup run[p].roles = Sandbox!Roles
                 /\ v = [is |-> TRUE, file |-> run[p].file, times |-> run[p].times]
        <4>1. \A r \in Sandbox!Roles : password[r] = s.validated.file.records[r]
          BY <1>1, <2>2, <2>6, <3>2 DEF RunImproves
        <4> QED
          BY <2>2, <2>6, <4>1 DEF TrueOf
      <3> QED
        BY <2>4, <3>1, <3>2
    <2>11. ~ghost.interrupted => \A r \in Sandbox!Roles, w \in Sandbox!Versions :
             <<r, w>> \notin ghost.evicted =>
               failures[r][w] <= 1 /\ (failures[r][w] # 0 => <<r, w>> \in s.known)
      BY <1>1, <2>2, <2>6, FailuresKnown
    <2>12. /\ failures' \in [Sandbox!Roles -> [Sandbox!Versions -> Nat]]
           /\ backups' \subseteq SecretFiles /\ users' \in [Sandbox!Homes -> SecretFiles]
           /\ \A r \in Sandbox!Roles : /\ \A h \in Sandbox!Homes : users'[h].records[r] <= setups
                                       /\ \A f \in backups' : f.records[r] <= setups
                                       /\ c.file.records[r] <= setups
                                       /\ c.current.records[r] <= setups
      BY <1>1, <2>2, <2>7 DEF CredentialTypes, Numbered, RunNumbered
    <2>13. /\ state.known \subseteq c.state.known \cup ghost'.evicted
           /\ ghost' \in Ghosts /\ ghost'.near = ghost.near /\ ghost'.worse = ghost.worse
           /\ SeenStored(c.state) /\ TrueOf(c.state)
      BY <1>3, <2>1, <2>2, <2>6, <2>7, <2>9, <2>10
    <2>14. ~ghost'.interrupted => \A r \in Sandbox!Roles, w \in Sandbox!Versions :
             <<r, w>> \notin ghost'.evicted =>
               failures'[r][w] <= 1 /\ (failures'[r][w] # 0 => <<r, w>> \in c.state.known)
      BY <1>1, <1>3, <2>7, <2>11
    <2> HIDE DEF CredentialInv
    <2> QED
      BY <1>1, <1>3, <2>7, <2>12, <2>13, <2>14, CredentialHolderKeeps,
         ZenonT(30)
  <1> QED
    BY <1>2, <1>3 DEF Sandbox!Reread

\* What is carried from one record to the next as a file is checked.
Checks == [known : Failed, valid : SUBSET Sandbox!Roles, evicted : Failed,
           failures : [Sandbox!Roles -> [Sandbox!Versions -> Nat]]]

\* A record that is not forgotten has been tried once, and then it is known.
Once(m) == \A r \in Sandbox!Roles, v \in Sandbox!Versions :
    <<r, v>> \notin m.evicted =>
      m.failures[r][v] <= 1 /\ (m.failures[r][v] # 0 => <<r, v>> \in m.known)

\* What comes of checking the records of a file.
Found(m, n, f) ==
    /\ m.known \subseteq n.known \cup n.evicted /\ m.evicted \subseteq n.evicted
    /\ \A k \in n.known : \/ k \in m.known
                          \/ /\ k[1] \in Sandbox!Roles /\ k[2] = f.records[k[1]]
                             /\ password[k[1]] # k[2]
    /\ \A r \in n.valid : r \in m.valid \/ (f.state = "checked" /\ password[r] = f.records[r])
    /\ Once(m) => Once(n)

\* A record that fails is known from then on, unless it is the oldest.
LEMMA RecordChecked ==
  ASSUME NEW m \in Checks, NEW f \in SecretFiles, f.state = "checked", NEW r \in Sandbox!Roles,
         NEW n \in Sandbox!CheckRecord(m, r, f.records[r])
  PROVE  n \in Checks /\ Found(m, n, f)
  <1>1. PICK v \in Sandbox!Versions : v = f.records[r]
    BY DEF SecretFiles, Records
  <1>2. /\ m.known \in Failed /\ m.valid \subseteq Sandbox!Roles /\ m.evicted \in Failed
        /\ m.failures \in [Sandbox!Roles -> [Sandbox!Versions -> Nat]]
    BY DEF Checks
  <1>3. CASE n = m
    BY <1>3 DEF Found
  <1>4. CASE Sandbox!Works(r, v) /\ n = [m EXCEPT !.valid = m.valid \cup {r}]
    <2>1. /\ n \in Checks /\ n.known = m.known /\ n.valid = m.valid \cup {r}
          /\ n.evicted = m.evicted /\ n.failures = m.failures
      BY <1>2, <1>4 DEF Checks
    <2> QED
      BY <1>1, <1>4, <2>1 DEF Found, Once, Sandbox!Works
  <1>5. CASE /\ <<r, v>> \notin m.known /\ ~Sandbox!Works(r, v)
             /\ \E kept \in Sandbox!Remember(m.known, <<r, v>>) :
                  n = [known |-> kept, valid |-> m.valid,
                       evicted |-> m.evicted \cup ((m.known \cup {<<r, v>>}) \ kept),
                       failures |-> [q \in Sandbox!Roles |-> [w \in Sandbox!Versions |->
                         m.failures[q][w] + IF <<q, w>> = <<r, v>> THEN 1 ELSE 0]]]
    <2>1. PICK kept \in Sandbox!Remember(m.known, <<r, v>>) :
            n = [known |-> kept, valid |-> m.valid,
                 evicted |-> m.evicted \cup ((m.known \cup {<<r, v>>}) \ kept),
                 failures |-> [q \in Sandbox!Roles |-> [w \in Sandbox!Versions |->
                   m.failures[q][w] + IF <<q, w>> = <<r, v>> THEN 1 ELSE 0]]]
      BY <1>5
    <2>2. kept \subseteq m.known \cup {<<r, v>>}
      BY DEF Sandbox!Remember
    <2>3. PICK more : more = [q \in Sandbox!Roles |-> [w \in Sandbox!Versions |->
                               m.failures[q][w] + IF <<q, w>> = <<r, v>> THEN 1 ELSE 0]]
      OBVIOUS
    <2>4. more \in [Sandbox!Roles -> [Sandbox!Versions -> Nat]]
      BY <1>2, <2>3
    <2>5. /\ n.known = kept /\ n.valid = m.valid /\ n.failures = more
          /\ n.evicted = m.evicted \cup ((m.known \cup {<<r, v>>}) \ kept)
      BY <2>1, <2>3
    <2>6. <<r, v>> \in Sandbox!Roles \X Sandbox!Versions
      BY <1>1
    <2>7. kept \in Failed /\ n.evicted \in Failed
      BY <1>2, <2>2, <2>5, <2>6 DEF Failed
    <2>8. n \in Checks
      BY <1>2, <2>1, <2>3, <2>4, <2>5, <2>7 DEF Checks
    <2>9. m.known \subseteq n.known \cup n.evicted /\ m.evicted \subseteq n.evicted
      BY <2>5
    <2>10. \A k \in n.known : \/ k \in m.known
                              \/ /\ k[1] \in Sandbox!Roles /\ k[2] = f.records[k[1]]
                                 /\ password[k[1]] # k[2]
      <3>1. <<r, v>>[1] = r /\ <<r, v>>[2] = v /\ password[r] # v
        BY <1>5 DEF Sandbox!Works
      <3> QED
        BY <1>1, <2>2, <2>5, <3>1
    <2>11. ASSUME Once(m), NEW q \in Sandbox!Roles, NEW w \in Sandbox!Versions,
                  <<q, w>> \notin n.evicted
           PROVE  n.failures[q][w] <= 1 /\ (n.failures[q][w] # 0 => <<q, w>> \in n.known)
      <3>1. <<q, w>> \notin m.evicted
            /\ (<<q, w>> \in m.known \cup {<<r, v>>} => <<q, w>> \in n.known)
        BY <2>5, <2>11
      <3>2. /\ m.failures[q][w] <= 1 /\ m.failures[q][w] \in Nat
            /\ (m.failures[q][w] # 0 => <<q, w>> \in m.known)
        BY <1>2, <2>11, <3>1 DEF Once
      <3>3. n.failures[q][w] = m.failures[q][w] + IF <<q, w>> = <<r, v>> THEN 1 ELSE 0
        BY <2>3, <2>5
      <3>4. CASE <<q, w>> = <<r, v>>
        <4>1. m.failures[q][w] = 0 /\ <<q, w>> \in n.known
          BY <1>5, <3>1, <3>2, <3>4
        <4> QED
          BY <3>3, <3>4, <4>1
      <3>5. CASE <<q, w>> # <<r, v>>
        BY <3>1, <3>2, <3>3, <3>5
      <3> QED
        BY <3>4, <3>5
    <2>12. Once(m) => Once(n)
      BY <2>11 DEF Once
    <2> QED
      BY <2>5, <2>8, <2>9, <2>10, <2>12 DEF Found
  <1> QED
    BY <1>1, <1>3, <1>4, <1>5 DEF Sandbox!CheckRecord

\* The records of a file are checked one after the other.
LEMMA StoreChecked ==
  ASSUME NEW m \in Checks, NEW f \in SecretFiles, NEW n \in Sandbox!CheckStore(m, f)
  PROVE  n \in Checks /\ Found(m, n, f)
  <1>1. CASE f.state # "checked"
    BY <1>1 DEF Sandbox!CheckStore, Found
  <1>2. CASE f.state = "checked"
    <2>1. "offline" \in Sandbox!Roles /\ "online" \in Sandbox!Roles
      BY DEF Sandbox!Roles
    <2>2. PICK k \in Sandbox!CheckRecord(m, "offline", f.records["offline"]) :
            n \in Sandbox!CheckRecord(k, "online", f.records["online"])
      BY <1>2 DEF Sandbox!CheckStore
    <2>3. k \in Checks /\ Found(m, k, f)
      BY <1>2, <2>1, RecordChecked
    <2>4. n \in Checks /\ Found(k, n, f)
      BY <1>2, <2>1, <2>2, <2>3, RecordChecked
    <2> QED
      BY <2>3, <2>4 DEF Found
  <1> QED
    BY <1>1, <1>2

\* The records are tried, those known to fail excepted, and the other home's after them.
LEMMA CredentialCheckKeeps ==
  ASSUME CredentialValues, CredentialInv, NEW p \in Processes, Sandbox!Check(p)
  PROVE  CredentialInv'
  <1> USE DEF CredentialInv
  <1>1. /\ run[p].at = "holding" /\ run[p].op = "reconcile"
        /\ UNCHANGED <<password, setOn, setup, setups, users, denied, mutex, lock, state, backups,
                       faults>>
    BY DEF Sandbox!Check, Sandbox!machine
  <1> DEFINE cleo == users["cleo"]
             s    == run[p].state
             b    == [known |-> s.known, valid |-> {}, evicted |-> ghost.evicted,
                      failures |-> failures]
  <1>5. PICK m \in Sandbox!CheckStore(b, cleo) :
          LET looks    == m.valid # Sandbox!Roles /\ cleo.state # "newer"
              external == IF looks THEN users["codex"] ELSE Sandbox!Missing
          IN \E n \in Sandbox!CheckStore([m EXCEPT !.valid = {}], external) :
             LET roles   == n.valid \ m.valid
                 missing == {r \in Sandbox!Roles : cleo.state # "checked" /\ r \notin roles}
             IN /\ failures' = n.failures
                /\ ghost' = [ghost EXCEPT !.evicted = n.evicted]
                /\ run' = [run EXCEPT ![p] = [run[p] EXCEPT
                     !.at = IF roles # {} THEN "writing" ELSE "saving",
                     !.roles = roles, !.valid = m.valid,
                     !.file = Sandbox!File("checked", [r \in Sandbox!Roles |->
                         IF r \in roles \cup missing THEN external.records[r]
                         ELSE cleo.records[r]]),
                     !.state = [known |-> n.known, validated |->
                         IF m.valid = Sandbox!Roles
                         THEN [is |-> TRUE, file |-> cleo, times |-> run[p].times]
                         ELSE IF roles # {} \/ cleo.state = "newer" THEN s.validated
                         ELSE Sandbox!Nothing]]]
    BY DEF Sandbox!Check
  <1> DEFINE external == IF m.valid # Sandbox!Roles /\ cleo.state # "newer"
                         THEN users["codex"] ELSE Sandbox!Missing
             j        == [m EXCEPT !.valid = {}]
  <1>8. PICK n \in Sandbox!CheckStore(j, external) :
          /\ failures' = n.failures
          /\ ghost' = [ghost EXCEPT !.evicted = n.evicted]
          /\ run' = [run EXCEPT ![p] = [run[p] EXCEPT
               !.at = IF n.valid \ m.valid # {} THEN "writing" ELSE "saving",
               !.roles = n.valid \ m.valid, !.valid = m.valid,
               !.file = Sandbox!File("checked", [r \in Sandbox!Roles |->
                   IF r \in (n.valid \ m.valid) \cup {q \in Sandbox!Roles :
                       cleo.state # "checked" /\ q \notin n.valid \ m.valid}
                   THEN external.records[r] ELSE cleo.records[r]]),
               !.state = [known |-> n.known, validated |->
                   IF m.valid = Sandbox!Roles
                   THEN [is |-> TRUE, file |-> cleo, times |-> run[p].times]
                   ELSE IF n.valid \ m.valid # {} \/ cleo.state = "newer" THEN s.validated
                   ELSE Sandbox!Nothing]]]
    BY <1>5
  <1>2. cleo = users["cleo"]
    OBVIOUS
  <1>3. s = run[p].state
    OBVIOUS
  <1>4. b = [known |-> s.known, valid |-> {}, evicted |-> ghost.evicted, failures |-> failures]
    OBVIOUS
  <1>6. external = IF m.valid # Sandbox!Roles /\ cleo.state # "newer"
                   THEN users["codex"] ELSE Sandbox!Missing
    OBVIOUS
  <1>7. j = [m EXCEPT !.valid = {}]
    OBVIOUS
  <1> HIDE DEF cleo, s, b, external, j
  <1>9. PICK roles : roles = n.valid \ m.valid
    OBVIOUS
  <1>10. PICK missing : missing = {q \in Sandbox!Roles : cleo.state # "checked" /\ q \notin roles}
    OBVIOUS
  <1>11. PICK records : records = [r \in Sandbox!Roles |->
           IF r \in roles \cup missing THEN external.records[r] ELSE cleo.records[r]]
    OBVIOUS
  <1>12. PICK file : file = [state |-> "checked", records |-> records]
    OBVIOUS
  <1>13. PICK v : v = IF m.valid = Sandbox!Roles
                      THEN [is |-> TRUE, file |-> cleo, times |-> run[p].times]
                      ELSE IF roles # {} \/ cleo.state = "newer" THEN s.validated
                      ELSE Sandbox!Nothing
    OBVIOUS
  <1>14. PICK t : t = [known |-> n.known, validated |-> v]
    OBVIOUS
  <1>15. PICK at \in {"writing", "saving"} : at = IF roles # {} THEN "writing" ELSE "saving"
    OBVIOUS
  <1>16. PICK c : c = [run[p] EXCEPT !.at = at, !.roles = roles, !.valid = m.valid,
                                     !.file = file, !.state = t]
    OBVIOUS
  <1>17. run' = [run EXCEPT ![p] = c]
    BY <1>8, <1>9, <1>10, <1>11, <1>12, <1>13, <1>14, <1>15, <1>16 DEF Sandbox!File
  <1>18. /\ run[p] \in Coordinations /\ run \in [Processes -> Coordinations] /\ ghost \in Ghosts
         /\ s \in Stored /\ run[p].times \in Records
         /\ cleo \in SecretFiles /\ users["codex"] \in SecretFiles
         /\ s = state /\ run[p].times = setOn /\ setup.at # "setting" /\ ~Told(p)
    BY <1>1, <1>2, <1>3, Holder
    DEF CredentialTypes, Coordinations, Excluded, RunExcluded, Told, Sandbox!Homes
  <1>19. external \in SecretFiles
    BY <1>6, <1>18, Defaults
  <1>20. /\ b \in Checks /\ b.known = s.known /\ b.valid = {} /\ b.evicted = ghost.evicted
         /\ b.failures = failures
    <2>1. s.known \in Failed /\ ghost.evicted \in Failed
          /\ failures \in [Sandbox!Roles -> [Sandbox!Versions -> Nat]]
      BY <1>18 DEF CredentialTypes, Stored, Ghosts, Failed
    <2> QED
      BY <1>4, <2>1 DEF Checks
  <1>21. m \in Checks /\ Found(b, m, cleo)
    BY <1>18, <1>20, StoreChecked
  <1>22. /\ j \in Checks /\ j.known = m.known /\ j.valid = {} /\ j.evicted = m.evicted
         /\ j.failures = m.failures
    BY <1>7, <1>21 DEF Checks
  <1>23. n \in Checks /\ Found(j, n, external)
    BY <1>19, <1>22, StoreChecked
  <1>24. /\ m.valid \subseteq Sandbox!Roles /\ roles \subseteq Sandbox!Roles
         /\ \A r \in m.valid : cleo.state = "checked" /\ password[r] = cleo.records[r]
         /\ \A r \in roles : r \notin m.valid /\ password[r] = external.records[r]
    BY <1>9, <1>20, <1>21, <1>22, <1>23 DEF Checks, Found
  <1>25. /\ n.known \in Failed /\ n.evicted \in Failed
         /\ n.failures \in [Sandbox!Roles -> [Sandbox!Versions -> Nat]]
         /\ ghost.evicted \subseteq n.evicted /\ s.known \subseteq n.known \cup n.evicted
    BY <1>20, <1>21, <1>22, <1>23 DEF Checks, Found
  <1>26. \A k \in n.known : \/ k \in s.known
                            \/ /\ k[1] \in Sandbox!Roles /\ password[k[1]] # k[2]
                               /\ k[2] \in {cleo.records[k[1]], external.records[k[1]]}
    BY <1>20, <1>21, <1>22, <1>23 DEF Found
  <1>27. file \in SecretFiles /\ file.records = records
    <2>1. records \in Records
      BY <1>11, <1>18, <1>19 DEF SecretFiles, Records
    <2> QED
      BY <1>12, <2>1 DEF SecretFiles
  <1>28. t \in Stored /\ t.known = n.known /\ t.validated = v
    <2>1. v \in [is : BOOLEAN, file : SecretFiles, times : Records]
      <3>1. [is |-> TRUE, file |-> cleo, times |-> run[p].times]
              \in [is : BOOLEAN, file : SecretFiles, times : Records]
        BY <1>18
      <3>2. s.validated \in [is : BOOLEAN, file : SecretFiles, times : Records]
        BY <1>18 DEF Stored
      <3> QED
        BY <1>13, <3>1, <3>2, Defaults
    <2> QED
      BY <1>14, <1>25, <2>1 DEF Stored, Failed
  <1>29. /\ c \in Coordinations /\ c.at = at
         /\ c.op = "reconcile" /\ c.state = t /\ c.times = run[p].times /\ c.file = file
         /\ c.roles = roles /\ c.valid = m.valid /\ c.current = run[p].current
    <2>1. c = [at |-> at, op |-> run[p].op, state |-> t, times |-> run[p].times,
               current |-> run[p].current, file |-> file, roles |-> roles, valid |-> m.valid]
      BY <1>16, <1>18 DEF Coordinations
    <2>2. run[p].op \in {"reconcile", "restore"} /\ run[p].current \in SecretFiles
      BY <1>18 DEF Coordinations
    <2>3. c \in Coordinations
      BY <1>18, <1>24, <1>27, <1>28, <2>1, <2>2 DEF Coordinations
    <2> QED
      BY <1>1, <2>1, <2>3
  <1>30. setups \in Nat /\ \A r \in Sandbox!Roles :
           /\ cleo.records[r] <= setups /\ external.records[r] <= setups
           /\ records[r] <= setups
    <2>1. setups \in Nat
      BY DEF CredentialTypes, CredentialValues
    <2>2. \A r \in Sandbox!Roles : cleo.records[r] <= setups /\ users["codex"].records[r] <= setups
      BY <1>2 DEF Numbered, Sandbox!Homes
    <2>3. \A r \in Sandbox!Roles : Sandbox!Missing.records[r] = 0
      BY Defaults
    <2>4. \A r \in Sandbox!Roles : external.records[r] <= setups
      BY <1>6, <2>1, <2>2, <2>3
    <2> QED
      BY <1>11, <2>1, <2>2, <2>4
  <1>31. SeenStored(t)
    <2>1. \A k \in n.known : Seen(k[2])
      BY <1>18, <1>26, <1>30 DEF Numbered, SeenStored, Seen
    <2>2. \A r \in Sandbox!Roles : Seen(0) /\ Seen(setOn[r]) /\ Seen(s.validated.times[r])
      BY <1>18, <1>30 DEF Seen, Numbered, SeenStored
    <2>3. \A r \in Sandbox!Roles : Sandbox!Nothing.times[r] = 0
      BY Defaults
    <2>4. \A r \in Sandbox!Roles : Seen(v.times[r])
      BY <1>13, <1>18, <2>2, <2>3
    <2> QED
      BY <1>28, <2>1, <2>4 DEF SeenStored
  <1>32. TrueOf(t)
    <2>1. TrueOf(s)
      BY <1>18 DEF Remembered
    <2>2. \A k \in n.known : password[k[1]] # k[2]
      BY <1>26, <2>1 DEF TrueOf
    <2>3. ~ghost.near /\ v.is /\ v.times = setOn =>
            \A r \in Sandbox!Roles : password[r] = v.file.records[r]
      <3>1. CASE m.valid = Sandbox!Roles
        BY <1>13, <1>24, <3>1
      <3>2. CASE v = s.validated
        BY <2>1, <3>2 DEF TrueOf
      <3>3. CASE v = Sandbox!Nothing
        BY <3>3, Defaults
      <3> QED
        BY <1>13, <3>1, <3>2, <3>3
    <2> QED
      BY <1>28, <2>2, <2>3 DEF TrueOf
  <1>33. \A r \in m.valid \cup roles : password[r] = records[r]
    BY <1>10, <1>11, <1>24
  <1>34. cleo.state = "checked" =>
           \A r \in Sandbox!Roles : password[r] = cleo.records[r] => password[r] = records[r]
    BY <1>10, <1>11, <1>24
  <1>35. /\ failures' \in [Sandbox!Roles -> [Sandbox!Versions -> Nat]]
         /\ ghost' \in Ghosts /\ ghost'.near = ghost.near /\ ghost'.worse = ghost.worse
         /\ ghost'.interrupted = ghost.interrupted /\ ghost'.evicted = n.evicted
    BY <1>8, <1>18, <1>25 DEF Ghosts
  <1>36. ~ghost'.interrupted => \A r \in Sandbox!Roles, w \in Sandbox!Versions :
           <<r, w>> \notin ghost'.evicted =>
             failures'[r][w] <= 1 /\ (failures'[r][w] # 0 => <<r, w>> \in c.state.known)
    <2>1. ~ghost.interrupted => Once(b)
      BY <1>1, <1>18, <1>20, FailuresKnown DEF Once
    <2>2. ~ghost.interrupted => Once(j)
      BY <1>21, <1>22, <2>1 DEF Found, Once
    <2>3. ~ghost.interrupted => Once(n)
      BY <1>23, <2>2 DEF Found
    <2> QED
      BY <1>8, <1>28, <1>29, <1>35, <2>3 DEF Once
  <1>37. /\ users' \in [Sandbox!Homes -> SecretFiles] /\ backups' \subseteq SecretFiles
         /\ \A r \in Sandbox!Roles : /\ \A h \in Sandbox!Homes : users'[h].records[r] <= setups
                                     /\ \A f \in backups' : f.records[r] <= setups
                                     /\ run[p].current.records[r] <= setups
    BY <1>1 DEF CredentialTypes, Numbered, RunNumbered
  <1>38. state.known \subseteq c.state.known \cup ghost'.evicted
    BY <1>18, <1>25, <1>28, <1>29, <1>35
  <1>39. /\ SeenStored(c.state) /\ TrueOf(c.state) /\ c.at \in {"writing", "saving"}
         /\ \A r \in c.valid \cup c.roles : password[r] = c.file.records[r]
         /\ users'["cleo"].state = "checked" => \A r \in Sandbox!Roles :
              password[r] = users'["cleo"].records[r] => password[r] = c.file.records[r]
    BY <1>1, <1>2, <1>15, <1>27, <1>29, <1>31, <1>32, <1>33, <1>34
  <1>40. \A r \in Sandbox!Roles : /\ \A h \in Sandbox!Homes : users'[h].records[r] <= setups
                                  /\ \A f \in backups' : f.records[r] <= setups
                                  /\ c.file.records[r] <= setups
                                  /\ c.current.records[r] <= setups
    BY <1>27, <1>29, <1>30, <1>37
  <1> HIDE DEF CredentialInv
  <1> QED
    BY <1>1, <1>17, <1>29, <1>35, <1>36, <1>37, <1>38, <1>39, <1>40, CredentialHolderKeeps,
         ZenonT(30)

\* Every step keeps the invariant.
LEMMA CredentialStep ==
    CredentialValues /\ CredentialInv /\ [Sandbox!Next]_(Sandbox!vars) => CredentialInv'
  <1> SUFFICES ASSUME CredentialValues, CredentialInv, [Sandbox!Next]_(Sandbox!vars)
               PROVE  CredentialInv'
    OBVIOUS
  <1>1. CASE UNCHANGED Sandbox!vars
    <2>1. UNCHANGED <<password, setOn, users, denied, setup, setups, mutex, lock, state, backups,
                      run, runs, failures, ghost, faults>>
      BY <1>1 DEF Sandbox!vars
    <2>2. CredentialTypes' /\ Numbered' /\ Excluded'
      BY <2>1 DEF CredentialInv, CredentialTypes, Sandbox!TypeOK, Numbered, RunNumbered,
         SeenStored, Seen, Excluded, RunExcluded
    <2>3. Remembered' /\ Improves' /\ TriedOnce'
      BY <2>1 DEF CredentialInv, Remembered, TrueOf, Improves, RunImproves, Sandbox!NeverWorse,
         TriedOnce, Told, Reported
    <2> QED
      BY <2>2, <2>3 DEF CredentialInv
  <1>2. CASE \E p \in Processes, o \in {"reconcile", "restore"} : Sandbox!Begin(p, o)
    BY <1>2, CredentialBeginKeeps
  <1>3. CASE \E p \in Processes : Sandbox!TakeLock(p) \/ Sandbox!Look(p) \/ Sandbox!TakeMutex(p)
    BY <1>3, CredentialTakeLockKeeps, CredentialLookKeeps, CredentialTakeMutexKeeps
  <1>4. CASE \E p \in Processes : Sandbox!Check(p) \/ Sandbox!Choose(p) \/ Sandbox!Write(p)
    BY <1>4, CredentialCheckKeeps, CredentialChooseKeeps, CredentialWriteKeeps
  <1>5. CASE \E p \in Processes :
               Sandbox!Protect(p) \/ Sandbox!Reread(p) \/ Sandbox!Save(p) \/ Sandbox!Crash(p)
    BY <1>5, CredentialProtectKeeps, CredentialRereadKeeps, CredentialSaveKeeps,
       CredentialCrashKeeps
  <1>6. CASE \/ Sandbox!CodexDeletes \/ \E h \in Sandbox!Homes : Sandbox!SetupBegins(h)
             \/ (\E r \in Sandbox!Roles : Sandbox!SetsPassword(r)) \/ Sandbox!SetupEnds
    BY <1>6, CredentialCodexDeletesKeeps, CredentialSetupBeginsKeeps,
       CredentialSetsPasswordKeeps, CredentialSetupEndsKeeps
  <1> QED
    BY <1>1, <1>2, <1>3, <1>4, <1>5, <1>6 DEF Sandbox!Next

\* The invariant contains what is to be shown.
LEMMA CredentialInvKept == CredentialValues /\ CredentialInv => Sandbox!CredentialsKept
  <1> SUFFICES ASSUME CredentialValues, CredentialInv
               PROVE  Sandbox!CredentialsKept
    OBVIOUS
  <1>1. Sandbox!TypeOK /\ Sandbox!NeverWorse
    BY DEF CredentialInv, CredentialTypes, Improves
  <1>2. Sandbox!RemembersTruly
    <2>1. TrueOf(state)
      BY DEF CredentialInv, Remembered
    <2> QED
      BY <2>1 DEF TrueOf, Sandbox!RemembersTruly, Sandbox!Unchanged, Sandbox!Works
  <1>3. Sandbox!OneFailedLogon
    BY DEF CredentialInv, TriedOnce, Sandbox!OneFailedLogon
  <1> QED
    BY <1>1, <1>2, <1>3 DEF Sandbox!CredentialsKept

\* The passwords of the sandbox accounts: what is remembered as validated works
\* as long as the times of the passwords are those remembered with it, what is
\* remembered as failing fails, a record that works is never replaced by one that
\* does not, and a stale record costs one failed logon until it is forgotten for
\* newer ones, as long as the runs of the coordinator get to their end.
\* (codex_sandbox_credentials.py:516-613)
THEOREM CredentialsAreKept == CredentialValues => (Sandbox!Spec => []Sandbox!CredentialsKept)
  <1> SUFFICES ASSUME CredentialValues
               PROVE  Sandbox!Spec => []Sandbox!CredentialsKept
    OBVIOUS
  <1>1. Sandbox!Init => CredentialInv
    BY CredentialInit
  <1>2. CredentialInv /\ [Sandbox!Next]_(Sandbox!vars) => CredentialInv'
    BY CredentialStep
  <1>3. CredentialInv => Sandbox!CredentialsKept
    BY CredentialInvKept
  <1> QED
    BY <1>1, <1>2, <1>3, PTL DEF Sandbox!Spec

\* The invariant, of the behaviours of a suite that are of this part.
SandboxPart == part = "sandbox" => CredentialInv

\* What a run checks of the passwords, for any number of setups, runs and records
\* that are remembered: one that works is not replaced by one that does not, what
\* is remembered of them is so, and one that fails is tried once while it is
\* remembered and the runs get to their end.
THEOREM PasswordsAreKept == CredentialValues => (SuiteSpec => []CredentialsKept)
  <1> SUFFICES ASSUME CredentialValues
               PROVE  SuiteSpec => []CredentialsKept
    OBVIOUS
  <1>1. SuiteInit => SandboxPart
    BY CredentialInit DEF SuiteInit, SandboxPart
  <1>2. SandboxPart /\ [SuiteNext]_suite => SandboxPart'
    <2> SUFFICES ASSUME part' = "sandbox", SandboxPart, [SuiteNext]_suite
                 PROVE  CredentialInv'
      BY DEF SandboxPart
    <2>1. part = "sandbox" /\ [Sandbox!Next]_(Sandbox!vars)
      <3>1. CASE SuiteNext
        BY <3>1 DEF SuiteNext
      <3>2. CASE UNCHANGED suite
        BY <3>2 DEF suite, sandbox, Sandbox!vars
      <3> QED
        BY <3>1, <3>2
    <2> QED
      BY <2>1, CredentialStep DEF SandboxPart
  <1>3. SandboxPart => CredentialsKept
    BY CredentialInvKept DEF SandboxPart, CredentialsKept
  <1> QED
    BY <1>1, <1>2, <1>3, PTL DEF SuiteSpec

-----------------------------------------------------------------------------
(* The timing record of a run (Timing).                                     *)

\* What a span and the attempt can be at, what a flush holds and what it writes.
SpanStates == {"none", "running"} \cup Times!Ended
Statuses   == {"running"} \cup Times!Ended
Flushes    == [who : {"ticker", "final"}, at : {"save", "emit"}, spans : SUBSET Spans,
               saved : BOOLEAN]
Snapshots  == [status : Statuses, spans : UNION {[S -> SpanStates] : S \in SUBSET Spans}]

\* What the constant is taken to be: the mark of nothing is neither.
TimeValues == Nil \notin Flushes \cup Snapshots

TimeTypes ==
    /\ Times!TypeOK
    /\ span \in [Spans -> SpanStates] /\ status \in Statuses
    /\ body = [at |-> body.at, shielded |-> body.shielded]
    /\ saving # Nil => saving \in Flushes
    /\ thread # Nil => thread \in Snapshots
    /\ store \in [status : Statuses \cup {"none"}, spans : [Spans -> SpanStates]]

\* The measured code alone changes the record; it has not ended well before it
\* exits, and leaves no span open.
Measured ==
    /\ body.at = "work" => status # "completed"
    /\ body.at \notin {"work", "torn"} => Times!Running = {}
    /\ body.at \in {"final", "left", "unsaved", "torn"} => ticker = "done"

\* Who is in flush, and what the thread then writes.
Flushing ==
    /\ saving # Nil => /\ saving.who = "ticker" => ticker = "flush"
                       /\ saving.who = "final" => body.at = "final"
                       /\ saving.at = "save" <=> thread # Nil
                       /\ saving.at = "save" => saving.spans = DOMAIN thread.spans
    /\ saving = Nil /\ body.at # "torn" => thread = Nil
    /\ body.at = "final" => saving # Nil
    /\ body.at \in {"left", "unsaved", "torn"} => saving = Nil

\* What is written is as the record was, and is marked if it changed since.
AsTaken ==
    body.at # "torn" /\ thread # Nil =>
      \A s \in DOMAIN thread.spans : s \in dirty \/ thread.spans[s] = span[s]

\* A span that has not begun is nowhere.
NotBegun ==
    \A s \in Spans : span[s] = "none" =>
      s \notin dirty /\ store.spans[s] = "none" /\ (thread # Nil => s \notin DOMAIN thread.spans)

\* The final snapshot has the status, and nothing changes after it.
FinalHolds ==
    /\ body.at = "final" /\ saving.saved =>
         /\ dirty = {}
         /\ saving.at = "save" => thread.status = status
         /\ saving.at = "emit" => store.status = status
    /\ body.at = "left" => dirty = {} /\ store.status = status

\* Nothing is said to be completed before it is.
NoEarlyEnd ==
    /\ thread # Nil /\ thread.status = "completed" => status = "completed"
    /\ store.status = "completed" => status = "completed"

TimeInv ==
    /\ TimeTypes /\ Measured /\ Flushing /\ AsTaken /\ NotBegun /\ FinalHolds /\ NoEarlyEnd
    /\ Times!NothingForgotten

\* What is in the store and in a thread, as functions.
LEMMA StoreOf ==
  ASSUME TimeTypes
  PROVE  /\ store = [status |-> store.status, spans |-> store.spans]
         /\ store.spans \in [Spans -> SpanStates]
         /\ thread # Nil => /\ thread = [status |-> thread.status, spans |-> thread.spans]
                           /\ thread.status \in Statuses
                           /\ DOMAIN thread.spans \subseteq Spans
                           /\ \A s \in DOMAIN thread.spans : thread.spans[s] \in SpanStates
         /\ saving # Nil =>
              /\ saving = [who |-> saving.who, at |-> saving.at, spans |-> saving.spans,
                           saved |-> saving.saved]
              /\ saving.who \in {"ticker", "final"} /\ saving.at \in {"save", "emit"}
              /\ saving.spans \subseteq Spans /\ saving.saved \in BOOLEAN
  BY DEF TimeTypes, Snapshots, Flushes

\* A snapshot that is taken is one.
LEMMA SnapshotTaken ==
  ASSUME TimeTypes
  PROVE  /\ Times!Snapshot \in Snapshots
         /\ Times!Snapshot.status = status
         /\ DOMAIN Times!Snapshot.spans = dirty \cup Times!Running
         /\ \A s \in dirty \cup Times!Running : Times!Snapshot.spans[s] = span[s]
  <1> DEFINE S == dirty \cup Times!Running
             f == [s \in S |-> span[s]]
  <1>1. S \in SUBSET Spans /\ f \in [S -> SpanStates]
    BY DEF TimeTypes, Times!TypeOK, Times!Running
  <1>2. f \in UNION {[R -> SpanStates] : R \in SUBSET Spans}
    BY <1>1
  <1>3. Times!Snapshot = [status |-> status, spans |-> f]
    BY DEF Times!Snapshot
  <1>4. DOMAIN f = S /\ \A s \in S : f[s] = span[s]
    OBVIOUS
  <1> HIDE DEF f
  <1> QED
    BY <1>2, <1>3, <1>4 DEF Snapshots, TimeTypes

\* A span starts.
LEMMA TimeStartSpanKeeps ==
  ASSUME TimeValues, TimeInv, NEW s \in Spans, Times!StartSpan(s)
  PROVE  TimeInv'
  <1> USE DEF TimeInv
  <1>1. TimeTypes'
    BY DEF Times!StartSpan, TimeTypes, Times!TypeOK, SpanStates
  <1>2. Measured' /\ Flushing'
    BY DEF Times!StartSpan, Measured, Flushing
  <1>3. AsTaken'
    BY DEF Times!StartSpan, AsTaken
  <1>4. NotBegun'
    BY DEF Times!StartSpan, TimeTypes, NotBegun
  <1>5. FinalHolds' /\ NoEarlyEnd'
    BY DEF Times!StartSpan, FinalHolds, NoEarlyEnd
  <1>6. Times!NothingForgotten'
    BY DEF Times!StartSpan, Times!NothingForgotten
  <1> QED
    BY <1>1, <1>2, <1>3, <1>4, <1>5, <1>6

\* A span ends.
LEMMA TimeEndSpanKeeps ==
  ASSUME TimeValues, TimeInv, NEW s \in Spans, NEW how \in Times!Ended, Times!EndSpan(s, how)
  PROVE  TimeInv'
  <1> USE DEF TimeInv
  <1>1. TimeTypes'
    BY DEF Times!EndSpan, TimeTypes, Times!TypeOK, SpanStates
  <1>2. Measured' /\ Flushing'
    BY DEF Times!EndSpan, Measured, Flushing
  <1>3. AsTaken'
    BY DEF Times!EndSpan, AsTaken
  <1>4. NotBegun'
    BY DEF Times!EndSpan, Times!Ended, NotBegun
  <1>5. FinalHolds' /\ NoEarlyEnd'
    BY DEF Times!EndSpan, FinalHolds, NoEarlyEnd
  <1>6. Times!NothingForgotten'
    BY DEF Times!EndSpan, Times!NothingForgotten
  <1> QED
    BY <1>1, <1>2, <1>3, <1>4, <1>5, <1>6

\* A phase starts and ends the one before.
LEMMA TimePhaseKeeps ==
  ASSUME TimeValues, TimeInv, NEW s \in Spans, Times!Phase(s)
  PROVE  TimeInv'
  <1> USE DEF TimeInv
  <1>1. TimeTypes'
    BY DEF Times!Phase, TimeTypes, Times!TypeOK, SpanStates, Times!Ended
  <1>2. Measured' /\ Flushing'
    BY DEF Times!Phase, Measured, Flushing
  <1>3. AsTaken'
    BY StoreOf DEF Times!Phase, AsTaken
  <1>4. NotBegun'
    BY DEF Times!Phase, NotBegun
  <1>5. FinalHolds' /\ NoEarlyEnd'
    BY DEF Times!Phase, FinalHolds, NoEarlyEnd
  <1>6. Times!NothingForgotten'
    BY DEF Times!Phase, Times!NothingForgotten
  <1> QED
    BY <1>1, <1>2, <1>3, <1>4, <1>5, <1>6

\* An error is reported.
LEMMA TimeErrorEventKeeps ==
  ASSUME TimeValues, TimeInv, Times!ErrorEvent
  PROVE  TimeInv'
  <1> USE DEF TimeInv
  <1>1. TimeTypes'
    BY DEF Times!ErrorEvent, TimeTypes, Times!TypeOK, Statuses, Times!Ended
  <1>2. Measured' /\ Flushing'
    BY DEF Times!ErrorEvent, Measured, Flushing
  <1>3. AsTaken'
    BY DEF Times!ErrorEvent, AsTaken
  <1>4. NotBegun'
    BY DEF Times!ErrorEvent, NotBegun
  <1>5. FinalHolds' /\ NoEarlyEnd'
    BY DEF Times!ErrorEvent, FinalHolds, NoEarlyEnd
  <1>6. Times!NothingForgotten'
    BY DEF Times!ErrorEvent, Times!NothingForgotten
  <1> QED
    BY <1>1, <1>2, <1>3, <1>4, <1>5, <1>6

\* The measured code is left.
LEMMA TimeExitKeeps ==
  ASSUME TimeValues, TimeInv, NEW how \in Times!Ended, Times!Exit(how)
  PROVE  TimeInv'
  <1> USE DEF TimeInv
  <1>1. TimeTypes'
    BY DEF Times!Exit, Times!Running, TimeTypes, Times!TypeOK, SpanStates, Statuses, Times!Ended
  <1>2. Measured' /\ Flushing'
    BY DEF Times!Exit, Times!Running, Measured, Flushing
  <1>3. AsTaken'
    BY StoreOf DEF Times!Exit, Times!Running, AsTaken
  <1>4. NotBegun'
    BY DEF Times!Exit, Times!Running, NotBegun
  <1>5. FinalHolds' /\ NoEarlyEnd'
    BY DEF Times!Exit, FinalHolds, NoEarlyEnd, Measured
  <1>6. Times!NothingForgotten'
    BY DEF Times!Exit, Times!Running, Times!NothingForgotten
  <1> QED
    BY <1>1, <1>2, <1>3, <1>4, <1>5, <1>6

\* The ticker takes a snapshot.
LEMMA TimeTickKeeps ==
  ASSUME TimeValues, TimeInv, Times!Tick
  PROVE  TimeInv'
  <1> USE DEF TimeInv
  <1>1. TimeTypes'
    BY SnapshotTaken DEF Times!Tick, Times!Running, Times!Flush, TimeTypes, Times!TypeOK, Flushes
  <1>2. Measured' /\ Flushing'
    <2>1. /\ saving = Nil /\ thread = Nil /\ thread' = Times!Snapshot
          /\ saving' = [who |-> "ticker", at |-> "save", spans |-> DOMAIN Times!Snapshot.spans,
                        saved |-> TRUE]
      BY DEF Times!Tick, Times!Flush
    <2>2. thread' # Nil /\ DOMAIN Times!Snapshot.spans \subseteq Spans
      BY <2>1, SnapshotTaken DEF TimeValues, TimeTypes, Times!TypeOK, Times!Running
    <2>3. saving' # Nil
      <3>1. saving' \in Flushes
        BY <2>1, <2>2 DEF Flushes
      <3> QED
        BY <3>1 DEF TimeValues
    <2>4. saving'.spans = DOMAIN thread'.spans
      BY <2>1
    <2>5. Measured'
      BY DEF Times!Tick, Times!Flush, Times!Running, Measured
    <2>6. /\ saving'.who = "ticker" /\ saving'.at = "save" /\ body'.at # "left"
          /\ body'.at \notin {"unsaved", "torn"}
          /\ ticker' = "flush" /\ body'.at # "final"
      BY <2>1 DEF Times!Tick, Measured, TimeTypes, Times!TypeOK
    <2> QED
      BY <2>2, <2>3, <2>4, <2>5, <2>6 DEF Flushing
  <1>3. AsTaken'
    BY SnapshotTaken DEF Times!Tick, Times!Flush, AsTaken
  <1>4. NotBegun'
    BY SnapshotTaken DEF Times!Tick, Times!Running, Times!Flush, NotBegun
  <1>5. FinalHolds' /\ NoEarlyEnd'
    BY SnapshotTaken DEF Times!Tick, Times!Flush, FinalHolds, NoEarlyEnd
  <1>6. Times!NothingForgotten'
    BY SnapshotTaken DEF Times!Tick, Times!Flush, Times!NothingForgotten, TimeValues
  <1> QED
    BY <1>1, <1>2, <1>3, <1>4, <1>5, <1>6

\* The final snapshot is taken.
LEMMA TimeFinalKeeps ==
  ASSUME TimeValues, TimeInv, Times!Final
  PROVE  TimeInv'
  <1> USE DEF TimeInv
  <1>1. TimeTypes'
    BY SnapshotTaken DEF Times!Final, Times!Running, Times!Flush, TimeTypes, Times!TypeOK, Flushes
  <1>2. Measured' /\ Flushing'
    <2>1. /\ saving = Nil /\ thread = Nil /\ thread' = Times!Snapshot
          /\ saving' = [who |-> "final", at |-> "save", spans |-> DOMAIN Times!Snapshot.spans,
                        saved |-> TRUE]
      BY DEF Times!Final, Times!Flush
    <2>2. thread' # Nil /\ DOMAIN Times!Snapshot.spans \subseteq Spans
      BY <2>1, SnapshotTaken DEF TimeValues, TimeTypes, Times!TypeOK, Times!Running
    <2>3. saving' # Nil
      <3>1. saving' \in Flushes
        BY <2>1, <2>2 DEF Flushes
      <3> QED
        BY <3>1 DEF TimeValues
    <2>4. saving'.spans = DOMAIN thread'.spans
      BY <2>1
    <2>5. Measured'
      BY DEF Times!Final, Times!Flush, Times!Running, Measured
    <2>6. /\ saving'.who = "final" /\ saving'.at = "save" /\ body'.at # "left"
          /\ body'.at \notin {"unsaved", "torn"}
          /\ body'.at = "final"
      BY <2>1 DEF Times!Final, Measured, TimeTypes, Times!TypeOK
    <2> QED
      BY <2>2, <2>3, <2>4, <2>5, <2>6 DEF Flushing
  <1>3. AsTaken'
    BY SnapshotTaken DEF Times!Final, Times!Flush, AsTaken
  <1>4. NotBegun'
    BY SnapshotTaken DEF Times!Final, Times!Running, Times!Flush, NotBegun
  <1>5. FinalHolds' /\ NoEarlyEnd'
    BY SnapshotTaken DEF Times!Final, Times!Flush, FinalHolds, NoEarlyEnd
  <1>6. Times!NothingForgotten'
    BY SnapshotTaken DEF Times!Final, Times!Flush, Times!NothingForgotten, TimeValues
  <1> QED
    BY <1>1, <1>2, <1>3, <1>4, <1>5, <1>6

\* The ticker wakes up.
LEMMA TimeWakesKeeps ==
  ASSUME TimeValues, TimeInv, Times!Wakes
  PROVE  TimeInv'
  <1> USE DEF TimeInv
  <1>1. TimeTypes'
    BY DEF Times!Wakes, Times!recorder, TimeTypes, Times!TypeOK
  <1>2. Measured' /\ Flushing'
    BY DEF Times!Wakes, Times!recorder, Times!Running, Measured, Flushing
  <1>3. AsTaken'
    BY DEF Times!Wakes, Times!recorder, AsTaken
  <1>4. NotBegun'
    BY DEF Times!Wakes, Times!recorder, NotBegun
  <1>5. FinalHolds' /\ NoEarlyEnd'
    BY DEF Times!Wakes, Times!recorder, FinalHolds, NoEarlyEnd
  <1>6. Times!NothingForgotten'
    BY DEF Times!Wakes, Times!recorder, Times!NothingForgotten
  <1> QED
    BY <1>1, <1>2, <1>3, <1>4, <1>5, <1>6

\* A snapshot is written.
LEMMA TimeThreadWritesKeeps ==
  ASSUME TimeValues, TimeInv, Times!ThreadWrites
  PROVE  TimeInv'
  <1> USE DEF TimeInv
  <1>1. TimeTypes'
    BY DEF Times!ThreadWrites, Times!recorder, Times!Written, TimeTypes, Times!TypeOK, Flushes,
       Snapshots
  <1>2. Measured' /\ Flushing'
    BY DEF Times!ThreadWrites, Times!recorder, Times!Running, TimeTypes, Measured, Flushing,
       Flushes, TimeValues
  <1>3. AsTaken'
    BY DEF Times!ThreadWrites, AsTaken
  <1>4. NotBegun'
    BY DEF Times!ThreadWrites, Times!recorder, Times!Written, NotBegun
  <1>5. FinalHolds' /\ NoEarlyEnd'
    BY DEF Times!ThreadWrites, Times!recorder, Times!Written, FinalHolds, NoEarlyEnd, Flushing
  <1>6. Times!NothingForgotten'
    BY DEF Times!ThreadWrites, Times!recorder, Times!Written, Times!NothingForgotten, AsTaken
  <1> QED
    BY <1>1, <1>2, <1>3, <1>4, <1>5, <1>6

\* A write fails.
LEMMA TimeThreadFailsKeeps ==
  ASSUME TimeValues, TimeInv, Times!ThreadFails
  PROVE  TimeInv'
  <1> USE DEF TimeInv
  <1>0. ASSUME saving # Nil, saving.at = "save"
        PROVE  TimeTypes' /\ Measured' /\ Flushing'
    <2>1. /\ dirty' = dirty \cup saving.spans /\ thread' = Nil
          /\ saving' = [saving EXCEPT !.at = "emit", !.saved = FALSE]
          /\ UNCHANGED <<span, phase, status, body, ticker, stopped, store>>
      BY <1>0 DEF Times!ThreadFails
    <2>2. saving' = [who |-> saving.who, at |-> "emit", spans |-> saving.spans, saved |-> FALSE]
      BY <1>0, <2>1, StoreOf
    <2>3. saving' \in Flushes
      BY <1>0, <2>2, StoreOf DEF Flushes
    <2>4. TimeTypes'
      BY <1>0, <2>1, <2>3, StoreOf DEF TimeTypes, Times!TypeOK
    <2>5. Measured' /\ Flushing'
      BY <1>0, <2>1, <2>2, <2>3 DEF TimeValues, Measured, Flushing, Times!Running
    <2> QED
      BY <2>4, <2>5
  <1>1. TimeTypes' /\ Measured' /\ Flushing'
    <2>1. CASE ~(saving # Nil /\ saving.at = "save")
      <3>1. thread' = Nil
            /\ UNCHANGED <<span, dirty, saving, phase, status, body, ticker, stopped, store>>
        BY <2>1 DEF Times!ThreadFails
      <3>2. TimeTypes'
        BY <3>1 DEF TimeTypes, Times!TypeOK
      <3>3. Measured' /\ Flushing'
        BY <2>1, <3>1 DEF Measured, Flushing, Times!Running
      <3> QED
        BY <3>2, <3>3
    <2> QED
      BY <1>0, <2>1
  <1>3. AsTaken'
    BY DEF Times!ThreadFails, AsTaken
  <1>4. NotBegun'
    BY DEF Times!ThreadFails, NotBegun, Flushing
  <1>5. FinalHolds' /\ NoEarlyEnd'
    BY StoreOf DEF Times!ThreadFails, Times!recorder, Times!bounds, Times!Running, Times!Snapshot,
       Times!Flush, Times!Written, TimeTypes, Times!TypeOK, SpanStates, Statuses, Times!Ended,
       FinalHolds, NoEarlyEnd, Measured, Flushing, Flushes
  <1>6. Times!NothingForgotten'
    BY DEF Times!ThreadFails, Times!NothingForgotten, Flushing
  <1> QED
    BY <1>1, <1>3, <1>4, <1>5, <1>6

\* A flush ends.
LEMMA TimeEmitKeeps ==
  ASSUME TimeValues, TimeInv, Times!Emit
  PROVE  TimeInv'
  <1> USE DEF TimeInv
  <1>1. TimeTypes'
    BY DEF Times!Emit, Times!recorder, TimeTypes, Times!TypeOK
  <1>2. Measured' /\ Flushing'
    BY DEF Times!Emit, Times!recorder, Times!Running, TimeTypes, Measured, Flushing, Flushes
  <1>3. AsTaken'
    BY DEF Times!Emit, AsTaken, Flushing
  <1>4. NotBegun'
    BY DEF Times!Emit, Times!recorder, NotBegun
  <1>5. FinalHolds' /\ NoEarlyEnd'
    BY DEF Times!Emit, Times!recorder, TimeTypes, FinalHolds, NoEarlyEnd, Measured, Flushing,
       Flushes
  <1>6. Times!NothingForgotten'
    BY DEF Times!Emit, Times!recorder, Times!NothingForgotten, Flushing
  <1> QED
    BY <1>1, <1>2, <1>3, <1>4, <1>5, <1>6

\* The drain is cancelled.
LEMMA TimeCancelDrainKeeps ==
  ASSUME TimeValues, TimeInv, Times!CancelDrain
  PROVE  TimeInv'
  <1> USE DEF TimeInv
  <1>1. TimeTypes'
    BY DEF Times!CancelDrain, Times!recorder, TimeTypes, Times!TypeOK
  <1>2. Measured' /\ Flushing'
    BY DEF Times!CancelDrain, Times!recorder, Times!Running, TimeTypes, Measured, Flushing
  <1>3. AsTaken'
    BY DEF Times!CancelDrain, Times!recorder, AsTaken
  <1>4. NotBegun'
    BY DEF Times!CancelDrain, Times!recorder, NotBegun
  <1>5. FinalHolds' /\ NoEarlyEnd'
    BY DEF Times!CancelDrain, Times!recorder, TimeTypes, FinalHolds, NoEarlyEnd
  <1>6. Times!NothingForgotten'
    BY DEF Times!CancelDrain, Times!recorder, Times!NothingForgotten
  <1> QED
    BY <1>1, <1>2, <1>3, <1>4, <1>5, <1>6

\* The process stops.
LEMMA TimeCrashKeeps ==
  ASSUME TimeValues, TimeInv, Times!Crash
  PROVE  TimeInv'
  <1> USE DEF TimeInv
  <1>1. TimeTypes'
    BY DEF Times!Crash, Times!recorder, TimeTypes, Times!TypeOK
  <1>2. Measured' /\ Flushing'
    BY DEF Times!Crash, Measured, Flushing
  <1>3. AsTaken'
    BY DEF Times!Crash, AsTaken
  <1>4. NotBegun'
    BY DEF Times!Crash, Times!recorder, NotBegun
  <1>5. FinalHolds' /\ NoEarlyEnd'
    BY DEF Times!Crash, Times!recorder, FinalHolds, NoEarlyEnd
  <1>6. Times!NothingForgotten'
    BY DEF Times!Crash, Times!NothingForgotten
  <1> QED
    BY <1>1, <1>2, <1>3, <1>4, <1>5, <1>6

\* The invariant holds at the start: nothing is taken yet.
LEMMA TimeInit == TimeValues /\ Times!Init => TimeInv
  BY DEF Times!Init, TimeInv, TimeTypes, Times!TypeOK, SpanStates, Statuses, Measured, Flushing,
     AsTaken, NotBegun, FinalHolds, NoEarlyEnd, Times!NothingForgotten

\* Every step keeps it.
LEMMA TimeStep ==
  ASSUME TimeValues, TimeInv, [Times!Next]_(Times!vars)
  PROVE  TimeInv'
  <1>1. CASE Times!Next
    BY <1>1, TimeStartSpanKeeps, TimeEndSpanKeeps, TimePhaseKeeps, TimeErrorEventKeeps,
       TimeExitKeeps, TimeTickKeeps, TimeFinalKeeps, TimeWakesKeeps, TimeThreadWritesKeeps,
       TimeThreadFailsKeeps, TimeEmitKeeps, TimeCancelDrainKeeps, TimeCrashKeeps
       DEF Times!Next
  <1>2. CASE UNCHANGED Times!vars
    BY <1>2 DEF Times!vars, TimeInv, TimeTypes, Times!TypeOK, Times!Running, Measured, Flushing,
       AsTaken, NotBegun, FinalHolds, NoEarlyEnd, Times!NothingForgotten
  <1> QED
    BY <1>1, <1>2

\* The invariant says what is in the store at last.
LEMMA TimeImplies == TimeInv => Times!TimedWhole
  <1> SUFFICES ASSUME TimeInv
               PROVE  Times!TimedWhole
    OBVIOUS
  <1>1. body.at = "left" => store.status = status /\ store.spans = span
    <2> SUFFICES ASSUME body.at = "left"
                 PROVE  store.status = status /\ store.spans = span
      OBVIOUS
    <2>1. thread = Nil /\ dirty = {} /\ store.status = status /\ Times!Running = {}
      BY DEF TimeInv, Flushing, FinalHolds, Measured
    <2>2. \A s \in Spans : store.spans[s] = span[s]
      BY <2>1 DEF TimeInv, Times!NothingForgotten, NotBegun, Times!Running
    <2>3. store.spans \in [Spans -> SpanStates] /\ span \in [Spans -> SpanStates]
      BY StoreOf DEF TimeInv, TimeTypes
    <2> QED
      BY <2>1, <2>2, <2>3
  <1>2. Times!Read = "completed" => status = "completed"
    BY DEF Times!Read, TimeInv, NoEarlyEnd
  <1> QED
    BY <1>1, <1>2 DEF Times!TimedWhole, Times!StoredWhole, TimeInv, TimeTypes

\* The record of a turn is stored whole, and only what ended well is read as completed.
THEOREM TheRecordIsWhole == TimeValues => (Times!Spec => []Times!TimedWhole)
  <1> SUFFICES ASSUME TimeValues
               PROVE  Times!Spec => []Times!TimedWhole
    OBVIOUS
  <1>1. TimeInv /\ [Times!Next]_(Times!vars) => TimeInv'
    BY TimeStep
  <1> QED
    BY TimeInit, <1>1, TimeImplies, PTL DEF Times!Spec

\* The invariant, of the behaviours of a suite that are of this part.
TimePart == part = "timing" => TimeInv

\* What a run checks of the timing record, for any constants: the store gets every
\* span as it ended, and the status of the attempt.
THEOREM RecordsAreWhole == TimeValues => (SuiteSpec => []TimedWhole)
  <1> SUFFICES ASSUME TimeValues
               PROVE  SuiteSpec => []TimedWhole
    OBVIOUS
  <1>1. SuiteInit => TimePart
    BY TimeInit DEF SuiteInit, TimePart
  <1>2. TimePart /\ [SuiteNext]_suite => TimePart'
    <2> SUFFICES ASSUME part' = "timing", TimePart, [SuiteNext]_suite
                 PROVE  TimeInv'
      BY DEF TimePart
    <2>1. part = "timing" /\ [Times!Next]_(Times!vars)
      <3>1. CASE SuiteNext
        BY <3>1 DEF SuiteNext
      <3>2. CASE UNCHANGED suite
        BY <3>2 DEF suite, timing, Times!vars
      <3> QED
        BY <3>1, <3>2
    <2> QED
      BY <2>1, TimeStep DEF TimePart
  <1>3. TimePart => TimedWhole
    BY TimeImplies DEF TimePart, TimedWhole
  <1> QED
    BY <1>1, <1>2, <1>3, PTL DEF SuiteSpec

==============================================================================
