-------------------------------- MODULE Dream --------------------------------
(***************************************************************************)
(* DreamAgent._consolidate: one session's events become preferences in its *)
(* project's MEMORY.md, block by block with a checkpoint (dream.json), and *)
(* are published once through the memory repository's journal and Git.     *)
(*                                                                         *)
(* The sessions share one project, whose lock a consolidation or a rewind  *)
(* holds.  An event states one preference and is one block; the preference *)
(* stands for the entry the model extracts from it.  The file is the set   *)
(* of its title and entries; an absent file reads as the empty one.  The user    *)
(* edits the file with any editor, without a lock.  Conflicts between      *)
(* preferences and the work snapshot are left out.                         *)
(***************************************************************************)
EXTENDS Naturals, Sequences, FiniteSets, SequencesExt

CONSTANTS
    Sessions,   \* sessions of the project
    MaxSeq,     \* bound: events in the logs together
    MaxEdits,   \* bound: edits the user makes to MEMORY.md
    MaxFaults   \* bound: crashes, failures and cancellations

ASSUME DreamAssumption ==
    /\ IsFiniteSet(Sessions)
    /\ MaxSeq \in Nat /\ MaxEdits \in Nat /\ MaxFaults \in Nat

VARIABLES
    log,        \* the events of each session: "pref" or "rewind"
    ckpt,       \* dream.json of each session
    processed,  \* processed_hash of each source: a length of its log, or 0
    file,       \* MEMORY.md
    head,       \* MEMORY.md at the repository's HEAD
    journal,    \* .git/cleo-publish.json
    job,        \* the consolidation that holds the project lock
    edits,      \* how many edits the user made
    faults,     \* how many faults happened
    ever,       \* ghost: preferences some finished publication wrote
    own,        \* ghost: the user wrote his entry and did not delete it; he
                \* saved the file while a publication was about to write it
    edited      \* ghost: the file was edited since a commit last took it up

vars == <<log, ckpt, processed, file, head, journal, job, edits, faults, ever,
          own, edited>>

Title == <<"title", 0>>                  \* the heading of every file that exists
Mine  == <<"user", 0>>                   \* the entry a user writes
Entries == {Title, Mine} \cup (Sessions \X (1 .. MaxSeq))

None      == [before |-> {}, after |-> {}, on |-> FALSE]
NoPending == [to |-> 0, base |-> {}, done |-> {}, published |-> {Mine}, on |-> FALSE]
Fresh     == [committed |-> 0, pending |-> NoPending, memory |-> {Mine}]
Idle      == [at |-> "idle", s |-> "none", len |-> 0, cand |-> {}]

(* active_events: a marker hides the last visible message before it, that is *)
(* the last one whose later messages do not account for all later markers.  *)
Of(events, kind, from, to) == Cardinality({k \in from .. to : events[k] = kind})
Visible(events) ==
    {i \in DOMAIN events :
        /\ events[i] = "pref"
        /\ \A j \in i .. Len(events) :
              Of(events, "rewind", i + 1, j) <= Of(events, "pref", i + 1, j)}
RewoundAfter(events, to) == \E i \in to + 1 .. Len(events) : events[i] = "rewind"

\* the events of all logs
Positions == {e \in Sessions \X (1 .. MaxSeq) : e[2] <= Len(log[e[1]])}
Full == Cardinality(Positions) >= MaxSeq

Init ==
    /\ log = [s \in Sessions |-> <<>>]
    /\ ckpt = [s \in Sessions |-> Fresh]
    /\ processed = [s \in Sessions |-> 0]
    /\ file = {} /\ head = {} /\ journal = None
    /\ job = Idle
    /\ edits = 0 /\ faults = 0
    /\ ever = {} /\ own = [wrote |-> FALSE, raced |-> FALSE] /\ edited = FALSE

------------------------------------------------------------------------------
(* Around the consolidation.                                                *)

Converse(s) ==
    /\ ~Full
    /\ log' = [log EXCEPT ![s] = Append(@, "pref")]
    /\ UNCHANGED <<ckpt, processed, file, head, journal, job, edits, faults, ever, own, edited>>

\* invalidate_rewound_pending: unpublished work is dropped once a marker is durable
Invalidated(c, events) ==
    IF c.pending.on /\ RewoundAfter(events, c.pending.to)
    THEN [c EXCEPT !.pending = NoPending] ELSE c

\* mutant: the marker is recorded without the project lock
RewindUnlocked(s) ==
    /\ ~Full /\ Visible(log[s]) # {}
    /\ log' = [log EXCEPT ![s] = Append(@, "rewind")]
    /\ ckpt' = [ckpt EXCEPT ![s] = Invalidated(@, log'[s])]
    /\ UNCHANGED <<processed, file, head, journal, job, edits, faults, ever, own, edited>>

\* _record_rewind under the project lock: the marker, then the checkpoint; the
\* process may die between the two
Rewind(s) ==
    /\ job.at = "idle"
    /\ ~Full /\ Visible(log[s]) # {}
    /\ log' = [log EXCEPT ![s] = Append(@, "rewind")]
    /\ \/ ckpt' = [ckpt EXCEPT ![s] = Invalidated(@, log'[s])] /\ UNCHANGED faults
       \/ faults < MaxFaults /\ faults' = faults + 1 /\ UNCHANGED ckpt
    /\ UNCHANGED <<processed, file, head, journal, job, edits, ever, own, edited>>

\* the user adds his entry, deletes any, or deletes the file
UserEdit ==
    /\ edits < MaxEdits
    /\ edits' = edits + 1
    /\ \E e \in file \cup {Mine} :
          /\ file' = IF e = Title THEN {}
                     ELSE IF e \in file THEN file \ {e} ELSE file \cup {Title, e}
          /\ own' = [wrote |-> IF e = Mine THEN e \notin file ELSE own.wrote /\ e # Title,
                     raced |-> own.raced \/ job.at \in {"baseline", "journal", "write"}]
    /\ edited' = TRUE
    /\ UNCHANGED <<log, ckpt, processed, head, journal, job, faults, ever>>

------------------------------------------------------------------------------
(* The repository.                                                          *)

Reconcile == journal.on /\ \/ file \notin {journal.before, journal.after}
                           \/ head = journal.after /\ file # journal.after

\* mutant: a journal left behind is only removed
RecoverForgets ==
    IF ~journal.on THEN UNCHANGED <<file, journal>>
    ELSE ~Reconcile /\ file' = file /\ journal' = None

\* _recover: a journal left behind is finished or undone, unless the file was
\* edited meanwhile
Recover ==
    IF ~journal.on THEN UNCHANGED <<file, journal>>
    ELSE /\ ~Reconcile
         /\ file' = IF head = journal.after THEN file ELSE journal.before
         /\ journal' = None

------------------------------------------------------------------------------
(* One consolidation.                                                       *)

Fault == faults < MaxFaults /\ faults' = faults + 1
Stops == job' = Idle

\* the events are read first, before the memory is
Start(s) ==
    /\ job.at = "idle"
    /\ job' = [Idle EXCEPT !.at = "recover", !.s = s, !.len = Len(log[s])]
    /\ UNCHANGED <<log, ckpt, processed, file, head, journal, edits, faults, ever, own, edited>>

RecoverFirst ==
    /\ job.at = "recover"
    /\ \/ /\ Recover
          /\ job' = [job EXCEPT !.at = "prepare"]
       \/ Reconcile /\ Stops /\ UNCHANGED <<file, journal>>
    /\ UNCHANGED <<log, ckpt, processed, head, edits, faults, ever, own, edited>>

\* the pending snapshot is kept only while the memory is the one it was made
\* from, or the one it published
Resumed(c, initial, len) ==
    IF c.pending.on /\ initial \in {c.pending.base, c.pending.published}
    THEN c.pending
    ELSE [NoPending EXCEPT !.to = len, !.base = initial, !.on = TRUE]

Prepare ==
    LET s == job.s
        c == Invalidated(ckpt[s], SubSeq(log[s], 1, job.len))
    IN
    /\ job.at = "prepare"
    /\ IF processed[s] = job.len /\ c.memory = file
       THEN Stops /\ ckpt' = [ckpt EXCEPT ![s] = c]
       ELSE /\ ckpt' = [ckpt EXCEPT ![s] = [c EXCEPT !.pending = Resumed(c, file, job.len)]]
            /\ job' = [job EXCEPT !.at = "extract"]
    /\ UNCHANGED <<log, processed, file, head, journal, edits, faults, ever, own, edited>>

Pending == ckpt[job.s].pending
Blocks == {i \in Visible(SubSeq(log[job.s], 1, Pending.to)) : i > ckpt[job.s].committed}

\* the model answers for one block, and its result is saved
Extract ==
    /\ job.at = "extract"
    /\ \E i \in Blocks \ Pending.done :
          /\ \A j \in Blocks : j < i => j \in Pending.done
          /\ ckpt' = [ckpt EXCEPT ![job.s].pending.done = @ \cup {i}]
    /\ UNCHANGED <<log, processed, file, head, journal, job, edits, faults, ever, own, edited>>

Candidate == Pending.base \cup {<<job.s, i>> : i \in Blocks}
                          \cup (IF Blocks = {} THEN {} ELSE {Title})

\* the log is read again; what is to be published is saved first
Verify ==
    /\ job.at = "extract"
    /\ Blocks \subseteq Pending.done
    /\ IF RewoundAfter(log[job.s], Pending.to)
       THEN Stops /\ UNCHANGED ckpt
       ELSE /\ job' = [job EXCEPT !.at = "check", !.cand = Candidate]
            /\ ckpt' = [ckpt EXCEPT ![job.s].pending.published = Candidate]
    /\ UNCHANGED <<log, processed, file, head, journal, edits, faults, ever, own, edited>>

\* mutant: the file is not compared with the one the edits were made on
CheckBlind ==
    /\ job.at = "check"
    /\ \/ Reconcile /\ Stops /\ UNCHANGED <<file, journal>>
       \/ Recover /\ job' = [job EXCEPT !.at = "journal"]
    /\ UNCHANGED <<log, ckpt, processed, head, edits, faults, ever, own, edited>>

\* publish: nothing is written unless the file is the one the edits were made on
Check ==
    /\ job.at = "check"
    /\ \/ Reconcile /\ Stops /\ UNCHANGED <<file, journal>>
       \/ /\ Recover
          /\ job' = IF file' # Pending.base
                    THEN IF file' = job.cand /\ head = job.cand
                         THEN [job EXCEPT !.at = "finish"] ELSE Idle
                    ELSE [job EXCEPT !.at = IF job.cand = Pending.base THEN "finish"
                                            ELSE "baseline"]
    /\ UNCHANGED <<log, ckpt, processed, head, edits, faults, ever, own, edited>>

\* a file the user edited becomes history before it is changed
Baseline ==
    /\ job.at = "baseline"
    /\ IF Pending.base \in {{}, head} THEN head' = head /\ job' = [job EXCEPT !.at = "journal"]
       ELSE IF file = head THEN UNCHANGED head /\ Stops    \* Git has nothing to commit
       ELSE head' = file /\ job' = [job EXCEPT !.at = "journal"]
    /\ UNCHANGED <<log, ckpt, processed, file, journal, edits, faults, ever, own, edited>>

WriteJournal ==
    /\ job.at = "journal"
    /\ journal' = [before |-> Pending.base, after |-> job.cand, on |-> TRUE]
    /\ job' = [job EXCEPT !.at = "write"]
    /\ UNCHANGED <<log, ckpt, processed, file, head, edits, faults, ever, own, edited>>

WriteFile ==
    /\ job.at = "write"
    /\ file' = job.cand
    /\ job' = [job EXCEPT !.at = "commit"]
    /\ UNCHANGED <<log, ckpt, processed, head, journal, edits, faults, ever, own, edited>>

\* git stages and commits what the file holds now
Commit ==
    /\ job.at = "commit" /\ file # head
    /\ head' = file
    /\ ever' = ever \cup (job.cand \ {Title, Mine})
    /\ edited' = FALSE
    /\ job' = [job EXCEPT !.at = "unjournal"]
    /\ UNCHANGED <<log, ckpt, processed, file, journal, edits, faults, own>>

\* writing or committing fails (Git refuses to commit what HEAD holds already):
\* the publication is settled from its journal at once, if it can be
PublishFails ==
    /\ job.at \in {"write", "commit"}
    /\ IF job.at = "commit" /\ file = head THEN UNCHANGED faults ELSE Fault
    /\ Recover \/ (Reconcile /\ UNCHANGED <<file, journal>>)
    /\ Stops
    /\ UNCHANGED <<log, ckpt, processed, head, edits, ever, own, edited>>

RemoveJournal ==
    /\ job.at = "unjournal"
    /\ journal' = None
    /\ job' = [job EXCEPT !.at = "finish"]
    /\ UNCHANGED <<log, ckpt, processed, file, head, edits, faults, ever, own, edited>>

\* mutant: the checkpoint takes one event more than was processed
FinishOneMore ==
    /\ job.at = "finish"
    /\ ckpt' = [ckpt EXCEPT ![job.s] =
           [committed |-> Pending.to + 1, pending |-> NoPending, memory |-> job.cand]]
    /\ job' = [job EXCEPT !.at = "mark", !.len = Pending.to]
    /\ UNCHANGED <<log, processed, file, head, journal, edits, faults, ever, own, edited>>

\* only now does the checkpoint advance
Finish ==
    /\ job.at = "finish"
    /\ ckpt' = [ckpt EXCEPT ![job.s] =
           [committed |-> Pending.to, pending |-> NoPending, memory |-> job.cand]]
    /\ job' = [job EXCEPT !.at = "mark", !.len = Pending.to]
    /\ UNCHANGED <<log, processed, file, head, journal, edits, faults, ever, own, edited>>

\* processed, unless newer events came
Mark ==
    /\ job.at = "mark"
    /\ processed' = IF Len(log[job.s]) = job.len
                    THEN [processed EXCEPT ![job.s] = job.len] ELSE processed
    /\ Stops
    /\ UNCHANGED <<log, ckpt, file, head, journal, edits, faults, ever, own, edited>>

\* the provider fails or the user cancels; a publication under way is awaited
Interrupt ==
    /\ job.at \in {"recover", "prepare", "extract", "check", "finish", "mark"}
    /\ Fault /\ Stops
    /\ UNCHANGED <<log, ckpt, processed, file, head, journal, edits, ever, own, edited>>

\* the process dies; files and repository stay as they are
Crash ==
    /\ job.at \in {"baseline", "journal", "write", "commit", "unjournal"}
    /\ Fault /\ Stops
    /\ UNCHANGED <<log, ckpt, processed, file, head, journal, edits, ever, own, edited>>

Next ==
    \/ \E s \in Sessions : Converse(s) \/ Rewind(s) \/ Start(s)
    \/ UserEdit \/ RecoverFirst \/ Prepare \/ Extract \/ Verify \/ Check \/ Baseline
    \/ WriteJournal \/ WriteFile \/ Commit \/ PublishFails \/ RemoveJournal \/ Finish \/ Mark
    \/ Interrupt \/ Crash

Spec == Init /\ [][Next]_vars

Symmetry == Permutations(Sessions)

------------------------------------------------------------------------------
TypeOK ==
    /\ \A s \in Sessions : /\ Len(log[s]) <= MaxSeq
                           /\ ToSet(log[s]) \subseteq {"pref", "rewind"}
                           /\ ckpt[s].committed \in 0 .. MaxSeq
                           /\ ckpt[s].pending.done \subseteq 1 .. MaxSeq
    /\ processed \in [Sessions -> 0 .. MaxSeq]
    /\ file \subseteq Entries /\ head \subseteq Entries
    /\ job.at \in {"idle", "recover", "prepare", "extract", "check", "baseline", "journal",
                   "write", "commit", "unjournal", "finish", "mark"}

\* A reader, who may read whenever no journal is there, never sees a publication
\* that was not committed: but for the user's edits, he reads what HEAD holds.
ReadableIsCommitted == ~journal.on /\ ~edited /\ ~own.raced => file = head

\* Progress is never ahead of publication: each preference stated up to the
\* committed event, or in a source left as processed, and not taken back, is in
\* some commit.
ProgressIsPublished ==
    \A s \in Sessions : \A i \in Visible(log[s]) :
        i <= ckpt[s].committed \/ i <= processed[s] => <<s, i>> \in ever

\* What the conversation took back before it was published stays out.
RewoundStaysOut ==
    [][\A e \in ever' \ ever : e[2] \in Visible(log[e[1]])]_vars

\* An entry the user wrote himself stays in the file until he deletes it, unless
\* he saved the file between a publication's check and its write.
OwnEntryKept == own.wrote /\ ~own.raced => Mine \in file

\* "Concurrent changes ... external changes may not be overwritten" (the document
\* on the Markdown memory): nor then.
ExternalChangeKept == own.wrote => Mine \in file

\* What was reviewed is in the memory, what the user wrote still is, and nobody
\* reads what was not committed.
Published == TypeOK /\ ProgressIsPublished /\ OwnEntryKept /\ ReadableIsCommitted
==============================================================================
