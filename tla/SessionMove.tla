----------------------------- MODULE SessionMove -----------------------------
(***************************************************************************)
(* Where a session lives.  SessionStore keeps it in a directory under its   *)
(* project (manifest.json, events.jsonl, compact.json), finds it through a  *)
(* row of sessions.sqlite3 that can be rebuilt from the manifests, and      *)
(* memory keeps a source state for it under the project's name.  Creating,  *)
(* moving and deleting a session change these one after the other; a        *)
(* failed step or the death of the process leaves what was done so far.     *)
(*                                                                         *)
(* The store's lock makes the operations of one process sequential.  A      *)
(* review that memory makes of the session (asked for by hand, or by        *)
(* another process) takes the lock of the project, which no move takes: it  *)
(* may write its source state between any two steps.  A change of the state *)
(* file is one step (its lock is of one process: README, what is left out). *)
(* What happens inside one write of the log is SessionLog's subject.        *)
(***************************************************************************)
EXTENDS Naturals, Sequences

CONSTANTS
    Projects,
    MaxEvents,  \* bound: events written
    MaxFaults   \* bound: operations cut short, and power losses

VARIABLES
    dirs,       \* the session's directory in each project
    row,        \* the project whose manifest the index row points to
    sources,    \* memory's state of the session as a source of each project
    op,         \* the running operation
    written,    \* how many events were written; an event's id is its turn
    acked,      \* the events whose append returned
    doomed,     \* delete_session was called
    half,       \* a move was cut short
    lost,       \* a power loss took records
    reviews,    \* the projects a review has read the session in
    late,       \* those where one wrote when the session was not, or no longer, there
    faults

vars == <<dirs, row, sources, op, written, acked, doomed, half, lost, reviews, late,
          faults>>

Nowhere    == "nowhere"
NoManifest == [project |-> Nowhere, seq |-> 0]

(* A directory: its manifest, its log, and how many lines of the log are   *)
(* known to be on stable storage.                                           *)
NoDir == [here |-> FALSE, manifest |-> NoManifest, log |-> <<>>, synced |-> 0]

Idle == [at |-> "idle", kind |-> "none", from |-> Nowhere, to |-> Nowhere,
         seq |-> 0, id |-> 0]

Init ==
    /\ dirs = [p \in Projects |-> NoDir]
    /\ row = Nowhere
    /\ sources = [p \in Projects |-> "none"]
    /\ op = Idle
    /\ written = 0
    /\ acked = {}
    /\ doomed = FALSE
    /\ half = FALSE
    /\ lost = FALSE
    /\ reviews = {}
    /\ late = {}
    /\ faults = 0
-----------------------------------------------------------------------------
(* load_manifest: what the row points to; a manifest that cannot be read   *)
(* is a FileNotFoundError.  (A missing row is Rebuild's.)                   *)
Loads == row # Nowhere /\ dirs[row].manifest # NoManifest

Manifest == dirs[row].manifest
Home     == Manifest.project

LastSeq(p) == IF dirs[p].log = <<>> THEN 0 ELSE dirs[p].log[Len(dirs[p].log)].seq

Base == IF Manifest.seq > LastSeq(Home) THEN Manifest.seq ELSE LastSeq(Home)

Event(p, seq) == [id |-> written + 1, seq |-> seq, project |-> p]

(* rebuild_index: clear, then one row per manifest that the scan found; of *)
(* two with the same id the last one wins.                                  *)
Scanned == {p \in Projects : dirs[p].manifest # NoManifest}

Rebuild ==
    /\ op = Idle
    /\ row' \in IF Scanned = {} THEN {Nowhere} ELSE Scanned
    /\ UNCHANGED <<dirs, sources, op, written, acked, doomed, half, lost,
                   reviews, late, faults>>

RebuildFails ==
    /\ op = Idle
    /\ faults < MaxFaults
    /\ faults' = faults + 1
    /\ row' = Nowhere
    /\ UNCHANGED <<dirs, sources, op, written, acked, doomed, half, lost,
                   reviews, late>>
-----------------------------------------------------------------------------
(* create_session: manifest, row, then the session_created event.          *)
BeginCreate(p) ==
    /\ op = Idle
    /\ ~doomed
    /\ row = Nowhere /\ Scanned = {}
    /\ op' = [Idle EXCEPT !.at = "manifest", !.kind = "create", !.to = p]
    /\ UNCHANGED <<dirs, row, sources, written, acked, doomed, half, lost,
                   reviews, late, faults>>

(* append_events writes the log of the project its manifest names, unless  *)
(* the numbers would not continue it; the directory is made in any case.    *)
Append1(kind) ==
    /\ Loads
    /\ written < MaxEvents
    /\ IF Base = LastSeq(Home)
       THEN /\ dirs' = [dirs EXCEPT ![Home] = [dirs[Home] EXCEPT
                  !.here = TRUE, !.log = Append(@, Event(Home, Base + 1))]]
            /\ written' = written + 1
            /\ op' = [Idle EXCEPT !.at = "manifest", !.kind = kind, !.to = Home,
                                  !.seq = Base + 1, !.id = written + 1]
       ELSE /\ dirs' = [dirs EXCEPT ![Home].here = TRUE]
            /\ op' = Idle
            /\ UNCHANGED written
    /\ UNCHANGED <<row, sources, acked, doomed, half, lost, reviews, late,
                   faults>>

BeginAppend == op = Idle /\ ~doomed /\ Append1("append")
CreatedEvent == op.at = "created" /\ Append1("append")

(* update_manifest.                                                         *)
BeginUpdate ==
    /\ op = Idle
    /\ ~doomed
    /\ Loads
    /\ op' = [Idle EXCEPT !.at = "manifest", !.kind = "update", !.to = Home,
                          !.seq = Manifest.seq]
    /\ UNCHANGED <<dirs, row, sources, written, acked, doomed, half, lost,
                   reviews, late, faults>>

(* Mutant: the projection trusts the manifest's sequence number.           *)
RefreshFromManifest(kind) ==
    /\ Loads
    /\ dirs' = [dirs EXCEPT ![Home] = [dirs[Home] EXCEPT !.here = TRUE, !.synced = Base]]
    /\ sources' = [sources EXCEPT ![Home] = IF @ = "none" THEN "pending" ELSE @]
    /\ op' = [Idle EXCEPT !.at = "manifest", !.kind = kind, !.to = Home, !.seq = Base]
    /\ UNCHANGED <<row, written, acked, doomed, half, lost, reviews, late,
                   faults>>

(* refresh_compact: fsync of the log, source state, compact file, then the *)
(* manifest at the projected revision.                                      *)
Refresh(kind) ==
    /\ Loads
    /\ dirs' = [dirs EXCEPT ![Home] = [dirs[Home] EXCEPT
          !.here = TRUE, !.synced = Len(dirs[Home].log)]]
    /\ sources' = [sources EXCEPT ![Home] = IF @ = "none" THEN "pending" ELSE @]
    /\ op' = [Idle EXCEPT !.at = "manifest", !.kind = kind, !.to = Home,
                          !.seq = LastSeq(Home)]
    /\ UNCHANGED <<row, written, acked, doomed, half, lost, reviews, late,
                   faults>>

BeginRefresh == op = Idle /\ ~doomed /\ Refresh("refresh")

(* Every operation ends with a manifest and its row.                       *)
WriteManifest ==
    /\ op.at = "manifest"
    /\ dirs' = [dirs EXCEPT ![op.to] = [dirs[op.to] EXCEPT
          !.here = TRUE, !.manifest = [project |-> op.to, seq |-> op.seq]]]
    /\ op' = [op EXCEPT !.at = "row"]
    /\ UNCHANGED <<row, sources, written, acked, doomed, half, lost, reviews,
                   late, faults>>

UpsertRow ==
    /\ op.at = "row"
    /\ row' = op.to
    /\ op' = CASE op.kind = "create" -> [op EXCEPT !.at = "created"]
               [] op.kind = "move"   -> [op EXCEPT !.at = "discard"]
               [] OTHER              -> Idle
    /\ acked' = IF op.kind = "append" THEN acked \cup {op.id} ELSE acked
    /\ UNCHANGED <<dirs, sources, written, doomed, half, lost, reviews, late,
                   faults>>
-----------------------------------------------------------------------------
(* os.replace of the directory.                                             *)
Rename(source, target) ==
    dirs' = [p \in Projects |-> CASE p = target -> dirs[source]
                                  [] p = source -> NoDir
                                  [] OTHER      -> dirs[p]]

(* Mutant: an earlier consolidation does not keep a session where it is.   *)
BeginMoveConsolidated(target) ==
    /\ op = Idle
    /\ ~doomed
    /\ Loads
    /\ written < MaxEvents
    /\ LET source == Home IN
       /\ source # target
       /\ ~dirs[target].here
       /\ dirs[source].here
       /\ Rename(source, target)
       /\ op' = [Idle EXCEPT !.at = "rewrite", !.kind = "move", !.from = source,
                             !.to = target, !.seq = Base + 1]
    /\ UNCHANGED <<row, sources, written, acked, doomed, half, lost, reviews,
                   late, faults>>

(* Mutant: the target may exist.                                           *)
BeginMoveOver(target) ==
    /\ op = Idle
    /\ ~doomed
    /\ Loads
    /\ written < MaxEvents
    /\ LET source == Home IN
       /\ source # target
       /\ sources[source] # "consolidated"
       /\ dirs[source].here
       /\ Rename(source, target)
       /\ op' = [Idle EXCEPT !.at = "rewrite", !.kind = "move", !.from = source,
                             !.to = target, !.seq = Base + 1]
    /\ UNCHANGED <<row, sources, written, acked, doomed, half, lost, reviews,
                   late, faults>>

(* move_session: the directory is renamed, then its log rewritten with     *)
(* every event bound to the target and one more, then manifest and row,     *)
(* then the source project's memory is discarded and the target's made.  A  *)
(* review that marks the source between the check and the renaming does     *)
(* what one right after the renaming does: nothing in between reads it.     *)
BeginMove(target) ==
    /\ op = Idle
    /\ ~doomed
    /\ Loads
    /\ written < MaxEvents
    /\ LET source == Home IN
       /\ source # target
       /\ sources[source] # "consolidated"
       /\ ~dirs[target].here
       /\ dirs[source].here
       /\ Rename(source, target)
       /\ op' = [Idle EXCEPT !.at = "rewrite", !.kind = "move", !.from = source,
                             !.to = target, !.seq = Base + 1]
    /\ UNCHANGED <<row, sources, written, acked, doomed, half, lost, reviews,
                   late, faults>>

(* Mutant: the new event is numbered from the manifest.                    *)
RewriteFromManifest ==
    /\ op.at = "rewrite"
    /\ dirs' = [dirs EXCEPT ![op.to] = [dirs[op.to] EXCEPT
          !.synced = 0,
          !.log = Append([i \in DOMAIN @ |-> [@[i] EXCEPT !.project = op.to]],
                         Event(op.to, dirs[op.to].manifest.seq + 1))]]
    /\ written' = written + 1
    /\ op' = [op EXCEPT !.at = "manifest"]
    /\ UNCHANGED <<row, sources, acked, doomed, half, lost, reviews, late,
                   faults>>

Rewrite ==
    /\ op.at = "rewrite"
    /\ dirs' = [dirs EXCEPT ![op.to] = [dirs[op.to] EXCEPT
          !.synced = 0,
          !.log = Append([i \in DOMAIN @ |-> [@[i] EXCEPT !.project = op.to]],
                         Event(op.to, op.seq))]]
    /\ written' = written + 1
    /\ op' = [op EXCEPT !.at = "manifest"]
    /\ UNCHANGED <<row, sources, acked, doomed, half, lost, reviews, late,
                   faults>>

Discard ==
    /\ op.at = "discard"
    /\ sources' = [sources EXCEPT ![op.from] = "none"]
    /\ op' = [op EXCEPT !.at = "refresh"]
    /\ UNCHANGED <<dirs, row, written, acked, doomed, half, lost, reviews, late,
                   faults>>

MovedRefresh == op.at = "refresh" /\ Refresh("moved")

(* delete_session: memory first, then the files one by one, then the row.  *)
BeginDelete ==
    /\ op = Idle
    /\ Loads
    /\ doomed' = TRUE
    /\ sources' = [sources EXCEPT ![Home] = "none"]
    /\ op' = IF dirs[Home].here
             THEN [Idle EXCEPT !.at = "files", !.kind = "delete", !.to = Home]
             ELSE Idle
    /\ UNCHANGED <<dirs, row, written, acked, half, lost, reviews, late,
                   faults>>

RemoveFile ==
    /\ op.at = "files"
    /\ \/ dirs' = [dirs EXCEPT ![op.to].manifest = NoManifest]
       \/ dirs' = [dirs EXCEPT ![op.to] = [dirs[op.to] EXCEPT !.log = <<>>, !.synced = 0]]
    /\ dirs' # dirs
    /\ UNCHANGED <<row, sources, op, written, acked, doomed, half, lost,
                   reviews, late, faults>>

RemoveDir ==
    /\ op.at = "files"
    /\ dirs[op.to].manifest = NoManifest
    /\ dirs[op.to].log = <<>>
    /\ dirs' = [dirs EXCEPT ![op.to] = NoDir]
    /\ op' = [op EXCEPT !.at = "row_delete"]
    /\ UNCHANGED <<row, sources, written, acked, doomed, half, lost, reviews,
                   late, faults>>

DeleteRow ==
    /\ op.at = "row_delete"
    /\ row' = Nowhere
    /\ op' = Idle
    /\ UNCHANGED <<dirs, sources, written, acked, doomed, half, lost, reviews,
                   late, faults>>
-----------------------------------------------------------------------------
(* A review reads the manifest and the log of the project it was asked for,*)
(* under that project's lock.                                               *)
BeginReview ==
    /\ Loads
    /\ dirs[Home].here
    /\ Home \notin reviews
    /\ reviews' = reviews \cup {Home}
    /\ UNCHANGED <<dirs, row, sources, op, written, acked, doomed, half, lost,
                   late, faults>>

(* It writes a source state of the project it has read, wherever the       *)
(* session is by now.                                                       *)
Reviewed(p, state) ==
    /\ p \in reviews
    /\ sources' = [sources EXCEPT ![p] = state]
    /\ late' = IF dirs[p].here THEN late ELSE late \cup {p}
    /\ UNCHANGED <<dirs, row, op, written, acked, doomed, half, lost, faults>>

(* register_dream_source makes the state if there is none.                 *)
Register(p) ==
    /\ sources[p] = "none"
    /\ Reviewed(p, "pending")
    /\ UNCHANGED reviews

(* What it has read it registers once more and marks, when no other        *)
(* revision was registered, or the state discarded, in between.  What is    *)
(* consolidated stays marked so through later revisions.                    *)
Consolidate(p) ==
    /\ Reviewed(p, "consolidated")
    /\ reviews' = reviews \ {p}

(* It fails, finds more to read, or its process is killed.                 *)
EndReview(p) ==
    /\ p \in reviews
    /\ reviews' = reviews \ {p}
    /\ UNCHANGED <<dirs, row, sources, op, written, acked, doomed, half, lost,
                   late, faults>>

(* A step raises, or the process dies.                                     *)
Interrupt ==
    /\ op # Idle
    /\ faults < MaxFaults
    /\ faults' = faults + 1
    /\ op' = Idle
    /\ half' = (half \/ op.kind \in {"move", "moved"})
    /\ UNCHANGED <<dirs, row, sources, written, acked, doomed, lost, reviews,
                   late>>

(* The power fails: logs lose what was not fsynced, manifests are as they  *)
(* were renamed.                                                            *)
PowerLoss ==
    /\ faults < MaxFaults
    /\ faults' = faults + 1
    /\ \E kept \in [Projects -> 0 .. MaxEvents] :
         /\ \A p \in Projects : kept[p] \in dirs[p].synced .. Len(dirs[p].log)
         /\ dirs' = [p \in Projects |->
               [dirs[p] EXCEPT !.log = SubSeq(@, 1, kept[p]), !.synced = kept[p]]]
    /\ dirs' # dirs
    /\ lost' = TRUE
    /\ op' = Idle
    /\ half' = (half \/ op.kind \in {"move", "moved"})
    /\ UNCHANGED <<row, sources, written, acked, doomed, reviews, late>>

Next ==
    \/ Rebuild \/ RebuildFails
    \/ \E p \in Projects : BeginCreate(p) \/ BeginMove(p)
    \/ BeginAppend \/ CreatedEvent \/ BeginUpdate \/ BeginRefresh
    \/ WriteManifest \/ UpsertRow
    \/ Rewrite \/ Discard \/ MovedRefresh
    \/ BeginDelete \/ RemoveFile \/ RemoveDir \/ DeleteRow
    \/ BeginReview \/ \E p \in Projects : Register(p) \/ Consolidate(p) \/ EndReview(p)
    \/ Interrupt \/ PowerLoss

Spec == Init /\ [][Next]_vars
-----------------------------------------------------------------------------
Events == [id : 1 .. MaxEvents, seq : Nat, project : Projects]
Manifests == [project : Projects \cup {Nowhere}, seq : Nat]

(* The values the variables take; what an operation is about to write has  *)
(* a place to go.                                                           *)
TypeOK ==
    /\ dirs \in [Projects -> [here : BOOLEAN, manifest : Manifests,
                              log : Seq(Events), synced : Nat]]
    /\ \A p \in Projects : dirs[p].synced <= Len(dirs[p].log)
    /\ row \in Projects \cup {Nowhere}
    /\ sources \in [Projects -> {"none", "pending", "consolidated"}]
    /\ op.at \in {"idle", "manifest", "row", "created", "rewrite", "discard",
                  "refresh", "files", "row_delete"}
    /\ op.at # "idle" => op.to \in Projects
    /\ written \in 0 .. MaxEvents
    /\ acked \subseteq 1 .. written
    /\ {doomed, half, lost} \subseteq BOOLEAN
    /\ reviews \subseteq Projects /\ late \subseteq Projects

EventsOf(p) == {dirs[p].log[i].id : i \in DOMAIN dirs[p].log}

(* No move, however it was cut short, and no rebuild loses an acknowledged *)
(* event: it is in the log of exactly one directory.                        *)
EventsKept ==
    doomed \/ lost \/ \A e \in acked :
        \E home \in Projects : {p \in Projects : e \in EventsOf(p)} = {home}

(* "its session directory, manifest, event bindings, SQLite registry, ...  *)
(* memory state ... move together" (docs/ARCHITECTURE.en.md): all that      *)
(* exists of the session says the same project, where its directory is.     *)
(* A review that writes when the session is gone leaves a state behind.     *)
Together ==
    \E home \in Projects :
        /\ \A p \in Projects \ {home} : dirs[p] = NoDir /\ (sources[p] = "none" \/ p \in late)
        /\ dirs[home].manifest.project \in {home, Nowhere}
        /\ \A i \in DOMAIN dirs[home].log : dirs[home].log[i].project = home
        /\ row \in {home, Nowhere}

(* It does whenever no operation is under way, unless a move was cut short:*)
(* one that stops after its renaming leaves an index row that points to a   *)
(* directory that is gone.                                                  *)
MovesTogether == op = Idle /\ ~half => Together

(* "``seq`` increases by one" (cleo/sessions/event_log.py), also across     *)
(* moves; not after a power loss, see the README.                           *)
NumberedByOne ==
    ~half /\ ~lost =>
        \A p \in Projects : \A i \in DOMAIN dirs[p].log : dirs[p].log[i].seq = i

(* What memory has consolidated stays in its project until it is deleted,  *)
(* as move_session refuses it (store.py:404), unless a review finished when *)
(* a move had looked already: the session had left the project, or was     *)
(* about to (BeginMove).                                                    *)
Stays ==
    \A p \in Projects :
        sources[p] = "consolidated" /\ ~doomed' => sources'[p] = "consolidated" \/ p \in late

ConsolidatedStays == [][Stays]_vars

(* "A session already consolidated into its project cannot move"           *)
(* (store.py:394) does not hold without that exception: a move looks once,  *)
(* renames, and later discards the state unseen (store.py:404, 443, 452).   *)
ConsolidatedStaysEver ==
    [][\A p \in Projects :
         sources[p] = "consolidated" /\ ~doomed' => sources'[p] = "consolidated"]_vars

(* Every state a move, a rebuild or a fault leaves behind: the types, no    *)
(* event lost, the numbers, and everything in one place.                    *)
Accounted == TypeOK /\ EventsKept /\ NumberedByOne /\ MovesTogether
=============================================================================
