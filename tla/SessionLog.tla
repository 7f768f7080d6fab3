----------------------------- MODULE SessionLog -----------------------------
(***************************************************************************)
(* One session of SessionStore: the append-only events.jsonl and the       *)
(* manifest.json that projects it.  The store's RLock serialises the        *)
(* operations of one process, so the only things that come between the      *)
(* steps of an operation are a failed write, the death of the process and   *)
(* a power loss.                                                            *)
(*                                                                         *)
(* A write that fails half way leaves whole lines and perhaps a fragment   *)
(* of the next one.  A power loss keeps every line that was fsynced and     *)
(* any prefix of the others, and any manifest that was renamed into place   *)
(* since the last manifest fsync.                                           *)
(***************************************************************************)
EXTENDS Naturals, Sequences

CONSTANTS
    Ids,        \* event ids
    Handoffs,   \* the ids of harness handoff records ("cleo/ha...")
    Steers,     \* the ids of steer and rewind records
    MaxBatch    \* the longest batch one append_events call carries

ASSUME SessionLogAssumption ==
    /\ Handoffs \subseteq Ids
    /\ Steers \subseteq Ids
    /\ MaxBatch \in Nat

VARIABLES
    log,        \* events.jsonl: the whole records, in file order
    torn,       \* the file ends in a fragment of a record
    manifest,   \* manifest.json: its last_event_seq
    pc,         \* the next step of the running operation, or "idle"
    request,    \* the ids the running append_events was given
    fresh,      \* the records it prepared
    target,     \* the last_event_seq its manifest write will store
    synced,     \* how many lines of the log are on stable storage
    surviving,  \* the manifests a power loss may bring back
    acked,      \* ids whose append returned (less what a power loss took)
    durable,    \* ids whose own append fsynced them and returned
    lost        \* a power loss happened since refresh_compact last finished

vars == <<log, torn, manifest, pc, request, fresh, target, synced, surviving,
          acked, durable, lost>>
disk == <<log, torn, manifest, synced, surviving>>
call == <<request, fresh, target>>

Batches == UNION {[1 .. n -> Ids] : n \in 1 .. MaxBatch}

IdsOf(s) == {s[i] : i \in DOMAIN s}
LogIds   == {log[i].id : i \in DOMAIN log}

(* The sequence number of the last record; JsonlEventStore.committed.      *)
LastSeq == IF log = <<>> THEN 0 ELSE log[Len(log)].seq

(* The event log may be ahead of a manifest whose write failed.            *)
Base == IF manifest > LastSeq THEN manifest ELSE LastSeq

(* Mutant: prepare forgets to skip the ids that are already in the log.    *)
SelectedAll(ids) == {s \in UNION {[1 .. n -> Ids] : n \in 1 .. Len(ids)} :
                        /\ IdsOf(s) = IdsOf(ids)
                        /\ Len(s) = Len(ids)}

(* JsonlEventStore.prepare: the requested ids that are not in the log,     *)
(* once each, in the order of the request, numbered from base + 1.         *)
Selected(ids) ==
    {s \in UNION {[1 .. n -> Ids] : n \in 0 .. Len(ids)} :
        /\ IdsOf(s) = IdsOf(ids) \ LogIds
        /\ \A i, j \in DOMAIN s : i < j =>
              /\ s[i] # s[j]
              /\ \E a \in DOMAIN ids : /\ ids[a] = s[i]
                                       /\ \A b \in 1 .. a : ids[b] # s[j]}

Prepare(ids, base) ==
    {[i \in DOMAIN s |-> [id |-> s[i], seq |-> base + i]] : s \in Selected(ids)}

WrittenIds == {fresh[i].id : i \in DOMAIN fresh}

(* is_durable_handoff, and the fsync argument append_events computes.      *)
IsDurableHandoff == WrittenIds \cap Handoffs # {}
NeedsFsync       == WrittenIds \cap (Handoffs \cup Steers) # {}

Init ==
    /\ log = <<>>
    /\ torn = FALSE
    /\ manifest = 0
    /\ pc = "idle"
    /\ request = <<>>
    /\ fresh = <<>>
    /\ target = 0
    /\ synced = 0
    /\ surviving = {0}
    /\ acked = {}
    /\ durable = {}
    /\ lost = FALSE
-----------------------------------------------------------------------------
CallEnds == /\ request' = <<>>
            /\ fresh' = <<>>
            /\ target' = 0

(* Mutant: the fragment is skipped instead of refused.                     *)
ReadableTorn == TRUE

(* Every operation reads the log first (_state); load_events raises on a   *)
(* fragment, and nothing is written.                                        *)
Readable == ~torn

(* Mutant: append trusts the sequence numbers it is given.                 *)
ContinuesLogUnchecked == TRUE

(* append_events with something new to write.  JsonlEventStore.append      *)
(* refuses ("Session event log changed before append") records that do not *)
(* continue the log, which leaves everything as it was.                     *)
ContinuesLog == Base = LastSeq

(* Mutant: the manifest is written before the log.                         *)
BeginAppendManifestFirst(ids) ==
    /\ Readable
    /\ pc = "idle"
    /\ \E new \in Prepare(ids, Base) :
         /\ new # <<>>
         /\ ContinuesLog
         /\ fresh' = new
         /\ target' = Base + Len(new)
    /\ request' = ids
    /\ pc' = "log"
    /\ manifest' = target'
    /\ surviving' = surviving \cup {target'}
    /\ UNCHANGED <<log, torn, synced, acked, durable, lost>>

BeginAppend(ids) ==
    /\ Readable
    /\ pc = "idle"
    /\ \E new \in Prepare(ids, Base) :
         /\ new # <<>>
         /\ ContinuesLog
         /\ fresh' = new
         /\ target' = Base + Len(new)
    /\ request' = ids
    /\ pc' = "log"
    /\ UNCHANGED <<disk, acked, durable, lost>>

(* append_events when every id is known: only the manifest is written.     *)
BeginRepeat(ids) ==
    /\ Readable
    /\ pc = "idle"
    /\ IdsOf(ids) \subseteq LogIds
    /\ fresh' = <<>>
    /\ target' = Base
    /\ request' = ids
    /\ pc' = "manifest"
    /\ UNCHANGED <<disk, acked, durable, lost>>

(* Mutant: refresh_compact takes the manifest's word for the log's length. *)
BeginRefreshFromManifest ==
    /\ Readable
    /\ pc = "idle"
    /\ synced' = Base
    /\ target' = Base
    /\ request' = <<>>
    /\ fresh' = <<>>
    /\ pc' = "manifest"
    /\ UNCHANGED <<log, torn, manifest, surviving, acked, durable, lost>>

(* refresh_compact: the log is fsynced and the manifest is brought to the  *)
(* revision that was projected.                                            *)
BeginRefresh ==
    /\ Readable
    /\ pc = "idle"
    /\ synced' = Len(log)
    /\ target' = LastSeq
    /\ request' = <<>>
    /\ fresh' = <<>>
    /\ pc' = "manifest"
    /\ UNCHANGED <<log, torn, manifest, surviving, acked, durable, lost>>

(* Mutant: the log is never fsynced.                                       *)
WriteLogUnsynced ==
    /\ pc = "log"
    /\ log' = log \o fresh
    /\ pc' = "manifest"
    /\ UNCHANGED <<torn, manifest, synced, surviving, call, acked, durable, lost>>

WriteLog ==
    /\ pc = "log"
    /\ log' = log \o fresh
    /\ pc' = IF NeedsFsync THEN "fsync_log" ELSE "manifest"
    /\ UNCHANGED <<torn, manifest, synced, surviving, call, acked, durable, lost>>

FsyncLog ==
    /\ pc = "fsync_log"
    /\ synced' = Len(log)
    /\ pc' = "manifest"
    /\ UNCHANGED <<log, torn, manifest, surviving, call, acked, durable, lost>>

(* Mutant: the manifest of a handoff is not fsynced.                       *)
WriteManifestUnsynced ==
    /\ pc = "manifest"
    /\ manifest' = target
    /\ surviving' = surviving \cup {target}
    /\ pc' = "return"
    /\ lost' = (lost /\ request # <<>>)
    /\ UNCHANGED <<log, torn, synced, call, acked, durable>>

WriteManifest ==
    /\ pc = "manifest"
    /\ manifest' = target
    /\ surviving' = surviving \cup {target}
    /\ pc' = IF IsDurableHandoff THEN "fsync_manifest" ELSE "return"
    /\ lost' = (lost /\ request # <<>>)
    /\ UNCHANGED <<log, torn, synced, call, acked, durable>>

FsyncManifest ==
    /\ pc = "fsync_manifest"
    /\ surviving' = {manifest}
    /\ pc' = "return"
    /\ UNCHANGED <<log, torn, manifest, synced, call, acked, durable, lost>>

(* The index row is upserted and the caller gets its answer.               *)
Return ==
    /\ pc = "return"
    /\ acked' = acked \cup IdsOf(request)
    /\ durable' = IF NeedsFsync THEN durable \cup WrittenIds ELSE durable
    /\ pc' = "idle"
    /\ CallEnds
    /\ UNCHANGED <<disk, lost>>
-----------------------------------------------------------------------------
(* Mutant: a failed write of the log is swallowed.                         *)
InterruptSwallowed ==
    /\ pc # "idle"
    /\ IF pc = "log"
       THEN /\ pc' = "manifest"
            /\ UNCHANGED call
       ELSE /\ pc' = "idle"
            /\ CallEnds
    /\ UNCHANGED <<disk, acked, durable, lost>>

(* An OSError in any step, or the death of the process: the caller never   *)
(* gets its answer, and a write that was under way may have left a part.   *)
Interrupt ==
    /\ pc # "idle"
    /\ pc' = "idle"
    /\ IF pc = "log"
       THEN \E k \in 0 .. Len(fresh) : /\ log' = log \o SubSeq(fresh, 1, k)
                                       /\ torn' \in BOOLEAN
                                       /\ torn' => k < Len(fresh)
       ELSE UNCHANGED <<log, torn>>
    /\ CallEnds
    /\ UNCHANGED <<manifest, synced, surviving, acked, durable, lost>>

PowerLoss ==
    /\ \E k \in synced .. Len(log) :
         /\ log' = SubSeq(log, 1, k)
         /\ synced' = k
         /\ torn' \in BOOLEAN
         /\ torn' => torn \/ k < Len(log)
         /\ acked' = acked \cap {log[i].id : i \in 1 .. k}
    /\ manifest' \in surviving
    /\ surviving' = {manifest'}
    /\ pc' = "idle"
    /\ lost' = TRUE
    /\ CallEnds
    /\ UNCHANGED durable

Next ==
    \/ \E ids \in Batches : BeginAppend(ids) \/ BeginRepeat(ids)
    \/ BeginRefresh
    \/ WriteLog \/ FsyncLog \/ WriteManifest \/ FsyncManifest \/ Return
    \/ Interrupt \/ PowerLoss

Spec == Init /\ [][Next]_vars
-----------------------------------------------------------------------------
Record == [id : Ids, seq : Nat]

(* The values the variables take.                                          *)
TypeOK ==
    /\ log \in Seq(Record)
    /\ torn \in BOOLEAN
    /\ manifest \in Nat
    /\ pc \in {"idle", "log", "fsync_log", "manifest", "fsync_manifest", "return"}
    /\ request \in Seq(Ids)
    /\ fresh \in Seq(Record)
    /\ target \in Nat
    /\ synced \in 0 .. Len(log)
    /\ surviving \subseteq Nat
    /\ acked \subseteq Ids
    /\ durable \subseteq Ids
    /\ lost \in BOOLEAN

(* checked_history and read_prefix accept the log: line i has number i and *)
(* no id is written twice, whatever was retried, torn or lost.  With a hole *)
(* or a repetition the conversation can never change harness again.         *)
LogWellFormed ==
    /\ \A i \in DOMAIN log : log[i].seq = i
    /\ \A i, j \in DOMAIN log : log[i].id = log[j].id => i = j

(* Whatever append_events returned for is in the log.                      *)
AckedInLog == acked \subseteq LogIds

(* Handoff, steer and rewind records that were written, fsynced and        *)
(* returned for are in the log even after a power loss.                     *)
DurableInLog == durable \subseteq LogIds

(* Without a power loss the manifest never claims records the log does not *)
(* hold: the log is written first.  (After one it may, and append_events   *)
(* refuses until refresh_compact has repaired it.)                          *)
ManifestAheadOnlyAfterLoss == manifest > Len(log) => lost

(* Every manifest a power loss can bring back covers every handoff that    *)
(* was acknowledged, so a reopened conversation does not miss it.           *)
HandoffInManifest ==
    \A i \in DOMAIN log : log[i].id \in durable \cap Handoffs =>
        \A m \in surviving : m >= i

(* "Handoff and steer/rewind events are fsynced" (store.py:221): a steer   *)
(* or rewind record that append_events returned for is never lost.  It can  *)
(* be: a call that repeats an id already in the log (persist_receipt uses   *)
(* the same id again after a failed save) finds nothing new and fsyncs      *)
(* nothing, also when the first write never reached the disk.               *)
AckedCommandsSurvive == [][(acked \ acked') \cap Steers = {}]_vars

(* A fragment at the end of the log is left as it is: nothing is written   *)
(* after it, so no record is glued to it.                                   *)
FragmentPreserved == [][torn => \/ UNCHANGED log
                               \/ Len(log') < Len(log)]_vars

(* The store implements the abstract log.                                  *)
EntryIds == [i \in DOMAIN log |-> log[i].id]
Abstract == INSTANCE DurableLog WITH entries <- EntryIds
ImplementsDurableLog == Abstract!AbsSpec

(* What append_events returned for is in the log, and what it fsynced for   *)
(* survives, in a state whose variables have their types.                   *)
Recorded == TypeOK /\ AckedInLog /\ DurableInLog
=============================================================================
