-------------------------- MODULE CompactProjection --------------------------
(****************************************************************************)
(* The compact projection of one session and its search index:              *)
(* CompactProjection.refresh (sessions/compact.py) brings compact.json and  *)
(* the conversation_chunks table up to date with the session log, with a    *)
(* batch for the new events when it can and from the whole log otherwise;   *)
(* readers search the table and check what they found against the log.      *)
(*                                                                          *)
(* The file is appended to in place, the table is changed in a transaction, *)
(* and the two are not written together.  The cache of the last refresh     *)
(* lives in the process.  A revision of a file (stat) is modelled by what   *)
(* the code compares it for: whether the file is still the one seen.  A     *)
(* source hash stands for the prefix of the append-only log it was taken    *)
(* of, and is modelled by the length of that prefix.                        *)
(*                                                                          *)
(* MaxEvents bounds the log; MaxFaults bounds crashes, failed writes, lost  *)
(* files and appends of another process.                                    *)
(****************************************************************************)
EXTENDS Naturals, Sequences, FiniteSets, SequencesExt

CONSTANTS Calls, MaxEvents, MaxFaults, MaxSearches

ASSUME ProjectionAssumption ==
    MaxEvents \in Nat /\ MaxFaults \in Nat /\ MaxSearches \in Nat

NoCall == "none"

VARIABLES
    log,       \* events.jsonl
    cache,     \* _ProjectionState of the session, if the process holds one
    refresh,   \* the refresh under way (the store's lock is held meanwhile);
               \* `lost` (ghost): a derived file was deleted since it began
    file,      \* compact.json
    index,     \* the session's rows of conversation_chunks
    manifest,  \* last_event_seq of the manifest
    receipt,   \* the prefix validated for the present revision of the three files
    search,    \* one search of the index
    faults, searches

vars == <<log, cache, refresh, file, index, manifest, receipt, search, faults, searches>>

----------------------------------------------------------------------------
(* The projection of a list of events (compaction.py).                      *)

\* Events: a "user" message; a "call" is an assistant message that calls a tool
\* (one that calls none gives the first of its two records alone); "result"
\* answers the call of that id; "note" stands for the event types of the
\* fallback lane; "rewind" names the user message it goes back to.
EventsAt(i) ==
    [kind : {"user", "note"}, seq : {i}, call : {NoCall}, target : {0}]
    \cup [kind : {"call", "result"}, seq : {i}, call : Calls, target : {0}]
    \cup {[kind |-> "rewind", seq |-> i, call |-> NoCall, target |-> log[j].seq] :
             j \in {k \in DOMAIN log : log[k].kind = "user"}}

\* active_events: a rewind takes its user message and everything after it.
Rewound(seen, e) ==
    IF e.kind # "rewind" THEN Append(seen, e)
    ELSE LET at == {i \in DOMAIN seen : seen[i].kind = "user" /\ seen[i].seq = e.target}
         IN  IF at = {} THEN seen ELSE SubSeq(seen, 1, (CHOOSE i \in at : TRUE) - 1)
Active(events) == FoldLeft(Rewound, <<>>, events)

\* results_by_call_id: the last result of each call counts.
ResultsOf(v, call) == {i \in DOMAIN v : v[i].kind = "result" /\ v[i].call = call}
ResultOf(v, call) == CHOOSE i \in ResultsOf(v, call) : \A j \in ResultsOf(v, call) : j <= i

Message(type, e, place) == [type |-> type, ids |-> <<e.seq>>, place |-> place]
ToolEvent(ids) == [type |-> "tool", ids |-> ids, place |-> 0]

\* A result is part of the tool event of the call before it; on its own it is
\* a tool event of its own.
Associated(v, i) ==
    \E j \in 1..(i - 1) :
      /\ v[j].kind = "call" /\ v[j].call = v[i].call
      /\ ResultOf(v, v[i].call) = i

RecordsOf(v, i, base) ==
    LET e == v[i] IN
    CASE e.kind = "user" -> <<Message("human", e, base + i)>>
      [] e.kind = "call" ->
           <<Message("ai", e, base + i),
             ToolEvent(IF ResultsOf(v, e.call) = {} THEN <<e.seq>>
                       ELSE <<e.seq, v[ResultOf(v, e.call)].seq>>)>>
      [] e.kind = "result" -> IF Associated(v, i) THEN <<>> ELSE <<ToolEvent(<<e.seq>>)>>
      [] OTHER -> <<>>

\* project_compact_events: `base` visible events came before this batch.
Project(events, base) ==
    LET v == Active(events)
        notes == SelectSeq(v, LAMBDA e : e.kind = "note")
    IN  [normal |-> FlattenSeq([i \in DOMAIN v |-> RecordsOf(v, i, base)]),
         fallback |-> [i \in DOMAIN notes |-> Message("note", notes[i], 0)],
         visible |-> Len(v)]
Prefix(n) == SubSeq(log, 1, n)
Whole(n) == Project(Prefix(n), 0)

\* _tool_ids of a list of events.
ToolIds(events) == {e.call : e \in ToSet(events)} \ {NoCall}

\* _conversation_chunks: a chunk begins at every human message.
Chunked(chunks, r) ==
    IF chunks = <<>> \/ r.type = "human" THEN Append(chunks, <<r>>)
    ELSE [chunks EXCEPT ![Len(chunks)] = Append(@, r)]
Chunks(records) == FoldLeft(Chunked, <<>>, records)

----------------------------------------------------------------------------
(* compact.json and the table.                                              *)

NoFile == [kind |-> "none", batches |-> <<>>, to |-> 0]
TornFile == [kind |-> "torn", batches |-> <<>>, to |-> 0]
Document(batches, to) == [kind |-> "v3", batches |-> batches, to |-> to]
Batch(p, to) == [normal |-> p.normal, fallback |-> p.fallback, to |-> to]

\* decode_compact: all normal records, then all fallback ones.
Decode(f) ==
    LET lane(l) == FlattenSeq([i \in DOMAIN f.batches |-> f.batches[i][l]])
    IN  lane("normal") \o lane("fallback")

NoIndex == [kind |-> "none", normal |-> <<>>, fallback |-> <<>>, to |-> 0]

\* update_conversation_chunks with reset=True.
FreshIndex(p, to) ==
    [kind |-> "head", normal |-> Chunks(p.normal), fallback |-> p.fallback, to |-> to]

ExtendedIndexUnjoined(p, to) ==
    [kind |-> "head", normal |-> index.normal \o Chunks(p.normal),
     fallback |-> index.fallback \o p.fallback, to |-> to]
\* ... and with a batch: its records before the first human message belong to
\* the last chunk; fallback records are kept apart and joined when read.
ExtendedIndex(p, to) ==
    LET new == Chunks(p.normal)
        old == index.normal
        joins == new # <<>> /\ old # <<>> /\ p.normal[1].type # "human"
    IN  [kind |-> "head",
         normal |-> IF joins
                    THEN [old EXCEPT ![Len(old)] = @ \o new[1]] \o Tail(new)
                    ELSE old \o new,
         fallback |-> index.fallback \o p.fallback,
         to |-> to]

\* _logical_conversation_rows: the fallback records end the last chunk.
Rows(x) ==
    IF x.fallback = <<>> THEN x.normal
    ELSE IF x.normal = <<>> THEN <<x.fallback>>
    ELSE [x.normal EXCEPT ![Len(x.normal)] = @ \o x.fallback]

\* What the rows of a prefix of the log ought to be (replace_conversation_chunks
\* on the complete payload).
RowsOf(n) == LET p == Whole(n) IN Chunks(p.normal \o p.fallback)

----------------------------------------------------------------------------
NoCache == [on |-> FALSE, to |-> 0, visible |-> 0, tools |-> {},
            logSame |-> FALSE, fileSame |-> FALSE]
Idle == [pc |-> "idle", full |-> FALSE, to |-> 0, batch |-> Project(<<>>, 0),
         logSame |-> FALSE, fileSame |-> FALSE, lost |-> FALSE]
NoSearch == [pc |-> "idle", rows |-> <<>>, to |-> 0, at |-> 0]

TypeOK ==
    /\ Len(log) <= MaxEvents
    /\ \A i \in DOMAIN log : log[i].seq = i
    /\ cache.on \in BOOLEAN /\ cache.to \in 0..Len(log) /\ cache.tools \subseteq Calls
    /\ refresh.pc \in {"idle", "file", "index", "manifest"} /\ refresh.to \in 0..Len(log)
    /\ file.kind \in {"none", "torn", "v2", "v3"} /\ file.to \in 0..Len(log)
    /\ index.kind \in {"none", "legacy", "head"} /\ index.to \in 0..Len(log)
    /\ manifest \in 0..Len(log)
    /\ receipt \subseteq 0..Len(log) /\ Cardinality(receipt) <= 1
    /\ search.pc \in {"idle", "read", "found"}
    /\ faults \in 0..MaxFaults /\ searches \in 0..MaxSearches

Init ==
    /\ log = <<>> /\ cache = NoCache /\ refresh = Idle
    /\ file = NoFile /\ index = NoIndex /\ manifest = 0
    /\ receipt = {} /\ search = NoSearch
    /\ faults = 0 /\ searches = 0

Fault == faults < MaxFaults /\ faults' = faults + 1
Unlocked == refresh.pc = "idle"

\* A receipt is looked up by the revision of log, manifest and file: a change
\* of any of them makes it unreachable.  (Mutant: it is kept.)
KeepReceipt == receipt
DropReceipt == {}
AfterLogChange == DropReceipt

----------------------------------------------------------------------------
(* The log.                                                                 *)

\* append_events; note_append keeps the cursor of an unbroken history.
AppendEvent ==
    /\ Unlocked /\ Len(log) < MaxEvents
    /\ \E e \in EventsAt(Len(log) + 1) : log' = Append(log, e)
    /\ cache' = IF cache.logSame THEN cache ELSE NoCache
    /\ receipt' = AfterLogChange
    /\ manifest' = Len(log) + 1
    /\ UNCHANGED <<refresh, file, index, search, faults, searches>>

\* Another process appends to the log: the signature is no longer the cached one.
ForeignAppend ==
    /\ Len(log) < MaxEvents /\ Fault
    /\ \E e \in EventsAt(Len(log) + 1) : log' = Append(log, e)
    /\ cache' = [cache EXCEPT !.logSame = FALSE]
    /\ refresh' = [refresh EXCEPT !.logSame = FALSE]
    /\ receipt' = AfterLogChange
    /\ manifest' = Len(log) + 1
    /\ UNCHANGED <<file, index, search, searches>>

----------------------------------------------------------------------------
(* CompactProjection.refresh.                                               *)

\* conversation_projection_matches and the two signatures.
CacheHolds ==
    /\ cache.on /\ cache.logSame /\ cache.fileSame
    /\ index.kind = "head" /\ index.to = cache.to

\* A rewind or a tool whose other half is in an older batch changes output
\* that is already published.
RewindsOnly(tail) == \A e \in ToSet(tail) : e.kind # "rewind"
ToolsOnly(tail) == ToolIds(tail) \cap cache.tools = {}
Independent(tail) == RewindsOnly(tail) /\ ToolsOnly(tail)

NoBase == 0
VisibleBase == cache.visible

StartPastEnd(full) ==
    [pc |-> "file", full |-> full, to |-> Len(log) + 1, logSame |-> TRUE, fileSame |-> TRUE,
     lost |-> FALSE, batch |-> Whole(Len(log))]
Start(full) ==
    [pc |-> "file", full |-> full, to |-> Len(log), logSame |-> TRUE, fileSame |-> TRUE, lost |-> FALSE,
     batch |-> IF full THEN Whole(Len(log))
               ELSE Project(SubSeq(log, cache.to + 1, Len(log)), VisibleBase)]

\* Up to the write of compact.json.
BeginRefresh ==
    /\ Unlocked
    /\ IF CacheHolds /\ cache.to = Len(log)
       THEN /\ refresh' = [Idle EXCEPT !.pc = "manifest", !.to = Len(log)]
            /\ UNCHANGED cache
       ELSE LET full == ~(CacheHolds /\ Independent(SubSeq(log, cache.to + 1, Len(log)))) IN
            /\ refresh' = Start(full)
            /\ cache' = IF full THEN NoCache ELSE cache
    /\ UNCHANGED <<log, file, index, manifest, receipt, search, faults, searches>>

\* refresh() raises: the cache is dropped, what has been written stays.
Raise == refresh' = Idle /\ cache' = NoCache

\* write_compact_file replaces the file; append_compact_file adds a batch to it.
FileAfter ==
    IF refresh.full THEN Document(<<Batch(refresh.batch, refresh.to)>>, refresh.to)
    ELSE Document(Append(file.batches, Batch(refresh.batch, refresh.to)), refresh.to)

WriteFile ==
    /\ refresh.pc = "file"
    /\ refresh.full \/ cache.fileSame
    /\ file' = FileAfter
    /\ refresh' = [refresh EXCEPT !.pc = "index", !.fileSame = TRUE]
    /\ receipt' = DropReceipt
    /\ UNCHANGED <<log, cache, index, manifest, search, faults, searches>>

\* The file is no longer the one the batch belongs to.
AppendRefused ==
    /\ refresh.pc = "file" /\ ~refresh.full /\ ~cache.fileSame
    /\ Raise
    /\ UNCHANGED <<log, file, index, manifest, receipt, search, faults, searches>>

\* A write that raises: a rebuild leaves the old file or the new one, an
\* append the new one or neither.
WriteFileFails ==
    /\ refresh.pc = "file" /\ Fault
    /\ file' \in {FileAfter, IF refresh.full THEN file ELSE TornFile}
    /\ receipt' = DropReceipt
    /\ Raise
    /\ UNCHANGED <<log, index, manifest, search, searches>>

\* The transaction on the table, and the cursor for the next refresh.
Remembered ==
    [on |-> TRUE, to |-> refresh.to,
     visible |-> refresh.batch.visible + IF refresh.full THEN 0 ELSE cache.visible,
     tools |-> ToolIds(Prefix(refresh.to)),
     logSame |-> refresh.logSame, fileSame |-> refresh.fileSame]

IndexContinues == index.kind = "head" /\ index.to = cache.to

UpdateIndex ==
    /\ refresh.pc = "index"
    /\ refresh.full \/ IndexContinues
    /\ index' = IF refresh.full THEN FreshIndex(refresh.batch, refresh.to)
                ELSE ExtendedIndex(refresh.batch, refresh.to)
    /\ cache' = Remembered
    /\ refresh' = [refresh EXCEPT !.pc = "manifest"]
    /\ UNCHANGED <<log, file, manifest, receipt, search, faults, searches>>

\* A lost index is rebuilt, and the file with it, in the same call, unless the
\* log has moved on: then the rebuild finds another revision and raises.
RebuildIndex ==
    /\ refresh.pc = "index" /\ ~refresh.full /\ ~IndexContinues
    /\ cache' = NoCache
    /\ refresh' = IF refresh.logSame THEN Start(TRUE) ELSE Idle
    /\ UNCHANGED <<log, file, index, manifest, receipt, search, faults, searches>>

UpdateIndexFails ==
    /\ refresh.pc = "index" /\ Fault
    /\ Raise
    /\ UNCHANGED <<log, file, index, manifest, receipt, search, searches>>

\* SessionStore.refresh_compact: the manifest is told last.
WriteManifest ==
    /\ refresh.pc = "manifest"
    /\ manifest' = refresh.to
    /\ receipt' = DropReceipt
    /\ refresh' = Idle
    /\ UNCHANGED <<log, cache, file, index, search, faults, searches>>

\* export_legacy: the whole projection as an older version reads it.
ExportLegacy ==
    /\ Unlocked /\ Fault
    /\ cache' = NoCache
    /\ file' = [Document(<<Batch(Whole(Len(log)), Len(log))>>, Len(log)) EXCEPT !.kind = "v2"]
    /\ index' = [kind |-> "legacy", normal |-> RowsOf(Len(log)), fallback |-> <<>>,
                 to |-> Len(log)]
    /\ manifest' = Len(log)
    /\ receipt' = DropReceipt
    /\ UNCHANGED <<log, refresh, search, searches>>

----------------------------------------------------------------------------
(* Faults.                                                                  *)

\* The process ends; an append to the file may be cut short.
Crash ==
    /\ Fault
    /\ cache' = NoCache /\ refresh' = Idle /\ search' = NoSearch
    /\ IF refresh.pc = "file" /\ ~refresh.full
       THEN file' \in {file, TornFile} /\ receipt' = DropReceipt
       ELSE UNCHANGED <<file, receipt>>
    /\ UNCHANGED <<log, index, manifest, searches>>

\* The derived file or the derived database is deleted.
LoseFile ==
    /\ Fault /\ file' = NoFile
    /\ cache' = [cache EXCEPT !.fileSame = FALSE]
    /\ refresh' = [refresh EXCEPT !.fileSame = FALSE, !.lost = TRUE]
    /\ receipt' = DropReceipt
    /\ UNCHANGED <<log, index, manifest, search, searches>>

LoseIndex ==
    /\ Fault /\ index' = NoIndex
    /\ refresh' = [refresh EXCEPT !.lost = TRUE]
    /\ UNCHANGED <<log, cache, file, manifest, receipt, search, searches>>

----------------------------------------------------------------------------
(* search_conversation_history.                                             *)

\* The rows of the session, in one snapshot of the table.
ReadRows ==
    /\ search.pc = "idle" /\ searches < MaxSearches
    /\ index.kind # "none"
    /\ searches' = searches + 1
    /\ search' = [pc |-> "read", rows |-> Rows(index), to |-> index.to, at |-> 0]
    /\ UNCHANGED <<log, cache, refresh, file, index, manifest, receipt, faults>>

\* load_validated_compact: the file decodes, is not behind the manifest, and
\* its hash is that of the whole log as it is now.
ManifestFresh == file.to >= manifest
SourceFresh == file.to = Len(log)
Validates == file.kind = "v3" \/ file.kind = "v2"
ValidatedTo ==
    IF receipt # {} THEN receipt
    ELSE IF Validates /\ ManifestFresh /\ SourceFresh THEN {file.to} ELSE {}

\* Any other reader of the compact file.
Validate ==
    /\ ValidatedTo # receipt
    /\ receipt' = ValidatedTo
    /\ UNCHANGED <<log, cache, refresh, file, index, manifest, search, faults, searches>>

\* validated_compact_source, between two looks at an unchanged revision.
CheckRows ==
    /\ search.pc = "read"
    /\ LET valid == ValidatedTo IN
         /\ receipt' = valid
         /\ search' = IF valid = {search.to}
                      THEN [search EXCEPT !.pc = "found", !.at = Len(log)]
                      ELSE NoSearch
    /\ UNCHANGED <<log, cache, refresh, file, index, manifest, faults, searches>>

EndSearch ==
    /\ search.pc = "found"
    /\ search' = NoSearch
    /\ UNCHANGED <<log, cache, refresh, file, index, manifest, receipt, faults, searches>>

----------------------------------------------------------------------------
Next ==
    \/ AppendEvent \/ ForeignAppend
    \/ BeginRefresh \/ WriteFile \/ AppendRefused \/ WriteFileFails
    \/ UpdateIndex \/ RebuildIndex \/ UpdateIndexFails \/ WriteManifest \/ ExportLegacy
    \/ Crash \/ LoseFile \/ LoseIndex
    \/ Validate \/ ReadRows \/ CheckRows \/ EndSearch

Spec == Init /\ [][Next]_vars

----------------------------------------------------------------------------
(* Properties.                                                              *)

\* Whatever batches it was put together from, and whatever failed in between,
\* a compact file that decodes holds exactly the projection of the prefix of
\* the log its footer names (refresh against project_compact_events on the
\* complete history).
FileIsWholeProjection ==
    file.kind \in {"v2", "v3"} =>
      LET p == Whole(file.to) IN Decode(file) = p.normal \o p.fallback

\* The same of the search index: its rows are those the complete payload of
\* that prefix would give (update_conversation_chunks against
\* replace_conversation_chunks).
IndexIsWholeProjection ==
    index.kind # "none" => Rows(index) = RowsOf(index.to)

\* A search never shows rows of a history that is not the session's current
\* one: not of a prefix, not with rewound turns, not from an index that the
\* file does not confirm (search_conversation_history).
FoundIsCurrent ==
    [][search'.pc = "found" /\ search.pc = "read" => search'.rows = RowsOf(Len(log))]_vars

\* A refresh that comes to its end has published what it promises: the file
\* decodes, and file and index are bound to the log it was called for, also
\* when it found its cache good enough to write nothing (refresh, _result);
\* one that was deleted during the call is excluded.
PublishedIsComplete ==
    refresh.pc = "manifest" /\ ~refresh.lost =>
      /\ file.kind = "v3" /\ file.to = refresh.to
      /\ index.kind = "head" /\ index.to = refresh.to

\* File and index, as far as they can be read, are projections of a prefix, and
\* of the log itself once a refresh has come to its end.
DerivedWhole ==
    TypeOK /\ FileIsWholeProjection /\ IndexIsWholeProjection /\ PublishedIsComplete

\* What is published and what is found are projections of the session's history.
ProjectionHolds == []DerivedWhole /\ FoundIsCurrent
==============================================================================
