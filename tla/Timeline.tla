------------------------------ MODULE Timeline ------------------------------
(***************************************************************************)
(* What the desktop makes of a session's log: timeline_from_events turns    *)
(* events into the items of the conversation, and TimelineIndex keeps those *)
(* items in a database it brings up to date with the lines it has not seen. *)
(* A rewind marker takes a turn and all that follows out of the items; the  *)
(* log keeps them.  stream_event_item makes the same items live.            *)
(*                                                                         *)
(* Kept of an event: its type, the turn it names, the tool or receipt it is *)
(* about and what it says.  Plans, thoughts, questions and approvals, which *)
(* are found and replaced the way answers and tools are, are left out.      *)
(***************************************************************************)
EXTENDS Integers, Sequences, SequencesExt

NoTurn == 0     \* "initial": before the first user message

(* Events, numbered by the log ("seq").                                     *)
Event(seq, type, turn, key, body) ==
    [seq |-> seq, type |-> type, turn |-> turn, key |-> key, body |-> body]

(* An item: its id, the turn it is shown under, and its text or status, as  *)
(* a sequence of parts.                                                     *)
Item(id, turn, body) == [id |-> id, turn |-> turn, body |-> body]

UserItem(t)      == <<"user", t, "">>
AnswerItem(t)    == <<"answer", t, "">>
ToolItem(t, k)   == <<"tool", t, k>>
OrphanItem(t, e) == <<"tool-result", t, e.seq>>
SteerItem(r)     == <<"steer", NoTurn, r>>
NoticeItem(e)    == <<"notice", NoTurn, e.seq>>

(* The database: items by position, the turns it knows, by what an item is  *)
(* found again ("relations"), the turn the next event belongs to, and how   *)
(* many lines it has taken in.                                              *)
EmptyIndex == [items |-> <<>>, turns |-> {}, links |-> {}, turn |-> NoTurn,
               offset |-> 0]

Ids(items) == {items[i].id : i \in DOMAIN items}

(* Mutant: a replaced item moves to the end.                                *)
PutLast(items, new) ==
    Append(SelectSeq(items, LAMBDA item : item.id # new.id), new)

(* INSERT OR REPLACE: an item keeps its position.                           *)
Put(items, new) ==
    IF new.id \in Ids(items)
    THEN [i \in DOMAIN items |-> IF items[i].id = new.id THEN new ELSE items[i]]
    ELSE Append(items, new)

(* _ProjectionMap: what kind and key found before, in this turn; receipts   *)
(* are found in every turn.                                                 *)
Owner(ix, kind) == IF kind = "steers" THEN NoTurn ELSE ix.turn

Found(ix, kind, key) ==
    {item \in Range(ix.items) : <<Owner(ix, kind), kind, key, item.id>> \in ix.links}

Linked(ix, kind, key, id) ==
    {l \in ix.links : <<l[1], l[2], l[3]>> # <<Owner(ix, kind), kind, key>>}
        \cup {<<Owner(ix, kind), kind, key, id>>}

PutLinked(ix, kind, key, new) ==
    [ix EXCEPT !.items = Put(@, new), !.links = Linked(ix, kind, key, new.id)]
-----------------------------------------------------------------------------
(* A typed message opens a turn and is shown; a queued instruction opens a  *)
(* turn and is shown as a receipt; one given inside a turn does neither.    *)
UserMessage(ix, e) ==
    CASE e.key = "inline" -> ix
      [] e.key = "queued" -> [ix EXCEPT !.turn = e.turn]
      [] OTHER -> [ix EXCEPT !.turn = e.turn,
                             !.items = Put(@, Item(UserItem(e.turn), e.turn, <<>>))]

Receipt(ix, e) ==
    LET old  == Found(ix, "steers", e.key)
        turn == CASE e.turn # NoTurn -> e.turn
                  [] old # {}        -> (CHOOSE item \in old : TRUE).turn
                  [] OTHER           -> ix.turn IN
    PutLinked(ix, "steers", e.key, Item(SteerItem(e.key), turn, <<e.body>>))

(* Fragments are joined; the whole message replaces them.                   *)
Answer(ix, e) ==
    LET old    == Found(ix, "answers", e.turn)
        before == IF old = {} THEN <<>> ELSE (CHOOSE item \in old : TRUE).body
        body   == IF e.type = "assistant_fragment" THEN Append(before, e.body)
                  ELSE <<e.body>>
        turn   == IF old = {} THEN ix.turn ELSE (CHOOSE item \in old : TRUE).turn IN
    PutLinked(ix, "answers", e.turn, Item(AnswerItem(e.turn), turn, body))

ToolCall(ix, e) ==
    PutLinked(ix, "tools", e.key, Item(ToolItem(ix.turn, e.key), ix.turn, <<"running">>))

(* Mutant: results are joined to calls whatever turn they are of.           *)
ToolResultAnyTurn(ix, e) ==
    LET old == {item \in Range(ix.items) : item.id[1] = "tool" /\ item.id[3] = e.key} IN
    IF old = {}
    THEN PutLinked(ix, "tools", e.key, Item(OrphanItem(ix.turn, e), ix.turn, <<e.body>>))
    ELSE [ix EXCEPT !.items = Put(@, [(CHOOSE item \in old : TRUE) EXCEPT !.body = <<e.body>>])]

(* A result without its call is an item of its own.                         *)
ToolResult(ix, e) ==
    LET old == Found(ix, "tools", e.key) IN
    IF old = {}
    THEN PutLinked(ix, "tools", e.key, Item(OrphanItem(ix.turn, e), ix.turn, <<e.body>>))
    ELSE [ix EXCEPT !.items = Put(@, [(CHOOSE item \in old : TRUE) EXCEPT !.body = <<e.body>>])]

Closed(ix, item) ==
    IF item.turn = ix.turn /\ item.body = <<"running">> THEN [item EXCEPT !.body = <<"error">>]
    ELSE item

(* Mutant: they are closed only when the run failed.                        *)
SessionEndFailed(ix, e) ==
    IF e.body = "completed" THEN ix
    ELSE [ix EXCEPT !.items = Append([i \in DOMAIN @ |-> Closed(ix, @[i])],
                                     Item(NoticeItem(e), ix.turn, <<>>))]

(* The end of a run closes the tools still running; an end that is not a    *)
(* completion is also noted.                                                *)
SessionEnd(ix, e) ==
    LET closed == [i \in DOMAIN ix.items |-> Closed(ix, ix.items[i])] IN
    [ix EXCEPT !.items = IF e.body = "completed" THEN closed
                         ELSE Append(closed, Item(NoticeItem(e), ix.turn, <<>>))]

(* timeline_from_events, of one event.                                      *)
Project(ix, e) ==
    CASE e.type = "user_message" -> UserMessage(ix, e)
      [] e.type = "steer"        -> Receipt(ix, e)
      [] e.type \in {"assistant_fragment", "assistant_message"} -> Answer(ix, e)
      [] e.type = "tool_call"    -> ToolCall(ix, e)
      [] e.type = "tool_result"  -> ToolResult(ix, e)
      [] e.type = "session_end"  -> SessionEnd(ix, e)
      [] OTHER                   -> ix

(* Mutant: the turn goes, what follows it stays.                            *)
RewindOneTurn(ix, target) ==
    LET kept == SelectSeq(ix.items, LAMBDA item : item.turn # target) IN
    [ix EXCEPT !.items = kept,
               !.turns = @ \ {target},
               !.links = {l \in @ : l[1] # target /\ l[4] \in Ids(kept)},
               !.turn = IF kept = <<>> THEN NoTurn ELSE Last(kept).turn]

(* TimelineIndex._rewind: the items from the turn's first one on go, with   *)
(* their turns and relations.                                               *)
Rewind(ix, target) ==
    LET at == {i \in DOMAIN ix.items : ix.items[i].turn = target} IN
    IF at = {} THEN ix
    ELSE LET from  == CHOOSE i \in at : \A j \in at : i <= j
             kept  == SubSeq(ix.items, 1, from - 1)
             turns == {ix.items[i].turn : i \in from .. Len(ix.items)} IN
         [ix EXCEPT !.items = kept,
                    !.turns = @ \ turns,
                    !.links = {l \in @ : l[1] \notin turns /\ l[4] \in Ids(kept)},
                    !.turn = IF kept = <<>> THEN NoTurn ELSE Last(kept).turn]

(* One line of the log.                                                     *)
Take(ix, e) ==
    LET next == IF e.type = "rewind" THEN Rewind(ix, e.turn)
                ELSE LET done == Project(ix, e) IN
                     [done EXCEPT !.turns = @ \cup {done.turn}] IN
    [next EXCEPT !.offset = ix.offset + 1]

(* The lines after those an index has taken in.                             *)
Resume(ix, lines) ==
    FoldLeft(Take, ix, SubSeq(lines, ix.offset + 1, Len(lines)))

(* What page shows: the items whose turn is known.                          *)
Visible(ix) == SelectSeq(ix.items, LAMBDA item : item.turn \in ix.turns)
-----------------------------------------------------------------------------
(* sessions.rewind.active_events: what chats, memory and the rewind itself  *)
(* read of a log.                                                           *)
IsTurn(e) == e.type = "user_message"

ActiveTake(visible, e) ==
    IF e.type # "rewind" THEN Append(visible, e)
    ELSE LET at == {i \in DOMAIN visible : IsTurn(visible[i]) /\ visible[i].turn = e.turn
                                            /\ visible[i].key # "inline"} IN
         IF at = {} THEN visible
         ELSE SubSeq(visible, 1, (CHOOSE i \in at : \A j \in at : i <= j) - 1)

Active(lines) == FoldLeft(ActiveTake, <<>>, lines)

(* TimelineIndex.editable_turns: the typed messages (a handoff, not here,   *)
(* clears them).                                                            *)
EditableTake(turns, e) ==
    CASE e.type = "rewind" /\ e.turn \in Range(turns) ->
             SubSeq(turns, 1, (CHOOSE i \in DOMAIN turns : turns[i] = e.turn) - 1)
      [] IsTurn(e) /\ e.key = "typed" -> Append(turns, e.turn)
      [] OTHER                        -> turns

EditableTurns(lines) == Range(FoldLeft(EditableTake, <<>>, lines))
-----------------------------------------------------------------------------
(* stream_event_item and finalize_stream_tools: the tools of one turn as    *)
(* the window shows them while it runs and when it has ended.               *)
LiveTake(tools, e) ==
    CASE e.type = "tool_call"   -> [tools EXCEPT ![e.key] = "running"]
      [] e.type = "tool_result" -> [tools EXCEPT ![e.key] = e.body]
      [] e.type = "session_end" ->
             [k \in DOMAIN tools |-> IF tools[k] = "running" THEN "error" ELSE tools[k]]
      [] OTHER -> tools

LiveTools(events, Keys) == FoldLeft(LiveTake, [k \in Keys |-> "none"], events)
-----------------------------------------------------------------------------
(* harnesses.rewind.locate_turn: entries are the native conversation's user *)
(* messages, newest first; the prompts of the turns after the edited one    *)
(* are looked for first, newest first, and skipped when they are not there. *)
FirstFrom(entries, start, prompt) ==
    LET at == {i \in start .. Len(entries) : entries[i].text = prompt} IN
    IF at = {} THEN 0 ELSE CHOOSE i \in at : \A j \in at : i <= j

(* Mutant: later turns that never reached the harness are not passed over.  *)
LocateNoSkip(entries, wanted) ==
    IF wanted = <<>> \/ Len(wanted) > Len(entries) THEN 0
    ELSE IF \A i \in DOMAIN wanted : entries[i].text = wanted[i] THEN Len(wanted) ELSE 0

Locate(entries, wanted) ==
    LET Skip(start, prompt) ==
            IF FirstFrom(entries, start, prompt) = 0 THEN start
            ELSE FirstFrom(entries, start, prompt) + 1 IN
    FirstFrom(entries, FoldLeft(Skip, 1, Front(wanted)), Last(wanted))
=============================================================================
