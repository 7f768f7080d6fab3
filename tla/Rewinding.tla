----------------------------- MODULE Rewinding ------------------------------
(***************************************************************************)
(* Editing an earlier message (rewind_thread): the harness's own            *)
(* conversation is cut before that message, then the log says so, while    *)
(* runs, failures and crashes come in between.  What the window shows is   *)
(* the timeline of the log, rewound as it is read (module Timeline).        *)
(*                                                                         *)
(* A harness keeps conversations on its side ("transcripts").  Codex cuts   *)
(* the one it has; Claude makes a cut copy and connects to that.  The log   *)
(* here is what follows the last handoff, where editing ends (for the       *)
(* handoff itself see module Handoff).                                      *)
(***************************************************************************)
EXTENDS Timeline, TLC

CONSTANTS
    Texts,      \* prompts
    Tools,      \* ids of tool calls, which turns may share
    Receipts,   \* ids of instructions given to a running turn
    MaxTurns,   \* bound: prompts
    MaxLog,     \* bound: length of the log
    MaxEdits,   \* bound: edits begun
    MaxFaults   \* bound: crashes and steps that fail

ASSUME RewindingAssumption ==
    {MaxTurns, MaxLog, MaxEdits, MaxFaults} \subseteq Nat

VARIABLES
    log,        \* the session's events
    texts,      \* what the prompt of each turn was
    run,        \* the turn under way and how far it is
    edit,       \* rewind_thread, once it has checked that nothing runs
    edits,
    provider,
    transcripts,\* the harness's conversations, by native id
    session,    \* native_session_id of the live runtime
    client,     \* the conversation its process is in
    reconnect,  \* needs_reconnect: the next prompt connects to session first
    kept,       \* native_session_id of the manifest
    reached,    \* the turns whose prompt the harness took
    odd,        \* what happened that lets harness and log differ
    faults

native  == <<transcripts, session, client, reconnect, kept, reached>>
vars == <<log, texts, run, edit, edits, provider, native, odd, faults>>

None   == 0          \* no native id
Idle   == [turn |-> NoTurn, stage |-> "none"]
NoEdit == [turn |-> NoTurn, stage |-> "none", wanted |-> <<>>, known |-> FALSE]

Init ==
    /\ log = <<>> /\ texts = <<>>
    /\ run = Idle /\ edit = NoEdit /\ edits = 0
    /\ provider \in {"claude", "codex"}
    /\ transcripts = << <<>> >>
    /\ session = IF provider = "codex" THEN 1 ELSE None
    /\ client = 1
    /\ reconnect = FALSE
    /\ kept = session
    /\ reached = {}
    /\ odd = {}
    /\ faults = 0

Fault == faults < MaxFaults /\ faults' = faults + 1

(* append_events.                                                           *)
Room(k) == Len(log) + k <= MaxLog
Says(type, turn, key, body) == Event(Len(log) + 1, type, turn, key, body)
Log(e) == Room(1) /\ log' = Append(log, e)
-----------------------------------------------------------------------------
(* A prompt is logged, as typed or, directly after a turn, made of queued   *)
(* instructions.  Nothing looks whether an edit is under way.               *)
Ask(x, how) ==
    /\ run = Idle
    /\ client # None
    /\ Len(texts) < MaxTurns
    /\ how = "queued" => log # <<>> /\ Last(log).type = "session_end"
    /\ LET t == Len(texts) + 1 IN
       /\ Log(Says("user_message", t, how, ""))
       /\ texts' = Append(texts, x)
       /\ run' = [turn |-> t, stage |-> "asked"]
    /\ odd' = IF edit.stage = "none" THEN odd ELSE odd \cup {"overlapped"}
    /\ UNCHANGED <<edit, edits, provider, native, faults>>

Fresh == Len(transcripts) + 1

(* The harness takes it; a stream that was dropped is replaced first, by    *)
(* one that resumes the runtime's native session.                           *)
Deliver ==
    /\ run.stage = "asked"
    /\ LET to   == CASE ~reconnect      -> client
                     [] session # None  -> session
                     [] OTHER           -> Fresh
           held == IF to = Fresh THEN Append(transcripts, <<>>) ELSE transcripts
           said == [turn |-> run.turn, text |-> texts[run.turn]] IN
       /\ transcripts' = [held EXCEPT ![to] = Append(@, said)]
       /\ client' = to
       /\ session' = to
    /\ reconnect' = FALSE
    /\ reached' = reached \cup {run.turn}
    /\ run' = [run EXCEPT !.stage = "working"]
    /\ UNCHANGED <<log, texts, edit, edits, provider, kept, odd, faults>>

(* It cannot be reached.                                                    *)
NotDelivered ==
    /\ run.stage = "asked"
    /\ Log(Says("session_end", run.turn, "", "failed"))
    /\ run' = Idle
    /\ \/ UNCHANGED reconnect
       \/ provider = "claude" /\ reconnect' = TRUE
    /\ UNCHANGED <<texts, edit, edits, provider, transcripts, session, client,
                   kept, reached, odd, faults>>

Speak ==
    /\ run.stage = "working"
    /\ \/ Log(Says("assistant_fragment", run.turn, "", "part"))
       \/ \E k \in Tools : \/ Log(Says("tool_call", run.turn, k, ""))
                           \/ Log(Says("tool_result", run.turn, k, "done"))
    /\ UNCHANGED <<texts, run, edit, edits, provider, native, odd, faults>>

(* A receipt is logged when it is queued and when it is settled, which a    *)
(* later run or nobody's may do.                                            *)
Status(r) == LET at == {i \in DOMAIN log : log[i].type = "steer" /\ log[i].key = r} IN
             IF at = {} THEN "none" ELSE log[CHOOSE i \in at : \A j \in at : i >= j].body

Queue(r) ==
    /\ run.stage = "working"
    /\ Status(r) = "none"
    /\ Log(Says("steer", run.turn, r, "queued"))
    /\ UNCHANGED <<texts, run, edit, edits, provider, native, odd, faults>>

Settle(r) ==
    /\ Status(r) = "queued"
    /\ LET said == Says("steer", NoTurn, r, "received") IN
       \/ /\ Room(2)
          /\ log' = log \o <<said, [Says("user_message", run.turn, "inline", "")
                                        EXCEPT !.seq = Len(log) + 2]>>
       \/ Log([said EXCEPT !.body = "failed"])
    /\ UNCHANGED <<texts, run, edit, edits, provider, native, odd, faults>>

(* The turn returns: the answer and the end are logged together, and the    *)
(* manifest names the native session.                                       *)
Finish(status) ==
    /\ run.stage = "working"
    /\ LET answer == IF status = "completed"
                     THEN <<Says("assistant_message", run.turn, "", "whole")>> ELSE <<>>
           ending == Event(Len(log) + Len(answer) + 1, "session_end", run.turn, "known",
                           status) IN
       /\ Room(Len(answer) + 1)
       /\ log' = log \o Append(answer, ending)
    /\ kept' = session
    /\ run' = Idle
    /\ UNCHANGED <<texts, edit, edits, provider, transcripts, session, client,
                   reconnect, reached, odd, faults>>

(* It raises: the end is logged without the harness's name for the turn.    *)
Break ==
    /\ run.stage = "working"
    /\ Log(Says("session_end", run.turn, "", "failed"))
    /\ run' = Idle
    /\ reconnect' = (reconnect \/ provider = "claude")
    /\ UNCHANGED <<texts, edit, edits, provider, transcripts, session, client,
                   kept, reached, odd, faults>>
-----------------------------------------------------------------------------
(* rewind_thread: nothing runs, and the message can be edited...            *)
BeginEdit(t) ==
    /\ edit = NoEdit
    /\ edits < MaxEdits
    /\ run = Idle
    /\ client # None
    /\ t \in EditableTurns(log)
    /\ edit' = [NoEdit EXCEPT !.turn = t, !.stage = "begun"]
    /\ edits' = edits + 1
    /\ UNCHANGED <<log, texts, run, provider, native, odd, faults>>

(* ...then the log is read in a thread: the prompts of the turns after it,  *)
(* newest first, and whether the harness's name for the turn is recorded.   *)
Prompts(t) ==
    LET turns == SelectSeq(Active(log), LAMBDA e : IsTurn(e) /\ e.key # "inline" /\ e.turn >= t) IN
    [i \in DOMAIN turns |-> texts[turns[Len(turns) + 1 - i].turn]]

ReadEdit ==
    /\ edit.stage = "begun"
    /\ edit' = [edit EXCEPT !.stage = "read", !.wanted = Prompts(edit.turn),
                  !.known = \E i \in DOMAIN log : log[i].type = "session_end"
                                  /\ log[i].turn = edit.turn /\ log[i].key = "known"]
    /\ UNCHANGED <<log, texts, run, edits, provider, native, odd, faults>>

(* Where the harness's conversation is cut: at the message the prompts lead *)
(* to, or at the turn whose native name is known.                           *)
Entries(conversation) == Reverse(conversation)

CutAt(conversation) ==
    LET entries == Entries(conversation)
        named   == {i \in DOMAIN conversation : conversation[i].turn = edit.turn} IN
    IF provider = "codex" /\ edit.known /\ named # {}
    THEN CHOOSE i \in named : TRUE
    ELSE LET p == Locate(entries, edit.wanted) IN
         IF p = 0 THEN 0 ELSE Len(conversation) + 1 - p

Source == IF provider = "claude" THEN session ELSE client

(* A turn is running, no native session is known or the message is not      *)
(* found: the edit is refused.                                              *)
RefuseEdit ==
    /\ edit.stage = "read"
    /\ \/ run.stage = "working"
       \/ Source = None
       \/ Source # None /\ CutAt(transcripts[Source]) = 0
    /\ edit' = NoEdit
    /\ UNCHANGED <<log, texts, run, edits, provider, native, odd, faults>>

CanCut == /\ edit.stage = "read"
          /\ run.stage # "working"
          /\ Source # None
          /\ CutAt(transcripts[Source]) # 0

Mistaken == IF transcripts[Source][CutAt(transcripts[Source])].turn = edit.turn
            THEN {} ELSE {"mistaken"}

(* Codex drops the turn and what follows from its conversation.             *)
CutCodex ==
    /\ provider = "codex" /\ CanCut
    /\ transcripts' = [transcripts EXCEPT ![client] = SubSeq(@, 1, CutAt(@) - 1)]
    /\ odd' = odd \cup Mistaken
    /\ edit' = [edit EXCEPT !.stage = "cut"]
    /\ UNCHANGED <<log, texts, run, edits, provider, session, client, reconnect,
                   kept, reached, faults>>

Before == SubSeq(transcripts[Source], 1, CutAt(transcripts[Source]) - 1)
Forked == IF Before = <<>> THEN None ELSE Fresh

(* Mutant: the manifest keeps the name it had.                              *)
CutClaudeUnsaved ==
    /\ provider = "claude" /\ CanCut
    /\ transcripts' = Append(transcripts, Before)
    /\ client' = Fresh
    /\ session' = Forked
    /\ reconnect' = FALSE
    /\ odd' = odd \cup Mistaken
    /\ edit' = [edit EXCEPT !.stage = "cut"]
    /\ UNCHANGED <<log, texts, run, edits, provider, kept, reached, faults>>

(* Claude goes on in a copy that ends before the turn; before the first one *)
(* it starts a new conversation, whose id is not known yet.  The manifest   *)
(* names it.                                                                *)
CutClaude ==
    /\ provider = "claude" /\ CanCut
    /\ transcripts' = Append(transcripts, Before)
    /\ client' = Fresh
    /\ session' = Forked
    /\ kept' = Forked
    /\ reconnect' = FALSE
    /\ odd' = odd \cup Mistaken
    /\ edit' = [edit EXCEPT !.stage = "cut"]
    /\ UNCHANGED <<log, texts, run, edits, provider, reached, faults>>

(* The new process does not start: the edit fails, after the runtime was    *)
(* told of the copy.                                                        *)
CutFails ==
    /\ provider = "claude" /\ CanCut
    /\ Fault
    /\ transcripts' = Append(transcripts, Before)
    /\ session' = Forked
    /\ odd' = odd \cup {"forked"}
    /\ edit' = NoEdit
    /\ UNCHANGED <<log, texts, run, edits, provider, client, reconnect, kept,
                   reached>>

(* ...and the marker is logged.                                             *)
RecordEdit ==
    /\ edit.stage = "cut"
    /\ Log(Says("rewind", edit.turn, "", ""))
    /\ edit' = NoEdit
    /\ UNCHANGED <<texts, run, edits, provider, native, odd, faults>>

RecordFails ==
    /\ edit.stage = "cut"
    /\ Fault
    /\ odd' = odd \cup {"unrecorded"}
    /\ edit' = NoEdit
    /\ UNCHANGED <<log, texts, run, edits, provider, native>>
-----------------------------------------------------------------------------
(* The process ends; the next one resumes what the manifest names.          *)
Crash ==
    /\ Fault
    /\ client' = kept /\ session' = kept
    /\ reconnect' = FALSE
    /\ run' = Idle
    /\ edit' = NoEdit
    /\ odd' = IF edit.stage = "cut" THEN odd \cup {"unrecorded"} ELSE odd
    /\ UNCHANGED <<log, texts, edits, provider, transcripts, kept, reached>>
-----------------------------------------------------------------------------
Turn == \/ \E x \in Texts, how \in {"typed", "queued"} : Ask(x, how)
        \/ Deliver \/ NotDelivered \/ Speak \/ Break
        \/ \E status \in {"completed", "cancelled"} : Finish(status)
        \/ \E r \in Receipts : Queue(r) \/ Settle(r)

Edit == \/ \E t \in 1 .. MaxTurns : BeginEdit(t)
        \/ ReadEdit \/ RefuseEdit \/ CutCodex \/ CutClaude \/ CutFails
        \/ RecordEdit \/ RecordFails

Next == Turn \/ Edit \/ Crash

Spec == Init /\ [][Next]_vars

Symmetry == Permutations(Texts)
-----------------------------------------------------------------------------
Types == {"user_message", "steer", "assistant_fragment", "assistant_message",
          "tool_call", "tool_result", "session_end", "rewind"}

(* The values the variables take; the events are numbered as they come.     *)
TypeOK ==
    /\ \A i \in DOMAIN log : log[i].seq = i /\ log[i].type \in Types
                             /\ log[i].turn \in 0 .. Len(texts)
    /\ texts \in Seq(Texts) /\ Len(texts) <= MaxTurns
    /\ run.stage \in {"none", "asked", "working"}
    /\ edit.stage \in {"none", "begun", "read", "cut"}
    /\ {session, client, kept} \subseteq 0 .. Len(transcripts)
    /\ edit.stage = "read" => edit.wanted # <<>>
    /\ reached \subseteq DOMAIN texts
    /\ odd \subseteq {"overlapped", "mistaken", "unrecorded", "forked"}

(* "Hide rewound turns while the raw log stays authoritative" (sessions/    *)
(* rewind.py): what the window shows of the log, rewinding as it reads, is  *)
(* what it would show had the rewound turns never been logged.  Only what a *)
(* receipt says is not turned back, and no run came between.               *)
Shown(lines) ==
    LET items == Visible(Resume(EmptyIndex, lines)) IN
    [i \in DOMAIN items |->
        IF items[i].id[1] = "steer" THEN <<items[i].id>>
        ELSE <<items[i].id, items[i].turn, items[i].body>>]

ShownIsActive == "overlapped" \notin odd => Shown(log) = Shown(Active(log))

(* Cursors are positions, good until a rewind marker is read: as long as    *)
(* none is, every line leaves the items where they are, and the join with   *)
(* the turns drops none of them, so that no page repeats an item or leaves  *)
(* one out.                                                                 *)
CursorsStayGood ==
    log # <<>> =>
        LET now    == Resume(EmptyIndex, log)
            before == Resume(EmptyIndex, Front(log)) IN
        /\ "overlapped" \notin odd => Visible(now) = now.items
        /\ Last(log).type # "rewind" =>
              \A i \in DOMAIN before.items :
                  /\ i \in DOMAIN now.items
                  /\ now.items[i].id = before.items[i].id

(* "The live stream and a reloaded thread show the same tools" (tests/      *)
(* desktop/test_projection_consistency.py), of the turn that ended last.          *)
ReloadedAsShown ==
    ("overlapped" \notin odd /\ log # <<>> /\ Last(log).type = "session_end") =>
        LET t     == Last(log).turn
            items == Range(Visible(Resume(EmptyIndex, log)))
            live  == LiveTools(SelectSeq(Active(log), LAMBDA e : e.turn = t), Tools) IN
        \A k \in Tools :
            IF \E i \in DOMAIN log : log[i].type = "tool_call" /\ log[i].turn = t
                                     /\ log[i].key = k
            THEN \E item \in items : item.turn = t /\ item.id[1] \in {"tool", "tool-result"}
                                     /\ item.body = <<live[k]>>
            ELSE live[k] \in {"none", "done"}

(* The conversation the harness goes on in.                                 *)
Continued ==
    CASE ~reconnect     -> transcripts[client]
      [] session # None -> transcripts[session]
      [] OTHER          -> <<>>

(* With nothing under way, the harness remembers the turns the window shows *)
(* and no others, through edits, lost turns, dropped streams and restarts.  *)
HarnessRemembersShown ==
    run = Idle /\ edit = NoEdit /\ odd = {} /\ client # None =>
        LET turns == SelectSeq(Active(log),
                               LAMBDA e : IsTurn(e) /\ e.key # "inline" /\ e.turn \in reached) IN
        [i \in DOMAIN Continued |-> Continued[i].turn] = [i \in DOMAIN turns |-> turns[i].turn]

(* What the log says was taken back, the harness has forgotten, whatever    *)
(* failed or stopped on the way, unless a run came between.                 *)
HiddenIsForgotten ==
    odd \cap {"overlapped", "mistaken"} = {} /\ client # None =>
        LET active == {e.turn : e \in {x \in Range(Active(log)) : IsTurn(x)}} IN
        \A i \in DOMAIN Continued : Continued[i].turn \in active

(* What the window shows is what the log says was not taken back, at places *)
(* that stay, and as it was shown live.                                     *)
WindowTrue == TypeOK /\ ShownIsActive /\ CursorsStayGood /\ ReloadedAsShown

(* What the harness remembers is what the window shows, or less.            *)
HarnessTrue == HarnessRemembersShown /\ HiddenIsForgotten
=============================================================================
