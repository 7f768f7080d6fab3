-------------------------------- MODULE Timing --------------------------------
(***************************************************************************)
(* The measured attempt of a turn (runtime/timing.py): the turn starts and *)
(* ends spans, a ticker saves a snapshot each second in a thread, and the  *)
(* end drains the ticker and saves the final state, behind a shield.  The  *)
(* save fails while the database is locked, the turn is cancelled, and the *)
(* process stops.  Times are left out: what matters is which status of     *)
(* which span is in the store at last.                                     *)
(***************************************************************************)
EXTENDS Naturals, FiniteSets

CONSTANTS Spans, None,
          MaxCancels, MaxFaults, MaxTicks      \* bounds of the model

VARIABLES span,       \* the recorder's spans
          dirty,      \* those changed since the last snapshot
          phase,      \* the current phase's span
          status,     \* the recorder's summary
          body,       \* what the measured code is at
          ticker,     \* what the ticker is at
          stopped,
          saving,     \* who is in flush, and its snapshot
          thread,     \* the snapshot a thread is writing
          store,      \* the database: the attempt's status, and its spans
          cancels, faults, ticks

vars == <<span, dirty, phase, status, body, ticker, stopped, saving, thread, store,
          cancels, faults, ticks>>
recorder == <<span, dirty, phase, status, stopped>>
bounds == <<cancels, faults, ticks>>

Ended == {"completed", "failed", "cancelled"}
Running == {s \in Spans : span[s] = "running"}

------------------------------------------------------------------------------
(* the measured code *)

\* stage and TimingCallbacks: a span may end in any of the three ways.
StartSpan(s) ==
  /\ body.at = "work" /\ span[s] = "none"
  /\ span' = [span EXCEPT ![s] = "running"]
  /\ dirty' = dirty \cup {s}
  /\ UNCHANGED <<phase, status, body, ticker, stopped, saving, thread, store, bounds>>
EndSpan(s, how) ==
  /\ body.at = "work" /\ span[s] = "running"
  /\ span' = [span EXCEPT ![s] = how]
  /\ dirty' = dirty \cup {s}
  /\ UNCHANGED <<phase, status, body, ticker, stopped, saving, thread, store, bounds>>
\* A phase ends the one before.
Phase(s) ==
  /\ body.at = "work" /\ span[s] = "none"
  /\ LET ends == IF phase # None /\ span[phase] = "running" THEN {phase} ELSE {}
     IN /\ span' = [q \in Spans |-> IF q = s THEN "running" ELSE IF q \in ends THEN "completed" ELSE span[q]]
        /\ dirty' = dirty \cup {s} \cup ends
  /\ phase' = s
  /\ UNCHANGED <<status, body, ticker, stopped, saving, thread, store, bounds>>
\* The turn reports an error, and goes on.
ErrorEvent ==
  /\ body.at = "work" /\ status = "running"
  /\ status' = "failed"
  /\ UNCHANGED <<span, dirty, phase, body, ticker, stopped, saving, thread, store, bounds>>

\* measure's exit: the summary and the open spans take the final status, the
\* ticker is told to stop, and the drain begins.
Exit(how) ==
  /\ body.at = "work"
  /\ how = "cancelled" => cancels < MaxCancels
  /\ cancels' = IF how = "cancelled" THEN cancels + 1 ELSE cancels
  /\ status' = IF how = "completed" /\ status # "running" THEN status ELSE how
  /\ span' = [s \in Spans |-> IF span[s] = "running"
                              THEN IF status' \in {"failed", "cancelled"} THEN status' ELSE "completed"
                              ELSE span[s]]
  /\ dirty' = dirty \cup Running
  /\ stopped' = TRUE
  /\ body' = [at |-> "drain", shielded |-> TRUE]
  /\ UNCHANGED <<phase, ticker, saving, thread, store, faults, ticks>>

------------------------------------------------------------------------------
(* flush *)

\* The snapshot holds the summary, the changed spans and those still open.
Snapshot == [status |-> status, spans |-> [s \in dirty \cup Running |-> span[s]]]
Flush(who) ==
  /\ saving = None
  /\ saving' = [who |-> who, at |-> "save", spans |-> DOMAIN Snapshot.spans, saved |-> TRUE]
  /\ thread' = Snapshot
  /\ dirty' = {}
  /\ UNCHANGED <<span, phase, status, stopped, store>>

Tick == ticker = "flush" /\ thread = None /\ Flush("ticker") /\ UNCHANGED <<body, ticker, bounds>>
\* When the ticker is done, the final snapshot.
Final ==
  /\ body.at = "drain" /\ ticker = "done" /\ thread = None /\ Flush("final")
  /\ body' = [body EXCEPT !.at = "final"]
  /\ UNCHANGED <<ticker, bounds>>
Wakes ==
  /\ ticker = "wait"
  /\ IF stopped THEN ticker' = "done" /\ UNCHANGED ticks
     ELSE ticks < MaxTicks /\ ticks' = ticks + 1 /\ ticker' = "flush"
  /\ UNCHANGED <<body, recorder, saving, thread, store, cancels, faults>>

\* One transaction; what was not saved stays to be saved.
Written(snapshot) ==
  store' = [status |-> snapshot.status,
            spans |-> [s \in Spans |-> IF s \in DOMAIN snapshot.spans THEN snapshot.spans[s] ELSE store.spans[s]]]
ThreadWrites ==
  /\ thread # None
  /\ Written(thread) /\ thread' = None
  /\ saving' = IF saving # None /\ saving.at = "save" THEN [saving EXCEPT !.at = "emit"] ELSE saving
  /\ UNCHANGED <<body, ticker, recorder, bounds>>
ThreadFailsForgotten ==
  /\ thread # None /\ faults < MaxFaults /\ faults' = faults + 1
  /\ thread' = None
  /\ saving' = IF saving # None /\ saving.at = "save" THEN [saving EXCEPT !.at = "emit", !.saved = FALSE] ELSE saving
  /\ UNCHANGED <<recorder, body, ticker, store, cancels, ticks>>
ThreadFails ==
  /\ thread # None /\ faults < MaxFaults /\ faults' = faults + 1
  /\ thread' = None
  /\ IF saving # None /\ saving.at = "save"
     THEN dirty' = dirty \cup saving.spans /\ saving' = [saving EXCEPT !.at = "emit", !.saved = FALSE]
     ELSE UNCHANGED <<dirty, saving>>
  /\ UNCHANGED <<span, phase, status, body, ticker, stopped, store, cancels, ticks>>
\* The client is told, if it can be; the flush ends.
Emit ==
  /\ saving # None /\ saving.at = "emit"
  /\ saving' = None
  /\ IF saving.who = "ticker"
     THEN ticker' = (IF stopped THEN "done" ELSE "wait") /\ UNCHANGED body
     ELSE body' = [body EXCEPT !.at = IF saving.saved THEN "left" ELSE "unsaved"] /\ UNCHANGED ticker
  /\ UNCHANGED <<recorder, thread, store, bounds>>

\* Cancelling the drain: the shield keeps the save, which is then awaited bare,
\* so that the next cancel reaches it, and the ticker through it.
CancelDrain ==
  /\ body.at \in {"drain", "final"} /\ cancels < MaxCancels /\ cancels' = cancels + 1
  /\ IF body.shielded
     THEN body' = [body EXCEPT !.shielded = FALSE] /\ UNCHANGED <<ticker, saving>>
     ELSE /\ body' = [body EXCEPT !.at = "torn"]
          /\ ticker' = "done" /\ saving' = None
  /\ UNCHANGED <<recorder, thread, store, faults, ticks>>
\* The process stops.
Crash ==
  /\ faults < MaxFaults /\ faults' = faults + 1
  /\ body.at \in {"work", "drain", "final"}
  /\ body' = [at |-> "torn", shielded |-> FALSE] /\ ticker' = "done" /\ saving' = None /\ thread' = None
  /\ UNCHANGED <<recorder, store, cancels, ticks>>

\* What a reader of the store is told: an attempt whose process no longer
\* reports is unconfirmed, not running.
Read == IF store.status = "running" /\ body.at = "torn" THEN "unconfirmed" ELSE store.status

Init ==
  /\ span = [s \in Spans |-> "none"] /\ dirty = {} /\ phase = None
  /\ status = "running" /\ stopped = FALSE
  /\ body = [at |-> "work", shielded |-> TRUE] /\ ticker = "flush"
  /\ saving = None /\ thread = None
  /\ store = [status |-> "none", spans |-> span]
  /\ cancels = 0 /\ faults = 0 /\ ticks = 0

Next ==
  \/ \E s \in Spans : StartSpan(s) \/ Phase(s)
  \/ \E s \in Spans, how \in Ended : EndSpan(s, how)
  \/ ErrorEvent \/ Tick \/ Wakes \/ Final \/ Emit \/ ThreadWrites \/ ThreadFails \/ CancelDrain \/ Crash
  \/ \E how \in Ended : Exit(how)

Spec == Init /\ [][Next]_vars

------------------------------------------------------------------------------
(* properties *)

TypeOK ==
  /\ dirty \subseteq Spans /\ phase \in Spans \cup {None}
  /\ ticker \in {"flush", "wait", "done"}
  /\ body.at \in {"work", "drain", "final", "left", "unsaved", "torn"}

\* What the store does not yet have as it is will be saved: a span is there as
\* the recorder has it, still open, or in a snapshot to come or under way.
NothingForgotten ==
  body.at # "torn" =>
    \A s \in Spans :
      \/ span[s] \in {"none", "running"} \/ store.spans[s] = span[s] \/ s \in dirty
      \/ thread # None /\ s \in DOMAIN thread.spans /\ thread.spans[s] = span[s]

\* When the turn is left and the last save did not fail, the store has its final
\* state whole, whatever failed before ("Drain an in-flight snapshot before
\* writing final state; never cancel a file write"), and only what ended well is
\* read as completed.
StoredWhole ==
  /\ body.at = "left" => store.status = status /\ store.spans = span
  /\ Read = "completed" => status = "completed"

\* The timing record of a turn is complete.
TimedWhole == TypeOK /\ NothingForgotten /\ StoredWhole
==============================================================================
