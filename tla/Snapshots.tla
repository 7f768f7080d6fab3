------------------------------- MODULE Snapshots -------------------------------
(***************************************************************************)
(* harnesses/context.py: the conversation as a fresh harness is given it, in *)
(* a snapshot bound to the log it was made from, by processes that keep each *)
(* other out with a lease (AgentService of harnesses/service.py).  Handoff   *)
(* has the switch of one process and what becomes of it.                    *)
(*                                                                         *)
(* An event is its place in the log, which only grows; the text of a record  *)
(* is the set of the events it was made from.  The events "project" leaves   *)
(* out are left out.                                                        *)
(***************************************************************************)
EXTENDS Naturals, Sequences, FiniteSets, FiniteSetsExt

CONSTANTS Processes, None,
          Budget,                    \* records that fit inline (DEFAULT_INLINE_BYTES)
          MaxEvents, MaxFaults       \* bounds of the model

VARIABLES log,      \* events.jsonl
          objects,  \* context-v1/objects: the texts on disk
          snaps,    \* the snapshots published
          lease,    \* who holds writer.lock
          op,       \* by process: what it is doing
          route,    \* by process: its live route, with the handoff it still owes
          reads,    \* the harness has a context reader
          slipped,  \* processes whose switch another one's append slipped into
          faults
vars == <<log, objects, snaps, lease, op, route, reads, slipped, faults>>

Idle == [at |-> "idle"]
Event(kind) == [kind |-> kind, of |-> 0]

Init ==
  /\ log = <<>> /\ objects = {} /\ snaps = {} /\ lease = None
  /\ op = [p \in Processes |-> Idle]
  /\ route = [p \in Processes |-> None]
  /\ reads \in BOOLEAN /\ slipped = {} /\ faults = 0

-------------------------------------------------------------------------------
(* project(active_events(events)) *)

\* A rewind hides its turn and everything after it that was still visible.
Hidden(ev) == {i \in DOMAIN ev : \E r \in DOMAIN ev : ev[r].kind = "rewind" /\ ev[r].of <= i /\ i <= r}
Active(ev) == DOMAIN ev \ Hidden(ev)
Content    == {"user", "answer", "tool"}

Turn(ev, i)  == Max({0} \cup {j \in Active(ev) : j <= i /\ ev[j].kind = "user"})
Answered(ev) == {Turn(ev, i) : i \in {j \in Active(ev) : ev[j].kind = "answer"}}
Fragments(ev, t) == {i \in Active(ev) : ev[i].kind = "fragment" /\ Turn(ev, i) = t}
Projected(ev) ==
  {{i} : i \in {j \in Active(ev) : ev[j].kind \in Content}}
    \cup ({Fragments(ev, t) : t \in {Turn(ev, i) : i \in Active(ev)} \ Answered(ev)} \ {{}})

Snapshot(ev)  == [source |-> ev, records |-> Projected(ev)]
\* A text that does not fit is left to the reader.
Omits(s) == Cardinality(s.records) > Budget
Pending(p) == route[p] # None /\ route[p].snap # None
Loads(s) == s \in snaps /\ s.records \subseteq objects
              /\ SubSeq(log, 1, Len(s.source)) = s.source
\* what the reader of a snapshot gives, page by page: nothing of one that fails
Given(s) == IF Loads(s) THEN s.records ELSE {}

-------------------------------------------------------------------------------
(* appends *)

Append1(e) == Len(log) < MaxEvents /\ log' = Append(log, e)
\* Another process is between its comparison and its commit.
Slips(p) == slipped' = slipped \cup {q \in Processes \ {p} : op[q].at = "commit"}
Same == UNCHANGED slipped

Take(p) == lease = None /\ lease' = p
Release == lease' = None

-------------------------------------------------------------------------------
(* the switch: _switch_session, prepare *)

\* restore_session looks whether a handoff is owed before the lease is taken again.
Owed == \E i \in DOMAIN log : log[i].kind = "switch" /\ \A j \in DOMAIN log : j > i => log[j].kind # "answer"
BeginSwitch(p) ==
  /\ op[p] = Idle /\ Take(p) /\ Len(log) < MaxEvents
  /\ op' = [op EXCEPT ![p] = [at |-> "objects", snap |-> Snapshot(log)]]
  /\ UNCHANGED <<log, objects, snaps, route, reads, slipped, faults>>
\* One object after the other, then the snapshot that refers to them.
Publish(p) ==
  /\ op[p].at = "objects"
  /\ LET missing == op[p].snap.records \ objects
     IN \/ /\ \E r \in missing : /\ \A q \in missing : Min(r) <= Min(q)
                                /\ objects' = objects \cup {r}
           /\ UNCHANGED <<op, snaps>>
        \/ /\ missing = {} /\ snaps' = snaps \cup {op[p].snap} /\ UNCHANGED objects
           /\ op' = [op EXCEPT ![p].at = "candidate"]
  /\ UNCHANGED <<log, lease, route, reads, slipped, faults>>
\* The native session opens (awaited); then the log must be as it was read.
CompareNever(p) ==
  /\ op[p].at = "candidate"
  /\ IF Omits(op[p].snap) /\ ~reads
     THEN op' = [op EXCEPT ![p] = Idle] /\ Release
     ELSE op' = [op EXCEPT ![p].at = "commit"] /\ UNCHANGED lease
  /\ UNCHANGED <<log, objects, snaps, route, reads, slipped, faults>>
Compare(p) ==
  /\ op[p].at = "candidate"
  /\ IF (Omits(op[p].snap) /\ ~reads) \/ log # op[p].snap.source
     THEN op' = [op EXCEPT ![p] = Idle] /\ Release
     ELSE op' = [op EXCEPT ![p].at = "commit"] /\ UNCHANGED lease
  /\ UNCHANGED <<log, objects, snaps, route, reads, slipped, faults>>
Commit(p) ==
  /\ op[p].at = "commit" /\ Append1(Event("switch"))
  /\ route' = [route EXCEPT ![p] = [snap |-> op[p].snap, at |-> Len(log) + 1]]
  /\ op' = [op EXCEPT ![p] = Idle] /\ Release
  /\ UNCHANGED <<objects, snaps, reads, slipped, faults>>
\* resume_session, without the lease, when no handoff is owed
Resume(p) ==
  /\ op[p] = Idle /\ route[p] = None /\ ~Owed
  /\ route' = [route EXCEPT ![p] = [snap |-> None, at |-> Len(log)]]
  /\ slipped' = slipped \ {p}
  /\ UNCHANGED <<log, objects, snaps, lease, op, reads, faults>>

-------------------------------------------------------------------------------
(* turns: prompt *)

\* What is owed is loaded before the turn is recorded.
BeginTurn(p) ==
  /\ op[p] = Idle /\ route[p] # None /\ Take(p)
  /\ Pending(p) => Loads(route[p].snap)
  /\ Append1(Event("user")) /\ Same
  /\ op' = [op EXCEPT ![p] = [at |-> "turn"]]
  /\ UNCHANGED <<objects, snaps, route, reads, faults>>
TurnSays(p) ==
  /\ op[p].at = "turn"
  /\ \E kind \in {"fragment", "tool"} : Append1(Event(kind))
  /\ Same
  /\ UNCHANGED <<objects, snaps, lease, op, route, reads, faults>>
\* With its answer the handoff is delivered.
EndTurn(p) ==
  /\ op[p].at = "turn"
  /\ \/ Append1(Event("answer")) /\ route' = [route EXCEPT ![p].snap = None]
        /\ slipped' = slipped \ {p}
     \/ UNCHANGED <<log, route, slipped>>
  /\ op' = [op EXCEPT ![p] = Idle] /\ Release
  /\ UNCHANGED <<objects, snaps, reads, faults>>

-------------------------------------------------------------------------------
(* what is appended without the lease *)

\* compact_session's event and the desktop's records
Unleased(p) ==
  /\ op[p] = Idle /\ route[p] # None
  /\ Append1(Event("tool"))
  /\ Slips(p)
  /\ UNCHANGED <<objects, snaps, lease, op, route, reads, faults>>
\* rewind: not while a handoff is owed
Rewind(p) ==
  /\ op[p] = Idle /\ route[p] # None /\ ~Pending(p)
  /\ \E i \in Active(log) : log[i].kind = "user" /\ Append1([kind |-> "rewind", of |-> i])
  /\ Slips(p)
  /\ UNCHANGED <<objects, snaps, lease, op, route, reads, faults>>

\* The lock goes with the process.
Crash(p) ==
  /\ faults < MaxFaults /\ faults' = faults + 1
  /\ op' = [op EXCEPT ![p] = Idle] /\ route' = [route EXCEPT ![p] = None]
  /\ lease' = IF lease = p THEN None ELSE lease
  /\ slipped' = slipped \ {p}
  /\ UNCHANGED <<log, objects, snaps, reads>>

-------------------------------------------------------------------------------
Next == \E p \in Processes :
  \/ BeginSwitch(p) \/ Publish(p) \/ Compare(p) \/ Commit(p) \/ Resume(p)
  \/ BeginTurn(p) \/ TurnSays(p) \/ EndTurn(p)
  \/ Unleased(p) \/ Rewind(p) \/ Crash(p)

Spec == Init /\ [][Next]_vars

-------------------------------------------------------------------------------
(* properties *)

TypeOK ==
  /\ lease \in Processes \cup {None} /\ slipped \subseteq Processes
  /\ \A p \in Processes : op[p].at \in {"idle", "objects", "candidate", "commit", "turn"}

\* Whatever stops on the way, a snapshot that is there can be read whole, by
\* this process or another, however the log grows.  (context.py:314-345, 435-474)
SnapshotWhole == \A s \in snaps : Loads(s)

\* What a fresh native session is given, inline or through the reader, is the
\* whole conversation up to its switch, with what a rewind hid left out, unless
\* another process appended in the moment between the comparison and the commit.
\* (harnesses/service.py:279-352)
HistoryGiven ==
  \A p \in Processes : Pending(p) =>
    LET s      == route[p].snap
        before == SubSeq(log, 1, route[p].at - 1)
    IN /\ p \notin slipped => Given(s) = Projected(before)
       /\ Omits(s) => reads

ContextKept == TypeOK /\ SnapshotWhole /\ HistoryGiven
===============================================================================
