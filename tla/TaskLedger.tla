------------------------------ MODULE TaskLedger ------------------------------
(***************************************************************************)
(* The ledger of tasks inside a conversation: each turn is classified as   *)
(* continuing the task or starting a new one and bound to it               *)
(* (runtime/task_tracking.py), workers take the binding when they are      *)
(* delegated (routing/execution.py), and the consumption of a task is read *)
(* back from the logs (runtime/task_ledger.py, task_usage.py,              *)
(* task_scopes.py).                                                        *)
(*                                                                         *)
(* A task is its number; 0 is the history before tracking and Tracked the  *)
(* scope that a marker left by an older version opens.  A native thread    *)
(* reports a running total, an API call its own count, and a count is one  *)
(* number.  "for" and "spent" are what really happened, of which the       *)
(* program knows nothing.                                                  *)
(***************************************************************************)
EXTENDS Naturals, FiniteSets, FiniteSetsExt, Sequences

CONSTANTS Workers, Root, None,
          MaxTasks, MaxEvents, MaxMore, MaxThreads, MaxFaults   \* bounds of the model

History == 0
Tracked == MaxTasks + 1
Tasks == 0..MaxTasks + 1

VARIABLES log,        \* the conversation's events
          bound,      \* its manifest's usage_task_id
                  turn,       \* what the conversation's turn is at
          thread,     \* its native thread
          native,     \* what each native thread has consumed, as the provider counts
                  restarted,  \* a thread's count started again
          jobs,       \* delegated work, by worker
          spent,      \* what was consumed and reported for each task
          faults

vars == <<log, bound, turn, thread, native, restarted, jobs, spent, faults>>
ledger == <<native, restarted, spent>>
Idle == [at |-> "idle"]
NoJob == [at |-> "none"]

------------------------------------------------------------------------------
(* runtime/task_scopes.py *)

Boundaries(events) == {i \in DOMAIN events : events[i].t = "boundary"}
\* The first marker that an older version bound to the history.
Markers(events) == {i \in Boundaries(events) : events[i].task = History}
Normalized(events) ==
  [i \in DOMAIN events |-> IF i \in Markers(events) THEN [events[i] EXCEPT !.task = Tracked] ELSE events[i]]

\* A child bound to the history belongs to the tracked scope if it was started
\* after the marker and before the next task.
Resolve(events, binding, at) ==
  LET first == Min(Markers(events))
      later == {i \in Boundaries(events) : i > first /\ events[i].task \notin {History, Tracked}}
  IN IF /\ Markers(events) # {} /\ binding = History
        /\ at >= first /\ (later # {} => at < Min(later))
     THEN Tracked ELSE binding

------------------------------------------------------------------------------
(* runtime/task_ledger.py and task_usage.py *)

TaskAt(events, i, inherited) ==
  LET at[j \in 0..i] == IF j = 0 THEN inherited
                        ELSE IF events[j].t = "boundary" THEN events[j].task ELSE at[j - 1]
  IN at[i]
ActiveTask == TaskAt(Normalized(log), Len(log), History)

\* A running total counts from the last one of its thread, whatever task that
\* was in; a smaller one starts a segment; a call counts once.
BaselineInTask(events, i) ==
  {j \in 1..i - 1 : events[j].t = "total" /\ events[j].thread = events[i].thread
                    /\ TaskAt(events, j, History) = TaskAt(events, i, History)}
Baseline(events, i) ==
  {j \in 1..i - 1 : events[j].t = "total" /\ events[j].thread = events[i].thread}
Delta(events, i) ==
  CASE events[i].t = "total" ->
         LET earlier == Baseline(events, i)
             prior == IF earlier = {} THEN 0 ELSE events[Max(earlier)].n
         IN IF events[i].n >= prior THEN events[i].n - prior ELSE events[i].n
    [] events[i].t = "call" ->
         IF \E j \in 1..i - 1 : events[j].t = "call" /\ events[j].key = events[i].key THEN 0 ELSE events[i].n
    [] events[i].t = "boundary" -> events[i].n
    [] OTHER -> 0
Used(events, inherited, task) ==
  LET upto[i \in 0..Len(events)] ==
        IF i = 0 THEN 0
        ELSE upto[i - 1] + IF TaskAt(events, i, inherited) = task THEN Delta(events, i) ELSE 0
  IN upto[Len(events)]

Sessions == {w \in Workers : jobs[w].at = "session"}
\* The task a child's usage belongs to: its binding, or its parent's.
Included(w) ==
  LET Bound(v, parents) == Resolve(log, IF jobs[v].task # None THEN jobs[v].task ELSE parents, jobs[v].since)
      p == jobs[w].parent
      above == Bound(p, History)
  IN CASE p = Root -> Bound(w, History)
       [] p # Root /\ above = Tracked -> Bound(w, above)
       [] OTHER -> IF jobs[w].task # None THEN jobs[w].task ELSE above
\* A routing record's evaluator call.
EvaluatorTask(w) ==
  LET binding == IF jobs[w].task # None THEN jobs[w].task ELSE History
  IN IF jobs[w].parent = Root \/ Included(jobs[w].parent) = Tracked
     THEN Resolve(log, binding, jobs[w].since) ELSE binding
Recorded(w) ==
  jobs[w].at # "none" /\ jobs[w].evaluated > 0
  /\ (jobs[w].parent = Root \/ jobs[w].parent \in Sessions)

ScopedUsage(task) ==
  Used(Normalized(log), History, task)
  + MapThenSumSet(LAMBDA w : Used(jobs[w].log, Included(w), task), Sessions)
  + MapThenSumSet(LAMBDA w : jobs[w].evaluated, {w \in Workers : Recorded(w) /\ EvaluatorTask(w) = task})

------------------------------------------------------------------------------
(* begin_task_turn *)

\* The conversation's events and its delegations are bounded together.
Room == Len(log) + Cardinality({w \in Workers : jobs[w].at # "none"}) < MaxEvents
Fresh == {i \in 1..MaxTasks : \A j \in Boundaries(log) : log[j].task # i}
Boundary(task, n) == [t |-> "boundary", task |-> task, n |-> n]
Prior == LET last == Boundaries(log) IN IF last = {} THEN None ELSE Normalized(log)[Max(last)].task
Previous == IF Prior # None THEN Prior ELSE IF bound # None THEN bound ELSE History

\* The boundary is appended, with the usage of the evaluator's call (n), then
\* the manifest bound.
Binds(task, n, stop) ==
  /\ Room
  /\ log' = Append(log, Boundary(task, n))
  /\ spent' = [spent EXCEPT ![task] = @ + n]
  /\ turn' = [at |-> "manifest", task |-> task, stop |-> stop]
New(n) == Fresh # {} /\ Binds(Min(Fresh), n, FALSE)
\* The policy is read for each turn: nothing is tracked, the first turn opens a
\* task, or the evaluator is asked.
BeginTurn(on) ==
  /\ turn = Idle /\ Room
  /\ \/ ~on /\ bound = None /\ turn' = [at |-> "run"] /\ UNCHANGED <<log, spent>>
     \/ ~on /\ bound # None /\ Binds(Previous, 0, FALSE)
     \/ on /\ Prior # None /\ turn' = [at |-> "evaluate", previous |-> Previous] /\ UNCHANGED <<log, spent>>
     \/ on /\ Prior = None /\ New(0)
  /\ UNCHANGED <<bound, thread, native, restarted, jobs, faults>>
\* The evaluator's answer; or none, when it fails, times out or is cancelled
\* (stop), and the task continues.  Its call is always one token.
Decide(new, stop) ==
  /\ turn.at = "evaluate"
  /\ IF new THEN ~stop /\ New(1) ELSE Binds(turn.previous, 1, stop)
  /\ UNCHANGED <<bound, thread, native, restarted, jobs, faults>>
Manifest ==
  /\ turn.at = "manifest"
  /\ bound' = turn.task
  /\ turn' = IF turn.stop THEN Idle ELSE [at |-> "run"]
  /\ UNCHANGED <<log, thread, jobs, faults, ledger>>
EndTurn ==
  /\ turn.at = "run" /\ turn' = Idle
  /\ UNCHANGED <<log, bound, thread, jobs, faults, ledger>>
\* The application stops between two writes, or a write fails.
Crash ==
  /\ faults < MaxFaults /\ faults' = faults + 1
  /\ turn # Idle /\ turn' = Idle
  /\ UNCHANGED <<log, bound, thread, jobs, ledger>>

------------------------------------------------------------------------------
(* what a turn and its workers consume *)

\* A running total, which may repeat the last one.
Report(more) ==
  /\ turn.at = "run" /\ Room
  /\ native' = [native EXCEPT ![thread] = @ + more]
  /\ log' = Append(log, [t |-> "total", thread |-> thread, n |-> native'[thread]])
  /\ spent' = [spent EXCEPT ![ActiveTask] = @ + more]
  /\ UNCHANGED <<bound, turn, thread, restarted, jobs, faults>>
\* A call's own count; a repeat has the call's key.
Keys == {log[i].key : i \in {j \in DOMAIN log : log[j].t = "call"}}
Call(key) ==
  /\ turn.at = "run" /\ Room
  /\ key = Cardinality(Keys) + 1 \/ key \in Keys
  /\ log' = Append(log, [t |-> "call", key |-> key, n |-> 1])
  /\ spent' = IF key \in Keys THEN spent ELSE [spent EXCEPT ![ActiveTask] = @ + 1]
  /\ UNCHANGED <<bound, turn, thread, native, restarted, jobs, faults>>
\* The conversation goes on in another native thread, or its count restarts.
OtherThread ==
  /\ turn = Idle /\ thread < MaxThreads
  /\ thread' = thread + 1
  /\ UNCHANGED <<log, bound, turn, jobs, faults, ledger>>
Restarts ==
  /\ turn = Idle /\ native[thread] > 0 /\ faults < MaxFaults /\ faults' = faults + 1
  /\ native' = [native EXCEPT ![thread] = 0]
  /\ restarted' = TRUE
  /\ UNCHANGED <<log, bound, turn, thread, jobs, spent>>
\* Work is recorded with the binding of the conversation or worker it is
\* delegated by, may be given an evaluator call, and starts a session.  What
\* an older version delegated delegates no further.
Delegate(w, p) ==
  /\ jobs[w].at = "none" /\ Room
  /\ IF p = Root THEN turn.at = "run"
     ELSE jobs[p].at = "session" /\ jobs[p].parent = Root /\ jobs[p].task # History
  /\ jobs' = [jobs EXCEPT ![w] =
       [at |-> "recorded", parent |-> p, task |-> IF p = Root THEN bound ELSE jobs[p].task,
        for |-> IF p = Root THEN ActiveTask ELSE jobs[p].for,
        since |-> Len(log), evaluated |-> 0, log |-> <<>>]]
  /\ UNCHANGED <<log, bound, turn, thread, faults, ledger>>
StartSession(w) ==
  /\ jobs[w].at = "recorded"
  /\ jobs' = [jobs EXCEPT ![w].at = "session", ![w].evaluated = 1]
  /\ spent' = [spent EXCEPT ![jobs[w].for] = @ + 1]
  /\ UNCHANGED <<log, bound, turn, thread, native, restarted, faults>>
WorkerReports(w) ==
  /\ jobs[w].at = "session" /\ jobs[w].log = <<>>
  /\ jobs' = [jobs EXCEPT ![w].log = <<[t |-> "total", thread |-> 0, n |-> 1]>>]
  /\ spent' = [spent EXCEPT ![jobs[w].for] = @ + 1]
  /\ UNCHANGED <<log, bound, turn, thread, native, restarted, faults>>
\* A new conversation, or one an older version left: its history consumed one
\* token, and its failed classifier's marker is bound to the history.
OldLog == <<[t |-> "total", thread |-> 1, n |-> 1], Boundary(History, 0)>>
OldJob(since, for) ==
  [at |-> "recorded", parent |-> Root, task |-> History, for |-> for, since |-> since,
   evaluated |-> 0, log |-> <<>>]
Init ==
  /\ \/ log = <<>> /\ bound = None /\ jobs = [w \in Workers |-> NoJob]
     \/ /\ log = OldLog /\ bound = History
        /\ \E w \in Workers, old \in {OldJob(1, History), OldJob(2, Tracked)} :
             jobs = [v \in Workers |-> IF v = w THEN old ELSE NoJob]
  /\ turn = Idle /\ thread = 1
  /\ native = [t \in 1..MaxThreads |-> IF t = 1 THEN Len(log) \div 2 ELSE 0]
  /\ restarted = FALSE
  /\ spent = [task \in Tasks |-> IF task = History THEN Len(log) \div 2 ELSE 0]
  /\ faults = 0

Next ==
  \/ \E on \in BOOLEAN : BeginTurn(on)
  \/ Manifest \/ EndTurn \/ Crash
  \/ \E new, stop \in BOOLEAN : Decide(new, stop)
  \/ OtherThread \/ Restarts
  \/ \E more \in 0..MaxMore : Report(more)
  \/ \E key \in 1..MaxEvents : Call(key)
  \/ \E w \in Workers : StartSession(w) \/ WorkerReports(w)
  \/ \E w \in Workers, p \in Workers \cup {Root} : Delegate(w, p)

Spec == Init /\ [][Next]_vars

------------------------------------------------------------------------------
(* properties *)

TypeOK ==
  /\ bound \in Tasks \cup {None}
  /\ \A i \in Boundaries(log) : log[i].task \in Tasks
  /\ native \in [1..MaxThreads -> Nat]

\* A task's ledger is what was consumed for it: by the conversation while it
\* was the task, and by the work delegated in it, however late that reports
\* ("Worker task IDs are captured when delegated, so a late worker/evaluator
\* result cannot leak into the next task").  A provider's count that started
\* again may hide some, and never adds any.  Work delegated without a binding,
\* which the application lost when it stopped between the first boundary and the
\* manifest, counts as history.
Unbound == {w \in Workers : jobs[w].at # "none" /\ jobs[w].task = None /\ jobs[w].for # History}
LedgerTrue ==
  TypeOK /\ (Unbound = {} => \A task \in Tasks :
    ScopedUsage(task) <= spent[task] /\ (~restarted => ScopedUsage(task) = spent[task]))
==============================================================================
