------------------------------ MODULE Steering ------------------------------
(***************************************************************************)
(* The instructions a user adds while a run is working: SteeringRun's       *)
(* receipts, queue, lock and worker, the steer_run calls that reach it from  *)
(* the client, the run's own life cycle (attach, turns, cancellation,       *)
(* close), and the recovery of receipts a dead run left behind.             *)
(*                                                                         *)
(* One run of one conversation.  In "native" mode a worker hands queued     *)
(* instructions to the harness during the turn; in "boundary" mode they     *)
(* become the prompt of the next turn.                                      *)
(***************************************************************************)
EXTENDS Integers, Sequences, FiniteSets

CONSTANTS
    Requests,   \* request ids, one per instruction
    Calls,      \* bound: steer_run calls made by clients
    Modes,      \* how harnesses take instructions: "native", "boundary"
    MaxFaults   \* bound: log writes that fail, and deaths of the process

ASSUME SteeringAssumption ==
    /\ Modes \subseteq {"native", "boundary"}
    /\ "free" \notin Calls /\ "worker" \notin Calls
    /\ MaxFaults \in Nat

VARIABLES
    mode,       \* SteeringRun.mode, from what the harness can do
    stored,     \* the newest receipt of each request in the log
    records,    \* SteeringRun.records: the newest one in memory
    queue,      \* SteeringRun.queue
    batch,      \* SteeringRun.batch (boundary mode)
    closed,     \* SteeringRun.closed
    ready,      \* SteeringRun.ready, bind_turn and native_ready
    holder,     \* who holds SteeringRun.lock
    worker,     \* the delivery task (native mode)
    run,        \* the run's stage
    calls,      \* the steer_run calls
    given,      \* how often the harness took each instruction
    faults

vars == <<mode, stored, records, queue, batch, closed, ready, holder, worker, run,
          calls, given, faults>>
memory == <<records, queue, batch, closed, ready, holder, worker>>

Open == {"queued", "sending"}
Over == {"received", "cancelled", "uncertain", "failed"}

(* A receipt; revision 0 is its first record, new_receipt makes the -1.    *)
NewReceipt == [status |-> "none", revision |-> -1, retryable |-> FALSE]
Known(receipt) == receipt.revision >= 0

SomeRequest == CHOOSE r \in Requests : TRUE

NoWorker == [at |-> "none", req |-> SomeRequest, receipt |-> NewReceipt,
             status |-> "none", retryable |-> FALSE, cancelled |-> FALSE]
NewCall  == [at |-> "new", req |-> SomeRequest, retry |-> FALSE,
             attached |-> FALSE, again |-> FALSE, seen |-> NewReceipt]

Attached == run \in {"attached", "turn", "boundary", "prompting", "closing", "cancelled"}

Init ==
    /\ mode \in Modes
    /\ stored = [r \in Requests |-> NewReceipt]
    /\ records = [r \in Requests |-> NewReceipt]
    /\ queue = <<>>
    /\ batch = <<>>
    /\ closed = FALSE
    /\ ready = FALSE
    /\ holder = "free"
    /\ worker = NoWorker
    /\ run = "starting"
    /\ calls = [c \in Calls |-> NewCall]
    /\ given = [r \in Requests |-> 0]
    /\ faults = 0
-----------------------------------------------------------------------------
(* Mutant: the id of the record does not name the revision.                *)
PersistedOver(r, receipt, status, retryable) ==
    [status |-> status, revision |-> receipt.revision + 1, retryable |-> retryable]

(* persist_receipt: the next revision of the receipt is appended under an  *)
(* id made of the request and the revision, so that a revision somebody     *)
(* else has written is not written again but returned.                      *)
Persisted(r, receipt, status, retryable) ==
    LET next == [status |-> status, revision |-> receipt.revision + 1,
                 retryable |-> retryable]
    IN  IF stored[r].revision >= next.revision THEN stored[r] ELSE next

(* The log write of one receipt, and SteeringRun's _save, which remembers  *)
(* what was stored.                                                         *)
Persist(r, receipt, status, retryable) ==
    stored' = [stored EXCEPT ![r] = Persisted(r, receipt, status, retryable)]

Save(r, receipt, status, retryable) ==
    /\ Persist(r, receipt, status, retryable)
    /\ records' = [records EXCEPT ![r] = stored'[r]]
    /\ UNCHANGED faults

(* The append raised, before or after the record reached the log.          *)
SaveFails(r, receipt, status, retryable) ==
    /\ faults < MaxFaults
    /\ faults' = faults + 1
    /\ \/ Persist(r, receipt, status, retryable)
       \/ UNCHANGED stored
    /\ UNCHANGED records

(* _start_worker, at the end of whatever added to the queue.               *)
Started(q, native) ==
    IF /\ mode = "native" /\ native /\ ~closed /\ q # <<>>
       /\ worker.at = "none"
    THEN [NoWorker EXCEPT !.at = "idle"]
    ELSE worker

InQueue(r) == \E i \in DOMAIN queue : queue[i] = r
-----------------------------------------------------------------------------
(* steer_run.  It looks up the thread's SteeringRun, then the request's    *)
(* receipt in the log, and both may be old when they are used.  One window  *)
(* waits for the answer (useCleoWorkspace's steeringLocks); a reload or a   *)
(* lost answer lets it ask again while the first call is under way.         *)
Busy(r) == \E c \in Calls : calls[c].at \notin {"new", "done"} /\ calls[c].req = r

Ask(c, r, retry) ==
    /\ calls[c].at = "new"
    /\ calls' = [calls EXCEPT ![c] = [NewCall EXCEPT !.at = "read", !.req = r,
                     !.retry = retry, !.attached = Attached, !.again = Busy(r)]]
    /\ UNCHANGED <<mode, stored, memory, run, given, faults>>

Read(c) ==
    /\ calls[c].at = "read"
    /\ LET seen == stored[calls[c].req]
       IN  calls' = [calls EXCEPT ![c] = [@ EXCEPT
               !.seen = seen,
               !.at = IF ~calls[c].attached /\ (seen.status \in Open \/ seen.retryable)
                      THEN "settle" ELSE "admit"]]
    /\ UNCHANGED <<mode, stored, memory, run, given, faults>>

(* Mutant: a submission without an outcome counts as received.             *)
SettledStatusDelivered(receipt) ==
    CASE receipt.status = "sending" -> "received"
      [] receipt.status = "queued"  -> "cancelled"
      [] OTHER                      -> receipt.status

(* The receipt's run is over, as far as this call saw: it is settled here. *)
SettledStatus(receipt) ==
    CASE receipt.status = "sending" -> "uncertain"
      [] receipt.status = "queued"  -> "cancelled"
      [] OTHER                      -> receipt.status

Settle(c) ==
    /\ calls[c].at = "settle"
    /\ LET seen == calls[c].seen
       IN  Persist(calls[c].req, seen, SettledStatus(seen), FALSE)
    /\ calls' = [calls EXCEPT ![c].at = "admit"]
    /\ UNCHANGED <<mode, memory, run, given, faults>>

(* accepts_steer: the run found above still exists, is not cancelled, and   *)
(* no harness switch waits for it to end.                                   *)
Accepts(c, switching) ==
    /\ calls[c].attached
    /\ run \notin {"cancelled", "gone"}
    /\ ~switching

Admit(c) ==
    /\ calls[c].at = "admit"
    /\ \E switching \in BOOLEAN :
       IF Accepts(c, switching)
       THEN /\ calls' = [calls EXCEPT ![c].at = "submit"]
            /\ UNCHANGED stored
       ELSE /\ calls' = [calls EXCEPT ![c].at = "done"]
            /\ IF Known(calls[c].seen)
               THEN UNCHANGED stored
               ELSE Persist(calls[c].req, NewReceipt, "failed", FALSE)
    /\ UNCHANGED <<mode, memory, run, given, faults>>

(* SteeringRun.submit: wait for the turn and the lock, look the request up *)
(* in memory, then in the log.                                              *)
Lock(c) ==
    /\ calls[c].at = "submit"
    /\ ready
    /\ holder = "free"
    /\ holder' = c
    /\ LET r == calls[c].req
       IN  calls' = [calls EXCEPT ![c] = [@ EXCEPT
               !.at = "decide",
               !.seen = IF Known(records[r]) THEN records[r] ELSE stored[r]]]
    /\ UNCHANGED <<mode, stored, records, queue, batch, closed, ready, worker, run,
                   given, faults>>

CanRetry(c) == /\ calls[c].retry
               /\ calls[c].seen.status = "failed"
               /\ calls[c].seen.retryable
               /\ ~closed

(* Mutant: the lock is not released.                                       *)
SubmittingKeepsLock(c) ==
    /\ calls[c].at = "decide"
    /\ calls' = [calls EXCEPT ![c].at = "done"]
    /\ UNCHANGED <<mode, batch, closed, ready, holder, run, given>>

(* What every answer of submit does: release the lock and return.          *)
Submitting(c) ==
    /\ calls[c].at = "decide"
    /\ holder' = "free"
    /\ calls' = [calls EXCEPT ![c].at = "done"]
    /\ UNCHANGED <<mode, batch, closed, ready, run, given>>

Enqueue(r) ==
    /\ queue' = Append(queue, r)
    /\ worker' = Started(queue', ready)

(* Mutant: what is in the queue already is queued again.                   *)
AnswerQueuedAgain(c) ==
    LET r == calls[c].req IN
    /\ Known(calls[c].seen)
    /\ ~CanRetry(c)
    /\ Submitting(c)
    /\ IF calls[c].seen.status = "queued" /\ ~closed
       THEN /\ records' = [records EXCEPT ![r] = calls[c].seen]
            /\ Enqueue(r)
       ELSE UNCHANGED <<records, queue, worker>>
    /\ UNCHANGED <<stored, faults>>

(* A known request is answered with its receipt; one that reached the log  *)
(* but not the queue, because the append raised, is queued now.             *)
Answer(c) ==
    LET r == calls[c].req IN
    /\ Known(calls[c].seen)
    /\ ~CanRetry(c)
    /\ Submitting(c)
    /\ IF calls[c].seen.status = "queued" /\ ~InQueue(r) /\ ~closed
       THEN /\ records' = [records EXCEPT ![r] = calls[c].seen]
            /\ Enqueue(r)
       ELSE UNCHANGED <<records, queue, worker>>
    /\ UNCHANGED <<stored, faults>>

(* A new request, or a refused one to be tried again: queued, unless the   *)
(* run has stopped accepting.                                               *)
Accept(c) ==
    LET r == calls[c].req IN
    /\ ~Known(calls[c].seen) \/ CanRetry(c)
    /\ Submitting(c)
    /\ IF closed
       THEN /\ \/ Save(r, calls[c].seen, "failed", FALSE)
               \/ SaveFails(r, calls[c].seen, "failed", FALSE)
            /\ UNCHANGED <<queue, worker>>
       ELSE \/ /\ Save(r, calls[c].seen, "queued", FALSE)
               /\ Enqueue(r)
            \/ /\ SaveFails(r, calls[c].seen, "queued", FALSE)
               /\ UNCHANGED <<queue, worker>>
-----------------------------------------------------------------------------
(* The worker, _deliver: one instruction at a time, marked "sending" in    *)
(* the log before the harness sees it.                                      *)
Pick ==
    /\ worker.at = "idle"
    /\ holder = "free"
    /\ IF closed \/ queue = <<>>
       THEN /\ worker' = NoWorker
            /\ UNCHANGED <<stored, records, queue, holder, faults>>
       ELSE LET r == Head(queue) IN
            /\ queue' = Tail(queue)
            /\ \/ /\ Save(r, records[r], "sending", records[r].retryable)
                  /\ IF stored'[r].status = "sending"
                     THEN /\ holder' = "worker"
                          /\ worker' = [NoWorker EXCEPT !.at = "check", !.req = r,
                                                        !.receipt = stored'[r]]
                     ELSE UNCHANGED <<holder, worker>>
               \/ /\ SaveFails(r, records[r], "sending", records[r].retryable)
                  /\ worker' = NoWorker
                  /\ UNCHANGED holder
    /\ UNCHANGED <<mode, batch, closed, ready, run, calls, given>>

(* The run may have stopped while the record was written.                  *)
Check ==
    /\ worker.at = "check"
    /\ holder' = "free"
    /\ IF closed
       THEN /\ \/ Save(worker.req, worker.receipt, "cancelled", FALSE)
               \/ SaveFails(worker.req, worker.receipt, "cancelled", FALSE)
            /\ worker' = NoWorker
       ELSE /\ worker' = [worker EXCEPT !.at = "delivering"]
            /\ UNCHANGED <<stored, records, faults>>
    /\ UNCHANGED <<mode, queue, batch, closed, ready, run, calls, given>>

(* The harness takes the instruction or not, and the worker learns of it   *)
(* or not: a refusal is certain, a lost connection or a cancellation says   *)
(* nothing.                                                                 *)
Outcome(status, retryable, cancelled) ==
    worker' = [worker EXCEPT !.at = "report", !.status = status,
                             !.retryable = retryable, !.cancelled = cancelled]

Deliver ==
    /\ worker.at = "delivering"
    /\ \/ /\ given' = [given EXCEPT ![worker.req] = @ + 1]
          /\ \/ Outcome("received", FALSE, FALSE)
             \/ Outcome("uncertain", FALSE, FALSE)
             \/ closed /\ Outcome("uncertain", FALSE, TRUE)
       \/ /\ UNCHANGED given
          /\ \/ \E retryable \in BOOLEAN : Outcome("failed", retryable, FALSE)
             \/ Outcome("uncertain", FALSE, FALSE)
             \/ closed /\ Outcome("uncertain", FALSE, TRUE)
    /\ UNCHANGED <<mode, stored, records, queue, batch, closed, ready, holder, run,
                   calls, faults>>

Report ==
    /\ worker.at = "report"
    /\ holder = "free"
    /\ \/ /\ Save(worker.req, worker.receipt, worker.status, worker.retryable)
          /\ closed' = (closed \/ worker.cancelled)
          /\ worker' = IF worker.cancelled THEN NoWorker
                       ELSE [NoWorker EXCEPT !.at = "idle"]
       \/ /\ SaveFails(worker.req, worker.receipt, worker.status, worker.retryable)
          /\ worker' = NoWorker
          /\ UNCHANGED closed
    /\ UNCHANGED <<mode, queue, batch, ready, holder, run, calls, given>>
-----------------------------------------------------------------------------
(* The run: _stream_turn.                                                  *)
Attach ==
    /\ run = "starting"
    /\ run' = "attached"
    /\ UNCHANGED <<mode, stored, memory, calls, given, faults>>

(* The turn has an id, at the conversation and at the harness.             *)
BindTurn ==
    /\ run = "attached"
    /\ run' = "turn"
    /\ ready' = TRUE
    /\ worker' = Started(queue, TRUE)
    /\ UNCHANGED <<mode, stored, records, queue, batch, closed, holder, calls, given,
                   faults>>

(* The turn ends.  In boundary mode a good end looks for instructions to   *)
(* go on with; every other end closes the run, and close() begins with      *)
(* stop_accepting.                                                          *)
StopAccepting == closed' = TRUE /\ ready' = TRUE

TurnDone ==
    /\ run = "turn"
    /\ mode = "boundary"
    /\ batch = <<>>
    /\ run' = "boundary"
    /\ UNCHANGED <<mode, stored, memory, calls, given, faults>>

TurnOver ==
    /\ run \in {"attached", "turn", "prompting"}
    /\ run' = "closing"
    /\ StopAccepting
    /\ UNCHANGED <<mode, stored, records, queue, batch, holder, worker, calls, given,
                   faults>>

(* RunSupervisor.cancel: stop_accepting, then the task is cancelled.       *)
Cancel ==
    /\ run \in {"attached", "turn", "boundary", "prompting", "closing"}
    /\ run' = "cancelled"
    /\ StopAccepting
    /\ UNCHANGED <<mode, stored, records, queue, batch, holder, worker, calls, given,
                   faults>>

(* The run ended before it had a SteeringRun.                              *)
NeverAttached ==
    /\ run = "starting"
    /\ run' = "gone"
    /\ UNCHANGED <<mode, stored, memory, calls, given, faults>>

(* Several receipts saved in a row under the lock, each with what was      *)
(* remembered of it; a write that fails leaves the rest.                    *)
SaveAll(S, Status(_)) ==
    /\ stored' = [r \in Requests |->
          IF r \in S THEN Persisted(r, records[r], Status(r), FALSE) ELSE stored[r]]
    /\ records' = [r \in Requests |-> IF r \in S THEN stored'[r] ELSE records[r]]
    /\ UNCHANGED faults

SaveAllFails(S, Status(_)) ==
    /\ faults < MaxFaults
    /\ faults' = faults + 1
    /\ \E saved \in SUBSET S, written \in SUBSET S :
         /\ saved \subseteq written
         /\ Cardinality(written \ saved) <= 1
         /\ saved # S
         /\ stored' = [r \in Requests |->
               IF r \in written THEN Persisted(r, records[r], Status(r), FALSE)
               ELSE stored[r]]
         /\ records' = [r \in Requests |->
               IF r \in saved THEN stored'[r] ELSE records[r]]

Members(q) == {q[i] : i \in DOMAIN q}

(* next_boundary: everything queued becomes the next prompt.               *)
NextBoundary ==
    LET Sending(r) == "sending" IN
    /\ run = "boundary"
    /\ holder = "free"
    /\ IF queue = <<>>
       THEN /\ run' = "closing"
            /\ StopAccepting
            /\ UNCHANGED <<stored, records, queue, batch, faults>>
       ELSE /\ batch' = queue
            /\ queue' = <<>>
            /\ \/ /\ SaveAll(Members(queue), Sending)
                  /\ run' = "prompting"
                  /\ UNCHANGED <<closed, ready>>
               \/ /\ SaveAllFails(Members(queue), Sending)
                  /\ run' = "closing"
                  /\ StopAccepting
    /\ UNCHANGED <<mode, holder, worker, calls, given>>

Prompt ==
    /\ run = "prompting"
    /\ run' = "turn"
    /\ given' = [r \in Requests |->
                   given[r] + Cardinality({i \in DOMAIN batch : batch[i] = r})]
    /\ UNCHANGED <<mode, stored, memory, calls, faults>>

(* boundary_received: the harness answered, so it has the prompt.          *)
BoundaryReceived ==
    LET Received(r) == "received"
        due == {r \in Members(batch) : records[r].status = "sending"} IN
    /\ run = "turn"
    /\ batch # <<>>
    /\ holder = "free"
    /\ \/ /\ SaveAll(due, Received)
          /\ batch' = <<>>
          /\ UNCHANGED <<run, closed, ready>>
       \/ /\ SaveAllFails(due, Received)
          /\ run' = "closing"
          /\ StopAccepting
          /\ UNCHANGED batch
    /\ UNCHANGED <<mode, queue, holder, worker, calls, given>>

(* close(), once the lock is free and the worker has ended: whatever is    *)
(* still open is settled by what is known of it.  The run calls it again    *)
(* after a failure, once.                                                   *)
Close ==
    LET Settled(r) == SettledStatus(records[r])
        due == {r \in Requests : records[r].status \in Open \/ records[r].retryable} IN
    /\ run \in {"closing", "cancelled"}
    /\ holder = "free"
    /\ worker.at = "none"
    /\ \/ /\ SaveAll(due, Settled)
          /\ queue' = <<>>
          /\ run' = "gone"
       \/ /\ SaveAllFails(due, Settled)
          /\ run' \in {run, "gone"}
          /\ UNCHANGED queue
    /\ UNCHANGED <<mode, batch, closed, ready, holder, worker, calls, given>>

(* The process dies: the log is what remains.                              *)
Crash ==
    /\ faults < MaxFaults
    /\ faults' = faults + 1
    /\ run # "gone"
    /\ run' = "gone"
    /\ records' = [r \in Requests |-> NewReceipt]
    /\ queue' = <<>>
    /\ batch' = <<>>
    /\ holder' = "free"
    /\ worker' = NoWorker
    /\ calls' = [c \in Calls |-> IF calls[c].at = "new" THEN calls[c]
                                 ELSE [NewCall EXCEPT !.at = "done",
                                                      !.again = calls[c].again]]
    /\ UNCHANGED <<mode, stored, closed, ready, given>>

(* recover_steers, when the conversation is shown and has no run.          *)
Recover(r) ==
    /\ run = "gone"
    /\ stored[r].status \in Open \/ stored[r].retryable
    /\ Persist(r, stored[r], SettledStatus(stored[r]), FALSE)
    /\ UNCHANGED <<mode, memory, run, calls, given, faults>>

Call(c) == \/ \E r \in Requests, retry \in BOOLEAN : Ask(c, r, retry)
           \/ Read(c) \/ Settle(c) \/ Admit(c)
           \/ Lock(c) \/ Answer(c) \/ Accept(c)
Worker  == Pick \/ Check \/ Deliver \/ Report
Run     == \/ Attach \/ NeverAttached \/ BindTurn \/ TurnDone \/ TurnOver
           \/ NextBoundary \/ Prompt \/ BoundaryReceived \/ Close

Next == \/ \E c \in Calls : Call(c)
        \/ Worker \/ Run \/ Cancel \/ Crash
        \/ \E r \in Requests : Recover(r)

(* Tasks of one event loop run until they finish, and a turn ends.  Nobody *)
(* owes a call, a cancellation or a visit to the conversation.              *)
Fairness ==
    /\ WF_vars(Worker)
    /\ WF_vars(Run)
    /\ \A c \in Calls : SF_vars(Lock(c)) /\ WF_vars(Call(c) /\ calls[c].at # "new")

Spec == Init /\ [][Next]_vars /\ Fairness
-----------------------------------------------------------------------------
Receipts == [status : Open \cup Over \cup {"none"}, revision : Int, retryable : BOOLEAN]

Workers ==
    [at : {"none", "idle", "check", "delivering", "report"},
     req : Requests \cup {SomeRequest}, receipt : Receipts,
     status : {"none", "received", "uncertain", "failed"},
     retryable : BOOLEAN, cancelled : BOOLEAN]
CallStates ==
    [at : {"new", "read", "settle", "admit", "submit", "decide", "done"},
     req : Requests \cup {SomeRequest}, retry : BOOLEAN, attached : BOOLEAN,
     again : BOOLEAN, seen : Receipts]

(* The values the variables take; whoever holds the lock is in the section *)
(* that took it.                                                            *)
TypeOK ==
    /\ mode \in Modes
    /\ stored \in [Requests -> Receipts]
    /\ records \in [Requests -> Receipts]
    /\ queue \in Seq(Requests)
    /\ batch \in Seq(Requests)
    /\ {closed, ready} \subseteq BOOLEAN
    /\ holder \in Calls \cup {"free", "worker"}
    /\ holder \in Calls => calls[holder].at = "decide"
    /\ holder = "worker" => worker.at = "check"
    /\ worker \in Workers
    /\ calls \in [Calls -> CallStates]
    /\ run \in {"starting", "attached", "turn", "boundary", "prompting",
                "closing", "cancelled", "gone"}
    /\ given \in [Requests -> Nat]
    /\ faults \in 0 .. MaxFaults

(* No instruction is given to the harness twice: neither the client's      *)
(* repeated calls, nor a failed write, a cancellation or a restart make an  *)
(* uncertain submission go out again.                                       *)
GivenOnce == \A r \in Requests : given[r] <= 1

(* "received" is only said of an instruction the harness took.             *)
ReceivedWasGiven == \A r \in Requests : stored[r].status = "received" => given[r] = 1

(* Two calls for one instruction were under way at once.                   *)
Overlapped == \E c \in Calls : calls[c].again

(* "not delivered" is only said of one it did not take; of a harness that   *)
(* takes instructions during the turn, even if calls overlapped.            *)
NotGivenMeansNot ==
    (mode = "native" \/ ~Overlapped) =>
    \A r \in Requests : stored[r].status \in {"cancelled", "failed"} => given[r] = 0

(* A settled receipt keeps its status, except one that was refused and is  *)
(* retried; who saw an old receipt cannot bring it back.                    *)
SettledIsFinal ==
    [][~Overlapped => \A r \in Requests :
          stored[r].status \in Over /\ stored'[r].status # stored[r].status
              => stored[r].status = "failed" /\ stored[r].retryable]_vars

(* When the run is gone and no call is left in it, every receipt is        *)
(* settled and none can be retried, unless a write failed or the process    *)
(* died.                                                                    *)
NothingLeftOpen ==
    run = "gone" /\ faults = 0 /\ (\A c \in Calls : calls[c].at \in {"new", "done"}) =>
        \A r \in Requests : stored[r].status \notin Open /\ ~stored[r].retryable

(* Every instruction the log has is settled in the end, if no write failed;*)
(* close and the worker do not wait for each other for ever.                *)
EventuallySettled ==
    \A r \in Requests :
        stored[r].status \in Open ~> stored[r].status \notin Open \/ faults > 0

(* What the receipts say is so: an instruction is given once, as its receipt *)
(* says, and nobody is left waiting for one.                                *)
ReceiptsTrue ==
    /\ TypeOK
    /\ GivenOnce
    /\ NotGivenMeansNot
    /\ ReceivedWasGiven
    /\ NothingLeftOpen

(* Every receipt is settled, once and for all.                              *)
SettledForGood == SettledIsFinal /\ EventuallySettled
=============================================================================
