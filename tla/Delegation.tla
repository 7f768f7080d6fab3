------------------------------ MODULE Delegation -----------------------------
(***************************************************************************)
(* A subtask delegated to a worker (RoutingService.delegate), and how the   *)
(* worker's permission requests reach the user (routing/approvals.py).      *)
(*                                                                         *)
(* The delegation runs in a process of its own, beside the desktop's.  The  *)
(* two share files: the task's record, one file for each request that waits *)
(* for the user, and the manifest of the parent conversation, which names   *)
(* its run.  A step is what a process does between two of its accesses to   *)
(* these files, or between two awaits.                                      *)
(*                                                                         *)
(* Candidates are abstracted to whether a stronger one may follow; which is *)
(* chosen, what it costs and what the worker writes are left out.  A tree   *)
(* of files is its version.                                                 *)
(***************************************************************************)
EXTENDS Naturals, FiniteSets

CONSTANTS
    Approvals,   \* permission requests of the worker, by id
    MaxPrompts,  \* bound: prompts of the parent conversation, in any number of runs
    MaxEdits,    \* bound: changes of the files
    MaxFaults    \* bound: cancellations, failures and deaths of the worker

ASSUME DelegationAssumption ==
    {MaxPrompts, MaxEdits, MaxFaults} \subseteq Nat

VARIABLES
    run,       \* the parent's run in the desktop: number of its prompt, and stage
    runId,     \* routing_permission_run_id of the parent's manifest, or 0: the
               \* number of the run's first prompt
    poll,      \* the watcher's round: what it found, what it has yet to emit
    observed,  \* what the round before found pending
    cards,     \* RunSupervisor.approvals of the parent
    desk,      \* resolve_worker_approval between its checks and its write
    job,       \* delegate: stage, number of the attempt, and what it knows
    task,      \* the record as delegate has it: status, attempt, acceptance
    saved,     \* the record's file
    waiter,    \* worker_approval of each request
    item,      \* the request's file
    told,      \* what the worker was told
    tree,      \* version of the workspace's files
    expired,   \* expires_at has passed
    given,     \* ghost: <<decision, run>> of each receipt the desktop gave
    did,       \* ghost: the attempt under way had an effect
    faults

desktop == <<run, runId, poll, observed, cards, desk>>
worker  == <<job, task, saved, waiter>>
vars == <<desktop, worker, item, told, tree, expired, given, did, faults>>

None    == "none"
Decisions == {"accept", "cancel"}
NoFile  == [status |-> None, decision |-> None]
Pending == [status |-> "pending", decision |-> None]
NoClaim == [id |-> None, decision |-> None]
Resting == [new |-> {}, gone |-> {}, found |-> {}, on |-> FALSE]

\* a record: its status; of its last attempt, the status and whether it has a
\* session; the acceptance
NoTask  == [status |-> None, attempt |-> None, session |-> FALSE, acceptance |-> "unknown"]

\* job.run is the run the service was made in, job.policy what may follow a
\* failed check: nothing, an upgrade, or one that may not replay; job.refusable
\* are the requests that offer a decision that refuses
Init ==
    /\ run = [n |-> 0, stage |-> "idle"] /\ runId = 0
    /\ poll = Resting /\ observed = {} /\ cards = {}
    /\ desk = NoClaim
    /\ \E upgrade, safe, known \in BOOLEAN, refusable \in SUBSET Approvals :
          /\ upgrade \/ known     \* known is asked for an upgrade only
          /\ job = [at |-> "none", number |-> 0, run |-> 0, upgrade |-> upgrade, safe |-> safe,
                    known |-> known, refusable |-> refusable, before |-> 0, tools |-> FALSE,
                    raised |-> FALSE, uncaught |-> FALSE]
    /\ task = NoTask /\ saved = NoTask
    /\ waiter = [a \in Approvals |-> [at |-> None, got |-> NoFile]]
    /\ item = [a \in Approvals |-> NoFile]
    /\ told = [a \in Approvals |-> None]
    /\ tree = 0
    /\ expired = FALSE
    /\ given = [a \in Approvals |-> {}]
    /\ did = FALSE
    /\ faults = 0

Offers(a) == IF a \in job.refusable THEN Decisions ELSE {"accept"}

Fault == faults < MaxFaults /\ faults' = faults + 1

\* _active: the request of a worker that runs for the parent's present run
Active ==
    /\ job.run = runId
    /\ ~expired
    /\ saved.status = "running" /\ saved.attempt = "running" /\ saved.session

------------------------------------------------------------------------------
(* The desktop.  One loop: nothing of it runs while resolve_worker_approval *)
(* is between its checks and its write.                                     *)

Free == desk = NoClaim

StartRun ==
    /\ Free /\ run.stage = "idle" /\ run.n < MaxPrompts
    /\ run' = [n |-> run.n + 1, stage |-> "watching"]
    /\ runId' = run.n + 1
    /\ UNCHANGED <<poll, observed, cards, desk, worker, item, told, tree, expired, given,
                   did, faults>>

\* watch_worker_approvals.poll: read the files, then emit what is new or gone
Poll ==
    /\ Free /\ run.stage = "watching" /\ ~poll.on
    /\ LET found == {a \in Approvals : item[a].status = "pending" /\ Active} IN
          /\ found # observed
          /\ poll' = [new |-> found \ observed, gone |-> observed \ found,
                      found |-> found, on |-> TRUE]
    /\ UNCHANGED <<run, runId, observed, cards, desk, worker, item, told, tree, expired,
                   given, did, faults>>

EmitRequest(a) ==
    /\ Free /\ run.stage = "watching" /\ a \in poll.new
    /\ cards' = cards \cup {a}
    /\ poll' = [poll EXCEPT !.new = @ \ {a}]
    /\ UNCHANGED <<run, runId, observed, desk, worker, item, told, tree, expired, given,
                   did, faults>>

EmitResolved(a) ==
    /\ Free /\ run.stage = "watching" /\ poll.new = {} /\ a \in poll.gone
    /\ cards' = cards \ {a}
    /\ poll' = [poll EXCEPT !.gone = @ \ {a}]
    /\ UNCHANGED <<run, runId, observed, desk, worker, item, told, tree, expired, given,
                   did, faults>>

EndPoll ==
    /\ Free /\ run.stage = "watching" /\ poll.on /\ poll.new = {} /\ poll.gone = {}
    /\ observed' = poll.found
    /\ poll' = Resting
    /\ UNCHANGED <<run, runId, cards, desk, worker, item, told, tree, expired, given, did,
                   faults>>

\* mutant: a request that is decided may be decided again
ClaimableAgain(a, d) == item[a].status # None /\ Active /\ d \in Offers(a)

\* resolve_worker_approval up to its write; otherwise it raises, or leaves the
\* request to the parent's own harness
Claimable(a, d) == item[a].status = "pending" /\ Active /\ d \in Offers(a)

Resolve(a, d) ==
    /\ Free /\ a \in cards
    /\ Claimable(a, d)
    /\ desk' = [id |-> a, decision |-> d]
    /\ UNCHANGED <<run, runId, poll, observed, cards, worker, item, told, tree, expired,
                   given, did, faults>>

\* its write, which does not look again, and drop_approval
Claim ==
    /\ desk # NoClaim
    /\ item' = [item EXCEPT ![desk.id] = [status |-> "decided", decision |-> desk.decision]]
    /\ given' = [given EXCEPT ![desk.id] = @ \cup {<<desk.decision, runId>>}]
    /\ cards' = cards \ {desk.id}
    /\ observed' = IF run.stage = "leaving" THEN observed \ {desk.id} ELSE observed
    /\ desk' = NoClaim
    /\ UNCHANGED <<run, runId, poll, worker, told, tree, expired, did, faults>>

\* the turn ended or was cancelled: the watcher stops where it is
Leave ==
    /\ Free /\ run.stage = "watching"
    /\ run' = [run EXCEPT !.stage = "leaving"]
    /\ poll' = Resting
    /\ UNCHANGED <<runId, observed, cards, desk, worker, item, told, tree, expired, given,
                   did, faults>>

\* and refuses what it last found pending, if that still is
Refuse(a) ==
    /\ Free /\ run.stage = "leaving" /\ a \in observed
    /\ IF Claimable(a, "cancel")
       THEN desk' = [id |-> a, decision |-> "cancel"] /\ UNCHANGED <<observed, cards>>
       ELSE observed' = observed \ {a} /\ cards' = cards \ {a} /\ UNCHANGED desk
    /\ UNCHANGED <<run, runId, poll, worker, item, told, tree, expired, given, did, faults>>

\* an instruction that waited is the next prompt of the same run, watched anew
NextPrompt ==
    /\ Free /\ run.stage = "leaving" /\ observed = {} /\ run.n < MaxPrompts
    /\ run' = [n |-> run.n + 1, stage |-> "watching"]
    /\ UNCHANGED <<runId, poll, observed, cards, desk, worker, item, told, tree, expired,
                   given, did, faults>>

\* _stream_turn's finally clause: the manifest names no run, finish
FinishRun ==
    /\ Free /\ run.stage = "leaving" /\ observed = {}
    /\ run' = [run EXCEPT !.stage = "idle"]
    /\ runId' = 0
    /\ cards' = {}
    /\ UNCHANGED <<poll, observed, desk, worker, item, told, tree, expired, given, did, faults>>

------------------------------------------------------------------------------
(* worker_approval, a task beside delegate in its process.                  *)

\* between a read and what follows from it the process does nothing else
Holding == \E a \in Approvals : waiter[a].at = "read"
Others == <<desktop, job, task, saved, tree, expired, given, did, faults>>

Write(a) ==
    /\ waiter[a].at = "asked" /\ ~Holding
    /\ item' = [item EXCEPT ![a] = Pending]
    /\ waiter' = [waiter EXCEPT ![a].at = "waits"]
    /\ UNCHANGED <<Others, told>>

Read(a) ==
    /\ waiter[a].at = "waits" /\ ~Holding
    /\ waiter' = [waiter EXCEPT ![a] = [at |-> "read", got |-> item[a]]]
    /\ UNCHANGED <<Others, item, told>>

\* nothing decided, and the request still asked for: wait on
Wait(a) ==
    /\ waiter[a].at = "read" /\ waiter[a].got.decision = None /\ Active
    /\ waiter' = [waiter EXCEPT ![a] = [at |-> "waits", got |-> NoFile]]
    /\ UNCHANGED <<Others, item, told>>

\* the decision in the file, or a refusal when the request is no longer asked
\* for; resolve_approval is awaited
Take(a) ==
    /\ waiter[a].at = "read"
    /\ \E d \in Decisions :
          /\ \/ d = waiter[a].got.decision
             \/ waiter[a].got.decision = None /\ ~Active /\ d = "cancel" /\ a \in job.refusable
          /\ waiter' = [waiter EXCEPT ![a] = [at |-> "tells",
                                              got |-> [status |-> "decided", decision |-> d]]]
    /\ UNCHANGED <<Others, item, told>>

\* the file goes whatever happened
Gone(as) == [a \in Approvals |-> IF a \in as THEN NoFile ELSE item[a]]
Over(as) == [a \in Approvals |-> IF a \in as THEN [at |-> "over", got |-> NoFile]
                                 ELSE waiter[a]]

Tell(a) ==
    /\ waiter[a].at = "tells" /\ ~Holding
    /\ told' = [told EXCEPT ![a] = waiter[a].got.decision]
    /\ item' = Gone({a}) /\ waiter' = Over({a})
    /\ UNCHANGED Others

\* a request that cannot be refused: the worker's turn is cancelled
CancelWorker(a) ==
    /\ waiter[a].at = "read" /\ waiter[a].got.decision = None /\ ~Active /\ a \notin job.refusable
    /\ item' = Gone({a}) /\ waiter' = Over({a})
    /\ job' = IF job.at = "prompt" THEN [job EXCEPT !.at = "stopped"] ELSE job
    /\ UNCHANGED <<desktop, task, saved, tree, expired, given, did, faults, told>>

------------------------------------------------------------------------------
(* delegate.                                                                *)

Runs(at) == job.at = at /\ ~Holding
To(at) == job' = [job EXCEPT !.at = at]
Store(t) == task' = t /\ saved' = t
OnlyWorker == UNCHANGED <<desktop, item, told, waiter, expired, given>>

\* called in a run of the parent; the record is there before anything is chosen
Delegate ==
    /\ Runs("none") /\ run.stage = "watching"
    /\ job' = [job EXCEPT !.at = "choose", !.run = runId]
    /\ Store([NoTask EXCEPT !.status = "rejected"])
    /\ OnlyWorker /\ UNCHANGED <<tree, did, faults>>

\* no candidate, no assessment, or cancelled before there was one
NoAttempt(status) ==
    /\ Runs("choose")
    /\ IF status = "rejected" THEN UNCHANGED faults ELSE Fault
    /\ Store([task EXCEPT !.status = status])
    /\ To("over")
    /\ OnlyWorker /\ UNCHANGED <<tree, did>>

BeginAttempt ==
    /\ Store([NoTask EXCEPT !.status = "running", !.attempt = "running"])
    /\ job' = [job EXCEPT !.at = "fingerprint", !.number = @ + 1, !.tools = FALSE]
    /\ did' = FALSE
    /\ OnlyWorker /\ UNCHANGED <<tree, faults>>

Choose == Runs("choose") /\ BeginAttempt

Fingerprint ==
    /\ Runs("fingerprint")
    /\ job' = [job EXCEPT !.at = "create", !.before = tree]
    /\ OnlyWorker /\ UNCHANGED <<task, saved, tree, did, faults>>

\* a cancellation that no handler of delegate meets: while the files are read
\* before the attempt, or while the session is closed after it
CancelUncaught ==
    /\ Runs("fingerprint") \/ Runs("close")
    /\ Fault
    /\ job' = [job EXCEPT !.at = "over", !.uncaught = TRUE]
    /\ OnlyWorker /\ UNCHANGED <<task, saved, tree, did>>

Create ==
    /\ Runs("create")
    /\ Store([task EXCEPT !.session = TRUE])
    /\ To("prepare")
    /\ OnlyWorker /\ UNCHANGED <<tree, did, faults>>

Prepare ==
    /\ Runs("prepare")
    /\ To("prompt")
    /\ OnlyWorker /\ UNCHANGED <<task, saved, tree, did, faults>>

\* what the worker does is announced, and need not show in the files
Change(changes) == tree' = IF changes THEN tree + 1 ELSE tree

UseTool(changes) ==
    /\ Runs("prompt")
    /\ changes => tree < MaxEdits
    /\ Change(changes)
    /\ did' = TRUE
    /\ job' = [job EXCEPT !.tools = TRUE]
    /\ OnlyWorker /\ UNCHANGED <<task, saved, faults>>

Ask(a) ==
    /\ Runs("prompt") /\ waiter[a].at = None
    /\ waiter' = [waiter EXCEPT ![a].at = "asked"]
    /\ job' = [job EXCEPT !.tools = TRUE]
    /\ UNCHANGED <<desktop, task, saved, item, told, tree, expired, given, did, faults>>

\* the finally clause: the waiters are cancelled, and each removes its file
Settled ==
    /\ waiter' = Over({a \in Approvals : waiter[a].at # None})
    /\ item' = Gone({a \in Approvals : waiter[a].at \in {"waits", "tells"}})

Unsettled == UNCHANGED <<waiter, item>>
Untouched == UNCHANGED <<desktop, saved, told, expired, given>>

Answered == \A a \in Approvals : waiter[a].at \in {None, "over"}

EndPrompt(status) ==
    /\ \/ Runs("prompt") /\ (status = "completed" => Answered)
       \/ Runs("stopped") /\ status = "cancelled"
    /\ task' = [task EXCEPT !.attempt = status]
    /\ IF status = "completed" THEN To("verify") /\ Unsettled ELSE To("close") /\ Settled
    /\ Untouched /\ UNCHANGED <<tree, did, faults>>

\* the operator's checks, which may be commands that change files
Verify(acceptance) ==
    /\ Runs("verify")
    /\ \E changes \in {FALSE} \cup (IF job.safe \/ tree = MaxEdits THEN {} ELSE {TRUE}) :
          Change(changes) /\ did' = (did \/ changes)
    /\ task' = [task EXCEPT !.acceptance = acceptance]
    /\ To("close") /\ Settled
    /\ Untouched /\ UNCHANGED faults

Within == {"create", "prepare", "prompt", "stopped", "verify"}

Noted(status) == [task EXCEPT !.attempt = status]

\* a cancellation, the time limit, or an error
Raise(status) ==
    /\ job.at \in Within /\ ~Holding
    /\ IF status = "timed_out" THEN UNCHANGED faults ELSE Fault
    /\ task' = Noted(status)
    /\ job' = [job EXCEPT !.at = "close", !.raised = status = "cancelled"]
    /\ Settled
    /\ Untouched /\ UNCHANGED <<tree, did>>

\* the session is closed, well or not, and the record written
Close ==
    /\ Runs("close")
    /\ Store([task EXCEPT !.status = task.attempt])
    /\ To(IF job.raised THEN "over" ELSE "after")
    /\ OnlyWorker /\ UNCHANGED <<tree, did, faults>>

\* mutant: files that are as before are taken for no effects
ReplayableUnchanged == job.known /\ job.before = tree /\ job.safe

\* the files as before, no tool seen, and a worker and checks that only read
Replayable == job.known /\ job.before = tree /\ ~job.tools /\ job.safe
CanUpgrade == job.upgrade /\ job.number = 1 /\ task.acceptance = "failed" /\ Replayable

Upgrade == Runs("after") /\ CanUpgrade /\ BeginAttempt

Return ==
    /\ Runs("after") /\ ~CanUpgrade
    /\ To("over")
    /\ OnlyWorker /\ UNCHANGED <<task, saved, tree, did, faults>>

------------------------------------------------------------------------------
(* The environment.                                                         *)

\* by anyone; the files matter from one fingerprint to the next
Edit ==
    /\ tree < MaxEdits /\ job.at \notin {"none", "choose", "over", "dead"}
    /\ tree' = tree + 1
    /\ UNCHANGED <<desktop, worker, item, told, expired, given, did, faults>>

Dies ==
    /\ job.at \notin {"none", "over", "dead"} /\ Fault
    /\ To("dead")
    /\ waiter' = Over({a \in Approvals : waiter[a].at # None})
    /\ UNCHANGED <<desktop, task, saved, item, told, tree, expired, given, did>>

\* expires_at is later than the deadline of delegate, which is an hour at most:
\* it passes while a worker waits only if that worker is dead
Expire ==
    /\ job.at = "dead" /\ ~expired
    /\ expired' = TRUE
    /\ UNCHANGED <<desktop, worker, item, told, tree, given, did, faults>>

Watcher == Poll \/ EndPoll \/ \E a \in Approvals : EmitRequest(a) \/ EmitResolved(a)
Leaving == FinishRun \/ \E a \in Approvals : Refuse(a)
Approval(a) == Write(a) \/ Read(a) \/ Wait(a) \/ Take(a) \/ Tell(a) \/ CancelWorker(a)
Proceed ==
    \/ Choose \/ Fingerprint \/ Create \/ Prepare \/ Close \/ Upgrade \/ Return
    \/ job.at = "stopped" /\ EndPrompt("cancelled")
    \/ \E acceptance \in {"unknown", "passed", "failed"} : Verify(acceptance)

Next ==
    \/ StartRun \/ NextPrompt \/ Watcher \/ Claim \/ Leave \/ Leaving
    \/ \E a \in Approvals, d \in Decisions : Resolve(a, d)
    \/ \E a \in Approvals : Approval(a) \/ Ask(a)
    \/ Delegate \/ \E s \in {"rejected", "evaluation_failed", "cancelled"} : NoAttempt(s)
    \/ Proceed \/ CancelUncaught
    \/ \E changes \in BOOLEAN : UseTool(changes)
    \/ \E s \in {"completed", "failed", "cancelled"} : EndPrompt(s)
    \/ \E s \in {"cancelled", "timed_out", "failed"} : Raise(s)
    \/ Edit \/ Dies \/ Expire

\* tasks of two loops, whose timers run, and a clock; strong where a process is
\* for a moment between a read and what follows (Holding)
Fairness ==
    /\ WF_vars(Watcher) /\ WF_vars(Claim) /\ WF_vars(Leaving)
    /\ SF_vars(Proceed) /\ SF_vars(Raise("timed_out"))
    /\ \A a \in Approvals : SF_vars(Approval(a))
    /\ WF_vars(Expire)

Spec == Init /\ [][Next]_vars /\ Fairness

------------------------------------------------------------------------------
Ats == {None, "choose", "fingerprint", "create", "prepare", "prompt", "stopped", "verify",
        "close", "after", "over", "dead"}
Jobs ==
    [at : Ats, number : 0 .. 2, run : 0 .. MaxPrompts, upgrade : BOOLEAN, safe : BOOLEAN,
     known : BOOLEAN, refusable : SUBSET Approvals, before : 0 .. MaxEdits, tools : BOOLEAN,
     raised : BOOLEAN, uncaught : BOOLEAN]
Tasks ==
    [status : {None, "rejected", "evaluation_failed", "cancelled", "running", "completed",
               "failed", "timed_out"},
     attempt : {None, "running", "completed", "failed", "cancelled", "timed_out"},
     session : BOOLEAN, acceptance : {"unknown", "passed", "failed"}]
Items == [status : {None, "pending", "decided"}, decision : {None} \cup Decisions]
Waiters == [at : {None, "asked", "waits", "read", "tells", "over"}, got : Items]

TypeOK ==
    /\ run \in [n : 0 .. MaxPrompts, stage : {"idle", "watching", "leaving"}]
    /\ runId \in 0 .. run.n
    /\ poll \in [new : SUBSET Approvals, gone : SUBSET Approvals, found : SUBSET Approvals,
                 on : BOOLEAN]
    /\ observed \subseteq Approvals /\ cards \subseteq Approvals
    /\ desk \in {NoClaim} \cup [id : Approvals, decision : Decisions]
    /\ job \in Jobs /\ task \in Tasks /\ saved \in Tasks
    /\ waiter \in [Approvals -> Waiters] /\ item \in [Approvals -> Items]
    /\ told \in [Approvals -> {None} \cup Decisions]
    /\ given \in [Approvals -> SUBSET (Decisions \X (0 .. MaxPrompts))]
    /\ tree \in 0 .. MaxEdits /\ faults \in 0 .. MaxFaults
    /\ expired \in BOOLEAN /\ did \in BOOLEAN

\* A worker is allowed what it asks for only if the user allowed it in the run
\* the worker works for, and a refusal needs no user (_active, worker_approval).
GrantedInItsRun == \A a \in Approvals : told[a] = "accept" => <<"accept", job.run>> \in given[a]

\* A request gets one receipt, whoever decides it and however the end of the run
\* meets the user's answer, and while the run lasts the worker is told what the
\* receipt says.
ReceiptTrue ==
    \A a \in Approvals :
        /\ Cardinality(given[a]) <= 1
        /\ told[a] # None /\ given[a] # {} /\ runId = job.run =>
              <<told[a], job.run>> \in given[a]

\* A delegation that ended, however, leaves no request to decide.
NothingToDecide ==
    job.at = "over" => \A a \in Approvals : item[a].status # "pending"

\* and its record says how it ended, unless it was cancelled where nothing
\* catches that.
EndIsRecorded ==
    job.at = "over" /\ ~job.uncaught => saved.status # "running" /\ saved.attempt # "running"

\* A stronger worker starts only where the first one did nothing: the task is
\* never done twice in part (the upgrade gate of delegate).
NothingDoneTwice == [][job.number = 1 /\ job'.number = 2 => ~did]_vars

LaterPrompt == 0 < runId /\ runId < run.n

\* A request shown to the user goes away again, whether he decides it or not,
\* also when the worker dies, unless the run goes on with another prompt.
CardsGo == \A a \in Approvals : a \in cards ~> a \notin cards \/ LaterPrompt

\* It need not go when the run does: the watcher may be stopped after it showed
\* a request and before it noted that, and the next one knows nothing of it.
CardsGoAlways == \A a \in Approvals : a \in cards ~> a \notin cards

\* "Delete transient commands/tool arguments after the decision or
\* cancellation" (routing/approvals.py): no file stays.  One does: the
\* desktop's write may come after the worker removed the file.
RequestsForgotten == job.at = "over" /\ desk = NoClaim => \A a \in Approvals : item[a] = NoFile

\* "Retain pre-execution cancellation.  Output: terminal task record"
\* (routing/execution.py): a record that ended is never left running.  It is
\* when the cancellation comes while the files are read before the attempt.
CancelledIsTerminal == job.at = "over" => saved.status # "running"

\* What user and worker know of a request agrees, and a delegation that is over
\* is over for everyone.
AnswersTrue ==
    /\ TypeOK
    /\ GrantedInItsRun
    /\ ReceiptTrue
    /\ NothingToDecide
    /\ EndIsRecorded

\* No effect is repeated, and no request stays with the user for ever.
Delegated == NothingDoneTwice /\ CardsGo
==============================================================================
