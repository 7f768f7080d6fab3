----------------------------- MODULE MemoryQueue -----------------------------
(***************************************************************************)
(* The queue of memory sources: the entries of dream state (memory/state.py)*)
(* as the desktop's scheduler (BackgroundMemory), the manual review and the *)
(* dream agent of this or of another process move them.                     *)
(*                                                                         *)
(* A source is a session; a revision of its events stands for their hash.   *)
(* What the dream agent extracts and publishes is Dream's subject: here it  *)
(* takes the project lock, reads the events, marks the source and ends.     *)
(* The clock counts intervals, and no source waits longer than MaxWait.     *)
(***************************************************************************)
EXTENDS Naturals, FiniteSets

CONSTANTS
    Sources,                \* sessions with a memory source, in one project
    MaxRevision,            \* bound: revisions of one session's events
    MAX_AUTOMATIC_FAILURES, \* failures of one revision before it is left alone
    PendingThreshold,       \* sources that start a batch before its interval
    MaxEvents               \* bound: what users, other processes, the provider
                            \* and crashes do, counted together

ASSUME MemoryQueueAssumption ==
    /\ MaxRevision \in Nat \ {0}
    /\ MAX_AUTOMATIC_FAILURES \in Nat \ {0}
    /\ PendingThreshold \in Nat \ {0}
    /\ MaxEvents \in Nat

VARIABLES
    log,        \* the present revision of each session's events
    src,        \* the entries of the dream state file
    saved,      \* the snapshot dream.json still holds unpublished, or 0
    job,        \* the batch's review, the manual review, another process's dream
    queue,      \* sources the running batch has still to review
    lock,       \* who holds the project lock
    attempted,  \* BackgroundMemory._attempted: revision and intervals since
    since,      \* intervals since _last_started, 0 or 1
    resumeDue,  \* _resume_due
    fg,         \* a foreground run is under way
    conf,       \* background_memory_enabled, dream_enabled
    up,         \* the model provider answers
    events,     \* how many of MaxEvents happened
    seen        \* what happened to each source's revision: ended tries,
                \* automatic failures, a review that no batch
                \* made, another process's mark

vars == <<log, src, saved, job, queue, lock, attempted, since, resumeDue, fg,
          conf, up, events, seen>>

Runners == {"batch", "manual", "other"}
Stages  == {"off", "pick", "drain", "build", "lock", "read", "dream", "mark"}
MaxWait == 2 ^ (MAX_AUTOMATIC_FAILURES - 1)
Cap     == MAX_AUTOMATIC_FAILURES + 1    \* bound: counts saturate here
Capped(n) == IF n > Cap THEN Cap ELSE n

Off  == [at |-> "off",  s |-> CHOOSE s \in Sources : TRUE, hash |-> 0,
         cur |-> 0, snap |-> 0, reg |-> 0, before |-> 0, cancel |-> FALSE]
Pick == [Off EXCEPT !.at = "pick"]
Unseen == [tries |-> 0, auto |-> 0, asked |-> FALSE, mixed |-> FALSE]

Busy == fg \/ job["manual"].at # "off"

(* The entries: touch, started, failed, consolidated and the rest.          *)
Touched(e, h) ==
    IF e.hash = h THEN e
    ELSE [hash |-> h, status |-> "pending", phase |-> "none", failures |-> 0,
          cancelled |-> FALSE, processed |-> e.processed]
Started(e, phase) == [e EXCEPT !.status = "running", !.phase = phase, !.cancelled = FALSE]
\* mutant: the attempts left are counted down from the default of the entry
MarkFailedDown(e, h, cancelled) ==
    IF e.hash = h
    THEN [e EXCEPT !.status = "failed", !.failures = @ - 1, !.cancelled = cancelled]
    ELSE e
MarkFailed(e, h, cancelled) ==
    IF e.hash = h
    THEN [e EXCEPT !.status = "failed", !.failures = Capped(@ + 1), !.cancelled = cancelled]
    ELSE e
MarkPending(e, h) ==
    IF e.hash = h THEN [e EXCEPT !.status = "pending", !.phase = "none", !.cancelled = FALSE]
    ELSE e
Consolidated(e, h) ==
    [e EXCEPT !.processed = h, !.phase = "none", !.status = "complete", !.failures = 0,
              !.cancelled = FALSE]
Skipped(e, h) ==
    [e EXCEPT !.processed = h, !.phase = "none", !.status = "skipped", !.cancelled = FALSE]
NeedsConsolidation(s, h) == src[s].processed # h

(* The scheduler's choice.                                                  *)
\* mutant: no limit to the failures
RetryableForever(e) == e.status \in {"pending", "running", "failed"}

Retryable(e) ==
    \/ e.status \in {"pending", "running"}
    \/ e.status = "failed" /\ e.failures < MAX_AUTOMATIC_FAILURES
RetryDelay(e) == 2 ^ (e.failures - 1)
\* mutant: a revision that was tried is never tried again
SuppressedForever(s) == attempted[s].hash = src[s].hash

Suppressed(s) ==
    /\ attempted[s].hash = src[s].hash
    /\ src[s].status = "failed" => attempted[s].age < RetryDelay(src[s])
Pending  == {s \in Sources : Retryable(src[s])
                              /\ (src[s].status = "failed" => ~Suppressed(s))}
Eligible == {s \in Pending : ~Suppressed(s)}

(* Ghost: an attempt on revision h ended.                                   *)
Ended(s, h, e2, r, cancelled) ==
    seen' = [seen EXCEPT ![s] =
        IF e2.hash # h THEN @
        ELSE [tries    |-> Capped(@.tries + 1),
              auto     |-> IF r = "batch" /\ ~cancelled THEN Capped(@.auto + 1) ELSE @.auto,
              asked    |-> @.asked,
              mixed    |-> @.mixed \/ r = "other"]]
\* Ghost: a registration; one of events read before the present revision was
\* registered puts the entry back to the older one
Registered(s, h, r) ==
    seen' = [seen EXCEPT ![s] =
        [(IF h = src[s].hash THEN @ ELSE Unseen)
            EXCEPT !.mixed = seen[s].mixed \/ h < src[s].hash,
                   !.asked = @ \/ r \in {"manual", "other"}]]

Quiet == UNCHANGED <<log, fg, conf, up, events>>
Event == events < MaxEvents /\ events' = events + 1
Sched == UNCHANGED <<attempted, since, resumeDue>>

Init ==
    /\ log = [s \in Sources |-> 1]
    /\ src = [s \in Sources |-> [hash |-> 1, status |-> "pending", phase |-> "none",
                                 failures |-> 0, cancelled |-> FALSE, processed |-> 0]]
    /\ saved = [s \in Sources |-> 0]
    /\ job = [r \in Runners |-> Off]
    /\ queue = {}
    /\ lock = "free"
    /\ attempted = [s \in Sources |-> [hash |-> 0, age |-> 0]]
    /\ since = 0
    /\ resumeDue = FALSE
    /\ fg = FALSE
    /\ conf = [enabled |-> TRUE, dream |-> TRUE]
    /\ up \in BOOLEAN
    /\ events = 0
    /\ seen = [s \in Sources |-> Unseen]

------------------------------------------------------------------------------
(* The world around: events, runs, settings, the provider, time.            *)

Append(s) ==
    /\ log[s] < MaxRevision
    /\ log' = [log EXCEPT ![s] = @ + 1]
    /\ UNCHANGED <<src, saved, job, queue, lock, seen, fg, conf, up, events>> /\ Sched

\* a compact refresh registers what the log holds now
Refresh(s) ==
    /\ src[s].hash # log[s]
    /\ src' = [src EXCEPT ![s] = Touched(@, log[s])]
    /\ Registered(s, log[s], "none")
    /\ UNCHANGED <<saved, job, queue, lock>> /\ Quiet /\ Sched

Tick ==
    /\ since < 1 \/ \E s \in Sources : attempted[s].hash # 0 /\ attempted[s].age < MaxWait
    /\ since' = 1
    /\ attempted' = [s \in Sources |->
           IF attempted[s].hash # 0 /\ attempted[s].age < MaxWait
           THEN [attempted[s] EXCEPT !.age = @ + 1] ELSE attempted[s]]
    /\ UNCHANGED <<src, saved, job, queue, lock, resumeDue, seen>> /\ Quiet

Provider ==
    /\ Event
    /\ up' = ~up
    /\ UNCHANGED <<log, src, saved, job, queue, lock, seen, fg, conf>> /\ Sched

\* BackgroundMemory.request_cancel
RequestCancel ==
    IF job["batch"].at = "off" THEN UNCHANGED <<job, resumeDue>>
    ELSE /\ job' = [job EXCEPT !["batch"].cancel = TRUE]
         /\ resumeDue' = TRUE

StartRun ==
    /\ Event
    /\ ~fg
    /\ fg' = TRUE
    /\ RequestCancel
    /\ UNCHANGED <<log, src, saved, queue, lock, attempted, since, conf, up, seen>>

EndRun ==
    /\ fg
    /\ fg' = FALSE
    /\ UNCHANGED <<log, src, saved, job, queue, lock, conf, up, events, seen>> /\ Sched

\* save_background_memory_settings: cancels when it turns the schedule off,
\* and always resets it
SaveSchedule(enabled) ==
    /\ Event
    /\ conf.enabled # enabled \/ \E s \in Sources : attempted[s].hash # 0
    /\ ~enabled => job["batch"].at = "off"     \* it awaits the cancelled batch
    /\ conf' = [conf EXCEPT !.enabled = enabled]
    /\ attempted' = [s \in Sources |-> [hash |-> 0, age |-> 0]]
    /\ since' = 0
    /\ resumeDue' = FALSE
    /\ UNCHANGED <<log, src, saved, job, queue, lock, fg, up, seen>>

\* the settings are saved before the batch they cancel has stopped
Disable ==
    /\ Event
    /\ conf.enabled /\ job["batch"].at # "off"
    /\ conf' = [conf EXCEPT !.enabled = FALSE]
    /\ RequestCancel
    /\ UNCHANGED <<log, src, saved, queue, lock, attempted, since, fg, up, seen>>

\* save_dream_settings: turning the dream agent off cancels every review
SaveDream(on) ==
    /\ conf.dream # on
    /\ IF on THEN UNCHANGED events ELSE Event
    /\ conf' = [conf EXCEPT !.dream = on]
    /\ job' = IF on THEN job
              ELSE [r \in Runners |-> IF r # "other" /\ job[r].at # "off"
                                      THEN [job[r] EXCEPT !.cancel = TRUE] ELSE job[r]]
    /\ resumeDue' = (resumeDue \/ (~on /\ job["batch"].at # "off"))
    /\ UNCHANGED <<log, src, saved, queue, lock, attempted, since, fg, up, seen>>

\* the desktop process dies: the files stay, the lock is released
Crash ==
    /\ Event
    /\ job["batch"].at # "off" \/ job["manual"].at # "off"
    /\ job' = [job EXCEPT !["batch"] = Off, !["manual"] = Off]
    /\ queue' = {}
    /\ lock' = IF lock = "other" THEN lock ELSE "free"
    /\ attempted' = [s \in Sources |-> [hash |-> 0, age |-> 0]]
    /\ since' = 0
    /\ resumeDue' = FALSE
    /\ fg' = FALSE
    /\ UNCHANGED <<log, src, saved, conf, up, seen>>

------------------------------------------------------------------------------
(* The batch.                                                               *)

StartIfDue ==
    /\ conf.enabled /\ conf.dream
    /\ ~Busy
    /\ job["batch"].at = "off"
    /\ Eligible # {}
    /\ resumeDue \/ since >= 1 \/ Cardinality(Pending) >= PendingThreshold
    /\ resumeDue' = FALSE
    /\ since' = 0
    /\ queue' = {[s |-> s, hash |-> src[s].hash] : s \in Eligible}
    /\ job' = [job EXCEPT !["batch"] = Pick]
    /\ UNCHANGED <<src, saved, lock, attempted, seen>> /\ Quiet

StopsBatch == Busy \/ ~conf.enabled \/ ~conf.dream

\* the loop of _run: what is gone or changed is passed over
PickSource ==
    /\ job["batch"].at = "pick" /\ ~job["batch"].cancel
    /\ ~StopsBatch
    /\ \E q \in queue :
          /\ queue' = queue \ {q}
          /\ job' = [job EXCEPT !["batch"] =
                 IF q.s \in Pending /\ src[q.s].hash = q.hash
                 THEN [Pick EXCEPT !.at = "build", !.s = q.s, !.hash = q.hash,
                                   !.before = src[q.s].failures]
                 ELSE Pick]
    /\ UNCHANGED <<src, saved, lock, seen>> /\ Quiet /\ Sched

EndBatch ==
    /\ job["batch"].at = "pick"
    /\ queue = {} \/ StopsBatch \/ job["batch"].cancel
    /\ job' = [job EXCEPT !["batch"] = Off]
    /\ queue' = {}
    /\ UNCHANGED <<src, saved, lock, seen>> /\ Quiet /\ Sched

------------------------------------------------------------------------------
(* The manual review.                                                       *)

ReviewSource(s) ==
    /\ Event
    /\ job["manual"].at = "off"
    /\ job' = [job EXCEPT !["manual"] = [Off EXCEPT !.at = "drain", !.s = s],
                          !["batch"].cancel = job["batch"].at # "off"]
    /\ resumeDue' = (resumeDue \/ job["batch"].at # "off")
    /\ UNCHANGED <<src, saved, queue, lock, attempted, since, seen>> /\ UNCHANGED <<log, fg, conf, up>>

\* the source is checked once the batch has stopped
Review ==
    LET j == job["manual"] e == src[j.s] IN
    /\ j.at = "drain" /\ job["batch"].at = "off"
    /\ \/ /\ j.cancel \/ ~conf.dream \/ e.status \notin {"pending", "failed"}
          /\ job' = [job EXCEPT !["manual"] = Off]
          /\ UNCHANGED <<src, seen>>
       \/ /\ ~j.cancel /\ e.status \in {"pending", "failed"}
          /\ src' = [src EXCEPT ![j.s] = Skipped(e, e.hash)]
          /\ job' = [job EXCEPT !["manual"] = Off]
          /\ UNCHANGED seen
       \/ /\ ~j.cancel /\ conf.dream /\ e.status \in {"pending", "failed"}
          /\ src' = [src EXCEPT ![j.s] = Started(e, "initializing")]
          /\ job' = [job EXCEPT !["manual"] = [j EXCEPT !.at = "build", !.hash = e.hash]]
          /\ seen' = [seen EXCEPT ![j.s].asked = TRUE]
    /\ UNCHANGED <<saved, queue, lock>> /\ Quiet /\ Sched

------------------------------------------------------------------------------
(* One review, whoever runs it.                                             *)

Leave(r) == job' = [job EXCEPT ![r] = IF r = "batch" THEN Pick ELSE Off]
Release(r) == lock' = IF lock = r THEN "free" ELSE lock
Attempt(r) ==
    IF r # "batch" THEN UNCHANGED attempted
    ELSE attempted' = [attempted EXCEPT ![job[r].s] = [hash |-> job[r].hash, age |-> 0]]

\* the model is constructed; the batch looks again for a foreground run
Built(r) ==
    /\ job[r].at = "build" /\ ~job[r].cancel /\ up
    /\ r = "batch" => ~StopsBatch
    /\ r = "manual" => conf.dream
    /\ job' = [job EXCEPT ![r].at = "lock"]
    /\ UNCHANGED <<src, saved, queue, lock, seen>> /\ Quiet /\ Sched

\* another process takes a source: the legacy worker, a second desktop
OtherStarts(s) ==
    /\ Event
    /\ job["other"].at = "off"
    /\ Retryable(src[s])
    /\ job' = [job EXCEPT !["other"] = [Off EXCEPT !.at = "lock", !.s = s, !.hash = src[s].hash]]
    /\ UNCHANGED <<src, saved, queue, lock, seen>> /\ UNCHANGED <<log, fg, conf, up>> /\ Sched

Acquire(r) ==
    /\ job[r].at = "lock" /\ ~job[r].cancel
    /\ lock = "free"
    /\ lock' = r
    /\ job' = [job EXCEPT ![r].at = "read", ![r].cur = log[job[r].s]]
    /\ UNCHANGED <<src, saved, queue, seen>> /\ Quiet /\ Sched

\* a revision already processed is skipped, unless the review is forced
NothingToDo(r) ==
    LET j == job[r] IN
    /\ j.at = "read" /\ ~j.cancel
    /\ r # "manual" /\ ~NeedsConsolidation(j.s, j.cur)
    /\ Leave(r) /\ Release(r) /\ Attempt(r)
    /\ UNCHANGED <<src, saved, queue, since, resumeDue, seen>> /\ Quiet

\* the events read are registered and the source is marked started; an
\* unpublished snapshot is resumed unless the memory changed under it
Begin(r) ==
    LET j == job[r] e2 == Started(Touched(src[j.s], j.cur), "dream") IN
    /\ j.at = "read" /\ ~j.cancel
    /\ r = "manual" \/ NeedsConsolidation(j.s, j.cur)
    /\ src' = [src EXCEPT ![j.s] = e2]
    /\ Registered(j.s, j.cur, r)
    /\ \E snap \in {j.cur} \cup ({saved[j.s]} \ {0}) :
          /\ job' = [job EXCEPT ![r].at = "dream", ![r].snap = snap]
          /\ saved' = [saved EXCEPT ![j.s] = snap]
    /\ UNCHANGED <<queue, lock>> /\ Quiet /\ Sched

\* another block: the present revision is marked started again
Chunk(r) ==
    LET j == job[r] IN
    /\ j.at = "dream" /\ ~j.cancel
    /\ j.cur # src[j.s].hash
    /\ src' = [src EXCEPT ![j.s] = Started(@, "dream")]
    /\ job' = [job EXCEPT ![r].cur = src[j.s].hash]
    /\ seen' = [seen EXCEPT ![j.s].asked = @ \/ r # "batch"]
    /\ UNCHANGED <<saved, queue, lock>> /\ Quiet /\ Sched

\* published; what arrived meanwhile is registered
Publish(r) ==
    LET j == job[r] e2 == Touched(src[j.s], log[j.s]) IN
    /\ j.at = "dream" /\ ~j.cancel /\ up
    /\ saved' = [saved EXCEPT ![j.s] = 0]
    /\ src' = [src EXCEPT ![j.s] = e2]
    /\ Registered(j.s, log[j.s], r)
    /\ job' = [job EXCEPT ![r].at = "mark", ![r].reg = log[j.s]]
    /\ UNCHANGED <<queue, lock>> /\ Quiet /\ Sched

\* older than what arrived: queued again, and not an attempt of this revision
MarkNewer(r) ==
    LET j == job[r] IN
    /\ j.at = "mark" /\ ~j.cancel
    /\ j.reg # j.snap
    /\ src' = [src EXCEPT ![j.s] = MarkPending(@, j.reg)]
    /\ Leave(r) /\ Release(r)
    /\ UNCHANGED <<saved, queue, seen>> /\ Quiet /\ Sched

MarkComplete(r) ==
    LET j == job[r] IN
    /\ j.at = "mark" /\ ~j.cancel
    /\ j.reg = j.snap /\ src[j.s].hash = j.snap
    /\ src' = [src EXCEPT ![j.s] = Consolidated(@, j.snap)]
    /\ seen' = [seen EXCEPT ![j.s] = [Unseen EXCEPT !.mixed = seen[j.s].mixed \/ r = "other"]]
    /\ Leave(r) /\ Release(r) /\ Attempt(r)
    /\ UNCHANGED <<saved, queue, since, resumeDue>> /\ Quiet

\* mutant: an entry that is failed already is not counted again, not even when
\* the dream agent never began (the fault ADR 0001 repairs)
AfterFailureOnce(r, e, j) ==
    IF r # "other" /\ e.status # "failed" THEN MarkFailed(e, j.hash, FALSE) ELSE e

\* the service's handler of a failed review
AfterFailure(r, e, j) ==
    CASE r = "batch"  -> IF e.failures = j.before THEN MarkFailed(e, j.hash, FALSE) ELSE e
      [] r = "manual" -> IF e.status # "failed" THEN MarkFailed(e, j.hash, FALSE) ELSE e
      [] OTHER        -> e

\* once it owns the source the dream agent records its own failure; it also
\* fails when the revision it published is no longer the registered one
Fail(r) ==
    LET j  == job[r]
        owns == j.at \in {"dream", "mark"}
        e  == IF owns THEN MarkFailed(src[j.s], j.cur, FALSE) ELSE src[j.s]
        e2 == AfterFailure(r, e, j)
    IN
    /\ ~j.cancel
    /\ \/ j.at \in {"build", "read", "dream"} /\ ~up
       \/ j.at = "mark" /\ j.reg = j.snap /\ src[j.s].hash # j.snap
    /\ src' = [src EXCEPT ![j.s] = e2]
    /\ IF src[j.s].hash \in (IF owns THEN {j.cur} ELSE {}) \cup (IF r = "other" THEN {} ELSE {j.hash})
       THEN Ended(j.s, src[j.s].hash, e2, r, FALSE) ELSE UNCHANGED seen
    /\ Leave(r) /\ Release(r) /\ Attempt(r)
    /\ UNCHANGED <<saved, queue, since, resumeDue>> /\ Quiet

\* the service's handler of a cancelled review
AfterCancel(r, e, j) ==
    IF e.hash # j.hash THEN e
    ELSE IF \/ e.status = "failed" /\ e.cancelled
            \/ r = "manual" /\ e.status = "running" /\ e.phase = "initializing"
    THEN MarkPending(e, j.hash) ELSE e

\* only a dream that owns the source records its cancellation
Cancelled(r) ==
    LET j  == job[r]
        e  == IF j.at \in {"dream", "mark"} THEN MarkFailed(src[j.s], j.cur, TRUE) ELSE src[j.s]
        e2 == AfterCancel(r, e, j)
    IN
    /\ r # "other"
    /\ j.at \in {"build", "lock", "read", "dream", "mark"}
    /\ \/ j.cancel
       \/ j.at = "build" /\ up /\ (IF r = "batch" THEN StopsBatch ELSE ~conf.dream)
    /\ src' = [src EXCEPT ![j.s] = e2]
    /\ IF j.at \in {"dream", "mark"} /\ src[j.s].hash = j.cur
       THEN Ended(j.s, j.cur, e2, r, TRUE) ELSE UNCHANGED seen
    /\ job' = [job EXCEPT ![r] = Off]
    /\ queue' = IF r = "batch" THEN {} ELSE queue
    /\ Release(r)
    /\ UNCHANGED saved /\ Quiet /\ Sched

\* the other process dies with the source marked running
OtherDies ==
    /\ job["other"].at \in {"lock", "read", "dream", "mark"}
    /\ job' = [job EXCEPT !["other"] = Off]
    /\ Release("other")
    /\ seen' = [seen EXCEPT ![job["other"].s].mixed = @ \/ job["other"].at \in {"dream", "mark"}]
    /\ UNCHANGED <<src, saved, queue>> /\ Quiet /\ Sched

Step(r) ==
    \/ Built(r) \/ Acquire(r) \/ NothingToDo(r) \/ Begin(r) \/ Chunk(r) \/ Publish(r)
    \/ MarkNewer(r) \/ MarkComplete(r) \/ Fail(r) \/ Cancelled(r)

Next ==
    \/ \E s \in Sources : Append(s) \/ Refresh(s) \/ ReviewSource(s) \/ OtherStarts(s)
    \/ Tick \/ Provider \/ StartRun \/ EndRun \/ Disable \/ Crash
    \/ \E on \in BOOLEAN : SaveSchedule(on) \/ SaveDream(on)
    \/ StartIfDue \/ PickSource \/ EndBatch \/ Review \/ OtherDies
    \/ \E r \in Runners : Step(r)

Fairness ==
    /\ WF_vars(Tick) /\ WF_vars(StartIfDue) /\ WF_vars(PickSource) /\ WF_vars(EndBatch)
    /\ WF_vars(Review)
    /\ \A r \in Runners : WF_vars(Step(r))

Spec == Init /\ [][Next]_vars /\ Fairness

------------------------------------------------------------------------------
TypeOK ==
    /\ log \in [Sources -> 1 .. MaxRevision]
    /\ src \in [Sources -> [hash : 1 .. MaxRevision,
                            status : {"pending", "running", "failed", "complete", "skipped"},
                            phase : {"none", "initializing", "dream"},
                            failures : 0 .. Cap, cancelled : BOOLEAN,
                            processed : 0 .. MaxRevision]]
    /\ saved \in [Sources -> 0 .. MaxRevision]
    /\ \A r \in Runners : job[r].at \in Stages /\ job[r].s \in Sources
    /\ lock \in {"free"} \cup Runners
    /\ since \in 0 .. 1

\* The retry budget is counted truly: each attempt of this desktop that ended on
\* the present revision is counted once, whether or not the dream agent had begun
\* (while no other process has ended on the source or put an older revision back).
FailuresCounted == \A s \in Sources : ~seen[s].mixed => src[s].failures = seen[s].tries

\* Left alone after MAX_AUTOMATIC_FAILURES: a revision fails no more often than
\* that in batches, however often these are cancelled or cut short by a crash.
\* (A manual review or another process may put it back as pending or running.)
AutomaticBounded ==
    \A s \in Sources : ~seen[s].asked /\ ~seen[s].mixed => seen[s].auto <= MAX_AUTOMATIC_FAILURES

\* ADR 0001: a persistent failure costs at most MAX_AUTOMATIC_FAILURES attempts.
AutomaticAttemptsBounded == \A s \in Sources : seen[s].auto <= MAX_AUTOMATIC_FAILURES

\* Cancelling a review that waits does not take the source from the process
\* whose dream agent is running on it and has marked it so.
CancelKeepsLiveWorker ==
    [][\A s \in Sources, r \in {"batch", "manual"} :
          (/\ job["other"].at \in {"dream", "mark"} /\ job["other"].s = s
           /\ src[s].status = "running" /\ src[s].phase = "dream"
           /\ job[r].s = s /\ job[r].at \in {"build", "lock"} /\ job'[r].at = "off"
           /\ job[r].cancel)
          => src'[s] = src[s]]_vars

Calm == ~fg /\ conf.enabled /\ conf.dream /\ up

\* A source this desktop still has to consolidate, of which no other process
\* left a mark behind.
Waiting(s) == Retryable(src[s]) /\ src[s].processed # log[s] /\ ~seen[s].mixed

\* When the provider is back and no run holds the scheduler off, what failed is
\* tried again without the user, and what was not yet tried is tried.
FailedIsRetried ==
    <>[]Calm => \A s \in Sources :
        []<>(Waiting(s) => src[s].status # "failed" /\ attempted[s].hash = src[s].hash)

\* "A recovered snapshot finished; newer events still need a pass": they get it.
NewerEventsGetAPass == <>[]Calm => \A s \in Sources : []<>(~Waiting(s))

\* The budget of attempts is counted truly and kept to.
RetryBudget == TypeOK /\ FailuresCounted /\ AutomaticBounded

\* What failed is tried again, unless another process is still at it.
Retried == CancelKeepsLiveWorker /\ FailedIsRetried
==============================================================================
