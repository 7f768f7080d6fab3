---------------------------- MODULE SteeringProofs ----------------------------
(***************************************************************************)
(* What TLAPS proves of Steering for any number of instructions, calls and  *)
(* faults: an instruction is given to the harness at most once, its receipt *)
(* tells the truth about that, and a settled receipt stays settled.         *)
(***************************************************************************)
EXTENDS Steering, FiniteSetTheorems, TLAPS

(* The run still accepts instructions.                                      *)
Live == run \notin {"closing", "cancelled", "gone"}

Calling(c) == calls[c].at \notin {"new", "done"}
OnWorker(r) == worker.at \in {"check", "delivering", "report"} /\ worker.req = r
InBatch(r) == \E i \in DOMAIN batch : batch[i] = r

(* A receipt of which something may yet become, and one from which an       *)
(* instruction is queued: none, one that waits, or one to be tried again.   *)
Pends(s) == s.status \in Open \/ s.retryable
Unsent(s) == s.status \in {"none", "queued"} \/ s.retryable

(* The stages of the run, the worker and the lock go together.              *)
Stages ==
    /\ mode = "native" => batch = <<>> /\ run \notin {"boundary", "prompting"}
    /\ mode = "boundary" => worker.at = "none"
    /\ run \in {"starting", "attached"} => batch = <<>>
    /\ run = "starting" => queue = <<>> /\ worker.at = "none"
    /\ Live => ~closed
    /\ run \in {"closing", "cancelled"} => closed
    /\ worker.cancelled => closed
    /\ run = "gone" => worker.at = "none"
    /\ worker.at \in {"check", "delivering", "report"} => worker.req \in Requests

Locked ==
    /\ \A c \in Calls : calls[c].at = "decide" <=> holder = c
    /\ worker.at = "check" <=> holder = "worker"

(* A call goes on with what it found at first: a run, or none.              *)
Attends(c) ==
    /\ Calling(c) => calls[c].req \in Requests
    /\ Calling(c) /\ calls[c].attached => run # "starting"
    /\ calls[c].at \in {"submit", "decide"} =>
          calls[c].attached /\ (run = "gone" => closed)
    /\ calls[c].at = "settle" => Pends(calls[c].seen) /\ ~calls[c].attached
    /\ calls[c].at = "new" => ~calls[c].again

(* What anyone remembers of a receipt is the log's newest or older: a       *)
(* revision is written once.                                                *)
WellFormed(s) ==
    /\ s \in Receipts
    /\ s.revision >= -1
    /\ s.revision = -1 <=> s.status = "none"
    /\ s.revision = -1 => s = NewReceipt
    /\ s.retryable => s.status = "failed"
Older(s, r) ==
    /\ WellFormed(s)
    /\ s.revision <= stored[r].revision
    /\ s.revision = stored[r].revision => s = stored[r]
Remembered ==
    /\ \A r \in Requests : WellFormed(stored[r]) /\ Older(records[r], r)
    /\ \A c \in Calls : Calling(c) => Older(calls[c].seen, calls[c].req)

(* Whoever is in submit has the newest receipt in memory; if there is none, *)
(* the log's, or that was settled meanwhile.  It was not, if calls did not  *)
(* overlap.                                                                 *)
Decides(c) ==
    calls[c].at = "decide" =>
        LET r == calls[c].req
            seen == calls[c].seen
        IN  /\ records[r].status # "none" => seen = records[r]
            /\ records[r].status = "none" /\ seen.status = "queued" =>
                  stored[r] = seen \/ ~Unsent(stored[r])
            /\ records[r].status = "none" /\ ~Overlapped /\ Live => stored[r] = seen

(* If calls did not overlap, there is one for a request, and one that found *)
(* no run is about a request the run does not know.                         *)
Alone ==
    ~Overlapped =>
        /\ \A c, d \in Calls :
              Calling(c) /\ Calling(d) /\ calls[c].req = calls[d].req => c = d
        /\ \A c \in Calls : Calling(c) /\ ~calls[c].attached /\ run # "gone" =>
              /\ calls[c].at # "settle"
              /\ records[calls[c].req].status = "none"
              /\ ~Pends(stored[calls[c].req])

(* An instruction is queued once.                                           *)
Once ==
    /\ \A i, j \in DOMAIN queue : queue[i] = queue[j] => i = j
    /\ \A i, j \in DOMAIN batch : batch[i] = batch[j] => i = j

(* Before the run has its SteeringRun nothing is on its way.                *)
Unstarted(r) ==
    run = "starting" => records[r].status = "none" /\ given[r] = 0 /\ ~Pends(stored[r])

(* What is queued was not given yet and is nowhere else.                    *)
Queued(r) ==
    InQueue(r) =>
        /\ records[r].status # "none"
        /\ Live => ~records[r].retryable
        /\ given[r] = 0
        /\ ~OnWorker(r) /\ ~InBatch(r)

(* What the worker hands over is on record as being sent, and was not given *)
(* before; then it knows what became of it, or that it does not.            *)
OnItsWay(r) ==
    OnWorker(r) =>
        /\ records[r] = worker.receipt /\ records[r].status = "sending"
        /\ stored[r] = records[r] \/ stored[r].status = "uncertain"
        /\ worker.at # "report" => given[r] = 0
        /\ worker.at = "report" =>
              /\ worker.status \in {"received", "uncertain", "failed"}
              /\ worker.retryable => worker.status = "failed"
              /\ worker.status = "received" => given[r] = 1
              /\ worker.status = "failed" => given[r] = 0

(* What becomes a prompt was not given, and then was.                       *)
Prompted(r) ==
    InBatch(r) =>
        /\ run = "prompting" => given[r] = 0
        /\ run = "turn" => given[r] = 1

(* What may be queued again was not given and is nowhere else.              *)
Unsents(r) ==
    Live /\ Unsent(records[r]) => given[r] = 0 /\ ~OnWorker(r) /\ ~InBatch(r)

(* Where the log is ahead of the memory: of what is queued, or given only   *)
(* between turns, the log says that it is sent or settled; of what may be   *)
(* queued, it does not say that it may be tried again.                      *)
Behind(r) ==
    Live /\ stored[r] # records[r] =>
        /\ records[r].status = "queued" \/ InQueue(r) \/ (mode = "boundary" /\ ~Unsent(records[r]))
              => ~Unsent(stored[r])
        /\ Unsent(records[r]) => ~stored[r].retryable

(* What the log says was not given was not, of a harness that takes         *)
(* instructions during the turn or if calls did not overlap.                *)
NotGiven(r) ==
    (mode = "native" \/ ~Overlapped) /\
    stored[r].status \in {"none", "queued", "failed", "cancelled"} => given[r] = 0

(* Nothing is given twice, and what was received was given.                 *)
Truthful(r) ==
    /\ given[r] <= 1
    /\ stored[r].status = "received" => given[r] = 1

(* If calls did not overlap, the log is ahead of the memory only by a write *)
(* that failed.                                                             *)
Orderly(r) ==
    ~Overlapped /\ Live =>
        /\ InQueue(r) => records[r].status = "queued"
        /\ records[r].status = "queued" =>
              stored[r] = records[r] \/ stored[r].status = "sending"
        /\ records[r].retryable =>
              stored[r] = records[r] \/ stored[r].status = "queued"
        /\ run = "prompting" /\ InBatch(r) => stored[r].status = "sending"

(* As long as nothing failed the memory has whatever pends, and after the   *)
(* run nothing does.                                                        *)
Tracked(r) ==
    faults = 0 /\ Pends(stored[r]) => run # "gone" /\ records[r] = stored[r]

Right(r) ==
    /\ Unstarted(r) /\ Queued(r) /\ OnItsWay(r) /\ Prompted(r)
    /\ Unsents(r) /\ Behind(r) /\ NotGiven(r) /\ Truthful(r)
    /\ Orderly(r) /\ Tracked(r)

(* The inductive invariant.                                                *)
IInv ==
    /\ TypeOK
    /\ Stages /\ Locked /\ Remembered /\ Alone /\ Once
    /\ \A c \in Calls : Attends(c) /\ Decides(c)
    /\ \A r \in Requests : Right(r)
-----------------------------------------------------------------------------
(* What a write does.                                                       *)

(* A receipt is replaced in the log, by whoever knew the newest one.        *)
Wrote(r, s, status, retryable) ==
    /\ stored[r] = s
    /\ stored'[r].status = status /\ stored'[r].retryable = retryable
Newer(r) ==
    /\ WellFormed(stored'[r])
    /\ stored'[r] = stored[r] \/ stored'[r].revision > stored[r].revision
Grown == \A r \in Requests : Newer(r)

(* NewReceipt is a receipt, and so is what persist_receipt writes.          *)
LEMMA NewIsReceipt == NewReceipt \in Receipts /\ WellFormed(NewReceipt)
<1>1. NewReceipt \in Receipts
  BY DEF NewReceipt, Receipts
<1> QED
  BY <1>1 DEF WellFormed, NewReceipt

(* What is written is a receipt newer than the one it was made from;        *)
(* whoever did not know the newest one gets that.                           *)
LEMMA PersistedIs ==
    ASSUME NEW r \in Requests, WellFormed(stored[r]), NEW s, Older(s, r),
           NEW status \in Open \cup Over, NEW retryable \in BOOLEAN,
           retryable => status = "failed"
    PROVE  /\ Persisted(r, s, status, retryable) \in Receipts
           /\ WellFormed(Persisted(r, s, status, retryable))
           /\ Persisted(r, s, status, retryable).revision > s.revision
           /\ \/ /\ stored[r] = s
                 /\ Persisted(r, s, status, retryable).status = status
                 /\ Persisted(r, s, status, retryable).retryable = retryable
              \/ /\ stored[r] # s /\ stored[r].status # "none"
                 /\ Persisted(r, s, status, retryable) = stored[r]
<1> DEFINE next == [status |-> status, revision |-> s.revision + 1, retryable |-> retryable]
<1>1. s \in Receipts /\ stored[r] \in Receipts /\ s.revision \in Int /\ stored[r].revision \in Int
  BY DEF Older, WellFormed, Receipts
<1>2. next \in Receipts /\ next.revision = s.revision + 1 /\ next.status = status
      /\ next.retryable = retryable
  BY <1>1 DEF Receipts
<1>3. CASE stored[r].revision >= s.revision + 1
  <2>1. Persisted(r, s, status, retryable) = stored[r]
    BY <1>2, <1>3 DEF Persisted
  <2>2. stored[r] # s
    BY <1>1, <1>3
  <2>3. stored[r].status # "none"
    BY <1>1, <1>3 DEF Older, WellFormed
  <2> QED
    BY <1>1, <1>3, <2>1, <2>2, <2>3
<1>4. CASE ~(stored[r].revision >= s.revision + 1)
  <2>1. Persisted(r, s, status, retryable) = next
    BY <1>2, <1>4 DEF Persisted
  <2>2. stored[r] = s
    BY <1>1, <1>4 DEF Older
  <2>3. WellFormed(next)
    <3>1. next.revision >= 0
      BY <1>1, <1>2 DEF Older, WellFormed
    <3>2. next.status # "none"
      BY <1>2 DEF Open, Over
    <3> QED
      BY <1>1, <1>2, <3>1, <3>2 DEF WellFormed
  <2> QED
    BY <1>1, <1>2, <2>1, <2>2, <2>3
<1> QED
  BY <1>3, <1>4

(* persist_receipt replaces the newest receipt, if it was made from that,   *)
(* and else writes nothing.                                                 *)
LEMMA PersistIs ==
    ASSUME stored \in [Requests -> Receipts], Remembered,
           NEW r \in Requests, NEW s, Older(s, r),
           NEW status \in Open \cup Over, NEW retryable \in BOOLEAN,
           retryable => status = "failed",
           Persist(r, s, status, retryable)
    PROVE  /\ stored' \in [Requests -> Receipts]
           /\ Grown
           /\ \A q \in Requests \ {r} : stored'[q] = stored[q]
           /\ \/ Wrote(r, s, status, retryable)
              \/ stored'[r] = stored[r] /\ stored[r] # s /\ stored[r].status # "none"
<1> DEFINE p == Persisted(r, s, status, retryable)
<1>1. WellFormed(stored[r])
  BY DEF Remembered
<1>2. /\ p \in Receipts /\ WellFormed(p) /\ p.revision > s.revision
      /\ \/ stored[r] = s /\ p.status = status /\ p.retryable = retryable
         \/ stored[r] # s /\ stored[r].status # "none" /\ p = stored[r]
  BY <1>1, PersistedIs
<1>3. stored' = [stored EXCEPT ![r] = p]
  BY DEF Persist
<1> HIDE DEF p
<1>4. stored'[r] = p /\ \A q \in Requests \ {r} : stored'[q] = stored[q]
  BY <1>3
<1>5. stored' \in [Requests -> Receipts]
  BY <1>2, <1>3
<1>6. Grown
  <2> SUFFICES ASSUME NEW q \in Requests
               PROVE  Newer(q)
    BY DEF Grown
  <2>1. WellFormed(stored[q])
    BY DEF Remembered
  <2>2. CASE q = r
    BY <1>2, <1>4, <2>2 DEF Newer
  <2>3. CASE q # r
    BY <1>4, <2>1, <2>3 DEF Newer
  <2> QED
    BY <2>2, <2>3
<1> QED
  BY <1>2, <1>4, <1>5, <1>6 DEF Wrote

(* A log that grows leaves what is remembered as it is: older.              *)
LEMMA OlderStays ==
    ASSUME NEW r \in Requests, WellFormed(stored[r]), Newer(r), NEW s, Older(s, r)
    PROVE  Older(s, r)'
<1>1. s.revision \in Int /\ stored[r].revision \in Int /\ stored'[r].revision \in Int
  BY DEF Older, Newer, WellFormed, Receipts
<1> QED
  BY <1>1 DEF Older, Newer

(* So whatever is remembered after a step is the log's newest or older, if  *)
(* it was before or was read from the log in it.                            *)
LEMMA RememberedStays ==
    ASSUME Remembered, \A c \in Calls : Attends(c), Grown,
           \A r \in Requests : Older(records'[r], r) \/ records'[r] \in {records[r], stored'[r]},
           \A c \in Calls : Calling(c)' =>
               \/ Calling(c) /\ calls'[c].req = calls[c].req /\ calls'[c].seen = calls[c].seen
               \/ calls'[c].req \in Requests
                  /\ calls'[c].seen \in {NewReceipt, stored'[calls'[c].req],
                                       records'[calls'[c].req]}
    PROVE  Remembered'
<1> DEFINE Old(s, r) == /\ WellFormed(s)
                        /\ s.revision <= stored'[r].revision
                        /\ s.revision = stored'[r].revision => s = stored'[r]
<1>1. \A r \in Requests : WellFormed(stored[r]) /\ WellFormed(stored'[r]) /\ Newer(r)
  BY DEF Remembered, Grown, Newer
<1>2. \A r \in Requests : Old(stored'[r], r) /\ Old(NewReceipt, r)
  <2> SUFFICES ASSUME NEW r \in Requests
               PROVE  Old(stored'[r], r) /\ Old(NewReceipt, r)
    OBVIOUS
  <2>1. WellFormed(stored'[r]) /\ stored'[r].revision \in Int
    BY <1>1 DEF WellFormed, Receipts
  <2>2. Old(stored'[r], r)
    BY <2>1
  <2>3. NewReceipt.revision = -1
    BY DEF NewReceipt
  <2>4. Old(NewReceipt, r)
    BY <2>1, <2>3, NewIsReceipt DEF WellFormed
  <2> QED
    BY <2>2, <2>4
<1>3. \A r \in Requests : \A s : Older(s, r) => Old(s, r)
  <2> SUFFICES ASSUME NEW r \in Requests, NEW s, Older(s, r)
               PROVE  Old(s, r)
    OBVIOUS
  <2>1. Older(s, r)'
    BY <1>1, OlderStays
  <2> QED
    BY <2>1 DEF Older
<1>4. \A r \in Requests : Old(records'[r], r)
  <2> SUFFICES ASSUME NEW r \in Requests
               PROVE  Old(records'[r], r)
    OBVIOUS
  <2>1. Old(records[r], r) /\ Old(stored'[r], r)
    BY <1>2, <1>3 DEF Remembered
  <2>2. CASE Older(records'[r], r)
    BY <1>3, <2>2
  <2>3. CASE records'[r] \in {records[r], stored'[r]}
    BY <2>1, <2>3
  <2> QED
    BY <2>2, <2>3
<1>5. ASSUME NEW c \in Calls, Calling(c)'
      PROVE  Old(calls'[c].seen, calls'[c].req)
  <2>1. CASE Calling(c) /\ calls'[c].req = calls[c].req /\ calls'[c].seen = calls[c].seen
    <3>1. calls[c].req \in Requests /\ Older(calls[c].seen, calls[c].req)
      BY <2>1 DEF Remembered, Attends
    <3> QED
      BY <1>3, <2>1, <3>1
  <2>2. CASE /\ calls'[c].req \in Requests
             /\ calls'[c].seen \in {NewReceipt, stored'[calls'[c].req], records'[calls'[c].req]}
    BY <1>2, <1>4, <2>2
  <2> QED
    BY <1>5, <2>1, <2>2
<1>6. \A r \in Requests : WellFormed(stored'[r]) /\ Older(records[r], r)'
  BY <1>1, <1>4 DEF Older
<1>7. \A c \in Calls : Calling(c)' => Older(calls[c].seen, calls[c].req)'
  BY <1>5 DEF Older
<1> QED
  BY <1>6, <1>7 DEF Remembered

(* The same for several receipts, each with what is remembered of it.       *)
LEMMA SaveAllIs ==
    ASSUME stored \in [Requests -> Receipts], Remembered,
           NEW S \in SUBSET Requests, NEW status \in [Requests -> Open \cup Over],
           stored' = [r \in Requests |->
                         IF r \in S THEN Persisted(r, records[r], status[r], FALSE) ELSE stored[r]]
    PROVE  /\ stored' \in [Requests -> Receipts]
           /\ Grown
           /\ \A r \in Requests \ S : stored'[r] = stored[r]
           /\ \A r \in S : \/ Wrote(r, records[r], status[r], FALSE)
                           \/ /\ stored'[r] = stored[r] /\ stored[r] # records[r]
                              /\ stored[r].status # "none"
<1>1. \A r \in Requests : WellFormed(stored[r]) /\ Older(records[r], r)
  BY DEF Remembered
<1>2. ASSUME NEW r \in Requests
      PROVE  LET p == Persisted(r, records[r], status[r], FALSE) IN
             /\ p \in Receipts /\ WellFormed(p) /\ p.revision > records[r].revision
             /\ \/ stored[r] = records[r] /\ p.status = status[r] /\ p.retryable = FALSE
                \/ stored[r] # records[r] /\ stored[r].status # "none" /\ p = stored[r]
  <2>1. status[r] \in Open \cup Over
    OBVIOUS
  <2> QED
    BY <1>1, <2>1, PersistedIs
<1> DEFINE p(r) == Persisted(r, records[r], status[r], FALSE)
<1>3. \A r \in Requests : stored'[r] = IF r \in S THEN p(r) ELSE stored[r]
  OBVIOUS
<1>4. \A r \in Requests : /\ p(r) \in Receipts /\ WellFormed(p(r))
                          /\ p(r).revision > records[r].revision
                          /\ \/ /\ stored[r] = records[r] /\ p(r).status = status[r]
                                /\ p(r).retryable = FALSE
                             \/ /\ stored[r] # records[r] /\ stored[r].status # "none"
                                /\ p(r) = stored[r]
  BY <1>2
<1>5. stored' = [r \in Requests |-> IF r \in S THEN p(r) ELSE stored[r]]
  OBVIOUS
<1> HIDE DEF p
<1>6. stored' \in [Requests -> Receipts]
  BY <1>4, <1>5
<1>7. Grown
  <2> SUFFICES ASSUME NEW r \in Requests
               PROVE  Newer(r)
    BY DEF Grown
  <2>1. CASE r \in S
    BY <1>1, <1>3, <1>4, <2>1 DEF Newer
  <2>2. CASE r \notin S
    BY <1>1, <1>3, <2>2 DEF Newer
  <2> QED
    BY <2>1, <2>2
<1>8. \A r \in Requests \ S : stored'[r] = stored[r]
  BY <1>3
<1>9. \A r \in S : \/ Wrote(r, records[r], status[r], FALSE)
                   \/ /\ stored'[r] = stored[r] /\ stored[r] # records[r]
                      /\ stored[r].status # "none"
  BY <1>3, <1>4 DEF Wrote
<1> QED
  BY <1>6, <1>7, <1>8, <1>9
-----------------------------------------------------------------------------
(* What a step leaves alone.                                                *)

(* A request whose receipts stay and that is moved nowhere.                 *)
Untouched(r) ==
    /\ stored'[r] = stored[r] /\ records'[r] = records[r] /\ given'[r] = given[r]
    /\ InQueue(r)' => InQueue(r)
    /\ InBatch(r)' => InBatch(r) /\ (run' \in {"prompting", "turn"} => run' = run)
    /\ OnWorker(r)' => OnWorker(r) /\ worker' = worker

(* The run goes on or ends, with nothing that pends unless something failed. *)
Onward ==
    /\ mode' = mode
    /\ Live' => Live
    /\ run' = "starting" => run = "starting"
    /\ ~Overlapped' => ~Overlapped
    /\ faults' = 0 => faults = 0
EndsWith(r) == run' = "gone" /\ faults' = 0 => run = "gone" \/ ~Pends(stored'[r])

(* Of such a request everything stays true.                                 *)
LEMMA UntouchedKeeps ==
    ASSUME NEW r \in Requests, Untouched(r), Onward, EndsWith(r), Right(r)
    PROVE  Right(r)'
<1>1. /\ Unstarted(r) /\ Queued(r) /\ OnItsWay(r) /\ Prompted(r) /\ Unsents(r) /\ Behind(r)
      /\ NotGiven(r) /\ Truthful(r) /\ Orderly(r) /\ Tracked(r)
  BY DEF Right
<1>2. Unstarted(r)' /\ Queued(r)' /\ Truthful(r)'
  BY <1>1 DEF Unstarted, Queued, Truthful, Untouched, Onward
<1>3. OnItsWay(r)'
  BY <1>1 DEF OnItsWay, Untouched
<1>4. Prompted(r)'
  BY <1>1 DEF Prompted, Untouched
<1>5. Unsents(r)'
  BY <1>1 DEF Unsents, Unsent, Untouched, Onward
<1>6. Behind(r)'
  BY <1>1 DEF Behind, Unsent, Untouched, Onward
<1>7. NotGiven(r)'
  BY <1>1 DEF NotGiven, Untouched, Onward
<1>8. Orderly(r)'
  BY <1>1 DEF Orderly, Untouched, Onward
<1>9. Tracked(r)'
  BY <1>1 DEF Tracked, Pends, Untouched, Onward, EndsWith
<1> QED
  BY <1>2, <1>3, <1>4, <1>5, <1>6, <1>7, <1>8, <1>9 DEF Right

(* A call that makes no step.                                               *)
LEMMA CallStays ==
    ASSUME NEW c \in Calls, Attends(c), calls'[c] = calls[c],
           run' = "starting" => run = "starting",
           run' = "gone" /\ run # "gone" => closed' \/ run = "starting",
           closed => closed'
    PROVE  Attends(c)'
BY DEF Attends, Calling, Pends

(* Nobody is in submit while nobody, or the worker, holds the lock.         *)
LEMMA NoneDecides ==
    ASSUME TypeOK, Locked, holder \notin Calls, NEW c \in Calls
    PROVE  calls[c].at # "decide"
BY DEF Locked

(* The worker starts to run, or goes on.                                    *)
WorkerGoes ==
    \/ worker' = worker
    \/ /\ worker.at = "none" /\ worker' \in Workers /\ worker'.at = "idle" /\ ~worker'.cancelled
       /\ mode = "native" /\ ~closed

(* _start_worker starts a worker of a harness that takes instructions       *)
(* during the turn, as long as the run accepts them.                        *)
LEMMA StartedIs ==
    ASSUME TypeOK, NEW q, NEW native \in BOOLEAN, worker' = Started(q, native)
    PROVE  WorkerGoes
<1>1. [NoWorker EXCEPT !.at = "idle"] \in Workers
  BY NewIsReceipt DEF NoWorker, Workers
<1>2. [NoWorker EXCEPT !.at = "idle"].at = "idle" /\ ~[NoWorker EXCEPT !.at = "idle"].cancelled
  BY DEF NoWorker
<1> QED
  BY <1>1, <1>2 DEF Started, WorkerGoes
-----------------------------------------------------------------------------
(* The run starts, turns, stops, or does not start.                         *)
RunMoves == Attach \/ NeverAttached \/ BindTurn \/ TurnDone \/ TurnOver \/ Cancel

(* What such a step of the run changes.                                     *)
LEMMA RunMovesIs ==
    ASSUME TypeOK, RunMoves
    PROVE  /\ UNCHANGED <<mode, stored, records, queue, batch, holder, calls, given, faults>>
           /\ WorkerGoes
           /\ closed' \in BOOLEAN /\ ready' \in BOOLEAN
           /\ closed => closed'
           /\ \/ run = "starting" /\ run' = "attached" /\ closed' = closed /\ worker' = worker
              \/ run = "starting" /\ run' = "gone" /\ closed' = closed /\ worker' = worker
              \/ run = "attached" /\ run' = "turn" /\ closed' = closed
              \/ run = "turn" /\ run' = "boundary" /\ closed' = closed /\ mode = "boundary"
                 /\ worker' = worker
              \/ run \notin {"starting", "gone"} /\ run' \in {"closing", "cancelled"} /\ closed'
                 /\ worker' = worker
<1>1. closed \in BOOLEAN /\ ready \in BOOLEAN
  BY DEF TypeOK
<1>2. CASE Attach
  BY <1>1, <1>2 DEF Attach, memory, WorkerGoes
<1>3. CASE NeverAttached
  BY <1>1, <1>3 DEF NeverAttached, memory, WorkerGoes
<1>4. CASE BindTurn
  <2>1. worker' = Started(queue, TRUE)
    BY <1>4 DEF BindTurn
  <2>2. WorkerGoes
    BY <2>1, StartedIs
  <2> QED
    BY <1>1, <1>4, <2>2 DEF BindTurn
<1>5. CASE TurnDone
  BY <1>1, <1>5 DEF TurnDone, memory, WorkerGoes
<1>6. CASE TurnOver
  BY <1>1, <1>6 DEF TurnOver, StopAccepting, WorkerGoes
<1>7. CASE Cancel
  BY <1>1, <1>7 DEF Cancel, StopAccepting, WorkerGoes
<1> QED
  BY <1>2, <1>3, <1>4, <1>5, <1>6, <1>7 DEF RunMoves

(* They keep the invariant: no receipt is written and nothing is moved.     *)
LEMMA RunMovesKeep ==
    ASSUME IInv, RunMoves
    PROVE  IInv'
<1>1. /\ TypeOK /\ Stages /\ Locked /\ Remembered /\ Alone /\ Once
      /\ \A c \in Calls : Attends(c) /\ Decides(c)
      /\ \A r \in Requests : Right(r)
  BY DEF IInv
<1>2. UNCHANGED <<mode, stored, records, queue, batch, holder, calls, given, faults>>
  BY <1>1, RunMovesIs
<1>3. WorkerGoes /\ (closed => closed') /\ closed' \in BOOLEAN /\ ready' \in BOOLEAN
  BY <1>1, RunMovesIs
<1>4. \/ run = "starting" /\ run' = "attached" /\ closed' = closed /\ worker' = worker
      \/ run = "starting" /\ run' = "gone" /\ closed' = closed /\ worker' = worker
      \/ run = "attached" /\ run' = "turn" /\ closed' = closed
      \/ run = "turn" /\ run' = "boundary" /\ closed' = closed /\ mode = "boundary"
         /\ worker' = worker
      \/ run \notin {"starting", "gone"} /\ run' \in {"closing", "cancelled"} /\ closed'
         /\ worker' = worker
  BY <1>1, RunMovesIs
<1>5. TypeOK'
  <2>1. worker' \in Workers /\ (worker.at = "check" => worker'.at = "check")
    BY <1>1, <1>3 DEF WorkerGoes, TypeOK
  <2>2. run' \in {"starting", "attached", "turn", "boundary", "prompting",
                  "closing", "cancelled", "gone"}
    BY <1>4
  <2> QED
    BY <1>1, <1>2, <1>3, <2>1, <2>2 DEF TypeOK
<1>6. Stages'
  BY <1>1, <1>2, <1>3, <1>4 DEF Stages, WorkerGoes, Live
<1>7. Locked'
  BY <1>1, <1>2, <1>3 DEF Locked, WorkerGoes
<1>8. Remembered' /\ Once'
  BY <1>1, <1>2 DEF Remembered, Older, Calling, Once
<1>9. Alone'
  BY <1>1, <1>2, <1>4 DEF Alone, Overlapped, Calling, Pends
<1>10. \A c \in Calls : Attends(c)'
  BY <1>1, <1>2, <1>3, <1>4, CallStays
<1>11. Onward
  BY <1>2, <1>4 DEF Onward, Live, Overlapped
<1>12. \A c \in Calls : Decides(c)'
  BY <1>1, <1>2, <1>11 DEF Decides, Unsent, Onward
<1>13. ASSUME NEW r \in Requests
       PROVE  Right(r)'
  <2>1. Right(r)
    BY <1>1
  <2>2. EndsWith(r)
    BY <1>2, <1>4, <2>1 DEF EndsWith, Right, Unstarted
  <2>3. InBatch(r)' => InBatch(r) /\ (run' \in {"prompting", "turn"} => run' = run)
    BY <1>1, <1>2, <1>4 DEF InBatch, Stages
  <2>4. OnWorker(r)' => OnWorker(r) /\ worker' = worker
    BY <1>3 DEF OnWorker, WorkerGoes
  <2>5. Untouched(r)
    BY <1>2, <2>3, <2>4 DEF Untouched, InQueue
  <2> QED
    BY <1>11, <2>1, <2>2, <2>5, UntouchedKeeps
<1> QED
  BY <1>5, <1>6, <1>7, <1>8, <1>9, <1>10, <1>12, <1>13 DEF IInv
-----------------------------------------------------------------------------
(* A call asks, looks, is let in or waits for its turn.                     *)
Accepted(c) ==
    /\ calls[c].at = "admit" /\ calls[c].attached /\ run \notin {"cancelled", "gone"}
    /\ calls' = [calls EXCEPT ![c].at = "submit"]
    /\ UNCHANGED <<mode, stored, memory, run, given, faults>>
Refused(c) ==
    /\ calls[c].at = "admit"
    /\ calls' = [calls EXCEPT ![c].at = "done"]
    /\ IF Known(calls[c].seen)
       THEN UNCHANGED stored
       ELSE Persist(calls[c].req, NewReceipt, "failed", FALSE)
    /\ UNCHANGED <<mode, memory, run, given, faults>>

(* A call is let in or refused, whatever a harness switch does.             *)
LEMMA AdmitIs ==
    ASSUME NEW c \in Calls, Admit(c)
    PROVE  Accepted(c) \/ Refused(c)
BY DEF Admit, Accepts, Accepted, Refused

CallMoves(c) ==
    \/ \E r \in Requests, retry \in BOOLEAN : Ask(c, r, retry)
    \/ Read(c) \/ Accepted(c) \/ Lock(c)

(* What such a step of a call changes: what the call knows, and the lock.   *)
LEMMA CallMovesIs ==
    ASSUME TypeOK, Stages, Remembered, NEW c \in Calls, Attends(c), CallMoves(c)
    PROVE  /\ UNCHANGED <<mode, stored, records, queue, batch, closed, ready, worker, run,
                          given, faults>>
           /\ calls' \in [Calls -> CallStates]
           /\ \A d \in Calls \ {c} : calls'[d] = calls[d]
           /\ \/ /\ holder' = holder /\ calls[c].at = "new" /\ ~calls[c].again
                 /\ calls'[c].at = "read" /\ calls'[c].req \in Requests
                 /\ calls'[c].attached = Attached /\ calls'[c].again = Busy(calls'[c].req)
                 /\ calls'[c].seen = NewReceipt
              \/ /\ holder' = holder /\ calls[c].at = "read"
                 /\ calls'[c].at \in {"settle", "admit"}
                 /\ calls'[c].at = "settle" => ~calls[c].attached /\ Pends(stored[calls[c].req])
                 /\ calls'[c].attached = calls[c].attached /\ calls'[c].again = calls[c].again
                 /\ calls'[c].req = calls[c].req /\ calls'[c].seen = stored[calls[c].req]
              \/ /\ holder' = holder /\ calls[c].at = "admit" /\ calls[c].attached
                 /\ run # "gone" /\ calls'[c].at = "submit"
                 /\ calls'[c].attached = calls[c].attached /\ calls'[c].again = calls[c].again
                 /\ calls'[c].req = calls[c].req /\ calls'[c].seen = calls[c].seen
              \/ /\ holder = "free" /\ holder' = c /\ calls[c].at = "submit"
                 /\ calls'[c].at = "decide"
                 /\ calls'[c].attached = calls[c].attached /\ calls'[c].again = calls[c].again
                 /\ calls'[c].req = calls[c].req
                 /\ LET r == calls[c].req IN
                    calls'[c].seen = IF records[r].status # "none" THEN records[r] ELSE stored[r]
<1>1. calls \in [Calls -> CallStates] /\ stored \in [Requests -> Receipts]
      /\ records \in [Requests -> Receipts] /\ calls[c] \in CallStates
  BY DEF TypeOK
<1>2. CASE \E r \in Requests, retry \in BOOLEAN : Ask(c, r, retry)
  <2>1. PICK r \in Requests, retry \in BOOLEAN : Ask(c, r, retry)
    BY <1>2
  <2> DEFINE asked == [NewCall EXCEPT !.at = "read", !.req = r, !.retry = retry,
                                      !.attached = Attached, !.again = Busy(r)]
  <2>2. Attached \in BOOLEAN /\ Busy(r) \in BOOLEAN
    BY DEF Attached, Busy
  <2>3. asked \in CallStates
    BY <2>2, NewIsReceipt DEF CallStates, NewCall
  <2>4. asked.at = "read" /\ asked.req = r /\ asked.attached = Attached
        /\ asked.again = Busy(r) /\ asked.seen = NewReceipt
    BY DEF NewCall
  <2>5. calls' = [calls EXCEPT ![c] = asked] /\ calls[c].at = "new"
    BY <2>1 DEF Ask
  <2> HIDE DEF asked
  <2>6. calls'[c] = asked /\ calls' \in [Calls -> CallStates]
        /\ \A d \in Calls \ {c} : calls'[d] = calls[d]
    BY <1>1, <2>3, <2>5
  <2> QED
    BY <2>1, <2>4, <2>5, <2>6 DEF Ask, memory, Attends
<1>3. CASE Read(c)
  <2>1. calls[c].at = "read" /\ calls[c].req \in Requests
    BY <1>3 DEF Read, Attends, Calling
  <2>2. stored[calls[c].req] \in Receipts
    BY <1>1, <2>1
  <2> DEFINE seen == stored[calls[c].req]
             at == IF ~calls[c].attached /\ (seen.status \in Open \/ seen.retryable)
                   THEN "settle" ELSE "admit"
  <2>3. calls' = [calls EXCEPT ![c] = [@ EXCEPT !.seen = seen, !.at = at]]
    BY <1>3 DEF Read
  <2>4. at \in {"settle", "admit"} /\ (at = "settle" => ~calls[c].attached /\ Pends(seen))
    BY DEF Pends
  <2> HIDE DEF seen, at
  <2>5. seen \in Receipts
    BY <2>2 DEF seen
  <2>6. /\ calls' \in [Calls -> CallStates]
        /\ \A d \in Calls \ {c} : calls'[d] = calls[d]
    BY <1>1, <2>3, <2>4, <2>5 DEF CallStates
  <2>7. /\ calls'[c].at = at /\ calls'[c].seen = seen /\ calls'[c].req = calls[c].req
        /\ calls'[c].attached = calls[c].attached /\ calls'[c].again = calls[c].again
    BY <1>1, <2>3 DEF CallStates
  <2> QED
    BY <1>3, <2>1, <2>4, <2>6, <2>7 DEF Read, memory, seen
<1>4. CASE Accepted(c)
  <2>1. calls' = [calls EXCEPT ![c].at = "submit"]
    BY <1>4 DEF Accepted
  <2>2. /\ calls' \in [Calls -> CallStates]
        /\ \A d \in Calls \ {c} : calls'[d] = calls[d]
    BY <1>1, <2>1 DEF CallStates
  <2>3. /\ calls'[c].at = "submit" /\ calls'[c].seen = calls[c].seen
        /\ calls'[c].req = calls[c].req
        /\ calls'[c].attached = calls[c].attached /\ calls'[c].again = calls[c].again
    BY <1>1, <2>1 DEF CallStates
  <2> QED
    BY <1>4, <2>2, <2>3 DEF Accepted, memory
<1>5. CASE Lock(c)
  <2>1. calls[c].at = "submit" /\ calls[c].req \in Requests
    BY <1>5 DEF Lock, Attends, Calling
  <2>2. stored[calls[c].req] \in Receipts /\ records[calls[c].req] \in Receipts
    BY <1>1, <2>1
  <2> DEFINE seen == IF Known(records[calls[c].req]) THEN records[calls[c].req]
                     ELSE stored[calls[c].req]
  <2>3. calls' = [calls EXCEPT ![c] = [@ EXCEPT !.at = "decide", !.seen = seen]]
    BY <1>5 DEF Lock
  <2>4. seen = IF records[calls[c].req].status # "none" THEN records[calls[c].req]
               ELSE stored[calls[c].req]
    BY <2>1, <2>2 DEF Known, Remembered, Older, WellFormed, Receipts
  <2>5. seen \in Receipts
    BY <2>2
  <2> HIDE DEF seen
  <2>6. /\ calls' \in [Calls -> CallStates]
        /\ \A d \in Calls \ {c} : calls'[d] = calls[d]
    BY <1>1, <2>3, <2>5 DEF CallStates
  <2>7. /\ calls'[c].at = "decide" /\ calls'[c].seen = seen /\ calls'[c].req = calls[c].req
        /\ calls'[c].attached = calls[c].attached /\ calls'[c].again = calls[c].again
    BY <1>1, <2>3 DEF CallStates
  <2> QED
    BY <1>5, <2>1, <2>4, <2>6, <2>7 DEF Lock
<1> QED
  BY <1>2, <1>3, <1>4, <1>5 DEF CallMoves

(* They keep the invariant: a call that asks while none is under way for    *)
(* its request finds none, and one that takes the lock knows the newest     *)
(* receipt.                                                                 *)
LEMMA CallMovesKeep ==
    ASSUME IInv, NEW c \in Calls, CallMoves(c)
    PROVE  IInv'
<1>1. /\ TypeOK /\ Stages /\ Locked /\ Remembered /\ Alone /\ Once
      /\ \A d \in Calls : Attends(d) /\ Decides(d)
      /\ \A r \in Requests : Right(r)
  BY DEF IInv
<1>2. /\ UNCHANGED <<mode, stored, records, queue, batch, closed, ready, worker, run,
                     given, faults>>
      /\ calls' \in [Calls -> CallStates]
      /\ \A d \in Calls \ {c} : calls'[d] = calls[d]
  BY <1>1, CallMovesIs
<1> DEFINE Asks == /\ holder' = holder /\ calls[c].at = "new" /\ ~calls[c].again
                   /\ calls'[c].at = "read" /\ calls'[c].req \in Requests
                   /\ calls'[c].attached = Attached /\ calls'[c].again = Busy(calls'[c].req)
                   /\ calls'[c].seen = NewReceipt
           Reads == /\ holder' = holder /\ calls[c].at = "read"
                    /\ calls'[c].at \in {"settle", "admit"}
                    /\ calls'[c].at = "settle" => ~calls[c].attached /\ Pends(stored[calls[c].req])
                    /\ calls'[c].attached = calls[c].attached /\ calls'[c].again = calls[c].again
                    /\ calls'[c].req = calls[c].req /\ calls'[c].seen = stored[calls[c].req]
           Enters == /\ holder' = holder /\ calls[c].at = "admit" /\ calls[c].attached
                     /\ run # "gone" /\ calls'[c].at = "submit"
                     /\ calls'[c].attached = calls[c].attached /\ calls'[c].again = calls[c].again
                     /\ calls'[c].req = calls[c].req /\ calls'[c].seen = calls[c].seen
           Locks == /\ holder = "free" /\ holder' = c /\ calls[c].at = "submit"
                    /\ calls'[c].at = "decide"
                    /\ calls'[c].attached = calls[c].attached /\ calls'[c].again = calls[c].again
                    /\ calls'[c].req = calls[c].req
                    /\ LET r == calls[c].req IN
                       calls'[c].seen = IF records[r].status # "none" THEN records[r] ELSE stored[r]
<1>3. Asks \/ Reads \/ Enters \/ Locks
  BY <1>1, CallMovesIs
<1>4. /\ "free" \notin Calls /\ "worker" \notin Calls
      /\ calls[c].at \notin {"decide", "done"}
      /\ \A d \in Calls : calls[d].at = "decide" <=> holder = d
  BY <1>1, <1>3, SteeringAssumption DEF Locked
<1>5. TypeOK'
  <2>1. holder' \in Calls \cup {"free", "worker"}
    BY <1>1, <1>3 DEF TypeOK
  <2>2. holder' \in Calls => calls'[holder'].at = "decide"
    BY <1>2, <1>3, <1>4
  <2>3. holder' = "worker" => worker.at = "check"
    BY <1>1, <1>3, <1>4 DEF TypeOK
  <2> QED
    BY <1>1, <1>2, <2>1, <2>2, <2>3 DEF TypeOK
<1>6. Stages' /\ Once'
  BY <1>1, <1>2 DEF Stages, Live, Once
<1>7. Locked'
  <2>1. \A d \in Calls : calls'[d].at = "decide" <=> holder' = d
    BY <1>2, <1>3, <1>4
  <2>2. worker'.at = "check" <=> holder' = "worker"
    BY <1>1, <1>2, <1>3, <1>4 DEF Locked
  <2> QED
    BY <2>1, <2>2 DEF Locked
<1>8. Calling(c)' /\ calls'[c].req \in Requests
      /\ (calls[c].at # "new" => Calling(c) /\ calls'[c].req = calls[c].req
                                 /\ calls'[c].attached = calls[c].attached)
  BY <1>1, <1>3, <1>4 DEF Calling, Attends
<1>9. Remembered'
  <2>1. Grown
    BY <1>1, <1>2 DEF Grown, Newer, Remembered
  <2>2. \/ Calling(c) /\ calls'[c].req = calls[c].req /\ calls'[c].seen = calls[c].seen
        \/ calls'[c].req \in Requests
           /\ calls'[c].seen \in {NewReceipt, stored'[calls'[c].req], records'[calls'[c].req]}
    BY <1>2, <1>3, <1>8
  <2>3. \A d \in Calls : Calling(d)' =>
               \/ Calling(d) /\ calls'[d].req = calls[d].req /\ calls'[d].seen = calls[d].seen
               \/ calls'[d].req \in Requests
                  /\ calls'[d].seen \in {NewReceipt, stored'[calls'[d].req],
                                       records'[calls'[d].req]}
    BY <1>2, <2>2 DEF Calling
  <2> QED
    BY <1>1, <1>2, <2>1, <2>3, RememberedStays
<1>10. ~Overlapped' => ~Overlapped /\ ~calls'[c].again
  BY <1>2, <1>3 DEF Overlapped
<1>11. Alone'
  <2> SUFFICES ASSUME ~Overlapped'
               PROVE  /\ \A d, e \in Calls :
                            Calling(d)' /\ Calling(e)' /\ calls'[d].req = calls'[e].req => d = e
                      /\ \A d \in Calls : Calling(d)' /\ ~calls'[d].attached /\ run # "gone" =>
                            /\ calls'[d].at # "settle"
                            /\ records[calls'[d].req].status = "none"
                            /\ ~Pends(stored[calls'[d].req])
    BY <1>2 DEF Alone, Pends
  <2>1. ~Overlapped /\ ~calls'[c].again
    BY <1>10
  <2>2. \A d \in Calls \ {c} : (Calling(d)' <=> Calling(d)) /\ calls'[d] = calls[d]
    BY <1>2 DEF Calling
  <2>3. \A d \in Calls \ {c} : ~(Calling(d) /\ calls[d].req = calls'[c].req)
    <3>1. CASE Asks
      BY <2>1, <3>1 DEF Busy, Calling
    <3>2. CASE ~Asks
      BY <1>1, <1>3, <1>8, <2>1, <3>2 DEF Alone
    <3> QED
      BY <3>1, <3>2
  <2>4. \A d, e \in Calls : Calling(d)' /\ Calling(e)' /\ calls'[d].req = calls'[e].req => d = e
    BY <1>1, <2>1, <2>2, <2>3 DEF Alone
  <2>5. ~calls'[c].attached /\ run # "gone" =>
                            /\ calls'[c].at # "settle"
                            /\ records[calls'[c].req].status = "none"
                            /\ ~Pends(stored[calls'[c].req])
    <3>1. CASE Asks
      <4> SUFFICES ASSUME ~calls'[c].attached, run # "gone"
                   PROVE  /\ records[calls'[c].req].status = "none"
                          /\ ~Pends(stored[calls'[c].req])
        BY <3>1
      <4>1. run = "starting"
        BY <1>1, <3>1 DEF Attached, TypeOK
      <4> QED
        BY <1>1, <1>8, <4>1 DEF Right, Unstarted
    <3>2. CASE ~Asks
      <4>1. Calling(c) /\ calls'[c].req = calls[c].req /\ calls'[c].attached = calls[c].attached
        BY <1>3, <1>8, <3>2
      <4>2. ~calls[c].attached /\ run # "gone" =>
                /\ records[calls[c].req].status = "none"
                /\ ~Pends(stored[calls[c].req])
        BY <1>1, <2>1, <4>1 DEF Alone
      <4>3. calls'[c].at = "settle" => Pends(stored[calls[c].req])
        BY <1>3, <3>2
      <4> QED
        BY <4>1, <4>2, <4>3
    <3> QED
      BY <3>1, <3>2
  <2>6. \A d \in Calls \ {c} : Calling(d)' /\ ~calls'[d].attached /\ run # "gone" =>
                            /\ calls'[d].at # "settle"
                            /\ records[calls'[d].req].status = "none"
                            /\ ~Pends(stored[calls'[d].req])
    BY <1>1, <2>1, <2>2 DEF Alone
  <2> QED
    BY <2>4, <2>5, <2>6
<1>12. \A d \in Calls : Attends(d)'
  <2>1. \A d \in Calls \ {c} : Attends(d)'
    BY <1>1, <1>2, CallStays
  <2>2. Attends(c)'
    BY <1>1, <1>2, <1>3, <1>8 DEF Attends, Attached, Pends, Calling
  <2> QED
    BY <2>1, <2>2
<1>13. \A d \in Calls : Decides(d)'
  <2>1. \A d \in Calls \ {c} : Decides(d)'
    BY <1>1, <1>2, <1>10 DEF Decides, Unsent, Live
  <2>2. Decides(c)'
    BY <1>2, <1>3, <1>10 DEF Decides, Unsent, Live
  <2> QED
    BY <2>1, <2>2
<1>14. Onward
  BY <1>2, <1>10 DEF Onward, Live
<1>15. \A r \in Requests : Right(r)'
  <2> SUFFICES ASSUME NEW r \in Requests
               PROVE  Right(r)'
    OBVIOUS
  <2>1. EndsWith(r) /\ Untouched(r)
    BY <1>2 DEF EndsWith, Untouched, InQueue, InBatch, OnWorker
  <2> QED
    BY <1>1, <1>14, <2>1, UntouchedKeeps
<1> QED
  BY <1>5, <1>6, <1>7, <1>9, <1>11, <1>12, <1>13, <1>15 DEF IInv
-----------------------------------------------------------------------------
(* Receipts written without the lock: by a call that found no run, by one   *)
(* that is not let in, and by recovery.                                     *)
Ended(r) ==
    /\ Pends(stored[r])
    /\ stored'[r].status = SettledStatus(stored[r]) /\ ~stored'[r].retryable
Declined(r) ==
    /\ stored[r].status = "none"
    /\ stored'[r].status = "failed" /\ ~stored'[r].retryable
Without(c, r) ==
    \/ calls' = calls
    \/ /\ Calling(c) /\ calls[c].req = r /\ calls[c].at \in {"settle", "admit"}
       /\ calls'[c].at \in {"admit", "done"} /\ calls'[c].req = r
       /\ calls'[c].seen = calls[c].seen /\ calls'[c].attached = calls[c].attached
       /\ calls'[c].again = calls[c].again
       /\ \A d \in Calls \ {c} : calls'[d] = calls[d]

Outside == \/ \E c \in Calls : Settle(c) \/ Refused(c)
           \/ \E r \in Requests : Recover(r)

(* What such a write changes: a receipt that pends is ended, or an unknown  *)
(* one declined.                                                            *)
LEMMA OutsideIs ==
    ASSUME IInv, Outside
    PROVE  /\ UNCHANGED <<mode, records, queue, batch, closed, ready, holder, worker, run,
                          given, faults>>
           /\ stored' \in [Requests -> Receipts] /\ Grown
           /\ calls' \in [Calls -> CallStates]
           /\ \E r \in Requests :
                /\ \A q \in Requests \ {r} : stored'[q] = stored[q]
                /\ calls' = calls \/ \E c \in Calls : Without(c, r)
                /\ \/ stored'[r] = stored[r]
                   \/ Ended(r) /\ (Overlapped \/ run = "gone")
                   \/ /\ Declined(r)
                      /\ ~Overlapped => \A d \in Calls : calls[d].at = "decide" => calls[d].req # r
<1>1. /\ TypeOK /\ Remembered /\ Alone
      /\ \A c \in Calls : Attends(c)
  BY DEF IInv
<1>2. /\ stored \in [Requests -> Receipts] /\ calls \in [Calls -> CallStates]
  BY <1>1 DEF TypeOK
<1>3. ASSUME NEW s, WellFormed(s), Pends(s)
      PROVE  SettledStatus(s) \in Open \cup Over
  <2> CASE s.status = "sending"
    BY DEF SettledStatus, Over
  <2> CASE s.status = "queued"
    BY DEF SettledStatus, Over
  <2> CASE s.retryable /\ s.status \notin Open
    BY <1>3 DEF SettledStatus, Over, Open, WellFormed
  <2> QED
    BY <1>3 DEF Pends, Open
<1>4. ASSUME NEW c \in Calls, Settle(c)
      PROVE  /\ UNCHANGED <<mode, records, queue, batch, closed, ready, holder, worker, run,
                            given, faults>>
             /\ stored' \in [Requests -> Receipts] /\ Grown
             /\ calls' \in [Calls -> CallStates]
             /\ Without(c, calls[c].req) /\ calls[c].req \in Requests
             /\ \A q \in Requests \ {calls[c].req} : stored'[q] = stored[q]
             /\ \/ stored'[calls[c].req] = stored[calls[c].req]
                \/ Ended(calls[c].req) /\ (Overlapped \/ run = "gone")
  <2> DEFINE r == calls[c].req
             seen == calls[c].seen
  <2>1. Calling(c) /\ r \in Requests /\ calls[c].at = "settle" /\ Pends(seen) /\ ~calls[c].attached
    BY <1>1, <1>4 DEF Settle, Calling, Attends
  <2>2. Older(seen, r) /\ seen \in Receipts
    BY <1>1, <1>2, <2>1 DEF Remembered, CallStates
  <2>3. Persist(r, seen, SettledStatus(seen), FALSE)
    BY <1>4 DEF Settle
  <2>4. SettledStatus(seen) \in Open \cup Over
    BY <1>3, <2>1, <2>2 DEF Older
  <2>5. /\ stored' \in [Requests -> Receipts]
        /\ Grown
        /\ \A q \in Requests \ {r} : stored'[q] = stored[q]
        /\ \/ Wrote(r, seen, SettledStatus(seen), FALSE)
           \/ stored'[r] = stored[r]
    BY <1>1, <1>2, <2>1, <2>2, <2>3, <2>4, PersistIs
  <2>6. stored'[r] = stored[r] \/ Ended(r)
    BY <2>1, <2>5 DEF Wrote, Ended
  <2>7. Overlapped \/ run = "gone"
    BY <1>1, <2>1 DEF Alone
  <2>8. calls' = [calls EXCEPT ![c].at = "admit"]
    BY <1>4 DEF Settle
  <2>9. calls' \in [Calls -> CallStates] /\ \A d \in Calls \ {c} : calls'[d] = calls[d]
    BY <1>2, <2>8 DEF CallStates
  <2>10. /\ calls'[c].at = "admit" /\ calls'[c].req = r /\ calls'[c].seen = seen
         /\ calls'[c].attached = calls[c].attached /\ calls'[c].again = calls[c].again
    BY <1>2, <2>8 DEF CallStates
  <2>11. Without(c, r)
    BY <2>1, <2>9, <2>10 DEF Without
  <2>12. UNCHANGED <<mode, records, queue, batch, closed, ready, holder, worker, run,
                     given, faults>>
    BY <1>4 DEF Settle, memory
  <2> QED
    BY <2>1, <2>5, <2>6, <2>7, <2>9, <2>11, <2>12
<1>5. ASSUME NEW c \in Calls, Refused(c)
      PROVE  /\ UNCHANGED <<mode, records, queue, batch, closed, ready, holder, worker, run,
                            given, faults>>
             /\ stored' \in [Requests -> Receipts] /\ Grown
             /\ calls' \in [Calls -> CallStates]
             /\ Without(c, calls[c].req) /\ calls[c].req \in Requests
             /\ \A q \in Requests \ {calls[c].req} : stored'[q] = stored[q]
             /\ \/ stored'[calls[c].req] = stored[calls[c].req]
                \/ /\ Declined(calls[c].req)
                   /\ ~Overlapped => \A d \in Calls : calls[d].at = "decide" =>
                                        calls[d].req # calls[c].req
  <2> DEFINE r == calls[c].req
  <2>1. Calling(c) /\ r \in Requests /\ calls[c].at = "admit"
    BY <1>1, <1>5 DEF Refused, Calling, Attends
  <2>2. WellFormed(stored[r]) /\ NewReceipt.revision = -1 /\ NewReceipt.status = "none"
    BY <1>1, <2>1 DEF Remembered, NewReceipt
  <2>3. Older(NewReceipt, r)
    BY <1>2, <2>2, NewIsReceipt DEF Older, WellFormed, Receipts
  <2>4. /\ Without(c, r) /\ calls' \in [Calls -> CallStates]
         /\ UNCHANGED <<mode, records, queue, batch, closed, ready, holder, worker, run,
                        given, faults>>
    <3>1. calls' = [calls EXCEPT ![c].at = "done"]
      BY <1>5 DEF Refused
    <3>2. calls' \in [Calls -> CallStates] /\ \A d \in Calls \ {c} : calls'[d] = calls[d]
      BY <1>2, <3>1 DEF CallStates
    <3>3. /\ calls'[c].at = "done" /\ calls'[c].req = r /\ calls'[c].seen = calls[c].seen
          /\ calls'[c].attached = calls[c].attached /\ calls'[c].again = calls[c].again
      BY <1>2, <3>1 DEF CallStates
    <3>4. UNCHANGED <<mode, records, queue, batch, closed, ready, holder, worker, run,
                      given, faults>>
      BY <1>5 DEF Refused, memory
    <3> QED
      BY <2>1, <3>2, <3>3, <3>4 DEF Without
  <2>5. CASE Known(calls[c].seen)
    <3>1. stored' = stored
      BY <1>5, <2>5 DEF Refused
    <3>2. Grown
      BY <1>1, <3>1 DEF Grown, Newer, Remembered
    <3> QED
      BY <1>2, <1>5, <2>1, <2>4, <3>1, <3>2
  <2>6. CASE ~Known(calls[c].seen)
    <3>1. Persist(r, NewReceipt, "failed", FALSE)
      BY <1>5, <2>6 DEF Refused
    <3>2. "failed" \in Open \cup Over
      BY DEF Over
    <3>3. /\ stored' \in [Requests -> Receipts]
          /\ Grown
          /\ \A q \in Requests \ {r} : stored'[q] = stored[q]
          /\ \/ Wrote(r, NewReceipt, "failed", FALSE)
             \/ stored'[r] = stored[r]
      BY <1>1, <1>2, <2>1, <2>3, <3>1, <3>2, PersistIs
    <3>4. stored'[r] = stored[r] \/ Declined(r)
      BY <2>2, <3>3 DEF Wrote, Declined
    <3>5. ~Overlapped => \A d \in Calls : calls[d].at = "decide" => calls[d].req # r
      BY <1>1, <2>1 DEF Alone, Calling
    <3> QED
      BY <2>1, <3>3, <3>4, <3>5, <2>4
  <2> QED
    BY <2>5, <2>6
<1>6. ASSUME NEW r \in Requests, Recover(r)
      PROVE  /\ UNCHANGED <<mode, records, queue, batch, closed, ready, holder, worker, run,
                            given, faults>>
             /\ stored' \in [Requests -> Receipts] /\ Grown
             /\ calls' = calls
             /\ \A q \in Requests \ {r} : stored'[q] = stored[q]
             /\ \/ stored'[r] = stored[r]
                \/ Ended(r) /\ (Overlapped \/ run = "gone")
  <2>1. WellFormed(stored[r])
    BY <1>1 DEF Remembered
  <2>2. run = "gone" /\ Pends(stored[r]) /\ Persist(r, stored[r], SettledStatus(stored[r]), FALSE)
    BY <1>6 DEF Recover, Pends
  <2>3. Older(stored[r], r) /\ stored[r] \in Receipts
    BY <1>2, <2>1 DEF Older, WellFormed, Receipts
  <2>4. SettledStatus(stored[r]) \in Open \cup Over
    BY <1>3, <2>2, <2>3 DEF Older
  <2>5. /\ stored' \in [Requests -> Receipts]
        /\ Grown
        /\ \A q \in Requests \ {r} : stored'[q] = stored[q]
        /\ \/ Wrote(r, stored[r], SettledStatus(stored[r]), FALSE)
           \/ stored'[r] = stored[r]
    BY <1>1, <1>2, <2>2, <2>3, <2>4, PersistIs
  <2> QED
    BY <1>6, <2>2, <2>5 DEF Recover, memory, Wrote, Ended
<1>7. CASE \E c \in Calls : Settle(c)
  BY <1>4, <1>7
<1>8. CASE \E c \in Calls : Refused(c)
  BY <1>5, <1>8
<1>9. CASE \E r \in Requests : Recover(r)
  BY <1>2, <1>6, <1>9
<1> QED
  BY <1>7, <1>8, <1>9 DEF Outside

(* They keep the invariant: what is settled behind the run's back is not    *)
(* queued, and is not given unless it is already on its way.                *)
LEMMA OutsideKeeps ==
    ASSUME IInv, Outside
    PROVE  IInv'
<1>1. /\ TypeOK /\ Stages /\ Locked /\ Remembered /\ Alone /\ Once
      /\ \A d \in Calls : Attends(d) /\ Decides(d)
      /\ \A r \in Requests : Right(r)
  BY DEF IInv
<1>2. /\ UNCHANGED <<mode, records, queue, batch, closed, ready, holder, worker, run,
                     given, faults>>
      /\ stored' \in [Requests -> Receipts] /\ Grown
      /\ calls' \in [Calls -> CallStates]
  BY OutsideIs
<1>3. PICK r \in Requests :
        /\ \A q \in Requests \ {r} : stored'[q] = stored[q]
        /\ calls' = calls \/ \E c \in Calls : Without(c, r)
        /\ \/ stored'[r] = stored[r]
           \/ Ended(r) /\ (Overlapped \/ run = "gone")
           \/ /\ Declined(r)
              /\ ~Overlapped => \A d \in Calls : calls[d].at = "decide" => calls[d].req # r
  BY OutsideIs
<1>4. \A d \in Calls :
        \/ calls'[d] = calls[d]
        \/ /\ Calling(d) /\ calls[d].req = r /\ calls[d].at \in {"settle", "admit"}
           /\ calls'[d].at \in {"admit", "done"} /\ calls'[d].req = r
           /\ calls'[d].seen = calls[d].seen /\ calls'[d].attached = calls[d].attached
           /\ calls'[d].again = calls[d].again
  BY <1>3 DEF Without
<1>5. stored'[r] # stored[r] =>
        /\ Pends(stored[r]) \/ stored[r].status = "none"
        /\ stored'[r].status \in {"failed", "cancelled", "uncertain"} /\ ~stored'[r].retryable
        /\ stored'[r].status \in {"failed", "cancelled"} =>
              stored[r].status \in {"none", "queued", "failed"}
        /\ stored'[r].status # "uncertain" => stored[r].status # "sending"
  <2>1. WellFormed(stored[r])
    BY <1>1 DEF Remembered
  <2>2. CASE Ended(r)
    BY <2>1, <2>2 DEF Ended, SettledStatus, Pends, Open, WellFormed
  <2>3. CASE Declined(r)
    BY <2>3 DEF Declined
  <2> QED
    BY <1>3, <2>2, <2>3
<1>6. Declined(r) => records[r].status = "none"
  BY <1>1 DEF Declined, Remembered, Older, WellFormed, Receipts
<1>7. TypeOK'
  <2>1. holder \in Calls => calls'[holder].at = "decide"
    BY <1>1, <1>4 DEF TypeOK
  <2> QED
    BY <1>1, <1>2, <2>1 DEF TypeOK
<1>8. Stages' /\ Once'
  BY <1>1, <1>2 DEF Stages, Live, Once
<1>9. Locked'
  BY <1>1, <1>2, <1>4 DEF Locked
<1>10. Remembered'
  <2>1. \A d \in Calls : Calling(d)' =>
            Calling(d) /\ calls'[d].req = calls[d].req /\ calls'[d].seen = calls[d].seen
    BY <1>4 DEF Calling
  <2> QED
    BY <1>1, <1>2, <2>1, RememberedStays
<1>11. ~Overlapped' <=> ~Overlapped
  BY <1>4 DEF Overlapped
<1>12. Alone'
  <2>1. \A d \in Calls : Calling(d)' => Calling(d) /\ calls'[d].req = calls[d].req
            /\ calls'[d].attached = calls[d].attached
            /\ (calls'[d].at = "settle" => calls[d].at = "settle")
    BY <1>4 DEF Calling
  <2>2. \A q \in Requests : ~Pends(stored[q]) => ~Pends(stored'[q])
    BY <1>3, <1>5 DEF Pends, Open
  <2>3. \A d \in Calls : Calling(d) => calls[d].req \in Requests
    BY <1>1 DEF Attends
  <2> QED
    BY <1>1, <1>2, <1>11, <2>1, <2>2, <2>3 DEF Alone, Pends
<1>13. \A d \in Calls : Attends(d)'
  <2> SUFFICES ASSUME NEW d \in Calls
               PROVE  Attends(d)'
    OBVIOUS
  <2>1. CASE calls'[d] = calls[d]
    BY <1>1, <1>2, <2>1, CallStays
  <2>2. CASE calls'[d] # calls[d]
    BY <1>1, <1>2, <1>4, <2>2 DEF Attends, Calling
  <2> QED
    BY <2>1, <2>2
<1>14. \A d \in Calls : Decides(d)'
  <2> SUFFICES ASSUME NEW d \in Calls, calls'[d].at = "decide"
               PROVE  Decides(d)'
    BY DEF Decides
  <2>1. calls'[d] = calls[d] /\ calls[d].req \in Requests
    BY <1>1, <1>4 DEF Attends, Calling
  <2>2. CASE stored'[calls[d].req] = stored[calls[d].req]
    BY <1>1, <1>2, <1>11, <2>1, <2>2 DEF Decides, Unsent, Live
  <2>3. CASE stored'[calls[d].req] # stored[calls[d].req]
    <3>1. calls[d].req = r
      BY <1>3, <2>1, <2>3
    <3>2. ~Unsent(stored'[r])
      BY <1>5, <2>3, <3>1 DEF Unsent
    <3>3. Overlapped \/ ~Live
      BY <1>3, <2>1, <2>3, <3>1 DEF Live
    <3> QED
      BY <1>1, <1>2, <1>11, <2>1, <3>1, <3>2, <3>3 DEF Decides, Unsent, Live
  <2> QED
    BY <2>2, <2>3
<1>15. Onward
  BY <1>2, <1>11 DEF Onward, Live
<1>16. ASSUME NEW q \in Requests, stored'[q] = stored[q]
       PROVE  Right(q)'
  <2>1. EndsWith(q) /\ Untouched(q)
    BY <1>2, <1>16 DEF EndsWith, Untouched, InQueue, InBatch, OnWorker
  <2> QED
    BY <1>1, <1>15, <2>1, UntouchedKeeps
<1>17. ASSUME stored'[r] # stored[r]
       PROVE  Right(r)'
  <2>1. /\ Unstarted(r) /\ Queued(r) /\ OnItsWay(r) /\ Prompted(r) /\ Unsents(r) /\ Behind(r)
        /\ NotGiven(r) /\ Truthful(r) /\ Orderly(r) /\ Tracked(r)
    BY <1>1 DEF Right
  <2>2. Unstarted(r)'
    BY <1>2, <1>5, <1>17, <2>1 DEF Unstarted, Pends, Open
  <2>3. Queued(r)'
    BY <1>2, <2>1 DEF Queued, InQueue, OnWorker, InBatch, Live
  <2>4. OnItsWay(r)'
    BY <1>2, <1>5, <1>17, <2>1 DEF OnItsWay, OnWorker, Pends, Open
  <2>5. Prompted(r)'
    BY <1>2, <2>1 DEF Prompted, InBatch
  <2>6. Unsents(r)'
    BY <1>2, <2>1 DEF Unsents, Unsent, Live, OnWorker, InBatch
  <2>7. Behind(r)'
    BY <1>2, <1>5, <1>17 DEF Behind, Unsent
  <2>8. NotGiven(r)'
    BY <1>2, <1>5, <1>11, <1>17, <2>1 DEF NotGiven
  <2>9. Truthful(r)'
    BY <1>2, <1>5, <1>17, <2>1 DEF Truthful
  <2>10. Orderly(r)'
    <3> SUFFICES ASSUME ~Overlapped, Live
                 PROVE  Orderly(r)'
      BY <1>2, <1>11 DEF Orderly, Live
    <3>1. stored[r].status = "none" /\ records[r].status = "none"
      BY <1>3, <1>6, <1>17 DEF Live, Declined
    <3>2. ~records[r].retryable
      BY <1>1, <3>1 DEF Remembered, Older, WellFormed
    <3>3. ~InQueue(r)
      BY <2>1, <3>1 DEF Queued
    <3>4. ~(run = "prompting" /\ InBatch(r))
      BY <2>1, <3>1 DEF Orderly
    <3> QED
      BY <1>2, <3>1, <3>2, <3>3, <3>4 DEF Orderly, InQueue, InBatch
  <2>11. Tracked(r)'
    BY <1>5, <1>17 DEF Tracked, Pends, Open
  <2> QED
    BY <2>2, <2>3, <2>4, <2>5, <2>6, <2>7, <2>8, <2>9, <2>10, <2>11 DEF Right
<1>18. \A q \in Requests : Right(q)'
  BY <1>3, <1>16, <1>17
<1> QED
  BY <1>7, <1>8, <1>9, <1>10, <1>12, <1>13, <1>14, <1>18 DEF IInv
-----------------------------------------------------------------------------
(* A call in submit answers, queues its instruction, or does not.           *)
Repeats(r, s) ==
    /\ s.status = "queued" /\ ~InQueue(r) /\ Live
    /\ stored' = stored /\ records'[r] = s /\ faults' = faults
    /\ queue' = Append(queue, r) /\ WorkerGoes
Declines(r, s) ==
    /\ s.status = "none" /\ closed
    /\ stored'[r] = stored[r] \/ Declined(r)
    /\ \/ records'[r] = stored'[r] /\ faults' = faults
       \/ records' = records /\ faults' = faults + 1
    /\ UNCHANGED <<queue, worker>>
Queues(r, s) ==
    /\ s.status = "none" \/ s.retryable
    /\ Live
    /\ \/ Wrote(r, s, "queued", FALSE)
       \/ stored'[r] = stored[r] /\ stored[r] # s /\ stored[r].status # "none"
    /\ \/ /\ records'[r] = stored'[r] /\ faults' = faults
          /\ queue' = Append(queue, r) /\ WorkerGoes
       \/ /\ faults' = faults + 1
          /\ UNCHANGED <<records, queue, worker>>

(* The answer of submit releases the lock and ends the call.                *)
LEMMA SubmittingIs ==
    ASSUME TypeOK, Stages, Locked, NEW c \in Calls, Attends(c), Submitting(c)
    PROVE  /\ UNCHANGED <<mode, batch, closed, ready, run, given>>
           /\ holder = c /\ holder' = "free" /\ Calling(c)
           /\ calls[c].req \in Requests /\ run # "starting" /\ (~closed => Live)
           /\ calls' \in [Calls -> CallStates]
           /\ calls'[c].at = "done" /\ calls'[c].again = calls[c].again
           /\ \A d \in Calls \ {c} : calls'[d] = calls[d] /\ calls[d].at # "decide"
<1>1. calls' = [calls EXCEPT ![c].at = "done"] /\ calls \in [Calls -> CallStates]
  BY DEF Submitting, TypeOK
<1>2. /\ calls' \in [Calls -> CallStates]
      /\ calls'[c].at = "done" /\ calls'[c].again = calls[c].again
      /\ \A d \in Calls \ {c} : calls'[d] = calls[d]
  BY <1>1 DEF CallStates
<1>3. Calling(c) /\ holder = c /\ calls[c].attached /\ (run = "gone" => closed)
  BY DEF Submitting, Calling, Attends, Locked
<1>4. ~closed => Live
  BY <1>3 DEF Stages, Live
<1>5. \A d \in Calls \ {c} : calls[d].at # "decide"
  BY <1>3 DEF Locked
<1> QED
  BY <1>2, <1>3, <1>4, <1>5 DEF Submitting, Attends

(* What an answer of submit changes.                                        *)
LEMMA SubmitIs ==
    ASSUME IInv, NEW c \in Calls, Answer(c) \/ Accept(c)
    PROVE  /\ Submitting(c)
           /\ stored' \in [Requests -> Receipts] /\ Grown
           /\ records' \in [Requests -> Receipts]
           /\ faults' \in 0 .. MaxFaults
           /\ \A q \in Requests \ {calls[c].req} :
                 stored'[q] = stored[q] /\ records'[q] = records[q]
           /\ \/ UNCHANGED <<stored, records, queue, worker>> /\ faults' \in {faults, faults + 1}
              \/ Repeats(calls[c].req, calls[c].seen)
              \/ Declines(calls[c].req, calls[c].seen)
              \/ Queues(calls[c].req, calls[c].seen)
<1> DEFINE r == calls[c].req
           seen == calls[c].seen
<1>1. TypeOK /\ Stages /\ Locked /\ Remembered /\ Attends(c)
  BY DEF IInv
<1>2. Submitting(c)
  BY DEF Answer, Accept
<1>3. r \in Requests /\ (~closed => Live) /\ Calling(c)
  BY <1>1, <1>2, SubmittingIs
<1>4. /\ stored \in [Requests -> Receipts] /\ records \in [Requests -> Receipts]
      /\ faults \in 0 .. MaxFaults /\ MaxFaults \in Nat /\ ready \in BOOLEAN
  BY <1>1, SteeringAssumption DEF TypeOK
<1>5. Older(seen, r) /\ WellFormed(seen) /\ seen \in Receipts
  BY <1>1, <1>3 DEF Remembered, Older, WellFormed
<1>6. ~Known(seen) <=> seen.status = "none"
  BY <1>5 DEF Known, WellFormed, Receipts
<1>7. stored' = stored => Grown
  BY <1>1 DEF Grown, Newer, Remembered
<1>8. CASE Answer(c)
  <2>1. CASE UNCHANGED <<records, queue, worker>>
    BY <1>2, <1>4, <1>7, <1>8, <2>1 DEF Answer
  <2>2. CASE ~UNCHANGED <<records, queue, worker>>
    <3>1. /\ seen.status = "queued" /\ ~InQueue(r) /\ ~closed
          /\ records' = [records EXCEPT ![r] = seen]
          /\ queue' = Append(queue, r) /\ worker' = Started(queue', ready)
          /\ UNCHANGED <<stored, faults>>
      BY <1>8, <2>2 DEF Answer, Enqueue
    <3>2. WorkerGoes
      BY <1>1, <1>4, <3>1, StartedIs
    <3>3. /\ records' \in [Requests -> Receipts] /\ records'[r] = seen
          /\ \A q \in Requests \ {r} : records'[q] = records[q]
      BY <1>3, <1>4, <1>5, <3>1
    <3> QED
      BY <1>2, <1>3, <1>4, <1>7, <3>1, <3>2, <3>3 DEF Repeats
  <2> QED
    BY <2>1, <2>2
<1>9. ASSUME NEW status \in {"failed", "queued"}, Save(r, seen, status, FALSE)
      PROVE  /\ stored' \in [Requests -> Receipts] /\ Grown
             /\ records' \in [Requests -> Receipts] /\ records'[r] = stored'[r]
             /\ \A q \in Requests \ {r} : stored'[q] = stored[q] /\ records'[q] = records[q]
             /\ faults' = faults
             /\ \/ Wrote(r, seen, status, FALSE)
                \/ stored'[r] = stored[r] /\ stored[r] # seen /\ stored[r].status # "none"
  <2>1. Persist(r, seen, status, FALSE) /\ records' = [records EXCEPT ![r] = stored'[r]]
        /\ faults' = faults
    BY <1>9 DEF Save
  <2>2. status \in Open \cup Over
    BY DEF Open, Over
  <2>3. /\ stored' \in [Requests -> Receipts] /\ Grown
        /\ \A q \in Requests \ {r} : stored'[q] = stored[q]
        /\ \/ Wrote(r, seen, status, FALSE)
           \/ stored'[r] = stored[r] /\ stored[r] # seen /\ stored[r].status # "none"
    BY <1>1, <1>3, <1>4, <1>5, <2>1, <2>2, PersistIs
  <2>4. /\ records' \in [Requests -> Receipts] /\ records'[r] = stored'[r]
        /\ \A q \in Requests \ {r} : records'[q] = records[q]
    BY <1>3, <1>4, <2>1, <2>3
  <2> QED
    BY <2>1, <2>3, <2>4
<1>10. ASSUME NEW status \in {"failed", "queued"}, SaveFails(r, seen, status, FALSE)
       PROVE  /\ stored' \in [Requests -> Receipts] /\ Grown
              /\ records' = records /\ faults' = faults + 1 /\ faults' \in 0 .. MaxFaults
              /\ \A q \in Requests \ {r} : stored'[q] = stored[q]
              /\ \/ stored' = stored
                 \/ Wrote(r, seen, status, FALSE)
                 \/ stored'[r] = stored[r] /\ stored[r] # seen /\ stored[r].status # "none"
  <2>1. /\ Persist(r, seen, status, FALSE) \/ stored' = stored
        /\ records' = records /\ faults' = faults + 1 /\ faults < MaxFaults
    BY <1>10 DEF SaveFails
  <2>2. status \in Open \cup Over /\ faults' \in 0 .. MaxFaults
    BY <1>4, <2>1 DEF Open, Over
  <2>3. CASE Persist(r, seen, status, FALSE)
    <3>1. /\ stored' \in [Requests -> Receipts] /\ Grown
          /\ \A q \in Requests \ {r} : stored'[q] = stored[q]
          /\ \/ Wrote(r, seen, status, FALSE)
             \/ stored'[r] = stored[r] /\ stored[r] # seen /\ stored[r].status # "none"
      BY <1>1, <1>3, <1>4, <1>5, <2>2, <2>3, PersistIs
    <3> QED
      BY <2>1, <2>2, <3>1
  <2>4. CASE stored' = stored
    BY <1>4, <1>7, <2>1, <2>2, <2>4
  <2> QED
    BY <2>1, <2>3, <2>4
<1>11. CASE Accept(c) /\ closed
  <2>1. seen.status = "none" /\ UNCHANGED <<queue, worker>>
    BY <1>6, <1>11 DEF Accept, CanRetry
  <2>2. Save(r, seen, "failed", FALSE) \/ SaveFails(r, seen, "failed", FALSE)
    BY <1>11 DEF Accept
  <2>3. Wrote(r, seen, "failed", FALSE) => Declined(r)
    BY <2>1 DEF Wrote, Declined
  <2>4. CASE Save(r, seen, "failed", FALSE)
    <3>1. Declines(r, seen)
      BY <1>9, <1>11, <2>1, <2>3, <2>4 DEF Declines
    <3> QED
      BY <1>2, <1>4, <1>9, <2>4, <3>1
  <2>5. CASE SaveFails(r, seen, "failed", FALSE)
    <3>1. Declines(r, seen)
      BY <1>10, <1>11, <2>1, <2>3, <2>5 DEF Declines
    <3> QED
      BY <1>2, <1>4, <1>10, <2>5, <3>1
  <2> QED
    BY <2>2, <2>4, <2>5
<1>12. CASE Accept(c) /\ ~closed
  <2>1. (seen.status = "none" \/ seen.retryable) /\ Live
    BY <1>3, <1>6, <1>12 DEF Accept, CanRetry
  <2>2. \/ Save(r, seen, "queued", FALSE) /\ Enqueue(r)
        \/ SaveFails(r, seen, "queued", FALSE) /\ UNCHANGED <<queue, worker>>
    BY <1>12 DEF Accept
  <2>3. CASE Save(r, seen, "queued", FALSE) /\ Enqueue(r)
    <3>1. queue' = Append(queue, r) /\ WorkerGoes
      BY <1>1, <1>4, <2>3, StartedIs DEF Enqueue
    <3>2. Queues(r, seen)
      BY <1>9, <2>1, <2>3, <3>1 DEF Queues
    <3> QED
      BY <1>2, <1>4, <1>9, <2>3, <3>2
  <2>4. CASE SaveFails(r, seen, "queued", FALSE) /\ UNCHANGED <<queue, worker>>
    <3>1. CASE stored' = stored
      BY <1>2, <1>4, <1>10, <2>4, <3>1
    <3>2. CASE stored' # stored
      <4>1. Queues(r, seen)
        BY <1>10, <2>1, <2>4, <3>2 DEF Queues
      <4> QED
        BY <1>2, <1>4, <1>10, <2>4, <4>1
    <3> QED
      BY <3>1, <3>2
  <2> QED
    BY <2>2, <2>3, <2>4
<1> QED
  BY <1>8, <1>11, <1>12

(* It keeps the invariant: what is queued was not given, is nowhere on its  *)
(* way, and was not queued before.                                          *)
LEMMA SubmitKeeps ==
    ASSUME IInv, NEW c \in Calls, Answer(c) \/ Accept(c)
    PROVE  IInv'
<1>1. /\ TypeOK /\ Stages /\ Locked /\ Remembered /\ Alone /\ Once
      /\ \A d \in Calls : Attends(d) /\ Decides(d)
      /\ \A q \in Requests : Right(q)
  BY DEF IInv
<1>2. PICK r \in Requests, seen \in Receipts : r = calls[c].req /\ seen = calls[c].seen
  <2>1. calls[c].req \in Requests
    BY <1>1, SubmitIs, SubmittingIs
  <2>2. calls[c].seen \in Receipts
    BY <1>1 DEF TypeOK, CallStates
  <2> QED
    BY <2>1, <2>2
<1>3. /\ stored' \in [Requests -> Receipts] /\ Grown
      /\ records' \in [Requests -> Receipts]
      /\ faults' \in 0 .. MaxFaults
      /\ \A q \in Requests \ {r} : stored'[q] = stored[q] /\ records'[q] = records[q]
  BY <1>2, SubmitIs
<1>4. \/ UNCHANGED <<stored, records, queue, worker>> /\ faults' \in {faults, faults + 1}
      \/ Repeats(r, seen)
      \/ Declines(r, seen)
      \/ Queues(r, seen)
  BY <1>2, SubmitIs
<1>5. /\ UNCHANGED <<mode, batch, closed, ready, run, given>>
      /\ holder = c /\ holder' = "free" /\ Calling(c)
      /\ r \in Requests /\ run # "starting" /\ (~closed => Live)
      /\ calls' \in [Calls -> CallStates]
      /\ calls'[c].at = "done" /\ calls'[c].again = calls[c].again
      /\ \A d \in Calls \ {c} : calls'[d] = calls[d] /\ calls[d].at # "decide"
  BY <1>2, <1>1, SubmitIs, SubmittingIs
<1>6. calls[c].at = "decide" /\ (Live => ~closed) /\ faults \in Nat
  BY <1>1, <1>5 DEF Locked, Stages, TypeOK
<1>7. /\ Older(seen, r) /\ WellFormed(seen) /\ WellFormed(stored[r]) /\ WellFormed(stored'[r])
      /\ WellFormed(records[r])
  BY <1>2, <1>1, <1>3, <1>5 DEF Remembered, Older, Grown, Newer
<1>8. /\ records[r].status # "none" => seen = records[r]
      /\ records[r].status = "none" /\ seen.status = "queued" =>
            stored[r] = seen \/ ~Unsent(stored[r])
      /\ records[r].status = "none" /\ ~Overlapped /\ Live => stored[r] = seen
  BY <1>2, <1>1, <1>6 DEF Decides
<1>9. /\ Unstarted(r) /\ Queued(r) /\ OnItsWay(r) /\ Prompted(r) /\ Unsents(r) /\ Behind(r)
      /\ NotGiven(r) /\ Truthful(r) /\ Orderly(r) /\ Tracked(r)
  BY <1>1, <1>5 DEF Right
<1>10. (queue' = Append(queue, r) /\ WorkerGoes /\ ~InQueue(r)) \/ UNCHANGED <<queue, worker>>
  <2>1. CASE Queues(r, seen)
    BY <1>7, <1>8, <1>9, <2>1 DEF Queues, Queued, WellFormed
  <2> QED
    BY <1>4, <2>1 DEF Repeats, Declines
<1>11. (Live /\ mode' = mode) \/ UNCHANGED <<queue, worker>>
  BY <1>4, <1>5 DEF Repeats, Declines, Queues
<1>12. TypeOK'
  <2>1. queue' \in Seq(Requests)
    <3>1. queue \in Seq(Requests) /\ Append(queue, r) \in Seq(Requests)
      BY <1>1, <1>5 DEF TypeOK
    <3> QED
      BY <1>10, <3>1
  <2>2. worker' \in Workers
    BY <1>1, <1>10 DEF TypeOK, WorkerGoes
  <2>3. "free" \notin Calls
    BY SteeringAssumption
  <2> QED
    BY <1>1, <1>3, <1>5, <2>1, <2>2, <2>3 DEF TypeOK
<1>13. Stages'
  <2>1. CASE UNCHANGED <<queue, worker>>
    BY <1>1, <1>5, <2>1 DEF Stages, Live
  <2>2. CASE Live /\ WorkerGoes
    BY <1>1, <1>5, <2>2 DEF Stages, Live, WorkerGoes
  <2> QED
    BY <1>10, <1>11, <2>1, <2>2
<1>14. Locked'
  <2>1. "free" \notin Calls /\ holder # "worker"
    BY <1>5, SteeringAssumption
  <2>2. worker'.at # "check"
    BY <1>1, <1>10, <2>1 DEF Locked, WorkerGoes
  <2>3. \A d \in Calls : calls'[d].at # "decide"
    BY <1>5
  <2> QED
    BY <1>5, <2>1, <2>2, <2>3 DEF Locked
<1>15. Remembered'
  <2>1. \A q \in Requests : Older(records'[q], q) \/ records'[q] \in {records[q], stored'[q]}
    BY <1>3, <1>4, <1>7 DEF Repeats, Declines, Queues
  <2>2. \A d \in Calls : Calling(d)' =>
            Calling(d) /\ calls'[d].req = calls[d].req /\ calls'[d].seen = calls[d].seen
    BY <1>5 DEF Calling
  <2> QED
    BY <1>1, <1>3, <2>1, <2>2, RememberedStays
<1>16. ~Overlapped' <=> ~Overlapped
  BY <1>5 DEF Overlapped
<1>17. Alone'
  <2> SUFFICES ASSUME ~Overlapped
               PROVE  Alone'
    BY <1>16 DEF Alone
  <2>1. \A d \in Calls : Calling(d)' => Calling(d) /\ calls'[d] = calls[d] /\ d # c
    BY <1>5 DEF Calling
  <2>2. \A d \in Calls : Calling(d)' => calls[d].req \in Requests \ {r}
    BY <1>2, <1>1, <1>5, <2>1 DEF Alone, Attends
  <2> QED
    BY <1>1, <1>3, <1>5, <2>1, <2>2 DEF Alone, Pends
<1>18. Once'
  <2>1. queue \in Seq(Requests)
    BY <1>1 DEF TypeOK
  <2>2. CASE queue' = Append(queue, r) /\ ~InQueue(r)
    <3>1. /\ DOMAIN queue' = 1 .. Len(queue) + 1
          /\ \A i \in DOMAIN queue' : queue'[i] = IF i = Len(queue) + 1 THEN r ELSE queue[i]
          /\ DOMAIN queue = 1 .. Len(queue) /\ Len(queue) \in Nat
      BY <1>5, <2>1, <2>2
    <3> QED
      BY <1>1, <1>5, <2>2, <3>1 DEF Once, InQueue
  <2> QED
    BY <1>1, <1>5, <1>10, <2>2 DEF Once
<1>19. \A d \in Calls : Attends(d)' /\ Decides(d)'
  <2> SUFFICES ASSUME NEW d \in Calls
               PROVE  Attends(d)' /\ Decides(d)'
    OBVIOUS
  <2>1. calls'[d].at # "decide"
    BY <1>5
  <2>2. CASE d = c
    BY <1>5, <2>2 DEF Attends, Decides, Calling
  <2>3. CASE d # c
    BY <1>1, <1>5, <2>1, <2>3, CallStays DEF Decides
  <2> QED
    BY <2>2, <2>3
<1>20. Onward
  <2>1. faults' \in {faults, faults + 1}
    BY <1>4 DEF Repeats, Declines, Queues
  <2>2. faults' = 0 => faults = 0
    BY <1>6, <2>1
  <2> QED
    BY <1>5, <1>16, <2>2 DEF Onward, Live
<1>21. \A q \in Requests : (OnWorker(q)' => OnWorker(q) /\ worker' = worker)
                           /\ (InBatch(q)' => InBatch(q) /\ run' = run) /\ given'[q] = given[q]
  BY <1>5, <1>10 DEF OnWorker, InBatch, WorkerGoes
<1>22. \A q \in Requests : InQueue(q)' => InQueue(q) \/ (q = r /\ queue' = Append(queue, r))
  <2>1. queue \in Seq(Requests)
    BY <1>1 DEF TypeOK
  <2>2. CASE queue' = Append(queue, r)
    <3>1. /\ DOMAIN queue' = 1 .. Len(queue) + 1
          /\ \A i \in DOMAIN queue' : queue'[i] = IF i = Len(queue) + 1 THEN r ELSE queue[i]
          /\ DOMAIN queue = 1 .. Len(queue) /\ Len(queue) \in Nat
      BY <1>5, <2>1, <2>2
    <3> QED
      BY <2>2, <3>1 DEF InQueue
  <2>3. CASE queue' = queue
    BY <2>3 DEF InQueue
  <2> QED
    BY <1>10, <2>2, <2>3
<1>23. \A q \in Requests \ {r} : Right(q)'
  <2> SUFFICES ASSUME NEW q \in Requests \ {r}
               PROVE  Right(q)'
    OBVIOUS
  <2>1. Untouched(q)
    BY <1>3, <1>21, <1>22 DEF Untouched
  <2>2. EndsWith(q)
    BY <1>5 DEF EndsWith
  <2> QED
    BY <1>1, <1>20, <2>1, <2>2, UntouchedKeeps
<1>24. ASSUME UNCHANGED <<stored, records, queue, worker>>
       PROVE  Right(r)'
  <2>1. Untouched(r) /\ EndsWith(r)
    BY <1>5, <1>21, <1>24 DEF Untouched, EndsWith, InQueue
  <2> QED
    BY <1>1, <1>5, <1>20, <2>1, UntouchedKeeps
<1>25. ASSUME Repeats(r, seen)
       PROVE  Right(r)'
  <2>1. Unsent(records[r]) /\ Live /\ seen.status = "queued" /\ ~seen.retryable
    BY <1>7, <1>8, <1>25 DEF Repeats, Unsent, WellFormed
  <2>2. given[r] = 0 /\ ~OnWorker(r) /\ ~InBatch(r)
    BY <1>9, <2>1 DEF Unsents
  <2>3. stored'[r] = stored[r] /\ records'[r] = seen
    BY <1>25 DEF Repeats
  <2>4. stored[r] # seen => ~Unsent(stored[r])
    BY <1>8, <1>9, <2>1 DEF Behind
  <2>5. Unstarted(r)' /\ Prompted(r)' /\ OnItsWay(r)' /\ Truthful(r)' /\ NotGiven(r)'
    BY <1>5, <1>9, <1>16, <1>21, <2>2, <2>3
       DEF Unstarted, Prompted, OnItsWay, Truthful, NotGiven
  <2>6. Queued(r)' /\ Unsents(r)'
    BY <1>21, <2>1, <2>2, <2>3 DEF Queued, Unsents
  <2>7. Behind(r)'
    BY <2>1, <2>3, <2>4 DEF Behind, Unsent
  <2>8. Orderly(r)'
    <3>1. ~Overlapped => stored[r] = seen \/ stored[r].status = "sending"
      BY <1>8, <1>9, <2>1 DEF Orderly
    <3> QED
      BY <1>16, <1>21, <2>1, <2>2, <2>3, <3>1 DEF Orderly
  <2>9. Tracked(r)'
    <3>1. CASE records[r].status = "none"
      BY <1>5, <1>7, <1>9, <1>25, <2>3, <3>1 DEF Tracked, Repeats, Pends, Open, WellFormed
    <3>2. CASE records[r].status # "none"
      BY <1>5, <1>8, <1>9, <1>25, <2>3, <3>2 DEF Tracked, Repeats, Pends
    <3> QED
      BY <3>1, <3>2
  <2> QED
    BY <2>5, <2>6, <2>7, <2>8, <2>9 DEF Right
<1>26. ASSUME Declines(r, seen)
       PROVE  Right(r)'
  <2>1. records[r].status = "none" /\ ~Live /\ ~Live' /\ ~InQueue(r)
    BY <1>5, <1>6, <1>8, <1>9, <1>26 DEF Declines, Queued, Live
  <2>2. ~OnWorker(r) /\ ~OnWorker(r)' /\ ~InQueue(r)'
    BY <1>9, <1>21, <1>26, <2>1 DEF OnItsWay, Declines, InQueue
  <2>3. Unsents(r)' /\ Behind(r)' /\ Orderly(r)' /\ Queued(r)' /\ OnItsWay(r)'
    BY <2>1, <2>2 DEF Unsents, Behind, Orderly, Queued, OnItsWay
  <2>4. Unstarted(r)' /\ Prompted(r)'
    BY <1>5, <1>9, <1>21 DEF Unstarted, Prompted
  <2>5. NotGiven(r)' /\ Truthful(r)'
    BY <1>5, <1>9, <1>16, <1>26 DEF NotGiven, Truthful, Declines, Declined
  <2>6. Tracked(r)'
    <3>1. CASE Declined(r)
      BY <3>1 DEF Declined, Tracked, Pends, Open
    <3>2. CASE stored'[r] = stored[r]
      BY <1>5, <1>6, <1>9, <1>26, <3>2 DEF Tracked, Declines, Pends
    <3> QED
      BY <1>26, <3>1, <3>2 DEF Declines
  <2> QED
    BY <2>3, <2>4, <2>5, <2>6 DEF Right
<1>27. ASSUME Queues(r, seen)
       PROVE  Right(r)'
  <2>1. Live /\ Live' /\ run' # "gone" /\ Unsent(records[r])
    BY <1>5, <1>7, <1>8, <1>27 DEF Queues, Unsent, Live, WellFormed
  <2>2. given[r] = 0 /\ ~OnWorker(r) /\ ~InBatch(r) /\ ~OnWorker(r)' /\ ~InBatch(r)'
    BY <1>9, <1>21, <2>1 DEF Unsents
  <2>3. ~InQueue(r) /\ records[r].status # "queued"
    BY <1>7, <1>8, <1>9, <1>27 DEF Queued, Queues, WellFormed
  <2>4. stored'[r].status # "none" /\ ~stored'[r].retryable
        /\ (stored'[r] # stored[r] => stored'[r].status = "queued")
    <3>1. CASE Wrote(r, seen, "queued", FALSE)
      BY <3>1 DEF Wrote
    <3>2. CASE stored'[r] = stored[r] /\ stored[r] # seen /\ stored[r].status # "none"
      <4>1. stored[r] # records[r]
        BY <1>8, <3>2
      <4> QED
        BY <1>9, <2>1, <3>2, <4>1 DEF Behind
    <3> QED
      BY <1>27, <3>1, <3>2 DEF Queues
  <2>5. Unstarted(r)' /\ OnItsWay(r)' /\ Prompted(r)' /\ Unsents(r)' /\ NotGiven(r)'
    BY <1>5, <2>2 DEF Unstarted, OnItsWay, Prompted, Unsents, NotGiven
  <2>6. Truthful(r)'
    BY <1>5, <1>9, <2>4 DEF Truthful
  <2>7. ~Overlapped => stored'[r].status = "queued" \/ stored'[r] = records[r]
    <3> SUFFICES ASSUME ~Overlapped, stored'[r] = stored[r], stored[r] # seen,
                        stored[r].status # "none"
                 PROVE  stored[r].status = "queued"
      BY <1>27, <2>4 DEF Queues, Wrote
    <3>1. records[r].status # "none"
      BY <1>8, <2>1
    <3>2. seen = records[r] /\ records[r].retryable
      BY <1>8, <1>27, <3>1 DEF Queues
    <3> QED
      BY <1>9, <2>1, <3>2 DEF Orderly
  <2>8. CASE records'[r] = stored'[r] /\ faults' = faults
    <3>1. Queued(r)'
      BY <1>5, <2>2, <2>4, <2>8 DEF Queued
    <3>2. Behind(r)' /\ Tracked(r)'
      BY <2>1, <2>8 DEF Behind, Tracked
    <3>3. Orderly(r)'
      BY <1>16, <2>2, <2>3, <2>4, <2>7, <2>8, <1>27, <1>8, <2>1, <1>9, <1>7
         DEF Orderly, Queues, Wrote
    <3> QED
      BY <2>5, <2>6, <3>1, <3>2, <3>3 DEF Right
  <2>9. CASE faults' = faults + 1 /\ UNCHANGED <<records, queue, worker>>
    <3>1. ~InQueue(r)'
      BY <2>3, <2>9 DEF InQueue
    <3>2. Queued(r)' /\ Behind(r)' /\ Tracked(r)'
      BY <1>6, <2>1, <2>3, <2>4, <2>9, <3>1 DEF Queued, Behind, Tracked, Unsent
    <3>3. Orderly(r)'
      BY <1>16, <2>2, <2>3, <2>7, <2>9, <3>1 DEF Orderly
    <3> QED
      BY <2>5, <2>6, <3>2, <3>3 DEF Right
  <2> QED
    BY <1>27, <2>8, <2>9 DEF Queues
<1>28. \A q \in Requests : Right(q)'
  BY <1>4, <1>23, <1>24, <1>25, <1>26, <1>27
<1> QED
  BY <1>12, <1>13, <1>14, <1>15, <1>17, <1>18, <1>19, <1>28 DEF IInv
-----------------------------------------------------------------------------
(* A step of the worker, which touches only what is on record.              *)
LEMMA WorkerKeeps ==
    ASSUME IInv, worker.at # "none",
           UNCHANGED <<mode, batch, closed, ready, run, calls>>,
           stored' \in [Requests -> Receipts], Grown,
           records' \in [Requests -> Receipts],
           given' \in [Requests -> Nat],
           faults' \in 0 .. MaxFaults, faults' \in {faults, faults + 1},
           queue' = queue \/ (queue # <<>> /\ queue' = Tail(queue)),
           worker' \in Workers, worker'.cancelled => closed,
           worker'.at \in {"check", "delivering", "report"} => worker'.req \in Requests,
           worker'.at = "check" <=> holder' = "worker",
           holder' = holder \/ (holder \notin Calls /\ holder' \in {"free", "worker"}),
           holder \notin Calls \/ UNCHANGED <<stored, records>>,
           \A r \in Requests : records'[r] \in {records[r], stored'[r]},
           \A r \in Requests : Untouched(r) \/ (records[r].status # "none" /\ Right(r)')
    PROVE  IInv'
<1>1. /\ TypeOK /\ Stages /\ Locked /\ Remembered /\ Alone /\ Once
      /\ \A d \in Calls : Attends(d) /\ Decides(d)
      /\ \A r \in Requests : Right(r)
  BY DEF IInv
<1>2. mode = "native" /\ run \notin {"starting", "gone"} /\ faults \in Nat
      /\ (run \in {"attached"} => batch = <<>>)
  <2>1. mode # "boundary" /\ run \notin {"starting", "gone"}
        /\ (run \in {"attached"} => batch = <<>>)
    BY <1>1 DEF Stages
  <2>2. mode = "native"
    BY <1>1, <2>1, SteeringAssumption DEF TypeOK
  <2>3. faults \in Nat
    BY <1>1, SteeringAssumption DEF TypeOK
  <2> QED
    BY <2>1, <2>2, <2>3
<1>3. queue \in Seq(Requests) /\ "free" \notin Calls /\ "worker" \notin Calls
  BY <1>1, SteeringAssumption DEF TypeOK
<1>4. TypeOK'
  <2>1. queue' \in Seq(Requests)
    <3>1. queue # <<>> => Tail(queue) \in Seq(Requests)
      BY <1>3
    <3> QED
      BY <1>3, <3>1
  <2>2. /\ holder' \in Calls \cup {"free", "worker"}
        /\ holder' \in Calls => calls[holder'].at = "decide"
    BY <1>1, <1>3 DEF TypeOK
  <2> QED
    BY <1>1, <2>1, <2>2 DEF TypeOK
<1>5. Stages'
  BY <1>1, <1>2 DEF Stages, Live
<1>6. Locked'
  <2>1. \A d \in Calls : calls[d].at = "decide" <=> holder' = d
    BY <1>1, <1>3 DEF Locked
  <2> QED
    BY <2>1 DEF Locked
<1>7. Remembered'
  <2>1. \A d \in Calls : Calling(d)' =>
            Calling(d) /\ calls'[d].req = calls[d].req /\ calls'[d].seen = calls[d].seen
    BY DEF Calling
  <2> QED
    BY <1>1, <2>1, RememberedStays
<1>8. Alone'
  <2> SUFFICES ASSUME ~Overlapped
               PROVE  Alone'
    BY DEF Alone, Overlapped
  <2>1. \A d, e \in Calls : Calling(d)' /\ Calling(e)' /\ calls'[d].req = calls'[e].req => d = e
    BY <1>1 DEF Alone, Calling
  <2>2. ASSUME NEW d \in Calls, Calling(d), ~calls[d].attached
        PROVE  /\ calls[d].at # "settle"
               /\ records'[calls[d].req].status = "none"
               /\ ~Pends(stored'[calls[d].req])
    <3>1. /\ calls[d].req \in Requests
          /\ calls[d].at # "settle"
          /\ records[calls[d].req].status = "none"
          /\ ~Pends(stored[calls[d].req])
      BY <1>1, <1>2, <2>2 DEF Alone, Attends
    <3>2. Untouched(calls[d].req)
      BY <3>1
    <3> QED
      BY <3>1, <3>2 DEF Untouched, Pends
  <2>3. \A d \in Calls : Calling(d)' /\ ~calls'[d].attached /\ run' # "gone" =>
               /\ calls'[d].at # "settle"
               /\ records'[calls'[d].req].status = "none"
               /\ ~Pends(stored'[calls'[d].req])
    BY <2>2 DEF Calling
  <2> QED
    BY <2>1, <2>3 DEF Alone, Pends
<1>9. Once'
  <2>1. CASE queue # <<>> /\ queue' = Tail(queue)
    <3>1. /\ DOMAIN queue = 1 .. Len(queue) /\ Len(queue) \in Nat
          /\ DOMAIN queue' = 1 .. Len(queue) - 1
          /\ \A i \in DOMAIN queue' : queue'[i] = queue[i + 1]
      BY <1>3, <2>1
    <3>2. \A i \in DOMAIN queue' : i + 1 \in DOMAIN queue
      BY <3>1
    <3>3. ASSUME NEW i \in DOMAIN queue', NEW j \in DOMAIN queue', queue'[i] = queue'[j]
          PROVE  i = j
      <4>1. i + 1 = j + 1
        BY <1>1, <3>1, <3>2, <3>3 DEF Once
      <4> QED
        BY <3>1, <4>1
    <3> QED
      BY <1>1, <3>3 DEF Once
  <2> QED
    BY <1>1, <2>1 DEF Once
<1>10. \A d \in Calls : Attends(d)' /\ Decides(d)'
  <2> SUFFICES ASSUME NEW d \in Calls
               PROVE  Attends(d)' /\ Decides(d)'
    OBVIOUS
  <2>1. Attends(d)'
    BY <1>1, CallStays
  <2>2. CASE UNCHANGED <<stored, records>>
    BY <1>1, <2>1, <2>2 DEF Decides, Overlapped, Live, Unsent
  <2>3. CASE holder \notin Calls
    <3>1. calls[d].at # "decide"
      BY <1>1, <2>3, NoneDecides
    <3> QED
      BY <2>1, <3>1 DEF Decides
  <2> QED
    BY <2>1, <2>2, <2>3
<1>11. Onward
  BY <1>2 DEF Onward, Live, Overlapped
<1>12. \A r \in Requests : Right(r)'
  <2> SUFFICES ASSUME NEW r \in Requests, Untouched(r)
               PROVE  Right(r)'
    OBVIOUS
  <2>1. EndsWith(r)
    BY DEF EndsWith
  <2> QED
    BY <1>1, <1>11, <2>1, UntouchedKeeps
<1> QED
  BY <1>4, <1>5, <1>6, <1>7, <1>8, <1>9, <1>10, <1>12 DEF IInv

(* A receipt saved, or not, under the lock.                                 *)
SavesOrNot(r, s, status, retryable) ==
    /\ stored' \in [Requests -> Receipts] /\ Grown
    /\ records' \in [Requests -> Receipts]
    /\ faults' \in 0 .. MaxFaults
    /\ \A q \in Requests \ {r} : stored'[q] = stored[q] /\ records'[q] = records[q]
    /\ \/ Wrote(r, s, status, retryable)
       \/ /\ stored'[r] = stored[r]
          /\ stored[r] # s \/ faults' = faults + 1

(* A receipt that is saved.                                                 *)
LEMMA SavesIs ==
    ASSUME IInv, NEW r \in Requests, NEW s, Older(s, r),
           NEW status \in Open \cup Over, NEW retryable \in BOOLEAN,
           retryable => status = "failed",
           Save(r, s, status, retryable)
    PROVE  /\ SavesOrNot(r, s, status, retryable)
           /\ records'[r] = stored'[r] /\ faults' = faults
<1>1. /\ stored \in [Requests -> Receipts] /\ records \in [Requests -> Receipts]
      /\ faults \in 0 .. MaxFaults /\ Remembered
  BY DEF IInv, TypeOK
<1>2. Persist(r, s, status, retryable) /\ records' = [records EXCEPT ![r] = stored'[r]]
      /\ faults' = faults
  BY DEF Save
<1>3. /\ stored' \in [Requests -> Receipts] /\ Grown
      /\ \A q \in Requests \ {r} : stored'[q] = stored[q]
      /\ \/ Wrote(r, s, status, retryable)
         \/ stored'[r] = stored[r] /\ stored[r] # s
  BY <1>1, <1>2, PersistIs
<1>4. /\ records' \in [Requests -> Receipts] /\ records'[r] = stored'[r]
      /\ \A q \in Requests \ {r} : records'[q] = records[q]
  BY <1>1, <1>2, <1>3
<1> QED
  BY <1>1, <1>2, <1>3, <1>4 DEF SavesOrNot

(* A receipt whose write fails, before or after it reached the log.         *)
LEMMA SaveFailsIs ==
    ASSUME IInv, NEW r \in Requests, NEW s, Older(s, r),
           NEW status \in Open \cup Over, NEW retryable \in BOOLEAN,
           retryable => status = "failed",
           SaveFails(r, s, status, retryable)
    PROVE  /\ SavesOrNot(r, s, status, retryable)
           /\ records' = records /\ faults' = faults + 1
<1>1. /\ stored \in [Requests -> Receipts] /\ records \in [Requests -> Receipts]
      /\ faults \in 0 .. MaxFaults /\ Remembered /\ MaxFaults \in Nat
  BY SteeringAssumption DEF IInv, TypeOK
<1>2. /\ Persist(r, s, status, retryable) \/ stored' = stored
      /\ records' = records /\ faults' = faults + 1 /\ faults' \in 0 .. MaxFaults
  BY <1>1 DEF SaveFails
<1>3. CASE Persist(r, s, status, retryable)
  <2>1. /\ stored' \in [Requests -> Receipts] /\ Grown
        /\ \A q \in Requests \ {r} : stored'[q] = stored[q]
        /\ \/ Wrote(r, s, status, retryable)
           \/ stored'[r] = stored[r] /\ stored[r] # s
    BY <1>1, <1>3, PersistIs
  <2> QED
    BY <1>1, <1>2, <2>1 DEF SavesOrNot
<1>4. CASE stored' = stored
  <2>1. Grown
    BY <1>1, <1>4 DEF Grown, Newer, Remembered
  <2> QED
    BY <1>1, <1>2, <1>4, <2>1 DEF SavesOrNot
<1> QED
  BY <1>2, <1>3, <1>4

(* The worker that has ended, and the one that starts.                      *)
LEMMA NoWorkerIs ==
    /\ NoWorker \in Workers /\ NoWorker.at = "none" /\ ~NoWorker.cancelled
    /\ [NoWorker EXCEPT !.at = "idle"] \in Workers
    /\ [NoWorker EXCEPT !.at = "idle"].at = "idle" /\ ~[NoWorker EXCEPT !.at = "idle"].cancelled
BY NewIsReceipt DEF NoWorker, Workers

(* The instruction that the worker has in hand.                             *)
LEMMA InHand ==
    ASSUME IInv, worker.at \in {"check", "delivering", "report"}
    PROVE  \E r \in Requests :
             /\ r = worker.req /\ OnWorker(r) /\ ~InQueue(r) /\ ~InBatch(r)
             /\ worker.receipt \in Receipts /\ Older(worker.receipt, r) /\ WellFormed(records[r])
             /\ records[r] = worker.receipt /\ records[r].status = "sending"
             /\ ~records[r].retryable
             /\ stored[r] = records[r] \/ stored[r].status = "uncertain"
             /\ given[r] \in Nat
             /\ worker.at # "report" => given[r] = 0
             /\ run \notin {"starting", "gone"} /\ mode = "native"
             /\ \A q \in Requests \ {r} : ~OnWorker(q)
<1>1. /\ TypeOK /\ Stages /\ Remembered /\ \A r \in Requests : Right(r)
  BY DEF IInv
<1>2. worker.req \in Requests /\ batch = <<>> /\ run \notin {"starting", "gone"} /\ mode = "native"
  BY <1>1, SteeringAssumption DEF Stages, TypeOK
<1>3. PICK r \in Requests : r = worker.req
  BY <1>2
<1>4. OnWorker(r) /\ \A q \in Requests \ {r} : ~OnWorker(q)
  BY <1>3 DEF OnWorker
<1>5. ~InQueue(r) /\ ~InBatch(r)
  BY <1>1, <1>2, <1>4 DEF Right, Queued, InBatch
<1>6. /\ records[r] = worker.receipt /\ records[r].status = "sending"
      /\ stored[r] = records[r] \/ stored[r].status = "uncertain"
      /\ worker.at # "report" => given[r] = 0
  BY <1>1, <1>4 DEF Right, OnItsWay
<1>7. /\ worker.receipt \in Receipts /\ Older(worker.receipt, r) /\ WellFormed(records[r])
      /\ given[r] \in Nat
  BY <1>1, <1>6 DEF Remembered, Older, TypeOK, Workers
<1>8. ~records[r].retryable
  BY <1>6, <1>7 DEF WellFormed
<1> QED
  BY <1>2, <1>3, <1>4, <1>5, <1>6, <1>7, <1>8

(* The worker, having the record, finds the run stopped or goes on.         *)
LEMMA CheckKeeps ==
    ASSUME IInv, Check
    PROVE  IInv'
<1>1. /\ TypeOK /\ Stages /\ Locked /\ Remembered
      /\ \A r \in Requests : Right(r)
  BY DEF IInv
<1>2. PICK r \in Requests :
             /\ r = worker.req /\ OnWorker(r) /\ ~InQueue(r) /\ ~InBatch(r)
             /\ worker.receipt \in Receipts /\ Older(worker.receipt, r) /\ WellFormed(records[r])
             /\ records[r] = worker.receipt /\ records[r].status = "sending"
             /\ ~records[r].retryable
             /\ stored[r] = records[r] \/ stored[r].status = "uncertain"
             /\ given[r] \in Nat
             /\ worker.at # "report" => given[r] = 0
             /\ run \notin {"starting", "gone"} /\ mode = "native"
             /\ \A q \in Requests \ {r} : ~OnWorker(q)
  BY InHand DEF Check
<1>3. /\ worker.at = "check" /\ holder' = "free" /\ holder = "worker" /\ holder \notin Calls
      /\ UNCHANGED <<mode, queue, batch, closed, ready, run, calls, given>>
      /\ given[r] = 0 /\ faults \in 0 .. MaxFaults /\ given \in [Requests -> Nat]
      /\ worker \in Workers
  BY <1>1, <1>2, SteeringAssumption DEF Check, Locked, TypeOK
<1>4. /\ Unstarted(r) /\ Prompted(r) /\ Unsents(r) /\ Behind(r)
      /\ NotGiven(r) /\ Truthful(r) /\ Orderly(r) /\ Tracked(r)
  BY <1>1 DEF Right
<1>5. ~InQueue(r)' /\ ~InBatch(r)'
  BY <1>2, <1>3 DEF InQueue, InBatch
<1>6. Unstarted(r)' /\ Queued(r)' /\ Prompted(r)'
  BY <1>2, <1>3, <1>5 DEF Unstarted, Queued, Prompted
<1>7. CASE closed
  <2>1. worker' = NoWorker
    BY <1>3, <1>7 DEF Check
  <2>2. /\ SavesOrNot(r, worker.receipt, "cancelled", FALSE)
        /\ \/ records'[r] = stored'[r] /\ faults' = faults
           \/ records' = records /\ faults' = faults + 1
    <3>1. "cancelled" \in Open \cup Over
      BY DEF Over
    <3> QED
      BY <1>2, <1>3, <1>7, <3>1, SavesIs, SaveFailsIs DEF Check
  <2>3. /\ stored' \in [Requests -> Receipts] /\ Grown
        /\ records' \in [Requests -> Receipts]
        /\ faults' \in 0 .. MaxFaults
        /\ \A q \in Requests \ {r} : stored'[q] = stored[q] /\ records'[q] = records[q]
        /\ \/ stored'[r].status = "cancelled" /\ ~stored'[r].retryable
           \/ stored'[r] = stored[r]
    BY <2>2 DEF SavesOrNot, Wrote
  <2>4. ~Live' /\ \A q \in Requests : ~OnWorker(q)'
    BY <1>1, <1>3, <1>7, <2>1, NoWorkerIs DEF Stages, Live, OnWorker
  <2>5. OnItsWay(r)' /\ Unsents(r)' /\ Behind(r)' /\ Orderly(r)'
    BY <2>4 DEF OnItsWay, Unsents, Behind, Orderly
  <2>6. NotGiven(r)' /\ Truthful(r)'
    BY <1>3, <1>4, <2>3 DEF NotGiven, Truthful
  <2>7. Tracked(r)'
    BY <1>2, <1>3, <2>2 DEF Tracked
  <2>8. Right(r)'
    BY <1>6, <2>5, <2>6, <2>7 DEF Right
  <2>9. \A q \in Requests : Untouched(q) \/ (records[q].status # "none" /\ Right(q)')
    BY <1>2, <1>3, <2>3, <2>4, <2>8 DEF Untouched, InQueue, InBatch
  <2>10. \A q \in Requests : records'[q] \in {records[q], stored'[q]}
    BY <2>2, <2>3
  <2>11. worker' \in Workers /\ worker'.at = "none" /\ ~worker'.cancelled
    BY <2>1, NoWorkerIs
  <2>12. faults' \in {faults, faults + 1}
    BY <2>2
  <2> QED
    BY <1>3, <2>3, <2>9, <2>10, <2>11, <2>12, WorkerKeeps
<1>8. CASE ~closed
  <2>1. worker' = [worker EXCEPT !.at = "delivering"] /\ UNCHANGED <<stored, records, faults>>
    BY <1>3, <1>8 DEF Check
  <2>2. /\ worker' \in Workers /\ worker'.at = "delivering" /\ worker'.req = r
        /\ worker'.receipt = worker.receipt /\ worker'.cancelled = worker.cancelled
    BY <1>2, <1>3, <2>1 DEF Workers
  <2>3. stored \in [Requests -> Receipts] /\ records \in [Requests -> Receipts]
    BY <1>1 DEF TypeOK
  <2>4. OnItsWay(r)'
    BY <1>2, <1>3, <2>1, <2>2 DEF OnItsWay, OnWorker
  <2>5. Unsents(r)'
    BY <1>2, <2>1 DEF Unsents, Unsent
  <2>6. Behind(r)' /\ Orderly(r)' /\ NotGiven(r)' /\ Truthful(r)' /\ Tracked(r)'
    BY <1>3, <1>4, <1>5, <2>1
       DEF Behind, Orderly, NotGiven, Truthful, Tracked, Live, Overlapped, Unsent, Pends, InQueue
  <2>7. Right(r)'
    BY <1>6, <2>4, <2>5, <2>6 DEF Right
  <2>8. \A q \in Requests : Untouched(q) \/ (records[q].status # "none" /\ Right(q)')
    BY <1>2, <1>3, <2>1, <2>2, <2>7 DEF Untouched, InQueue, InBatch, OnWorker
  <2>9. Grown
    BY <1>1, <2>1 DEF Grown, Newer, Remembered
  <2>10. worker'.cancelled => closed
    BY <1>1, <2>2 DEF Stages
  <2>11. faults' \in {faults, faults + 1} /\ holder' # "worker" /\ worker'.req \in Requests
    BY <1>2, <1>3, <2>1, <2>2
  <2>12. stored' \in [Requests -> Receipts] /\ records' \in [Requests -> Receipts]
         /\ given' \in [Requests -> Nat] /\ faults' \in 0 .. MaxFaults
         /\ \A q \in Requests : records'[q] \in {records[q], stored'[q]}
    BY <1>3, <2>1, <2>3
  <2>13. worker'.at # "check" /\ worker.at # "none"
    BY <1>3, <2>2
  <2> QED
    BY <1>3, <2>2, <2>8, <2>9, <2>10, <2>11, <2>12, <2>13, WorkerKeeps
<1> QED
  BY <1>7, <1>8

(* The harness is given what it was not given before.                       *)
LEMMA DeliverKeeps ==
    ASSUME IInv, Deliver
    PROVE  IInv'
<1>1. /\ TypeOK /\ Stages /\ Locked /\ Remembered
      /\ \A r \in Requests : Right(r)
  BY DEF IInv
<1>2. PICK r \in Requests :
             /\ r = worker.req /\ OnWorker(r) /\ ~InQueue(r) /\ ~InBatch(r)
             /\ worker.receipt \in Receipts /\ Older(worker.receipt, r) /\ WellFormed(records[r])
             /\ records[r] = worker.receipt /\ records[r].status = "sending"
             /\ ~records[r].retryable
             /\ stored[r] = records[r] \/ stored[r].status = "uncertain"
             /\ given[r] \in Nat
             /\ worker.at # "report" => given[r] = 0
             /\ run \notin {"starting", "gone"} /\ mode = "native"
             /\ \A q \in Requests \ {r} : ~OnWorker(q)
  BY InHand DEF Deliver
<1>3. /\ worker.at = "delivering" /\ holder # "worker"
      /\ UNCHANGED <<mode, stored, records, queue, batch, closed, ready, holder, run,
                     calls, faults>>
      /\ given[r] = 0 /\ given \in [Requests -> Nat]
      /\ worker \in Workers /\ stored \in [Requests -> Receipts]
      /\ records \in [Requests -> Receipts] /\ faults \in 0 .. MaxFaults
  BY <1>1, <1>2 DEF Deliver, Locked, TypeOK
<1>4. /\ Unstarted(r) /\ Prompted(r) /\ Unsents(r) /\ Behind(r)
      /\ NotGiven(r) /\ Truthful(r) /\ Orderly(r) /\ Tracked(r)
  BY <1>1 DEF Right
<1>5. \E status \in {"received", "uncertain", "failed"}, retryable, cancelled \in BOOLEAN :
        /\ Outcome(status, retryable, cancelled)
        /\ retryable => status = "failed"
        /\ cancelled => closed
        /\ \/ given' = [given EXCEPT ![worker.req] = @ + 1] /\ status # "failed"
           \/ given' = given /\ status # "received"
  BY DEF Deliver
<1>6. PICK status \in {"received", "uncertain", "failed"}, retryable, cancelled \in BOOLEAN :
        /\ Outcome(status, retryable, cancelled)
        /\ retryable => status = "failed"
        /\ cancelled => closed
        /\ \/ given' = [given EXCEPT ![worker.req] = @ + 1] /\ status # "failed"
           \/ given' = given /\ status # "received"
  BY <1>5
<1>7. worker' = [worker EXCEPT !.at = "report", !.status = status,
                               !.retryable = retryable, !.cancelled = cancelled]
  BY <1>6 DEF Outcome
<1>8. /\ worker' \in Workers /\ worker'.at = "report" /\ worker'.req = r
      /\ worker'.receipt = worker.receipt /\ worker'.cancelled = cancelled
      /\ worker'.status = status /\ worker'.retryable = retryable
  BY <1>2, <1>3, <1>7 DEF Workers
<1>9. /\ given' \in [Requests -> Nat] /\ \A q \in Requests \ {r} : given'[q] = given[q]
      /\ \/ given'[r] = 1 /\ status # "failed"
         \/ given'[r] = 0 /\ status # "received"
  <2>1. given[r] + 1 = 1
    BY <1>3
  <2>2. CASE given' = [given EXCEPT ![worker.req] = @ + 1] /\ status # "failed"
    <3>1. given' = [given EXCEPT ![r] = given[r] + 1]
      BY <1>2, <2>2
    <3> QED
      BY <1>3, <2>1, <2>2, <3>1
  <2>3. CASE given' = given /\ status # "received"
    BY <1>3, <2>3
  <2> QED
    BY <1>6, <2>2, <2>3
<1>10. ~InQueue(r)' /\ ~InBatch(r)'
  BY <1>2, <1>3 DEF InQueue, InBatch
<1>11. Unstarted(r)' /\ Queued(r)' /\ Prompted(r)'
  BY <1>2, <1>3, <1>10 DEF Unstarted, Queued, Prompted
<1>12. OnItsWay(r)'
  BY <1>2, <1>3, <1>6, <1>8, <1>9 DEF OnItsWay, OnWorker
<1>13. Unsents(r)' /\ NotGiven(r)'
  BY <1>2, <1>3 DEF Unsents, Unsent, NotGiven
<1>14. Truthful(r)'
  BY <1>2, <1>3, <1>9 DEF Truthful
<1>15. Behind(r)' /\ Orderly(r)' /\ Tracked(r)'
  BY <1>3, <1>4, <1>10 DEF Behind, Orderly, Tracked, Live, Overlapped, Unsent, Pends, InQueue
<1>16. Right(r)'
  BY <1>11, <1>12, <1>13, <1>14, <1>15 DEF Right
<1>17. \A q \in Requests : Untouched(q) \/ (records[q].status # "none" /\ Right(q)')
  BY <1>2, <1>3, <1>8, <1>9, <1>16 DEF Untouched, InQueue, InBatch, OnWorker
<1>18. Grown
  BY <1>1, <1>3 DEF Grown, Newer, Remembered
<1>19. faults' \in {faults, faults + 1} /\ faults' \in 0 .. MaxFaults
  BY <1>3
<1>20. stored' \in [Requests -> Receipts] /\ records' \in [Requests -> Receipts]
       /\ \A q \in Requests : records'[q] \in {records[q], stored'[q]}
  BY <1>3
<1>21. worker'.at # "check" /\ worker.at # "none" /\ worker'.req \in Requests
       /\ (worker'.cancelled => closed) /\ holder' # "worker"
  BY <1>3, <1>6, <1>8
<1> QED
  BY <1>3, <1>8, <1>9, <1>17, <1>18, <1>19, <1>20, <1>21, WorkerKeeps

(* The worker writes what became of it, as far as it knows.                 *)
LEMMA ReportKeeps ==
    ASSUME IInv, Report
    PROVE  IInv'
<1>1. /\ TypeOK /\ Stages /\ Locked /\ Remembered
      /\ \A r \in Requests : Right(r)
  BY DEF IInv
<1>2. PICK r \in Requests :
             /\ r = worker.req /\ OnWorker(r) /\ ~InQueue(r) /\ ~InBatch(r)
             /\ worker.receipt \in Receipts /\ Older(worker.receipt, r) /\ WellFormed(records[r])
             /\ records[r] = worker.receipt /\ records[r].status = "sending"
             /\ ~records[r].retryable
             /\ stored[r] = records[r] \/ stored[r].status = "uncertain"
             /\ given[r] \in Nat
             /\ worker.at # "report" => given[r] = 0
             /\ run \notin {"starting", "gone"} /\ mode = "native"
             /\ \A q \in Requests \ {r} : ~OnWorker(q)
  BY InHand DEF Report
<1>3. /\ worker.at = "report" /\ holder = "free" /\ holder' = holder /\ holder \notin Calls
      /\ UNCHANGED <<mode, queue, batch, ready, run, calls, given>>
      /\ given \in [Requests -> Nat] /\ worker \in Workers
      /\ closed \in BOOLEAN /\ (worker.cancelled => closed)
  BY <1>1, SteeringAssumption DEF Report, Stages, TypeOK
<1>4. /\ Unstarted(r) /\ Prompted(r) /\ Unsents(r) /\ Behind(r)
      /\ NotGiven(r) /\ Truthful(r) /\ Orderly(r) /\ Tracked(r)
  BY <1>1 DEF Right
<1>5. /\ worker.status \in {"received", "uncertain", "failed"}
      /\ worker.retryable \in BOOLEAN
      /\ worker.retryable => worker.status = "failed"
      /\ worker.status = "received" => given[r] = 1
      /\ worker.status = "failed" => given[r] = 0
  BY <1>1, <1>2, <1>3 DEF Right, OnItsWay, Workers
<1>6. /\ SavesOrNot(r, worker.receipt, worker.status, worker.retryable)
      /\ \/ records'[r] = stored'[r] /\ faults' = faults
         \/ records' = records /\ faults' = faults + 1
  <2>1. worker.status \in Open \cup Over
    BY <1>5 DEF Over
  <2> QED
    BY <1>2, <1>5, <2>1, SavesIs, SaveFailsIs DEF Report
<1>7. closed' = closed
  BY <1>3 DEF Report
<1>8. worker' \in Workers /\ worker'.at \in {"none", "idle"} /\ ~worker'.cancelled
  <2>1. worker' = NoWorker \/ worker' = [NoWorker EXCEPT !.at = "idle"]
    BY DEF Report
  <2> QED
    BY <2>1, NoWorkerIs
<1>9. /\ stored' \in [Requests -> Receipts] /\ Grown
      /\ records' \in [Requests -> Receipts]
      /\ faults' \in 0 .. MaxFaults /\ faults' \in {faults, faults + 1}
      /\ \A q \in Requests \ {r} : stored'[q] = stored[q] /\ records'[q] = records[q]
      /\ \/ stored'[r].status = worker.status /\ stored'[r].retryable = worker.retryable
         \/ stored'[r] = stored[r]
      /\ stored'[r] = stored[r] /\ faults' = faults => stored[r].status = "uncertain"
  <2>1. faults \in Nat
    BY <1>1 DEF TypeOK
  <2>2. Wrote(r, worker.receipt, worker.status, worker.retryable) /\ stored'[r] = stored[r] => FALSE
    BY <1>2, <1>5 DEF Wrote
  <2> QED
    BY <1>2, <1>6, <2>1, <2>2 DEF SavesOrNot, Wrote
<1>10. ~InQueue(r)' /\ ~InBatch(r)' /\ \A q \in Requests : ~OnWorker(q)'
  BY <1>2, <1>3, <1>8 DEF InQueue, InBatch, OnWorker
<1>11. WellFormed(stored'[r]) /\ WellFormed(stored[r])
  BY <1>1, <1>9 DEF Grown, Newer, Remembered
<1>12. Unstarted(r)' /\ Queued(r)' /\ Prompted(r)' /\ OnItsWay(r)'
  BY <1>2, <1>3, <1>10 DEF Unstarted, Queued, Prompted, OnItsWay
<1>13. NotGiven(r)' /\ Truthful(r)'
  BY <1>3, <1>4, <1>5, <1>9 DEF NotGiven, Truthful, Overlapped
<1>14. ~records'[r].status = "queued"
  BY <1>2, <1>5, <1>6, <1>9
<1>15. Unsents(r)'
  <2>1. CASE records' = records
    BY <1>2, <2>1 DEF Unsents, Unsent
  <2>2. CASE records'[r] = stored'[r] /\ stored'[r].status = worker.status
             /\ stored'[r].retryable = worker.retryable
    BY <1>3, <1>5, <1>10, <2>2 DEF Unsents, Unsent
  <2>3. CASE records'[r] = stored'[r] /\ stored[r].status = "uncertain" /\ stored'[r] = stored[r]
    BY <1>11, <2>3 DEF Unsents, Unsent, WellFormed
  <2> QED
    BY <1>6, <1>9, <2>1, <2>2, <2>3
<1>16. Behind(r)'
  BY <1>2, <1>3, <1>6, <1>10 DEF Behind, Unsent
<1>17. Orderly(r)'
  BY <1>2, <1>6, <1>10, <1>14 DEF Orderly
<1>18. Tracked(r)'
  <2>1. faults \in Nat
    BY <1>1 DEF TypeOK
  <2> QED
    BY <1>2, <1>3, <1>6, <2>1 DEF Tracked
<1>19. Right(r)'
  BY <1>12, <1>13, <1>15, <1>16, <1>17, <1>18 DEF Right
<1>20. \A q \in Requests : Untouched(q) \/ (records[q].status # "none" /\ Right(q)')
  BY <1>2, <1>3, <1>9, <1>10, <1>19 DEF Untouched, InQueue, InBatch
<1>21. \A q \in Requests : records'[q] \in {records[q], stored'[q]}
  BY <1>6, <1>9
<1> QED
  BY <1>3, <1>7, <1>8, <1>9, <1>20, <1>21, WorkerKeeps

(* The worker ends, or takes the first of the queue.                        *)
PickStops ==
    /\ worker' = NoWorker
    /\ UNCHANGED <<stored, records, queue, holder, faults>>
PickTakes(r) ==
    /\ ~closed /\ queue # <<>> /\ r = Head(queue) /\ queue' = Tail(queue)
    /\ \/ /\ Save(r, records[r], "sending", records[r].retryable)
          /\ IF stored'[r].status = "sending"
             THEN /\ holder' = "worker"
                  /\ worker' = [NoWorker EXCEPT !.at = "check", !.req = r,
                                                !.receipt = stored'[r]]
             ELSE UNCHANGED <<holder, worker>>
       \/ /\ SaveFails(r, records[r], "sending", records[r].retryable)
          /\ worker' = NoWorker
          /\ UNCHANGED holder

(* The two ways on of a worker that looks at the queue.                     *)
LEMMA PickIs ==
    ASSUME IInv, Pick
    PROVE  /\ worker.at = "idle" /\ holder = "free"
           /\ UNCHANGED <<mode, batch, closed, ready, run, calls, given>>
           /\ PickStops \/ \E r \in Requests : PickTakes(r)
<1>1. CASE closed \/ queue = <<>>
  BY <1>1 DEF Pick, PickStops
<1>2. CASE ~(closed \/ queue = <<>>)
  <2>1. queue \in Seq(Requests) /\ queue # <<>>
    BY <1>2 DEF IInv, TypeOK
  <2>2. PICK r \in Requests : r = Head(queue)
    BY <2>1
  <2>3. PickTakes(r)
    BY <1>2, <2>2 DEF Pick, PickTakes
  <2> QED
    BY <2>3 DEF Pick
<1> QED
  BY <1>1, <1>2

(* The worker takes from the queue only what it put on record as being      *)
(* sent.                                                                    *)
LEMMA PickKeeps ==
    ASSUME IInv, Pick
    PROVE  IInv'
<1>1. /\ TypeOK /\ Stages /\ Locked /\ Remembered /\ Once
      /\ \A r \in Requests : Right(r)
  BY DEF IInv
<1>2. /\ worker.at = "idle" /\ holder = "free" /\ holder \notin Calls
      /\ UNCHANGED <<mode, batch, closed, ready, run, calls, given>>
      /\ given \in [Requests -> Nat] /\ worker \in Workers /\ faults \in 0 .. MaxFaults
      /\ stored \in [Requests -> Receipts] /\ records \in [Requests -> Receipts]
      /\ queue \in Seq(Requests)
  BY <1>1, PickIs, SteeringAssumption DEF TypeOK
<1>3. run \notin {"starting", "gone"} /\ mode = "native" /\ batch = <<>>
      /\ (~closed => Live) /\ (worker.cancelled => closed)
  BY <1>1, <1>2, SteeringAssumption DEF Stages, TypeOK, Live
<1>4. CASE PickStops
  <2>1. worker' = NoWorker /\ UNCHANGED <<stored, records, queue, holder, faults>>
    BY <1>4 DEF PickStops
  <2>2. worker' \in Workers /\ worker'.at = "none" /\ ~worker'.cancelled
    BY <2>1, NoWorkerIs
  <2>3. \A q \in Requests : Untouched(q)
    BY <1>2, <2>1, <2>2 DEF Untouched, InQueue, InBatch, OnWorker
  <2>4. Grown
    BY <1>1, <2>1 DEF Grown, Newer, Remembered
  <2>5. /\ stored' \in [Requests -> Receipts] /\ records' \in [Requests -> Receipts]
        /\ given' \in [Requests -> Nat] /\ faults' \in 0 .. MaxFaults
        /\ faults' \in {faults, faults + 1}
        /\ \A q \in Requests : records'[q] \in {records[q], stored'[q]}
        /\ holder' # "worker"
    BY <1>2, <2>1
  <2> QED
    BY <1>2, <2>1, <2>2, <2>3, <2>4, <2>5, WorkerKeeps
<1>5. ASSUME NEW r \in Requests, PickTakes(r)
      PROVE  IInv'
  <2>1. ~closed /\ queue # <<>> /\ r = Head(queue) /\ queue' = Tail(queue) /\ Live
    BY <1>3, <1>5 DEF PickTakes
  <2>2. /\ DOMAIN queue = 1 .. Len(queue) /\ Len(queue) \in Nat \ {0} /\ r = queue[1]
        /\ DOMAIN queue' = 1 .. Len(queue) - 1
        /\ \A i \in DOMAIN queue' : queue'[i] = queue[i + 1]
    BY <1>2, <2>1
  <2>3. InQueue(r) /\ ~InQueue(r)' /\ \A q \in Requests : InQueue(q)' => InQueue(q)
    <3>1. 1 \in DOMAIN queue /\ \A i \in DOMAIN queue' : i + 1 \in DOMAIN queue /\ i + 1 # 1
      BY <2>2
    <3> QED
      BY <1>1, <2>2, <3>1 DEF InQueue, Once
  <2>4. /\ Unstarted(r) /\ Queued(r) /\ OnItsWay(r) /\ Prompted(r) /\ Unsents(r) /\ Behind(r)
        /\ NotGiven(r) /\ Truthful(r) /\ Orderly(r) /\ Tracked(r)
    BY <1>1 DEF Right
  <2>5. /\ records[r].status # "none" /\ records[r].retryable = FALSE /\ given[r] = 0
        /\ ~OnWorker(r) /\ ~InBatch(r) /\ ~InBatch(r)'
    <3>1. records[r].retryable \in BOOLEAN
      BY <1>2 DEF Receipts
    <3>2. ~OnWorker(r) /\ ~InBatch(r)
      BY <2>3, <2>4 DEF Queued
    <3> QED
      BY <1>2, <2>1, <2>3, <2>4, <3>1, <3>2 DEF Queued, InBatch
  <2>6. Older(records[r], r) /\ WellFormed(stored[r]) /\ WellFormed(records[r])
        /\ "sending" \in Open \cup Over
    BY <1>1 DEF Remembered, Older, Open
  <2>7. /\ SavesOrNot(r, records[r], "sending", FALSE)
        /\ \/ records'[r] = stored'[r] /\ faults' = faults
           \/ records' = records /\ faults' = faults + 1
    <3>1. \/ Save(r, records[r], "sending", FALSE)
          \/ SaveFails(r, records[r], "sending", FALSE)
      BY <1>5, <2>5 DEF PickTakes
    <3> QED
      BY <2>6, <3>1, SavesIs, SaveFailsIs
  <2>8. \/ /\ records'[r] = stored'[r] /\ stored'[r].status = "sending" /\ faults' = faults
           /\ holder' = "worker"
           /\ worker' = [NoWorker EXCEPT !.at = "check", !.req = r, !.receipt = stored'[r]]
        \/ /\ records'[r] = stored'[r] /\ stored'[r].status # "sending" /\ faults' = faults
           /\ holder' = holder /\ worker' = worker
        \/ /\ records' = records /\ faults' = faults + 1
           /\ holder' = holder /\ worker' = NoWorker
    <3>1. CASE Save(r, records[r], "sending", FALSE)
               /\ IF stored'[r].status = "sending"
                  THEN /\ holder' = "worker"
                       /\ worker' = [NoWorker EXCEPT !.at = "check", !.req = r,
                                                     !.receipt = stored'[r]]
                  ELSE UNCHANGED <<holder, worker>>
      BY <2>6, <3>1, SavesIs
    <3>2. CASE SaveFails(r, records[r], "sending", FALSE) /\ worker' = NoWorker
               /\ UNCHANGED holder
      BY <2>6, <3>2, SaveFailsIs
    <3> QED
      BY <1>5, <2>5, <3>1, <3>2 DEF PickTakes
  <2>9. /\ stored' \in [Requests -> Receipts] /\ Grown
        /\ records' \in [Requests -> Receipts]
        /\ faults' \in 0 .. MaxFaults /\ faults' \in {faults, faults + 1}
        /\ \A q \in Requests \ {r} : stored'[q] = stored[q] /\ records'[q] = records[q]
        /\ \/ stored'[r].status = "sending" /\ stored[r] = records[r]
           \/ stored'[r] = stored[r]
        /\ WellFormed(stored'[r]) /\ ~stored'[r].retryable
    <3>1. faults \in Nat
      BY <1>2
    <3>2. /\ stored' \in [Requests -> Receipts] /\ Grown
          /\ records' \in [Requests -> Receipts]
          /\ faults' \in 0 .. MaxFaults /\ faults' \in {faults, faults + 1}
          /\ \A q \in Requests \ {r} : stored'[q] = stored[q] /\ records'[q] = records[q]
          /\ \/ stored'[r].status = "sending" /\ stored[r] = records[r]
             \/ stored'[r] = stored[r]
      BY <2>7 DEF SavesOrNot, Wrote
    <3>3. WellFormed(stored'[r])
      BY <3>2 DEF Grown, Newer
    <3>4. ~stored'[r].retryable
      <4>1. CASE stored'[r].status = "sending"
        BY <3>3, <4>1 DEF WellFormed
      <4>2. CASE stored'[r] = stored[r] /\ stored[r] = records[r]
        BY <2>5, <4>2
      <4>3. CASE stored'[r] = stored[r] /\ stored[r] # records[r]
        BY <2>1, <2>3, <2>4, <4>3 DEF Behind, Unsent
      <4> QED
        BY <3>2, <4>1, <4>2, <4>3
    <3> QED
      BY <3>1, <3>2, <3>3, <3>4
  <2>10. Right(r)'
    <3>1. Unstarted(r)' /\ Queued(r)' /\ Prompted(r)' /\ NotGiven(r)'
      BY <1>2, <1>3, <2>3, <2>5 DEF Unstarted, Queued, Prompted, NotGiven
    <3>2. Truthful(r)'
      BY <1>2, <2>4, <2>5, <2>9 DEF Truthful
    <3>3. OnItsWay(r)'
      <4>1. CASE worker' = [NoWorker EXCEPT !.at = "check", !.req = r, !.receipt = stored'[r]]
                 /\ records'[r] = stored'[r] /\ stored'[r].status = "sending"
        <5>1. worker'.at = "check" /\ worker'.receipt = stored'[r]
          BY <4>1 DEF NoWorker
        <5> QED
          BY <1>2, <2>5, <4>1, <5>1 DEF OnItsWay
      <4>2. CASE worker' = worker \/ worker' = NoWorker
        BY <1>2, <4>2, NoWorkerIs DEF OnItsWay, OnWorker
      <4> QED
        BY <2>8, <4>1, <4>2
    <3>4. records' # records => records'[r] = stored'[r] /\ faults' = faults
      BY <2>8
    <3>5. Unsents(r)'
      <4>1. CASE records'[r] = stored'[r] /\ stored'[r].status = "sending"
        BY <2>9, <4>1 DEF Unsents, Unsent
      <4>2. CASE worker' = worker \/ worker' = NoWorker
        BY <1>2, <2>5, <4>2, NoWorkerIs DEF Unsents, OnWorker
      <4> QED
        BY <2>8, <4>1, <4>2
    <3>6. Behind(r)'
      <4>1. CASE records'[r] = stored'[r]
        BY <4>1 DEF Behind
      <4>2. CASE records' = records
        <5>1. stored'[r].status = "sending" \/ stored'[r] = stored[r]
          BY <2>9
        <5>2. CASE stored'[r].status = "sending"
          BY <2>3, <2>9, <5>2 DEF Behind, Unsent
        <5>3. CASE stored'[r] = stored[r]
          BY <2>1, <2>3, <2>4, <4>2, <5>3 DEF Behind, Unsent
        <5> QED
          BY <5>1, <5>2, <5>3
      <4> QED
        BY <2>8, <4>1, <4>2
    <3>7. Orderly(r)'
      <4> SUFFICES ASSUME ~Overlapped
                   PROVE  Orderly(r)'
        BY <1>2 DEF Orderly, Overlapped
      <4>1. CASE records'[r] = stored'[r]
        BY <2>3, <2>5, <4>1 DEF Orderly
      <4>2. CASE records' = records
        <5>1. stored'[r] = records[r] \/ stored'[r].status = "sending"
          BY <2>1, <2>3, <2>4, <2>9 DEF Orderly
        <5> QED
          BY <2>3, <2>5, <4>2, <5>1 DEF Orderly
      <4> QED
        BY <2>8, <4>1, <4>2
    <3>8. Tracked(r)'
      <4>1. faults \in Nat
        BY <1>2
      <4> QED
        BY <1>2, <1>3, <2>8, <4>1 DEF Tracked
    <3> QED
      BY <3>1, <3>2, <3>3, <3>5, <3>6, <3>7, <3>8 DEF Right
  <2>11. /\ worker' \in Workers /\ (worker'.cancelled => closed)
         /\ worker'.at \in {"check", "delivering", "report"} => worker'.req = r
         /\ worker'.at = "check" <=> holder' = "worker"
         /\ holder' \in {"free", "worker"}
    <3>1. CASE worker' = [NoWorker EXCEPT !.at = "check", !.req = r, !.receipt = stored'[r]]
               /\ holder' = "worker"
      <4>1. stored'[r] \in Receipts
        BY <2>9
      <4>2. worker' \in Workers /\ worker'.at = "check" /\ ~worker'.cancelled /\ worker'.req = r
        BY <3>1, <4>1 DEF NoWorker, Workers
      <4> QED
        BY <3>1, <4>2
    <3>2. CASE worker' = worker /\ holder' = holder
      BY <1>2, <1>3, <3>2
    <3>3. CASE worker' = NoWorker /\ holder' = holder
      BY <1>2, <3>3, NoWorkerIs
    <3> QED
      BY <2>8, <3>1, <3>2, <3>3
  <2>12. \A q \in Requests \ {r} : ~OnWorker(q)'
    BY <2>11 DEF OnWorker
  <2>13. \A q \in Requests : Untouched(q) \/ (records[q].status # "none" /\ Right(q)')
    BY <1>2, <2>3, <2>5, <2>9, <2>10, <2>12 DEF Untouched, InBatch
  <2>14. \A q \in Requests : records'[q] \in {records[q], stored'[q]}
    BY <2>8, <2>9
  <2>15. given' \in [Requests -> Nat] /\ worker.at # "none"
         /\ (worker'.at \in {"check", "delivering", "report"} => worker'.req \in Requests)
    BY <1>2, <2>11
  <2> QED
    BY <1>2, <2>1, <2>9, <2>11, <2>13, <2>14, <2>15, WorkerKeeps
<1> QED
  BY <1>4, <1>5, PickIs
-----------------------------------------------------------------------------
(* A step of the run that is no worker's and waits for the lock, if it      *)
(* writes.                                                                  *)
LEMMA TurnKeeps ==
    ASSUME IInv, run \notin {"starting", "gone"}, worker.at = "none",
           UNCHANGED <<mode, holder, worker, calls>>,
           stored' \in [Requests -> Receipts], Grown,
           records' \in [Requests -> Receipts],
           given' \in [Requests -> Nat],
           faults' \in 0 .. MaxFaults, faults' \in {faults, faults + 1},
           queue' = queue \/ queue' = <<>>,
           batch' = batch \/ batch' = <<>> \/ batch' = queue,
           closed' \in BOOLEAN, ready' \in BOOLEAN, closed => closed',
           Stages', run' # "starting", Live' => Live,
           run' \in {"attached", "turn", "boundary", "prompting", "closing", "cancelled", "gone"},
           run' = "gone" => closed',
           holder \notin Calls \/ UNCHANGED <<stored, records>>,
           \A r \in Requests : records'[r] \in {records[r], stored'[r]},
           \A r \in Requests : \/ Untouched(r) /\ EndsWith(r)
                               \/ records[r].status # "none" /\ Right(r)'
    PROVE  IInv'
<1>1. /\ TypeOK /\ Locked /\ Remembered /\ Alone /\ Once
      /\ \A d \in Calls : Attends(d) /\ Decides(d)
      /\ \A r \in Requests : Right(r)
  BY DEF IInv
<1>2. faults \in Nat /\ queue \in Seq(Requests) /\ batch \in Seq(Requests) /\ <<>> \in Seq(Requests)
  BY <1>1 DEF TypeOK
<1>3. TypeOK'
  <2>1. queue' \in Seq(Requests) /\ batch' \in Seq(Requests)
    BY <1>2
  <2> QED
    BY <1>1, <2>1 DEF TypeOK
<1>4. Locked'
  BY <1>1 DEF Locked
<1>5. Remembered'
  <2>1. \A d \in Calls : Calling(d)' =>
            Calling(d) /\ calls'[d].req = calls[d].req /\ calls'[d].seen = calls[d].seen
    BY DEF Calling
  <2> QED
    BY <1>1, <2>1, RememberedStays
<1>6. Alone'
  <2> SUFFICES ASSUME ~Overlapped
               PROVE  Alone'
    BY DEF Alone, Overlapped
  <2>1. \A d, e \in Calls : Calling(d)' /\ Calling(e)' /\ calls'[d].req = calls'[e].req => d = e
    BY <1>1 DEF Alone, Calling
  <2>2. ASSUME NEW d \in Calls, Calling(d), ~calls[d].attached
        PROVE  /\ calls[d].at # "settle"
               /\ records'[calls[d].req].status = "none"
               /\ ~Pends(stored'[calls[d].req])
    <3>1. /\ calls[d].req \in Requests
          /\ calls[d].at # "settle"
          /\ records[calls[d].req].status = "none"
          /\ ~Pends(stored[calls[d].req])
      BY <1>1, <2>2 DEF Alone, Attends
    <3>2. Untouched(calls[d].req)
      BY <3>1
    <3> QED
      BY <3>1, <3>2 DEF Untouched, Pends
  <2>3. \A d \in Calls : Calling(d)' /\ ~calls'[d].attached /\ run' # "gone" =>
               /\ calls'[d].at # "settle"
               /\ records'[calls'[d].req].status = "none"
               /\ ~Pends(stored'[calls'[d].req])
    BY <2>2 DEF Calling
  <2> QED
    BY <2>1, <2>3 DEF Alone, Pends
<1>7. Once'
  BY <1>1 DEF Once
<1>8. \A d \in Calls : Attends(d)' /\ Decides(d)'
  <2> SUFFICES ASSUME NEW d \in Calls
               PROVE  Attends(d)' /\ Decides(d)'
    OBVIOUS
  <2>1. Attends(d)'
    BY <1>1, CallStays
  <2>2. CASE UNCHANGED <<stored, records>>
    BY <1>1, <2>1, <2>2 DEF Decides, Overlapped, Unsent
  <2>3. CASE holder \notin Calls
    <3>1. calls[d].at # "decide"
      BY <1>1, <2>3, NoneDecides
    <3> QED
      BY <2>1, <3>1 DEF Decides
  <2> QED
    BY <2>1, <2>2, <2>3
<1>9. Onward
  BY <1>2 DEF Onward, Overlapped
<1>10. \A r \in Requests : Right(r)'
  BY <1>1, <1>9, UntouchedKeeps
<1> QED
  BY <1>3, <1>4, <1>5, <1>6, <1>7, <1>8, <1>10 DEF IInv

(* Several receipts saved in a row, or some of them.                        *)
SavedEach(S, status) ==
    /\ stored' \in [Requests -> Receipts] /\ Grown
    /\ records' \in [Requests -> Receipts]
    /\ faults' \in 0 .. MaxFaults
    /\ \A r \in Requests \ S : stored'[r] = stored[r] /\ records'[r] = records[r]
    /\ \A r \in S : \/ Wrote(r, records[r], status[r], FALSE)
                    \/ /\ stored'[r] = stored[r]
                       /\ stored[r] # records[r] \/ faults' = faults + 1
    /\ \/ faults' = faults /\ \A r \in S : records'[r] = stored'[r]
       \/ faults' = faults + 1 /\ \A r \in S : records'[r] \in {records[r], stored'[r]}

(* SaveAll and SaveAllFails, of statuses given as a function.               *)
StoresEach(S, status) ==
    stored' = [r \in Requests |->
                  IF r \in S THEN Persisted(r, records[r], status[r], FALSE) ELSE stored[r]]
SavesEach(S, status) ==
    /\ StoresEach(S, status)
    /\ records' = [r \in Requests |-> IF r \in S THEN stored'[r] ELSE records[r]]
    /\ faults' = faults
FailsEach(S, status) ==
    /\ faults < MaxFaults /\ faults' = faults + 1
    /\ \E saved \in SUBSET S, written \in SUBSET S :
         /\ saved \subseteq written
         /\ StoresEach(written, status)
         /\ records' = [r \in Requests |-> IF r \in saved THEN stored'[r] ELSE records[r]]

(* What a row of writes changes, if it fails or not.                        *)
LEMMA SavedEachIs ==
    ASSUME IInv, NEW S \in SUBSET Requests, NEW status \in [Requests -> Open \cup Over],
           SavesEach(S, status) \/ FailsEach(S, status)
    PROVE  SavedEach(S, status)
<1>1. /\ stored \in [Requests -> Receipts] /\ records \in [Requests -> Receipts]
      /\ faults \in 0 .. MaxFaults /\ MaxFaults \in Nat /\ Remembered
  BY SteeringAssumption DEF IInv, TypeOK
<1>2. ASSUME NEW T \in SUBSET S, StoresEach(T, status)
      PROVE  /\ stored' \in [Requests -> Receipts] /\ Grown
             /\ \A r \in Requests \ T : stored'[r] = stored[r]
             /\ \A r \in T : \/ Wrote(r, records[r], status[r], FALSE)
                             \/ stored'[r] = stored[r] /\ stored[r] # records[r]
  <2>1. stored' = [r \in Requests |-> IF r \in T THEN Persisted(r, records[r], status[r], FALSE)
                                      ELSE stored[r]]
    BY <1>2 DEF StoresEach
  <2>2. T \in SUBSET Requests
    OBVIOUS
  <2> QED
    BY <1>1, <2>1, <2>2, SaveAllIs
<1>3. CASE SavesEach(S, status)
  <2>1. /\ StoresEach(S, status)
        /\ records' = [r \in Requests |-> IF r \in S THEN stored'[r] ELSE records[r]]
        /\ faults' = faults
    BY <1>3 DEF SavesEach
  <2>2. /\ stored' \in [Requests -> Receipts] /\ Grown
        /\ \A r \in Requests \ S : stored'[r] = stored[r]
        /\ \A r \in S : \/ Wrote(r, records[r], status[r], FALSE)
                        \/ stored'[r] = stored[r] /\ stored[r] # records[r]
    BY <1>2, <2>1
  <2>3. /\ records' \in [Requests -> Receipts]
        /\ \A r \in Requests \ S : records'[r] = records[r]
        /\ \A r \in S : records'[r] = stored'[r]
    BY <1>1, <2>1, <2>2
  <2> QED
    BY <1>1, <2>1, <2>2, <2>3 DEF SavedEach
<1>4. CASE FailsEach(S, status)
  <2>1. PICK saved \in SUBSET S, written \in SUBSET S :
         /\ saved \subseteq written
         /\ StoresEach(written, status)
         /\ records' = [r \in Requests |-> IF r \in saved THEN stored'[r] ELSE records[r]]
    BY <1>4 DEF FailsEach
  <2>2. faults' = faults + 1 /\ faults' \in 0 .. MaxFaults
    BY <1>1, <1>4 DEF FailsEach
  <2>3. /\ stored' \in [Requests -> Receipts] /\ Grown
        /\ \A r \in Requests \ written : stored'[r] = stored[r]
        /\ \A r \in written : \/ Wrote(r, records[r], status[r], FALSE)
                              \/ stored'[r] = stored[r] /\ stored[r] # records[r]
    BY <1>2, <2>1
  <2>4. /\ records' \in [Requests -> Receipts]
        /\ \A r \in Requests : records'[r] \in {records[r], stored'[r]}
        /\ \A r \in Requests \ S : records'[r] = records[r]
    BY <1>1, <2>1, <2>3
  <2> QED
    BY <2>2, <2>3, <2>4 DEF SavedEach
<1> QED
  BY <1>3, <1>4

(* next_boundary ends the run, or makes the queue the next prompt, or fails.*)
LEMMA NextBoundaryIs ==
    ASSUME IInv, NextBoundary
    PROVE  /\ run = "boundary" /\ holder = "free"
           /\ UNCHANGED <<mode, holder, worker, calls, given>>
           /\ \/ /\ run' = "closing" /\ closed' = TRUE /\ ready' = TRUE
                 /\ UNCHANGED <<stored, records, queue, batch, faults>>
              \/ /\ batch' = queue /\ queue' = <<>>
                 /\ SavedEach(Members(queue), [r \in Requests |-> "sending"])
                 /\ \/ /\ run' = "prompting" /\ faults' = faults
                       /\ UNCHANGED <<closed, ready>>
                    \/ run' = "closing" /\ closed' = TRUE /\ ready' = TRUE
<1> DEFINE S == Members(queue)
           status == [r \in Requests |-> "sending"]
<1>1. queue \in Seq(Requests)
  BY DEF IInv, TypeOK
<1>2. S \in SUBSET Requests
  BY <1>1 DEF Members
<1>3. status \in [Requests -> Open \cup Over] /\ \A r \in Requests : status[r] = "sending"
  BY DEF Open
<1>4. /\ run = "boundary" /\ holder = "free"
      /\ UNCHANGED <<mode, holder, worker, calls, given>>
  BY DEF NextBoundary
<1>5. CASE queue = <<>>
  BY <1>4, <1>5 DEF NextBoundary, StopAccepting
<1>6. CASE queue # <<>>
  <2>1. /\ batch' = queue /\ queue' = <<>>
        /\ \/ /\ SavesEach(S, status)
              /\ run' = "prompting" /\ UNCHANGED <<closed, ready>>
           \/ /\ FailsEach(S, status)
              /\ run' = "closing" /\ closed' = TRUE /\ ready' = TRUE
    <3>1. \A T \in SUBSET S :
            [r \in Requests |-> IF r \in T THEN Persisted(r, records[r], "sending", FALSE)
                                ELSE stored[r]]
            = [r \in Requests |-> IF r \in T THEN Persisted(r, records[r], status[r], FALSE)
                                  ELSE stored[r]]
      BY <1>3
    <3>2. batch' = queue /\ queue' = <<>>
      BY <1>6 DEF NextBoundary
    <3> HIDE DEF S, status
    <3>3. \/ /\ stored' = [r \in Requests |->
                  IF r \in S THEN Persisted(r, records[r], "sending", FALSE) ELSE stored[r]]
             /\ records' = [r \in Requests |-> IF r \in S THEN stored'[r] ELSE records[r]]
             /\ faults' = faults
             /\ run' = "prompting" /\ UNCHANGED <<closed, ready>>
          \/ /\ faults < MaxFaults /\ faults' = faults + 1
             /\ \E saved \in SUBSET S, written \in SUBSET S :
                  /\ saved \subseteq written
                  /\ stored' = [r \in Requests |->
                        IF r \in written THEN Persisted(r, records[r], "sending", FALSE)
                        ELSE stored[r]]
                  /\ records' = [r \in Requests |-> IF r \in saved THEN stored'[r] ELSE records[r]]
             /\ run' = "closing" /\ closed' = TRUE /\ ready' = TRUE
      <4>1. \/ /\ SaveAll(S, LAMBDA r : "sending")
               /\ run' = "prompting" /\ UNCHANGED <<closed, ready>>
            \/ /\ SaveAllFails(S, LAMBDA r : "sending")
               /\ run' = "closing" /\ StopAccepting
        BY <1>6 DEF NextBoundary, S
      <4> QED
        BY <4>1 DEF SaveAll, SaveAllFails, StopAccepting
    <3> QED
      BY <3>1, <3>2, <3>3 DEF SavesEach, FailsEach, StoresEach
  <2>2. SavedEach(S, status)
    BY <1>2, <1>3, <2>1, SavedEachIs
  <2> QED
    BY <1>4, <2>1, <2>2 DEF SavesEach
<1> QED
  BY <1>5, <1>6

(* Between the turns nothing is on its way to the harness but the prompt.   *)
LEMMA BetweenTurns ==
    ASSUME IInv, run \in {"boundary", "prompting"} \/ batch # <<>>
    PROVE  /\ mode = "boundary" /\ worker.at = "none"
           /\ \A r \in Requests : ~OnWorker(r) /\ (worker' = worker => ~OnWorker(r)')
<1>1. mode = "boundary" /\ worker.at = "none"
  BY SteeringAssumption DEF IInv, TypeOK, Stages
<1> QED
  BY <1>1 DEF OnWorker

(* It keeps the invariant: what becomes the prompt was queued, and is no    *)
(* longer.                                                                  *)
LEMMA NextBoundaryKeeps ==
    ASSUME IInv, NextBoundary
    PROVE  IInv'
<1>1. /\ TypeOK /\ Stages /\ Remembered
      /\ \A r \in Requests : Right(r)
  BY DEF IInv
<1>2. PICK S, status :
        /\ S = Members(queue) /\ status = [r \in Requests |-> "sending"]
        /\ run = "boundary" /\ holder = "free"
        /\ UNCHANGED <<mode, holder, worker, calls, given>>
        /\ \/ /\ run' = "closing" /\ closed' = TRUE /\ ready' = TRUE
              /\ UNCHANGED <<stored, records, queue, batch, faults>>
           \/ /\ batch' = queue /\ queue' = <<>>
              /\ SavedEach(S, status)
              /\ \/ /\ run' = "prompting" /\ faults' = faults
                    /\ UNCHANGED <<closed, ready>>
                 \/ run' = "closing" /\ closed' = TRUE /\ ready' = TRUE
  BY NextBoundaryIs
<1>3. /\ stored \in [Requests -> Receipts] /\ records \in [Requests -> Receipts]
      /\ given \in [Requests -> Nat] /\ faults \in 0 .. MaxFaults /\ faults \in Nat
      /\ closed \in BOOLEAN /\ ready \in BOOLEAN
      /\ holder \notin Calls /\ queue \in Seq(Requests) /\ Live
  BY <1>1, <1>2, SteeringAssumption DEF TypeOK, Live
<1>4. /\ mode = "boundary" /\ worker.at = "none"
      /\ \A r \in Requests : ~OnWorker(r) /\ ~OnWorker(r)'
  BY <1>2, BetweenTurns
<1>5. CASE /\ run' = "closing" /\ closed' = TRUE /\ ready' = TRUE
           /\ UNCHANGED <<stored, records, queue, batch, faults>>
  <2>1. \A r \in Requests : Untouched(r) /\ EndsWith(r)
    BY <1>2, <1>4, <1>5 DEF Untouched, EndsWith, InQueue, InBatch
  <2>2. Grown
    BY <1>1, <1>5 DEF Grown, Newer, Remembered
  <2>3. Stages' /\ ~Live'
    BY <1>1, <1>2, <1>4, <1>5 DEF Stages, Live
  <2>4. /\ stored' \in [Requests -> Receipts] /\ records' \in [Requests -> Receipts]
        /\ given' \in [Requests -> Nat] /\ faults' \in 0 .. MaxFaults
        /\ \A r \in Requests : records'[r] \in {records[r], stored'[r]}
        /\ run \notin {"starting", "gone"}
    BY <1>2, <1>3, <1>5
  <2> QED
    BY <1>2, <1>3, <1>4, <1>5, <2>1, <2>2, <2>3, <2>4, TurnKeeps
<1>6. CASE /\ batch' = queue /\ queue' = <<>>
           /\ SavedEach(S, status)
           /\ \/ /\ run' = "prompting" /\ faults' = faults
                 /\ UNCHANGED <<closed, ready>>
              \/ run' = "closing" /\ closed' = TRUE /\ ready' = TRUE
  <2>1. /\ stored' \in [Requests -> Receipts] /\ Grown
        /\ records' \in [Requests -> Receipts] /\ faults' \in 0 .. MaxFaults
        /\ faults' \in {faults, faults + 1}
        /\ \A r \in Requests \ S : stored'[r] = stored[r] /\ records'[r] = records[r]
        /\ \A r \in Requests : records'[r] \in {records[r], stored'[r]}
    BY <1>6 DEF SavedEach
  <2>2. \A r \in Requests : /\ r \in S <=> InQueue(r)
                            /\ ~InQueue(r)'
                            /\ InBatch(r)' <=> InQueue(r)
    BY <1>2, <1>3, <1>6 DEF Members, InQueue, InBatch
  <2>3. \A r \in Requests \ S : Untouched(r) /\ EndsWith(r)
    BY <1>2, <1>4, <1>6, <2>1, <2>2 DEF Untouched, EndsWith
  <2>4. ASSUME NEW r \in Requests, r \in S
        PROVE  records[r].status # "none" /\ Right(r)'
    <3>1. /\ Unstarted(r) /\ Queued(r) /\ Unsents(r) /\ Behind(r)
          /\ NotGiven(r) /\ Truthful(r) /\ Orderly(r) /\ Tracked(r) /\ InQueue(r)
      BY <1>1, <2>2, <2>4 DEF Right
    <3>2. records[r].status # "none" /\ ~records[r].retryable /\ given[r] = 0 /\ given'[r] = 0
      BY <1>2, <1>3, <3>1 DEF Queued
    <3>3. \/ stored'[r].status = "sending" /\ ~stored'[r].retryable
          \/ stored'[r] = stored[r] /\ (stored[r] # records[r] \/ faults' = faults + 1)
      BY <1>2, <1>6, <2>4 DEF SavedEach, Wrote
    <3>4. Unstarted(r)' /\ Queued(r)' /\ OnItsWay(r)' /\ Prompted(r)' /\ NotGiven(r)'
      BY <1>4, <1>6, <2>2, <3>2 DEF Unstarted, Queued, OnItsWay, Prompted, NotGiven
    <3>5. Truthful(r)'
      BY <1>2, <3>1, <3>2, <3>3 DEF Truthful
    <3>6. CASE run' = "closing"
      <4>1. Unsents(r)' /\ Behind(r)' /\ Orderly(r)'
        BY <3>6 DEF Unsents, Behind, Orderly, Live
      <4>2. Tracked(r)'
        <5>1. CASE faults' = faults
          <6>1. records'[r] = stored'[r]
            BY <1>3, <1>6, <2>4, <5>1 DEF SavedEach
          <6> QED
            BY <3>6, <6>1 DEF Tracked
        <5>2. CASE faults' = faults + 1
          BY <1>3, <5>2 DEF Tracked
        <5> QED
          BY <2>1, <5>1, <5>2
      <4> QED
        BY <3>2, <3>4, <3>5, <4>1, <4>2 DEF Right
    <3>7. CASE run' = "prompting" /\ faults' = faults
      <4>1. records'[r] = stored'[r]
        BY <1>3, <1>6, <2>4, <3>7 DEF SavedEach
      <4>2. stored'[r] = stored[r] => stored[r] # records[r] \/ stored'[r].status = "sending"
        BY <1>3, <3>3, <3>7
      <4>3. ~Unsent(stored'[r])
        BY <1>3, <3>1, <3>3, <3>7 DEF Behind, Unsent
      <4>4. Behind(r)' /\ Tracked(r)' /\ Unsents(r)'
        BY <3>7, <4>1, <4>3 DEF Behind, Tracked, Unsents
      <4>5. ~Overlapped => stored'[r].status = "sending"
        BY <1>3, <3>1, <3>3, <3>7 DEF Orderly
      <4>6. Overlapped' <=> Overlapped
        BY <1>2 DEF Overlapped
      <4>7. Orderly(r)'
        BY <2>2, <4>1, <4>3, <4>5, <4>6 DEF Orderly, Unsent
      <4> QED
        BY <3>2, <3>4, <3>5, <4>4, <4>7 DEF Right
    <3> QED
      BY <1>6, <3>6, <3>7
  <2>5. Stages' /\ (Live' => Live)
    BY <1>1, <1>2, <1>3, <1>4, <1>6 DEF Stages, Live
  <2>6. /\ given' \in [Requests -> Nat] /\ run \notin {"starting", "gone"}
        /\ run' \in {"prompting", "closing"}
    BY <1>2, <1>3, <1>6
  <2>7. closed' \in BOOLEAN /\ ready' \in BOOLEAN /\ (closed => closed')
    <3>1. CASE UNCHANGED <<closed, ready>>
      BY <1>3, <3>1
    <3>2. CASE closed' = TRUE /\ ready' = TRUE
      BY <3>2
    <3> QED
      BY <1>6, <3>1, <3>2
  <2>8. \A r \in Requests : \/ Untouched(r) /\ EndsWith(r)
                            \/ records[r].status # "none" /\ Right(r)'
    BY <2>3, <2>4
  <2> QED
    BY <1>2, <1>3, <1>4, <1>6, <2>1, <2>5, <2>6, <2>8, <2>7, TurnKeeps
<1> QED
  BY <1>2, <1>5, <1>6

(* The prompt gives each of its instructions once.                          *)
LEMMA PromptKeeps ==
    ASSUME IInv, Prompt
    PROVE  IInv'
<1>1. /\ TypeOK /\ Stages /\ Remembered /\ Once
      /\ \A r \in Requests : Right(r)
  BY DEF IInv
<1>2. /\ run = "prompting" /\ run' = "turn"
      /\ UNCHANGED <<mode, stored, records, queue, batch, closed, ready, holder, worker,
                     calls, faults>>
      /\ given' = [r \in Requests |->
                      given[r] + Cardinality({i \in DOMAIN batch : batch[i] = r})]
  BY DEF Prompt, memory
<1>3. /\ stored \in [Requests -> Receipts] /\ records \in [Requests -> Receipts]
      /\ given \in [Requests -> Nat] /\ faults \in 0 .. MaxFaults /\ faults \in Nat
      /\ closed \in BOOLEAN /\ ready \in BOOLEAN
  BY <1>1, SteeringAssumption DEF TypeOK
<1>4. /\ mode = "boundary" /\ worker.at = "none" /\ Live /\ Live'
      /\ \A r \in Requests : ~OnWorker(r) /\ ~OnWorker(r)'
  BY <1>2, BetweenTurns DEF Live
<1>5. \A r \in Requests : Cardinality({i \in DOMAIN batch : batch[i] = r}) =
                              IF InBatch(r) THEN 1 ELSE 0
  <2> SUFFICES ASSUME NEW r \in Requests
               PROVE  Cardinality({i \in DOMAIN batch : batch[i] = r}) =
                          IF InBatch(r) THEN 1 ELSE 0
    OBVIOUS
  <2>1. CASE InBatch(r)
    <3>1. PICK j \in DOMAIN batch : batch[j] = r
      BY <2>1 DEF InBatch
    <3>2. {i \in DOMAIN batch : batch[i] = r} = {j}
      BY <1>1, <3>1 DEF Once
    <3> QED
      BY <2>1, <3>2, FS_Singleton
  <2>2. CASE ~InBatch(r)
    <3>1. {i \in DOMAIN batch : batch[i] = r} = {}
      BY <2>2 DEF InBatch
    <3> QED
      BY <2>2, <3>1, FS_EmptySet
  <2> QED
    BY <2>1, <2>2
<1>6. /\ given' \in [Requests -> Nat]
      /\ \A r \in Requests : given'[r] = IF InBatch(r) THEN given[r] + 1 ELSE given[r]
  <2>1. \A r \in Requests : given'[r] = given[r] + Cardinality({i \in DOMAIN batch : batch[i] = r})
    BY <1>2
  <2>2. \A r \in Requests : /\ given[r] \in Nat
                            /\ Cardinality({i \in DOMAIN batch : batch[i] = r}) \in Nat
                            /\ given'[r] = IF InBatch(r) THEN given[r] + 1 ELSE given[r]
    BY <1>3, <1>5, <2>1
  <2> QED
    BY <1>2, <2>2
<1>7. ASSUME NEW r \in Requests, InBatch(r)
      PROVE  records[r].status # "none" /\ Right(r)'
  <2>1. /\ Unstarted(r) /\ Queued(r) /\ Prompted(r) /\ Unsents(r) /\ Behind(r)
        /\ NotGiven(r) /\ Truthful(r) /\ Orderly(r) /\ Tracked(r)
    BY <1>1 DEF Right
  <2>2. given[r] = 0 /\ given'[r] = 1 /\ InBatch(r)'
    BY <1>2, <1>6, <1>7, <2>1 DEF Prompted, InBatch
  <2>3. ~Unsent(records[r]) /\ ~InQueue(r) /\ ~InQueue(r)'
    BY <1>2, <1>4, <1>7, <2>1 DEF Unsents, Queued, InQueue
  <2>4. Unstarted(r)' /\ Queued(r)' /\ OnItsWay(r)' /\ Prompted(r)'
    BY <1>2, <1>4, <2>2, <2>3 DEF Unstarted, Queued, OnItsWay, Prompted
  <2>5. Unsents(r)' /\ Behind(r)'
    BY <1>2, <1>4, <2>1, <2>3 DEF Unsents, Behind, Unsent
  <2>6. NotGiven(r)'
    <3>1. ~Overlapped => stored[r].status = "sending"
      BY <1>2, <1>4, <1>7, <2>1 DEF Orderly
    <3> QED
      BY <1>2, <1>4, <3>1 DEF NotGiven, Overlapped
  <2>7. Truthful(r)'
    BY <2>2 DEF Truthful
  <2>8. Orderly(r)' /\ Tracked(r)'
    BY <1>2, <1>4, <2>1, <2>3 DEF Orderly, Tracked, Overlapped, Pends
  <2> QED
    BY <2>3, <2>4, <2>5, <2>6, <2>7, <2>8 DEF Right, Unsent
<1>8. ASSUME NEW r \in Requests, ~InBatch(r)
      PROVE  Untouched(r) /\ EndsWith(r)
  BY <1>2, <1>4, <1>6, <1>8 DEF Untouched, EndsWith, InQueue, InBatch
<1>9. Grown
  BY <1>1, <1>2 DEF Grown, Newer, Remembered
<1>10. Stages'
  BY <1>1, <1>2, <1>4 DEF Stages, Live
<1>11. \A r \in Requests : \/ Untouched(r) /\ EndsWith(r)
                           \/ records[r].status # "none" /\ Right(r)'
  BY <1>7, <1>8
<1>12. /\ stored' \in [Requests -> Receipts] /\ records' \in [Requests -> Receipts]
       /\ faults' \in 0 .. MaxFaults
       /\ closed' \in BOOLEAN /\ ready' \in BOOLEAN /\ (closed => closed')
       /\ \A r \in Requests : records'[r] \in {records[r], stored'[r]}
  BY <1>2, <1>3
<1> QED
  BY <1>2, <1>4, <1>6, <1>9, <1>10, <1>11, <1>12, TurnKeeps

(* boundary_received settles what is being sent, or fails.                  *)
LEMMA BoundaryReceivedIs ==
    ASSUME IInv, BoundaryReceived
    PROVE  \E due \in SUBSET Requests :
             /\ due = {r \in Members(batch) : records[r].status = "sending"}
             /\ run = "turn" /\ batch # <<>> /\ holder = "free"
             /\ UNCHANGED <<mode, queue, holder, worker, calls, given>>
             /\ SavedEach(due, [r \in Requests |-> "received"])
             /\ \/ /\ batch' = <<>> /\ faults' = faults
                   /\ UNCHANGED <<run, closed, ready>>
                \/ /\ run' = "closing" /\ closed' = TRUE /\ ready' = TRUE /\ faults' = faults + 1
                   /\ batch' = batch
<1> DEFINE S == {r \in Members(batch) : records[r].status = "sending"}
           status == [r \in Requests |-> "received"]
<1>1. batch \in Seq(Requests)
  BY DEF IInv, TypeOK
<1>2. S \in SUBSET Requests
  BY <1>1 DEF Members
<1>3. status \in [Requests -> Open \cup Over] /\ \A r \in Requests : status[r] = "received"
  BY DEF Over
<1>4. /\ run = "turn" /\ batch # <<>> /\ holder = "free"
      /\ UNCHANGED <<mode, queue, holder, worker, calls, given>>
  BY DEF BoundaryReceived
<1>5. \A T \in SUBSET S :
        [r \in Requests |-> IF r \in T THEN Persisted(r, records[r], "received", FALSE)
                            ELSE stored[r]]
        = [r \in Requests |-> IF r \in T THEN Persisted(r, records[r], status[r], FALSE)
                              ELSE stored[r]]
  BY <1>3
<1>6. \/ /\ SaveAll(S, LAMBDA r : "received")
         /\ batch' = <<>> /\ UNCHANGED <<run, closed, ready>>
      \/ /\ SaveAllFails(S, LAMBDA r : "received")
         /\ run' = "closing" /\ StopAccepting /\ batch' = batch
  BY DEF BoundaryReceived
<1> HIDE DEF S, status
<1>7. \/ /\ stored' = [r \in Requests |->
              IF r \in S THEN Persisted(r, records[r], "received", FALSE) ELSE stored[r]]
         /\ records' = [r \in Requests |-> IF r \in S THEN stored'[r] ELSE records[r]]
         /\ faults' = faults
         /\ batch' = <<>> /\ UNCHANGED <<run, closed, ready>>
      \/ /\ faults < MaxFaults /\ faults' = faults + 1
         /\ \E saved \in SUBSET S, written \in SUBSET S :
              /\ saved \subseteq written
              /\ stored' = [r \in Requests |->
                    IF r \in written THEN Persisted(r, records[r], "received", FALSE)
                    ELSE stored[r]]
              /\ records' = [r \in Requests |-> IF r \in saved THEN stored'[r] ELSE records[r]]
         /\ run' = "closing" /\ closed' = TRUE /\ ready' = TRUE /\ batch' = batch
  BY <1>6 DEF SaveAll, SaveAllFails, StopAccepting
<1>8. \/ /\ SavesEach(S, status)
         /\ batch' = <<>> /\ UNCHANGED <<run, closed, ready>>
      \/ /\ FailsEach(S, status)
         /\ run' = "closing" /\ closed' = TRUE /\ ready' = TRUE /\ batch' = batch
  BY <1>5, <1>7 DEF SavesEach, FailsEach, StoresEach
<1>9. SavedEach(S, status)
  BY <1>2, <1>3, <1>8, SavedEachIs
<1> QED
  BY <1>2, <1>4, <1>8, <1>9 DEF SavesEach, FailsEach, S, status

(* It keeps the invariant: what is settled as received was in the prompt.   *)
LEMMA BoundaryReceivedKeeps ==
    ASSUME IInv, BoundaryReceived
    PROVE  IInv'
<1>1. /\ TypeOK /\ Stages /\ Remembered
      /\ \A r \in Requests : Right(r)
  BY DEF IInv
<1>2. PICK due \in SUBSET Requests, status \in [Requests -> {"received"}] :
        /\ status = [r \in Requests |-> "received"]
        /\ due = {r \in Members(batch) : records[r].status = "sending"}
        /\ run = "turn" /\ batch # <<>> /\ holder = "free"
        /\ UNCHANGED <<mode, queue, holder, worker, calls, given>>
        /\ SavedEach(due, status)
        /\ \/ /\ batch' = <<>> /\ faults' = faults
              /\ UNCHANGED <<run, closed, ready>>
           \/ /\ run' = "closing" /\ closed' = TRUE /\ ready' = TRUE /\ faults' = faults + 1
              /\ batch' = batch
  BY BoundaryReceivedIs
<1>3. /\ stored \in [Requests -> Receipts] /\ records \in [Requests -> Receipts]
      /\ given \in [Requests -> Nat] /\ faults \in 0 .. MaxFaults /\ faults \in Nat
      /\ closed \in BOOLEAN /\ ready \in BOOLEAN
      /\ holder \notin Calls /\ Live
  BY <1>1, <1>2, SteeringAssumption DEF TypeOK, Live
<1>4. /\ mode = "boundary" /\ worker.at = "none"
      /\ \A r \in Requests : ~OnWorker(r) /\ ~OnWorker(r)'
  BY <1>2, BetweenTurns
<1>5. /\ stored' \in [Requests -> Receipts] /\ Grown
      /\ records' \in [Requests -> Receipts] /\ faults' \in 0 .. MaxFaults
      /\ faults' \in {faults, faults + 1}
      /\ \A r \in Requests \ due : stored'[r] = stored[r] /\ records'[r] = records[r]
      /\ \A r \in Requests : records'[r] \in {records[r], stored'[r]}
      /\ faults' = faults => \A r \in due : records'[r] = stored'[r]
  BY <1>2, <1>3 DEF SavedEach
<1>6. \A r \in Requests : /\ InQueue(r)' <=> InQueue(r)
                          /\ InBatch(r)' => InBatch(r) /\ run' = "closing"
  BY <1>2 DEF InQueue, InBatch
<1>7. \A r \in Requests \ due : Untouched(r) /\ EndsWith(r)
  BY <1>2, <1>4, <1>5, <1>6 DEF Untouched, EndsWith
<1>8. ASSUME NEW r \in Requests, r \in due
      PROVE  records[r].status # "none" /\ Right(r)'
  <2>1. InBatch(r) /\ records[r].status = "sending"
    BY <1>2, <1>8 DEF Members, InBatch
  <2>2. /\ Unstarted(r) /\ Queued(r) /\ Prompted(r) /\ Unsents(r) /\ Behind(r)
        /\ NotGiven(r) /\ Truthful(r) /\ Orderly(r) /\ Tracked(r)
    BY <1>1 DEF Right
  <2>3. given[r] = 1 /\ given'[r] = 1 /\ ~InQueue(r) /\ ~InQueue(r)' /\ ~records[r].retryable
    BY <1>1, <1>2, <1>6, <2>1, <2>2 DEF Prompted, Queued, Remembered, Older, WellFormed
  <2>4. \/ stored'[r].status = "received" /\ ~stored'[r].retryable
        \/ stored'[r] = stored[r] /\ (stored[r] # records[r] \/ faults' = faults + 1)
    BY <1>2, <1>8 DEF SavedEach, Wrote
  <2>5. Unstarted(r)' /\ Queued(r)' /\ OnItsWay(r)' /\ Prompted(r)'
    BY <1>2, <1>4, <1>6, <2>3 DEF Unstarted, Queued, OnItsWay, Prompted
  <2>6. NotGiven(r)' /\ Truthful(r)'
    BY <1>2, <2>2, <2>3, <2>4 DEF NotGiven, Truthful, Overlapped
  <2>7. CASE faults' = faults /\ run' = run
    <3>1. records'[r] = stored'[r]
      BY <1>5, <1>8, <2>7
    <3>2. ~Unsent(stored'[r])
      <4>1. CASE stored'[r].status = "received" /\ ~stored'[r].retryable
        BY <4>1 DEF Unsent
      <4>2. CASE stored'[r] = stored[r] /\ stored[r] # records[r]
        BY <1>3, <1>4, <2>1, <2>2, <2>3, <4>2 DEF Behind, Unsent
      <4> QED
        BY <1>3, <2>4, <2>7, <4>1, <4>2
    <3>3. Unsents(r)' /\ Behind(r)' /\ Tracked(r)'
      BY <1>2, <2>7, <3>1, <3>2 DEF Unsents, Behind, Tracked
    <3>4. Orderly(r)'
      BY <1>2, <2>3, <2>7, <3>1, <3>2 DEF Orderly, Unsent
    <3> QED
      BY <2>1, <2>5, <2>6, <3>3, <3>4 DEF Right
  <2>8. CASE run' = "closing" /\ faults' = faults + 1
    <3>1. Unsents(r)' /\ Behind(r)' /\ Orderly(r)' /\ Tracked(r)'
      BY <1>3, <2>8 DEF Unsents, Behind, Orderly, Tracked, Live
    <3> QED
      BY <2>1, <2>5, <2>6, <3>1 DEF Right
  <2> QED
    BY <1>2, <2>7, <2>8
<1>9. Stages' /\ (Live' => Live)
  BY <1>1, <1>2, <1>3, <1>4 DEF Stages, Live
<1>10. /\ given' \in [Requests -> Nat] /\ run \notin {"starting", "gone"}
       /\ run' \in {"turn", "closing"}
  BY <1>2, <1>3
<1>11. closed' \in BOOLEAN /\ ready' \in BOOLEAN /\ (closed => closed')
  <2>1. CASE UNCHANGED <<closed, ready>>
    BY <1>3, <2>1
  <2>2. CASE closed' = TRUE /\ ready' = TRUE
    BY <2>2
  <2> QED
    BY <1>2, <2>1, <2>2
<1>12. \A r \in Requests : \/ Untouched(r) /\ EndsWith(r)
                           \/ records[r].status # "none" /\ Right(r)'
  BY <1>7, <1>8
<1> QED
  BY <1>2, <1>3, <1>4, <1>5, <1>9, <1>10, <1>11, <1>12, TurnKeeps

(* close() settles what pends, or fails.                                    *)
LEMMA CloseIs ==
    ASSUME IInv, Close
    PROVE  \E due \in SUBSET Requests, status \in [Requests -> Open \cup Over] :
             /\ due = {r \in Requests : Pends(records[r])}
             /\ \A r \in due : status[r] = SettledStatus(records[r])
             /\ run \in {"closing", "cancelled"} /\ holder = "free" /\ worker.at = "none"
             /\ UNCHANGED <<mode, batch, closed, ready, holder, worker, calls, given>>
             /\ SavedEach(due, status)
             /\ \/ queue' = <<>> /\ run' = "gone" /\ faults' = faults
                \/ run' \in {run, "gone"} /\ queue' = queue /\ faults' = faults + 1
<1> DEFINE S == {r \in Requests : records[r].status \in Open \/ records[r].retryable}
           status == [r \in Requests |-> IF r \in S THEN SettledStatus(records[r]) ELSE "failed"]
<1>1. \A r \in S : SettledStatus(records[r]) \in Open \cup Over
  <2> SUFFICES ASSUME NEW r \in S
               PROVE  SettledStatus(records[r]) \in Open \cup Over
    OBVIOUS
  <2>1. WellFormed(records[r])
    BY DEF IInv, Remembered, Older
  <2> QED
    BY <2>1 DEF SettledStatus, WellFormed, Open, Over
<1>2. S \in SUBSET Requests /\ S = {r \in Requests : Pends(records[r])}
  BY DEF Pends
<1>3. status \in [Requests -> Open \cup Over] /\ \A r \in S : status[r] = SettledStatus(records[r])
  BY <1>1 DEF Over
<1>4. /\ run \in {"closing", "cancelled"} /\ holder = "free" /\ worker.at = "none"
      /\ UNCHANGED <<mode, batch, closed, ready, holder, worker, calls, given>>
  BY DEF Close
<1>5. \A T \in SUBSET S :
        [r \in Requests |->
            IF r \in T THEN Persisted(r, records[r], SettledStatus(records[r]), FALSE)
            ELSE stored[r]]
        = [r \in Requests |-> IF r \in T THEN Persisted(r, records[r], status[r], FALSE)
                              ELSE stored[r]]
  BY <1>3
<1>6. \/ /\ SaveAll(S, LAMBDA r : SettledStatus(records[r]))
         /\ queue' = <<>> /\ run' = "gone"
      \/ /\ SaveAllFails(S, LAMBDA r : SettledStatus(records[r]))
         /\ run' \in {run, "gone"} /\ queue' = queue
  BY DEF Close
<1> HIDE DEF S, status
<1>7. \/ /\ stored' = [r \in Requests |->
              IF r \in S THEN Persisted(r, records[r], SettledStatus(records[r]), FALSE)
              ELSE stored[r]]
         /\ records' = [r \in Requests |-> IF r \in S THEN stored'[r] ELSE records[r]]
         /\ faults' = faults
         /\ queue' = <<>> /\ run' = "gone"
      \/ /\ faults < MaxFaults /\ faults' = faults + 1
         /\ \E saved \in SUBSET S, written \in SUBSET S :
              /\ saved \subseteq written
              /\ stored' = [r \in Requests |->
                    IF r \in written THEN Persisted(r, records[r], SettledStatus(records[r]), FALSE)
                    ELSE stored[r]]
              /\ records' = [r \in Requests |-> IF r \in saved THEN stored'[r] ELSE records[r]]
         /\ run' \in {run, "gone"} /\ queue' = queue
  BY <1>6 DEF SaveAll, SaveAllFails
<1>8. \/ /\ SavesEach(S, status)
         /\ queue' = <<>> /\ run' = "gone"
      \/ /\ FailsEach(S, status)
         /\ run' \in {run, "gone"} /\ queue' = queue
  BY <1>5, <1>7 DEF SavesEach, FailsEach, StoresEach
<1>9. SavedEach(S, status)
  BY <1>2, <1>3, <1>8, SavedEachIs
<1>10. \/ queue' = <<>> /\ run' = "gone" /\ faults' = faults
       \/ run' \in {run, "gone"} /\ queue' = queue /\ faults' = faults + 1
  BY <1>8 DEF SavesEach, FailsEach
<1> QED
  BY <1>2, <1>3, <1>4, <1>9, <1>10

(* It keeps the invariant: what is left open is settled by what is known of *)
(* it, and nothing that pends is left if no write fails.                    *)
LEMMA CloseKeeps ==
    ASSUME IInv, Close
    PROVE  IInv'
<1>1. /\ TypeOK /\ Stages /\ Remembered
      /\ \A r \in Requests : Right(r)
  BY DEF IInv
<1>2. PICK due \in SUBSET Requests, status \in [Requests -> Open \cup Over] :
        /\ due = {r \in Requests : Pends(records[r])}
        /\ \A r \in due : status[r] = SettledStatus(records[r])
        /\ run \in {"closing", "cancelled"} /\ holder = "free" /\ worker.at = "none"
        /\ UNCHANGED <<mode, batch, closed, ready, holder, worker, calls, given>>
        /\ SavedEach(due, status)
        /\ \/ queue' = <<>> /\ run' = "gone" /\ faults' = faults
           \/ run' \in {run, "gone"} /\ queue' = queue /\ faults' = faults + 1
  BY CloseIs
<1>3. /\ stored \in [Requests -> Receipts] /\ records \in [Requests -> Receipts]
      /\ given \in [Requests -> Nat] /\ faults \in 0 .. MaxFaults /\ faults \in Nat
      /\ closed \in BOOLEAN /\ ready \in BOOLEAN
      /\ holder \notin Calls /\ ~Live /\ ~Live' /\ closed
  BY <1>1, <1>2, SteeringAssumption DEF TypeOK, Live, Stages
<1>4. \A r \in Requests : ~OnWorker(r) /\ ~OnWorker(r)'
  BY <1>2 DEF OnWorker
<1>5. /\ stored' \in [Requests -> Receipts] /\ Grown
      /\ records' \in [Requests -> Receipts] /\ faults' \in 0 .. MaxFaults
      /\ faults' \in {faults, faults + 1}
      /\ \A r \in Requests \ due : stored'[r] = stored[r] /\ records'[r] = records[r]
      /\ \A r \in Requests : records'[r] \in {records[r], stored'[r]}
      /\ faults' = faults => \A r \in due : records'[r] = stored'[r]
  BY <1>2, <1>3 DEF SavedEach
<1>6. \A r \in Requests : (InQueue(r)' => InQueue(r)) /\ (InBatch(r)' => InBatch(r))
  BY <1>2 DEF InQueue, InBatch
<1>7. ASSUME NEW r \in Requests \ due
      PROVE  Untouched(r) /\ EndsWith(r)
  <2>1. Untouched(r)
    BY <1>2, <1>4, <1>5, <1>6 DEF Untouched
  <2>2. EndsWith(r)
    <3>1. Tracked(r) /\ stored'[r] = stored[r] /\ ~Pends(records[r])
      BY <1>1, <1>2, <1>5 DEF Right
    <3>2. faults' = 0 => faults = 0
      BY <1>3, <1>5
    <3> QED
      BY <1>2, <3>1, <3>2 DEF EndsWith, Tracked, Pends
  <2> QED
    BY <2>1, <2>2
<1>8. ASSUME NEW r \in Requests, r \in due
      PROVE  records[r].status # "none" /\ Right(r)'
  <2>1. /\ Unstarted(r) /\ Queued(r) /\ Prompted(r) /\ Unsents(r) /\ Behind(r)
        /\ NotGiven(r) /\ Truthful(r) /\ Orderly(r) /\ Tracked(r)
    BY <1>1 DEF Right
  <2>2. WellFormed(records[r]) /\ Older(records[r], r) /\ WellFormed(stored[r])
    BY <1>1 DEF Remembered, Older
  <2>3. /\ Pends(records[r]) /\ status[r] = SettledStatus(records[r])
        /\ records[r].status \in {"queued", "sending", "failed"}
    BY <1>2, <1>8, <2>2 DEF Pends, Open, WellFormed
  <2>4. /\ status[r] \in {"uncertain", "cancelled", "failed"}
        /\ status[r] = "cancelled" => records[r].status = "queued"
        /\ status[r] = "failed" => records[r].status = "failed"
    BY <2>3 DEF SettledStatus
  <2>5. \/ /\ stored'[r].status = status[r] /\ ~stored'[r].retryable /\ stored[r] = records[r]
        \/ stored'[r] = stored[r] /\ (stored[r] # records[r] \/ faults' = faults + 1)
    BY <1>2, <1>8 DEF SavedEach, Wrote
  <2>6. stored'[r].status # "none"
    <3>1. stored[r].status # "none"
      BY <2>2, <2>3 DEF Older, WellFormed, Receipts
    <3> QED
      BY <2>4, <2>5, <3>1
  <2>7. Queued(r)'
    BY <1>2, <1>3, <1>4, <1>5, <1>6, <2>1, <2>3, <2>6 DEF Queued
  <2>8. Unstarted(r)' /\ OnItsWay(r)' /\ Prompted(r)' /\ Unsents(r)' /\ Behind(r)' /\ Orderly(r)'
    BY <1>2, <1>3, <1>4 DEF Unstarted, OnItsWay, Prompted, Unsents, Behind, Orderly
  <2>9. NotGiven(r)' /\ Truthful(r)'
    BY <1>2, <2>1, <2>4, <2>5 DEF NotGiven, Truthful, Overlapped
  <2>10. Tracked(r)'
    <3>1. CASE faults' = faults + 1
      BY <1>3, <3>1 DEF Tracked
    <3>2. CASE faults' = faults
      <4>1. stored'[r] = stored[r] => stored[r] # records[r] \/ ~Pends(stored'[r])
        BY <1>3, <2>4, <2>5, <3>2 DEF Pends, Open
      <4>2. stored'[r] # stored[r] => ~Pends(stored'[r])
        BY <2>4, <2>5 DEF Pends, Open
      <4> QED
        BY <2>1, <3>2, <4>1, <4>2 DEF Tracked, Pends
    <3> QED
      BY <1>5, <3>1, <3>2
  <2> QED
    BY <2>3, <2>7, <2>8, <2>9, <2>10 DEF Right
<1>9. Stages'
  BY <1>1, <1>2 DEF Stages, Live
<1>10. /\ given' \in [Requests -> Nat] /\ run \notin {"starting", "gone"}
       /\ run' \in {"closing", "cancelled", "gone"}
       /\ closed' \in BOOLEAN /\ ready' \in BOOLEAN
  BY <1>2, <1>3
<1>11. \A r \in Requests : \/ Untouched(r) /\ EndsWith(r)
                           \/ records[r].status # "none" /\ Right(r)'
  BY <1>7, <1>8
<1> QED
  BY <1>2, <1>3, <1>5, <1>9, <1>10, <1>11, TurnKeeps
-----------------------------------------------------------------------------
(* The process dies.                                                        *)
LEMMA CrashKeeps ==
    ASSUME IInv, Crash
    PROVE  IInv'
<1>1. /\ TypeOK /\ Stages /\ Remembered
      /\ \A c \in Calls : Attends(c)
      /\ \A r \in Requests : Right(r)
  BY DEF IInv
<1>2. /\ run' = "gone" /\ faults' = faults + 1
      /\ records' = [r \in Requests |-> NewReceipt]
      /\ queue' = <<>> /\ batch' = <<>> /\ holder' = "free" /\ worker' = NoWorker
      /\ UNCHANGED <<mode, stored, closed, ready, given>>
      /\ calls' = [c \in Calls |-> IF calls[c].at = "new" THEN calls[c]
                                   ELSE [NewCall EXCEPT !.at = "done", !.again = calls[c].again]]
  BY DEF Crash
<1>3. /\ faults' \in 0 .. MaxFaults /\ faults' # 0 /\ faults \in Nat
  <2>1. faults \in 0 .. MaxFaults /\ MaxFaults \in Nat
    BY <1>1, SteeringAssumption DEF TypeOK
  <2>2. faults < MaxFaults /\ faults' = faults + 1
    BY DEF Crash
  <2> QED
    BY <2>1, <2>2
<1>4. /\ "free" \notin Calls /\ worker' \in Workers /\ worker'.at = "none" /\ ~worker'.cancelled
  BY <1>2, SteeringAssumption, NoWorkerIs
<1>5. ASSUME NEW c \in Calls
      PROVE  /\ calls'[c] \in CallStates
             /\ calls'[c].at \in {"new", "done"} /\ calls'[c].again = calls[c].again
             /\ calls'[c].at = "new" => calls'[c] = calls[c]
  <2>1. calls[c] \in CallStates
    BY <1>1 DEF TypeOK
  <2> DEFINE over == [NewCall EXCEPT !.at = "done", !.again = calls[c].again]
  <2>2. over \in CallStates /\ over.at = "done" /\ over.again = calls[c].again
    BY <2>1, NewIsReceipt DEF CallStates, NewCall
  <2>3. calls'[c] = IF calls[c].at = "new" THEN calls[c] ELSE over
    BY <1>2
  <2> HIDE DEF over
  <2> QED
    BY <2>1, <2>2, <2>3
<1>6. /\ calls' \in [Calls -> CallStates]
      /\ \A c \in Calls : ~Calling(c)' /\ calls'[c].again = calls[c].again
  BY <1>2, <1>5 DEF Calling
<1>7. /\ records' \in [Requests -> Receipts]
      /\ \A r \in Requests : records'[r] = NewReceipt
  BY <1>2, NewIsReceipt
<1>8. /\ queue' \in Seq(Requests) /\ batch' \in Seq(Requests)
      /\ DOMAIN queue' = {} /\ DOMAIN batch' = {}
  <2>1. <<>> \in Seq(Requests) /\ DOMAIN <<>> = {}
    OBVIOUS
  <2> QED
    BY <1>2, <2>1
<1>9. TypeOK'
  BY <1>8, <1>1, <1>2, <1>3, <1>4, <1>6, <1>7 DEF TypeOK
<1>10. Stages'
  BY <1>2, <1>4 DEF Stages, Live
<1>11. Locked'
  BY <1>2, <1>4, <1>5 DEF Locked
<1>12. Remembered'
  <2>1. \A r \in Requests : WellFormed(stored[r]) /\ Older(records[r], r)
    BY <1>1 DEF Remembered
  <2>2. NewReceipt.revision = -1
    BY DEF NewReceipt
  <2>3. \A r \in Requests : Older(NewReceipt, r)
    BY <2>1, <2>2, NewIsReceipt DEF Older, WellFormed, Receipts
  <2> QED
    BY <1>2, <1>6, <1>7, <2>1, <2>3 DEF Remembered, Older
<1>13. Alone' /\ Once'
  BY <1>8, <1>6 DEF Alone, Once
<1>14. \A c \in Calls : Attends(c)' /\ Decides(c)'
  BY <1>1, <1>5, <1>6 DEF Attends, Decides, Calling
<1>15. Overlapped' <=> Overlapped
  BY <1>6 DEF Overlapped
<1>16. ASSUME NEW r \in Requests
       PROVE  Right(r)'
  <2>1. NotGiven(r) /\ Truthful(r)
    BY <1>1 DEF Right
  <2>2. ~InQueue(r)' /\ ~InBatch(r)' /\ ~OnWorker(r)' /\ ~Live'
    BY <1>8, <1>2, <1>4 DEF InQueue, InBatch, OnWorker, Live
  <2>3. /\ Unstarted(r)' /\ Queued(r)' /\ OnItsWay(r)' /\ Prompted(r)' /\ Unsents(r)' /\ Behind(r)'
        /\ Orderly(r)'
    BY <1>2, <2>2 DEF Unstarted, Queued, OnItsWay, Prompted, Unsents, Behind, Orderly
  <2>4. NotGiven(r)' /\ Truthful(r)'
    BY <1>2, <1>15, <2>1 DEF NotGiven, Truthful
  <2>5. Tracked(r)'
    BY <1>3 DEF Tracked
  <2> QED
    BY <2>3, <2>4, <2>5 DEF Right
<1> QED
  BY <1>9, <1>10, <1>11, <1>12, <1>13, <1>14, <1>16 DEF IInv
-----------------------------------------------------------------------------
(* The invariant holds at first and is kept.                                *)
LEMMA InitHolds ==
    ASSUME Init
    PROVE  IInv
<1>1. /\ stored = [r \in Requests |-> NewReceipt] /\ records = [r \in Requests |-> NewReceipt]
      /\ queue = <<>> /\ batch = <<>> /\ closed = FALSE /\ ready = FALSE /\ holder = "free"
      /\ worker = NoWorker /\ run = "starting" /\ calls = [c \in Calls |-> NewCall]
      /\ given = [r \in Requests |-> 0] /\ faults = 0 /\ mode \in Modes
  BY DEF Init
<1>2. /\ NewReceipt.status = "none" /\ NewReceipt.revision = -1 /\ NewReceipt.retryable = FALSE
  BY DEF NewReceipt
<1>3. /\ NewCall \in CallStates /\ NewCall.at = "new" /\ NewCall.again = FALSE
  BY NewIsReceipt DEF NewCall, CallStates
<1>4. <<>> \in Seq(Requests) /\ DOMAIN queue = {} /\ DOMAIN batch = {}
  BY <1>1
<1>5. "free" \notin Calls /\ MaxFaults \in Nat
  BY SteeringAssumption
<1>6. TypeOK
  <2>1. calls \in [Calls -> CallStates] /\ stored \in [Requests -> Receipts]
        /\ records \in [Requests -> Receipts] /\ given \in [Requests -> Nat]
    BY <1>1, <1>3, NewIsReceipt
  <2>2. closed \in BOOLEAN /\ ready \in BOOLEAN
    BY <1>1
  <2>3. faults \in 0 .. MaxFaults
    BY <1>1, <1>5
  <2>4. holder \in Calls \cup {"free", "worker"} /\ holder \notin Calls /\ holder # "worker"
    BY <1>1, <1>5
  <2>5. worker \in Workers /\ queue \in Seq(Requests) /\ batch \in Seq(Requests)
    BY <1>1, <1>4, NoWorkerIs
  <2> QED
    BY <1>1, <2>1, <2>2, <2>5, <2>3, <2>4 DEF TypeOK
<1>7. Stages
  BY <1>1, NoWorkerIs DEF Stages, Live
<1>8. \A c \in Calls : calls[c].at = "new" /\ ~Calling(c) /\ ~calls[c].again
  BY <1>1, <1>3 DEF Calling
<1>9. Locked
  BY <1>1, <1>5, <1>8, NoWorkerIs DEF Locked
<1>10. Remembered
  BY <1>1, <1>2, <1>8, NewIsReceipt DEF Remembered, Older
<1>11. Alone /\ Once
  BY <1>4, <1>8 DEF Alone, Once
<1>12. \A c \in Calls : Attends(c) /\ Decides(c)
  BY <1>8 DEF Attends, Decides, Calling
<1>13. ASSUME NEW r \in Requests
       PROVE  Right(r)
  <2>1. /\ stored[r] = NewReceipt /\ records[r] = NewReceipt /\ given[r] = 0
        /\ ~InQueue(r) /\ ~InBatch(r) /\ ~OnWorker(r)
    BY <1>1, <1>4, NoWorkerIs DEF InQueue, InBatch, OnWorker
  <2> QED
    BY <1>1, <1>2, <2>1 DEF Right, Unstarted, Queued, OnItsWay, Prompted, Unsents, Behind,
       NotGiven, Truthful, Orderly, Tracked, Pends, Open
<1> QED
  BY <1>6, <1>7, <1>9, <1>10, <1>11, <1>12, <1>13 DEF IInv

(* The steps by what they do.                                               *)
LEMMA NextIs ==
    ASSUME Next
    PROVE  \/ RunMoves \/ Outside \/ \E c \in Calls : CallMoves(c)
           \/ \E c \in Calls : Answer(c) \/ Accept(c)
           \/ Pick \/ Check \/ Deliver \/ Report
           \/ NextBoundary \/ Prompt \/ BoundaryReceived \/ Close
           \/ Crash
<1>1. CASE \E c \in Calls : Call(c)
  <2>1. PICK c \in Calls : Call(c)
    BY <1>1
  <2>2. CASE Admit(c)
    BY <2>2, AdmitIs DEF CallMoves, Outside
  <2> QED
    BY <2>1, <2>2 DEF Call, CallMoves, Outside
<1>2. CASE Worker
  BY <1>2 DEF Worker
<1>3. CASE Run
  BY <1>3 DEF Run, RunMoves
<1>4. CASE Cancel
  BY <1>4 DEF RunMoves
<1>5. CASE \E r \in Requests : Recover(r)
  BY <1>5 DEF Outside
<1> QED
  BY <1>1, <1>2, <1>3, <1>4, <1>5 DEF Next

(* Every step keeps the invariant.                                          *)
LEMMA NextKeeps ==
    ASSUME IInv, Next
    PROVE  IInv'
BY NextIs, RunMovesKeep, OutsideKeeps, CallMovesKeep, SubmitKeeps, PickKeeps, CheckKeeps,
   DeliverKeeps, ReportKeeps, NextBoundaryKeeps, PromptKeeps, BoundaryReceivedKeeps,
   CloseKeeps, CrashKeeps

(* So does a step that changes nothing.                                     *)
LEMMA StutterKeeps ==
    ASSUME IInv, UNCHANGED vars
    PROVE  IInv'
<1>1. UNCHANGED <<mode, stored, records, queue, batch, closed, ready, holder, worker, run,
                  calls, given, faults>>
  BY DEF vars
<1>2. /\ TypeOK' <=> TypeOK
      /\ Stages' <=> Stages
      /\ Locked' <=> Locked
      /\ Remembered' <=> Remembered
      /\ Alone' <=> Alone
      /\ Once' <=> Once
  BY <1>1 DEF TypeOK, Stages, Live, Locked, Remembered, Older, Calling, Alone, Overlapped,
              Pends, Once
<1>3. \A c \in Calls : (Attends(c)' <=> Attends(c)) /\ (Decides(c)' <=> Decides(c))
  BY <1>1 DEF Attends, Decides, Calling, Pends, Unsent, Overlapped, Live
<1>4. \A r \in Requests : Right(r) => Right(r)'
  <2>1. Onward /\ \A r \in Requests : Untouched(r) /\ EndsWith(r)
    BY <1>1 DEF Onward, Untouched, EndsWith, Live, Overlapped, InQueue, InBatch, OnWorker
  <2> QED
    BY <2>1, UntouchedKeeps
<1> QED
  BY <1>2, <1>3, <1>4 DEF IInv

(* The inductive invariant holds in every state.                            *)
THEOREM InvHolds == Spec => []IInv
<1>1. Init => IInv
  BY InitHolds
<1>2. IInv /\ [Next]_vars => IInv'
  BY NextKeeps, StutterKeeps
<1> QED
  BY <1>1, <1>2, PTL DEF Spec

(* No instruction is given twice, "received" is said of what was given and  *)
(* "cancelled" or "failed" of what was not, and a run that ends without a   *)
(* fault leaves no receipt open.                                            *)
LEMMA InvIsTrue ==
    ASSUME IInv
    PROVE  ReceiptsTrue
<1>1. TypeOK /\ \A r \in Requests : NotGiven(r) /\ Truthful(r) /\ Tracked(r)
  BY DEF IInv, Right
<1>2. GivenOnce /\ ReceivedWasGiven
  BY <1>1 DEF Truthful, GivenOnce, ReceivedWasGiven
<1>3. NotGivenMeansNot
  BY <1>1 DEF NotGiven, NotGivenMeansNot
<1>4. NothingLeftOpen
  BY <1>1 DEF Tracked, Pends, NothingLeftOpen
<1> QED
  BY <1>1, <1>2, <1>3, <1>4 DEF ReceiptsTrue

(* In every state the receipts are true: ReceiptsTrue, which the run        *)
(* checks.                                                                  *)
THEOREM ReceiptsHold == Spec => []ReceiptsTrue
BY InvHolds, InvIsTrue, PTL
-----------------------------------------------------------------------------
(* A settled receipt keeps its status.                                      *)
Kept(r) ==
    stored[r].status \in Over /\ stored'[r].status # stored[r].status
        => stored[r].status = "failed" /\ stored[r].retryable

(* Whoever writes knows the newest receipt, and what it knows is not        *)
(* settled.                                                                 *)
LEMMA WroteKeeps ==
    ASSUME NEW r \in Requests, WellFormed(stored[r]),
           stored'[r] = stored[r] \/ Pends(stored[r]) \/ stored[r].status = "none"
    PROVE  Kept(r)
BY DEF Kept, Pends, Open, Over, WellFormed

(* A step changes no settled status but that of a refusal to be tried       *)
(* again, if calls do not overlap.                                          *)
LEMMA StepKeepsSettled ==
    ASSUME IInv, Next, ~Overlapped, NEW r \in Requests
    PROVE  Kept(r)
<1>1. /\ WellFormed(stored[r]) /\ TypeOK /\ Stages /\ Right(r) /\ Remembered
      /\ \A c \in Calls : Attends(c)
  BY DEF IInv, Remembered
<1>2. SUFFICES stored'[r] = stored[r] \/ Pends(stored[r]) \/ stored[r].status = "none"
  BY <1>1, WroteKeeps
<1>3. CASE RunMoves
  BY <1>1, <1>3, RunMovesIs
<1>4. CASE \E c \in Calls : CallMoves(c)
  BY <1>1, <1>4, CallMovesIs
<1>5. CASE Outside
  BY <1>5, OutsideIs DEF Ended, Declined
<1>6. CASE \E c \in Calls : Answer(c) \/ Accept(c)
  <2>1. PICK c \in Calls : Answer(c) \/ Accept(c)
    BY <1>6
  <2> DEFINE q == calls[c].req
  <2>2. /\ \A p \in Requests \ {q} : stored'[p] = stored[p]
        /\ \/ stored' = stored
           \/ Repeats(q, calls[c].seen) \/ Declines(q, calls[c].seen) \/ Queues(q, calls[c].seen)
    BY <2>1, SubmitIs
  <2>3. r = q => stored'[r] = stored[r] \/ Pends(stored[r]) \/ stored[r].status = "none"
    BY <2>2 DEF Repeats, Declines, Declined, Queues, Wrote, Pends
  <2> QED
    BY <2>2, <2>3
<1>7. CASE Pick
  <2>1. CASE PickStops
    BY <2>1 DEF PickStops
  <2>2. ASSUME NEW q \in Requests, PickTakes(q)
        PROVE  stored'[r] = stored[r] \/ Pends(stored[r])
    <3>1. InQueue(q) /\ ~closed
      <4>1. queue \in Seq(Requests) /\ queue # <<>> /\ q = Head(queue) /\ ~closed
        BY <1>1, <2>2 DEF PickTakes, TypeOK
      <4>2. 1 \in DOMAIN queue /\ q = queue[1]
        BY <4>1
      <4> QED
        BY <4>1, <4>2 DEF InQueue
    <3>2. worker.at = "idle"
      BY <1>7 DEF Pick
    <3>3. Live
      BY <1>1, <3>1, <3>2 DEF Stages, Live
    <3>4. Right(q) /\ Older(records[q], q)
      BY DEF IInv, Remembered
    <3>5. records[q].status = "queued" /\ records[q].retryable = FALSE
      <4>1. records[q].retryable \in BOOLEAN
        BY <1>1 DEF TypeOK, Receipts
      <4> QED
        BY <3>1, <3>3, <3>4, <4>1 DEF Right, Orderly, Queued
    <3>6. SavesOrNot(q, records[q], "sending", FALSE)
      <4>1. \/ Save(q, records[q], "sending", FALSE)
            \/ SaveFails(q, records[q], "sending", FALSE)
        BY <2>2, <3>5 DEF PickTakes
      <4>2. "sending" \in Open \cup Over
        BY DEF Open
      <4> QED
        BY <3>4, <4>1, <4>2, SavesIs, SaveFailsIs
    <3> QED
      BY <3>5, <3>6 DEF SavesOrNot, Wrote, Pends, Open
  <2> QED
    BY <1>7, <2>1, <2>2, PickIs
<1>8. CASE Check \/ Report
  <2>1. PICK q \in Requests : /\ q = worker.req /\ Older(worker.receipt, q) /\ OnWorker(q)
                              /\ worker.receipt.status = "sending"
    BY <1>8, InHand DEF Check, Report
  <2>2. \/ stored' = stored
        \/ \E status \in Open \cup Over, retryable \in BOOLEAN :
             /\ retryable => status = "failed"
             /\ \/ Save(q, worker.receipt, status, retryable)
                \/ SaveFails(q, worker.receipt, status, retryable)
    <3>1. CASE Check
      <4>1. "cancelled" \in Open \cup Over /\ FALSE \in BOOLEAN
        BY DEF Over
      <4> QED
        BY <2>1, <3>1, <4>1 DEF Check
    <3>2. CASE Report
      <4>1. /\ worker.status \in Open \cup Over /\ worker.retryable \in BOOLEAN
            /\ worker.retryable => worker.status = "failed"
        <5>1. OnItsWay(q) /\ worker.at = "report" /\ worker \in Workers
          BY <1>1, <3>2 DEF IInv, Right, Report, TypeOK
        <5> QED
          BY <2>1, <5>1 DEF OnItsWay, Over, Workers
      <4> QED
        BY <2>1, <3>2, <4>1 DEF Report
    <3> QED
      BY <1>8, <3>1, <3>2
  <2>3. ASSUME NEW status \in Open \cup Over, NEW retryable \in BOOLEAN,
               retryable => status = "failed",
               \/ Save(q, worker.receipt, status, retryable)
               \/ SaveFails(q, worker.receipt, status, retryable)
        PROVE  stored'[r] = stored[r] \/ Pends(stored[r])
    <3>1. SavesOrNot(q, worker.receipt, status, retryable)
      BY <2>1, <2>3, SavesIs, SaveFailsIs
    <3> QED
      BY <2>1, <3>1 DEF SavesOrNot, Wrote, Pends, Open
  <2> QED
    BY <2>2, <2>3
<1>9. CASE Deliver \/ Prompt \/ Crash
  BY <1>9 DEF Deliver, Prompt, Crash
<1>10. CASE NextBoundary
  <2>1. CASE stored' = stored
    BY <2>1
  <2>2. CASE SavedEach(Members(queue), [q \in Requests |-> "sending"])
    <3>1. CASE r \in Members(queue)
      <4>1. InQueue(r) /\ Live
        BY <1>10, <3>1 DEF Members, InQueue, NextBoundary, Live
      <4>2. records[r].status = "queued"
        BY <1>1, <4>1 DEF Right, Orderly
      <4> QED
        BY <2>2, <3>1, <4>2 DEF SavedEach, Wrote, Pends, Open
    <3>2. CASE r \notin Members(queue)
      BY <2>2, <3>2 DEF SavedEach
    <3> QED
      BY <3>1, <3>2
  <2> QED
    BY <1>10, <2>1, <2>2, NextBoundaryIs
<1>11. CASE BoundaryReceived
  <2>1. PICK due \in SUBSET Requests :
          /\ \A q \in due : records[q].status = "sending"
          /\ SavedEach(due, [q \in Requests |-> "received"])
    BY <1>11, BoundaryReceivedIs
  <2> QED
    BY <2>1 DEF SavedEach, Wrote, Pends, Open
<1>12. CASE Close
  <2>1. PICK due \in SUBSET Requests, status \in [Requests -> Open \cup Over] :
          /\ \A q \in due : Pends(records[q])
          /\ SavedEach(due, status)
    BY <1>12, CloseIs
  <2> QED
    BY <2>1 DEF SavedEach, Wrote, Pends
<1> QED
  BY <1>3, <1>4, <1>5, <1>6, <1>7, <1>8, <1>9, <1>10, <1>11, <1>12, NextIs

(* What has been settled stays so, whoever writes and with whatever it      *)
(* remembers, except what was refused and is tried again; as long as no two *)
(* calls are about one instruction at once.                                 *)
THEOREM SettledStays == Spec => SettledIsFinal
<1>1. IInv /\ [Next]_vars =>
          [~Overlapped => \A r \in Requests :
              stored[r].status \in Over /\ stored'[r].status # stored[r].status
                  => stored[r].status = "failed" /\ stored[r].retryable]_vars
  BY StepKeepsSettled DEF Kept
<1> QED
  BY <1>1, InvHolds, PTL DEF Spec, SettledIsFinal
==============================================================================
