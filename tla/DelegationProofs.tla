-------------------------- MODULE DelegationProofs --------------------------
(***************************************************************************)
(* What TLAPS proves of Delegation for any requests, prompts, changes of    *)
(* files and faults: what user and worker hear of a request agrees, nothing *)
(* is left to decide, and a stronger worker starts only where the first one *)
(* did nothing.                                                             *)
(***************************************************************************)
EXTENDS Delegation, FiniteSetTheorems, TLAPS

(* A run that is under way is named; a delegation belongs to a run there    *)
(* was, so that a later one never has its number.                           *)
RunsNumbered ==
    /\ run.stage # "idle" => runId >= 1
    /\ job.at # None => 1 <= job.run /\ job.run <= run.n

(* What the record says at each stage of the delegation.                    *)
Recording ==
    /\ job.at \in {None, "choose"} => job.number = 0
    /\ job.at = "choose" => task.attempt = None
    /\ job.at \in {"fingerprint", "create"} => task.status = "running" /\ task.attempt = "running"
    /\ job.at \in {"prepare", "prompt", "stopped", "verify"} =>
          saved.status = "running" /\ saved.attempt = "running" /\ saved.session
    /\ job.at = "verify" => task.attempt = "completed"
    /\ job.at = "close" => task.attempt # "running"
    /\ job.at = "after" => saved.status # "running" /\ saved.attempt # "running"

(* What had an effect was seen as a tool, or was a check that may change    *)
(* files.                                                                   *)
Noticed == did => job.tools \/ ~job.safe

(* A request is asked for by a worker at work, whose time is not up.        *)
Lives(a) == waiter[a].at \in {"asked", "waits", "read", "tells"}
AskedAtWork == \A a \in Approvals : Lives(a) => job.at \in {"prompt", "stopped"}
DeadExpire == expired => job.at = "dead"

(* A request that was not written yet has no file and no decision.          *)
Unwritten ==
    /\ \A a \in Approvals : waiter[a].at \in {None, "asked"} =>
          /\ given[a] = {} /\ item[a] = NoFile /\ told[a] = None
          /\ desk # NoClaim => desk.id # a
    /\ job.at = None => \A a \in Approvals : waiter[a].at = None

(* The desktop decides in the worker's run, and what it did not decide yet. *)
Deciding == desk # NoClaim => runId = job.run /\ given[desk.id] = {}
Undecided ==
    \A a \in Approvals : item[a].status = "pending" =>
        /\ item[a].decision = None /\ given[a] = {}
        /\ waiter[a].at \in {"waits", "read", "tells"} \/ job.at = "dead"

(* A request has one receipt, of the worker's run; what the file says, or   *)
(* what the worker read in it, is that.                                     *)
Receipt(a, d) == <<d, job.run>> \in given[a]
OneReceipt ==
    \A a \in Approvals : given[a] = {} \/ \E d \in Decisions : given[a] = {<<d, job.run>>}
FileTrue ==
    \A a \in Approvals :
        /\ item[a].decision # None => Receipt(a, item[a].decision)
        /\ waiter[a].at = "read" /\ waiter[a].got.decision # None =>
              Receipt(a, waiter[a].got.decision)

(* What the worker is told is what the receipt says, or a refusal when the  *)
(* run is over; then nobody decides any more.                               *)
Heard(a, d) == Receipt(a, d) \/ (d = "cancel" /\ runId # job.run)
HeardTrue ==
    \A a \in Approvals :
        /\ waiter[a].at = "tells" =>
              waiter[a].got.decision \in Decisions /\ Heard(a, waiter[a].got.decision)
        /\ told[a] # None => Heard(a, told[a])

(* The inductive invariant.                                                *)
IInv ==
    /\ TypeOK
    /\ RunsNumbered
    /\ Recording
    /\ Noticed
    /\ AskedAtWork
    /\ DeadExpire
    /\ Unwritten
    /\ Deciding
    /\ Undecided
    /\ OneReceipt
    /\ FileTrue
    /\ HeardTrue
    /\ EndIsRecorded
-----------------------------------------------------------------------------
(* What a step is to the requests and the numbers of runs.                  *)

(* The desktop goes on, starts a run or ends one; or nothing happens.       *)
Quiet ==
    /\ UNCHANGED <<desk, job, task, saved, waiter, item, told, expired, given, did>>
    /\ run'.n >= run.n
    /\ \/ runId' = runId /\ (run'.stage # "idle" => run.stage # "idle")
       \/ desk = NoClaim /\ runId' = run.n + 1 /\ runId' <= run'.n
       \/ desk = NoClaim /\ runId' = 0 /\ run'.stage = "idle"

Resolves(a, d) ==
    /\ desk = NoClaim /\ desk' = [id |-> a, decision |-> d]
    /\ item[a].status = "pending" /\ Active
    /\ UNCHANGED <<run, runId, job, task, saved, waiter, item, told, expired, given, did>>

(* The delegation goes on, and its requests are as they were; when it goes  *)
(* on from the prompt they are over.                                        *)
Moves ==
    /\ UNCHANGED <<desktop, waiter, item, told, expired, given>>
    /\ job.at \notin {None, "dead"} /\ job'.at \notin {None, "dead"}
    /\ job'.run = job.run
    /\ job.at \in {"prompt", "stopped"} /\ job'.at \notin {"prompt", "stopped"} => Answered

(* The attempt ends with its requests.                                      *)
Settles ==
    /\ UNCHANGED <<desktop, told, expired, given>>
    /\ Settled /\ ~Holding
    /\ job.at \in Within /\ job'.at = "close" /\ job'.run = job.run

Step ==
    \/ Quiet \/ \E a \in Approvals, d \in Decisions : Resolves(a, d)
    \/ Claim
    \/ \E a \in Approvals : Write(a) \/ Read(a) \/ Wait(a) \/ Take(a) \/ Tell(a)
    \/ \E a \in Approvals : CancelWorker(a) \/ Ask(a)
    \/ Delegate \/ Moves \/ Settles \/ Dies \/ Expire

(* A job keeps what is not set.                                             *)
LEMMA JobUpdated ==
    ASSUME NEW j \in Jobs
    PROVE  /\ [j EXCEPT !.tools = TRUE] \in Jobs
           /\ \A at \in Ats :
                 /\ [j EXCEPT !.at = at] \in Jobs
                 /\ [j EXCEPT !.at = at, !.uncaught = TRUE] \in Jobs
                 /\ \A b \in BOOLEAN : [j EXCEPT !.at = at, !.raised = b] \in Jobs
                 /\ \A r \in 0 .. MaxPrompts : [j EXCEPT !.at = at, !.run = r] \in Jobs
                 /\ \A n \in 0 .. 2 : [j EXCEPT !.at = at, !.number = n, !.tools = FALSE] \in Jobs
                 /\ \A b \in 0 .. MaxEdits : [j EXCEPT !.at = at, !.before = b] \in Jobs
<1>1. [j EXCEPT !.tools = TRUE] \in Jobs
  BY DEF Jobs
<1> SUFFICES ASSUME NEW at \in Ats
             PROVE  /\ [j EXCEPT !.at = at] \in Jobs
                    /\ [j EXCEPT !.at = at, !.uncaught = TRUE] \in Jobs
                    /\ \A b \in BOOLEAN : [j EXCEPT !.at = at, !.raised = b] \in Jobs
                    /\ \A r \in 0 .. MaxPrompts : [j EXCEPT !.at = at, !.run = r] \in Jobs
                    /\ \A n \in 0 .. 2 :
                          [j EXCEPT !.at = at, !.number = n, !.tools = FALSE] \in Jobs
                    /\ \A b \in 0 .. MaxEdits : [j EXCEPT !.at = at, !.before = b] \in Jobs
  BY <1>1
<1>2. [j EXCEPT !.at = at] \in Jobs
  BY DEF Jobs
<1>3. [j EXCEPT !.at = at, !.uncaught = TRUE] \in Jobs
  BY DEF Jobs
<1>4. \A b \in BOOLEAN : [j EXCEPT !.at = at, !.raised = b] \in Jobs
  BY DEF Jobs
<1>5. \A r \in 0 .. MaxPrompts : [j EXCEPT !.at = at, !.run = r] \in Jobs
  BY DEF Jobs
<1>6. \A n \in 0 .. 2 : [j EXCEPT !.at = at, !.number = n, !.tools = FALSE] \in Jobs
  BY DEF Jobs
<1>7. \A b \in 0 .. MaxEdits : [j EXCEPT !.at = at, !.before = b] \in Jobs
  BY DEF Jobs
<1> QED
  BY <1>2, <1>3, <1>4, <1>5, <1>6, <1>7

(* So does a record of the task.                                            *)
LEMMA TaskUpdated ==
    ASSUME NEW t \in Tasks
    PROVE  /\ NoTask \in Tasks
           /\ [NoTask EXCEPT !.status = "rejected"] \in Tasks
           /\ [NoTask EXCEPT !.status = "running", !.attempt = "running"] \in Tasks
           /\ \A s \in {"rejected", "evaluation_failed", "cancelled"} :
                 [t EXCEPT !.status = s] \in Tasks
           /\ [t EXCEPT !.status = t.attempt] \in Tasks
           /\ [t EXCEPT !.session = TRUE] \in Tasks
           /\ \A s \in {"completed", "failed", "cancelled", "timed_out"} :
                 [t EXCEPT !.attempt = s] \in Tasks
           /\ \A c \in {"unknown", "passed", "failed"} : [t EXCEPT !.acceptance = c] \in Tasks
BY DEF Tasks, NoTask, None
-----------------------------------------------------------------------------

(* And so do the file of a request, and who waits for it.                   *)
LEMMA ItemsUpdated ==
    /\ NoFile \in Items /\ Pending \in Items
    /\ \A d \in Decisions : [status |-> "decided", decision |-> d] \in Items
    /\ \A w \in Waiters, s \in {None, "asked", "waits", "read", "tells", "over"} :
          [w EXCEPT !.at = s] \in Waiters
    /\ \A i \in Items, s \in {None, "asked", "waits", "read", "tells", "over"} :
          [at |-> s, got |-> i] \in Waiters
<1>1. NoFile \in Items /\ Pending \in Items
  BY DEF NoFile, Pending, Items, None, Decisions
<1>2. \A d \in Decisions : [status |-> "decided", decision |-> d] \in Items
  BY DEF Items, Decisions
<1>3. \A w \in Waiters, s \in {None, "asked", "waits", "read", "tells", "over"} :
          [w EXCEPT !.at = s] \in Waiters
  BY DEF Waiters
<1>4. \A i \in Items, s \in {None, "asked", "waits", "read", "tells", "over"} :
          [at |-> s, got |-> i] \in Waiters
  BY DEF Waiters
<1> QED
  BY <1>1, <1>2, <1>3, <1>4

(* When requests are over, their files and who waits for them are of the    *)
(* right type, and the others are as they were.                             *)
LEMMA OverUpdated ==
    ASSUME waiter \in [Approvals -> Waiters], item \in [Approvals -> Items],
           NEW as \in SUBSET Approvals
    PROVE  /\ Gone(as) \in [Approvals -> Items] /\ Over(as) \in [Approvals -> Waiters]
           /\ \A a \in as : Gone(as)[a] = NoFile /\ Over(as)[a].at = "over"
           /\ \A a \in Approvals \ as : Gone(as)[a] = item[a] /\ Over(as)[a] = waiter[a]
<1>1. NoFile \in Items /\ [at |-> "over", got |-> NoFile] \in Waiters
  BY ItemsUpdated
<1>2. Gone(as) \in [Approvals -> Items]
  BY <1>1 DEF Gone
<1>3. Over(as) \in [Approvals -> Waiters]
  BY <1>1 DEF Over
<1>4. \A a \in as : Gone(as)[a] = NoFile /\ Over(as)[a].at = "over"
  BY DEF Gone, Over
<1>5. \A a \in Approvals \ as : Gone(as)[a] = item[a] /\ Over(as)[a] = waiter[a]
  BY DEF Gone, Over
<1> QED
  BY <1>2, <1>3, <1>4, <1>5

(* Of every number of faults there may be one more only below the bound.    *)
LEMMA FaultsTyped ==
    ASSUME TypeOK, Fault \/ UNCHANGED faults
    PROVE  faults' \in 0 .. MaxFaults
BY DelegationAssumption DEF TypeOK, Fault

(* The desktop's steps keep the types.                                      *)
LEMMA DesktopTyped ==
    ASSUME TypeOK,
           \/ StartRun \/ NextPrompt \/ Watcher \/ Claim \/ Leave \/ Leaving
           \/ \E a \in Approvals, d \in Decisions : Resolve(a, d)
    PROVE  TypeOK'
<1> USE DelegationAssumption
<1>1. CASE StartRun
  BY <1>1 DEF StartRun, TypeOK, worker
<1>2. CASE NextPrompt
  BY <1>2 DEF NextPrompt, TypeOK, worker
<1>3. CASE Poll
  BY <1>3 DEF Poll, TypeOK, worker
<1>4. CASE \E a \in Approvals : EmitRequest(a)
  BY <1>4 DEF EmitRequest, TypeOK, worker
<1>5. CASE \E a \in Approvals : EmitResolved(a)
  BY <1>5 DEF EmitResolved, TypeOK, worker
<1>6. CASE EndPoll
  BY <1>6 DEF EndPoll, TypeOK, worker, Resting
<1>7. CASE Claim
  <2>1. desk \in [id : Approvals, decision : Decisions]
    BY <1>7 DEF Claim, TypeOK
  <2>2. desk.id \in Approvals /\ desk.decision \in Decisions
    BY <2>1
  <2>3. item' \in [Approvals -> Items]
    BY <1>7, <2>2, ItemsUpdated DEF Claim, TypeOK
  <2>4. runId \in 0 .. MaxPrompts
    BY DEF TypeOK
  <2>5. given' \in [Approvals -> SUBSET (Decisions \X (0 .. MaxPrompts))]
    BY <1>7, <2>2, <2>4 DEF Claim, TypeOK
  <2>6. observed' \subseteq Approvals /\ cards' \subseteq Approvals
    BY <1>7 DEF Claim, TypeOK
  <2> QED
    BY <1>7, <2>3, <2>5, <2>6 DEF Claim, TypeOK, worker
<1>8. CASE Leave
  BY <1>8 DEF Leave, TypeOK, worker, Resting
<1>9. CASE FinishRun
  BY <1>9 DEF FinishRun, TypeOK, worker
<1>10. CASE \E a \in Approvals : Refuse(a)
  BY <1>10 DEF Refuse, TypeOK, worker, Decisions
<1>11. CASE \E a \in Approvals, d \in Decisions : Resolve(a, d)
  BY <1>11 DEF Resolve, TypeOK, worker
<1> QED
  BY <1>1, <1>2, <1>3, <1>4, <1>5, <1>6, <1>7, <1>8, <1>9, <1>10, <1>11 DEF Watcher, Leaving

(* Those of who waits for an answer do.                                     *)
LEMMA ApprovalTyped ==
    ASSUME TypeOK, NEW a \in Approvals, Approval(a) \/ Ask(a)
    PROVE  TypeOK'
<1> USE DelegationAssumption
<1>1. CASE Write(a)
  <2>1. item' \in [Approvals -> Items] /\ waiter' \in [Approvals -> Waiters]
    BY <1>1, ItemsUpdated DEF Write, TypeOK
  <2> QED
    BY <1>1, <2>1 DEF Write, Others, desktop, TypeOK
<1>2. CASE Read(a)
  <2>1. waiter' \in [Approvals -> Waiters]
    BY <1>2, ItemsUpdated DEF Read, TypeOK
  <2> QED
    BY <1>2, <2>1 DEF Read, Others, desktop, TypeOK
<1>3. CASE Wait(a)
  <2>1. waiter' \in [Approvals -> Waiters]
    BY <1>3, ItemsUpdated DEF Wait, TypeOK
  <2> QED
    BY <1>3, <2>1 DEF Wait, Others, desktop, TypeOK
<1>4. CASE Take(a)
  <2>1. PICK d \in Decisions :
            waiter' = [waiter EXCEPT ![a] = [at |-> "tells",
                                             got |-> [status |-> "decided", decision |-> d]]]
    BY <1>4 DEF Take
  <2>2. [at |-> "tells", got |-> [status |-> "decided", decision |-> d]] \in Waiters
    BY ItemsUpdated
  <2>3. waiter' \in [Approvals -> Waiters]
    BY <2>1, <2>2 DEF TypeOK
  <2> QED
    BY <1>4, <2>3 DEF Take, Others, desktop, TypeOK
<1>5. CASE Tell(a)
  <2>1. item' \in [Approvals -> Items] /\ waiter' \in [Approvals -> Waiters]
    BY <1>5, OverUpdated DEF Tell, TypeOK
  <2>2. told' \in [Approvals -> {None} \cup Decisions]
    BY <1>5 DEF Tell, TypeOK, Waiters, Items
  <2> QED
    BY <1>5, <2>1, <2>2 DEF Tell, Others, desktop, TypeOK
<1>6. CASE CancelWorker(a)
  <2>1. item' \in [Approvals -> Items] /\ waiter' \in [Approvals -> Waiters]
    BY <1>6, OverUpdated DEF CancelWorker, TypeOK
  <2>2. job' \in Jobs
    <3>1. "stopped" \in Ats /\ job \in Jobs
      BY DEF Ats, TypeOK
    <3>2. [job EXCEPT !.at = "stopped"] \in Jobs
      BY <3>1, JobUpdated
    <3> QED
      BY <1>6, <3>1, <3>2 DEF CancelWorker
  <2> QED
    BY <1>6, <2>1, <2>2 DEF CancelWorker, desktop, TypeOK
<1>7. CASE Ask(a)
  <2>1. waiter' \in [Approvals -> Waiters]
    BY <1>7, ItemsUpdated DEF Ask, TypeOK
  <2>2. job' \in Jobs
    <3>1. [job EXCEPT !.tools = TRUE] \in Jobs
      BY JobUpdated DEF TypeOK
    <3> QED
      BY <1>7, <3>1 DEF Ask
  <2> QED
    BY <1>7, <2>1, <2>2 DEF Ask, desktop, TypeOK
<1> QED
  BY <1>1, <1>2, <1>3, <1>4, <1>5, <1>6, <1>7 DEF Approval

(* Those of delegate do, whose attempts are two at most.                    *)
LEMMA StartsTyped ==
    ASSUME TypeOK, Recording,
           \/ Delegate \/ (\E s \in {"rejected", "evaluation_failed", "cancelled"} : NoAttempt(s))
           \/ Choose \/ Upgrade
    PROVE  TypeOK'
<1> USE DelegationAssumption
<1>1. job \in Jobs /\ task \in Tasks /\ {"choose", "fingerprint", "over"} \subseteq Ats
  BY DEF TypeOK, Ats
<1>2. CASE Delegate
  <2>1. job' \in Jobs
    <3>1. runId \in 0 .. MaxPrompts
      BY DEF TypeOK
    <3>2. [job EXCEPT !.at = "choose", !.run = runId] \in Jobs
      BY <1>1, <3>1, JobUpdated
    <3> QED
      BY <1>2, <3>2 DEF Delegate
  <2>2. task' \in Tasks /\ saved' \in Tasks
    BY <1>1, <1>2, TaskUpdated DEF Delegate, Store
  <2> QED
    BY <1>2, <2>1, <2>2 DEF Delegate, OnlyWorker, desktop, TypeOK
<1>3. ASSUME NEW s \in {"rejected", "evaluation_failed", "cancelled"}, NoAttempt(s)
      PROVE  TypeOK'
  <2>1. job' \in Jobs
    BY <1>1, <1>3, JobUpdated DEF NoAttempt, To
  <2>2. task' \in Tasks /\ saved' \in Tasks
    BY <1>1, <1>3, TaskUpdated DEF NoAttempt, Store
  <2>3. faults' \in 0 .. MaxFaults
    BY <1>3, FaultsTyped DEF NoAttempt
  <2> QED
    BY <1>3, <2>1, <2>2, <2>3 DEF NoAttempt, OnlyWorker, desktop, TypeOK
<1>4. ASSUME BeginAttempt, job.number \in {0, 1}
      PROVE  TypeOK'
  <2>1. job' \in Jobs
    <3>1. job.number + 1 \in 0 .. 2
      BY <1>4
    <3>2. [job EXCEPT !.at = "fingerprint", !.number = job.number + 1, !.tools = FALSE] \in Jobs
      BY <1>1, <3>1, JobUpdated
    <3> QED
      BY <1>4, <3>2 DEF BeginAttempt
  <2>2. task' \in Tasks /\ saved' \in Tasks
    BY <1>1, <1>4, TaskUpdated DEF BeginAttempt, Store
  <2> QED
    BY <1>4, <2>1, <2>2 DEF BeginAttempt, OnlyWorker, desktop, TypeOK
<1>5. CASE Choose
  BY <1>4, <1>5 DEF Choose, Runs, Recording
<1>6. CASE Upgrade
  BY <1>4, <1>6 DEF Upgrade, CanUpgrade
<1> QED
  BY <1>2, <1>3, <1>5, <1>6

(* Those within an attempt, and what happens outside, do.                   *)
LEMMA AttemptTyped ==
    ASSUME TypeOK,
           \/ Fingerprint \/ CancelUncaught \/ Create \/ Prepare \/ Close \/ Return
           \/ \E changes \in BOOLEAN : UseTool(changes)
           \/ Edit \/ Dies \/ Expire
    PROVE  TypeOK'
<1> USE DelegationAssumption
<1>1. /\ job \in Jobs /\ task \in Tasks
      /\ {"create", "over", "prepare", "prompt", "after", "dead"} \subseteq Ats
      /\ tree \in 0 .. MaxEdits
  BY DEF TypeOK, Ats
<1>2. CASE Fingerprint
  <2>1. job' \in Jobs
    BY <1>1, <1>2, JobUpdated DEF Fingerprint
  <2> QED
    BY <1>2, <2>1 DEF Fingerprint, OnlyWorker, desktop, TypeOK
<1>3. CASE CancelUncaught
  <2>1. job' \in Jobs
    BY <1>1, <1>3, JobUpdated DEF CancelUncaught
  <2>2. faults' \in 0 .. MaxFaults
    BY <1>3, FaultsTyped DEF CancelUncaught
  <2> QED
    BY <1>3, <2>1, <2>2 DEF CancelUncaught, OnlyWorker, desktop, TypeOK
<1>4. CASE Create
  <2>1. job' \in Jobs
    BY <1>1, <1>4, JobUpdated DEF Create, To
  <2>2. task' \in Tasks /\ saved' \in Tasks
    BY <1>1, <1>4, TaskUpdated DEF Create, Store
  <2> QED
    BY <1>4, <2>1, <2>2 DEF Create, OnlyWorker, desktop, TypeOK
<1>5. CASE Prepare
  <2>1. job' \in Jobs
    BY <1>1, <1>5, JobUpdated DEF Prepare, To
  <2> QED
    BY <1>5, <2>1 DEF Prepare, OnlyWorker, desktop, TypeOK
<1>6. CASE Close
  <2>1. job' \in Jobs
    BY <1>1, <1>6, JobUpdated DEF Close, To
  <2>2. task' \in Tasks /\ saved' \in Tasks
    BY <1>1, <1>6, TaskUpdated DEF Close, Store
  <2> QED
    BY <1>6, <2>1, <2>2 DEF Close, OnlyWorker, desktop, TypeOK
<1>7. CASE Return
  <2>1. job' \in Jobs
    BY <1>1, <1>7, JobUpdated DEF Return, To
  <2> QED
    BY <1>7, <2>1 DEF Return, OnlyWorker, desktop, TypeOK
<1>8. ASSUME NEW changes \in BOOLEAN, UseTool(changes)
      PROVE  TypeOK'
  <2>1. job' \in Jobs
    BY <1>1, <1>8, JobUpdated DEF UseTool
  <2>2. tree' \in 0 .. MaxEdits
    BY <1>1, <1>8 DEF UseTool, Change
  <2> QED
    BY <1>8, <2>1, <2>2 DEF UseTool, OnlyWorker, desktop, TypeOK
<1>9. CASE Edit
  BY <1>9 DEF Edit, TypeOK, desktop, worker
<1>10. CASE Dies
  <2>1. job' \in Jobs
    BY <1>1, <1>10, JobUpdated DEF Dies, To
  <2>2. waiter' \in [Approvals -> Waiters]
    BY <1>10, OverUpdated DEF Dies, TypeOK
  <2>3. faults' \in 0 .. MaxFaults
    BY <1>10, FaultsTyped DEF Dies
  <2> QED
    BY <1>10, <2>1, <2>2, <2>3 DEF Dies, desktop, TypeOK
<1>11. CASE Expire
  BY <1>11 DEF Expire, TypeOK, desktop, worker
<1> QED
  BY <1>2, <1>3, <1>4, <1>5, <1>6, <1>7, <1>8, <1>9, <1>10, <1>11

(* So do those that end an attempt.                                         *)
LEMMA EndsTyped ==
    ASSUME TypeOK,
           \/ \E s \in {"completed", "failed", "cancelled"} : EndPrompt(s)
           \/ \E c \in {"unknown", "passed", "failed"} : Verify(c)
           \/ \E s \in {"cancelled", "timed_out", "failed"} : Raise(s)
    PROVE  TypeOK'
<1> USE DelegationAssumption
<1>1. /\ job \in Jobs /\ task \in Tasks /\ "verify" \in Ats /\ "close" \in Ats
      /\ tree \in 0 .. MaxEdits
  BY DEF TypeOK, Ats
<1>2. Settled \/ Unsettled => waiter' \in [Approvals -> Waiters] /\ item' \in [Approvals -> Items]
  BY OverUpdated DEF Settled, Unsettled, TypeOK
<1>3. ASSUME NEW s \in {"completed", "failed", "cancelled"}, EndPrompt(s)
      PROVE  TypeOK'
  <2>1. job' \in Jobs
    BY <1>1, <1>3, JobUpdated DEF EndPrompt, To
  <2>2. task' \in Tasks
    BY <1>1, <1>3, TaskUpdated DEF EndPrompt
  <2>3. Settled \/ Unsettled
    BY <1>3 DEF EndPrompt
  <2> QED
    BY <1>2, <1>3, <2>1, <2>2, <2>3 DEF EndPrompt, Untouched, desktop, TypeOK
<1>4. ASSUME NEW c \in {"unknown", "passed", "failed"}, Verify(c)
      PROVE  TypeOK'
  <2>1. job' \in Jobs
    BY <1>1, <1>4, JobUpdated DEF Verify, To
  <2>2. task' \in Tasks
    BY <1>1, <1>4, TaskUpdated DEF Verify
  <2>3. Settled
    BY <1>4 DEF Verify
  <2>4. tree' \in 0 .. MaxEdits /\ did' \in BOOLEAN
    <3>1. PICK changes \in {FALSE} \cup (IF job.safe \/ tree = MaxEdits THEN {} ELSE {TRUE}) :
              Change(changes) /\ did' = (did \/ changes)
      BY <1>4 DEF Verify
    <3>2. changes => tree # MaxEdits
      BY <3>1
    <3>3. tree' = tree \/ (tree # MaxEdits /\ tree' = tree + 1)
      BY <3>1, <3>2 DEF Change
    <3>4. tree' \in 0 .. MaxEdits
      BY <1>1, <3>3
    <3>5. did' \in BOOLEAN
      BY <3>1
    <3> QED
      BY <3>4, <3>5
  <2> QED
    BY <1>2, <1>4, <2>1, <2>2, <2>3, <2>4 DEF Verify, Untouched, desktop, TypeOK
<1>5. ASSUME NEW s \in {"cancelled", "timed_out", "failed"}, Raise(s)
      PROVE  TypeOK'
  <2>1. job' \in Jobs
    BY <1>1, <1>5, JobUpdated DEF Raise
  <2>2. task' \in Tasks
    BY <1>1, <1>5, TaskUpdated DEF Raise, Noted
  <2>3. Settled
    BY <1>5 DEF Raise
  <2>4. faults' \in 0 .. MaxFaults
    BY <1>5, FaultsTyped DEF Raise
  <2> QED
    BY <1>2, <1>5, <2>1, <2>2, <2>3, <2>4 DEF Raise, Untouched, desktop, TypeOK
<1> QED
  BY <1>3, <1>4, <1>5

(* Every step keeps the types.                                              *)
LEMMA TypesKept ==
    ASSUME TypeOK, Recording, [Next]_vars
    PROVE  TypeOK'
<1>1. CASE Next
  <2>1. \/ StartRun \/ NextPrompt \/ Watcher \/ Claim \/ Leave \/ Leaving
        \/ \E a \in Approvals, d \in Decisions : Resolve(a, d)
        \/ \E a \in Approvals : Approval(a) \/ Ask(a)
        \/ Delegate \/ (\E s \in {"rejected", "evaluation_failed", "cancelled"} : NoAttempt(s))
        \/ Choose \/ Upgrade
        \/ Fingerprint \/ CancelUncaught \/ Create \/ Prepare \/ Close \/ Return
        \/ (\E changes \in BOOLEAN : UseTool(changes))
        \/ Edit \/ Dies \/ Expire
        \/ (\E s \in {"completed", "failed", "cancelled"} : EndPrompt(s))
        \/ (\E c \in {"unknown", "passed", "failed"} : Verify(c))
        \/ (\E s \in {"cancelled", "timed_out", "failed"} : Raise(s))
    BY <1>1 DEF Next, Proceed
  <2> QED
    BY <2>1, DesktopTyped, ApprovalTyped, StartsTyped, AttemptTyped, EndsTyped
<1>2. CASE UNCHANGED vars
  BY <1>2 DEF vars, desktop, worker, TypeOK
<1> QED
  BY <1>1, <1>2
-----------------------------------------------------------------------------
(* Every step is one of Step: the desktop's others leave the requests alone, *)
(* and delegate's go on with them as they are or end them all.              *)
LEMMA DesktopIs ==
    ASSUME TypeOK,
           \/ StartRun \/ NextPrompt \/ Watcher \/ Claim \/ Leave \/ Leaving
           \/ \E a \in Approvals, d \in Decisions : Resolve(a, d)
    PROVE  Quiet \/ Claim \/ \E a \in Approvals, d \in Decisions : Resolves(a, d)
<1>1. run.n \in Nat
  BY DelegationAssumption DEF TypeOK
<1>2. CASE StartRun
  BY <1>1, <1>2 DEF StartRun, Free, Quiet, worker
<1>3. CASE NextPrompt
  BY <1>1, <1>3 DEF NextPrompt, Free, Quiet, worker
<1>4. CASE Poll
  BY <1>1, <1>4 DEF Poll, Quiet, worker
<1>5. CASE \E a \in Approvals : EmitRequest(a)
  BY <1>1, <1>5 DEF EmitRequest, Quiet, worker
<1>6. CASE \E a \in Approvals : EmitResolved(a)
  BY <1>1, <1>6 DEF EmitResolved, Quiet, worker
<1>7. CASE EndPoll
  BY <1>1, <1>7 DEF EndPoll, Quiet, worker
<1>8. CASE Leave
  <2>1. run'.n = run.n /\ run.stage # "idle"
    BY <1>8 DEF Leave, TypeOK
  <2> QED
    BY <1>1, <1>8, <2>1 DEF Leave, Quiet, worker
<1>9. CASE FinishRun
  <2>1. run'.n = run.n /\ run'.stage = "idle"
    BY <1>9 DEF FinishRun, TypeOK
  <2> QED
    BY <1>1, <1>9, <2>1 DEF FinishRun, Free, Quiet, worker
<1>10. ASSUME NEW a \in Approvals, Refuse(a)
       PROVE  Quiet \/ \E b \in Approvals, d \in Decisions : Resolves(b, d)
  <2>1. CASE Claimable(a, "cancel")
    <3>1. Resolves(a, "cancel")
      BY <1>10, <2>1 DEF Refuse, Claimable, Free, Resolves, worker
    <3> QED
      BY <3>1 DEF Decisions
  <2>2. CASE ~Claimable(a, "cancel")
    BY <1>1, <1>10, <2>2 DEF Refuse, Quiet, worker
  <2> QED
    BY <2>1, <2>2
<1>11. ASSUME NEW a \in Approvals, NEW d \in Decisions, Resolve(a, d)
       PROVE  Resolves(a, d)
  BY <1>11 DEF Resolve, Claimable, Free, Resolves, worker
<1> QED
  BY <1>2, <1>3, <1>4, <1>5, <1>6, <1>7, <1>8, <1>9, <1>10, <1>11 DEF Watcher, Leaving

(* Where no request can wait, the delegation only moves.                    *)
LEMMA AttemptMoves ==
    ASSUME TypeOK, AskedAtWork,
           \/ (\E s \in {"rejected", "evaluation_failed", "cancelled"} : NoAttempt(s))
           \/ Choose \/ Upgrade
           \/ Fingerprint \/ CancelUncaught \/ Create \/ Prepare \/ Close \/ Return
           \/ (\E changes \in BOOLEAN : UseTool(changes))
           \/ Edit
    PROVE  Moves
<1>1. /\ job \in Jobs
      /\ \A at \in Ats :
            [job EXCEPT !.at = at].at = at /\ [job EXCEPT !.at = at].run = job.run
  BY DEF TypeOK, Jobs
<1>2. job.at \in Ats
  BY DEF TypeOK, Jobs
<1>3. CASE \E s \in {"rejected", "evaluation_failed", "cancelled"} : NoAttempt(s)
  BY <1>1, <1>3 DEF NoAttempt, Runs, To, OnlyWorker, Moves, Ats, None
<1>4. ASSUME BeginAttempt
      PROVE  /\ UNCHANGED <<desktop, waiter, item, told, expired, given>>
             /\ job'.at = "fingerprint" /\ job'.run = job.run
  BY <1>1, <1>4 DEF BeginAttempt, OnlyWorker, Jobs
<1>5. CASE Choose
  BY <1>4, <1>5 DEF Choose, Runs, Moves, None
<1>6. CASE Upgrade
  BY <1>4, <1>6 DEF Upgrade, Runs, Moves, None
<1>7. CASE Fingerprint
  BY <1>1, <1>7 DEF Fingerprint, Runs, OnlyWorker, Moves, Jobs, None
<1>8. CASE CancelUncaught
  BY <1>1, <1>8 DEF CancelUncaught, Runs, OnlyWorker, Moves, Jobs, None
<1>9. CASE Create
  BY <1>1, <1>9 DEF Create, Runs, To, OnlyWorker, Moves, Ats, None
<1>10. CASE Prepare
  BY <1>1, <1>10 DEF Prepare, Runs, To, OnlyWorker, Moves, Ats, None
<1>11. CASE Close
  BY <1>1, <1>11 DEF Close, Runs, To, OnlyWorker, Moves, Ats, None
<1>12. CASE Return
  BY <1>1, <1>12 DEF Return, Runs, To, OnlyWorker, Moves, Ats, None
<1>13. CASE \E changes \in BOOLEAN : UseTool(changes)
  <2>1. UNCHANGED <<desktop, waiter, item, told, expired, given>>
    BY <1>13 DEF UseTool, OnlyWorker
  <2>2. job.at = "prompt" /\ job' = [job EXCEPT !.tools = TRUE]
    BY <1>13 DEF UseTool, Runs
  <2>3. job'.at = "prompt" /\ job'.run = job.run
    BY <1>1, <2>2 DEF Jobs
  <2> QED
    BY <2>1, <2>2, <2>3 DEF Moves, None
<1>14. CASE Edit
  BY <1>14 DEF Edit, worker, Moves, None
<1> QED
  BY <1>3, <1>5, <1>6, <1>7, <1>8, <1>9, <1>10, <1>11, <1>12, <1>13, <1>14

(* A prompt that completes has no request left; other ends settle them.     *)
LEMMA AttemptEnds ==
    ASSUME TypeOK, AskedAtWork,
           \/ (\E s \in {"completed", "failed", "cancelled"} : EndPrompt(s))
           \/ (\E c \in {"unknown", "passed", "failed"} : Verify(c))
           \/ (\E s \in {"cancelled", "timed_out", "failed"} : Raise(s))
    PROVE  Moves \/ Settles
<1>1. /\ job \in Jobs
      /\ \A at \in Ats :
            [job EXCEPT !.at = at].at = at /\ [job EXCEPT !.at = at].run = job.run
  BY DEF TypeOK, Jobs
<1>2. "verify" \in Ats /\ "close" \in Ats
  BY DEF Ats
<1>3. ASSUME NEW s \in {"completed", "failed", "cancelled"}, EndPrompt(s)
      PROVE  Moves \/ Settles
  <2>1. CASE s = "completed"
    <3>1. job.at = "prompt" /\ Answered
      BY <1>3, <2>1 DEF EndPrompt, Runs
    <3>2. job' = [job EXCEPT !.at = "verify"]
      BY <1>3, <2>1 DEF EndPrompt, To
    <3>3. job'.at = "verify" /\ job'.run = job.run
      BY <1>1, <1>2, <3>2
    <3>4. UNCHANGED <<desktop, waiter, item, told, expired, given>>
      BY <1>3, <2>1 DEF EndPrompt, Untouched, Unsettled
    <3> QED
      BY <3>1, <3>3, <3>4 DEF Moves, None
  <2>2. CASE s # "completed"
    <3>1. job.at \in Within /\ ~Holding
      BY <1>3, <2>2 DEF EndPrompt, Runs, Within
    <3>2. job' = [job EXCEPT !.at = "close"]
      BY <1>3, <2>2 DEF EndPrompt, To
    <3>3. job'.at = "close" /\ job'.run = job.run
      BY <1>1, <1>2, <3>2
    <3>4. UNCHANGED <<desktop, told, expired, given>> /\ Settled
      BY <1>3, <2>2 DEF EndPrompt, Untouched
    <3> QED
      BY <3>1, <3>3, <3>4 DEF Settles
  <2> QED
    BY <2>1, <2>2
<1>4. ASSUME NEW c \in {"unknown", "passed", "failed"}, Verify(c)
      PROVE  Settles
  <2>1. job'.at = "close" /\ job'.run = job.run
    BY <1>1, <1>2, <1>4 DEF Verify, To
  <2>2. job.at \in Within /\ ~Holding
    BY <1>4 DEF Verify, Runs, Within
  <2>3. UNCHANGED <<desktop, told, expired, given>> /\ Settled
    BY <1>4 DEF Verify, Untouched
  <2> QED
    BY <2>1, <2>2, <2>3 DEF Settles
<1>5. ASSUME NEW s \in {"cancelled", "timed_out", "failed"}, Raise(s)
      PROVE  Settles
  <2>1. job'.at = "close" /\ job'.run = job.run
    BY <1>1, <1>5 DEF Raise, Jobs
  <2> QED
    BY <1>5, <2>1 DEF Raise, Untouched, Settles
<1> QED
  BY <1>3, <1>4, <1>5

(* So every step is one of Step.                                            *)
LEMMA StepIs ==
    ASSUME TypeOK, AskedAtWork, [Next]_vars
    PROVE  Step
<1>1. CASE Next
  <2>1. \/ StartRun \/ NextPrompt \/ Watcher \/ Claim \/ Leave \/ Leaving
        \/ (\E a \in Approvals, d \in Decisions : Resolve(a, d))
        \/ (\E a \in Approvals : Approval(a) \/ Ask(a))
        \/ Delegate
        \/ (\E s \in {"rejected", "evaluation_failed", "cancelled"} : NoAttempt(s))
        \/ Choose \/ Upgrade
        \/ Fingerprint \/ CancelUncaught \/ Create \/ Prepare \/ Close \/ Return
        \/ (\E changes \in BOOLEAN : UseTool(changes))
        \/ Edit \/ Dies \/ Expire
        \/ (\E s \in {"completed", "failed", "cancelled"} : EndPrompt(s))
        \/ (\E c \in {"unknown", "passed", "failed"} : Verify(c))
        \/ (\E s \in {"cancelled", "timed_out", "failed"} : Raise(s))
    BY <1>1 DEF Next, Proceed
  <2> QED
    BY <2>1, DesktopIs, AttemptMoves, AttemptEnds DEF Step, Approval
<1>2. CASE UNCHANGED vars
  <2>1. run'.n >= run.n
    BY <1>2, DelegationAssumption DEF vars, desktop, TypeOK
  <2>2. Quiet
    BY <1>2, <2>1 DEF vars, desktop, worker, Quiet
  <2> QED
    BY <2>2 DEF Step
<1> QED
  BY <1>1, <1>2
-----------------------------------------------------------------------------
(* A worker whose request waits is at work, so that its record is active;   *)
(* when the request is not, the run it works for is over.                   *)
LEMMA NotActiveIsOver ==
    ASSUME Recording, AskedAtWork, DeadExpire, NEW a \in Approvals, Lives(a), ~Active
    PROVE  runId # job.run
BY DEF Recording, AskedAtWork, DeadExpire, Active

(* A run that is over is over for ever: no later one has its number.        *)
LEMMA RunOnce ==
    ASSUME TypeOK, RunsNumbered, Quiet, job.at # None, runId # job.run
    PROVE  runId' # job'.run
<1>1. job.run \in Nat /\ run.n \in Nat /\ 1 <= job.run /\ job.run <= run.n /\ job' = job
  BY DelegationAssumption DEF TypeOK, Jobs, RunsNumbered, Quiet
<1>2. runId' = runId \/ runId' = run.n + 1 \/ runId' = 0
  BY DEF Quiet
<1> QED
  BY <1>1, <1>2

(* Runs are numbered upwards, and a delegation keeps the number of its own. *)
LEMMA RunsNumberedKept ==
    ASSUME TypeOK, TypeOK', RunsNumbered, Step
    PROVE  RunsNumbered'
<1>1. /\ run.n \in Nat /\ runId \in 0 .. run.n /\ job.run \in Nat
      /\ run.stage \in {"idle", "watching", "leaving"}
  BY DelegationAssumption DEF TypeOK, Jobs
<1>2. CASE Quiet
  <2>1. run'.stage # "idle" => runId' >= 1
    BY <1>1, <1>2 DEF Quiet, RunsNumbered
  <2>2. run'.n \in Nat
    BY DelegationAssumption DEF TypeOK
  <2> QED
    BY <1>1, <1>2, <2>1, <2>2 DEF Quiet, RunsNumbered
<1>3. ASSUME UNCHANGED <<run, runId>>, job'.run = job.run, job'.at # None => job.at # None
      PROVE  RunsNumbered'
  BY <1>3 DEF RunsNumbered
<1>4. CASE Delegate
  <2>1. job'.run = runId /\ run' = run /\ runId' = runId /\ run.stage = "watching"
    BY <1>4 DEF Delegate, OnlyWorker, desktop, TypeOK, Jobs
  <2> QED
    BY <1>1, <2>1 DEF RunsNumbered
<1>5. CASE \E a \in Approvals : CancelWorker(a) \/ Ask(a)
  <2>1. UNCHANGED <<run, runId>>
    BY <1>5 DEF CancelWorker, Ask, desktop
  <2>2. job'.run = job.run /\ (job'.at # None => job.at # None)
    BY <1>5 DEF CancelWorker, Ask, TypeOK, Jobs, None
  <2> QED
    BY <1>3, <2>1, <2>2
<1>6. CASE Dies
  <2>1. UNCHANGED <<run, runId>>
    BY <1>6 DEF Dies, desktop
  <2>2. job'.run = job.run /\ (job'.at # None => job.at # None)
    BY <1>6 DEF Dies, To, TypeOK, Jobs, None
  <2> QED
    BY <1>3, <2>1, <2>2
<1>7. CASE Moves \/ Settles
  BY <1>3, <1>7 DEF Moves, Settles, desktop, Within, None
<1>8. CASE \/ Claim \/ (\E a \in Approvals, d \in Decisions : Resolves(a, d))
           \/ (\E a \in Approvals : Write(a) \/ Read(a) \/ Wait(a) \/ Take(a) \/ Tell(a))
           \/ Expire
  <2>1. UNCHANGED <<run, runId, job>>
    BY <1>8 DEF Claim, Resolves, Write, Read, Wait, Take, Tell, Expire, Others, desktop, worker
  <2> QED
    BY <1>3, <2>1
<1> QED
  BY <1>2, <1>4, <1>5, <1>6, <1>7, <1>8 DEF Step

(* Who waits, at each step: nobody starts to but with a request.            *)
LEMMA AskedAtWorkKept ==
    ASSUME TypeOK, AskedAtWork, Step
    PROVE  AskedAtWork'
<1> SUFFICES ASSUME NEW a \in Approvals, Lives(a)'
             PROVE  job'.at \in {"prompt", "stopped"}
  BY DEF AskedAtWork
<1>1. /\ job \in Jobs /\ waiter \in [Approvals -> Waiters] /\ item \in [Approvals -> Items]
      /\ Lives(a) => job.at \in {"prompt", "stopped"}
  BY DEF TypeOK, AskedAtWork
<1>2. \A as \in SUBSET Approvals : waiter' = Over(as) => a \notin as /\ Lives(a)
  <2> SUFFICES ASSUME NEW as \in SUBSET Approvals, waiter' = Over(as)
               PROVE  a \notin as /\ Lives(a)
    OBVIOUS
  <2>1. a \notin as
    BY <1>1, OverUpdated DEF Lives
  <2> QED
    BY <1>1, <2>1, OverUpdated DEF Lives
<1>3. CASE Quiet \/ Claim \/ Expire \/ \E b \in Approvals, d \in Decisions : Resolves(b, d)
  <2>1. UNCHANGED <<waiter, job>>
    BY <1>3 DEF Quiet, Claim, Expire, Resolves, worker
  <2> QED
    BY <1>1, <2>1 DEF Lives
<1>4. ASSUME NEW b \in Approvals, Write(b) \/ Read(b) \/ Wait(b) \/ Take(b)
      PROVE  job'.at \in {"prompt", "stopped"}
  <2>1. Lives(b) /\ job' = job /\ \A c \in Approvals \ {b} : waiter'[c] = waiter[c]
    BY <1>1, <1>4 DEF Write, Read, Wait, Take, Others, Lives
  <2>2. CASE a = b
    BY <1>1, <2>1, <2>2
  <2>3. CASE a # b
    BY <1>1, <2>1, <2>3 DEF Lives
  <2> QED
    BY <2>2, <2>3
<1>5. ASSUME NEW b \in Approvals, Tell(b) \/ CancelWorker(b)
      PROVE  job'.at \in {"prompt", "stopped"}
  <2>1. waiter' = Over({b})
    BY <1>5 DEF Tell, CancelWorker
  <2>2. job' = job \/ job'.at = "stopped"
    BY <1>1, <1>5 DEF Tell, CancelWorker, Others, Jobs
  <2> QED
    BY <1>1, <1>2, <2>1, <2>2
<1>6. CASE \E b \in Approvals : Ask(b)
  <2>1. job.at = "prompt" /\ job'.at = job.at
    BY <1>1, <1>6 DEF Ask, Runs, Jobs
  <2> QED
    BY <2>1
<1>7. CASE Delegate
  <2>1. waiter' = waiter /\ job.at = "none"
    BY <1>7 DEF Delegate, Runs, OnlyWorker
  <2> QED
    BY <1>1, <2>1 DEF Lives
<1>8. CASE Moves
  <2>1. Lives(a)
    BY <1>8 DEF Moves, Lives
  <2>2. ~Answered
    BY <2>1 DEF Lives, Answered, None
  <2> QED
    BY <1>1, <1>8, <2>1, <2>2 DEF Moves
<1>9. CASE Settles \/ Dies
  <2>1. waiter' = Over({b \in Approvals : waiter[b].at # None})
    BY <1>9 DEF Settles, Settled, Dies
  <2>2. waiter[a].at = None /\ Lives(a)
    BY <1>2, <2>1
  <2> QED
    BY <2>2 DEF Lives, None
<1> QED
  BY <1>3, <1>4, <1>5, <1>6, <1>7, <1>8, <1>9 DEF Step

(* Only the request of a dead worker expires.                               *)
LEMMA DeadExpireKept ==
    ASSUME TypeOK, DeadExpire, AskedAtWork, Step
    PROVE  DeadExpire'
<1>1. job \in Jobs
  BY DEF TypeOK
<1>2. CASE UNCHANGED <<expired, job>>
  BY <1>2 DEF DeadExpire
<1>3. CASE \/ Quiet \/ Claim \/ (\E a \in Approvals, d \in Decisions : Resolves(a, d))
           \/ (\E a \in Approvals : Write(a) \/ Read(a) \/ Wait(a) \/ Take(a) \/ Tell(a))
  BY <1>2, <1>3 DEF Quiet, Claim, Resolves, Write, Read, Wait, Take, Tell, Others, worker
<1>4. CASE Expire
  BY <1>4 DEF Expire, worker, DeadExpire
<1>5. ASSUME UNCHANGED expired, job.at # "dead" \/ job' = job
      PROVE  DeadExpire'
  BY <1>5 DEF DeadExpire
<1>6. CASE \E a \in Approvals : CancelWorker(a) \/ Ask(a)
  BY <1>5, <1>6 DEF CancelWorker, Ask, Runs
<1>7. CASE Delegate \/ Moves \/ Settles
  BY <1>5, <1>7 DEF Delegate, Runs, OnlyWorker, Moves, Settles, Within
<1>8. CASE Dies
  BY <1>5, <1>8 DEF Dies
<1> QED
  BY <1>3, <1>4, <1>6, <1>7, <1>8 DEF Step

(* The requests not written: their waiters are as they were, or it is Ask   *)
(* that starts one.                                                         *)
LEMMA UnwrittenKept ==
    ASSUME TypeOK, AskedAtWork, Unwritten, Step
    PROVE  Unwritten'
<1> DEFINE Blank(a) == given[a] = {} /\ item[a] = NoFile /\ told[a] = None
                       /\ (desk # NoClaim => desk.id # a)
<1>1. /\ job \in Jobs /\ waiter \in [Approvals -> Waiters] /\ item \in [Approvals -> Items]
      /\ told \in [Approvals -> {None} \cup Decisions]
      /\ given \in [Approvals -> SUBSET (Decisions \X (0 .. MaxPrompts))]
      /\ desk \in {NoClaim} \cup [id : Approvals, decision : Decisions]
  BY DEF TypeOK
<1>2. \A a \in Approvals : waiter[a].at \in {None, "asked"} => Blank(a)
  BY DEF Unwritten
<1>3. job.at = None => \A a \in Approvals : waiter[a].at = None
  BY DEF Unwritten
<1>4. ASSUME \A a \in Approvals : waiter'[a].at \in {None, "asked"} => Blank(a)',
             job'.at # None \/ (job' = job /\ waiter' = waiter)
      PROVE  Unwritten'
  BY <1>3, <1>4 DEF Unwritten
<1>5. CASE Quiet \/ Expire
  <2>1. UNCHANGED <<desk, job, waiter, item, told, given>>
    BY <1>5 DEF Quiet, Expire, desktop, worker
  <2> QED
    BY <1>2, <1>4, <2>1
<1>6. ASSUME NEW b \in Approvals, NEW d \in Decisions, Resolves(b, d)
      PROVE  Unwritten'
  <2>1. UNCHANGED <<job, waiter, item, told, given>> /\ desk'.id = b /\ item[b].status = "pending"
    BY <1>6 DEF Resolves
  <2>2. item[b] # NoFile
    BY <2>1 DEF NoFile, None
  <2> QED
    BY <1>2, <1>4, <2>1, <2>2
<1>7. CASE Claim
  <2>1. UNCHANGED <<job, waiter, told>> /\ desk' = NoClaim
    BY <1>7 DEF Claim, worker
  <2>2. \A a \in Approvals \ {desk.id} : item'[a] = item[a] /\ given'[a] = given[a]
    BY <1>1, <1>7 DEF Claim
  <2>3. desk # NoClaim
    BY <1>7 DEF Claim
  <2> QED
    BY <1>2, <1>4, <2>1, <2>2, <2>3
<1>8. ASSUME NEW b \in Approvals, Write(b) \/ Read(b) \/ Wait(b) \/ Take(b)
      PROVE  Unwritten'
  <2>1. UNCHANGED <<desk, job, told, given>>
    BY <1>8 DEF Write, Read, Wait, Take, Others, desktop
  <2>2. \A a \in Approvals \ {b} : waiter'[a] = waiter[a] /\ item'[a] = item[a]
    BY <1>1, <1>8 DEF Write, Read, Wait, Take
  <2>3. waiter'[b].at \in {"waits", "read", "tells"}
    BY <1>1, <1>8 DEF Write, Read, Wait, Take, Waiters
  <2>4. job.at # None
    BY <1>3, <1>8 DEF Write, Read, Wait, Take, None
  <2>5. waiter'[b].at \notin {None, "asked"}
    BY <2>3 DEF None
  <2> QED
    BY <1>2, <1>4, <2>1, <2>2, <2>4, <2>5
<1>9. ASSUME NEW b \in Approvals, Tell(b)
      PROVE  Unwritten'
  <2>1. UNCHANGED <<desk, job, given>>
    BY <1>9 DEF Tell, Others, desktop
  <2>2. \A a \in Approvals \ {b} :
            waiter'[a] = waiter[a] /\ item'[a] = item[a] /\ told'[a] = told[a]
    BY <1>1, <1>9, OverUpdated DEF Tell
  <2>3. waiter'[b].at \notin {None, "asked"}
    BY <1>1, <1>9, OverUpdated DEF Tell, None
  <2>4. job.at # None
    BY <1>3, <1>9 DEF Tell, None
  <2> QED
    BY <1>2, <1>4, <2>1, <2>2, <2>3, <2>4
<1>10. ASSUME NEW b \in Approvals, CancelWorker(b)
       PROVE  Unwritten'
  <2>1. UNCHANGED <<desk, told, given>>
    BY <1>10 DEF CancelWorker, desktop
  <2>2. \A a \in Approvals \ {b} : waiter'[a] = waiter[a] /\ item'[a] = item[a]
    BY <1>1, <1>10, OverUpdated DEF CancelWorker
  <2>3. waiter'[b].at \notin {None, "asked"}
    BY <1>1, <1>10, OverUpdated DEF CancelWorker, None
  <2>4. job.at # None /\ (job' = job \/ job'.at = "stopped")
    BY <1>1, <1>3, <1>10 DEF CancelWorker, Jobs, None
  <2>5. job'.at # None
    BY <2>4 DEF None
  <2> QED
    BY <1>2, <1>4, <2>1, <2>2, <2>3, <2>5
<1>11. ASSUME NEW b \in Approvals, Ask(b)
       PROVE  Unwritten'
  <2>1. UNCHANGED <<desk, item, told, given>> /\ waiter[b].at = None
    BY <1>11 DEF Ask, desktop
  <2>2. \A a \in Approvals \ {b} : waiter'[a] = waiter[a]
    BY <1>1, <1>11 DEF Ask
  <2>3. job'.at = "prompt"
    BY <1>1, <1>11 DEF Ask, Runs, Jobs
  <2>4. job'.at # None
    BY <2>3 DEF None
  <2> QED
    BY <1>2, <1>4, <2>1, <2>2, <2>4
<1>12. CASE Delegate
  <2>1. UNCHANGED <<desk, waiter, item, told, given>>
    BY <1>12 DEF Delegate, OnlyWorker, desktop
  <2>2. job'.at = "choose"
    BY <1>1, <1>12 DEF Delegate, Jobs
  <2>3. job'.at # None
    BY <2>2 DEF None
  <2> QED
    BY <1>2, <1>4, <2>1, <2>3
<1>13. CASE Moves
  <2>1. UNCHANGED <<desk, waiter, item, told, given>> /\ job'.at # None
    BY <1>13 DEF Moves, desktop
  <2> QED
    BY <1>2, <1>4, <2>1
<1>14. CASE Settles
  <2> DEFINE as == {a \in Approvals : waiter[a].at # None}
             gs == {a \in Approvals : waiter[a].at \in {"waits", "tells"}}
  <2>1. /\ UNCHANGED <<desk, told, given>> /\ job'.at = "close"
        /\ waiter' = Over(as) /\ item' = Gone(gs)
    BY <1>14 DEF Settles, Settled, desktop
  <2>2. \A a \in as : waiter'[a].at \notin {None, "asked"}
    BY <1>1, <2>1, OverUpdated DEF None
  <2>3. \A a \in Approvals \ as : waiter'[a] = waiter[a] /\ item'[a] = item[a]
    BY <1>1, <2>1, OverUpdated DEF None
  <2>4. job'.at # None
    BY <2>1 DEF None
  <2>5. \A a \in Approvals : waiter'[a].at \in {None, "asked"} => Blank(a)'
    BY <1>2, <2>1, <2>2, <2>3, ZenonT(30)
  <2> QED
    BY <1>4, <2>4, <2>5
<1>15. CASE Dies
  <2> DEFINE as == {a \in Approvals : waiter[a].at # None}
  <2>1. UNCHANGED <<desk, item, told, given>> /\ waiter' = Over(as)
    BY <1>15 DEF Dies, desktop
  <2>2. job'.at = "dead"
    BY <1>1, <1>15 DEF Dies, To, Jobs
  <2>3. \A a \in as : waiter'[a].at \notin {None, "asked"}
    BY <1>1, <2>1, OverUpdated DEF None
  <2>4. \A a \in Approvals \ as : waiter'[a] = waiter[a]
    BY <1>1, <2>1, OverUpdated
  <2>5. job'.at # None
    BY <2>2 DEF None
  <2>6. \A a \in Approvals : waiter'[a].at \in {None, "asked"} => Blank(a)'
    BY <1>2, <2>1, <2>3, <2>4
  <2> QED
    BY <1>4, <2>5, <2>6
<1> QED
  BY <1>5, <1>6, <1>7, <1>8, <1>9, <1>10, <1>11, <1>12, <1>13, <1>14, <1>15 DEF Step

(* Only the desktop decides, and only for the run of the worker.            *)
LEMMA OnlyDesktopDecides ==
    ASSUME TypeOK, Step
    PROVE  \/ Quiet \/ Claim \/ Delegate \/ \E a \in Approvals, d \in Decisions : Resolves(a, d)
           \/ UNCHANGED <<desk, runId, given>> /\ job'.run = job.run
<1>1. job \in Jobs
  BY DEF TypeOK
<1>2. CASE \/ Expire
           \/ \E a \in Approvals : Write(a) \/ Read(a) \/ Wait(a) \/ Take(a) \/ Tell(a)
  BY <1>2 DEF Write, Read, Wait, Take, Tell, Expire, Others, desktop, worker
<1>3. CASE \E a \in Approvals : CancelWorker(a) \/ Ask(a)
  BY <1>1, <1>3 DEF CancelWorker, Ask, desktop, Jobs
<1>4. CASE Moves \/ Settles
  BY <1>4 DEF Moves, Settles, desktop
<1>5. CASE Dies
  BY <1>1, <1>5 DEF Dies, To, desktop, Jobs
<1> QED
  BY <1>2, <1>3, <1>4, <1>5 DEF Step

(* Before the delegation nothing is decided.                                *)
LEMMA NothingBefore ==
    ASSUME TypeOK, Unwritten, job.at = None
    PROVE  /\ desk = NoClaim
           /\ \A a \in Approvals :
                 waiter[a].at = None /\ given[a] = {} /\ item[a] = NoFile /\ told[a] = None
<1>1. \A a \in Approvals : waiter[a].at = None
  BY DEF Unwritten
<1>2. desk \in {NoClaim} \cup [id : Approvals, decision : Decisions]
  BY DEF TypeOK
<1>3. desk # NoClaim => desk.id \in Approvals
  BY <1>2
<1> QED
  BY <1>1, <1>3 DEF Unwritten

(* The desktop begins to decide in the run of the worker, which cannot end  *)
(* before it did.                                                           *)
LEMMA DecidingKept ==
    ASSUME TypeOK, Unwritten, Deciding, Undecided, Step
    PROVE  Deciding'
<1>1. CASE Quiet
  <2>1. UNCHANGED <<desk, given, job>> /\ (desk = NoClaim \/ runId' = runId)
    BY <1>1 DEF Quiet
  <2> QED
    BY <2>1 DEF Deciding
<1>2. ASSUME NEW a \in Approvals, NEW d \in Decisions, Resolves(a, d)
      PROVE  Deciding'
  <2>1. given[a] = {} /\ runId = job.run
    BY <1>2 DEF Resolves, Active, Undecided
  <2>2. UNCHANGED <<runId, job, given>> /\ desk'.id = a
    BY <1>2 DEF Resolves
  <2> QED
    BY <2>1, <2>2 DEF Deciding
<1>3. CASE Claim
  BY <1>3 DEF Claim, Deciding
<1>4. CASE Delegate
  <2>1. desk = NoClaim
    BY <1>4, NothingBefore DEF Delegate, Runs, None
  <2>2. desk' = desk
    BY <1>4 DEF Delegate, OnlyWorker, desktop
  <2> QED
    BY <2>1, <2>2 DEF Deciding
<1>5. CASE UNCHANGED <<desk, runId, given>> /\ job'.run = job.run
  BY <1>5 DEF Deciding
<1> QED
  BY <1>1, <1>2, <1>3, <1>4, <1>5, OnlyDesktopDecides

(* The one receipt is written where there was none.                         *)
LEMMA OneReceiptKept ==
    ASSUME TypeOK, Unwritten, Deciding, OneReceipt, Step
    PROVE  OneReceipt'
<1>1. given \in [Approvals -> SUBSET (Decisions \X (0 .. MaxPrompts))]
  BY DEF TypeOK
<1>2. ASSUME given' = given, job'.run = job.run
      PROVE  OneReceipt'
  BY <1>2 DEF OneReceipt
<1>3. CASE Quiet \/ \E a \in Approvals, d \in Decisions : Resolves(a, d)
  BY <1>2, <1>3 DEF Quiet, Resolves
<1>4. CASE Claim
  <2>1. desk.decision \in Decisions /\ desk.id \in Approvals
    BY <1>4 DEF Claim, TypeOK
  <2>2. given'[desk.id] = {<<desk.decision, job.run>>}
    BY <1>1, <1>4, <2>1 DEF Claim, Deciding
  <2>3. \A a \in Approvals \ {desk.id} : given'[a] = given[a]
    BY <1>1, <1>4 DEF Claim
  <2>4. job' = job
    BY <1>4 DEF Claim, worker
  <2> QED
    BY <2>1, <2>2, <2>3, <2>4 DEF OneReceipt
<1>5. CASE Delegate
  <2>1. \A a \in Approvals : given[a] = {}
    BY <1>5, NothingBefore DEF Delegate, Runs, None
  <2>2. given' = given
    BY <1>5 DEF Delegate, OnlyWorker
  <2> QED
    BY <2>1, <2>2 DEF OneReceipt
<1> QED
  BY <1>2, <1>3, <1>4, <1>5, OnlyDesktopDecides

(* A receipt stays.                                                         *)
LEMMA ReceiptStays ==
    ASSUME TypeOK, Unwritten, Step, NEW a \in Approvals, NEW d, Receipt(a, d)
    PROVE  Receipt(a, d)'
<1>1. given \in [Approvals -> SUBSET (Decisions \X (0 .. MaxPrompts))]
  BY DEF TypeOK
<1>2. CASE given' = given /\ job'.run = job.run
  BY <1>2 DEF Receipt
<1>3. CASE Quiet \/ \E b \in Approvals, e \in Decisions : Resolves(b, e)
  BY <1>2, <1>3 DEF Quiet, Resolves
<1>4. CASE Claim
  <2>1. given[a] \subseteq given'[a] /\ job' = job
    BY <1>1, <1>4 DEF Claim, worker
  <2> QED
    BY <2>1 DEF Receipt
<1>5. CASE Delegate
  BY <1>5, NothingBefore DEF Delegate, Runs, None, Receipt
<1> QED
  BY <1>2, <1>3, <1>4, <1>5, OnlyDesktopDecides

(* What is pending waits for a worker that reads, or for none.              *)
LEMMA UndecidedKept ==
    ASSUME TypeOK, AskedAtWork, Unwritten, Undecided, Step
    PROVE  Undecided'
<1> DEFINE Waits(a) == waiter[a].at \in {"waits", "read", "tells"} \/ job.at = "dead"
<1> SUFFICES ASSUME NEW a \in Approvals, item'[a].status = "pending"
             PROVE  item'[a].decision = None /\ given'[a] = {} /\ Waits(a)'
  BY DEF Undecided
<1>1. /\ job \in Jobs /\ waiter \in [Approvals -> Waiters] /\ item \in [Approvals -> Items]
      /\ given \in [Approvals -> SUBSET (Decisions \X (0 .. MaxPrompts))]
  BY DEF TypeOK
<1>2. item[a].status = "pending" => item[a].decision = None /\ given[a] = {} /\ Waits(a)
  BY DEF Undecided
<1>3. NoFile.status # "pending"
  BY DEF NoFile, None
<1>4. CASE Quiet \/ \E b \in Approvals, d \in Decisions : Resolves(b, d)
  BY <1>2, <1>4 DEF Quiet, Resolves
<1>5. CASE Expire
  BY <1>2, <1>5 DEF Expire, worker
<1>6. CASE Claim
  <2>1. a # desk.id
    BY <1>1, <1>6 DEF Claim
  <2>2. item'[a] = item[a] /\ given'[a] = given[a] /\ UNCHANGED <<waiter, job>>
    BY <1>1, <1>6, <2>1 DEF Claim, worker
  <2> QED
    BY <1>2, <2>2
<1>7. ASSUME NEW b \in Approvals, Write(b)
      PROVE  item'[a].decision = None /\ given'[a] = {} /\ Waits(a)'
  <2>1. UNCHANGED <<job, given>>
    BY <1>7 DEF Write, Others
  <2>2. CASE a = b
    <3>1. item'[a] = Pending /\ waiter'[a].at = "waits"
      BY <1>1, <1>7, <2>2 DEF Write, Waiters
    <3>2. given[a] = {}
      BY <1>7, <2>2 DEF Write, Unwritten
    <3> QED
      BY <2>1, <3>1, <3>2 DEF Pending
  <2>3. CASE a # b
    BY <1>1, <1>2, <1>7, <2>1, <2>3 DEF Write
  <2> QED
    BY <2>2, <2>3
<1>8. ASSUME NEW b \in Approvals, Read(b) \/ Wait(b) \/ Take(b)
      PROVE  item'[a].decision = None /\ given'[a] = {} /\ Waits(a)'
  <2>1. UNCHANGED <<job, item, given>>
    BY <1>8 DEF Read, Wait, Take, Others
  <2>2. waiter'[b].at \in {"waits", "read", "tells"} /\ (a # b => waiter'[a] = waiter[a])
    BY <1>1, <1>8 DEF Read, Wait, Take, Waiters
  <2> QED
    BY <1>2, <2>1, <2>2
<1>9. ASSUME NEW b \in Approvals, Tell(b) \/ CancelWorker(b)
      PROVE  item'[a].decision = None /\ given'[a] = {} /\ Waits(a)'
  <2>1. item' = Gone({b}) /\ waiter' = Over({b}) /\ given' = given
    BY <1>9 DEF Tell, CancelWorker, Others
  <2>2. a # b /\ item'[a] = item[a] /\ waiter'[a] = waiter[a]
    BY <1>1, <1>3, <2>1, OverUpdated
  <2>3. job.at \in {"prompt", "stopped"}
    BY <1>9 DEF Tell, CancelWorker, AskedAtWork, Lives
  <2> QED
    BY <1>2, <2>1, <2>2, <2>3
<1>10. ASSUME NEW b \in Approvals, Ask(b)
       PROVE  item'[a].decision = None /\ given'[a] = {} /\ Waits(a)'
  <2>1. UNCHANGED <<item, given>> /\ waiter[b].at = None /\ job.at = "prompt"
    BY <1>10 DEF Ask, Runs
  <2>2. a # b
    BY <1>3, <2>1 DEF Unwritten
  <2>3. waiter'[a] = waiter[a]
    BY <1>1, <1>10, <2>2 DEF Ask
  <2> QED
    BY <1>2, <2>1, <2>3
<1>11. CASE Delegate
  <2>1. item[a] = NoFile
    BY <1>11, NothingBefore DEF Delegate, Runs, None
  <2>2. item' = item
    BY <1>11 DEF Delegate, OnlyWorker
  <2> QED
    BY <1>3, <2>1, <2>2
<1>12. CASE Moves
  BY <1>2, <1>12 DEF Moves
<1>13. CASE Settles
  <2> DEFINE gs == {b \in Approvals : waiter[b].at \in {"waits", "tells"}}
  <2>1. item' = Gone(gs) /\ ~Holding /\ job.at # "dead"
    BY <1>13 DEF Settles, Settled, Within
  <2>2. a \notin gs /\ item'[a] = item[a]
    BY <1>1, <1>3, <2>1, OverUpdated
  <2>3. waiter[a].at = "read"
    BY <1>2, <2>1, <2>2
  <2> QED
    BY <2>1, <2>3 DEF Holding
<1>14. CASE Dies
  <2>1. job'.at = "dead" /\ UNCHANGED <<item, given>>
    BY <1>1, <1>14 DEF Dies, To, Jobs
  <2> QED
    BY <1>2, <2>1
<1> QED
  BY <1>4, <1>5, <1>6, <1>7, <1>8, <1>9, <1>10, <1>11, <1>12, <1>13, <1>14 DEF Step

(* The file says what the receipt says, and so does what was read in it.    *)
LEMMA FileTrueKept ==
    ASSUME TypeOK, Unwritten, Deciding, FileTrue, Step
    PROVE  FileTrue'
<1> DEFINE Filed(a) == item[a].decision # None => Receipt(a, item[a].decision)
           Found(a) == waiter[a].at = "read" /\ waiter[a].got.decision # None =>
                           Receipt(a, waiter[a].got.decision)
<1> SUFFICES ASSUME NEW a \in Approvals
             PROVE  Filed(a)' /\ Found(a)'
  BY DEF FileTrue
<1>1. /\ job \in Jobs /\ waiter \in [Approvals -> Waiters] /\ item \in [Approvals -> Items]
      /\ given \in [Approvals -> SUBSET (Decisions \X (0 .. MaxPrompts))]
  BY DEF TypeOK
<1>2. Filed(a) /\ Found(a)
  BY DEF FileTrue
<1>3. NoFile.decision = None /\ Pending.decision = None
  BY DEF NoFile, Pending
<1>4. item'[a] = item[a] \/ item'[a] = NoFile \/ item'[a] = Pending => Filed(a)'
  <2>1. CASE item'[a] = item[a]
    <3>1. ASSUME item[a].decision # None
          PROVE  Receipt(a, item[a].decision)'
      <4>1. Receipt(a, item[a].decision)
        BY <1>2, <3>1
      <4>2. PICK d : d = item[a].decision
        OBVIOUS
      <4>3. Receipt(a, d)'
        BY <4>1, <4>2, ReceiptStays
      <4> QED
        BY <2>1, <4>2, <4>3 DEF Receipt
    <3> QED
      BY <2>1, <3>1
  <2> QED
    BY <1>3, <2>1
<1>5. waiter'[a] = waiter[a] \/ waiter'[a].at # "read" => Found(a)'
  <2>1. CASE waiter'[a] = waiter[a]
    <3>1. ASSUME waiter[a].at = "read", waiter[a].got.decision # None
          PROVE  Receipt(a, waiter[a].got.decision)'
      <4>1. Receipt(a, waiter[a].got.decision)
        BY <1>2, <3>1
      <4>2. PICK d : d = waiter[a].got.decision
        OBVIOUS
      <4>3. Receipt(a, d)'
        BY <4>1, <4>2, ReceiptStays
      <4> QED
        BY <2>1, <4>2, <4>3 DEF Receipt
    <3> QED
      BY <2>1, <3>1
  <2> QED
    BY <2>1
<1>6. CASE UNCHANGED <<item, waiter>>
  BY <1>4, <1>5, <1>6
<1>7. CASE \/ Quiet \/ Delegate \/ Moves \/ Expire
           \/ \E b \in Approvals, d \in Decisions : Resolves(b, d)
  BY <1>6, <1>7 DEF Quiet, Delegate, OnlyWorker, Moves, Expire, worker, Resolves
<1>8. CASE Claim
  <2>1. CASE a = desk.id
    <3>1. item'[a].decision = desk.decision /\ given'[a] = given[a] \cup {<<desk.decision, runId>>}
      BY <1>1, <1>8, <2>1 DEF Claim
    <3>2. job' = job /\ waiter' = waiter /\ runId = job.run
      BY <1>8 DEF Claim, worker, Deciding
    <3>3. Filed(a)'
      BY <3>1, <3>2 DEF Receipt
    <3> QED
      BY <1>5, <3>2, <3>3
  <2>2. CASE a # desk.id
    <3>1. item'[a] = item[a] /\ waiter'[a] = waiter[a]
      BY <1>1, <1>8, <2>2 DEF Claim, worker
    <3> QED
      BY <1>4, <1>5, <3>1
  <2> QED
    BY <2>1, <2>2
<1>9. ASSUME NEW b \in Approvals, Write(b)
      PROVE  Filed(a)' /\ Found(a)'
  <2>1. item'[a] = item[a] \/ item'[a] = Pending
    BY <1>1, <1>9 DEF Write
  <2>2. waiter'[a] = waiter[a] \/ waiter'[a].at = "waits"
    BY <1>1, <1>9 DEF Write, Waiters
  <2> QED
    BY <1>4, <1>5, <2>1, <2>2
<1>10. ASSUME NEW b \in Approvals, Read(b)
       PROVE  Filed(a)' /\ Found(a)'
  <2>1. item' = item
    BY <1>10 DEF Read
  <2>2. Filed(a)'
    BY <1>4, <2>1
  <2>3. CASE a = b
    <3>1. waiter'[a].got = item'[a]
      BY <1>1, <1>10, <2>1, <2>3 DEF Read
    <3>2. Found(a)'
      BY <2>2, <3>1 DEF Receipt
    <3> QED
      BY <2>2, <3>2
  <2>4. CASE a # b
    <3>1. waiter'[a] = waiter[a]
      BY <1>1, <1>10, <2>4 DEF Read
    <3> QED
      BY <1>5, <2>2, <3>1
  <2> QED
    BY <2>3, <2>4
<1>11. ASSUME NEW b \in Approvals, Wait(b) \/ Take(b)
       PROVE  Filed(a)' /\ Found(a)'
  <2>1. item' = item
    BY <1>11 DEF Wait, Take
  <2>2. waiter'[a] = waiter[a] \/ waiter'[a].at # "read"
    BY <1>1, <1>11 DEF Wait, Take, Waiters
  <2> QED
    BY <1>4, <1>5, <2>1, <2>2
<1>12. ASSUME NEW as \in SUBSET Approvals, NEW gs \in SUBSET Approvals,
              waiter' = Over(as), item' = Gone(gs) \/ item' = item
       PROVE  Filed(a)' /\ Found(a)'
  <2>1. item'[a] = item[a] \/ item'[a] = NoFile
    BY <1>1, <1>12, OverUpdated
  <2>2. waiter'[a] = waiter[a] \/ waiter'[a].at # "read"
    BY <1>1, <1>12, OverUpdated
  <2> QED
    BY <1>4, <1>5, <2>1, <2>2
<1>13. CASE \E b \in Approvals : Tell(b) \/ CancelWorker(b)
  <2>1. PICK b \in Approvals : waiter' = Over({b}) /\ item' = Gone({b})
    BY <1>13 DEF Tell, CancelWorker
  <2> QED
    BY <1>12, <2>1
<1>14. ASSUME NEW b \in Approvals, Ask(b)
       PROVE  Filed(a)' /\ Found(a)'
  <2>1. item' = item
    BY <1>14 DEF Ask
  <2>2. waiter'[a] = waiter[a] \/ waiter'[a].at # "read"
    BY <1>1, <1>14 DEF Ask, Waiters
  <2> QED
    BY <1>4, <1>5, <2>1, <2>2
<1>15. CASE Settles
  BY <1>12, <1>15 DEF Settles, Settled
<1>16. CASE Dies
  <2>1. waiter' = Over({b \in Approvals : waiter[b].at # None}) /\ item' = item
    BY <1>16 DEF Dies
  <2> QED
    BY <1>12, <2>1
<1> QED
  BY <1>7, <1>8, <1>9, <1>10, <1>11, <1>13, <1>14, <1>15, <1>16 DEF Step

(* What was heard stays true: a receipt is not taken back, and a run that   *)
(* is over does not come back.                                              *)
LEMMA HeardStays ==
    ASSUME TypeOK, RunsNumbered, Unwritten, Step, job.at # None,
           NEW a \in Approvals, NEW d, Heard(a, d)
    PROVE  Heard(a, d)'
<1>1. CASE Receipt(a, d)
  BY <1>1, ReceiptStays DEF Heard
<1>2. CASE d = "cancel" /\ runId # job.run
  <2>1. runId' # job'.run
    <3>1. CASE Quiet
      BY <1>2, <3>1, RunOnce
    <3>2. CASE Claim \/ \E b \in Approvals, e \in Decisions : Resolves(b, e)
      BY <1>2, <3>2 DEF Claim, Resolves, worker
    <3>3. CASE Delegate
      BY <3>3 DEF Delegate, Runs, None
    <3>4. CASE runId' = runId /\ job'.run = job.run
      BY <1>2, <3>4
    <3> QED
      BY <3>1, <3>2, <3>3, <3>4, OnlyDesktopDecides
  <2> QED
    BY <1>2, <2>1 DEF Heard
<1> QED
  BY <1>1, <1>2 DEF Heard

(* What the worker hears was read in the file, or the run is over.          *)
LEMMA HeardTrueKept ==
    ASSUME TypeOK, RunsNumbered, Recording, AskedAtWork, DeadExpire, Unwritten, FileTrue, HeardTrue,
           Step
    PROVE  HeardTrue'
<1> DEFINE Tells(a) == waiter[a].at = "tells" =>
                           waiter[a].got.decision \in Decisions /\ Heard(a, waiter[a].got.decision)
           Was(a) == told[a] # None => Heard(a, told[a])
<1> SUFFICES ASSUME NEW a \in Approvals
             PROVE  Tells(a)' /\ Was(a)'
  BY DEF HeardTrue
<1>1. /\ job \in Jobs /\ waiter \in [Approvals -> Waiters] /\ item \in [Approvals -> Items]
      /\ told \in [Approvals -> {None} \cup Decisions]
  BY DEF TypeOK
<1>2. Tells(a) /\ Was(a)
  BY DEF HeardTrue
<1>3. told[a] # None \/ waiter[a].at = "tells" => job.at # None
  BY NothingBefore DEF None
<1>4. ASSUME told'[a] = told[a]
      PROVE  Was(a)'
  <2>1. ASSUME told[a] # None
        PROVE  Heard(a, told[a])'
    <3>1. PICK d : d = told[a]
      OBVIOUS
    <3>2. Heard(a, d)'
      BY <1>2, <1>3, <2>1, <3>1, HeardStays
    <3> QED
      BY <1>4, <3>1, <3>2 DEF Heard, Receipt
  <2> QED
    BY <1>4, <2>1
<1>5. ASSUME waiter'[a] = waiter[a] \/ waiter'[a].at # "tells"
      PROVE  Tells(a)'
  <2>1. ASSUME waiter'[a].at = "tells"
        PROVE  waiter'[a].got.decision \in Decisions /\ Heard(a, waiter[a].got.decision)'
    <3>1. PICK d : d = waiter[a].got.decision
      OBVIOUS
    <3>2. Heard(a, d)' /\ d \in Decisions
      BY <1>2, <1>3, <1>5, <2>1, <3>1, HeardStays
    <3> QED
      BY <1>5, <2>1, <3>1, <3>2 DEF Heard, Receipt
  <2> QED
    BY <2>1
<1>6. CASE \/ Quiet \/ Claim \/ Delegate \/ Moves \/ Expire
           \/ \E b \in Approvals, d \in Decisions : Resolves(b, d)
  <2>1. UNCHANGED <<told, waiter>>
    BY <1>6 DEF Quiet, Claim, Delegate, OnlyWorker, Moves, Expire, worker, Resolves
  <2> QED
    BY <1>4, <1>5, <2>1
<1>7. ASSUME NEW b \in Approvals, Write(b) \/ Read(b) \/ Wait(b) \/ Ask(b)
      PROVE  Tells(a)' /\ Was(a)'
  <2>1. told' = told
    BY <1>7 DEF Write, Read, Wait, Ask
  <2>2. waiter'[a] = waiter[a] \/ waiter'[a].at # "tells"
    BY <1>1, <1>7 DEF Write, Read, Wait, Ask, Waiters
  <2> QED
    BY <1>4, <1>5, <2>1, <2>2
<1>8. ASSUME NEW b \in Approvals, Take(b)
      PROVE  Tells(a)' /\ Was(a)'
  <2>1. told' = told /\ UNCHANGED <<given, job, runId>>
    BY <1>8 DEF Take, Others, desktop
  <2>2. CASE a # b
    <3>1. waiter'[a] = waiter[a]
      BY <1>1, <1>8, <2>2 DEF Take
    <3> QED
      BY <1>4, <1>5, <2>1, <3>1
  <2>3. CASE a = b
    <3>1. PICK d \in Decisions :
              /\ \/ d = waiter[a].got.decision
                 \/ waiter[a].got.decision = None /\ ~Active /\ d = "cancel" /\ a \in job.refusable
              /\ waiter'[a] = [at |-> "tells", got |-> [status |-> "decided", decision |-> d]]
      BY <1>1, <1>8, <2>3 DEF Take
    <3>2. waiter[a].at = "read"
      BY <1>8, <2>3 DEF Take
    <3>3. Heard(a, d)
      <4>1. CASE d = waiter[a].got.decision
        <5>1. d # None
          BY DEF Decisions, None
        <5> QED
          BY <3>2, <4>1, <5>1 DEF FileTrue, Heard
      <4>2. CASE ~Active /\ d = "cancel"
        <5>1. Lives(a)
          BY <3>2 DEF Lives
        <5> QED
          BY <4>2, <5>1, NotActiveIsOver DEF Heard
      <4> QED
        BY <3>1, <4>1, <4>2
    <3>4. waiter'[a].got.decision = d
      BY <3>1
    <3>5. Tells(a)'
      BY <2>1, <3>3, <3>4 DEF Heard, Receipt
    <3> QED
      BY <1>4, <2>1, <3>5
  <2> QED
    BY <2>2, <2>3
<1>9. ASSUME NEW b \in Approvals, Tell(b)
      PROVE  Tells(a)' /\ Was(a)'
  <2>1. waiter' = Over({b}) /\ UNCHANGED <<given, job, runId>>
    BY <1>9 DEF Tell, Others, desktop
  <2>2. Tells(a)'
    BY <1>1, <1>5, <2>1, OverUpdated
  <2>3. CASE a = b
    <3>1. told'[a] = waiter[a].got.decision /\ Heard(a, waiter[a].got.decision)
      BY <1>1, <1>2, <1>9, <2>3 DEF Tell
    <3> QED
      BY <2>1, <2>2, <3>1 DEF Heard, Receipt
  <2>4. CASE a # b
    BY <1>1, <1>4, <1>9, <2>2, <2>4 DEF Tell
  <2> QED
    BY <2>3, <2>4
<1>10. ASSUME NEW as \in SUBSET Approvals, waiter' = Over(as), told' = told
       PROVE  Tells(a)' /\ Was(a)'
  <2>1. waiter'[a] = waiter[a] \/ waiter'[a].at # "tells"
    BY <1>1, <1>10, OverUpdated
  <2> QED
    BY <1>4, <1>5, <1>10, <2>1
<1>11. CASE \E b \in Approvals : CancelWorker(b)
  <2>1. PICK b \in Approvals : waiter' = Over({b}) /\ told' = told
    BY <1>11 DEF CancelWorker
  <2> QED
    BY <1>10, <2>1
<1>12. CASE Settles \/ Dies
  <2>1. waiter' = Over({b \in Approvals : waiter[b].at # None}) /\ told' = told
    BY <1>12 DEF Settles, Settled, Dies
  <2> QED
    BY <1>10, <2>1
<1> QED
  BY <1>6, <1>7, <1>8, <1>9, <1>11, <1>12 DEF Step
-----------------------------------------------------------------------------
(* The record and the attempt, at every step.                               *)

(* The desktop, who waits, and the environment leave them alone.            *)
Elsewhere == UNCHANGED <<job, task, saved, did>>

(* These are the steps of the others.                                       *)
LEMMA OthersElsewhere ==
    ASSUME \/ StartRun \/ NextPrompt \/ Watcher \/ Claim \/ Leave \/ Leaving
           \/ (\E a \in Approvals, d \in Decisions : Resolve(a, d))
           \/ (\E a \in Approvals : Write(a) \/ Read(a) \/ Wait(a) \/ Take(a) \/ Tell(a))
           \/ Edit \/ Expire \/ UNCHANGED vars
    PROVE  Elsewhere
<1>1. CASE StartRun \/ NextPrompt \/ Claim \/ Leave \/ FinishRun \/ Poll \/ EndPoll
  BY <1>1 DEF StartRun, NextPrompt, Claim, Leave, FinishRun, Poll, EndPoll, worker, Elsewhere
<1>2. CASE \E a \in Approvals : EmitRequest(a) \/ EmitResolved(a) \/ Refuse(a)
  BY <1>2 DEF EmitRequest, EmitResolved, Refuse, worker, Elsewhere
<1>3. CASE \E a \in Approvals, d \in Decisions : Resolve(a, d)
  BY <1>3 DEF Resolve, worker, Elsewhere
<1>4. CASE \E a \in Approvals : Write(a) \/ Read(a) \/ Wait(a) \/ Take(a) \/ Tell(a)
  BY <1>4 DEF Write, Read, Wait, Take, Tell, Others, Elsewhere
<1>5. CASE Edit \/ Expire \/ UNCHANGED vars
  BY <1>5 DEF Edit, Expire, vars, worker, Elsewhere
<1> QED
  BY <1>1, <1>2, <1>3, <1>4, <1>5 DEF Watcher, Leaving

(* The steps that do not leave them alone.                                  *)
Works ==
    \/ \E a \in Approvals : CancelWorker(a) \/ Ask(a)
    \/ Delegate \/ (\E s \in {"rejected", "evaluation_failed", "cancelled"} : NoAttempt(s))
    \/ Choose \/ Upgrade \/ Fingerprint \/ CancelUncaught \/ Create \/ Prepare \/ Close \/ Return
    \/ (\E changes \in BOOLEAN : UseTool(changes))
    \/ (\E s \in {"completed", "failed", "cancelled"} : EndPrompt(s))
    \/ (\E c \in {"unknown", "passed", "failed"} : Verify(c))
    \/ (\E s \in {"cancelled", "timed_out", "failed"} : Raise(s))
    \/ Dies

(* There are no further steps.                                              *)
LEMMA WorksOrNot ==
    ASSUME [Next]_vars
    PROVE  Elsewhere \/ Works
<1>1. CASE Next
  <2>1. \/ StartRun \/ NextPrompt \/ Watcher \/ Claim \/ Leave \/ Leaving
        \/ (\E a \in Approvals, d \in Decisions : Resolve(a, d))
        \/ (\E a \in Approvals : Write(a) \/ Read(a) \/ Wait(a) \/ Take(a) \/ Tell(a))
        \/ Edit \/ Expire \/ Works
    BY <1>1 DEF Next, Proceed, Approval, Works
  <2> QED
    BY <2>1, OthersElsewhere
<1> QED
  BY <1>1, OthersElsewhere

(* The record is at each stage what delegate made it.                       *)
LEMMA RecordingKept ==
    ASSUME TypeOK, Recording, [Next]_vars
    PROVE  Recording'
<1>1. /\ job \in Jobs /\ task \in Tasks /\ saved \in Tasks
  BY DEF TypeOK
<1>2. /\ \A at \in Ats :
            [job EXCEPT !.at = at].at = at /\ [job EXCEPT !.at = at].number = job.number
      /\ [job EXCEPT !.tools = TRUE].at = job.at /\ [job EXCEPT !.tools = TRUE].number = job.number
  BY <1>1 DEF Jobs
<1>3. /\ {"choose", "prepare", "prompt", "verify", "close", "after", "over", "dead"} \subseteq Ats
      /\ "stopped" \in Ats
  BY DEF Ats
<1>4. CASE Elsewhere
  BY <1>4 DEF Elsewhere, Recording
<1>5. ASSUME job'.at \in {"over", "dead"}
      PROVE  Recording'
  BY <1>5 DEF Recording, None
<1>6. CASE \E a \in Approvals : CancelWorker(a) \/ Ask(a)
  <2>1. UNCHANGED <<task, saved>>
    BY <1>6 DEF CancelWorker, Ask
  <2>2. job'.at = job.at \/ (job.at = "prompt" /\ job'.at = "stopped")
    BY <1>2, <1>3, <1>6 DEF CancelWorker, Ask
  <2>3. job'.number = job.number
    BY <1>2, <1>3, <1>6 DEF CancelWorker, Ask
  <2> QED
    BY <2>1, <2>2, <2>3 DEF Recording, None
<1>7. CASE Delegate
  <2>1. job'.at = "choose" /\ job'.number = 0
    BY <1>1, <1>7 DEF Delegate, Runs, Recording, Jobs, None
  <2>2. task'.attempt = None
    BY <1>7 DEF Delegate, Store, NoTask
  <2> QED
    BY <2>1, <2>2 DEF Recording, None
<1>8. CASE \E s \in {"rejected", "evaluation_failed", "cancelled"} : NoAttempt(s)
  BY <1>2, <1>3, <1>5, <1>8 DEF NoAttempt, To
<1>9. CASE Choose \/ Upgrade
  <2>1. BeginAttempt
    BY <1>9 DEF Choose, Upgrade
  <2>2. job'.at = "fingerprint"
    BY <1>1, <2>1 DEF BeginAttempt, Jobs
  <2>3. task'.status = "running" /\ task'.attempt = "running"
    BY <2>1 DEF BeginAttempt, Store, NoTask
  <2> QED
    BY <2>2, <2>3 DEF Recording, None
<1>10. CASE Fingerprint
  <2>1. job.at = "fingerprint" /\ job'.at = "create" /\ task' = task
    BY <1>1, <1>10 DEF Fingerprint, Runs, Jobs
  <2> QED
    BY <2>1 DEF Recording, None
<1>11. CASE CancelUncaught
  <2>1. job'.at = "over"
    BY <1>1, <1>11 DEF CancelUncaught, Jobs
  <2> QED
    BY <1>5, <2>1
<1>12. CASE Create
  <2>1. job.at = "create" /\ job'.at = "prepare"
    BY <1>2, <1>3, <1>12 DEF Create, Runs, To
  <2>2. saved' = [task EXCEPT !.session = TRUE]
    BY <1>12 DEF Create, Store
  <2>3. saved'.status = "running" /\ saved'.attempt = "running" /\ saved'.session
    BY <1>1, <2>1, <2>2 DEF Recording, Tasks
  <2> QED
    BY <2>1, <2>3 DEF Recording, None
<1>13. CASE Prepare
  <2>1. job.at = "prepare" /\ job'.at = "prompt" /\ saved' = saved
    BY <1>2, <1>3, <1>13 DEF Prepare, Runs, To
  <2> QED
    BY <2>1 DEF Recording, None
<1>14. CASE Close
  <2>1. job.at = "close" /\ job'.at \in {"over", "after"}
    BY <1>2, <1>3, <1>14 DEF Close, Runs, To
  <2>2. saved' = [task EXCEPT !.status = task.attempt]
    BY <1>14 DEF Close, Store
  <2>3. saved'.status # "running" /\ saved'.attempt # "running"
    BY <1>1, <2>1, <2>2 DEF Recording, Tasks
  <2> QED
    BY <2>1, <2>3 DEF Recording, None
<1>15. CASE Return
  BY <1>2, <1>3, <1>5, <1>15 DEF Return, To
<1>16. CASE \E changes \in BOOLEAN : UseTool(changes)
  <2>1. job'.at = job.at /\ job'.number = job.number /\ UNCHANGED <<task, saved>>
    BY <1>2, <1>16 DEF UseTool
  <2> QED
    BY <2>1 DEF Recording
<1>17. ASSUME NEW s \in {"completed", "failed", "cancelled"}, EndPrompt(s)
       PROVE  Recording'
  <2>1. task'.attempt = s /\ saved' = saved /\ job.at \in {"prompt", "stopped"}
    BY <1>1, <1>17 DEF EndPrompt, Runs, Untouched, Tasks
  <2>2. job' = [job EXCEPT !.at = IF s = "completed" THEN "verify" ELSE "close"]
    BY <1>17 DEF EndPrompt, To
  <2>3. job'.at = IF s = "completed" THEN "verify" ELSE "close"
    BY <1>2, <1>3, <2>2
  <2> QED
    BY <2>1, <2>3 DEF Recording, None
<1>18. ASSUME NEW c \in {"unknown", "passed", "failed"}, Verify(c)
       PROVE  Recording'
  <2>1. job.at = "verify" /\ job'.at = "close"
    BY <1>2, <1>3, <1>18 DEF Verify, Runs, To
  <2>2. task'.attempt = task.attempt
    BY <1>1, <1>18 DEF Verify, Tasks
  <2> QED
    BY <2>1, <2>2 DEF Recording, None
<1>19. ASSUME NEW s \in {"cancelled", "timed_out", "failed"}, Raise(s)
       PROVE  Recording'
  <2>1. job'.at = "close"
    BY <1>1, <1>19 DEF Raise, Jobs
  <2>2. task'.attempt = s
    BY <1>1, <1>19 DEF Raise, Noted, Tasks
  <2> QED
    BY <2>1, <2>2 DEF Recording, None
<1>20. CASE Dies
  BY <1>2, <1>3, <1>5, <1>20 DEF Dies, To
<1> QED
  BY <1>4, <1>6, <1>7, <1>8, <1>9, <1>10, <1>11, <1>12, <1>13, <1>14, <1>15, <1>16, <1>17,
     <1>18, <1>19, <1>20, WorksOrNot DEF Works

(* A delegation ends with its record written, or by a cancellation that     *)
(* nothing catches.                                                         *)
LEMMA EndIsRecordedKept ==
    ASSUME TypeOK, Recording, EndIsRecorded, [Next]_vars
    PROVE  EndIsRecorded'
<1>1. /\ job \in Jobs /\ task \in Tasks /\ saved \in Tasks
  BY DEF TypeOK
<1>2. \A at \in Ats : [job EXCEPT !.at = at].at = at
  BY <1>1 DEF Jobs
<1>3. /\ {"prepare", "prompt", "verify", "close", "after", "over", "dead"} \subseteq Ats
      /\ "stopped" \in Ats
  BY DEF Ats
<1>4. CASE Elsewhere
  BY <1>4 DEF Elsewhere, EndIsRecorded
<1>5. ASSUME job'.at # "over"
      PROVE  EndIsRecorded'
  BY <1>5 DEF EndIsRecorded
<1>6. CASE \E a \in Approvals : CancelWorker(a) \/ Ask(a)
  <2>1. job'.at = "stopped" \/ job' = job \/ (job.at = "prompt" /\ job'.at = job.at)
    BY <1>1, <1>2, <1>3, <1>6 DEF CancelWorker, Ask, Runs, Jobs
  <2>2. saved' = saved
    BY <1>6 DEF CancelWorker, Ask
  <2> QED
    BY <2>1, <2>2 DEF EndIsRecorded
<1>7. CASE Delegate \/ Choose \/ Upgrade \/ Fingerprint
  BY <1>1, <1>5, <1>7 DEF Delegate, Choose, Upgrade, BeginAttempt, Fingerprint, Jobs
<1>8. ASSUME NEW s \in {"rejected", "evaluation_failed", "cancelled"}, NoAttempt(s)
      PROVE  EndIsRecorded'
  <2>1. task.attempt = None /\ saved' = [task EXCEPT !.status = s]
    BY <1>8 DEF NoAttempt, Runs, Store, Recording
  <2>2. saved'.status = s /\ saved'.attempt = None
    BY <1>1, <2>1 DEF Tasks
  <2> QED
    BY <2>2 DEF EndIsRecorded, None
<1>9. CASE CancelUncaught
  <2>1. job'.uncaught
    BY <1>1, <1>9 DEF CancelUncaught, Jobs
  <2> QED
    BY <2>1 DEF EndIsRecorded
<1>10. CASE Create \/ Prepare \/ Dies
  BY <1>2, <1>3, <1>5, <1>10 DEF Create, Prepare, Dies, To
<1>11. CASE Close
  <2>1. saved' = [task EXCEPT !.status = task.attempt] /\ task.attempt # "running"
    BY <1>11 DEF Close, Store, Runs, Recording
  <2>2. saved'.status # "running" /\ saved'.attempt # "running"
    BY <1>1, <2>1 DEF Tasks
  <2> QED
    BY <2>2 DEF EndIsRecorded
<1>12. CASE Return
  BY <1>12 DEF Return, Runs, Recording, EndIsRecorded
<1>13. CASE \E changes \in BOOLEAN : UseTool(changes)
  <2>1. job'.at = "prompt"
    BY <1>1, <1>13 DEF UseTool, Runs, Jobs
  <2> QED
    BY <1>5, <2>1
<1>14. ASSUME NEW s \in {"completed", "failed", "cancelled"}, EndPrompt(s)
       PROVE  EndIsRecorded'
  BY <1>2, <1>3, <1>5, <1>14 DEF EndPrompt, To
<1>15. ASSUME NEW c \in {"unknown", "passed", "failed"}, Verify(c)
       PROVE  EndIsRecorded'
  BY <1>2, <1>3, <1>5, <1>15 DEF Verify, To
<1>16. ASSUME NEW s \in {"cancelled", "timed_out", "failed"}, Raise(s)
       PROVE  EndIsRecorded'
  BY <1>1, <1>5, <1>16 DEF Raise, Jobs
<1> QED
  BY <1>4, <1>6, <1>7, <1>8, <1>9, <1>10, <1>11, <1>12, <1>13, <1>14, <1>15, <1>16,
     WorksOrNot DEF Works

(* A tool is seen before it has an effect; the checks of a worker that only *)
(* reads change nothing.                                                    *)
LEMMA NoticedKept ==
    ASSUME TypeOK, Noticed, [Next]_vars
    PROVE  Noticed'
<1>1. job \in Jobs
  BY DEF TypeOK
<1>2. \A at \in Ats :
          [job EXCEPT !.at = at].tools = job.tools /\ [job EXCEPT !.at = at].safe = job.safe
  BY <1>1 DEF Jobs
<1>3. {"prepare", "prompt", "stopped", "verify", "close", "after", "over", "dead"} \subseteq Ats
  BY DEF Ats
<1>4. ASSUME did' => did, job'.safe = job.safe, job.tools => job'.tools
      PROVE  Noticed'
  BY <1>4 DEF Noticed
<1>5. CASE Elsewhere
  BY <1>5 DEF Elsewhere, Noticed
<1>6. CASE \E a \in Approvals : CancelWorker(a) \/ Ask(a)
  <2>1. did' = did
    BY <1>6 DEF CancelWorker, Ask
  <2>2. job'.safe = job.safe /\ (job.tools => job'.tools)
    BY <1>1, <1>2, <1>3, <1>6 DEF CancelWorker, Ask, Jobs
  <2> QED
    BY <1>4, <2>1, <2>2
<1>7. CASE Delegate \/ Fingerprint \/ CancelUncaught
  <2>1. did' = did
    BY <1>7 DEF Delegate, Fingerprint, CancelUncaught
  <2>2. job'.safe = job.safe /\ job'.tools = job.tools
    BY <1>1, <1>7 DEF Delegate, Fingerprint, CancelUncaught, Jobs
  <2> QED
    BY <1>4, <2>1, <2>2
<1>8. CASE Choose \/ Upgrade
  BY <1>8 DEF Choose, Upgrade, BeginAttempt, Noticed
<1>9. CASE \/ (\E s \in {"rejected", "evaluation_failed", "cancelled"} : NoAttempt(s))
           \/ Create \/ Prepare \/ Close \/ Return \/ Dies
  <2>1. did' = did
    BY <1>9 DEF NoAttempt, Create, Prepare, Close, Return, Dies
  <2>2. \E at \in Ats : To(at)
    BY <1>3, <1>9 DEF NoAttempt, Create, Prepare, Close, Return, Dies
  <2>3. job'.safe = job.safe /\ job'.tools = job.tools
    BY <1>2, <2>2 DEF To
  <2> QED
    BY <1>4, <2>1, <2>3
<1>10. CASE \E changes \in BOOLEAN : UseTool(changes)
  <2>1. job'.tools
    BY <1>1, <1>10 DEF UseTool, Jobs
  <2> QED
    BY <2>1 DEF Noticed
<1>11. CASE \E s \in {"completed", "failed", "cancelled"} : EndPrompt(s)
  <2>1. did' = did
    BY <1>11 DEF EndPrompt
  <2>2. \E at \in Ats : To(at)
    BY <1>3, <1>11 DEF EndPrompt
  <2>3. job'.safe = job.safe /\ job'.tools = job.tools
    BY <1>2, <2>2 DEF To
  <2> QED
    BY <1>4, <2>1, <2>3
<1>12. ASSUME NEW c \in {"unknown", "passed", "failed"}, Verify(c)
       PROVE  Noticed'
  <2>1. To("close")
    BY <1>12 DEF Verify
  <2>2. job'.safe = job.safe /\ job'.tools = job.tools
    BY <1>2, <1>3, <2>1 DEF To
  <2>3. PICK changes \in {FALSE} \cup (IF job.safe \/ tree = MaxEdits THEN {} ELSE {TRUE}) :
            did' = (did \/ changes)
    BY <1>12 DEF Verify
  <2>4. changes => ~job.safe
    BY <2>3
  <2>5. did' => did \/ ~job.safe
    BY <2>3, <2>4
  <2> QED
    BY <2>2, <2>5 DEF Noticed
<1>13. CASE \E s \in {"cancelled", "timed_out", "failed"} : Raise(s)
  <2>1. did' = did
    BY <1>13 DEF Raise
  <2>2. job'.safe = job.safe /\ job'.tools = job.tools
    BY <1>1, <1>13 DEF Raise, Jobs
  <2> QED
    BY <1>4, <2>1, <2>2
<1> QED
  BY <1>5, <1>6, <1>7, <1>8, <1>9, <1>10, <1>11, <1>12, <1>13, WorksOrNot DEF Works

(* Only the first attempt and the upgrade after it are new attempts.        *)
LEMMA NumberKept ==
    ASSUME TypeOK, [Next]_vars
    PROVE  job'.number = job.number \/ Choose \/ Upgrade
<1>1. job \in Jobs
  BY DEF TypeOK
<1>2. \A at \in Ats : [job EXCEPT !.at = at].number = job.number
  BY <1>1 DEF Jobs
<1>3. {"prepare", "prompt", "stopped", "verify", "close", "after", "over", "dead"} \subseteq Ats
  BY DEF Ats
<1>4. CASE Elsewhere
  BY <1>4 DEF Elsewhere
<1>5. CASE \E a \in Approvals : CancelWorker(a) \/ Ask(a)
  BY <1>1, <1>2, <1>3, <1>5 DEF CancelWorker, Ask, Jobs
<1>6. CASE Delegate \/ Fingerprint \/ CancelUncaught
  BY <1>1, <1>6 DEF Delegate, Fingerprint, CancelUncaught, Jobs
<1>7. CASE \/ (\E s \in {"rejected", "evaluation_failed", "cancelled"} : NoAttempt(s))
           \/ Create \/ Prepare \/ Close \/ Return \/ Dies
           \/ (\E s \in {"completed", "failed", "cancelled"} : EndPrompt(s))
           \/ (\E c \in {"unknown", "passed", "failed"} : Verify(c))
  <2>1. \E at \in Ats : To(at)
    BY <1>3, <1>7 DEF NoAttempt, Create, Prepare, Close, Return, Dies, EndPrompt, Verify
  <2> QED
    BY <1>2, <2>1 DEF To
<1>8. CASE \/ (\E changes \in BOOLEAN : UseTool(changes))
           \/ (\E s \in {"cancelled", "timed_out", "failed"} : Raise(s))
  BY <1>1, <1>8 DEF UseTool, Raise, Jobs
<1> QED
  BY <1>4, <1>5, <1>6, <1>7, <1>8, WorksOrNot DEF Works
-----------------------------------------------------------------------------
(* The invariant holds at first.                                            *)
LEMMA InvInitially ==
    ASSUME Init
    PROVE  IInv
<1>1. PICK upgrade \in BOOLEAN, safe \in BOOLEAN, known \in BOOLEAN,
           refusable \in SUBSET Approvals :
          job = [at |-> "none", number |-> 0, run |-> 0, upgrade |-> upgrade, safe |-> safe,
                 known |-> known, refusable |-> refusable, before |-> 0, tools |-> FALSE,
                 raised |-> FALSE, uncaught |-> FALSE]
  BY DEF Init
<1>2. job \in Jobs
  <2>1. "none" \in Ats /\ 0 \in 0 .. 2 /\ 0 \in 0 .. MaxPrompts /\ 0 \in 0 .. MaxEdits
    BY DelegationAssumption DEF Ats, None
  <2> QED
    BY <1>1, <2>1 DEF Jobs
<1>3. job.at = "none" /\ job.number = 0
  BY <1>1
<1>4. [at |-> None, got |-> NoFile] \in Waiters
  BY ItemsUpdated
<1>5. /\ run = [n |-> 0, stage |-> "idle"] /\ runId = 0 /\ poll = Resting /\ observed = {}
      /\ cards = {} /\ desk = NoClaim /\ task = NoTask /\ saved = NoTask /\ tree = 0 /\ ~expired
      /\ expired \in BOOLEAN /\ did \in BOOLEAN /\ ~did /\ faults = 0
      /\ waiter = [a \in Approvals |-> [at |-> None, got |-> NoFile]]
      /\ item = [a \in Approvals |-> NoFile]
      /\ told = [a \in Approvals |-> None]
      /\ given = [a \in Approvals |-> {}]
  BY DEF Init
<1>6. TypeOK
  <2>1. waiter \in [Approvals -> Waiters] /\ item \in [Approvals -> Items]
    BY <1>4, <1>5, ItemsUpdated
  <2>2. /\ told \in [Approvals -> {None} \cup Decisions]
        /\ given \in [Approvals -> SUBSET (Decisions \X (0 .. MaxPrompts))]
    BY <1>5
  <2>3. poll \in [new : SUBSET Approvals, gone : SUBSET Approvals, found : SUBSET Approvals,
                  on : BOOLEAN]
    BY <1>5 DEF Resting
  <2>4. task \in Tasks /\ saved \in Tasks
    BY <1>5 DEF Tasks, NoTask, None
  <2>5. /\ run \in [n : 0 .. MaxPrompts, stage : {"idle", "watching", "leaving"}]
        /\ runId \in 0 .. run.n
    BY <1>5, DelegationAssumption
  <2> QED
    BY <1>2, <1>5, <2>1, <2>2, <2>3, <2>4, <2>5, DelegationAssumption DEF TypeOK
<1>7. RunsNumbered /\ Noticed /\ DeadExpire /\ Deciding /\ EndIsRecorded
  BY <1>3, <1>5 DEF RunsNumbered, Noticed, DeadExpire, Deciding, EndIsRecorded, None
<1>8. Recording
  BY <1>3, <1>5 DEF Recording, NoTask, None
<1>9. /\ \A a \in Approvals :
            waiter[a].at = None /\ item[a] = NoFile /\ told[a] = None /\ given[a] = {}
      /\ NoFile.status = None /\ NoFile.decision = None
  BY <1>5 DEF NoFile
<1>10. AskedAtWork /\ Unwritten /\ Undecided
  BY <1>5, <1>9 DEF AskedAtWork, Lives, Unwritten, Undecided, None
<1>11. OneReceipt /\ FileTrue /\ HeardTrue
  BY <1>9 DEF OneReceipt, FileTrue, HeardTrue, None
<1> QED
  BY <1>6, <1>7, <1>8, <1>10, <1>11 DEF IInv

(* Every step keeps the invariant.                                          *)
LEMMA InvKept ==
    ASSUME IInv, [Next]_vars
    PROVE  IInv'
<1>1. /\ TypeOK /\ RunsNumbered /\ Recording /\ Noticed /\ AskedAtWork /\ DeadExpire /\ Unwritten
      /\ Deciding /\ Undecided /\ OneReceipt /\ FileTrue /\ HeardTrue /\ EndIsRecorded
  BY DEF IInv
<1>2. TypeOK'
  BY <1>1, TypesKept
<1>3. Step
  BY <1>1, StepIs
<1>4. RunsNumbered' /\ AskedAtWork' /\ DeadExpire'
  BY <1>1, <1>2, <1>3, RunsNumberedKept, AskedAtWorkKept, DeadExpireKept
<1>5. Recording' /\ Noticed' /\ EndIsRecorded'
  BY <1>1, RecordingKept, NoticedKept, EndIsRecordedKept
<1>6. Unwritten' /\ Deciding' /\ Undecided'
  BY <1>1, <1>3, UnwrittenKept, DecidingKept, UndecidedKept
<1>7. OneReceipt' /\ FileTrue' /\ HeardTrue'
  BY <1>1, <1>3, OneReceiptKept, FileTrueKept, HeardTrueKept
<1> QED
  BY <1>2, <1>4, <1>5, <1>6, <1>7 DEF IInv

(* In every state of every delegation.                                      *)
THEOREM InvHolds == Spec => []IInv
<1>1. Init => IInv
  BY InvInitially
<1>2. IInv /\ [Next]_vars => IInv'
  BY InvKept
<1> QED
  BY <1>1, <1>2, PTL DEF Spec

(* What user and worker know of a request agrees: the worker is allowed     *)
(* what the user allowed in its run, a request gets one receipt and the     *)
(* worker hears it while the run lasts; a delegation that is over leaves    *)
(* nothing to decide and a record that says how it ended (_active,          *)
(* worker_approval, resolve_worker_approval, delegate).                     *)
THEOREM AnswersHold == Spec => []AnswersTrue
<1>1. ASSUME IInv
      PROVE  AnswersTrue
  <2>1. /\ TypeOK /\ AskedAtWork /\ Undecided /\ OneReceipt /\ HeardTrue /\ EndIsRecorded
    BY <1>1 DEF IInv
  <2>2. GrantedInItsRun
    BY <2>1 DEF GrantedInItsRun, HeardTrue, Heard, Receipt, None
  <2>3. ReceiptTrue
    <3> SUFFICES ASSUME NEW a \in Approvals
                 PROVE  /\ Cardinality(given[a]) <= 1
                        /\ told[a] # None /\ given[a] # {} /\ runId = job.run =>
                              <<told[a], job.run>> \in given[a]
      BY DEF ReceiptTrue
    <3>1. Cardinality(given[a]) <= 1
      <4>1. CASE given[a] = {}
        BY <4>1, FS_EmptySet
      <4>2. ASSUME NEW d \in Decisions, given[a] = {<<d, job.run>>}
            PROVE  Cardinality(given[a]) <= 1
        <5>1. PICK r : r = <<d, job.run>>
          OBVIOUS
        <5>2. Cardinality({r}) = 1
          BY FS_Singleton
        <5> QED
          BY <4>2, <5>1, <5>2
      <4> QED
        BY <2>1, <4>1, <4>2 DEF OneReceipt
    <3>2. told[a] # None /\ given[a] # {} /\ runId = job.run => <<told[a], job.run>> \in given[a]
      BY <2>1 DEF HeardTrue, Heard, Receipt
    <3> QED
      BY <3>1, <3>2
  <2>4. NothingToDecide
    BY <2>1 DEF NothingToDecide, Undecided, AskedAtWork, Lives
  <2> QED
    BY <2>1, <2>2, <2>3, <2>4 DEF AnswersTrue
<1> QED
  BY <1>1, InvHolds, PTL

(* A stronger worker starts only where the first one did nothing            *)
(* (delegate's gate for the upgrade).                                       *)
THEOREM DoneOnce == Spec => NothingDoneTwice
<1>1. ASSUME IInv, [Next]_vars, job.number = 1, job'.number = 2
      PROVE  ~did
  <2>1. TypeOK /\ Recording /\ Noticed
    BY <1>1 DEF IInv
  <2>2. ~Choose
    BY <1>1, <2>1 DEF Choose, Runs, Recording
  <2>3. Upgrade
    BY <1>1, <2>1, <2>2, NumberKept
  <2>4. ~job.tools /\ job.safe
    BY <2>3 DEF Upgrade, CanUpgrade, Replayable
  <2> QED
    BY <2>1, <2>4 DEF Noticed
<1>2. IInv /\ [Next]_vars => [job.number = 1 /\ job'.number = 2 => ~did]_vars
  BY <1>1
<1> QED
  BY <1>2, InvHolds, PTL DEF Spec, NothingDoneTwice
==============================================================================
