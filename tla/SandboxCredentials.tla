-------------------------- MODULE SandboxCredentials --------------------------
(****************************************************************************)
(* integrations/codex_sandbox_credentials.py: the passwords of the two      *)
(* sandbox accounts of the machine, the copy of them that Cleo's Codex home *)
(* keeps, and the coordinator that puts working records into that copy      *)
(* without setting the accounts up again.                                   *)
(*                                                                          *)
(* Codex and Windows are external: a setup of either home takes the         *)
(* machine's mutex, gives the accounts new passwords one after the other    *)
(* and writes the users file of its home; before that a Codex that could    *)
(* not log on deletes its file.  A record is the number of the password it  *)
(* holds.  Conditions that make a run stop before it begins (marker,        *)
(* protection of the directory, state of the accounts) are left to Begin,   *)
(* and the oldest backups are not removed: a restore may take any.          *)
(****************************************************************************)
EXTENDS Naturals, FiniteSets

CONSTANTS
    Processes,  \* Cleo processes that may coordinate
    MaxSetups,  \* bound: setups of a Codex
    MaxRuns,    \* bound: runs of the coordinator
    MaxKnown,   \* MAX_KNOWN_INVALID: the records remembered as failing
    MaxFaults   \* bound: crashes, failed writes, passwords set within the tolerance

Roles == {"offline", "online"}
Homes == {"cleo", "codex"}
Versions == 0 .. MaxSetups
Blank == [r \in Roles |-> 0]
File(state, records) == [state |-> state, records |-> records]
Missing == File("missing", Blank)
Nothing == [is |-> FALSE, file |-> Missing, times |-> Blank]
Free == "free"

VARIABLES
    password,  \* of each account: the number of its last setup
    setOn,     \* when it was set, in steps longer than the tolerance
    users,     \* the users file of each home
    denied,    \* sandboxed processes are denied reading Cleo's file
    setup,     \* external: the setup that is running
    setups,
    mutex,     \* Global\CodexSandboxSetup
    lock,      \* the coordinator's file lock
    state,     \* state.json: what was validated, the records known to fail
    backups,   \* files kept before they were replaced
    run,       \* the local state of each process
    runs,
    failures,  \* ghost: failed logons of each record of a role
    ghost,     \* near: a password was set within the tolerance; interrupted:
               \* a run ended before it saved; worse: a working record was
               \* replaced; evicted: the records that were forgotten
    faults

vars == <<password, setOn, users, denied, setup, setups, mutex, lock, state, backups,
          run, runs, failures, ghost, faults>>
machine == <<password, setOn, setup, setups>>
bounds == <<runs, setups>>

Idle == [at |-> "idle", op |-> "reconcile", state |-> [validated |-> Nothing, known |-> {}],
         times |-> Blank, current |-> Missing, file |-> Missing, roles |-> {}, valid |-> {}]
NoSetup == [at |-> "none", home |-> "codex", todo |-> {}, number |-> 0, near |-> FALSE]

Init ==
    /\ password = Blank /\ setOn = Blank
    /\ users \in [Homes -> {Missing} \cup {File(s, Blank) : s \in {"corrupt", "newer", "checked"}}]
    /\ users["codex"].state \in {"missing", "checked"}
    /\ denied = TRUE /\ setup = NoSetup /\ setups = 0 /\ mutex = Free /\ lock = Free
    /\ state = [validated |-> Nothing, known |-> {}] /\ backups = {}
    /\ run = [p \in Processes |-> Idle] /\ runs = 0
    /\ failures = [r \in Roles |-> [v \in Versions |-> 0]]
    /\ ghost = [near |-> FALSE, interrupted |-> FALSE, worse |-> FALSE, evicted |-> {}]
    /\ faults = 0

Fault == faults < MaxFaults /\ faults' = faults + 1
Works(r, v) == password[r] = v

------------------------------------------------------------------------------
(* Codex: external.                                                         *)

\* A Codex that could not log on deletes the file.  It tried what it had read
\* before, so the file may have other records by now.
CodexDeletes ==
    /\ users["cleo"].state = "checked"
    /\ users' = [users EXCEPT !["cleo"] = Missing] /\ denied' = TRUE
    /\ UNCHANGED <<machine, mutex, lock, state, backups, run, runs, failures, ghost, faults>>

SetupBegins(home) ==
    /\ mutex = Free /\ setups < MaxSetups
    /\ mutex' = "setup" /\ setups' = setups + 1
    /\ \E near \in BOOLEAN :
        /\ setup' = [at |-> "setting", home |-> home, todo |-> Roles, number |-> setups + 1,
                     near |-> near]
        /\ IF near THEN Fault /\ ghost' = [ghost EXCEPT !.near = TRUE]
           ELSE UNCHANGED <<ghost, faults>>
    /\ UNCHANGED <<password, setOn, users, denied, lock, state, backups, run, runs, failures>>

SetsPassword(r) ==
    /\ setup.at = "setting" /\ r \in setup.todo
    /\ password' = [password EXCEPT ![r] = setup.number]
    /\ setup' = [setup EXCEPT !.todo = @ \ {r}]
    /\ setOn' = IF setup.near THEN setOn ELSE [setOn EXCEPT ![r] = setup.number]
    /\ UNCHANGED <<users, denied, setups, mutex, lock, state, backups, run, runs, failures,
                   ghost, faults>>

SetupEnds ==
    /\ setup.at = "setting" /\ mutex' = Free /\ setup' = NoSetup
    /\ \/ /\ setup.todo = {}
          /\ users' = [users EXCEPT ![setup.home] = File("checked", [r \in Roles |-> setup.number])]
          /\ denied' = IF setup.home = "cleo" THEN TRUE ELSE denied
          /\ UNCHANGED faults
       \/ Fault /\ UNCHANGED <<users, denied>>
    /\ UNCHANGED <<password, setOn, setups, lock, state, backups, run, runs, failures, ghost>>

------------------------------------------------------------------------------
(* The coordinator.                                                         *)

Begin(p, op) ==
    /\ run[p].at = "idle" /\ runs < MaxRuns /\ runs' = runs + 1
    /\ op = "restore" => backups # {}
    /\ run' = [run EXCEPT ![p] = [Idle EXCEPT !.at = "locking", !.op = op]]
    /\ UNCHANGED <<machine, users, denied, mutex, lock, state, backups, failures, ghost, faults>>

Leave(p) ==
    /\ run' = [run EXCEPT ![p] = Idle]
    /\ lock' = IF lock = p THEN Free ELSE lock
    /\ mutex' = IF mutex = p THEN Free ELSE mutex

\* _file_lock: deferred when another process coordinates.
TakeLock(p) ==
    /\ run[p].at = "locking"
    /\ IF lock = Free
       THEN /\ lock' = p /\ run' = [run EXCEPT ![p] = [run[p] EXCEPT !.at = "looking"]]
            /\ UNCHANGED mutex
       ELSE Leave(p)
    /\ UNCHANGED <<machine, users, denied, state, backups, runs, failures, ghost, faults>>

\* _load_state, and the way without a logon: the records that were validated,
\* and no password set since.
Unchanged(s) ==
    /\ s.validated.is /\ s.validated.file = users["cleo"] /\ s.validated.times = setOn
    /\ users["cleo"].state # "missing"
Look(p) ==
    /\ run[p].at = "looking"
    /\ IF run[p].op = "reconcile" /\ Unchanged(state) THEN Leave(p)
       ELSE /\ run' = [run EXCEPT ![p] = [run[p] EXCEPT
                  !.at = "waiting", !.state = state, !.current = users["cleo"]]]
            /\ UNCHANGED <<lock, mutex>>
    /\ UNCHANGED <<machine, users, denied, state, backups, runs, failures, ghost, faults>>

\* (mutant) The setup's mutex is not taken.
TakeMutexNever(p) ==
    /\ run[p].at = "waiting" /\ UNCHANGED <<lock, mutex>>
    /\ run' = [run EXCEPT ![p] = [run[p] EXCEPT !.at = "holding", !.times = setOn]]
    /\ UNCHANGED <<machine, users, denied, state, backups, runs, failures, ghost, faults>>
\* setup_lock: deferred while a Codex sets the accounts up.
TakeMutex(p) ==
    /\ run[p].at = "waiting"
    /\ IF mutex = Free
       THEN /\ mutex' = p /\ UNCHANGED lock
            /\ run' = [run EXCEPT ![p] = [run[p] EXCEPT !.at = "holding", !.times = setOn]]
       ELSE Leave(p)
    /\ UNCHANGED <<machine, users, denied, state, backups, runs, failures, ghost, faults>>

\* _remember: one more record that fails, for which the oldest goes when there
\* are too many.  Its age is by the clock of the run that found it, which may
\* have begun before runs that saved earlier: any may be the oldest.
Remember(known, record) ==
    LET all == known \cup {record}
    IN {kept \in SUBSET all : Cardinality(kept) =
            IF Cardinality(all) > MaxKnown THEN MaxKnown ELSE Cardinality(all)}

\* check_record: a record known to fail is not tried, one that fails is remembered.
CheckRecord(m, r, v) ==
    IF <<r, v>> \in m.known THEN {m}
    ELSE IF Works(r, v) THEN {[m EXCEPT !.valid = @ \cup {r}]}
    ELSE {[known |-> kept, valid |-> m.valid,
           evicted |-> m.evicted \cup ((m.known \cup {<<r, v>>}) \ kept),
           failures |-> [q \in Roles |-> [w \in Versions |->
               m.failures[q][w] + IF <<q, w>> = <<r, v>> THEN 1 ELSE 0]]] :
          kept \in Remember(m.known, <<r, v>>)}
CheckStore(m, file) ==
    IF file.state # "checked" THEN {m}
    ELSE UNION {CheckRecord(n, "online", file.records["online"]) :
                n \in CheckRecord(m, "offline", file.records["offline"])}

Check(p) ==
    /\ run[p].at = "holding" /\ run[p].op = "reconcile"
    /\ LET cleo == users["cleo"]
           s    == run[p].state
       IN \E m \in CheckStore([known |-> s.known, valid |-> {}, evicted |-> ghost.evicted,
                               failures |-> failures], cleo) :
          LET looks    == m.valid # Roles /\ cleo.state # "newer"
              external == IF looks THEN users["codex"] ELSE Missing
          IN \E n \in CheckStore([m EXCEPT !.valid = {}], external) :
             LET roles   == n.valid \ m.valid
                 missing == {r \in Roles : cleo.state # "checked" /\ r \notin roles}
             IN /\ failures' = n.failures
                /\ ghost' = [ghost EXCEPT !.evicted = n.evicted]
                /\ run' = [run EXCEPT ![p] = [run[p] EXCEPT
                     !.at = IF roles # {} THEN "writing" ELSE "saving",
                     !.roles = roles, !.valid = m.valid,
                     !.file = File("checked", [r \in Roles |->
                         IF r \in roles \cup missing THEN external.records[r]
                         ELSE cleo.records[r]]),
                     !.state = [known |-> n.known, validated |->
                         IF m.valid = Roles
                         THEN [is |-> TRUE, file |-> cleo, times |-> run[p].times]
                         ELSE IF roles # {} \/ cleo.state = "newer" THEN s.validated
                         ELSE Nothing]]]
    /\ UNCHANGED <<machine, users, denied, mutex, lock, state, backups, runs, faults>>

Choose(p) ==
    /\ run[p].at = "holding" /\ run[p].op = "restore"
    /\ \E b \in backups :
        run' = [run EXCEPT ![p] = [run[p] EXCEPT
            !.at = "writing", !.current = users["cleo"], !.file = b,
            !.state = [run[p].state EXCEPT !.validated = Nothing]]]
    /\ UNCHANGED <<machine, users, denied, mutex, lock, state, backups, runs, failures, ghost,
                   faults>>

Kept(file) == IF file.state = "missing" THEN backups ELSE backups \cup {file}

\* _backup of the file as the run has read it, and _write_atomic: the file is
\* replaced as a whole or not at all.  The new file takes its protection from
\* the directory, or does not.
Write(p) ==
    /\ run[p].at = "writing"
    /\ \/ /\ users' = [users EXCEPT !["cleo"] = run[p].file]
          /\ denied' \in BOOLEAN
          /\ backups' = Kept(run[p].current)
          /\ run' = [run EXCEPT ![p] = [run[p] EXCEPT
               !.at = IF run[p].op = "restore" THEN "saving" ELSE "checking"]]
          /\ ghost' = [ghost EXCEPT !.worse = @ \/
                (run[p].op = "reconcile" /\ users["cleo"].state = "checked" /\ \E r \in Roles :
                    Works(r, users["cleo"].records[r]) /\ ~Works(r, run[p].file.records[r]))]
          /\ UNCHANGED <<lock, mutex, faults>>
       \/ /\ Fault /\ Leave(p) /\ backups' \in {backups, Kept(run[p].current)}
          /\ ghost' = [ghost EXCEPT !.interrupted = TRUE]
          /\ UNCHANGED <<users, denied>>
    /\ UNCHANGED <<machine, state, runs, failures>>

\* file_protected: a file that is not is removed again.
Protect(p) ==
    /\ run[p].at = "checking"
    /\ IF users["cleo"].state = "missing" \/ ~denied
       THEN /\ users' = [users EXCEPT !["cleo"] = Missing] /\ denied' = TRUE
            /\ run' = [run EXCEPT ![p] = [run[p] EXCEPT !.at = "saving"]]
       ELSE run' = [run EXCEPT ![p] = [run[p] EXCEPT !.at = "rereading"]]
            /\ UNCHANGED <<users, denied>>
    /\ UNCHANGED <<machine, mutex, lock, state, backups, runs, failures, ghost, faults>>

\* What was written is read again.  A file that a Codex has removed meanwhile
\* cannot be: the run ends and saves nothing.
Reread(p) ==
    /\ run[p].at = "rereading"
    /\ IF users["cleo"] = run[p].file
       THEN /\ run' = [run EXCEPT ![p] = [run[p] EXCEPT !.at = "saving", !.state =
                   [known |-> run[p].state.known, validated |->
                    IF run[p].valid \cup run[p].roles = Roles
                    THEN [is |-> TRUE, file |-> run[p].file, times |-> run[p].times]
                    ELSE Nothing]]]
            /\ UNCHANGED <<mutex, lock, ghost>>
       ELSE Leave(p) /\ ghost' = [ghost EXCEPT !.interrupted = TRUE]
    /\ UNCHANGED <<machine, users, denied, state, backups, runs, failures, faults>>

Save(p) ==
    /\ run[p].at = "saving" /\ Leave(p)
    /\ \/ state' = run[p].state /\ UNCHANGED <<ghost, faults>>
       \/ Fault /\ ghost' = [ghost EXCEPT !.interrupted = TRUE] /\ UNCHANGED state
    /\ UNCHANGED <<machine, users, denied, backups, runs, failures>>

Crash(p) ==
    /\ run[p].at # "idle" /\ Fault /\ Leave(p)
    /\ ghost' = [ghost EXCEPT !.interrupted = TRUE]
    /\ UNCHANGED <<machine, users, denied, state, backups, runs, failures>>

Next ==
    \/ CodexDeletes \/ (\E h \in Homes : SetupBegins(h)) \/ SetupEnds
    \/ \E r \in Roles : SetsPassword(r)
    \/ \E p \in Processes :
        \/ \E op \in {"reconcile", "restore"} : Begin(p, op)
        \/ TakeLock(p) \/ Look(p) \/ TakeMutex(p) \/ Check(p) \/ Choose(p)
        \/ Write(p) \/ Protect(p) \/ Reread(p) \/ Save(p) \/ Crash(p)

Spec == Init /\ [][Next]_vars

------------------------------------------------------------------------------
TypeOK ==
    /\ lock \in Processes \cup {Free} /\ mutex \in Processes \cup {Free, "setup"}
    /\ {password, setOn} \subseteq [Roles -> Versions]
    /\ state.known \cup ghost.evicted \subseteq Roles \X Versions /\ faults \in 0 .. MaxFaults

\* What is remembered as validated works as long as the times of the passwords
\* are those remembered with it, so a run that looks no further is right; and
\* what is remembered as failing does fail.  (codex_sandbox_credentials.py:537-548)
RemembersTruly ==
    /\ state.validated.is /\ Unchanged(state) /\ ~ghost.near /\ setup.at = "none"
         => \A r \in Roles : Works(r, users["cleo"].records[r])
    /\ \A k \in state.known : ~Works(k[1], k[2])

\* Taking over another home's records never costs Cleo a record that works,
\* although a setup may rewrite either file at any time.
NeverWorse == ~ghost.worse

\* A stale record costs one failed logon, not one in every turn, until it is
\* forgotten for newer ones, and as long as the runs get to their end: the machine
\* locks accounts with too many of them.  (codex_sandbox_credentials.py:25-26)
OneFailedLogon ==
    ghost.interrupted \/
    \A r \in Roles, v \in Versions : <<r, v>> \notin ghost.evicted => failures[r][v] <= 1

CredentialsKept == TypeOK /\ RemembersTruly /\ NeverWorse /\ OneFailedLogon

\* Statements that do not hold.  A run that fails or dies before it saves forgets
\* the logons that failed, and so does one that finds too many; two setups within
\* the tolerance of the password times look like one; a run that dies after its
\* write, or a restore, leaves working secrets in a file that is not protected; and
\* a setup between the first read and the mutex leaves no backup of what a run replaces.
OneFailedLogonEver == \A r \in Roles, v \in Versions : failures[r][v] <= 1
CurrentWorks ==
    state.validated.is /\ Unchanged(state) /\ setup.at = "none"
        => \A r \in Roles : Works(r, users["cleo"].records[r])
AlwaysProtected == lock = Free => denied
ReplacedIsKept ==
    [][\A p \in Processes : run[p].at = "writing" /\ run'[p].at \in {"checking", "saving"}
         => users["cleo"] \in backups' \cup {Missing}]_vars
==============================================================================
