----------------------------- MODULE MCMachine -----------------------------
(***************************************************************************)
(* The instances for TLC of the modules about the machine Cleo runs on: the *)
(* screen, the accounts of the sandbox, files and folders, the settings and *)
(* the timing of runs.  Each models on its own what it needs of the others, *)
(* so a behaviour here is one of one part: "part" names it.  The parts that *)
(* MachineProofs is about have constants and variables of their own here;   *)
(* the others take these variables as slots, in the order in which they     *)
(* are declared.                                                            *)
(***************************************************************************)

CONSTANTS
    Processes, MaxSetups, MaxRuns, MaxKnown,  \* of SandboxCredentials
    Files, MaxEdits, MaxTurns,        \* of GitCheckpoint
    Spans, MaxCancels, MaxTicks,      \* of Timing
    MaxFaults, Nil,                   \* of all three
    c1, c2, s1, t1, n1, k1, m1, m2, r1, Gone, Junk

VARIABLES
    part,    \* the part this behaviour is of
    \* those of SandboxCredentials
    password, setOn, users, denied, setup, setups, mutex, lock, state, backups, run, runs,
    failures, ghost,
    \* those of GitCheckpoint
    head, work, index, ref, manifest, turn, undo, mine, since, staged, report, torn, edits,
    turns,
    \* those of Timing
    span, dirty, phase, status, body, ticker, stopped, saving, thread, store, cancels, ticks,
    faults   \* of all three

sandbox == <<password, setOn, users, denied, setup, setups, mutex, lock, state, backups,
             run, runs, failures, ghost>>
git == <<head, work, index, ref, manifest, turn, undo, mine, since, staged, report, torn,
         edits, turns>>
timing == <<span, dirty, phase, status, body, ticker, stopped, saving, thread, store, cancels,
            ticks>>
suite == <<part, sandbox, git, timing, faults>>

\* The variables a part does not take.
FromUndo ==
    /\ undo = Nil /\ mine = Nil /\ since = Nil /\ staged = Nil /\ report = Nil
    /\ torn = Nil /\ edits = Nil /\ turns = Nil
FromManifest == manifest = Nil /\ turn = Nil /\ FromUndo
NoGit == head = Nil /\ work = Nil /\ index = Nil /\ ref = Nil /\ FromManifest
NoSandbox ==
    /\ password = Nil /\ setOn = Nil /\ users = Nil /\ denied = Nil /\ setup = Nil
    /\ setups = Nil /\ mutex = Nil /\ lock = Nil /\ state = Nil /\ backups = Nil
    /\ run = Nil /\ runs = Nil /\ failures = Nil /\ ghost = Nil
NoTiming ==
    /\ span = Nil /\ dirty = Nil /\ phase = Nil /\ status = Nil /\ body = Nil /\ ticker = Nil
    /\ stopped = Nil /\ saving = Nil /\ thread = Nil /\ store = Nil /\ cancels = Nil
    /\ ticks = Nil

\* Input sent to the screen for the broker.
Host == INSTANCE HostControl WITH
    Calls <- {c1, c2}, Stops <- {s1}, Ops <- {"mark", "screenshot", "drag", "key"},
    MaxActivity <- 1, MaxFaults <- 1, lock <- password, generation <- setOn, active <- users,
    pending <- denied, baseline <- setup, tracked <- setups, calls <- mutex, stops <- lock,
    monitor <- state, activity <- backups, down <- run, told <- runs, ghost <- failures,
    faults <- ghost

\* The passwords of the accounts that two Codex installations share.
Sandbox == INSTANCE SandboxCredentials

\* The timing record of a run.
Times == INSTANCE Timing WITH None <- Nil

\* The checkpoint by which a turn is undone.
Git == INSTANCE GitCheckpoint WITH None <- Nil

\* Projects, chats and tasks of the window.
Folder == INSTANCE Workspace WITH
    None <- Nil, Chats <- {n1}, Tasks <- {k1}, Source <- c1, Restored <- r1, Folders <- Files, MaxOps <- 3,
    MaxTurns <- 1, MaxFaults <- 1, rt <- password, store <- setOn, known <- users,
    resident <- denied, turn <- setup, op <- setups, raced <- mutex, orphan <- lock,
    ops <- state, turns <- backups, faults <- run

\* The settings, and the agents built from them.
Settings == INSTANCE Configuration WITH
    None <- Nil, Connections <- {c1, c2}, Models <- {m1, m2}, Threads <- {t1}, MaxEdits <- 1,
    MaxSaves <- 1, MaxRuns <- 2, MaxSteps <- 3, cleo <- password, harness <- setOn, stamp <- users,
    snap <- denied, signature <- setup, error <- setups, restart <- mutex, loop <- lock,
    checking <- state, chat <- backups, agent <- run, run <- runs, providers <- failures,
    behind <- ghost, raced <- head, edits <- work, saves <- index, runs <- ref

SuiteInit ==
    \/ part = "sandbox" /\ Sandbox!Init /\ NoGit /\ NoTiming
    \/ part = "git" /\ Git!Init /\ NoSandbox /\ NoTiming
    \/ part = "timing" /\ Times!Init /\ NoSandbox /\ NoGit
    \/ /\ faults = Nil /\ NoTiming
       /\ \/ part = "host" /\ Host!Init /\ NoGit
          \/ /\ part = "workspace" /\ Folder!Init
             /\ runs = Nil /\ failures = Nil /\ ghost = Nil /\ NoGit
          \/ part = "settings" /\ Settings!Init /\ FromManifest

SuiteNext ==
    \/ part = "sandbox" /\ Sandbox!Next /\ UNCHANGED <<part, git, timing>>
    \/ part = "git" /\ Git!Next /\ UNCHANGED <<part, sandbox, timing>>
    \/ part = "timing" /\ Times!Next /\ UNCHANGED <<part, sandbox, git>>
    \/ part = "host" /\ Host!Next /\ UNCHANGED <<part, git, timing, faults>>
    \/ /\ part = "workspace" /\ Folder!Next
       /\ UNCHANGED <<part, runs, failures, ghost, git, timing, faults>>
    \/ /\ part = "settings" /\ Settings!Next
       /\ UNCHANGED <<part, manifest, turn, undo, mine, since, staged, report, torn, edits,
                      turns, timing, faults>>

SuiteSpec == SuiteInit /\ [][SuiteNext]_suite

-----------------------------------------------------------------------------
\* HostControl!InputControlled: no input after a stop or the user's own.
InputControlled == part = "host" => Host!InputControlled

\* SandboxCredentials!CredentialsKept: a password that works is not lost.
CredentialsKept == part = "sandbox" => Sandbox!CredentialsKept

\* Timing!TimedWhole: the record has every span, closed, before the run is over.
TimedWhole == part = "timing" => Times!TimedWhole

\* GitCheckpoint!CheckpointHolds: an undo takes back the turn's edits alone.
CheckpointHolds == part = "git" => Git!CheckpointHolds

\* Workspace!WorkspaceKept: every conversation is somewhere, and only there.
WorkspaceKept == part = "workspace" => Folder!WorkspaceKept

\* Configuration!ConfigurationHolds: agents are built from the files as saved.
ConfigurationHolds == part = "settings" => Settings!ConfigurationHolds
=============================================================================
