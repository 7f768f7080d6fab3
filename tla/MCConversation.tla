-------------------------- MODULE MCConversation ---------------------------
(***************************************************************************)
(* The instances for TLC of the modules about one conversation: its handoff *)
(* between harnesses, and the parts that meet it only through its records.  *)
(* Each models on its own what it needs of the others, so a behaviour here  *)
(* is one of one part: "part" names it.  Handoff and the parts that         *)
(* ConversationProofs is about have constants and variables of their own    *)
(* here; the other parts take these variables as slots, in the order in     *)
(* which they are declared.                                                 *)
(***************************************************************************)
EXTENDS Handoff

CONSTANTS
    Processes, Budget, MaxEvents,                   \* of Snapshots
    Fields, Values, Default, MaxChoices,            \* of Permissions
    RoutePresets, Windows, Preview, MaxSaves, MaxRouted,   \* of RoutingPolicy
    Projects, MaxWritten, MaxCut,                   \* of SessionMove
    MaxFaults, None,                                \* of each of them
    P, Q, R, w1, w2, s1, s2, Root

VARIABLES
    part,    \* the part this behaviour is of
    \* those of Snapshots: its log is events, its route serving
    events, objects, snaps, lease, op, serving, reads, slipped,
    \* those of Permissions: its turn is run
    provider, saved, pending, live, policy, lock, request, switching, run, told, choices,
    turns,
    \* those of RoutingPolicy: its turn is run as well, and it has op and turns
    files, shown, apart, thread, native, captured, worker, blind, overlapped, torn, saves,
    \* those of SessionMove: it has op as well
    dirs, row, sources, written, acked, doomed, half, lost, reviews, late,
    faults   \* of each of them

history == <<events, objects, snaps, lease, serving, reads, slipped>>
permissions == <<provider, saved, pending, live, policy, lock, request, switching, told,
                 choices>>
routing == <<files, shown, apart, thread, native, captured, worker, blind, overlapped, torn,
             saves>>
places == <<dirs, row, sources, written, acked, doomed, half, lost, reviews, late>>
suite == <<vars, part, history, permissions, routing, places, op, run, turns, faults>>

\* The variables a part does not take.
NoHistory ==
    /\ events = None /\ objects = None /\ snaps = None /\ lease = None /\ serving = None
    /\ reads = None /\ slipped = None
FromPending ==
    /\ pending = None /\ live = None /\ policy = None /\ lock = None /\ request = None
    /\ switching = None /\ told = None /\ choices = None
NoPermissions == provider = None /\ saved = None /\ FromPending
NoRouting ==
    /\ files = None /\ shown = None /\ apart = None /\ thread = None /\ native = None
    /\ captured = None /\ worker = None /\ blind = None /\ overlapped = None
    /\ torn = None /\ saves = None
NoPlaces ==
    /\ dirs = None /\ row = None /\ sources = None /\ written = None
    /\ acked = None /\ doomed = None /\ half = None /\ lost = None
    /\ reviews = None /\ late = None
NoTurns == run = None /\ turns = None

\* Sessions as they are created, moved, deleted and found again.
Moving == INSTANCE SessionMove WITH MaxEvents <- MaxWritten, MaxFaults <- MaxCut

\* The history a switch gives to the next harness.
Given == INSTANCE Snapshots WITH log <- events, route <- serving

\* What each task has spent.
Ledger == INSTANCE TaskLedger WITH
    Workers <- {w1, w2}, MaxTasks <- 2, MaxEvents <- 4, MaxMore <- 1, MaxThreads <- 2,
    MaxFaults <- 1, log <- events, bound <- objects, turn <- snaps, thread <- lease,
    native <- op, restarted <- serving, jobs <- reads, spent <- slipped, faults <- provider

\* The native transcripts of an earlier Cleo.
Home == INSTANCE NativeMigration WITH
    Transcripts <- {s1}, Texts <- {s2}, MaxWrites <- 2, MaxFaults <- 1, MaxSteps <- 2,
    retired <- events, native <- objects, report <- snaps, proc <- lease, done <- op,
    resumed <- serving, writes <- reads, faults <- slipped

\* The permissions a user chooses and a turn runs with.
Perm == INSTANCE Permissions WITH turn <- run

\* The policy of routed turns and of their workers.
Routing == INSTANCE RoutingPolicy WITH
    Presets <- RoutePresets, MaxTurns <- MaxRouted, turn <- run

SuiteInit ==
    /\ Init
    /\ \/ /\ NoPlaces
          /\ \/ part = "snapshots" /\ Given!Init /\ NoPermissions /\ NoRouting /\ NoTurns
             \/ /\ part = "permissions" /\ Perm!Init /\ NoHistory /\ op = None /\ NoRouting
             \/ part = "policy" /\ Routing!Init /\ NoHistory /\ NoPermissions
             \/ /\ NoRouting /\ NoTurns /\ faults = None
                /\ \/ /\ part = "handoff" /\ NoHistory /\ op = None /\ NoPermissions
                   \/ part = "ledger" /\ Ledger!Init /\ saved = None /\ FromPending
                   \/ part = "migration" /\ Home!Init /\ NoPermissions
       \/ part = "move" /\ Moving!Init /\ NoHistory /\ NoPermissions /\ NoRouting /\ NoTurns

SuiteNext ==
    \/ /\ part = "handoff" /\ Next
       /\ UNCHANGED <<part, history, permissions, routing, places, op, run, turns, faults>>
    \/ /\ part = "move" /\ Moving!Next
       /\ UNCHANGED <<vars, part, history, permissions, routing, run, turns>>
    \/ /\ part = "snapshots" /\ Given!Next
       /\ UNCHANGED <<vars, part, permissions, routing, places, run, turns>>
    \/ /\ part = "ledger" /\ Ledger!Next
       /\ UNCHANGED <<vars, part, saved, pending, live, policy, lock, request, switching,
                      told, choices, routing, places, run, turns, faults>>
    \/ /\ part = "migration" /\ Home!Next
       /\ UNCHANGED <<vars, part, permissions, routing, places, run, turns, faults>>
    \/ /\ part = "permissions" /\ Perm!Next
       /\ UNCHANGED <<vars, part, history, op, routing, places>>
    \/ /\ part = "policy" /\ Routing!Next
       /\ UNCHANGED <<vars, part, history, permissions, places>>

SuiteSpec == SuiteInit /\ [][SuiteNext]_suite

-----------------------------------------------------------------------------
\* Moving a session (SessionMove!Accounted): nothing acknowledged is lost.
Accounted == part = "move" => Moving!Accounted

\* SessionMove!ConsolidatedStays: consolidated memory stays with its project.
ConsolidatedStays == [][part = "move" => Moving!Stays]_suite

\* Snapshots!ContextKept: a switch hands over the history it compared.
ContextKept == part = "snapshots" => Given!ContextKept

\* TaskLedger!LedgerTrue: what a task is charged with was spent in it.
LedgerTrue == part = "ledger" => Ledger!LedgerTrue

\* NativeMigration!NativeKept: what the harness wrote is only continued, and
\* what is resumed was migrated whole.
NativeKept ==
    /\ [](part = "migration" => Home!MigratedWhole)
    /\ [][part = "migration" => Home!Keeps]_suite

\* Permissions!PermissionsAsChosen: a turn runs with what its user was told.
PermissionsAsChosen == part = "permissions" => Perm!PermissionsAsChosen

\* RoutingPolicy!PolicyHolds: no save overwrites what its window never saw.
PolicyHolds == part = "policy" => Routing!PolicyHolds
=============================================================================
