------------------------------ MODULE Workspace ------------------------------
(***************************************************************************)
(* Projects and threads as the desktop shows them: what runtime.json       *)
(* remembers (runtime/state.py), what the session store holds and which    *)
(* harness sessions are resident, under the operations of DesktopService   *)
(* that create, move, delete and restore threads and add or remove         *)
(* projects.  The operations are coroutines: a turn may start at each of   *)
(* their awaits, and the process may stop between two writes.              *)
(*                                                                         *)
(* A directory is the root, the managed general workspace or one of        *)
(* Folders; the folders all carry the same name, which is the case in      *)
(* which one project name may come to mean two places.  One operation is   *)
(* in progress at a time; the writes of runtime.json succeed.              *)
(***************************************************************************)
EXTENDS Naturals, FiniteSets

CONSTANTS Chats,        \* ids of chats begun now
          Tasks,        \* ids of development tasks
          Source,       \* id of a chat found in a backup
          Restored,     \* the id restored-<Source>
          Folders,      \* directories a user selects, all of one name
          None, Gone,   \* no value, a thread deleted
          MaxOps, MaxTurns, MaxFaults     \* bounds of the model

VARIABLES rt,           \* Runtime: what runtime.json holds
          store,        \* SessionStore: the manifests
          known,        \* _project_paths
          resident,     \* _productivity_sessions: the directory each works in
          turn,         \* the turns under way and the directory they read
          op,           \* the operation in progress and the await it is at
          raced,        \* tasks that began a turn while they were moved
          orphan,       \* threads whose deletion a stop cut in two
          ops, turns, faults

vars == <<rt, store, known, resident, turn, op, raced, orphan, ops, turns, faults>>
env == <<raced, orphan, faults>>

Spaces == {"chat", "productivity"}
Names == {"general", "folder"}
Dirs == {"root", "managed"} \cup Folders
Threads == Chats \cup Tasks \cup {Source, Restored}
SpaceOf(t) == IF t \in Tasks THEN "productivity" ELSE "chat"
Exists(t) == store[t] \notin {None, Gone}
Existing == {t \in Threads : Exists(t)}

Session == [project : Names, dir : Dirs, text : {"none", "own", "backup"},
            tagged : BOOLEAN, checkpoint : Dirs \cup {None}]

TypeOK ==
  /\ rt \in [space : Spaces, project : Names \cup {None}, thread : Threads \cup {None},
             projects : [Spaces -> SUBSET Names], removed : [Spaces -> SUBSET Names],
             paths : [Spaces -> [Names -> Dirs \cup {None}]], recent : SUBSET Threads]
  /\ \A t \in Threads : Exists(t) => store[t] \in Session
  /\ known \in [Spaces -> [Names -> Dirs \cup {None}]]
  /\ resident \in [Tasks -> Dirs \cup {None}]
  /\ raced \subseteq Tasks /\ orphan \subseteq Threads

------------------------------------------------------------------------------
(* runtime.json *)

\* A removed project is in no list and has no path; the default chat project
\* is always there; the current project is listed where one now is.
Normalised(r) ==
  LET removed == [s \in Spaces |-> r.removed[s] \ (IF s = "chat" THEN {"general"} ELSE {})]
      project == IF r.project \in removed[r.space] THEN None ELSE r.project
      current(s) == IF s = r.space THEN {project} \ {None} ELSE {}
      always(s) == IF s = "chat" THEN {"general"} ELSE {}
  IN [r EXCEPT !.removed = removed,
               !.project = project,
               !.projects = [s \in Spaces |->
                               ((r.projects[s] \cup always(s)) \ removed[s]) \cup current(s)],
               !.paths = [s \in Spaces |-> [n \in Names |->
                               IF n \in removed[s] THEN None ELSE r.paths[s][n]]]]

UpdateSpace(r, s) == Normalised([r EXCEPT !.space = s])
UpdateThread(r, t) == Normalised([r EXCEPT !.thread = t])
Register(r, s, n, d) ==
  Normalised([r EXCEPT !.projects[s] = @ \cup {n}, !.paths[s][n] = d, !.removed[s] = @ \ {n}])
RemoveProject(r, s, n) ==
  LET here == r.space = s /\ r.project = n
  IN Normalised([r EXCEPT !.projects[s] = @ \ {n}, !.paths[s][n] = None,
                          !.removed[s] = @ \cup {n},
                          !.project = IF here THEN None ELSE @,
                          !.thread = IF here THEN None ELSE @])
AppendRecent(r, t) == Normalised([r EXCEPT !.recent = @ \cup {t}])
Forget(r, t) ==
  Normalised([r EXCEPT !.recent = @ \ {t}, !.thread = IF @ = t THEN None ELSE @])
SyncFromDisk(r, onDisk) ==
  Normalised([r EXCEPT !.projects = [s \in Spaces |-> @[s] \cup onDisk[s]]])

\* Opening a thread: its space, its project at the directory it runs in, itself.
Activate(r, t, m) ==
  LET s == SpaceOf(t)
  IN AppendRecent(UpdateThread(Register(UpdateSpace(r, s), s, m.project, m.dir), t), t)

------------------------------------------------------------------------------
(* the projects shown *)

IsRemoved(r, s, n) == n \in r.removed[s]
Own(r, db, s, n) == {db[t].dir : t \in {u \in Threads : /\ db[u] \notin {None, Gone} /\ SpaceOf(u) = s
                                                       /\ db[u].project = n}}

\* The directory of each project: its registered one, else that of a thread in
\* it; the two general projects are always there.
DirectoriesOf(r, db, s, n) ==
  CASE s = "productivity" /\ n = "general" -> {"managed"}
    [] IsRemoved(r, s, n) -> {None}
    [] n \in r.projects[s] /\ r.paths[s][n] # None -> {r.paths[s][n]}
    [] s = "chat" /\ n = "general" -> {"root"}
    [] OTHER -> IF Own(r, db, s, n) = {} THEN {None} ELSE Own(r, db, s, n)
Projects(r, db) ==
  {[s \in Spaces |-> [n \in Names |-> IF n = "folder" THEN pick[s]
                                      ELSE CHOOSE d \in DirectoriesOf(r, db, s, n) : TRUE]] :
     pick \in {p \in [Spaces -> UNION {DirectoriesOf(r, db, s, "folder") : s \in Spaces}] :
                 \A s \in Spaces : p[s] \in DirectoriesOf(r, db, s, "folder")}}

\* _target_project_path: the directory a thread created in or moved to runs in.
TargetPath(s, n) ==
  CASE known[s][n] # None -> known[s][n]
    [] rt.paths[s][n] # None -> rt.paths[s][n]
    [] n = "general" -> IF s = "chat" THEN "root" ELSE "managed"
    [] OTHER -> None

\* Every operation ends by loading the workspace, which recomputes the paths.
LoadWorkspace == known' \in Projects(rt', store')

\* An empty chat is not in the list: it can be named only while it is open.
Listed(t) == Exists(t) /\ (t \in Tasks \/ store[t].text # "none" \/ rt.thread = t)

------------------------------------------------------------------------------
(* operations *)

Idle == [kind |-> None]
Starts == op = Idle /\ ops < MaxOps /\ ops' = ops + 1
Finished == op' = Idle /\ LoadWorkspace
\* The stretches of an operation without an await.
Synchronous == op.kind = "restore" \/ (op.kind \in {"delete", "move"} /\ op.stage \in {"store", "deleted"})

AddProject(s, f) ==
  /\ Starts
  /\ rt.paths[s]["folder"] \in {None, f}
  /\ rt' = Register(rt, s, "folder", f)
  /\ UNCHANGED <<store, resident, turn, turns, env>>
  /\ Finished

New(n, d) == [project |-> n, dir |-> d, text |-> "none", tagged |-> FALSE, checkpoint |-> None]

\* create_thread registers the folder it is given, whatever the name meant.
Chosen(s, n, f) == IF f = None THEN rt ELSE Register(rt, s, n, f)
Directory(s, n, f) == IF f = None THEN TargetPath(s, n) ELSE f

CreateChat(t, n, f) ==
  /\ Starts /\ store[t] = None
  /\ Directory("chat", n, f) # None
  /\ LET m == New(n, Directory("chat", n, f))
     IN /\ store' = [store EXCEPT ![t] = m]
        /\ rt' = Activate(Chosen("chat", n, f), t, m)
  /\ UNCHANGED <<resident, turn, turns, env>>
  /\ Finished

BeginTask(t, n, f) ==
  /\ Starts /\ store[t] = None
  /\ Directory("productivity", n, f) # None
  /\ rt' = Chosen("productivity", n, f)
  /\ op' = [kind |-> "create", t |-> t, n |-> n, dir |-> Directory("productivity", n, f)]
  /\ UNCHANGED <<store, known, resident, turn, turns, env>>

\* The harness returns a session: its manifest is written, then it is adopted.
TaskCreated ==
  /\ op.kind = "create" /\ ~Exists(op.t)
  /\ store' = [store EXCEPT ![op.t] = New(op.n, op.dir)]
  /\ UNCHANGED <<rt, known, resident, turn, op, ops, turns, env>>
TaskAdopted ==
  /\ op.kind = "create" /\ Exists(op.t)
  /\ resident' = [resident EXCEPT ![op.t] = op.dir]
  /\ rt' = Activate(rt, op.t, store[op.t])
  /\ op' = Idle
  /\ UNCHANGED <<store, known, turn, ops, turns, env>>
TaskFails ==
  /\ op.kind = "create" /\ faults < MaxFaults /\ faults' = faults + 1
  /\ op' = Idle
  /\ UNCHANGED <<rt, store, known, resident, turn, raced, orphan, ops, turns>>

\* load_thread opens a thread of the list.
Open(t) ==
  /\ Listed(t) /\ ~IsRemoved(rt, SpaceOf(t), store[t].project)
  /\ rt' = Activate(rt, t, store[t])
  /\ UNCHANGED <<store, known, resident, turn, op, ops, turns, env>>

\* delete_thread: refused while the thread runs; then the session is closed
\* and the checkpoint discarded, each behind an await.
NextAwait(closing, checkpoint) ==
  IF closing THEN "closing" ELSE IF checkpoint # None THEN "discarding" ELSE "store"
BeginDelete(t) ==
  /\ Starts /\ Listed(t) /\ turn[t] = None
  /\ op' = [kind |-> "delete", t |-> t, m |-> store[t], active |-> rt.thread = t,
            stage |-> NextAwait(t \in Tasks /\ resident[t] # None, store[t].checkpoint)]
  /\ UNCHANGED <<rt, store, known, resident, turn, turns, env>>
Closed ==
  /\ op.kind \in {"delete", "move"} /\ op.stage = "closing"
  /\ resident' = [resident EXCEPT ![op.t] = None]
  /\ op' = [op EXCEPT !.stage = NextAwait(FALSE, op.m.checkpoint)]
  /\ UNCHANGED <<rt, store, known, turn, ops, turns, env>>
Discarded ==
  /\ op.kind \in {"delete", "move"} /\ op.stage = "discarding"
  /\ op' = [op EXCEPT !.stage = "store"]
  /\ UNCHANGED <<rt, store, known, resident, turn, ops, turns, env>>
DeleteStored ==
  /\ op.kind = "delete" /\ op.stage = "store"
  /\ store' = [store EXCEPT ![op.t] = Gone]
  /\ op' = [op EXCEPT !.stage = "deleted"]
  /\ UNCHANGED <<rt, known, resident, turn, ops, turns, env>>

\* When the active thread goes, another of its project, else of its space,
\* is opened.
Candidates == {t \in Existing : /\ SpaceOf(t) = SpaceOf(op.t)
                                /\ t \in Tasks \/ store[t].text # "none"}
Replacements ==
  LET same == {t \in Candidates : store[t].project = op.m.project}
  IN IF same # {} THEN same ELSE Candidates
DeleteForgets ==
  /\ op.kind = "delete" /\ op.stage = "deleted"
  /\ LET r == Forget(rt, op.t)
     IN IF op.active /\ Replacements # {}
        THEN \E t \in Replacements : rt' = Activate(r, t, store[t])
        ELSE rt' = r
  /\ UNCHANGED <<store, resident, turn, ops, turns, env>>
  /\ Finished

\* move_thread: what runs is looked at before background memory is stopped.
BeginMove(t, n) ==
  /\ Starts /\ Listed(t) /\ turn[t] = None /\ store[t].project # n
  /\ op' = [kind |-> "move", t |-> t, m |-> store[t], n |-> n, dir |-> None, stage |-> "cancelling"]
  /\ UNCHANGED <<rt, store, known, resident, turn, turns, env>>
\* A target without a directory, a snapshot or a consolidated thread refuses it.
MoveRefused ==
  /\ op.kind = "move" /\ op.stage = "cancelling"
  /\ op' = Idle
  /\ UNCHANGED <<rt, store, known, resident, turn, ops, turns, env>>
MoveStored ==
  LET s == SpaceOf(op.t) IN
  /\ op.kind = "move" /\ op.stage = "cancelling"
  /\ TargetPath(s, op.n) # None /\ ~IsRemoved(rt, s, op.n)
  /\ store' = [store EXCEPT ![op.t].project = op.n]
  /\ op' = [op EXCEPT !.dir = TargetPath(s, op.n),
                      !.stage = IF s = "chat" THEN "store"
                                ELSE NextAwait(resident[op.t] # None, op.m.checkpoint)]
  /\ UNCHANGED <<rt, known, resident, turn, ops, turns, env>>
MoveEndsKeepingUndo ==
  /\ op.kind = "move" /\ op.stage = "store"
  /\ store' = [store EXCEPT ![op.t].dir = op.dir]
  /\ rt' = IF rt.thread = op.t THEN Activate(rt, op.t, store'[op.t]) ELSE rt
  /\ UNCHANGED <<resident, turn, ops, turns, env>>
  /\ Finished
MoveEnds ==
  /\ op.kind = "move" /\ op.stage = "store"
  /\ store' = [store EXCEPT ![op.t].dir = op.dir,
                            ![op.t].checkpoint = IF op.t \in Tasks THEN None ELSE @]
  /\ rt' = IF rt.thread = op.t THEN Activate(rt, op.t, store'[op.t]) ELSE rt
  /\ UNCHANGED <<resident, turn, ops, turns, env>>
  /\ Finished

\* remove_project hides a project: its running tasks refuse it, its resident
\* sessions are closed one by one.
Shown(p, s) == {n \in Names : p[s][n] # None}
Of(s, n) == {t \in Existing : SpaceOf(t) = s /\ store[t].project = n}
BeginRemove(s, n) ==
  /\ Starts /\ n # "general"
  /\ \E p \in Projects(rt, store) :
       /\ n \in Shown(p, s) /\ Cardinality(Shown(p, s)) > 1
       /\ known' = p
  /\ \A t \in Of(s, n) : turn[t] = None
  /\ op' = [kind |-> "remove", s |-> s, n |-> n,
            todo |-> {t \in Of(s, n) \cap Tasks : resident[t] # None}]
  /\ UNCHANGED <<rt, store, resident, turn, turns, env>>
RemoveCloses(t) ==
  /\ op.kind = "remove" /\ t \in op.todo
  /\ resident' = [resident EXCEPT ![t] = None]
  /\ op' = [op EXCEPT !.todo = @ \ {t}]
  /\ UNCHANGED <<rt, store, known, turn, ops, turns, env>>
RemoveEnds ==
  /\ op.kind = "remove" /\ op.todo = {}
  /\ rt' = RemoveProject(rt, op.s, op.n)
  /\ UNCHANGED <<store, resident, turn, ops, turns, env>>
  /\ Finished

\* restore_chat_backups: the backup's chat is copied under its own id, else
\* under the restored one, unless its history is here or a tag names it.
BackupWanted ==
  /\ ~(Exists(Source) /\ store[Source].text # "none")
  /\ ~\E t \in Existing : SpaceOf(t) = "chat" /\ store[t].tagged
RestoreTarget == IF Exists(Source) THEN Restored ELSE Source
RestoreCreates(n) ==
  /\ Starts /\ BackupWanted /\ ~Exists(RestoreTarget)
  /\ store' = [store EXCEPT ![RestoreTarget] = New(n, "root")]
  /\ op' = [kind |-> "restore", t |-> RestoreTarget, stage |-> "events"]
  /\ UNCHANGED <<rt, known, resident, turn, turns, env>>
RestoreAppends ==
  /\ op.kind = "restore" /\ op.stage = "events"
  /\ store' = [store EXCEPT ![op.t].text = "backup"]
  /\ op' = [op EXCEPT !.stage = "manifest"]
  /\ UNCHANGED <<rt, known, resident, turn, ops, turns, env>>
RestoreEnds ==
  /\ op.kind = "restore" /\ op.stage = "manifest"
  /\ store' = [store EXCEPT ![op.t].tagged = TRUE]
  /\ rt' = Activate(rt, op.t, store[op.t])
  /\ UNCHANGED <<resident, turn, ops, turns, env>>
  /\ Finished

------------------------------------------------------------------------------
(* turns, and the process *)

\* A turn is refused while the thread runs, not while an operation waits.
StartTurn(t) ==
  /\ turns < MaxTurns /\ turns' = turns + 1
  /\ Listed(t) /\ turn[t] = None
  /\ rt' = Activate(rt, t, store[t])
  /\ turn' = [turn EXCEPT ![t] = [dir |-> store[t].dir, attached |-> FALSE]]
  /\ raced' = IF op.kind = "move" /\ op.t = t /\ t \in Tasks THEN raced \cup {t} ELSE raced
  /\ UNCHANGED <<store, known, resident, op, orphan, ops, faults>>

\* A task's turn uses the resident session, else resumes one where it read
\* that the task works.
Attach(t) ==
  /\ turn[t] # None /\ ~turn[t].attached /\ t \in Tasks
  /\ resident' = [resident EXCEPT ![t] = IF @ = None THEN turn[t].dir ELSE @]
  /\ turn' = [turn EXCEPT ![t].attached = TRUE]
  /\ UNCHANGED <<rt, store, known, op, ops, turns, env>>
EndTurn(t) ==
  /\ turn[t] # None
  /\ turn' = [turn EXCEPT ![t] = None]
  /\ store' = IF Exists(t)
              THEN [store EXCEPT ![t].text = IF @ = "none" THEN "own" ELSE @,
                                 ![t].checkpoint = IF turn[t].attached THEN turn[t].dir ELSE @]
              ELSE store
  /\ UNCHANGED <<rt, known, resident, op, ops, turns, env>>

\* The process stops and starts again: runtime.json is read, and the project
\* directories found on disk are listed.
Restart ==
  /\ faults < MaxFaults /\ faults' = faults + 1
  /\ rt' = SyncFromDisk(Normalised(rt),
             [s \in Spaces |-> {store[t].project : t \in {u \in Existing : SpaceOf(u) = s}}])
  /\ known' = [s \in Spaces |-> [n \in Names |-> None]]
  /\ resident' = [t \in Tasks |-> None]
  /\ turn' = [t \in Threads |-> None]
  /\ op' = Idle
  /\ orphan' = IF op.kind = "delete" /\ op.stage = "deleted" THEN orphan \cup {op.t} ELSE orphan
  /\ UNCHANGED <<store, raced, ops, turns>>

Init ==
  /\ rt = Normalised([space |-> "chat", project |-> None, thread |-> None,
                      projects |-> [s \in Spaces |-> {}], removed |-> [s \in Spaces |-> {}],
                      paths |-> [s \in Spaces |-> [n \in Names |-> None]], recent |-> {}])
  /\ \E found \in {None, New("general", "root")} :   \* an earlier restore may have stopped half way
       store = [t \in Threads |-> IF t = Source THEN found ELSE None]
  /\ known \in Projects(rt, store)
  /\ resident = [t \in Tasks |-> None]
  /\ turn = [t \in Threads |-> None]
  /\ op = Idle
  /\ raced = {} /\ orphan = {}
  /\ ops = 0 /\ turns = 0 /\ faults = 0

Operation ==
  \/ \E s \in Spaces, f \in Folders : AddProject(s, f)
  \/ \E t \in Chats : CreateChat(t, "general", None)
  \/ \E t \in Chats, f \in Folders \cup {None} : CreateChat(t, "folder", f)
  \/ \E t \in Tasks : BeginTask(t, "general", None)
  \/ \E t \in Tasks, f \in Folders \cup {None} : BeginTask(t, "folder", f)
  \/ \E t \in Threads : BeginDelete(t)
  \/ \E t \in Threads, n \in Names : BeginMove(t, n)
  \/ \E s \in Spaces, n \in Names : BeginRemove(s, n)
  \/ \E n \in Names : RestoreCreates(n)
  \/ TaskCreated \/ TaskAdopted \/ TaskFails
  \/ Closed \/ Discarded
  \/ MoveRefused \/ MoveStored
  \/ \E t \in Tasks : RemoveCloses(t)
  \/ RemoveEnds

Next ==
  \/ /\ ~Synchronous
     /\ \/ Operation
        \/ \E t \in Threads : Open(t) \/ StartTurn(t) \/ Attach(t) \/ EndTurn(t)
  \/ DeleteStored \/ DeleteForgets \/ MoveEnds \/ RestoreAppends \/ RestoreEnds
  \/ Restart

Spec == Init /\ [][Next]_vars

------------------------------------------------------------------------------
(* properties *)

\* What is remembered as open or recent exists, unless the process stopped
\* between the deletion of a thread and the write of runtime.json.
NavigationKnown == (rt.recent \cup ({rt.thread} \ {None})) \subseteq
                     Existing \cup orphan \cup (IF Synchronous THEN {op.t} ELSE {})

\* A resident session works where its task belongs (service.py:498), unless a
\* turn began while the task was being moved.
WorksWhereItBelongs ==
  \A t \in Tasks \ raced :
    Exists(t) /\ resident[t] # None /\ op.kind # "move" => resident[t] = store[t].dir

\* An undo checkpoint is of the directory the task works in (service.py:505).
UndoInOwnDirectory ==
  \A t \in Tasks \ raced : Exists(t) => store[t].checkpoint \in {None, store[t].dir}

\* A backup's history is in one thread however often it is restored.
RestoredOnce == Cardinality({t \in Existing : store[t].text = "backup"}) <= 1

\* A project the user removed is in no list and has no path.
RemovedIsHidden ==
  \A s \in Spaces : rt.removed[s] \cap (rt.projects[s] \cup {n \in Names : rt.paths[s][n] # None}) = {}

\* The desktop's navigation and threads agree.
WorkspaceKept ==
  TypeOK /\ NavigationKnown /\ WorksWhereItBelongs /\ UndoInOwnDirectory /\ RestoredOnce /\ RemovedIsHidden

\* Statements that do not hold: see the README.
WorksWhereItBelongsAlways ==
  \A t \in Tasks : Exists(t) /\ resident[t] # None /\ op = Idle => resident[t] = store[t].dir
RunningIsShown == \A t \in Existing : turn[t] # None => ~IsRemoved(rt, SpaceOf(t), store[t].project)
RunningExists == \A t \in Threads : turn[t] # None => Exists(t)
PathsStay ==
  [][\A s \in Spaces, n \in Names :
       rt.paths[s][n] # None /\ rt'.paths[s][n] # None => rt'.paths[s][n] = rt.paths[s][n]]_vars
HiddenUntilOpened ==
  [][\A s \in Spaces : op.kind = "delete" => rt.removed[s] \subseteq rt'.removed[s]]_vars
ListedWhereRegistered == rt.projects["productivity"] \subseteq
  {n \in Names : rt.paths["productivity"][n] # None \/ \E t \in Tasks : Exists(t) /\ store[t].project = n}
==============================================================================
