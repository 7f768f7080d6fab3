---------------------------- MODULE Configuration ----------------------------
(***************************************************************************)
(* The configuration of the desktop backend: cleo.json and harnesses.json,   *)
(* the snapshot ConfigService holds of them, the settings page that writes   *)
(* cleo.json, and the runs, chat agents and harness providers that were      *)
(* built from a snapshot.                                                   *)
(*                                                                         *)
(* Loading and saving are synchronous, so nothing else of the backend runs   *)
(* in between; other programs edit the files at any step.  Every write       *)
(* changes a file's size or time, which numbers them here.                   *)
(***************************************************************************)
EXTENDS Naturals, FiniteSets

CONSTANTS Connections, Models,
          Threads,      \* chats
          None, Junk,   \* a missing file, one that does not parse
          MaxEdits, MaxSaves, MaxRuns, MaxSteps      \* bounds of the model, MaxSteps of all together

VARIABLES cleo, harness,       \* what the two files hold
          stamp,               \* how often each was written
          snap,                \* the snapshot: settings and version
          signature,           \* the stamps it was read at
          error, restart,      \* status(): an error, a restart pending
          loop,                \* the synchronous work under way
          checking,            \* the sign-in of a connection is being checked
          chat,                \* manifest: the connection of each chat
          agent,               \* ChatRuntime: each agent, with the version it is kept as
          run,                 \* the turns under way and the snapshot each is bound to
          providers,           \* the settings the adapter's providers were built from
          behind,              \* the providers missed a change
          raced,               \* a file was edited before the first signature
          edits, saves, runs
vars == <<cleo, harness, stamp, snap, signature, error, restart, loop, checking, chat,
          agent, run, providers, behind, raced, edits, saves, runs>>
files  == <<cleo, harness, stamp>>
status == <<snap, signature, error, restart>>
users  == <<chat, agent, run>>
bounds == <<edits, saves, runs>>
More == edits + saves + runs < MaxSteps

Harnesses == {"h1", "h2"}
Backends  == {"api", "codex"}
Free      == [at |-> "free"]

Profile(backend, model, models) == [backend |-> backend, model |-> model, models |-> models]
Available(p) == {p.model} \cup p.models
Snapshot(p)  == [backend |-> p.backend, model |-> p.model]

\* SettingsModel.validate_active_profiles (the directories it names exist here)
Valid(c) ==
  /\ c.agents[c.agent] # None
  /\ c.dream # None => c.agents[c.dream] # None
  /\ c.dreamModel # None => c.dream # None /\ c.dreamModel \in Available(c.agents[c.dream])
Readable(c) == c \notin {None, Junk}
Loads(c, h) == Readable(c) /\ Readable(h) /\ Valid(c)

\* what load_settings writes where a file is missing
Template == [agents |-> [c \in Connections |-> None],
             agent |-> CHOOSE c \in Connections : TRUE,
             dream |-> None, dreamModel |-> None, dir |-> "home"]
DefaultHarnesses == "h1"

DreamModel(c) == IF c.dreamModel # None THEN c.dreamModel ELSE c.agents[c.dream].model
Running == \E t \in Threads : run[t] # None

Started ==
  LET m == CHOOSE n \in Models : TRUE
  IN {[Template EXCEPT !.agents[Template.agent] = Profile("api", m, {}),
                       !.agents[other] = Profile("api", m, {}),
                       !.dream = IF other = Template.agent THEN None ELSE Template.agent,
                       !.dreamModel = IF other = Template.agent THEN None ELSE given] :
        other \in Connections, given \in {m, None}}

\* The files were loaded; the constructor signs them afterwards.
Init ==
  \E c \in Started :
    /\ cleo = c /\ harness = "h1" /\ stamp = <<0, 0>>
    /\ snap = [c |-> c, h |-> "h1", version |-> 1]
    /\ signature = <<0, 0>> /\ error = FALSE /\ restart = FALSE
    /\ loop = [at |-> "boot"] /\ checking = FALSE
    /\ chat = [t \in Threads |-> [connection |-> c.agent, kept |-> Snapshot(c.agents[c.agent])]]
    /\ agent = [t \in Threads |-> None] /\ run = [t \in Threads |-> None]
    /\ providers = None /\ behind = FALSE /\ raced = FALSE
    /\ edits = 0 /\ saves = 0 /\ runs = 0

Booted ==
  /\ loop.at = "boot"
  /\ signature' = stamp /\ raced' = (stamp # <<0, 0>>) /\ loop' = Free
  /\ UNCHANGED <<files, snap, error, restart, checking, users, providers, behind, bounds>>

-------------------------------------------------------------------------------
(* other programs: an editor saves, half saves or replaces a file *)

EditCleo(c) ==
  cleo' = c /\ stamp' = [stamp EXCEPT ![1] = @ + 1] /\ UNCHANGED harness
EditHarness(h) ==
  harness' = h /\ stamp' = [stamp EXCEPT ![2] = @ + 1] /\ UNCHANGED cleo
Edit ==
  /\ edits < MaxEdits /\ More /\ edits' = edits + 1 /\ Readable(cleo) /\ Readable(harness)
  /\ \/ \E c \in {None, Junk} : EditCleo(c)
     \/ EditCleo([cleo EXCEPT !.dir = IF @ = "home" THEN "away" ELSE "home"])
     \/ cleo.agents[cleo.agent] # None /\ EditCleo([cleo EXCEPT !.agents[cleo.agent].backend = "codex"])
     \/ \E h \in (Harnesses \cup {None, Junk}) \ {harness} : EditHarness(h)
  /\ UNCHANGED <<status, loop, checking, users, providers, behind, raced, saves, runs>>
Repair ==
  /\ \/ ~Readable(cleo) /\ EditCleo(snap.c)
     \/ ~Readable(harness) /\ EditHarness(snap.h)
  /\ UNCHANGED <<status, loop, checking, users, providers, behind, raced, bounds>>

-------------------------------------------------------------------------------
(* ConfigService.reload *)

\* Before each request (server.py:48-51).
Refresh ==
  /\ loop = Free /\ stamp # signature
  /\ loop' = [at |-> "due"]
  /\ UNCHANGED <<files, status, checking, users, providers, behind, raced, bounds>>
Sign ==
  /\ loop.at = "due"
  /\ signature' = stamp /\ loop' = [at |-> "signed"]
  /\ UNCHANGED <<files, snap, error, restart, checking, users, providers, behind, raced, bounds>>
\* The load is refused: the snapshot stays and the error is told.
Refused == error' = TRUE /\ loop' = Free /\ UNCHANGED <<snap, restart, providers, behind>>
Look ==
  /\ loop.at = "signed"
  /\ IF None \in {cleo, harness}
     THEN Refused
     ELSE loop' = [at |-> "looked"] /\ UNCHANGED <<snap, error, restart, providers, behind>>
  /\ UNCHANGED <<files, signature, checking, users, raced, bounds>>
ReadCleo ==
  /\ loop.at = "looked"
  /\ IF Readable(cleo)
     THEN /\ loop' = [at |-> "read", c |-> cleo]
          /\ UNCHANGED <<cleo, stamp, snap, error, restart, providers, behind>>
     ELSE /\ Refused
          /\ cleo' = IF cleo = None THEN Template ELSE cleo
          /\ stamp' = IF cleo = None THEN [stamp EXCEPT ![1] = @ + 1] ELSE stamp
  /\ UNCHANGED <<harness, signature, checking, users, raced, bounds>>

\* sync_providers: every provider of the new settings can be built, or one
\* raises; those of live sessions stay.
Rebuild(h) ==
  \/ providers' = h /\ behind' = FALSE /\ error' = FALSE
  \/ behind' = TRUE /\ error' = TRUE /\ UNCHANGED providers
\* _settings_changed: only a change of the harness settings rebuilds them.
Synced(h) ==
  IF providers = None \/ snap.h = h
  THEN UNCHANGED <<providers, behind>> /\ error' = FALSE
  ELSE Rebuild(h)
Apply ==
  /\ loop.at = "read"
  /\ LET h == IF harness = None THEN DefaultHarnesses ELSE harness
         c == loop.c
     IN /\ harness' = h
        /\ stamp' = IF harness = None THEN [stamp EXCEPT ![2] = @ + 1] ELSE stamp
        /\ IF ~Loads(c, h)
           THEN Refused
           ELSE /\ restart' = (c.dir # "home")
                /\ snap' = [c |-> [c EXCEPT !.dir = "home"], h |-> h, version |-> snap.version + 1]
                /\ Synced(h) /\ loop' = Free
  /\ UNCHANGED <<cleo, signature, checking, users, raced, bounds>>

-------------------------------------------------------------------------------
(* desktop/configuration.py: the settings page reads cleo.json, changes it and
   replaces it; the backend then reloads it *)

BeginSave(op, backend) ==
  /\ loop = Free /\ saves < MaxSaves /\ More /\ Readable(cleo)
  /\ loop' = [at |-> "save", op |-> op, backend |-> backend, raw |-> cleo] /\ saves' = saves + 1
  /\ UNCHANGED <<files, status, users, providers, behind, raced, edits, runs>>

Write(c) ==
  /\ cleo' = c /\ stamp' = [stamp EXCEPT ![1] = @ + 1]
  /\ loop' = [at |-> "due", op |-> loop.op, raw |-> loop.raw, new |-> c]
  /\ UNCHANGED <<harness, status, checking, users, providers, behind, raced, bounds>>

\* save_model_profile: a new connection, or one of that name replaced
SaveProfile(name, m) ==
  /\ loop.at = "save" /\ loop.op = "profile"
  /\ LET old == loop.raw.agents[name]
         kept == IF old = None THEN {} ELSE old.models
     IN \E activate \in {"no", "agent", "dream"}, models \in {kept, {m}} :
          Write([loop.raw EXCEPT
            !.agents[name] = Profile(loop.backend, m, models),
            !.agent = IF activate = "agent" THEN name ELSE @,
            !.dream = IF activate = "dream" THEN name ELSE @,
            !.dreamModel = IF activate = "dream" THEN m ELSE @])
CreateConnection(name, m) ==
  /\ loop.at = "save" /\ loop.op = "create" /\ loop.raw.agents[name] = None
  /\ Write([loop.raw EXCEPT !.agents[name] = Profile(loop.backend, m, {m})])
\* The explicit model of dreaming stays what it was.
SelectModel(name, m) ==
  /\ loop.at = "save" /\ loop.op = "select" /\ loop.raw.agents[name] # None
  /\ m \in Available(loop.raw.agents[name])
  /\ Write([loop.raw EXCEPT
       !.dreamModel = IF loop.raw.dream = name /\ @ = None THEN loop.raw.agents[name].model ELSE @,
       !.agents[name].models = Available(loop.raw.agents[name]),
       !.agents[name].model = m, !.agent = name])
RemoveConnection(name) ==
  /\ loop.at = "save" /\ loop.op = "remove" /\ loop.raw.agents[name] # None
  /\ name \notin {loop.raw.agent, loop.raw.dream}
  /\ Write([loop.raw EXCEPT !.agents[name] = None])
SaveDream ==
  /\ loop.at = "save" /\ loop.op = "dream"
  /\ \/ Write([loop.raw EXCEPT !.dream = None, !.dreamModel = None])
     \/ \E name \in Connections : \E m \in Models :
          /\ loop.raw.agents[name] # None /\ m \in Available(loop.raw.agents[name])
          /\ Write([loop.raw EXCEPT !.dream = name, !.dreamModel = m])
\* rename_model_connection, save_background_memory_settings: nothing kept here.
SaveOther == loop.at = "save" /\ loop.op = "other" /\ Write(loop.raw)
\* An argument is refused: nothing is written.
SaveRefused ==
  /\ loop.at = "save" /\ loop' = Free
  /\ UNCHANGED <<files, status, checking, users, providers, behind, raced, bounds>>
Saving ==
  \/ \E name \in Connections, m \in Models :
       SaveProfile(name, m) \/ CreateConnection(name, m) \/ SelectModel(name, m)
  \/ \E name \in Connections : RemoveConnection(name)
  \/ SaveDream \/ SaveOther \/ SaveRefused

-------------------------------------------------------------------------------
(* DesktopService: the settings page waits for runs, and checks a sign-in *)

Save(op) ==
  /\ op \in {"dream", "other"} \/ ~Running
  /\ BeginSave(op, "api") /\ UNCHANGED checking
CheckSignIn ==
  /\ loop = Free /\ ~Running /\ ~checking /\ saves < MaxSaves /\ More
  /\ checking' = TRUE
  /\ UNCHANGED <<files, status, loop, users, providers, behind, raced, bounds>>
\* It may have failed, and a run may have started meanwhile.
SignInChecked ==
  /\ loop = Free /\ checking /\ checking' = FALSE
  /\ \/ ~Running /\ (\E op \in {"profile", "create"} : BeginSave(op, "codex"))
     \/ UNCHANGED <<files, status, loop, users, providers, behind, raced, bounds>>

-------------------------------------------------------------------------------
(* turns, chats and the adapter *)

\* stream_turn: bind_run
StartRun(t) ==
  /\ loop = Free /\ run[t] = None /\ runs < MaxRuns /\ More
  /\ run' = [run EXCEPT ![t] = [bound |-> snap, agent |-> None]] /\ runs' = runs + 1
  /\ UNCHANGED <<files, status, loop, checking, chat, agent, providers, behind, raced, edits, saves>>
EndRun(t) ==
  /\ loop = Free /\ run[t] # None
  /\ run' = [run EXCEPT ![t] = None]
  /\ UNCHANGED <<files, status, loop, checking, chat, agent, providers, behind, raced, bounds>>

\* session_profile: credentials may rotate, the connection may not become another
Resolved(t, c) ==
  LET p == c.agents[chat[t].connection]
  IN IF p = None THEN None ELSE IF p.backend # chat[t].kept.backend THEN None ELSE chat[t].kept

\* ChatRuntime.stream: an agent of another configuration is built again.
AgentVersionLatest(t) == snap.version
AgentVersion(t) == run[t].bound.version
UseAgent(t) ==
  /\ loop = Free /\ run[t] # None /\ run[t].agent = None
  /\ LET built == [from |-> run[t].bound.c, uses |-> Resolved(t, run[t].bound.c),
                   version |-> AgentVersion(t)]
         fresh == agent[t] # None /\ agent[t].version = AgentVersion(t)
         used  == IF fresh THEN agent[t] ELSE built
     IN IF used.uses = None
        THEN agent' = [agent EXCEPT ![t] = None] /\ run' = [run EXCEPT ![t] = None]
        ELSE agent' = [agent EXCEPT ![t] = used] /\ run' = [run EXCEPT ![t].agent = used]
  /\ UNCHANGED <<files, status, loop, checking, chat, providers, behind, raced, bounds>>

\* update_runtime_settings(profileId): not while the chat runs, and a chat with
\* a history keeps its kind of connection.
ChooseConnection(t, name) ==
  /\ loop = Free /\ run[t] = None
  /\ snap.c.agents[name] # None /\ name # chat[t].connection
  /\ Resolved(t, snap.c) # None
  /\ snap.c.agents[name].backend = chat[t].kept.backend
  /\ chat' = [chat EXCEPT ![t] = [connection |-> name, kept |-> Snapshot(snap.c.agents[name])]]
  /\ agent' = [agent EXCEPT ![t] = None]
  /\ UNCHANGED <<files, status, loop, checking, run, providers, behind, raced, bounds>>

\* _adapter: built where it is first needed, from the settings seen there.
BuildAdapter ==
  /\ loop = Free /\ providers = None
  /\ \E seen \in {snap.h} \cup {run[t].bound.h : t \in {u \in Threads : run[u] # None}} :
       providers' = seen /\ behind' = (seen # snap.h)
  /\ UNCHANGED <<files, status, loop, checking, users, raced, bounds>>

-------------------------------------------------------------------------------
Next ==
  \/ Booted \/ Edit \/ Repair \/ Refresh \/ Sign \/ Look \/ ReadCleo \/ Apply
  \/ Saving \/ SignInChecked \/ BuildAdapter
  \/ \E op \in {"profile", "create", "select", "remove", "dream", "other"} : Save(op)
  \/ CheckSignIn
  \/ \E t \in Threads : StartRun(t) \/ EndRun(t) \/ UseAgent(t)
  \/ \E t \in Threads, name \in Connections : ChooseConnection(t, name)

Spec == Init /\ [][Next]_vars

-------------------------------------------------------------------------------
(* properties *)

TypeOK ==
  /\ harness \in Harnesses \cup {None, Junk} /\ snap.h \in Harnesses
  /\ {error, restart, behind, raced} \subseteq BOOLEAN
  /\ providers \in Harnesses \cup {None} /\ snap.version \in Nat \ {0}

\* A configuration that does not load never replaces one that works
\* (service.py:123-144), and the paths of the data home do not move.
SnapshotWorks == Loads(snap.c, snap.h) /\ snap.c.dir = "home"

\* Nothing is overlooked: with no file changed since the signature, the snapshot
\* is what the files say, or an error says that it is not.  (service.py:113-121)
NotStale ==
  loop = Free /\ signature = stamp /\ ~raced /\ ~error =>
    /\ Readable(cleo) => snap.c = [cleo EXCEPT !.dir = "home"]
    /\ Readable(cleo) /\ snap.h = harness /\ restart = (cleo.dir # "home")

\* A turn works with the configuration it began with, its cached agent too, and
\* with the connection the chat was begun with.  (service.py:1306-1323)
RunKeepsItsSettings ==
  \A t \in Threads : run[t] # None /\ run[t].agent # None =>
      run[t].agent.from = run[t].bound.c /\ run[t].agent.uses = chat[t].kept

\* What the settings page writes loads if what it read did, but for a connection
\* saved again without the model dreaming uses (README, section 6), and only the
\* dream settings change the model dreaming was given.
SavedTrue ==
  loop.at = "due" /\ "new" \in DOMAIN loop /\ Valid(loop.raw) =>
    /\ Valid(loop.new) \/ loop.op = "profile"
    /\ loop.op \notin {"profile", "dream"} /\ loop.raw.dream # None =>
         DreamModel(loop.new) = DreamModel(loop.raw)

\* New sessions use the providers of the snapshot, unless one could not be built
\* or a turn bound to an older snapshot built the adapter.
ProvidersCurrent == providers # None /\ ~behind => providers = snap.h

ConfigurationHolds ==
  TypeOK /\ SnapshotWorks /\ NotStale /\ RunKeepsItsSettings /\ SavedTrue /\ ProvidersCurrent
===============================================================================
