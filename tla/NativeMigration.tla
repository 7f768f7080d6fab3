--------------------------- MODULE NativeMigration ---------------------------
(***************************************************************************)
(* The migration of a retired harness home into the native one             *)
(* (integrations/harness_migration.py), done by each process when it first *)
(* uses the harness and again when a session is opened whose history       *)
(* changed since.  The module's lock is one process's: an older client may *)
(* still append to the retired home, the native harness to its own, and    *)
(* two processes may migrate at once.                                      *)
(*                                                                         *)
(* A file is a transcript or a text.  Its content is the sequence of its   *)
(* records, a digest is the content itself, and a transcript may be found  *)
(* in the native home at its own path or at another under the same id.     *)
(***************************************************************************)
EXTENDS Naturals, FiniteSets, Sequences, TLC

CONSTANTS Processes, Transcripts, Texts, None,
          MaxWrites, MaxFaults, MaxSteps      \* bounds of the model, MaxSteps of both together

Files == Transcripts \cup Texts
Places == {"own", "other"}

VARIABLES retired,      \* the retired home: what each file holds
          native,       \* the native home, by file and place
          report,       \* the report beside the originals
          proc,         \* what each process is at
          done,         \* processes that migrated without a retry
          resumed,      \* what was opened: the history checked and the one found
          writes, faults

vars == <<retired, native, report, proc, done, resumed, writes, faults>>
world == <<retired, writes, faults>>
More == writes + faults < MaxSteps

Begins(short, long) == Len(short) <= Len(long) /\ SubSeq(long, 1, Len(short)) = short
Existing(f) == {p \in Places : native[f][p] # None}
Statuses == {"verified", "conflict", "retry"}
Idle == [stage |-> "idle"]

TypeOK ==
  /\ DOMAIN retired = Files /\ DOMAIN native = Files
  /\ \A f \in Texts : native[f]["other"] = None
  /\ report # None => \A f \in DOMAIN report : report[f].status \in Statuses
  /\ done \subseteq Processes

------------------------------------------------------------------------------
(* migrate_native_home *)

\* The ids found in the native home before the first file is looked at.
Found == [f \in Transcripts |-> Existing(f)]
Migrating(for) == [stage |-> "file", todo |-> Files, sessions |-> Found, for |-> for,
                   files |-> [f \in {} |-> None]]
Begin(p) ==
  /\ proc[p] = Idle /\ p \notin done
  /\ proc' = [proc EXCEPT ![p] = Migrating(None)]
  /\ UNCHANGED <<native, report, done, resumed, world>>

\* A file's record, and the next file.
Recorded(p, f, status, digest, place) ==
  [proc[p] EXCEPT !.stage = "file", !.todo = @ \ {f},
     !.sessions = IF status = "verified" /\ f \in Transcripts THEN [@ EXCEPT ![f] = @ \cup {place}] ELSE @,
     !.files = [g \in DOMAIN @ \cup {f} |-> IF g = f THEN [status |-> status, digest |-> digest, place |-> place]
                                            ELSE @[g]]]

\* A text must be equal; a transcript may have gained turns since.
Same(f, digest, content) == IF f \in Transcripts THEN Begins(digest, content) ELSE content = digest
Compared(f, digest, places) ==
  IF \A q \in places : Same(f, digest, native[f][q]) THEN "verified" ELSE "conflict"

\* The digest is taken; what is there already is compared, and what is not is
\* copied beside its place.
Look(p, f) ==
  LET known == IF f \in Transcripts THEN proc[p].sessions[f] ELSE {}
      there == IF known # {} THEN known ELSE Existing(f) \cap {"own"}
  IN /\ proc[p].stage = "file" /\ f \in proc[p].todo
     /\ proc' = [proc EXCEPT ![p] =
          IF there # {}
          THEN Recorded(p, f, Compared(f, retired[f], there), retired[f], CHOOSE q \in there : TRUE)
          ELSE [stage |-> "copied", f |-> f, digest |-> retired[f]] @@ proc[p]]
     /\ UNCHANGED <<native, report, done, resumed, world>>

\* A source that changed meanwhile is retried; the link refuses a place that
\* was taken meanwhile.
PublishOver(p) ==
  LET f == proc[p].f
  IN /\ proc[p].stage = "copied"
     /\ IF retired[f] # proc[p].digest
        THEN /\ proc' = [proc EXCEPT ![p] = Recorded(p, f, "retry", proc[p].digest, "own")]
             /\ UNCHANGED native
        ELSE /\ native' = [native EXCEPT ![f]["own"] = proc[p].digest]
             /\ proc' = [proc EXCEPT ![p] = Recorded(p, f, "verified", proc[p].digest, "own")]
     /\ UNCHANGED <<report, done, resumed, world>>
Publish(p) ==
  LET f == proc[p].f
  IN /\ proc[p].stage = "copied"
     /\ IF retired[f] # proc[p].digest
        THEN /\ proc' = [proc EXCEPT ![p] = Recorded(p, f, "retry", proc[p].digest, "own")]
             /\ UNCHANGED native
        ELSE IF native[f]["own"] # None
        THEN /\ proc' = [proc EXCEPT ![p] = Recorded(p, f, Compared(f, proc[p].digest, {"own"}),
                                                     proc[p].digest, "own")]
             /\ UNCHANGED native
        ELSE /\ native' = [native EXCEPT ![f]["own"] = proc[p].digest]
             /\ proc' = [proc EXCEPT ![p] = Recorded(p, f, "verified", proc[p].digest, "own")]
     /\ UNCHANGED <<report, done, resumed, world>>

Retries(files) == \E f \in DOMAIN files : files[f].status = "retry"
Reported(p) ==
  /\ proc[p].stage = "file" /\ proc[p].todo = {}
  /\ report' = proc[p].files
  /\ done' = IF proc[p].for = None /\ ~Retries(proc[p].files) THEN done \cup {p} ELSE done
  /\ proc' = [proc EXCEPT ![p] = IF @.for = None THEN Idle
                                 ELSE [stage |-> "decide", for |-> @.for, files |-> @.files]]
  /\ UNCHANGED <<native, resumed, world>>

------------------------------------------------------------------------------
(* check_resume_migration *)

\* A session of the report is opened: its original is read again, and the
\* receipt holds only if the native history still contains all of it.
Receipt(f) ==
  /\ report[f].status = "verified" /\ report[f].digest = retired[f]
  /\ native[f][report[f].place] # None
  /\ Begins(retired[f], native[f][report[f].place])
Check(p, f) ==
  /\ proc[p] = Idle /\ report # None /\ f \in DOMAIN report
  /\ proc' = [proc EXCEPT ![p] =
       IF Receipt(f) THEN [stage |-> "decide", for |-> [f |-> f, seen |-> retired[f]], files |-> report]
       ELSE Migrating([f |-> f, seen |-> retired[f]])]
  /\ UNCHANGED <<native, report, done, resumed, world>>
Resume(p) ==
  LET f == proc[p].for.f
      receipt == proc[p].files[f]
  IN /\ proc[p].stage = "decide"
     /\ resumed' = IF receipt.status = "verified"
                   THEN resumed \cup {[f |-> f, seen |-> proc[p].for.seen, in |-> native[f][receipt.place]]}
                   ELSE resumed
     /\ proc' = [proc EXCEPT ![p] = Idle]
     /\ UNCHANGED <<native, report, done, world>>

------------------------------------------------------------------------------
(* the homes and the processes *)

OldClientAppends(f) ==
  /\ writes < MaxWrites /\ More /\ writes' = writes + 1
  /\ retired' = [retired EXCEPT ![f] = Append(@, "old")]
  /\ UNCHANGED <<native, report, proc, done, resumed, faults>>
NativeWrites(f, q) ==
  /\ writes < MaxWrites /\ More /\ writes' = writes + 1
  /\ f \in Texts => q = "own"
  /\ native' = [native EXCEPT ![f][q] = Append(IF @ = None THEN <<>> ELSE @, "new")]
  /\ UNCHANGED <<retired, report, proc, done, resumed, faults>>
\* A process stops: its copy and what it had not yet reported are lost.
Stop(p) ==
  /\ faults < MaxFaults /\ More /\ faults' = faults + 1
  /\ proc[p] # Idle
  /\ proc' = [proc EXCEPT ![p] = Idle]
  /\ done' = done \ {p}
  /\ UNCHANGED <<retired, native, report, resumed, writes>>

Init ==
  /\ retired = [f \in Files |-> <<"first">>]
  /\ native = [f \in Files |-> [q \in Places |-> None]]
  /\ report = None
  /\ proc = [p \in Processes |-> Idle]
  /\ done = {} /\ resumed = {}
  /\ writes = 0 /\ faults = 0

Next ==
  \/ \E p \in Processes : Begin(p) \/ Publish(p) \/ Reported(p) \/ Resume(p) \/ Stop(p)
  \/ \E p \in Processes, f \in Files : Look(p, f)
  \/ \E p \in Processes, f \in Transcripts : Check(p, f)
  \/ \E f \in Files : OldClientAppends(f)
  \/ \E f \in Files, q \in Places : NativeWrites(f, q)

Spec == Init /\ [][Next]_vars

------------------------------------------------------------------------------
(* properties *)

\* A session is opened only with all the history its original held when it
\* was checked ("Never silently resume different native history").
ResumedWhole == \A r \in resumed : Begins(r.seen, r.in)

\* A file reported as verified is in the native home, and not older.
VerifiedIsThere ==
  report # None =>
    \A f \in DOMAIN report : report[f].status = "verified" /\ f \in Transcripts =>
      native[f][report[f].place] # None /\ Begins(report[f].digest, native[f][report[f].place])

\* A migrated session is opened whole.
MigratedWhole == TypeOK /\ ResumedWhole /\ VerifiedIsThere

\* What the native harness wrote is never replaced, only continued...
Keeps ==
  \A f \in Files, q \in Places : native[f][q] # None => Begins(native[f][q], native'[f][q])

\* ...and what was migrated is there, whole.
NativeKept == []MigratedWhole /\ [][Keeps]_vars
==============================================================================
