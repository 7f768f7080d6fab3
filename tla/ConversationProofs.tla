------------------------ MODULE ConversationProofs -------------------------
(***************************************************************************)
(* What TLAPS proves of a conversation.  Of Handoff, for any harnesses and  *)
(* any number of turns, native sessions and other records: whoever works on *)
(* a request has the context of the conversation, and what is confirmed of  *)
(* a switch is so.  Of where a session lives, of the history a switch hands *)
(* over, of the permissions of turns and of the policy of routed ones, each *)
(* by itself and for all values of its constants; what a theorem takes them *)
(* to be is its antecedent.                                                 *)
(***************************************************************************)
EXTENDS MCConversation, FiniteSets, WellFoundedInduction, SequenceTheorems, TLAPS

Natives == 1 .. MaxNatives

(* What a log says, without its order: the native sessions with a record of *)
(* a switch to them, of a submission, of a delivery...                      *)
Switched == {n \in Natives : Logged(Switch(n))}
Handed   == {n \in Natives : Logged(Submitted(n))}
Acked    == {n \in Natives : Logged(Delivered(n))}

(* ...and with it: the newest switch to p was to n, and is not delivered;   *)
(* n was the last to confirm, and nothing but the end of that turn followed;*)
(* the manifest does not know of a switch to n, or of a delivery.           *)
SwitchTo(p, i) == log[i].kind = "switch" /\ natives[log[i].nat].prov = p
PendingAt(p, n) ==
    \E i \in DOMAIN log :
        /\ log[i] = Switch(n) /\ natives[n].prov = p
        /\ \A j \in DOMAIN log : j > i => ~SwitchTo(p, j) /\ log[j] # Delivered(n)
FreshAck(n) ==
    \E i \in DOMAIN log :
        /\ log[i] = Delivered(n)
        /\ \A j \in DOMAIN log : j > i => log[j].kind = "completed"
AheadSwitch(n) == \E i \in DOMAIN log : i > manifest.seq /\ log[i] = Switch(n)
AheadAck(n)    == \E i \in DOMAIN log : i > manifest.seq /\ log[i] = Delivered(n)

Owing(p) == \E n \in Natives : PendingAt(p, n)
OwingOther(p) == \E n \in Natives : n # route.nat /\ PendingAt(p, n)

(* Some other session may have worked on the request that this one gets.    *)
OthersUnconfirmed(n) ==
    \E k \in 2 .. Len(natives) : k # n /\ natives[k].known # {} /\ k \notin Acked
-----------------------------------------------------------------------------
(* The values of the log: who is named exists.                              *)
NamesExist ==
    /\ \A i \in DOMAIN log : log[i].kind \in {"switch", "submitted", "delivered"}
                                => log[i].nat \in DOMAIN natives
    /\ route.nat = 0 => route = NoRoute

(* A turn under way has a route and a number, and its request is recorded;  *)
(* what completed was asked for.                                            *)
InTurn == step \in {"submit", "call", "running", "refresh"}
Asked ==
    /\ InTurn => route.nat # 0 /\ turn \in History
    /\ Finished \subseteq History

(* A harness at work has been told all that the route had for it.           *)
Told == step \in {"running", "refresh"} =>
            route.ctx \cup {turn} \subseteq natives[route.nat].known

(* A candidate is new, and knows what there was to know when it was made.   *)
Prepared ==
    step = "prepare" =>
        /\ cand.nat = Len(natives)
        /\ cand.nat \notin Switched \cup Acked
        /\ manifest.nat # cand.nat /\ route.nat # cand.nat
        /\ natives[cand.nat].known = {}
        /\ cand.seen <= Len(log)
        /\ cand.seen = Len(log) => cand.ctx = History
        /\ OthersUnconfirmed(cand.nat) => cand.warned

(* A live route goes to one that knows what was completed, or will be told; *)
(* so does the manifest, unless its harness is owed the history, and so     *)
(* does a confirmation the manifest may still learn of.                     *)
RouteCovered ==
    route.nat # 0 => Finished \subseteq natives[route.nat].known \cup route.ctx
ManifestCovered ==
    ~Owing(manifest.prov) =>
        /\ Finished \subseteq natives[manifest.nat].known
        /\ manifest.nat = 1 \/ manifest.nat \in Acked
AckCovered == \A n \in Natives : FreshAck(n) => Finished \subseteq natives[n].known

(* The manifest names the live route, or a harness that is owed the history *)
(* for another session's sake.                                              *)
RouteNamed == route.nat # 0 => manifest.nat = route.nat \/ OwingOther(manifest.prov)

(* What the manifest does not know yet.                                     *)
AckKnown ==
    \A n \in Natives : AheadAck(n) =>
        /\ Owing(manifest.prov) \/ n = manifest.nat
        /\ route.nat # 0 => n = route.nat \/ OwingOther(manifest.prov)
SwitchKnown ==
    /\ ~AheadSwitch(manifest.nat)
    /\ route.nat # 0 => ~AheadSwitch(route.nat)

(* A route that did not confirm its switch still owes the history; it is    *)
(* told that it does not only after the confirmation is recorded.           *)
RouteOwes ==
    route.nat # 0 /\ route.nat # 1 /\ route.nat \notin Acked =>
        route.hand /\ Owing(manifest.prov)
ClearedLast == step = "refresh" /\ route.hand => route.nat \in Acked

(* Who is named, or confirmed, was switched to.                             *)
Committed ==
    {manifest.nat, route.nat} \cup Acked \subseteq {0, 1} \cup Switched

(* Who knows of a request and did not confirm it was recorded before; who   *)
(* confirmed it knows of it.                                                *)
SubmittedFirst ==
    step \in {"call", "running", "refresh"} /\ route.hand => route.nat \in Handed
KnowersRecorded ==
    /\ \A n \in 2 .. Len(natives) :
           natives[n].known # {} => n \in Acked \cup Handed
    /\ \A n \in Acked : natives[n].known # {}

RouteWarned ==
    route.hand /\ OthersUnconfirmed(route.nat) => route.warned

(* The inductive invariant.                                                *)
IInv ==
    /\ TypeOK
    /\ NamesExist
    /\ Asked
    /\ Told
    /\ Prepared
    /\ RouteCovered
    /\ ManifestCovered
    /\ AckCovered
    /\ RouteNamed
    /\ AckKnown
    /\ SwitchKnown
    /\ RouteOwes
    /\ ClearedLast
    /\ Committed
    /\ SubmittedFirst
    /\ KnowersRecorded
    /\ RouteWarned
-----------------------------------------------------------------------------
(* A set of places in the log has a last one.                               *)
Less == OpToRel(<, Nat)

(* Being smaller, as a relation, is well founded.                           *)
LEMMA LessIs == \A i, j \in Nat : <<i, j>> \in Less <=> i < j
BY DEF Less, OpToRel

LEMMA LessWellFounded == IsWellFoundedOn(Less, Nat)
BY NatLessThanWellFounded DEF Less

(* LatestOf picks the last place.                                           *)
LEMMA LatestIs ==
    ASSUME NEW n \in Nat, NEW S, S \subseteq 1 .. n, S # {}
    PROVE  LatestOf(S) \in S /\ \A j \in S : j <= LatestOf(S)
<1> DEFINE D == {n - i : i \in S}
<1>1. D \subseteq Nat
  OBVIOUS
<1>2. D # {}
  <2>1. PICK i \in S : TRUE
    OBVIOUS
  <2>2. n - i \in D
    OBVIOUS
  <2> QED
    BY <2>2
<1> HIDE DEF D
<1>3. PICK d \in D : \A e \in D : ~(<<e, d>> \in Less)
  BY <1>1, <1>2, LessWellFounded, WFMin
<1>4. \A e \in D : ~(e < d)
  <2>1. \A e \in D : e \in Nat /\ d \in Nat
    BY <1>1
  <2> QED
    BY Zenon, <1>3, <2>1, LessIs
<1>5. \A e \in D : d <= e
  BY <1>1, <1>4
<1>6. PICK i \in S : d = n - i
  BY DEF D
<1>7. \A j \in S : j <= i
  BY <1>5, <1>6 DEF D
<1> QED
  BY <1>6, <1>7 DEF LatestOf

(* The records are told apart by their kinds and names.                     *)
Kinds == {"user", "answer", "completed", "failed", "note", "switch", "submitted",
          "delivered"}

LEMMA Shapes ==
    ASSUME NEW e \in Events
    PROVE  /\ e.kind \in Kinds /\ e.turn \in 0 .. MaxTurns /\ e.nat \in 0 .. MaxNatives
           /\ e.kind = "switch" => e = Switch(e.nat) /\ e.nat \in Natives
           /\ e.kind = "submitted" => e = Submitted(e.nat) /\ e.nat \in Natives
           /\ e.kind = "delivered" => e = Delivered(e.nat) /\ e.nat \in Natives
BY HandoffAssumption DEF Events, Kinds, Natives, Turns, User, Answer, Completed, Failed, Note,
   Switch, Submitted, Delivered

(* pending_handoff finds the newest switch, and whether it was confirmed.   *)
LEMMA PendingIs ==
    ASSUME TypeOK, NamesExist, NEW p
    PROVE  Pending(p) <=> Owing(p)
<1> DEFINE S == {i \in DOMAIN log : log[i].kind = "switch" /\ natives[log[i].nat].prov = p}
<1>1. Len(log) \in Nat /\ DOMAIN log = 1 .. Len(log) /\ \A i \in DOMAIN log : log[i] \in Events
  BY DEF TypeOK
<1>2. ASSUME S # {}
      PROVE  LatestOf(S) \in S /\ \A j \in S : j <= LatestOf(S)
  BY <1>1, <1>2, LatestIs
<1>3. \A i \in S : log[i] = Switch(log[i].nat) /\ log[i].nat \in Natives
  BY <1>1, Shapes
<1>4. ASSUME Pending(p)
      PROVE  Owing(p)
  <2>1. /\ S # {}
        /\ \A j \in DOMAIN log : j > LatestOf(S) => log[j] # Delivered(log[LatestOf(S)].nat)
    BY <1>4 DEF Pending
  <2> DEFINE l == LatestOf(S)
  <2>3. l \in S /\ \A j \in S : j <= l
    BY <1>2, <2>1
  <2> HIDE DEF l
  <2>4. l \in DOMAIN log /\ log[l] = Switch(log[l].nat) /\ natives[log[l].nat].prov = p
    BY <1>3, <2>3
  <2>5. \A j \in DOMAIN log : j > l => ~SwitchTo(p, j)
    BY <1>1, <2>3, <2>4 DEF SwitchTo
  <2>6. \A j \in DOMAIN log : j > l => log[j] # Delivered(log[l].nat)
    BY <2>1 DEF l
  <2>2. PendingAt(p, log[l].nat)
    BY <2>4, <2>5, <2>6 DEF PendingAt
  <2> QED
    BY <1>3, <2>2, <2>3 DEF Owing
<1>5. ASSUME Owing(p)
      PROVE  Pending(p)
  <2>1. PICK n \in Natives, i \in DOMAIN log :
            /\ log[i] = Switch(n) /\ natives[n].prov = p
            /\ \A j \in DOMAIN log : j > i => ~SwitchTo(p, j) /\ log[j] # Delivered(n)
    BY <1>5 DEF Owing, PendingAt
  <2>2. i \in S
    BY <2>1 DEF Switch
  <2>3. \A j \in S : ~(j > i)
    BY <2>1 DEF SwitchTo
  <2>4. LatestOf(S) = i
    <3>1. LatestOf(S) \in S /\ i <= LatestOf(S)
      BY <1>2, <2>2
    <3>2. \A j \in S : j \in Nat
      BY <1>1
    <3> HIDE DEF S
    <3> QED
      BY <2>2, <2>3, <3>1, <3>2
  <2>5. log[LatestOf(S)].nat = n
    BY <2>1, <2>4 DEF Switch
  <2> QED
    BY <2>1, <2>2, <2>4, <2>5 DEF Pending
<1> QED
  BY <1>4, <1>5
-----------------------------------------------------------------------------
(* What reconcile makes of the manifest: it leaves it, or takes over the    *)
(* last confirmation or the last switch that it does not know.              *)
LEMMA ReconciledIs ==
    ASSUME TypeOK, NamesExist, Reconcilable
    PROVE  \/ Ahead = {} /\ Reconciled = manifest
           \/ \E n \in Natives \cap DOMAIN natives :
                 /\ AheadAck(n) /\ FreshAck(n)
                 /\ Reconciled = [prov |-> manifest.prov, nat |-> n, seq |-> Len(log)]
           \/ \E n \in Natives \cap DOMAIN natives :
                 /\ AheadSwitch(n) /\ PendingAt(natives[n].prov, n)
                 /\ Reconciled = [prov |-> natives[n].prov, nat |-> n, seq |-> Len(log)]
<1>1. /\ Len(log) \in Nat /\ DOMAIN log = 1 .. Len(log)
      /\ \A i \in DOMAIN log : log[i] \in Events
  BY DEF TypeOK
<1>2. CASE Ahead = {}
  BY <1>2 DEF Reconciled
<1>3. CASE Ahead # {}
  <2> DEFINE l == LatestOf(Commits)
             n == log[l].nat
  <2>1. Commits # {} /\ Commits \subseteq 1 .. Len(log)
    BY <1>1, <1>3 DEF Reconcilable, Commits, Ahead
  <2>2. l \in Commits /\ \A j \in Commits : j <= l
    BY <1>1, <2>1, LatestIs
  <2>3. \A i \in Ahead : i > l => log[i].kind = "completed"
    BY <1>3 DEF Reconcilable
  <2>4. Reconciled = [prov |-> IF log[l].kind = "switch" THEN natives[n].prov
                               ELSE manifest.prov,
                      nat |-> n, seq |-> Len(log)]
    BY <1>3 DEF Reconciled
  <2> HIDE DEF l
  <2>5. /\ l \in DOMAIN log /\ l > manifest.seq /\ log[l].kind \in {"switch", "delivered"}
        /\ n \in Natives \cap DOMAIN natives
    BY <1>1, <2>2, Shapes DEF Commits, Ahead, NamesExist
  <2>6. \A j \in DOMAIN log : j > l => log[j].kind = "completed"
    BY <1>1, <2>3, <2>5 DEF Ahead, TypeOK
  <2>7. CASE log[l].kind = "switch"
    <3>1. log[l] = Switch(n)
      BY <1>1, <2>5, <2>7, Shapes
    <3>2. \A j \in DOMAIN log :
              j > l => ~SwitchTo(natives[n].prov, j) /\ log[j] # Delivered(n)
      BY <2>6 DEF SwitchTo, Delivered
    <3>3. AheadSwitch(n) /\ PendingAt(natives[n].prov, n)
      BY <2>5, <3>1, <3>2 DEF AheadSwitch, PendingAt
    <3>4. Reconciled = [prov |-> natives[n].prov, nat |-> n, seq |-> Len(log)]
      BY <2>4, <2>7
    <3> QED
      BY <2>5, <3>3, <3>4
  <2>8. CASE log[l].kind = "delivered"
    <3>1. log[l] = Delivered(n)
      BY <1>1, <2>5, <2>8, Shapes
    <3>2. AheadAck(n) /\ FreshAck(n)
      BY <2>5, <2>6, <3>1 DEF AheadAck, FreshAck
    <3>3. Reconciled = [prov |-> manifest.prov, nat |-> n, seq |-> Len(log)]
      BY <2>4, <2>8
    <3> QED
      BY <2>5, <3>2, <3>3
  <2> QED
    BY <2>5, <2>7, <2>8
<1> QED
  BY <1>2, <1>3
-----------------------------------------------------------------------------
(* How the log grows.                                                       *)
Appends(batch) ==
    /\ log' \in Seq(Events)
    /\ Len(log') \in Len(log) .. Len(log) + Len(batch)
    /\ \A i \in 1 .. Len(log) : log'[i] = log[i]
    /\ \A i \in 1 .. Len(log') : i > Len(log) => log'[i] = batch[i - Len(log)]

(* append_events leaves the log with the batch at its end, or, if it        *)
(* raised, with the beginning of it.                                        *)
LEMMA Recorded ==
    ASSUME TypeOK, NEW batch \in Seq(Events), NEW m, Record(batch, m) \/ RecordFails(batch)
    PROVE  /\ Appends(batch)
           /\ Record(batch, m) => Len(log') = Len(log) + Len(batch)
<1>1. log \in Seq(Events) /\ Len(log) \in Nat /\ Len(batch) \in Nat
  BY DEF TypeOK
<1>2. CASE Record(batch, m)
  <2>1. log' = log \o batch
    BY <1>2 DEF Record
  <2>2. /\ log \o batch \in Seq(Events)
        /\ Len(log \o batch) = Len(log) + Len(batch)
        /\ \A i \in 1 .. Len(log) + Len(batch) : (log \o batch)[i] =
               IF i <= Len(log) THEN log[i] ELSE batch[i - Len(log)]
    BY <1>1, ConcatProperties
  <2> QED
    BY <1>1, <2>1, <2>2 DEF Appends
<1>3. ASSUME RecordFails(batch)
      PROVE  Appends(batch)
  <2>1. PICK k \in 0 .. Len(batch) : log' = log \o SubSeq(batch, 1, k)
    BY <1>3 DEF RecordFails
  <2> DEFINE b == SubSeq(batch, 1, k)
  <2>2. \A i \in 1 .. k : batch[i] \in Events
    BY <1>1
  <2>3. b \in Seq(Events) /\ Len(b) = k /\ \A i \in 1 .. k : b[i] = batch[i]
    <3>1. /\ b \in Seq(Events) /\ Len(b) = (IF 1 <= k THEN k - 1 + 1 ELSE 0)
          /\ \A i \in 1 .. k - 1 + 1 : b[i] = batch[1 + i - 1]
      BY <1>1, <2>2, SubSeqProperties
    <3> QED
      BY <1>1, <3>1
  <2> HIDE DEF b
  <2>4. /\ log \o b \in Seq(Events)
        /\ Len(log \o b) = Len(log) + Len(b)
        /\ \A i \in 1 .. Len(log) + Len(b) : (log \o b)[i] =
               IF i <= Len(log) THEN log[i] ELSE b[i - Len(log)]
    BY <1>1, <2>3, ConcatProperties
  <2>5. log' = log \o b
    BY <2>1 DEF b
  <2> QED
    BY <1>1, <2>3, <2>4, <2>5 DEF Appends
<1>4. CASE RecordFails(batch) /\ ~Record(batch, m)
  BY <1>3, <1>4
<1> QED
  BY <1>2, <1>4
-----------------------------------------------------------------------------
(* What a step may do besides: native sessions stay what they are, and the  *)
(* manifest does not forget.                                                *)
Steady ==
    /\ DOMAIN natives \subseteq DOMAIN natives'
    /\ \A n \in DOMAIN natives : natives'[n].prov = natives[n].prov
    /\ manifest'.seq \in Nat /\ manifest'.seq >= manifest.seq

(* A record of no consequence for what was switched, confirmed or completed.*)
Quiet ==
    /\ Finished' = Finished /\ Switched' = Switched /\ Acked' = Acked
    /\ History \subseteq History' /\ Handed \subseteq Handed'
    /\ \A p \in Providers, n \in Natives : PendingAt(p, n)' <=> PendingAt(p, n)
    /\ \A n \in Natives : /\ FreshAck(n)' => FreshAck(n)
                          /\ AheadAck(n)' => AheadAck(n)
                          /\ AheadSwitch(n)' => AheadSwitch(n)

(* What a log says does not change with the manifest, or with what native   *)
(* sessions know.                                                           *)
LEMMA Unlogged ==
    ASSUME TypeOK, NamesExist, Steady, log' = log
    PROVE  Quiet /\ History' = History /\ Handed' = Handed
<1>1. DOMAIN log = 1 .. Len(log) /\ Len(log) \in Nat /\ manifest.seq \in Nat
  BY DEF TypeOK
<1>2. \A i \in DOMAIN log : log[i].kind = "switch" => log[i].nat \in DOMAIN natives
  BY DEF NamesExist
<1>3. \A e : Logged(e)' <=> Logged(e)
  BY DEF Logged
<1>4. /\ Finished' = Finished /\ Switched' = Switched /\ Acked' = Acked
      /\ History' = History /\ Handed' = Handed
  BY <1>3 DEF Finished, Switched, Acked, History, Handed
<1>5. ASSUME NEW p, NEW i \in DOMAIN log
      PROVE  SwitchTo(p, i)' <=> SwitchTo(p, i)
  BY <1>2 DEF SwitchTo, Steady
<1>6. ASSUME NEW p, NEW n \in Natives
      PROVE  PendingAt(p, n)' <=> PendingAt(p, n)
  <2>1. ASSUME NEW i \in DOMAIN log, log[i] = Switch(n)
        PROVE  natives'[n].prov = natives[n].prov
    BY <1>2, <2>1 DEF Switch, Steady
  <2> QED
    BY <1>5, <2>1 DEF PendingAt
<1>7. ASSUME NEW n \in Natives
      PROVE  /\ FreshAck(n)' => FreshAck(n)
             /\ AheadAck(n)' => AheadAck(n)
             /\ AheadSwitch(n)' => AheadSwitch(n)
  BY <1>1 DEF FreshAck, AheadAck, AheadSwitch, Steady
<1> QED
  BY <1>4, <1>6, <1>7 DEF Quiet

(* The log grows by one record.                                             *)
Added(e) ==
    /\ log' \in Seq(Events)
    /\ Len(log') = Len(log) + 1
    /\ \A i \in 1 .. Len(log) : log'[i] = log[i]
    /\ log'[Len(log) + 1] = e

(* One record is added, or, if append_events raised, perhaps none.          *)
LEMMA OneRecorded ==
    ASSUME TypeOK, NEW e \in Events, NEW m, Record(<<e>>, m) \/ RecordFails(<<e>>)
    PROVE  /\ log' = log \/ Added(e)
           /\ Record(<<e>>, m) => Added(e)
<1>1. <<e>> \in Seq(Events) /\ Len(<<e>>) = 1 /\ <<e>>[1] = e
  OBVIOUS
<1>2. Appends(<<e>>) /\ (Record(<<e>>, m) => Len(log') = Len(log) + 1)
  BY <1>1, Recorded
<1>3. log \in Seq(Events) /\ Len(log) \in Nat /\ log' \in Seq(Events)
  BY <1>2 DEF TypeOK, Appends
<1>4. CASE Len(log') = Len(log)
  <2>1. \A i \in 1 .. Len(log') : log'[i] = log[i]
    BY <1>2, <1>4 DEF Appends
  <2>2. log' = log
    BY <1>3, <1>4, <2>1, SeqEqual
  <2> QED
    BY <1>2, <1>3, <1>4, <2>2
<1>5. CASE Len(log') = Len(log) + 1
  <2>1. log'[Len(log) + 1] = <<e>>[Len(log) + 1 - Len(log)]
    BY <1>2, <1>3, <1>5 DEF Appends
  <2>2. log'[Len(log) + 1] = e
    BY <1>1, <1>3, <2>1
  <2> QED
    BY <1>2, <1>3, <1>5, <2>2 DEF Appends, Added
<1> QED
  BY <1>1, <1>2, <1>3, <1>4, <1>5 DEF Appends

(* The log then says what it said, and the new record.                      *)
LEMMA LoggedThen ==
    ASSUME TypeOK, NEW e, Added(e)
    PROVE  /\ DOMAIN log' = 1 .. Len(log) + 1 /\ DOMAIN log = 1 .. Len(log)
           /\ Len(log) \in Nat
           /\ \A f : Logged(f)' <=> Logged(f) \/ f = e
<1>1. /\ DOMAIN log' = 1 .. Len(log) + 1 /\ DOMAIN log = 1 .. Len(log)
      /\ Len(log) \in Nat
  BY DEF TypeOK, Added
<1>2. ASSUME NEW f
      PROVE  Logged(f)' <=> Logged(f) \/ f = e
  <2>1. Logged(f)' <=> \E i \in 1 .. Len(log) + 1 : log'[i] = f
    BY <1>1 DEF Logged
  <2>2. Logged(f) <=> \E i \in 1 .. Len(log) : log[i] = f
    BY <1>1 DEF Logged
  <2> QED
    BY <1>1, <2>1, <2>2 DEF Added
<1> QED
  BY <1>1, <1>2

(* The records that are added alone, but for the record of a switch.        *)
LEMMA QuietlyAdded ==
    ASSUME TypeOK, NamesExist, Steady, NEW e \in Events, Added(e),
           e.kind \in {"user", "failed", "note", "submitted"}
    PROVE  Quiet
<1>1. /\ DOMAIN log' = 1 .. Len(log) + 1 /\ DOMAIN log = 1 .. Len(log)
      /\ Len(log) \in Nat
      /\ \A f : Logged(f)' <=> Logged(f) \/ f = e
      /\ manifest.seq \in Nat
  BY LoggedThen DEF TypeOK
<1>2. \A i \in DOMAIN log : log[i].kind = "switch" => log[i].nat \in DOMAIN natives
  BY DEF NamesExist
<1>3. \A n : Switch(n) # e /\ Delivered(n) # e /\ Completed(n) # e
  BY DEF Switch, Delivered, Completed
<1>4. /\ Finished' = Finished /\ Switched' = Switched /\ Acked' = Acked
      /\ History \subseteq History' /\ Handed \subseteq Handed'
  BY <1>1, <1>3 DEF Finished, Switched, Acked, History, Handed
<1>5. ASSUME NEW p, NEW i \in DOMAIN log
      PROVE  SwitchTo(p, i)' <=> SwitchTo(p, i)
  BY <1>1, <1>2 DEF SwitchTo, Steady, Added
<1>6. ASSUME NEW p, NEW n \in Natives
      PROVE  PendingAt(p, n)' <=> PendingAt(p, n)
  <2>1. ASSUME NEW i \in DOMAIN log, log[i] = Switch(n)
        PROVE  natives'[n].prov = natives[n].prov
    BY <1>2, <2>1 DEF Switch, Steady
  <2>2. \A i : i = Len(log) + 1 => ~SwitchTo(p, i)'
    BY DEF SwitchTo, Added
  <2> QED
    BY <1>1, <1>3, <1>5, <2>1, <2>2 DEF PendingAt, Added
<1>7. ASSUME NEW n \in Natives
      PROVE  /\ FreshAck(n)' => FreshAck(n)
             /\ AheadAck(n)' => AheadAck(n)
             /\ AheadSwitch(n)' => AheadSwitch(n)
  BY <1>1, <1>3 DEF FreshAck, AheadAck, AheadSwitch, Steady, Added
<1> QED
  BY <1>4, <1>6, <1>7 DEF Quiet

(* A switch was recorded: its harness is owed the history from now on.      *)
LEMMA SwitchAdded ==
    ASSUME TypeOK, NamesExist, Steady, NEW c \in Natives \cap DOMAIN natives,
           Added(Switch(c))
    PROVE  /\ Finished' = Finished /\ Acked' = Acked /\ Switched' = Switched \cup {c}
           /\ History' = History /\ Handed' = Handed
           /\ PendingAt(natives[c].prov, c)'
           /\ \A p \in Providers, n \in Natives :
                  p # natives[c].prov => (PendingAt(p, n)' <=> PendingAt(p, n))
           /\ \A n \in Natives : /\ ~FreshAck(n)'
                                 /\ AheadAck(n)' => AheadAck(n)
                                 /\ AheadSwitch(n)' => AheadSwitch(n) \/ n = c
<1>1. /\ DOMAIN log' = 1 .. Len(log) + 1 /\ DOMAIN log = 1 .. Len(log)
      /\ Len(log) \in Nat
      /\ \A f : Logged(f)' <=> Logged(f) \/ f = Switch(c)
      /\ manifest.seq \in Nat
  BY LoggedThen DEF TypeOK
<1>2. \A i \in DOMAIN log : log[i].kind = "switch" => log[i].nat \in DOMAIN natives
  BY DEF NamesExist
<1>3. \A n : /\ Delivered(n) # Switch(c) /\ Completed(n) # Switch(c)
             /\ User(n) # Switch(c) /\ Submitted(n) # Switch(c)
             /\ (Switch(n) = Switch(c) <=> n = c)
  BY DEF Switch, Delivered, Completed, User, Submitted
<1>4. /\ Finished' = Finished /\ Switched' = Switched \cup {c} /\ Acked' = Acked
      /\ History' = History /\ Handed' = Handed
  BY <1>1, <1>3 DEF Finished, Switched, Acked, History, Handed
<1>5. ASSUME NEW p, NEW i \in DOMAIN log
      PROVE  SwitchTo(p, i)' <=> SwitchTo(p, i)
  BY <1>1, <1>2 DEF SwitchTo, Steady, Added
<1>6. PendingAt(natives[c].prov, c)'
  BY <1>1 DEF PendingAt, Steady, Added
<1>7. ASSUME NEW p, NEW n \in Natives, p # natives[c].prov
      PROVE  PendingAt(p, n)' <=> PendingAt(p, n)
  <2>1. ASSUME NEW i \in DOMAIN log, log[i] = Switch(n)
        PROVE  natives'[n].prov = natives[n].prov
    BY <1>2, <2>1 DEF Switch, Steady
  <2>2. \A i : i = Len(log) + 1 => ~SwitchTo(p, i)'
    BY <1>7 DEF SwitchTo, Added, Steady, Switch
  <2>3. log'[Len(log) + 1] = Switch(n) => natives'[n].prov # p
    BY <1>3, <1>7 DEF Added, Steady
  <2> QED
    BY <1>1, <1>3, <1>5, <2>1, <2>2, <2>3 DEF PendingAt, Added
<1>8. ASSUME NEW n \in Natives
      PROVE  /\ ~FreshAck(n)'
             /\ AheadAck(n)' => AheadAck(n)
             /\ AheadSwitch(n)' => AheadSwitch(n) \/ n = c
  <2>1. Switch(c).kind # "completed"
    BY DEF Switch
  <2> QED
    BY <1>1, <1>3, <2>1 DEF FreshAck, AheadAck, AheadSwitch, Steady, Added
<1> QED
  BY <1>4, <1>6, <1>7, <1>8

(* Appending one element to a sequence.                                     *)
LEMMA OneMore ==
    ASSUME NEW S, NEW s \in Seq(S), NEW e \in S
    PROVE  /\ s \o <<e>> \in Seq(S) /\ Len(s \o <<e>>) = Len(s) + 1
           /\ \A i \in 1 .. Len(s) : (s \o <<e>>)[i] = s[i]
           /\ (s \o <<e>>)[Len(s) + 1] = e
<1>1. <<e>> \in Seq(S) /\ Len(<<e>>) = 1 /\ <<e>>[1] = e /\ Len(s) \in Nat
  OBVIOUS
<1>2. /\ s \o <<e>> \in Seq(S) /\ Len(s \o <<e>>) = Len(s) + Len(<<e>>)
      /\ \A i \in 1 .. Len(s) + Len(<<e>>) : (s \o <<e>>)[i] =
             IF i <= Len(s) THEN s[i] ELSE <<e>>[i - Len(s)]
  BY <1>1, ConcatProperties
<1>3. (s \o <<e>>)[Len(s) + 1] = <<e>>[Len(s) + 1 - Len(s)]
  BY <1>1, <1>2
<1> QED
  BY <1>1, <1>2, <1>3

(* The records of a turn that ended well.                                   *)
TurnBatch == <<Answer(turn)>> \o Delivery \o <<Completed(turn)>>

(* They are the answer, the delivery if one is due, and the completion.     *)
LEMMA TurnBatchIs ==
    ASSUME TypeOK, turn \in Turns, route.nat \in Natives
    PROVE  /\ TurnBatch \in Seq(Events) /\ Len(TurnBatch) \in {2, 3}
           /\ TurnBatch[1] = Answer(turn)
           /\ route.hand => /\ Len(TurnBatch) = 3
                            /\ TurnBatch[2] = Delivered(route.nat)
                            /\ TurnBatch[3] = Completed(turn)
           /\ ~route.hand => Len(TurnBatch) = 2 /\ TurnBatch[2] = Completed(turn)
<1>1. {Answer(turn), Delivered(route.nat), Completed(turn)} \subseteq Events
  BY DEF Events, Natives
<1>2. <<Answer(turn)>> \in Seq(Events) /\ Len(<<Answer(turn)>>) = 1
      /\ <<Answer(turn)>>[1] = Answer(turn)
  BY <1>1
<1>3. CASE route.hand
  <2> DEFINE b == <<Answer(turn)>> \o <<Delivered(route.nat)>>
  <2>1. b \in Seq(Events) /\ Len(b) = 2 /\ b[1] = Answer(turn) /\ b[2] = Delivered(route.nat)
    BY <1>1, <1>2, OneMore
  <2> HIDE DEF b
  <2>2. TurnBatch = b \o <<Completed(turn)>>
    BY <1>3 DEF TurnBatch, Delivery, b
  <2>3. /\ TurnBatch \in Seq(Events) /\ Len(TurnBatch) = 3
        /\ TurnBatch[1] = b[1] /\ TurnBatch[2] = b[2] /\ TurnBatch[3] = Completed(turn)
    <3> DEFINE c == Completed(turn)
    <3>1. c \in Events
      BY <1>1
    <3> HIDE DEF c
    <3>2. /\ b \o <<c>> \in Seq(Events) /\ Len(b \o <<c>>) = Len(b) + 1
          /\ \A i \in 1 .. Len(b) : (b \o <<c>>)[i] = b[i]
          /\ (b \o <<c>>)[Len(b) + 1] = c
      BY <2>1, <3>1, OneMore
    <3>3. TurnBatch = b \o <<c>>
      BY <2>2 DEF c
    <3>4. 1 \in 1 .. Len(b) /\ 2 \in 1 .. Len(b) /\ Len(b) + 1 = 3
      BY <2>1
    <3> QED
      BY <3>2, <3>3, <3>4 DEF c
  <2> QED
    BY <1>3, <2>1, <2>3
<1>4. CASE ~route.hand
  <2>1. TurnBatch = (<<Answer(turn)>> \o <<>>) \o <<Completed(turn)>>
    BY <1>4 DEF TurnBatch, Delivery
  <2>2. TurnBatch = <<Answer(turn)>> \o <<Completed(turn)>>
    BY <1>2, <2>1, ConcatEmptySeq
  <2>3. /\ TurnBatch \in Seq(Events) /\ Len(TurnBatch) = 2
        /\ TurnBatch[1] = Answer(turn) /\ TurnBatch[2] = Completed(turn)
    BY <1>1, <1>2, <2>2, OneMore
  <2> QED
    BY <1>4, <2>3
<1> QED
  BY <1>3, <1>4

(* What the log says once they are recorded, all or some of them.           *)
LEMMA TurnRecorded ==
    ASSUME TypeOK, NamesExist, Steady, turn \in Turns, route.nat \in Natives,
           NEW m, Record(TurnBatch, m) \/ RecordFails(TurnBatch)
    PROVE  /\ log' \in Seq(Events)
           /\ \A i \in DOMAIN log' : \/ (i \in DOMAIN log /\ log'[i] = log[i])
                                     \/ log'[i] \in {Answer(turn), Delivered(route.nat),
                                                     Completed(turn)}
           /\ Finished \subseteq Finished' /\ Finished' \subseteq Finished \cup {turn}
           /\ Switched' = Switched /\ History' = History /\ Handed' = Handed
           /\ Acked \subseteq Acked'
           /\ Acked' \subseteq IF route.hand THEN Acked \cup {route.nat} ELSE Acked
           /\ Record(TurnBatch, m) /\ route.hand => route.nat \in Acked'
           /\ \A p \in Providers, n \in Natives :
                 /\ PendingAt(p, n)' => PendingAt(p, n)
                 /\ PendingAt(p, n) => PendingAt(p, n)' \/ (n = route.nat /\ n \in Acked')
           /\ \A n \in Natives :
                 /\ FreshAck(n)' => n = route.nat \/ (FreshAck(n) /\ Finished' = Finished)
                 /\ AheadAck(n)' => AheadAck(n) \/ n = route.nat
                 /\ AheadSwitch(n)' => AheadSwitch(n)
<1> DEFINE r == route.nat
<1>1. /\ TurnBatch \in Seq(Events) /\ Len(TurnBatch) \in {2, 3}
      /\ TurnBatch[1] = Answer(turn)
      /\ route.hand => /\ Len(TurnBatch) = 3 /\ TurnBatch[2] = Delivered(r)
                       /\ TurnBatch[3] = Completed(turn)
      /\ ~route.hand => Len(TurnBatch) = 2 /\ TurnBatch[2] = Completed(turn)
  BY TurnBatchIs
<1>2. Appends(TurnBatch) /\ (Record(TurnBatch, m) => Len(log') = Len(log) + Len(TurnBatch))
  BY <1>1, Recorded
<1>3. /\ Len(log) \in Nat /\ DOMAIN log = 1 .. Len(log)
      /\ Len(log') \in Nat /\ DOMAIN log' = 1 .. Len(log') /\ Len(log) <= Len(log')
      /\ log' \in Seq(Events)
      /\ \A i \in DOMAIN log : log'[i] = log[i]
  <2>1. log' \in Seq(Events) /\ log \in Seq(Events)
    BY <1>2 DEF TypeOK, Appends
  <2>2. Len(log') \in Len(log) .. Len(log) + Len(TurnBatch)
    BY <1>2 DEF Appends
  <2>3. \A i \in 1 .. Len(log) : log'[i] = log[i]
    BY <1>2 DEF Appends
  <2> QED
    BY <2>1, <2>2, <2>3
<1> DEFINE L == Len(log)
           N == Len(TurnBatch)
<1>0. L \in Nat /\ N \in {2, 3} /\ Len(log') \in L .. L + N /\ (~route.hand => N = 2)
      /\ (route.hand => N = 3) /\ (Record(TurnBatch, m) => Len(log') = L + N)
      /\ \A i \in 1 .. Len(log') : i > L => log'[i] = TurnBatch[i - L]
  BY <1>1, <1>2, <1>3 DEF Appends
<1>4. \A i \in DOMAIN log' : i \notin DOMAIN log =>
          /\ i > Len(log)
          /\ log'[i] \in {Answer(turn), Completed(turn)}
                           \cup (IF route.hand THEN {Delivered(r)} ELSE {})
          /\ i = Len(log) + 1 => log'[i] = Answer(turn)
  <2> SUFFICES ASSUME NEW i \in DOMAIN log', i \notin DOMAIN log
               PROVE  /\ i > Len(log)
                      /\ log'[i] \in {Answer(turn), Completed(turn)}
                                       \cup (IF route.hand THEN {Delivered(r)} ELSE {})
                      /\ i = Len(log) + 1 => log'[i] = Answer(turn)
    OBVIOUS
  <2>1. i \in 1 .. Len(log') /\ i \notin 1 .. L
    BY <1>3
  <2> HIDE DEF L, N
  <2>2. i > L /\ i <= L + N /\ i \in Nat
    BY <1>0, <2>1
  <2>3. \/ i = L + 1
        \/ i = L + 2
        \/ i = L + 3 /\ route.hand
    BY <1>0, <2>2
  <2>4. log'[i] = TurnBatch[i - L]
    BY <1>0, <2>1, <2>2
  <2>5. i - L \in {1, 2, 3} /\ (i - L = 3 => route.hand) /\ (i - L = 1 <=> i = L + 1)
    BY <1>0, <2>3
  <2>6. i > Len(log) /\ (i = Len(log) + 1 <=> i = L + 1)
    BY <2>2 DEF L
  <2> QED
    BY <1>1, <2>4, <2>5, <2>6
<1>5. \A n : /\ Switch(n) \notin {Answer(turn), Completed(turn), Delivered(r)}
             /\ User(n) \notin {Answer(turn), Completed(turn), Delivered(r)}
             /\ Submitted(n) \notin {Answer(turn), Completed(turn), Delivered(r)}
             /\ Delivered(n) \notin {Answer(turn), Completed(turn)}
             /\ (Delivered(n) = Delivered(r) <=> n = r)
             /\ Completed(n) \notin {Answer(turn), Delivered(r)}
             /\ (Completed(n) = Completed(turn) <=> n = turn)
  BY DEF Switch, User, Submitted, Delivered, Completed, Answer
<1>6. \A e : Logged(e) => Logged(e)'
  BY <1>3 DEF Logged
<1>7. \A e : Logged(e)' => \/ Logged(e) \/ e \in {Answer(turn), Completed(turn)}
                           \/ route.hand /\ e = Delivered(r)
  BY <1>3, <1>4 DEF Logged
<1>8. Finished \subseteq Finished' /\ Finished' \subseteq Finished \cup {turn}
  BY <1>5, <1>6, <1>7 DEF Finished
<1>9. Switched' = Switched /\ History' = History /\ Handed' = Handed
  BY <1>5, <1>6, <1>7 DEF Switched, History, Handed
<1>10. /\ Acked \subseteq Acked'
       /\ Acked' \subseteq IF route.hand THEN Acked \cup {r} ELSE Acked
  BY <1>5, <1>6, <1>7 DEF Acked
<1>11. ASSUME Record(TurnBatch, m), route.hand
       PROVE  r \in Acked'
  <2> HIDE DEF L, N
  <2>1. L + 2 \in 1 .. Len(log') /\ L + 2 > L /\ L + 2 - L = 2
    BY <1>0, <1>11
  <2>2. log'[L + 2] = TurnBatch[2]
    BY <1>0, <2>1
  <2>3. log'[L + 2] = Delivered(r)
    BY <1>1, <1>11, <2>2
  <2> QED
    BY <1>3, <2>1, <2>3 DEF Acked, Logged
<1>12. \A i \in DOMAIN log : log[i].kind = "switch" => log[i].nat \in DOMAIN natives
  BY DEF NamesExist
<1>13. ASSUME NEW p, NEW i \in DOMAIN log
       PROVE  SwitchTo(p, i)' <=> SwitchTo(p, i)
  BY <1>3, <1>12 DEF SwitchTo, Steady
<1>14. ASSUME NEW p, NEW i \in DOMAIN log', i \notin DOMAIN log
       PROVE  ~SwitchTo(p, i)'
  BY <1>4, <1>14 DEF SwitchTo, Answer, Completed, Delivered
<1>15. ASSUME NEW p, NEW n \in Natives
       PROVE  /\ PendingAt(p, n)' => PendingAt(p, n)
              /\ PendingAt(p, n) => PendingAt(p, n)' \/ (n = r /\ n \in Acked')
  <2>1. ASSUME NEW i \in DOMAIN log, log[i] = Switch(n)
        PROVE  natives'[n].prov = natives[n].prov
    BY <1>12, <2>1 DEF Switch, Steady
  <2>2. PendingAt(p, n)' => PendingAt(p, n)
    BY <1>3, <1>4, <1>5, <1>13, <2>1 DEF PendingAt
  <2>3. ASSUME PendingAt(p, n), ~(n = r /\ n \in Acked')
        PROVE  PendingAt(p, n)'
    <3>1. PICK i \in DOMAIN log :
              /\ log[i] = Switch(n) /\ natives[n].prov = p
              /\ \A j \in DOMAIN log : j > i => ~SwitchTo(p, j) /\ log[j] # Delivered(n)
      BY <2>3 DEF PendingAt
    <3>2. ASSUME NEW j \in DOMAIN log', j \notin DOMAIN log
          PROVE  log'[j] # Delivered(n)
      BY <1>4, <1>5, <2>3, <3>2 DEF Acked, Logged
    <3>3. i \in DOMAIN log' /\ log'[i] = Switch(n) /\ natives'[n].prov = p
      BY <1>3, <2>1, <3>1
    <3>4. \A j \in DOMAIN log' : j > i => ~SwitchTo(p, j)' /\ log'[j] # Delivered(n)
      BY <1>3, <1>13, <1>14, <3>1, <3>2
    <3> QED
      BY <3>3, <3>4 DEF PendingAt
  <2> QED
    BY <2>2, <2>3
<1>16. ASSUME NEW n \in Natives, FreshAck(n)'
       PROVE  n = r \/ (FreshAck(n) /\ Finished' = Finished)
  <2>1. PICK i \in DOMAIN log' :
            /\ log'[i] = Delivered(n)
            /\ \A j \in DOMAIN log' : j > i => log'[j].kind = "completed"
    BY <1>16 DEF FreshAck
  <2>2. CASE i \notin DOMAIN log
    <3>1. log'[i] \in {Answer(turn), Completed(turn), Delivered(r)}
      BY <1>4, <2>1, <2>2
    <3> QED
      BY <1>5, <2>1, <3>1
  <2>3. CASE i \in DOMAIN log
    <3>1. Len(log') = Len(log)
      <4>1. CASE Len(log') > Len(log)
        <5>1. Len(log) + 1 \in DOMAIN log' /\ Len(log) + 1 \notin DOMAIN log /\ Len(log) + 1 > i
          BY <1>3, <2>3, <4>1
        <5>2. log'[Len(log) + 1].kind = "answer"
          BY <1>4, <5>1 DEF Answer
        <5> QED
          BY <2>1, <5>1, <5>2
      <4> QED
        BY <1>0, <4>1
    <3>2. log' = log
      BY <1>3, <3>1, SeqEqual DEF TypeOK
    <3> QED
      BY <2>1, <2>3, <3>2 DEF FreshAck, Finished, Logged
  <2> QED
    BY <2>2, <2>3
<1>17. ASSUME NEW n \in Natives
       PROVE  /\ AheadAck(n)' => AheadAck(n) \/ n = r
              /\ AheadSwitch(n)' => AheadSwitch(n)
  <2>1. \A i \in DOMAIN log' : i > manifest'.seq => i > manifest.seq
    BY <1>3 DEF Steady, TypeOK
  <2> QED
    BY <1>3, <1>4, <1>5, <2>1 DEF AheadAck, AheadSwitch
<1> QED
  BY <1>3, <1>4, <1>8, <1>9, <1>10, <1>11, <1>15, <1>16, <1>17
-----------------------------------------------------------------------------
(* The sets that the records of the state are taken from.                   *)
Manifests == [prov : Providers, nat : Natives, seq : Nat]
Sessions  == [prov : Providers, known : SUBSET Turns]
Routes    == [nat : 0 .. MaxNatives, hand : BOOLEAN, ctx : SUBSET Turns, warned : BOOLEAN]
Cands     == [nat : 0 .. MaxNatives, ctx : SUBSET Turns, warned : BOOLEAN, seen : Nat]

(* What the actions assign to the route and to the candidate.               *)
LEMMA NothingIs ==
    /\ NoCand \in Cands /\ NoCand.nat = 0
    /\ NoRoute \in Routes /\ NoRoute.nat = 0
BY HandoffAssumption DEF NoCand, NoRoute, Cands, Routes

(* A resumed route owes no history.                                         *)
LEMMA ResumedIs ==
    ASSUME NEW k \in Natives, NEW r, r = [NoRoute EXCEPT !.nat = k]
    PROVE  /\ r \in Routes /\ r.nat = k /\ ~r.hand /\ r.ctx = {}
           /\ r # NoRoute
<1>1. r = [nat |-> k, hand |-> FALSE, ctx |-> {}, warned |-> FALSE]
  BY DEF NoRoute
<1>2. k \in 0 .. MaxNatives /\ k # 0
  BY HandoffAssumption DEF Natives
<1>3. NoRoute.nat = 0 /\ r.nat = k
  BY <1>1 DEF NoRoute
<1>4. r # NoRoute
  BY <1>2, <1>3
<1>7. \A x \in 0 .. MaxNatives :
          [nat |-> x, hand |-> FALSE, ctx |-> {}, warned |-> FALSE] \in Routes
  BY DEF Routes
<1>5. r \in Routes
  BY Zenon, <1>1, <1>2, <1>7
<1>8. r.nat = k /\ r.ctx = {}
  BY <1>1
<1>6. ~r.hand
  BY <1>1
<1> QED
  BY <1>4, <1>5, <1>6, <1>8

(* Nor does one that was told so.                                           *)
LEMMA ClearedIs ==
    ASSUME NEW q \in Routes, NEW r,
           r = [q EXCEPT !.hand = FALSE, !.ctx = {}, !.warned = FALSE]
    PROVE  r \in Routes /\ r.nat = q.nat /\ ~r.hand /\ r.ctx = {}
<1>1. r = [nat |-> q.nat, hand |-> FALSE, ctx |-> {}, warned |-> FALSE]
  BY DEF Routes
<1> QED
  BY <1>1 DEF Routes

(* A place of a sequence holds one of its elements.                         *)
LEMMA PlaceTyped ==
    ASSUME NEW S, NEW s \in Seq(S), NEW n \in DOMAIN s
    PROVE  s[n] \in S
OBVIOUS

(* So a native session is a session.                                        *)
LEMMA NativesTyped ==
    ASSUME TypeOK, NEW n \in DOMAIN natives
    PROVE  /\ natives[n] \in Sessions
           /\ natives[n].prov \in Providers /\ natives[n].known \subseteq Turns
<1> HIDE DEF Sessions
<1>1. natives \in Seq(Sessions)
  BY DEF TypeOK, Sessions
<1>2. natives[n] \in Sessions
  BY <1>1, PlaceTyped
<1> QED
  BY <1>2 DEF Sessions

(* The type of the state, with the sets by name.                            *)
LEMMA TypeIs ==
    TypeOK <=> /\ log \in Seq(Events)
               /\ manifest \in Manifests
               /\ manifest.nat <= Len(natives)
               /\ manifest.seq <= Len(log)
               /\ natives \in Seq(Sessions)
               /\ Len(natives) \in Natives
               /\ route \in Routes
               /\ route.nat <= Len(natives)
               /\ adopted \in BOOLEAN
               /\ step \in {"idle", "prepare", "recover", "close_old",
                            "submit", "call", "running", "refresh"}
               /\ cand \in Cands
               /\ cand.nat <= Len(natives)
               /\ turn \in 0 .. MaxTurns
BY Zenon DEF TypeOK, Manifests, Sessions, Routes, Cands, Natives

(* The same of the next state.                                              *)
LEMMA TypeNextIs ==
    TypeOK' <=> /\ log' \in Seq(Events)
                /\ manifest' \in Manifests
                /\ manifest'.nat <= Len(natives')
                /\ manifest'.seq <= Len(log')
                /\ natives' \in Seq(Sessions)
                /\ Len(natives') \in Natives
                /\ route' \in Routes
                /\ route'.nat <= Len(natives')
                /\ adopted' \in BOOLEAN
                /\ step' \in {"idle", "prepare", "recover", "close_old",
                              "submit", "call", "running", "refresh"}
                /\ cand' \in Cands
                /\ cand'.nat <= Len(natives')
                /\ turn' \in 0 .. MaxTurns
BY Zenon DEF TypeOK, Manifests, Sessions, Routes, Cands, Natives
-----------------------------------------------------------------------------
(* The manifest that reconcile leaves has its type, and knows all the log.  *)
LEMMA ReconciledType ==
    ASSUME TypeOK, NamesExist, Reconcilable
    PROVE  /\ Reconciled \in Manifests /\ Reconciled.nat <= Len(natives)
           /\ Reconciled.seq = Len(log)
<1>1. /\ Len(log) \in Nat /\ Len(natives) \in Nat /\ DOMAIN natives = 1 .. Len(natives)
      /\ \A n \in DOMAIN natives : natives[n].prov \in Providers
      /\ manifest \in Manifests /\ manifest.nat <= Len(natives)
      /\ manifest.seq <= Len(log)
  <2>1. \A n \in DOMAIN natives : natives[n].prov \in Providers
    BY NativesTyped
  <2> QED
    BY <2>1 DEF TypeOK, Manifests, Natives
<1>2. Ahead = {} => manifest.seq = Len(log)
  <2>1. DOMAIN log = 1 .. Len(log)
    BY DEF TypeOK
  <2>2. ASSUME manifest.seq < Len(log)
        PROVE  Ahead # {}
    <3>1. Len(log) \in Ahead
      BY <1>1, <2>1, <2>2 DEF Ahead, Manifests
    <3> QED
      BY <3>1
  <2> QED
    BY <1>1, <2>2 DEF Manifests
<1> QED
  BY <1>1, <1>2, ReconciledIs DEF Manifests

(* A switch is prepared: one more native session, which knows nothing.      *)
LEMMA NewNative ==
    ASSUME TypeOK, NEW p \in Providers, NEW m \in Manifests, m.nat <= Len(natives),
           m.seq \in manifest.seq .. Len(log), Prepare(p, m)
    PROVE  /\ TypeOK' /\ Steady
           /\ Len(natives') = Len(natives) + 1
           /\ \A n \in DOMAIN natives : natives'[n] = natives[n]
           /\ natives'[Len(natives) + 1] = [prov |-> p, known |-> {}]
           /\ cand' = [nat |-> Len(natives) + 1, ctx |-> History,
                       warned |-> Unresolved # {}, seen |-> Len(log)]
<1> DEFINE x == [prov |-> p, known |-> {}]
           N == [prov : Providers, known : SUBSET Turns]
<1>1. natives \in Seq(N) /\ x \in N /\ Len(natives) \in Nat /\ Len(natives) < MaxNatives
  BY DEF TypeOK, Prepare
<1>2. natives' = Append(natives, x) /\ log' = log /\ manifest' = m
  BY DEF Prepare
<1>3. /\ natives' \in Seq(N) /\ Len(natives') = Len(natives) + 1
      /\ \A n \in DOMAIN natives : natives'[n] = natives[n]
      /\ natives'[Len(natives) + 1] = x
  BY <1>1, <1>2
<1>4. cand' = [nat |-> Len(natives) + 1, ctx |-> History,
               warned |-> Unresolved # {}, seen |-> Len(log)]
  BY <1>3 DEF Prepare
<1>5. Len(log) \in Nat /\ History \subseteq Turns
  BY DEF TypeOK, History
<1>6. /\ cand' \in [nat : 0 .. MaxNatives, ctx : SUBSET Turns, warned : BOOLEAN, seen : Nat]
      /\ cand'.nat <= Len(natives')
  BY <1>1, <1>3, <1>4, <1>5, HandoffAssumption
<1>7. TypeOK'
  BY <1>1, <1>2, <1>3, <1>6, HandoffAssumption DEF TypeOK, Prepare, Manifests, Natives
<1>8. Steady
  BY <1>1, <1>2, <1>3 DEF Steady, TypeOK, Manifests
<1> QED
  BY <1>3, <1>4, <1>7, <1>8

(* The values stay in their types, and the native sessions what they are.   *)
LEMMA TypesKept ==
    ASSUME TypeOK, NamesExist, Asked, Prepared, [Next]_vars
    PROVE  TypeOK' /\ NamesExist' /\ Steady
<1> DEFINE Kept == TypeOK' /\ NamesExist' /\ Steady
<1>1. /\ Len(log) \in Nat /\ DOMAIN log = 1 .. Len(log) /\ log \in Seq(Events)
      /\ Len(natives) \in Nat /\ DOMAIN natives = 1 .. Len(natives)
      /\ manifest \in Manifests /\ manifest.nat <= Len(natives)
      /\ manifest.seq <= Len(log)
      /\ History \subseteq Turns
  BY DEF TypeOK, Manifests, Natives, History
<1>2. ASSUME log' = log, natives' = natives, TypeOK', route'.nat = 0 => route' = NoRoute,
             manifest'.seq >= manifest.seq
      PROVE  Kept
  BY <1>1, <1>2 DEF NamesExist, Steady, TypeOK, Manifests
<1>3. ASSUME NEW p \in Providers, BeginSwitch(p) PROVE Kept
  <2>1. /\ Reconciled \in Manifests /\ Reconciled.nat <= Len(natives)
        /\ Reconciled.seq \in manifest.seq .. Len(log)
    BY <1>1, <1>3, ReconciledType DEF BeginSwitch, Manifests
  <2>2. TypeOK' /\ Steady /\ DOMAIN natives \subseteq DOMAIN natives'
    BY <1>3, <2>1, NewNative DEF BeginSwitch, Steady
  <2> QED
    BY <1>3, <2>2 DEF BeginSwitch, Prepare, NamesExist
<1>4. ASSUME SwitchRefused PROVE Kept
  <2>1. TypeOK'
    BY <1>1, <1>4, ReconciledType DEF SwitchRefused, TypeOK, Manifests, Natives
  <2> QED
    BY <1>1, <1>2, <1>4, <2>1, ReconciledType DEF SwitchRefused, NamesExist
<1>5. ASSUME OpenNative PROVE Kept
  <2>0. manifest.nat \in Natives
    BY <1>1 DEF Manifests
  <2>2. route' \in Routes /\ route'.nat = manifest.nat /\ route'.nat # 0
    BY <1>5, <2>0, ResumedIs DEF OpenNative, ResumeNative, Natives
  <2>1. TypeOK'
    BY <1>1, <1>5, <2>2, TypeIs, TypeNextIs DEF OpenNative, ResumeNative
  <2> QED
    BY <1>1, <1>2, <1>5, <2>1, <2>2 DEF OpenNative, ResumeNative, NamesExist, Manifests
<1>6. ASSUME OpenPending PROVE Kept
  <2>1. /\ Reconciled \in Manifests /\ Reconciled.nat <= Len(natives)
        /\ Reconciled.seq = Len(log) /\ Reconciled.seq \in manifest.seq .. Len(log)
        /\ Reconciled.prov \in Providers /\ Reconciled.nat \in Natives
    BY <1>1, <1>6, ReconciledType DEF OpenPending, Manifests
  <2>2. CASE Prepare(Reconciled.prov, Reconciled)
    <3>1. TypeOK' /\ Steady /\ DOMAIN natives \subseteq DOMAIN natives'
      BY <2>1, <2>2, NewNative DEF Steady
    <3> QED
      BY <2>2, <3>1 DEF Prepare, NamesExist
  <2>3. CASE ResumeNative(Reconciled)
    <3>2. route' \in Routes /\ route'.nat = Reconciled.nat /\ route'.nat # 0
      BY <2>1, <2>3, ResumedIs DEF ResumeNative, Natives
    <3>1. TypeOK'
      BY <1>1, <2>1, <2>3, <3>2, TypeIs, TypeNextIs DEF ResumeNative
    <3> QED
      BY <1>1, <1>2, <2>1, <2>3, <3>1, <3>2 DEF ResumeNative, NamesExist, Manifests
  <2> QED
    BY <1>6, <2>2, <2>3 DEF OpenPending
<1>7. ASSUME CandidateFails PROVE Kept
  <2>1. TypeOK'
    BY <1>1, <1>7, NothingIs, TypeIs, TypeNextIs DEF CandidateFails, Natives
  <2> QED
    BY <1>1, <1>2, <1>7, <2>1 DEF CandidateFails, NamesExist, Manifests
<1>8. ASSUME CommitSwitch PROVE Kept
  <2>1. cand.nat = Len(natives) /\ cand.nat \in Natives /\ Switch(cand.nat) \in Events
    BY <1>8 DEF CommitSwitch, Prepared, TypeOK, Natives, Events
  <2>2. Added(Switch(cand.nat)) /\ DOMAIN log' = 1 .. Len(log) + 1
    BY <1>8, <2>1, OneRecorded DEF CommitSwitch, Added
  <2>3. manifest' = [prov |-> natives[cand.nat].prov, nat |-> cand.nat, seq |-> Len(log')]
    BY <1>1, <1>8 DEF CommitSwitch, Record, Manifests
  <2>4. natives[cand.nat].prov \in Providers
    BY <1>1, <2>1, NativesTyped DEF Natives
  <2>5. manifest' \in Manifests /\ manifest'.nat <= Len(natives) /\ manifest'.seq = Len(log')
    BY <1>1, <2>1, <2>2, <2>3, <2>4 DEF Manifests, Added
  <2>9. route' \in Routes /\ route'.nat <= Len(natives)
    BY <1>1, <1>8, <2>1 DEF CommitSwitch, TypeOK, Routes, Natives
  <2>6. TypeOK'
    BY <1>1, <1>8, <2>2, <2>5, <2>9, TypeIs, TypeNextIs DEF CommitSwitch, Added
  <2>7. Steady
    BY <1>1, <1>8, <2>2, <2>5 DEF CommitSwitch, Steady, Manifests, Added
  <2>8. \A i \in DOMAIN log' : log'[i].kind \in {"switch", "submitted", "delivered"}
                                   => log'[i].nat \in DOMAIN natives
    BY <1>1, <2>1, <2>2 DEF NamesExist, Added, Natives, Switch
  <2> QED
    BY <1>8, <2>1, <2>6, <2>7, <2>8 DEF CommitSwitch, NamesExist, Natives
<1>9. ASSUME CommitFails PROVE Kept
  <2>1. cand.nat = Len(natives) /\ cand.nat \in Natives /\ Switch(cand.nat) \in Events
    BY <1>9 DEF CommitFails, Prepared, TypeOK, Natives, Events
  <2>2. log' = log \/ (Added(Switch(cand.nat)) /\ DOMAIN log' = 1 .. Len(log) + 1)
    BY <1>9, <2>1, OneRecorded DEF CommitFails, Added
  <2>3. log' \in Seq(Events) /\ Len(log) <= Len(log') /\ Len(log') \in Nat
    BY <1>1, <2>2 DEF Added
  <2>4. TypeOK'
    BY <1>1, <1>9, <2>3 DEF CommitFails, RecordFails, TypeOK, Manifests, Natives
  <2>5. \A i \in DOMAIN log' : log'[i].kind \in {"switch", "submitted", "delivered"}
                                   => log'[i].nat \in DOMAIN natives
    BY <1>1, <2>1, <2>2 DEF NamesExist, Added, Natives, Switch
  <2>6. Steady
    BY <1>1, <1>9 DEF CommitFails, RecordFails, Steady, Manifests
  <2> QED
    BY <1>9, <2>4, <2>5, <2>6 DEF CommitFails, NamesExist
<1>10. ASSUME Recover PROVE Kept
  <2>1. manifest' = manifest \/ (Reconcilable /\ manifest' = Reconciled)
    BY <1>10 DEF Recover
  <2>2. manifest' \in Manifests /\ manifest'.nat <= Len(natives)
        /\ manifest'.seq \in manifest.seq .. Len(log)
    BY <1>1, <2>1, ReconciledType DEF Manifests
  <2>3. route' = NoRoute \/ route' = route
    BY <1>10 DEF Recover
  <2>4. TypeOK'
    BY <1>1, <1>10, <2>2, <2>3, NothingIs, TypeIs, TypeNextIs DEF Recover, Natives
  <2> QED
    BY <1>1, <1>2, <1>10, <2>2, <2>3, <2>4 DEF Recover, NamesExist, Manifests
<1>11. ASSUME RecoverAborted PROVE Kept
  <2>1. TypeOK'
    BY <1>1, <1>11, NothingIs, TypeIs, TypeNextIs DEF RecoverAborted, Natives
  <2> QED
    BY <1>1, <1>2, <1>11, <2>1 DEF RecoverAborted, NamesExist, Manifests
<1>12. ASSUME FinishSwitch PROVE Kept
  <2>2. cand' \in Cands /\ cand'.nat <= Len(natives)
    BY <1>1, <1>12, NothingIs DEF FinishSwitch
  <2>3. adopted' \in BOOLEAN
    BY <1>12 DEF FinishSwitch, TypeOK
  <2>1. TypeOK'
    BY <1>12, <2>2, <2>3, TypeIs, TypeNextIs DEF FinishSwitch
  <2> QED
    BY <1>1, <1>2, <1>12, <2>1 DEF FinishSwitch, NamesExist, Manifests
<1>13. ASSUME NEW e \in Events, NEW m, log' = log \/ Added(e),
              manifest' \in [prov : Providers, nat : Natives, seq : {manifest.seq, Len(log')}],
              manifest'.nat <= Len(natives),
              e.kind \in {"switch", "submitted", "delivered"} => e.nat \in DOMAIN natives,
              natives' = natives, route' = route, adopted' = adopted, cand' = cand,
              step' \in {"idle", "prepare", "recover", "close_old",
                         "submit", "call", "running", "refresh"},
              turn' \in 0 .. MaxTurns
       PROVE  Kept
  <2>1. /\ log' \in Seq(Events) /\ Len(log) <= Len(log') /\ Len(log') \in Nat
        /\ log' = log \/ DOMAIN log' = 1 .. Len(log) + 1
    BY <1>1, <1>13 DEF Added
  <2>2. /\ manifest' \in Manifests /\ manifest'.seq >= manifest.seq
        /\ manifest'.seq <= Len(log')
    BY <1>1, <1>13, <2>1 DEF Manifests
  <2>3. TypeOK'
    BY <1>1, <1>13, <2>1, <2>2 DEF TypeOK, Manifests, Natives
  <2>4. \A i \in DOMAIN log' : log'[i].kind \in {"switch", "submitted", "delivered"}
                                   => log'[i].nat \in DOMAIN natives
    BY <1>1, <1>13, <2>1 DEF NamesExist, Added
  <2>5. Steady
    BY <1>1, <1>13, <2>2 DEF Steady, Manifests
  <2> QED
    BY <1>13, <2>3, <2>4, <2>5 DEF NamesExist
<1>14. ASSUME BeginTurn PROVE Kept
  <2>1. turn + 1 \in Turns /\ turn' = turn + 1 /\ User(turn') \in Events
    BY <1>14, HandoffAssumption DEF BeginTurn, TypeOK, Turns, Events
  <2>2. log' = log \/ Added(User(turn'))
    BY <1>14, <2>1, OneRecorded DEF BeginTurn
  <2>3. manifest' \in [prov : Providers, nat : Natives, seq : {manifest.seq, Len(log')}]
        /\ manifest'.nat = manifest.nat
    BY <1>1, <1>14 DEF BeginTurn, Record, RecordFails, Manifests
  <2>4. User(turn').kind = "user"
    BY DEF User
  <2> QED
    BY <1>1, <1>13, <1>14, <2>1, <2>2, <2>3, <2>4, HandoffAssumption DEF BeginTurn, Turns
<1>15. ASSUME Submit PROVE Kept
  <2>1. route.nat \in Natives /\ route.nat <= Len(natives) /\ turn \in 0 .. MaxTurns
    BY <1>15 DEF Submit, Asked, InTurn, TypeOK, Natives
  <2>2. Submitted(route.nat) \in Events /\ Submitted(route.nat).nat \in DOMAIN natives
    BY <1>1, <2>1 DEF Events, Natives, Submitted
  <2>3. log' = log \/ Added(Submitted(route.nat))
    BY <1>15, <2>2, OneRecorded DEF Submit
  <2>4. manifest' \in [prov : Providers, nat : Natives, seq : {manifest.seq, Len(log')}]
        /\ manifest'.nat = manifest.nat
    BY <1>1, <1>15 DEF Submit, Record, RecordFails, Manifests
  <2> QED
    BY <1>1, <1>13, <1>15, <2>1, <2>2, <2>3, <2>4 DEF Submit
<1>16. ASSUME ProviderReceives PROVE Kept
  <2>1. route.nat \in DOMAIN natives /\ turn \in Turns /\ route.ctx \subseteq Turns
    BY <1>1, <1>16 DEF ProviderReceives, Asked, InTurn, TypeOK
  <2>2. natives[route.nat] \in Sessions
    BY <2>1, NativesTyped
  <2>3. natives' = [natives EXCEPT ![route.nat] =
                        [natives[route.nat] EXCEPT !.known = @ \cup route.ctx \cup {turn}]]
    BY <1>16 DEF ProviderReceives
  <2>4. /\ [natives[route.nat] EXCEPT !.known = @ \cup route.ctx \cup {turn}] \in Sessions
        /\ [natives[route.nat] EXCEPT !.known = @ \cup route.ctx \cup {turn}].prov
               = natives[route.nat].prov
    BY <2>1, <2>2 DEF Sessions
  <2> DEFINE x == [natives[route.nat] EXCEPT !.known = @ \cup route.ctx \cup {turn}]
  <2>6. x \in Sessions /\ x.prov = natives[route.nat].prov
        /\ natives' = [natives EXCEPT ![route.nat] = x]
    BY <2>3, <2>4
  <2>7. natives \in Seq(Sessions)
    BY TypeIs
  <2> HIDE DEF x, Sessions
  <2>8. /\ natives' \in Seq(Sessions)
        /\ Len(natives') = Len(natives) /\ DOMAIN natives' = DOMAIN natives
        /\ \A n \in DOMAIN natives : natives'[n].prov = natives[n].prov
    BY <2>1, <2>6, <2>7, ExceptSeq
  <2>5. TypeOK'
    BY <1>16, <2>8, TypeIs, TypeNextIs DEF ProviderReceives
  <2> QED
    BY <1>1, <1>16, <2>8, <2>5 DEF ProviderReceives, NamesExist, Steady, Manifests
<1>17. ASSUME TurnRaises PROVE Kept
  <2>1. TypeOK'
    BY <1>17 DEF TurnRaises, TypeOK
  <2> QED
    BY <1>1, <1>2, <1>17, <2>1 DEF TurnRaises, NamesExist, Manifests
<1>18. ASSUME TurnCompletes PROVE Kept
  <2>1. route.nat \in Natives /\ route.nat <= Len(natives) /\ turn \in Turns
    BY <1>1, <1>18 DEF TurnCompletes, TurnEnds, Asked, InTurn, TypeOK, Natives
  <2>2. TurnEnds(TurnBatch)
    BY <1>18 DEF TurnCompletes, TurnBatch
  <2>3. /\ manifest' = manifest \/ manifest' = [prov |-> manifest.prov, nat |-> route.nat,
                                                seq |-> Len(log')]
        /\ manifest' = manifest \/ manifest'.seq = Len(log')
    BY <1>1, <2>2 DEF TurnEnds, Record, RecordFails, Manifests
  <2>4. Appends(TurnBatch)
    BY <2>1, <2>2, TurnBatchIs, Recorded DEF TurnEnds
  <2>5. log' \in Seq(Events) /\ Len(log) <= Len(log') /\ Len(log') \in Nat
    <3>1. Len(TurnBatch) \in Nat
      BY <2>1, TurnBatchIs
    <3> QED
      BY <1>1, <2>4, <3>1 DEF Appends
  <2>6. manifest' \in Manifests /\ manifest'.nat <= Len(natives)
        /\ manifest'.seq >= manifest.seq /\ manifest'.seq <= Len(log')
    BY <1>1, <2>1, <2>3, <2>5 DEF Manifests
  <2>7. Steady
    BY <1>1, <2>2, <2>6 DEF TurnEnds, Steady, Manifests
  <2>8. TypeOK'
    BY <1>1, <2>2, <2>5, <2>6 DEF TurnEnds, TypeOK, Manifests, Natives
  <2>9. \A i \in DOMAIN log' : log'[i].kind \in {"switch", "submitted", "delivered"}
                                   => log'[i].nat \in DOMAIN natives
    <3>1. \A i \in DOMAIN log' : \/ (i \in DOMAIN log /\ log'[i] = log[i])
                                 \/ log'[i] \in {Answer(turn), Delivered(route.nat),
                                                 Completed(turn)}
      BY <2>1, <2>2, <2>7, TurnRecorded DEF TurnEnds
    <3> QED
      BY <1>1, <2>1, <3>1 DEF NamesExist, Answer, Delivered, Completed, Natives
  <2> QED
    BY <2>2, <2>7, <2>8, <2>9 DEF TurnEnds, NamesExist
<1>19. ASSUME TurnFails PROVE Kept
  <2>1. route.nat \in Natives /\ route.nat <= Len(natives) /\ turn \in Turns
    BY <1>1, <1>19 DEF TurnFails, TurnEnds, Asked, InTurn, TypeOK, Natives
  <2>2. Failed(turn) \in Events /\ Failed(turn).kind = "failed"
    BY <2>1 DEF Events, Failed
  <2>3. log' = log \/ Added(Failed(turn))
    BY <1>19, <2>2, OneRecorded DEF TurnFails, TurnEnds
  <2>4. manifest' \in [prov : Providers, nat : Natives, seq : {manifest.seq, Len(log')}]
        /\ manifest'.nat \in {manifest.nat, route.nat}
    BY <1>1, <1>19, <2>1 DEF TurnFails, TurnEnds, Record, RecordFails, Manifests
  <2> QED
    BY <1>1, <1>13, <1>19, <2>1, <2>2, <2>3, <2>4, HandoffAssumption
       DEF TurnFails, TurnEnds, Turns
<1>20. ASSUME RefreshTurn PROVE Kept
  <2>1. route.nat # 0
    BY <1>20 DEF RefreshTurn, Asked, InTurn
  <2>3. route' \in Routes /\ route'.nat = route.nat
    <3>1. route \in Routes
      BY TypeIs
    <3>2. CASE route' = route
      BY <3>1, <3>2
    <3>3. CASE route' = [route EXCEPT !.hand = FALSE, !.ctx = {}, !.warned = FALSE]
      BY <3>1, <3>3, ClearedIs
    <3> QED
      BY <1>20, <3>2, <3>3 DEF RefreshTurn
  <2>4. manifest' \in Manifests /\ manifest'.nat = manifest.nat
        /\ manifest'.seq \in manifest.seq .. Len(log)
    BY <1>1, <1>20 DEF RefreshTurn, Manifests
  <2>2. TypeOK'
    BY <1>1, <1>20, <2>3, <2>4, TypeIs, TypeNextIs DEF RefreshTurn
  <2> QED
    BY <1>1, <1>2, <1>20, <2>1, <2>2, <2>3, <2>4 DEF RefreshTurn
<1>21. ASSUME Refresh PROVE Kept
  <2>1. TypeOK'
    BY <1>1, <1>21, SMTT(30) DEF Refresh, TypeOK, Manifests
  <2> QED
    BY <1>1, <1>2, <1>21, <2>1 DEF Refresh, NamesExist, Manifests
<1>22. ASSUME AppendNote PROVE Kept
  <2>1. Note \in Events /\ Note.kind = "note" /\ turn \in 0 .. MaxTurns
    BY DEF Events, Note, TypeOK
  <2>2. log' = log \/ Added(Note)
    BY <1>22, <2>1, OneRecorded DEF AppendNote
  <2>3. manifest' \in [prov : Providers, nat : Natives, seq : {manifest.seq, Len(log')}]
        /\ manifest'.nat = manifest.nat
    BY <1>1, <1>22 DEF AppendNote, Record, Manifests
  <2> QED
    BY <1>1, <1>13, <1>22, <2>1, <2>2, <2>3 DEF AppendNote
<1>23. ASSUME Restart PROVE Kept
  <2>2. /\ cand' \in Cands /\ cand'.nat <= Len(natives)
        /\ route' \in Routes /\ route'.nat <= Len(natives)
    BY <1>1, <1>23, NothingIs DEF Restart
  <2>3. adopted' \in BOOLEAN
    BY <1>23 DEF Restart
  <2>1. TypeOK'
    BY <1>23, <2>2, <2>3, TypeIs, TypeNextIs DEF Restart
  <2> QED
    BY <1>1, <1>2, <1>23, <2>1 DEF Restart, Manifests
<1>24. ASSUME UNCHANGED vars PROVE Kept
  <2>1. TypeOK'
    BY <1>24 DEF vars, TypeOK
  <2> QED
    BY <1>1, <1>2, <1>24, <2>1 DEF vars, NamesExist, Manifests
<1> QED
  BY <1>3, <1>4, <1>5, <1>6, <1>7, <1>8, <1>9, <1>10, <1>11, <1>12, <1>14, <1>15, <1>16,
     <1>17, <1>18, <1>19, <1>20, <1>21, <1>22, <1>23, <1>24 DEF Next
-----------------------------------------------------------------------------
(* What the steps do to what the invariant relates.  Nothing: the manifest  *)
(* names whom it named, the route stays or is lost...                       *)
Still ==
    /\ Quiet /\ natives' = natives /\ route' \in {route, NoRoute}
    /\ manifest'.prov = manifest.prov /\ manifest'.nat = manifest.nat

(* ...reconcile repairs the manifest, for a new native session or for none; *)
Learns ==
    /\ Quiet /\ log' = log /\ Reconcilable /\ manifest' = Reconciled
    /\ route' \in {route, NoRoute}
    /\ DOMAIN natives \subseteq DOMAIN natives'
    /\ \A n \in DOMAIN natives : natives'[n] = natives[n]
    /\ \A n \in DOMAIN natives' : n \notin DOMAIN natives => natives'[n].known = {}

(* ...the native session that the manifest names is resumed;                *)
Resumes ==
    /\ Quiet /\ log' = log /\ natives' = natives
    /\ manifest' = manifest \/ (Reconcilable /\ manifest' = Reconciled)
    /\ ~Owing(manifest'.prov)
    /\ route' = [NoRoute EXCEPT !.nat = manifest'.nat]

(* ...the switch to the candidate is recorded, and taken or not;            *)
Switches ==
    /\ step = "prepare" /\ Unchanged
    /\ Added(Switch(cand.nat)) /\ natives' = natives
    /\ \/ /\ manifest'.prov = natives[cand.nat].prov /\ manifest'.nat = cand.nat
          /\ manifest'.seq = Len(log')
          /\ route' = [nat |-> cand.nat, hand |-> TRUE, ctx |-> cand.ctx,
                       warned |-> cand.warned]
       \/ /\ route' = route
          /\ manifest'.prov = manifest.prov /\ manifest'.nat = manifest.nat

(* ...a turn ends well, or in failure, and the manifest is told;            *)
Completes ==
    /\ step = "running" /\ natives' = natives /\ route' = route
    /\ \/ /\ Record(TurnBatch, [manifest EXCEPT !.nat = route.nat])
          /\ manifest'.prov = manifest.prov /\ manifest'.nat = route.nat
          /\ manifest'.seq = Len(log')
       \/ RecordFails(TurnBatch) /\ manifest' = manifest

Fails ==
    /\ step = "running" /\ Quiet /\ natives' = natives /\ route' = route
    /\ manifest'.prov = manifest.prov /\ manifest'.nat = route.nat
    /\ manifest'.seq = Len(log')

(* ...the route is told that it owes no history any more;                   *)
Clears ==
    /\ step = "refresh" /\ Quiet /\ natives' = natives
    /\ manifest'.prov = manifest.prov /\ manifest'.nat = manifest.nat
    /\ route' = [route EXCEPT !.hand = FALSE, !.ctx = {}, !.warned = FALSE]

(* ...or the harness gets the request.                                      *)
Receives ==
    /\ step = "call" /\ Quiet /\ route' = route /\ manifest' = manifest
    /\ DOMAIN natives' = DOMAIN natives
    /\ \A n \in DOMAIN natives :
          /\ natives'[n].prov = natives[n].prov
          /\ natives'[n].known = IF n = route.nat
                                 THEN natives[n].known \cup route.ctx \cup {turn}
                                 ELSE natives[n].known

(* Every action is one of these steps.                                      *)
LEMMA StepIs ==
    ASSUME TypeOK, NamesExist, Asked, Prepared, [Next]_vars
    PROVE  Still \/ Learns \/ Resumes \/ Switches \/ Completes \/ Fails \/ Clears \/ Receives
<1> DEFINE Goal == Still \/ Learns \/ Resumes \/ Switches \/ Completes \/ Fails \/ Clears
                   \/ Receives
<1>1. Steady /\ manifest \in Manifests
  BY TypesKept, TypeIs
<1>2. log' = log => Quiet
  BY <1>1, Unlogged
<1>3. ASSUME NEW p \in Providers, Reconcilable, Prepare(p, Reconciled) PROVE Learns
  <2>1. /\ Reconciled \in Manifests /\ Reconciled.nat <= Len(natives)
        /\ Reconciled.seq \in manifest.seq .. Len(log)
    <3>1. manifest.seq \in Nat /\ Len(log) \in Nat /\ manifest.seq <= Len(log)
      BY DEF TypeOK
    <3>2. /\ Reconciled \in Manifests /\ Reconciled.nat <= Len(natives)
          /\ Reconciled.seq = Len(log)
      BY <1>3, ReconciledType
    <3> QED
      BY <3>1, <3>2
  <2>2. /\ Len(natives') = Len(natives) + 1
        /\ \A n \in DOMAIN natives : natives'[n] = natives[n]
        /\ natives'[Len(natives) + 1] = [prov |-> p, known |-> {}]
        /\ TypeOK'
    BY <1>3, <2>1, NewNative
  <2>3. /\ DOMAIN natives = 1 .. Len(natives) /\ Len(natives) \in Nat
        /\ DOMAIN natives' = 1 .. Len(natives) + 1
    BY <2>2 DEF TypeOK
  <2> QED
    BY <1>2, <1>3, <2>2, <2>3 DEF Learns, Prepare
<1>4. ASSUME NEW m, ~Owing(m.prov), m = manifest \/ (Reconcilable /\ m = Reconciled),
             ResumeNative(m)
      PROVE  Resumes
  <2>1. manifest' = m /\ log' = log /\ natives' = natives
    BY <1>4 DEF ResumeNative
  <2> QED
    BY <1>2, <1>4, <2>1 DEF ResumeNative, Resumes
<1>5. ASSUME NEW e \in Events, NEW m, Record(<<e>>, m) \/ RecordFails(<<e>>),
             e.kind \in {"user", "failed", "note", "submitted"}
      PROVE  Quiet
  BY <1>1, <1>2, <1>5, OneRecorded, QuietlyAdded
<1>6. ASSUME NEW p \in Providers, BeginSwitch(p) PROVE Goal
  BY <1>3, <1>6 DEF BeginSwitch
<1>7. ASSUME SwitchRefused PROVE Goal
  BY <1>2, <1>7 DEF SwitchRefused, Learns
<1>8. ASSUME OpenNative PROVE Goal
  <2>1. ~Owing(manifest.prov)
    BY <1>8, PendingIs DEF OpenNative
  <2> QED
    BY <1>4, <1>8, <2>1 DEF OpenNative
<1>9. ASSUME OpenPending PROVE Goal
  <2>1. Reconcilable /\ Reconciled.prov \in Providers
    BY <1>9, ReconciledType DEF OpenPending, Manifests
  <2>2. CASE Pending(Reconciled.prov)
    BY <1>3, <1>9, <2>1, <2>2 DEF OpenPending
  <2>3. CASE ~Pending(Reconciled.prov)
    <3>1. ~Owing(Reconciled.prov)
      BY <2>3, PendingIs
    <3> QED
      BY <1>4, <1>9, <2>1, <2>3, <3>1 DEF OpenPending
  <2> QED
    BY <2>2, <2>3
<1>10. ASSUME CandidateFails PROVE Goal
  BY <1>2, <1>10 DEF CandidateFails, Still
<1>11. /\ step = "prepare" => cand.nat \in Natives /\ Switch(cand.nat) \in Events
  BY DEF Prepared, TypeOK, Natives, Events
<1>12. ASSUME CommitSwitch PROVE Goal
  <2>1. Added(Switch(cand.nat))
    BY <1>11, <1>12, OneRecorded DEF CommitSwitch
  <2>2. /\ manifest'.prov = natives[cand.nat].prov /\ manifest'.nat = cand.nat
        /\ manifest'.seq = Len(log')
    BY <1>1, <1>12 DEF CommitSwitch, Record, Manifests
  <2> QED
    BY <1>12, <2>1, <2>2 DEF CommitSwitch, Switches
<1>13. ASSUME CommitFails PROVE Goal
  <2>1. log' = log \/ Added(Switch(cand.nat))
    BY <1>11, <1>13, OneRecorded DEF CommitFails
  <2> QED
    BY <1>2, <1>13, <2>1 DEF CommitFails, RecordFails, Switches, Still
<1>14. ASSUME Recover PROVE Goal
  <2>1. manifest' = manifest \/ (Reconcilable /\ manifest' = Reconciled)
    BY <1>14 DEF Recover
  <2> QED
    BY <1>2, <1>14, <2>1 DEF Recover, Still, Learns
<1>15. ASSUME RecoverAborted PROVE Goal
  BY <1>2, <1>15 DEF RecoverAborted, Still
<1>16. ASSUME FinishSwitch PROVE Goal
  BY <1>2, <1>16 DEF FinishSwitch, Still
<1>17. ASSUME BeginTurn PROVE Goal
  <2>1. User(turn') \in Events /\ User(turn').kind = "user"
    BY <1>17, HandoffAssumption DEF BeginTurn, TypeOK, Turns, Events, User
  <2>2. Quiet
    BY <1>5, <1>17, <2>1 DEF BeginTurn
  <2>3. manifest'.prov = manifest.prov /\ manifest'.nat = manifest.nat
    BY <1>1, <1>17 DEF BeginTurn, Record, RecordFails, Manifests
  <2> QED
    BY <1>17, <2>2, <2>3 DEF BeginTurn, Still
<1>18. ASSUME Submit PROVE Goal
  <2>1. route.nat \in Natives
    BY <1>18 DEF Submit, Asked, InTurn, TypeOK, Natives
  <2>2. Submitted(route.nat) \in Events /\ Submitted(route.nat).kind = "submitted"
    BY <2>1 DEF Events, Natives, Submitted
  <2>3. Quiet
    BY <1>2, <1>5, <1>18, <2>2 DEF Submit
  <2>4. manifest'.prov = manifest.prov /\ manifest'.nat = manifest.nat
    BY <1>1, <1>18 DEF Submit, Record, RecordFails, Manifests
  <2> QED
    BY <1>18, <2>3, <2>4 DEF Submit, Still
<1>19. ASSUME ProviderReceives PROVE Goal
  <2>1. route.nat \in DOMAIN natives
    BY <1>19 DEF ProviderReceives, Asked, InTurn, TypeOK
  <2>2. natives[route.nat] \in Sessions
    BY <2>1, NativesTyped
  <2>3. natives' = [natives EXCEPT ![route.nat] =
                        [natives[route.nat] EXCEPT !.known = @ \cup route.ctx \cup {turn}]]
    BY <1>19 DEF ProviderReceives
  <2>4. /\ [natives[route.nat] EXCEPT !.known = @ \cup route.ctx \cup {turn}].known
               = natives[route.nat].known \cup route.ctx \cup {turn}
        /\ [natives[route.nat] EXCEPT !.known = @ \cup route.ctx \cup {turn}].prov
               = natives[route.nat].prov
    BY <2>2 DEF Sessions
  <2> DEFINE x == [natives[route.nat] EXCEPT !.known = @ \cup route.ctx \cup {turn}]
  <2>5. /\ x.known = natives[route.nat].known \cup route.ctx \cup {turn}
        /\ x.prov = natives[route.nat].prov
        /\ natives' = [natives EXCEPT ![route.nat] = x]
    BY <2>3, <2>4
  <2> HIDE DEF x
  <2>6. /\ DOMAIN natives' = DOMAIN natives
        /\ \A n \in DOMAIN natives : natives'[n] = IF n = route.nat THEN x ELSE natives[n]
    BY <2>1, <2>5 DEF TypeOK
  <2> QED
    BY <1>2, <1>19, <2>5, <2>6 DEF ProviderReceives, Receives
<1>20. ASSUME TurnRaises PROVE Goal
  BY <1>2, <1>20 DEF TurnRaises, Still
<1>21. ASSUME TurnCompletes PROVE Goal
  <2>1. TurnEnds(TurnBatch)
    BY <1>21 DEF TurnCompletes, TurnBatch
  <2>2. CASE Record(TurnBatch, [manifest EXCEPT !.nat = route.nat])
    BY <1>1, <2>1, <2>2 DEF TurnEnds, Record, Completes, Manifests
  <2>3. CASE RecordFails(TurnBatch)
    BY <2>1, <2>3 DEF TurnEnds, RecordFails, Completes
  <2> QED
    BY <2>1, <2>2, <2>3 DEF TurnEnds
<1>22. ASSUME TurnFails PROVE Goal
  <2>1. turn \in Turns
    BY <1>22 DEF TurnFails, TurnEnds, Asked, InTurn, History
  <2>2. Failed(turn) \in Events /\ Failed(turn).kind = "failed"
    BY <2>1 DEF Events, Failed
  <2>3. Quiet
    BY <1>5, <1>22, <2>2 DEF TurnFails, TurnEnds
  <2>4. CASE Record(<<Failed(turn)>>, [manifest EXCEPT !.nat = route.nat])
    BY <1>1, <1>22, <2>3, <2>4 DEF TurnFails, TurnEnds, Record, Fails, Manifests
  <2>5. CASE RecordFails(<<Failed(turn)>>)
    BY <1>22, <2>3, <2>5 DEF TurnFails, TurnEnds, RecordFails, Still
  <2> QED
    BY <1>22, <2>4, <2>5 DEF TurnFails, TurnEnds
<1>23. ASSUME RefreshTurn PROVE Goal
  <2>1. manifest'.prov = manifest.prov /\ manifest'.nat = manifest.nat
    BY <1>1, <1>23 DEF RefreshTurn, Manifests
  <2> QED
    BY <1>2, <1>23, <2>1 DEF RefreshTurn, Still, Clears
<1>24. ASSUME Refresh PROVE Goal
  <2>1. manifest'.prov = manifest.prov /\ manifest'.nat = manifest.nat
    BY <1>1, <1>24 DEF Refresh, Manifests
  <2> QED
    BY <1>2, <1>24, <2>1 DEF Refresh, Still
<1>25. ASSUME AppendNote PROVE Goal
  <2>1. Note \in Events /\ Note.kind = "note"
    BY DEF Events, Note
  <2>2. Quiet
    BY <1>5, <1>25, <2>1 DEF AppendNote
  <2>3. manifest'.prov = manifest.prov /\ manifest'.nat = manifest.nat
    BY <1>1, <1>25 DEF AppendNote, Record, Manifests
  <2> QED
    BY <1>25, <2>2, <2>3 DEF AppendNote, Still
<1>26. ASSUME Restart PROVE Goal
  BY <1>2, <1>26 DEF Restart, Still
<1>27. ASSUME UNCHANGED vars PROVE Goal
  BY <1>2, <1>27 DEF vars, Still
<1> QED
  BY <1>6, <1>7, <1>8, <1>9, <1>10, <1>12, <1>13, <1>14, <1>15, <1>16, <1>17, <1>18, <1>19,
     <1>20, <1>21, <1>22, <1>23, <1>24, <1>25, <1>26, <1>27 DEF Next
-----------------------------------------------------------------------------
(* What the harnesses are owed, and what they confirmed, after a quiet step.*)
LEMMA QuietMeans ==
    ASSUME TypeOK, TypeOK', Quiet
    PROVE  /\ \A p \in Providers : Owing(p)' <=> Owing(p)
           /\ \A k : \A p \in Providers : (\E n \in Natives : n # k /\ PendingAt(p, n)')
                                         <=> (\E n \in Natives : n # k /\ PendingAt(p, n))
           /\ Finished' = Finished /\ Acked' = Acked
BY DEF Quiet, Owing

(* The conjuncts of the invariant that say who knows what was completed,    *)
(* and who is owed it.                                                      *)
Covered ==
    /\ RouteCovered /\ ManifestCovered /\ AckCovered
    /\ RouteNamed /\ AckKnown /\ SwitchKnown /\ RouteOwes

(* They hold after a step that leaves the log, the manifest and the native  *)
(* sessions to say what they said, and may lose the route.                  *)
LEMMA StillCovered ==
    ASSUME TypeOK, TypeOK', NamesExist, Covered, Quiet,
           route' = route \/ route' = NoRoute,
           manifest'.prov = manifest.prov, manifest'.nat = manifest.nat,
           DOMAIN natives \subseteq DOMAIN natives',
           \A n \in DOMAIN natives : natives[n].known \subseteq natives'[n].known
    PROVE  Covered'
<1> USE DEF Covered
<1>1. /\ manifest.prov \in Providers /\ manifest.nat \in Natives
      /\ manifest.nat \in DOMAIN natives
      /\ route.nat = 0 \/ route.nat \in DOMAIN natives
      /\ NoRoute.nat = 0
  BY NothingIs, TypeIs DEF Manifests, Natives, Routes
<1>2. /\ Owing(manifest.prov)' <=> Owing(manifest.prov)
      /\ route' = route => (OwingOther(manifest.prov)' <=> OwingOther(manifest.prov))
      /\ Finished' = Finished /\ Acked' = Acked
  BY <1>1, QuietMeans DEF OwingOther
<1>3. RouteCovered'
  BY <1>1, <1>2 DEF RouteCovered
<1>4. ManifestCovered'
  BY <1>1, <1>2 DEF ManifestCovered
<1>5. AckCovered'
  <2>1. \A n \in Natives : FreshAck(n) => n \in DOMAIN natives
    BY DEF FreshAck, NamesExist, Delivered
  <2> QED
    BY <1>2, <2>1 DEF AckCovered, Quiet
<1>6. RouteNamed'
  BY <1>1, <1>2 DEF RouteNamed
<1>7. AckKnown'
  BY <1>1, <1>2 DEF AckKnown, Quiet
<1>8. SwitchKnown'
  BY <1>1, SMTT(30) DEF SwitchKnown, Quiet, TypeOK, Natives
<1>9. RouteOwes'
  BY <1>1, <1>2 DEF RouteOwes
<1> QED
  BY <1>3, <1>4, <1>5, <1>6, <1>7, <1>8, <1>9

(* They hold after reconcile.                                               *)
LEMMA LearnsCovered ==
    ASSUME TypeOK, TypeOK', NamesExist, Covered, Quiet, log' = log,
           Reconcilable, manifest' = Reconciled,
           route' = route \/ route' = NoRoute,
           DOMAIN natives \subseteq DOMAIN natives',
           \A n \in DOMAIN natives : natives[n].known \subseteq natives'[n].known
    PROVE  Covered'
<1>1. /\ manifest.prov \in Providers /\ manifest.nat \in Natives
      /\ manifest.nat \in DOMAIN natives
      /\ manifest'.prov \in Providers
      /\ route.nat = 0 \/ route.nat \in DOMAIN natives
      /\ route.nat \in 0 .. MaxNatives
      /\ NoRoute.nat = 0
      /\ DOMAIN log = 1 .. Len(log) /\ Len(log) \in Nat
  BY NothingIs, TypeIs, TypeNextIs DEF Manifests, Natives, Routes
<1>2. /\ \A p \in Providers : Owing(p)' <=> Owing(p)
      /\ \A k : \A p \in Providers : (\E n \in Natives : n # k /\ PendingAt(p, n)')
                                   <=> (\E n \in Natives : n # k /\ PendingAt(p, n))
      /\ Finished' = Finished /\ Acked' = Acked
  BY QuietMeans
<1>3. CASE manifest' = manifest
  BY <1>3, StillCovered
<1>4. RouteCovered'
  BY <1>1, <1>2 DEF RouteCovered, Covered
<1>5. AckCovered'
  <2>1. \A n \in Natives : FreshAck(n) => n \in DOMAIN natives
    BY DEF FreshAck, NamesExist, Delivered
  <2> QED
    BY <1>2, <2>1 DEF AckCovered, Quiet, Covered
<1>6. ASSUME manifest'.seq = Len(log)
      PROVE  AckKnown' /\ SwitchKnown'
  <2>1. \A n \in Natives : ~AheadAck(n)' /\ ~AheadSwitch(n)'
    BY <1>1, <1>6 DEF AheadAck, AheadSwitch
  <2>2. manifest'.nat \in Natives /\ (route'.nat # 0 => route'.nat \in Natives)
    BY TypeNextIs DEF Manifests, Natives, Routes
  <2> QED
    BY <2>1, <2>2 DEF AckKnown, SwitchKnown
<1>7. ASSUME NEW n \in Natives \cap DOMAIN natives, AheadAck(n), FreshAck(n),
             manifest' = [prov |-> manifest.prov, nat |-> n, seq |-> Len(log)]
      PROVE  Covered'
  <2>1. manifest'.prov = manifest.prov /\ manifest'.nat = n /\ manifest'.seq = Len(log)
    BY <1>7
  <2>2. ManifestCovered'
    <3>1. n \in Acked
      BY <1>7 DEF AheadAck, Acked, Logged
    <3>2. Finished \subseteq natives'[n].known
      BY <1>7 DEF Covered, AckCovered
    <3> QED
      BY <1>2, <2>1, <3>1, <3>2 DEF ManifestCovered
  <2>3. RouteNamed'
    <3>1. ASSUME route'.nat # 0
          PROVE  manifest'.nat = route'.nat \/ OwingOther(manifest.prov)'
      <4>1. route' = route
        BY <1>1, <3>1
      <4>2. n = route.nat \/ OwingOther(manifest.prov)
        BY <1>7, <3>1, <4>1 DEF Covered, AckKnown
      <4> QED
        BY <1>1, <1>2, <2>1, <4>1, <4>2 DEF OwingOther
    <3> QED
      BY <3>1 DEF RouteNamed
  <2>4. RouteOwes'
    BY <1>1, <1>2, <2>1 DEF RouteOwes, Covered
  <2> QED
    BY <1>4, <1>5, <1>6, <2>1, <2>2, <2>3, <2>4 DEF Covered
<1>8. ASSUME NEW n \in Natives \cap DOMAIN natives, AheadSwitch(n),
             PendingAt(natives[n].prov, n),
             manifest' = [prov |-> natives[n].prov, nat |-> n, seq |-> Len(log)]
      PROVE  Covered'
  <2>1. manifest'.prov = natives[n].prov /\ manifest'.nat = n /\ manifest'.seq = Len(log)
    BY <1>8
  <2>2. \E p : p = manifest'.prov /\ PendingAt(p, n)
    BY <1>8, <2>1
  <2>3. PICK p \in Providers : p = manifest'.prov /\ PendingAt(p, n)'
    BY <1>1, <2>2 DEF Quiet
  <2>4. Owing(manifest.prov)'
    BY <2>3 DEF Owing
  <2>5. ManifestCovered'
    BY <2>4 DEF ManifestCovered
  <2>6. ASSUME route'.nat # 0
        PROVE  OwingOther(manifest.prov)'
    <3>1. route' = route
      BY <1>1, <2>6
    <3>2. n # route.nat
      BY <1>8, <2>6, <3>1 DEF Covered, SwitchKnown
    <3> QED
      BY <2>3, <3>1, <3>2 DEF OwingOther
  <2>7. RouteNamed'
    BY <2>6 DEF RouteNamed
  <2>8. RouteOwes'
    BY <1>1, <1>2, <2>4 DEF RouteOwes, Covered
  <2> QED
    BY <1>4, <1>5, <1>6, <2>1, <2>5, <2>7, <2>8 DEF Covered
<1> QED
  BY <1>3, <1>7, <1>8, ReconciledIs

(* They hold of a route that is made of the manifest, if its harness is     *)
(* owed nothing.                                                            *)
LEMMA ResumesCovered ==
    ASSUME TypeOK, TypeOK', NamesExist, Covered, Resumes
    PROVE  Covered'
<1> DEFINE m == manifest'
<1>1. /\ manifest'.prov \in Providers /\ manifest'.nat \in Natives
      /\ manifest.prov \in Providers
      /\ natives' = natives /\ log' = log /\ Quiet
      /\ Len(log) \in Nat /\ DOMAIN log = 1 .. Len(log)
  BY TypeIs, TypeNextIs DEF Manifests, Resumes
<1>2. route'.nat = manifest'.nat /\ ~route'.hand /\ route'.ctx = {} /\ route'.nat # 0
  <2>1. route' = [NoRoute EXCEPT !.nat = manifest'.nat]
    BY DEF Resumes
  <2>2. manifest'.nat # 0
    BY <1>1 DEF Natives
  <2> QED
    BY <1>1, <2>1, <2>2, ResumedIs
<1>3. /\ \A p \in Providers : Owing(p)' <=> Owing(p)
      /\ Finished' = Finished /\ Acked' = Acked
  BY QuietMeans DEF Resumes
<1>4. ~Owing(manifest.prov)'
  BY <1>1, <1>3 DEF Resumes
<1>5. /\ ManifestCovered' /\ AckCovered'
      /\ \A n \in Natives : AheadAck(n)' => n = manifest'.nat
      /\ ~AheadSwitch(manifest.nat)'
  <2>1. AckCovered'
    BY <1>1, <1>3 DEF Covered, AckCovered, Quiet
  <2>2. CASE manifest' = manifest
    BY <1>1, <1>3, <1>4, <2>1, <2>2
       DEF Covered, ManifestCovered, AckKnown, SwitchKnown, Quiet
  <2>3. ASSUME manifest'.seq = Len(log)
        PROVE  \A n \in Natives : ~AheadAck(n)' /\ ~AheadSwitch(n)'
    BY <1>1, <2>3 DEF AheadAck, AheadSwitch
  <2>4. ASSUME NEW n \in Natives \cap DOMAIN natives, AheadAck(n), FreshAck(n),
               manifest' = [prov |-> manifest.prov, nat |-> n, seq |-> Len(log)]
        PROVE  ManifestCovered' /\ manifest'.seq = Len(log)
    <3>1. n \in Acked
      BY <2>4 DEF AheadAck, Acked, Logged
    <3>2. Finished \subseteq natives[n].known
      BY <2>4 DEF Covered, AckCovered
    <3> QED
      BY <1>1, <1>3, <2>4, <3>1, <3>2 DEF ManifestCovered
  <2>5. ASSUME NEW n \in Natives \cap DOMAIN natives,
               PendingAt(natives[n].prov, n),
               manifest' = [prov |-> natives[n].prov, nat |-> n, seq |-> Len(log)]
        PROVE  FALSE
    BY <2>5 DEF Resumes, Owing
  <2> QED
    BY <1>1, <2>1, <2>2, <2>3, <2>4, <2>5, ReconciledIs DEF Resumes
<1>6. RouteCovered'
  BY <1>2, <1>4, <1>5 DEF RouteCovered, ManifestCovered
<1>7. RouteNamed'
  BY <1>2 DEF RouteNamed
<1>8. AckKnown'
  BY <1>2, <1>5 DEF AckKnown
<1>9. SwitchKnown'
  BY <1>2, <1>5 DEF SwitchKnown
<1>10. RouteOwes'
  BY <1>2, <1>4, <1>5 DEF RouteOwes, ManifestCovered
<1> QED
  BY <1>5, <1>6, <1>7, <1>8, <1>9, <1>10 DEF Covered

(* They hold when a switch was recorded: the harness it was made to is owed *)
(* the history.                                                             *)
LEMMA SwitchesCovered ==
    ASSUME TypeOK, TypeOK', NamesExist, Steady, Asked, Prepared, Covered, Switches
    PROVE  Covered'
<1>1. /\ manifest.prov \in Providers /\ manifest.nat \in Natives /\ manifest'.nat \in Natives
      /\ manifest'.prov \in Providers
      /\ cand.nat = Len(natives) /\ cand.nat \in Natives /\ cand.nat \in DOMAIN natives
      /\ route.nat \in 0 .. MaxNatives /\ route'.nat \in 0 .. MaxNatives
      /\ natives' = natives
      /\ manifest.nat # cand.nat /\ route.nat # cand.nat
      /\ Finished \subseteq cand.ctx
      /\ DOMAIN log' = 1 .. Len(log')
  BY TypeIs, TypeNextIs DEF Manifests, Natives, Routes, Switches, Prepared, Unchanged, Asked
<1>2. PICK c \in Natives \cap DOMAIN natives : c = cand.nat
  BY <1>1
<1>3. PICK p \in Providers : p = natives[c].prov
  BY NativesTyped
<1>4. Added(Switch(c))
  BY <1>2 DEF Switches
<1>5. /\ Finished' = Finished /\ Acked' = Acked
      /\ PendingAt(p, c)'
      /\ \A o \in Providers, n \in Natives :
             o # p => (PendingAt(o, n)' <=> PendingAt(o, n))
      /\ \A n \in Natives : /\ ~FreshAck(n)'
                            /\ AheadAck(n)' => AheadAck(n)
                            /\ AheadSwitch(n)' => AheadSwitch(n) \/ n = c
  BY <1>1, <1>3, <1>4, SwitchAdded
<1>6. Owing(p)'
  BY <1>5 DEF Owing
<1>7. AckCovered'
  BY <1>5 DEF AckCovered
<1>8. CASE /\ manifest'.prov = natives[cand.nat].prov /\ manifest'.nat = cand.nat
           /\ manifest'.seq = Len(log')
           /\ route' = [nat |-> cand.nat, hand |-> TRUE, ctx |-> cand.ctx,
                        warned |-> cand.warned]
  <2>1. /\ manifest'.prov = p /\ manifest'.nat = c
        /\ route'.nat = c /\ route'.hand /\ route'.ctx = cand.ctx
    BY <1>2, <1>3, <1>8
  <2>2. Owing(manifest.prov)'
    BY <1>6, <2>1
  <2>3. \A n \in Natives : ~AheadAck(n)' /\ ~AheadSwitch(n)'
    <3>1. Len(log') \in Nat
      BY TypeNextIs
    <3> QED
      BY <1>1, <1>8, <3>1 DEF AheadAck, AheadSwitch
  <2>4. RouteCovered'
    BY <1>1, <1>5, <2>1 DEF RouteCovered
  <2>5. ManifestCovered' /\ RouteNamed' /\ RouteOwes'
    BY <2>1, <2>2 DEF ManifestCovered, RouteNamed, RouteOwes
  <2>6. AckKnown' /\ SwitchKnown'
    BY <1>1, <2>1, <2>3 DEF AckKnown, SwitchKnown
  <2> QED
    BY <1>7, <2>4, <2>5, <2>6 DEF Covered
<1>9. CASE /\ route' = route
           /\ manifest'.prov = manifest.prov /\ manifest'.nat = manifest.nat
  <2>1. CASE manifest.prov = p
    <3>1. Owing(manifest.prov)' /\ OwingOther(manifest.prov)'
      BY <1>1, <1>2, <1>5, <1>6, <1>9, <2>1 DEF OwingOther
    <3>2. RouteCovered'
      BY <1>1, <1>5, <1>9 DEF RouteCovered, Covered
    <3>3. ManifestCovered' /\ RouteNamed' /\ AckKnown'
      BY <3>1 DEF ManifestCovered, RouteNamed, AckKnown
    <3>4. RouteOwes'
      BY <1>5, <1>9, <3>1 DEF RouteOwes, Covered
    <3>5. SwitchKnown'
      BY <1>1, <1>2, <1>5, <1>9 DEF SwitchKnown, Covered, Natives
    <3> QED
      BY <1>7, <3>2, <3>3, <3>4, <3>5 DEF Covered
  <2>2. CASE manifest.prov # p
    <3>1. /\ Owing(manifest.prov)' <=> Owing(manifest.prov)
          /\ OwingOther(manifest.prov)' <=> OwingOther(manifest.prov)
      BY <1>1, <1>5, <1>9, <2>2 DEF Owing, OwingOther
    <3>2. RouteCovered'
      BY <1>1, <1>5, <1>9 DEF RouteCovered, Covered
    <3>3. ManifestCovered'
      BY <1>1, <1>5, <1>9, <3>1 DEF ManifestCovered, Covered
    <3>4. RouteNamed' /\ RouteOwes'
      BY <1>5, <1>9, <3>1 DEF RouteNamed, RouteOwes, Covered
    <3>5. AckKnown'
      BY <1>5, <1>9, <3>1 DEF AckKnown, Covered
    <3>6. SwitchKnown'
      BY <1>1, <1>2, <1>5, <1>9 DEF SwitchKnown, Covered, Natives
    <3> QED
      BY <1>7, <3>2, <3>3, <3>4, <3>5, <3>6 DEF Covered
  <2> QED
    BY <2>1, <2>2
<1> QED
  BY <1>8, <1>9 DEF Switches

(* They hold when a turn ended well: its harness knows what it was told and *)
(* what it did.                                                             *)
LEMMA CompletesCovered ==
    ASSUME TypeOK, TypeOK', NamesExist, Steady, Asked, Told, Covered, Completes
    PROVE  Covered'
<1>1. /\ manifest.prov \in Providers /\ manifest.nat \in Natives /\ manifest'.nat \in Natives
      /\ manifest'.prov = manifest.prov
      /\ route.nat \in Natives /\ turn \in Turns
      /\ natives' = natives /\ route' = route
      /\ route.ctx \cup {turn} \subseteq natives[route.nat].known
      /\ DOMAIN log' = 1 .. Len(log') /\ Len(log') \in Nat
  BY TypeIs, TypeNextIs
     DEF Manifests, Natives, Routes, Completes, Asked, InTurn, Told, History
<1>2. PICK r \in Natives : r = route.nat
  BY <1>1
<1>3. /\ Finished \subseteq Finished' /\ Finished' \subseteq Finished \cup {turn}
      /\ Acked \subseteq Acked'
      /\ \A p \in Providers, n \in Natives :
            /\ PendingAt(p, n)' => PendingAt(p, n)
            /\ PendingAt(p, n) => PendingAt(p, n)' \/ (n = r /\ n \in Acked')
      /\ \A n \in Natives :
            /\ FreshAck(n)' => n = r \/ (FreshAck(n) /\ Finished' = Finished)
            /\ AheadAck(n)' => AheadAck(n) \/ n = r
            /\ AheadSwitch(n)' => AheadSwitch(n)
  <2>1. \E m : Record(TurnBatch, m) \/ RecordFails(TurnBatch)
    BY DEF Completes
  <2> QED
    BY <1>1, <1>2, <2>1, TurnRecorded
<1>4. Finished' \subseteq natives[r].known
  BY <1>1, <1>2, <1>3 DEF Covered, RouteCovered, Natives
<1>5. OwingOther(manifest.prov) => Owing(manifest.prov)' /\ OwingOther(manifest.prov)'
  BY <1>1, <1>2, <1>3 DEF OwingOther, Owing
<1>6. ~Owing(manifest.prov)' => r = 1 \/ r \in Acked'
  <2>1. CASE Owing(manifest.prov)
    BY <1>1, <1>3, <2>1 DEF Owing
  <2>2. CASE ~Owing(manifest.prov)
    BY <1>1, <1>2, <1>3, <2>2 DEF Covered, RouteOwes, Natives
  <2> QED
    BY <2>1, <2>2
<1>7. RouteCovered'
  BY <1>1, <1>2, <1>4 DEF RouteCovered
<1>8. AckCovered'
  BY <1>1, <1>3, <1>4 DEF AckCovered, Covered
<1>9. RouteOwes'
  <2>1. ASSUME r # 1, r \notin Acked'
        PROVE  route.hand /\ Owing(manifest.prov)'
    <3>1. route.hand /\ Owing(manifest.prov)
      BY <1>2, <1>3, <2>1 DEF Covered, RouteOwes, Natives
    <3> QED
      BY <1>6, <2>1, <3>1
  <2> QED
    BY <1>1, <1>2, <2>1 DEF RouteOwes
<1>10. SwitchKnown' /\ (manifest'.nat = manifest.nat \/ manifest'.nat = r)
  BY <1>1, <1>2, <1>3 DEF SwitchKnown, Covered, Completes, Natives
<1>11. CASE manifest'.nat = route.nat /\ manifest'.seq = Len(log')
  <2>1. ManifestCovered'
    BY <1>1, <1>2, <1>4, <1>6, <1>11 DEF ManifestCovered
  <2>2. RouteNamed'
    BY <1>1, <1>11 DEF RouteNamed
  <2>3. AckKnown'
    BY <1>1, <1>11 DEF AckKnown, AheadAck
  <2> QED
    BY <1>7, <1>8, <1>9, <1>10, <2>1, <2>2, <2>3 DEF Covered
<1>12. CASE manifest' = manifest
  <2>1. manifest.nat = r \/ OwingOther(manifest.prov)
    BY <1>1, <1>2 DEF Covered, RouteNamed, Natives
  <2>2. ManifestCovered'
    BY <1>1, <1>2, <1>4, <1>5, <1>6, <1>12, <2>1 DEF ManifestCovered
  <2>3. RouteNamed'
    BY <1>1, <1>2, <1>5, <1>12, <2>1 DEF RouteNamed
  <2>4. ASSUME NEW n \in Natives, AheadAck(n)'
        PROVE  n = r \/ OwingOther(manifest.prov)
    BY <1>1, <1>2, <1>3, <2>4 DEF Covered, AckKnown, Natives
  <2>5. AckKnown'
    BY <1>1, <1>2, <1>5, <1>12, <2>1, <2>4 DEF AckKnown
  <2> QED
    BY <1>7, <1>8, <1>9, <1>10, <2>2, <2>3, <2>5 DEF Covered
<1> QED
  BY <1>11, <1>12 DEF Completes

(* They hold when a turn failed, and the manifest names its harness.        *)
LEMMA FailsCovered ==
    ASSUME TypeOK, TypeOK', NamesExist, Asked, Told, Covered, Fails
    PROVE  Covered'
<1>1. /\ manifest.prov \in Providers
      /\ manifest'.prov = manifest.prov /\ manifest'.nat = route.nat
      /\ route.nat \in Natives
      /\ natives' = natives /\ route' = route
      /\ route.ctx \subseteq natives[route.nat].known
      /\ DOMAIN log' = 1 .. Len(log') /\ Len(log') \in Nat
  BY TypeIs, TypeNextIs DEF Manifests, Natives, Routes, Fails, Asked, InTurn, Told
<1>2. /\ Owing(manifest.prov)' <=> Owing(manifest.prov)
      /\ Finished' = Finished /\ Acked' = Acked
  BY <1>1, QuietMeans DEF Fails
<1>3. Finished \subseteq natives[route.nat].known
  BY <1>1 DEF Covered, RouteCovered, Natives
<1>4. RouteCovered'
  BY <1>1, <1>2, <1>3 DEF RouteCovered
<1>5. RouteOwes'
  BY <1>1, <1>2 DEF RouteOwes, Covered
<1>6. ManifestCovered'
  BY <1>1, <1>2, <1>3 DEF ManifestCovered, Covered, RouteOwes, Natives
<1>7. RouteNamed'
  BY <1>1 DEF RouteNamed
<1>8. AckCovered'
  BY <1>1, <1>2 DEF AckCovered, Covered, Fails, Quiet
<1>9. AckKnown' /\ SwitchKnown'
  <2>1. \A n \in Natives : ~AheadAck(n)' /\ ~AheadSwitch(n)'
    BY <1>1 DEF AheadAck, AheadSwitch, Fails
  <2> QED
    BY <1>1, <2>1 DEF AckKnown, SwitchKnown
<1> QED
  BY <1>4, <1>5, <1>6, <1>7, <1>8, <1>9 DEF Covered

(* They hold when the route is told that its harness knows the history.     *)
LEMMA ClearsCovered ==
    ASSUME TypeOK, TypeOK', NamesExist, Asked, Told, ClearedLast, Covered, Clears
    PROVE  Covered'
<1>1. /\ manifest.prov \in Providers /\ manifest.nat \in Natives
      /\ manifest'.prov = manifest.prov /\ manifest'.nat = manifest.nat
      /\ route.nat \in Natives /\ natives' = natives
      /\ route.ctx \subseteq natives[route.nat].known
  BY TypeIs DEF Manifests, Natives, Routes, Clears, Asked, InTurn, Told
<1>2. /\ Owing(manifest.prov)' <=> Owing(manifest.prov)
      /\ (\E n \in Natives : n # route.nat /\ PendingAt(manifest.prov, n))
            => \E p \in Providers : p = manifest.prov
                   /\ \E n \in Natives : n # route.nat /\ PendingAt(p, n)'
      /\ Finished' = Finished /\ Acked' = Acked
  BY <1>1, QuietMeans DEF Clears, Quiet
<1>3. route'.nat = route.nat /\ ~route'.hand /\ route'.ctx = {}
  BY ClearedIs, TypeIs DEF Clears
<1>4. OwingOther(manifest.prov) => OwingOther(manifest.prov)'
  BY <1>1, <1>2, <1>3 DEF OwingOther
<1>5. RouteCovered'
  BY <1>1, <1>2, <1>3 DEF RouteCovered, Covered
<1>6. ManifestCovered'
  BY <1>1, <1>2 DEF ManifestCovered, Covered
<1>7. AckCovered'
  BY <1>1, <1>2 DEF AckCovered, Covered, Clears, Quiet
<1>8. RouteNamed'
  BY <1>1, <1>3, <1>4 DEF RouteNamed, Covered
<1>9. AckKnown'
  BY <1>1, <1>2, <1>3, <1>4 DEF AckKnown, Covered, Clears, Quiet
<1>10. SwitchKnown'
  BY <1>1, <1>3 DEF SwitchKnown, Covered, Clears, Quiet
<1>11. RouteOwes'
  BY <1>1, <1>2, <1>3 DEF RouteOwes, Covered, ClearedLast, Clears
<1> QED
  BY <1>5, <1>6, <1>7, <1>8, <1>9, <1>10, <1>11 DEF Covered

(* So every step keeps them.                                                *)
LEMMA CoveredKept ==
    ASSUME TypeOK, NamesExist, Asked, Told, Prepared, ClearedLast, Covered, [Next]_vars
    PROVE  Covered'
<1>1. TypeOK' /\ Steady
  BY TypesKept
<1>2. CASE Still
  BY <1>1, <1>2, StillCovered DEF Still
<1>3. CASE Learns
  BY <1>1, <1>3, LearnsCovered DEF Learns
<1>4. CASE Resumes
  BY <1>1, <1>4, ResumesCovered
<1>5. CASE Switches
  BY <1>1, <1>5, SwitchesCovered
<1>6. CASE Completes
  BY <1>1, <1>6, CompletesCovered
<1>7. CASE Fails
  BY <1>1, <1>7, FailsCovered
<1>8. CASE Clears
  BY <1>1, <1>8, ClearsCovered
<1>9. CASE Receives
  <2>1. \A n \in DOMAIN natives : natives[n].known \subseteq natives'[n].known
    BY <1>9 DEF Receives
  <2> QED
    BY <1>1, <1>9, <2>1, StillCovered DEF Receives
<1> QED
  BY <1>2, <1>3, <1>4, <1>5, <1>6, <1>7, <1>8, <1>9, StepIs
-----------------------------------------------------------------------------
(* The stages of a turn.                                                    *)
Staged == Asked /\ Told /\ ClearedLast /\ SubmittedFirst

(* Every step keeps them.                                                   *)
LEMMA StagedKept ==
    ASSUME TypeOK, NamesExist, Prepared, Staged, [Next]_vars
    PROVE  Staged'
<1> USE DEF Staged
<1>1. TypeOK' /\ Steady
  BY TypesKept
<1>2. Finished' \subseteq History'
  <2>1. Quiet => Finished' \subseteq History'
    BY DEF Quiet, Asked
  <2>2. CASE Switches
    <3>1. cand.nat \in Natives \cap DOMAIN natives /\ Added(Switch(cand.nat))
      BY <2>2 DEF Switches, Prepared, TypeOK, Natives
    <3>2. Finished' = Finished /\ History' = History
      BY <1>1, <3>1, SwitchAdded
    <3> QED
      BY <3>2 DEF Asked
  <2>3. CASE Completes
    <3>1. turn \in Turns /\ route.nat \in Natives /\ turn \in History
      BY <2>3 DEF Completes, Asked, InTurn, History, TypeOK, Natives
    <3>2. \E m : Record(TurnBatch, m) \/ RecordFails(TurnBatch)
      BY <2>3 DEF Completes
    <3>3. Finished' \subseteq Finished \cup {turn} /\ History' = History
      BY <1>1, <3>1, <3>2, TurnRecorded
    <3> QED
      BY <3>1, <3>3 DEF Asked
  <2> QED
    BY <2>1, <2>2, <2>3, StepIs DEF Still, Learns, Resumes, Fails, Clears, Receives
<1>3. ASSUME step' \notin {"submit", "call", "running", "refresh"}
      PROVE  Staged'
  BY <1>2, <1>3 DEF Asked, Told, ClearedLast, SubmittedFirst, InTurn
<1>4. ASSUME Quiet, step' = step, route' = route, natives' = natives, turn' = turn
      PROVE  Staged'
  BY <1>2, <1>4 DEF Asked, Told, ClearedLast, SubmittedFirst, InTurn, Quiet
<1>5. CASE BeginTurn
  <2>1. CASE Record(<<User(turn')>>, manifest) /\ step' = "submit"
    <3>1. turn' \in Turns /\ User(turn') \in Events
      BY <1>5, HandoffAssumption DEF BeginTurn, TypeOK, Turns, Events
    <3>2. Added(User(turn'))
      BY <2>1, <3>1, OneRecorded
    <3>3. \A f : Logged(f)' <=> Logged(f) \/ f = User(turn')
      BY <3>2, LoggedThen
    <3>4. turn' \in History'
      BY <3>1, <3>3 DEF History
    <3>5. route'.nat # 0
      BY <1>5 DEF BeginTurn, NamesExist
    <3> QED
      BY <1>2, <2>1, <3>4, <3>5 DEF Asked, Told, ClearedLast, SubmittedFirst, InTurn
  <2>2. CASE step' = step
    BY <1>3, <1>5, <2>2 DEF BeginTurn
  <2> QED
    BY <1>5, <2>1, <2>2 DEF BeginTurn
<1>6. CASE Submit
  <2>1. /\ route.nat \in Natives /\ turn \in History /\ Submitted(route.nat) \in Events
        /\ Submitted(route.nat).kind = "submitted"
    BY <1>6 DEF Submit, Asked, InTurn, TypeOK, Natives, Events, Submitted
  <2>2. CASE ~route.hand
    <3>1. log' = log
      BY <1>6, <2>2 DEF Submit
    <3>2. History' = History
      BY <1>1, <3>1, Unlogged
    <3> QED
      BY <1>2, <1>6, <2>1, <2>2, <3>2
         DEF Submit, Asked, Told, ClearedLast, SubmittedFirst, InTurn
  <2>3. CASE step' = "call" /\ Record(<<Submitted(route.nat)>>, manifest)
    <3>1. Added(Submitted(route.nat))
      BY <2>1, <2>3, OneRecorded
    <3>2. \A f : Logged(f)' <=> Logged(f) \/ f = Submitted(route.nat)
      BY <3>1, LoggedThen
    <3>3. route' = route /\ turn' = turn
      BY <1>6 DEF Submit
    <3>4. turn' \in History' /\ route'.nat \in Handed'
      BY <2>1, <3>2, <3>3 DEF History, Handed
    <3> QED
      BY <1>2, <2>1, <2>3, <3>3, <3>4
         DEF Asked, Told, ClearedLast, SubmittedFirst, InTurn, Natives
  <2>4. CASE step' = "idle"
    BY <1>3, <2>4
  <2> QED
    BY <1>6, <2>2, <2>3, <2>4 DEF Submit
<1>7. CASE ProviderReceives
  <2>1. /\ log' = log /\ route' = route /\ turn' = turn /\ step = "call" /\ step' = "running"
        /\ route.nat # 0 /\ turn \in History /\ route.nat \in DOMAIN natives
    BY <1>7 DEF ProviderReceives, Asked, InTurn, TypeOK
  <2>2. History' = History /\ Handed' = Handed
    BY <1>1, <2>1, Unlogged
  <2>3. natives'[route.nat].known = natives[route.nat].known \cup route.ctx \cup {turn}
    <3>1. natives[route.nat] \in Sessions
      BY <2>1, NativesTyped
    <3>2. natives' = [natives EXCEPT ![route.nat] =
                          [natives[route.nat] EXCEPT !.known = @ \cup route.ctx \cup {turn}]]
      BY <1>7 DEF ProviderReceives
    <3>3. [natives[route.nat] EXCEPT !.known = @ \cup route.ctx \cup {turn}].known
              = natives[route.nat].known \cup route.ctx \cup {turn}
      BY <3>1 DEF Sessions
    <3>4. natives'[route.nat] =
              [natives[route.nat] EXCEPT !.known = @ \cup route.ctx \cup {turn}]
      BY <2>1, <3>2
    <3> QED
      BY <3>3, <3>4
  <2> QED
    BY <1>2, <2>1, <2>2, <2>3 DEF Asked, Told, ClearedLast, SubmittedFirst, InTurn
<1>8. CASE TurnCompletes
  <2>1. TurnEnds(TurnBatch)
    BY <1>8 DEF TurnCompletes, TurnBatch
  <2>2. /\ step = "running" /\ natives' = natives /\ route' = route /\ turn' = turn
        /\ turn \in Turns /\ route.nat \in Natives /\ turn \in History
    BY <2>1 DEF TurnEnds, Asked, InTurn, History, TypeOK, Natives
  <2>3. CASE RecordFails(TurnBatch) /\ step' = "idle"
    BY <1>3, <2>3
  <2>4. CASE /\ Record(TurnBatch, [manifest EXCEPT !.nat = route.nat])
             /\ step' \in {"refresh", "idle"}
    <3>1. /\ History' = History /\ Handed' = Handed
          /\ route.hand => route.nat \in Acked'
      BY <1>1, <2>2, <2>4, TurnRecorded
    <3> QED
      BY <1>2, <2>2, <2>4, <3>1 DEF Asked, Told, ClearedLast, SubmittedFirst, InTurn
  <2> QED
    BY <2>1, <2>3, <2>4 DEF TurnEnds
<1>9. CASE Refresh \/ UNCHANGED vars
  <2>1. log' = log /\ step' = step /\ route' = route /\ natives' = natives /\ turn' = turn
    BY <1>9 DEF Refresh, vars
  <2> QED
    BY <1>1, <1>4, <2>1, Unlogged
<1>10. CASE \E p \in Providers : BeginSwitch(p)
  BY <1>3, <1>10 DEF BeginSwitch, Prepare
<1>11. CASE SwitchRefused \/ OpenNative
  BY <1>3, <1>11 DEF SwitchRefused, OpenNative, ResumeNative
<1>12. CASE OpenPending
  BY <1>3, <1>12 DEF OpenPending, Prepare, ResumeNative
<1>13. CASE CandidateFails \/ CommitSwitch \/ CommitFails
  BY <1>3, <1>13 DEF CandidateFails, CommitSwitch, CommitFails
<1>14. CASE Recover \/ RecoverAborted \/ FinishSwitch \/ TurnRaises \/ Restart
  BY <1>3, <1>14 DEF Recover, RecoverAborted, FinishSwitch, TurnRaises, Restart
<1>15. CASE TurnFails
  <2>1. step' = "idle" \/ step' = "refresh"
    BY <1>15 DEF TurnFails, TurnEnds
  <2>2. Completed(turn) # Failed(turn)
    BY DEF Completed, Failed
  <2>3. step' = "idle"
    BY <1>15, <2>2 DEF TurnFails, TurnEnds
  <2> QED
    BY <1>3, <2>3
<1>16. CASE RefreshTurn \/ AppendNote
  BY <1>3, <1>16 DEF RefreshTurn, AppendNote
<1> QED
  BY <1>5, <1>6, <1>7, <1>8, <1>9, <1>10, <1>11, <1>12, <1>13, <1>14, <1>15, <1>16 DEF Next
-----------------------------------------------------------------------------
(* Who is named or confirmed was switched to, after every step.             *)
LEMMA CommittedKept ==
    ASSUME TypeOK, NamesExist, Asked, Prepared, Committed, [Next]_vars
    PROVE  Committed'
<1>1. TypeOK' /\ Steady /\ NoRoute.nat = 0
  BY TypesKept, NothingIs
<1>2. Reconcilable => Reconciled.nat \in {manifest.nat} \cup Acked \cup Switched
  BY ReconciledIs DEF AheadAck, AheadSwitch, Acked, Switched, Logged
<1>3. ASSUME Switched' = Switched, Acked' \subseteq Acked \cup {route.nat},
             \/ manifest'.nat \in {manifest.nat, route.nat}
             \/ Reconcilable /\ manifest' = Reconciled,
             route'.nat \in {0, route.nat, manifest'.nat}
      PROVE  Committed'
  BY <1>2, <1>3 DEF Committed
<1>4. CASE Still
  BY <1>1, <1>3, <1>4 DEF Still, Quiet
<1>5. CASE Learns
  BY <1>1, <1>3, <1>5 DEF Learns, Quiet
<1>6. CASE Resumes
  <2>1. manifest'.nat \in Natives /\ route' = [NoRoute EXCEPT !.nat = manifest'.nat]
    BY <1>1, <1>6, TypeNextIs DEF Resumes, Manifests
  <2>2. route'.nat = manifest'.nat
    BY <2>1, ResumedIs
  <2> QED
    BY <1>3, <1>6, <2>2 DEF Resumes, Quiet
<1>7. CASE Switches
  <2>1. cand.nat \in Natives \cap DOMAIN natives /\ Added(Switch(cand.nat))
    BY <1>7 DEF Switches, Prepared, TypeOK, Natives
  <2>2. Switched' = Switched \cup {cand.nat} /\ Acked' = Acked
    BY <1>1, <2>1, SwitchAdded
  <2>3. manifest'.nat \in {manifest.nat, cand.nat} /\ route'.nat \in {route.nat, cand.nat}
    BY <1>7 DEF Switches
  <2> QED
    BY <2>2, <2>3 DEF Committed
<1>8. CASE Completes
  <2>1. route.nat \in Natives /\ turn \in Turns
    BY <1>8 DEF Completes, Asked, InTurn, History, TypeOK, Natives
  <2>2. \E m : Record(TurnBatch, m) \/ RecordFails(TurnBatch)
    BY <1>8 DEF Completes
  <2>3. Switched' = Switched /\ Acked' \subseteq Acked \cup {route.nat}
    BY <1>1, <2>1, <2>2, TurnRecorded
  <2> QED
    BY <1>3, <1>8, <2>3 DEF Completes
<1>9. CASE Fails
  BY <1>3, <1>9 DEF Fails, Quiet
<1>10. CASE Clears
  <2>1. route'.nat = route.nat
    BY <1>10, ClearedIs, TypeIs DEF Clears
  <2> QED
    BY <1>3, <1>10, <2>1 DEF Clears, Quiet
<1>11. CASE Receives
  BY <1>3, <1>11 DEF Receives, Quiet
<1> QED
  BY <1>4, <1>5, <1>6, <1>7, <1>8, <1>9, <1>10, <1>11, StepIs

(* What native sessions know grows by the one that gets the request, and    *)
(* what they confirmed by the one that answered it.                         *)
LEMMA Known ==
    ASSUME TypeOK, NamesExist, Asked, Told, Prepared, [Next]_vars
    PROVE  /\ DOMAIN natives \subseteq DOMAIN natives'
           /\ \A n \in DOMAIN natives : natives[n].known \subseteq natives'[n].known
           /\ \A n \in DOMAIN natives' : natives'[n].known # {} =>
                  \/ n \in DOMAIN natives /\ natives[n].known # {}
                  \/ n = route.nat /\ Receives
           /\ Acked \subseteq Acked' /\ Handed \subseteq Handed'
           /\ \A n \in Acked' \ Acked : n \in DOMAIN natives /\ natives[n].known # {}
<1>1. TypeOK' /\ Steady
  BY TypesKept
<1>2. Quiet => /\ Acked \subseteq Acked' /\ Handed \subseteq Handed'
               /\ Acked' \ Acked = {}
  BY DEF Quiet
<1>3. CASE Still \/ Resumes \/ Fails \/ Clears
  BY <1>2, <1>3 DEF Still, Resumes, Fails, Clears
<1>4. CASE Learns
  BY <1>2, <1>4 DEF Learns
<1>5. CASE Receives
  BY <1>2, <1>5 DEF Receives
<1>6. CASE Switches
  <2>1. cand.nat \in Natives \cap DOMAIN natives /\ Added(Switch(cand.nat))
    BY <1>6 DEF Switches, Prepared, TypeOK, Natives
  <2>2. Acked' = Acked /\ Handed' = Handed /\ natives' = natives
    BY <1>1, <1>6, <2>1, SwitchAdded DEF Switches
  <2> QED
    BY <2>2
<1>7. CASE Completes
  <2>1. route.nat \in Natives /\ turn \in Turns /\ route.nat \in DOMAIN natives
        /\ natives[route.nat].known # {}
    <3>1. step = "running" /\ route.nat # 0 /\ turn \in History
      BY <1>7 DEF Completes, Asked, InTurn
    <3>2. route.nat \in Natives /\ route.nat \in DOMAIN natives
      BY <3>1, TypeIs DEF Routes, Natives
    <3> QED
      BY <3>1, <3>2 DEF Told, History
  <2>2. \E m : Record(TurnBatch, m) \/ RecordFails(TurnBatch)
    BY <1>7 DEF Completes
  <2>3. /\ Handed' = Handed /\ Acked \subseteq Acked'
        /\ Acked' \subseteq Acked \cup {route.nat}
    BY <1>1, <2>1, <2>2, TurnRecorded
  <2> QED
    BY <1>7, <2>1, <2>3 DEF Completes
<1> QED
  BY <1>3, <1>4, <1>5, <1>6, <1>7, StepIs

(* So who knows of a request stays on record.                               *)
LEMMA KnowersKept ==
    ASSUME TypeOK, NamesExist, Asked, Told, Prepared, RouteOwes, SubmittedFirst,
           KnowersRecorded, [Next]_vars
    PROVE  KnowersRecorded'
<1>1. /\ DOMAIN natives = 1 .. Len(natives) /\ Len(natives) \in Nat
      /\ DOMAIN natives' = 1 .. Len(natives') /\ Len(natives') \in Nat
      /\ \A n \in Acked : n \in DOMAIN natives
  <2>1. \A n \in Acked : n \in DOMAIN natives
    BY DEF Acked, Logged, NamesExist, Delivered
  <2> QED
    BY <2>1, TypesKept, TypeIs, TypeNextIs
<1>2. ASSUME NEW n \in 2 .. Len(natives'), natives'[n].known # {}
      PROVE  n \in Acked' \cup Handed'
  <2>1. CASE n \in DOMAIN natives /\ natives[n].known # {}
    BY <1>1, <1>2, <2>1, Known DEF KnowersRecorded
  <2>2. CASE n = route.nat /\ Receives
    <3>1. n \in Acked \cup Handed
      BY <1>2, <2>2 DEF Receives, RouteOwes, SubmittedFirst
    <3> QED
      BY <3>1, Known
  <2> QED
    BY <1>1, <1>2, <2>1, <2>2, Known
<1>3. ASSUME NEW n \in Acked'
      PROVE  natives'[n].known # {}
  <2>1. n \in DOMAIN natives /\ natives[n].known # {}
    BY <1>1, <1>3, Known DEF KnowersRecorded
  <2> QED
    BY <2>1, Known
<1> QED
  BY <1>2, <1>3 DEF KnowersRecorded

(* No step leaves a session with more of the others unconfirmed, but for    *)
(* the one that gets the request.                                           *)
LEMMA OthersKept ==
    ASSUME TypeOK, NamesExist, Asked, Told, Prepared, [Next]_vars,
           NEW n, OthersUnconfirmed(n)'
    PROVE  OthersUnconfirmed(n) \/ (Receives /\ n # route.nat)
<1>1. /\ DOMAIN natives = 1 .. Len(natives) /\ Len(natives) \in Nat
      /\ DOMAIN natives' = 1 .. Len(natives') /\ Len(natives') \in Nat
  BY TypesKept, TypeIs, TypeNextIs
<1>2. PICK k \in 2 .. Len(natives') : k # n /\ natives'[k].known # {} /\ k \notin Acked'
  BY DEF OthersUnconfirmed
<1> QED
  BY <1>1, <1>2, Known DEF OthersUnconfirmed

(* A route that gets the request after others is told so, after every step. *)
LEMMA WarnedKept ==
    ASSUME TypeOK, NamesExist, Asked, Told, Prepared, RouteWarned, [Next]_vars
    PROVE  RouteWarned'
<1>1. ASSUME NEW k, k = route.nat, OthersUnconfirmed(k)'
      PROVE  OthersUnconfirmed(k)
  BY <1>1, OthersKept
<1>2. route' = route => RouteWarned'
  BY <1>1 DEF RouteWarned
<1>3. ~route'.hand => RouteWarned'
  BY DEF RouteWarned
<1>4. ~NoRoute.hand
  BY DEF NoRoute
<1>5. CASE Still \/ Learns
  BY <1>2, <1>3, <1>4, <1>5 DEF Still, Learns
<1>6. CASE Resumes
  <2>1. manifest'.nat \in Natives /\ route' = [NoRoute EXCEPT !.nat = manifest'.nat]
    BY <1>6, TypesKept, TypeNextIs DEF Resumes, Manifests
  <2> QED
    BY <1>3, <2>1, ResumedIs
<1>7. CASE Clears
  BY <1>3, <1>7, ClearedIs, TypeIs DEF Clears
<1>8. CASE Completes \/ Fails \/ Receives
  BY <1>2, <1>8 DEF Completes, Fails, Receives
<1>9. CASE Switches
  <2>1. CASE route' = [nat |-> cand.nat, hand |-> TRUE, ctx |-> cand.ctx,
                       warned |-> cand.warned]
    <3>1. PICK k : k = cand.nat
      OBVIOUS
    <3>2. OthersUnconfirmed(k)' => OthersUnconfirmed(k)
      BY <1>9, OthersKept DEF Switches, Receives
    <3>3. OthersUnconfirmed(k) => cand.warned
      BY <1>9, <3>1 DEF Switches, Prepared
    <3>4. route'.nat = k /\ (route'.warned <=> cand.warned)
      BY <2>1, <3>1
    <3> QED
      BY <3>2, <3>3, <3>4 DEF RouteWarned
  <2> QED
    BY <1>2, <1>9, <2>1 DEF Switches
<1> QED
  BY <1>5, <1>6, <1>7, <1>8, <1>9, StepIs

(* A candidate was just made of what the log says, or nothing was done with *)
(* it since.                                                                *)
LEMMA PreparedThen ==
    ASSUME TypeOK, NamesExist, Asked, Told, Prepared, KnowersRecorded, [Next]_vars,
           NEW p \in Providers, NEW m \in Manifests, Prepare(p, m),
           m.nat <= Len(natives), m.seq \in manifest.seq .. Len(log)
    PROVE  Prepared'
<1>1. /\ Len(natives') = Len(natives) + 1
      /\ natives'[Len(natives) + 1] = [prov |-> p, known |-> {}]
      /\ cand' = [nat |-> Len(natives) + 1, ctx |-> History,
                  warned |-> Unresolved # {}, seen |-> Len(log)]
  BY NewNative
<1>2. log' = log /\ manifest' = m /\ route' = route
  BY DEF Prepare
<1>3. /\ DOMAIN natives = 1 .. Len(natives) /\ Len(natives) \in Nat
      /\ Len(log) \in Nat /\ DOMAIN log = 1 .. Len(log)
      /\ route.nat <= Len(natives) /\ route.nat \in Nat /\ m.nat \in Nat
  BY TypeIs DEF Routes, Manifests, Natives
<1>4. History' = History /\ Switched' = Switched /\ Acked' = Acked
  BY <1>2, TypesKept, Unlogged DEF Quiet
<1>5. \A n \in Switched \cup Acked : n \in DOMAIN natives
  BY DEF Switched, Acked, Logged, NamesExist, Switch, Delivered
<1>6. ASSUME NEW c, c = Len(natives) + 1, OthersUnconfirmed(c)'
      PROVE  Unresolved # {}
  <2>1. OthersUnconfirmed(c)
    BY <1>6, OthersKept DEF Prepare, Receives
  <2>2. PICK k \in 2 .. Len(natives) : natives[k].known # {} /\ k \notin Acked
    BY <2>1 DEF OthersUnconfirmed
  <2>3. k \in Handed
    BY <2>2 DEF KnowersRecorded
  <2>4. PICK i \in DOMAIN log : log[i] = Submitted(k)
    BY <2>3 DEF Handed, Logged
  <2>5. \A j \in DOMAIN log : log[j] # Delivered(k)
    BY <2>2, <2>3 DEF Acked, Handed, Logged
  <2>6. k \in Unresolved
    BY <1>3, <2>4, <2>5 DEF Unresolved
  <2> QED
    BY <2>6
<1>7. /\ cand'.nat = Len(natives) + 1 /\ cand'.ctx = History
      /\ (cand'.warned <=> Unresolved # {}) /\ cand'.seen = Len(log)
  BY <1>1
<1>8. PICK c : c = Len(natives) + 1
  OBVIOUS
<1>9. OthersUnconfirmed(cand.nat)' => cand'.warned
  BY <1>6, <1>7, <1>8
<1>10. cand'.nat \notin Switched' \cup Acked'
  BY <1>3, <1>4, <1>5, <1>7
<1>11. manifest'.nat # cand'.nat /\ route'.nat # cand'.nat
  BY <1>2, <1>3, <1>7
<1>12. natives'[cand'.nat].known = {}
  BY <1>1, <1>7
<1>13. cand'.nat = Len(natives') /\ cand'.seen <= Len(log') /\ cand'.ctx = History'
  BY <1>1, <1>2, <1>3, <1>4, <1>7
<1> QED
  BY <1>9, <1>10, <1>11, <1>12, <1>13 DEF Prepared

(* The candidate stays what it was made, as long as it is prepared.        *)
LEMMA PreparedKept ==
    ASSUME TypeOK, NamesExist, Asked, Told, Prepared, KnowersRecorded, [Next]_vars
    PROVE  Prepared'
<1>1. ASSUME step' # "prepare"
      PROVE  Prepared'
  BY <1>1 DEF Prepared
<1>2. ASSUME NEW p \in Providers, Reconcilable, Prepare(p, Reconciled)
      PROVE  Prepared'
  <2>1. manifest.seq \in Nat /\ Len(log) \in Nat /\ manifest.seq <= Len(log)
    BY DEF TypeOK
  <2>2. /\ Reconciled \in Manifests /\ Reconciled.nat <= Len(natives)
        /\ Reconciled.seq \in manifest.seq .. Len(log)
    BY <1>2, <2>1, ReconciledType
  <2> QED
    BY <1>2, <2>2, PreparedThen
<1>3. ASSUME step = "prepare", natives' = natives, cand' = cand, route' = route,
             manifest'.nat = manifest.nat, Quiet, ~Receives,
             log' = log \/ (Added(Note) /\ Len(log') = Len(log) + 1)
      PROVE  Prepared'
  <2>1. cand.seen <= Len(log) /\ Len(log) \in Nat /\ cand.seen \in Nat
    BY <1>3 DEF Prepared, TypeOK
  <2>2. log' = log => History' = History
    BY <1>3, TypesKept, Unlogged
  <2>3. /\ cand.seen <= Len(log')
        /\ cand.seen = Len(log') => cand.ctx = History'
    BY <1>3, <2>1, <2>2 DEF Prepared
  <2>4. ASSUME NEW c, c = cand.nat, OthersUnconfirmed(c)'
        PROVE  cand.warned
    BY <1>3, <2>4, OthersKept DEF Prepared
  <2>5. OthersUnconfirmed(cand.nat)' => cand'.warned
    <3>1. PICK c : c = cand.nat
      OBVIOUS
    <3> QED
      BY <1>3, <2>4, <3>1
  <2>6. Switched' = Switched /\ Acked' = Acked
    BY <1>3 DEF Quiet
  <2> QED
    BY <1>3, <2>3, <2>5, <2>6 DEF Prepared
<1>4. CASE Refresh \/ UNCHANGED vars
  <2>1. /\ log' = log /\ natives' = natives /\ cand' = cand /\ route' = route /\ step' = step
        /\ manifest'.nat = manifest.nat
    BY <1>4, TypeIs DEF Refresh, vars, Manifests
  <2>2. Quiet
    BY <2>1, TypesKept, Unlogged
  <2> QED
    BY <1>1, <1>3, <2>1, <2>2 DEF Receives
<1>5. CASE AppendNote
  <2>1. Note \in Events /\ Note.kind = "note"
    BY DEF Events, Note
  <2>2. Added(Note) /\ Quiet
    BY <1>5, <2>1, OneRecorded, QuietlyAdded, TypesKept DEF AppendNote
  <2>3. manifest'.nat = manifest.nat
    BY <1>5, TypeIs DEF AppendNote, Record, Manifests
  <2> QED
    BY <1>1, <1>3, <1>5, <2>2, <2>3 DEF AppendNote, Added, Receives
<1>6. CASE \E p \in Providers : BeginSwitch(p)
  BY <1>2, <1>6 DEF BeginSwitch
<1>7. CASE OpenPending
  <2>1. Reconcilable /\ Reconciled.prov \in Providers
    BY <1>7, ReconciledType DEF OpenPending, Manifests
  <2> QED
    BY <1>1, <1>2, <1>7, <2>1 DEF OpenPending, ResumeNative
<1>8. CASE SwitchRefused \/ OpenNative
  BY <1>1, <1>8 DEF SwitchRefused, OpenNative, ResumeNative
<1>9. CASE CandidateFails \/ CommitSwitch \/ CommitFails
  BY <1>1, <1>9 DEF CandidateFails, CommitSwitch, CommitFails
<1>10. CASE Recover \/ RecoverAborted \/ FinishSwitch \/ TurnRaises \/ Restart
  BY <1>1, <1>10 DEF Recover, RecoverAborted, FinishSwitch, TurnRaises, Restart
<1>11. CASE BeginTurn \/ Submit \/ ProviderReceives
  BY <1>1, <1>11 DEF BeginTurn, Submit, ProviderReceives
<1>12. CASE TurnCompletes \/ TurnFails \/ RefreshTurn
  BY <1>1, <1>12 DEF TurnCompletes, TurnFails, TurnEnds, RefreshTurn
<1> QED
  BY <1>4, <1>5, <1>6, <1>7, <1>8, <1>9, <1>10, <1>11, <1>12 DEF Next
-----------------------------------------------------------------------------
(* The invariant holds at first, is kept, and says what it is for.          *)
LEMMA InvInitially == Init => IInv
<1> SUFFICES ASSUME Init
             PROVE  IInv
  OBVIOUS
<1> DEFINE x == [prov |-> First, known |-> {}]
<1>1. /\ log = <<>> /\ Len(log) = 0 /\ DOMAIN log = {} /\ log \in Seq(Events)
      /\ manifest = [prov |-> First, nat |-> 1, seq |-> 0]
      /\ step = "idle" /\ turn = 0 /\ cand = NoCand /\ adopted = TRUE
      /\ x \in Sessions
  BY HandoffAssumption DEF Init, Sessions
<1>2. natives = <<x>>
  BY DEF Init
<1>3. 1 \in Natives /\ manifest \in Manifests /\ manifest.nat = 1 /\ manifest.seq = 0
  BY <1>1, HandoffAssumption DEF Natives, Manifests
<1>4. route \in Routes /\ route.nat = 1 /\ ~route.hand /\ route.ctx = {}
  BY <1>3, ResumedIs DEF Init
<1>5. /\ natives \in Seq(Sessions) /\ Len(natives) = 1 /\ DOMAIN natives = {1}
      /\ natives[1] = x
  <2> HIDE DEF x
  <2> QED
    BY <1>1, <1>2
<1>6. \A e : ~Logged(e)
  BY <1>1 DEF Logged
<1>7. Finished = {} /\ Switched = {} /\ Acked = {}
  BY <1>6 DEF Finished, Switched, Acked
<1>8. \A n : /\ ~FreshAck(n) /\ ~AheadAck(n) /\ ~AheadSwitch(n)
  BY <1>1 DEF FreshAck, AheadAck, AheadSwitch
<1>9. TypeOK
  BY <1>1, <1>3, <1>4, <1>5, NothingIs, TypeIs, HandoffAssumption
<1>10. NamesExist /\ Staged
  BY <1>1, <1>4, <1>7 DEF NamesExist, Staged, Asked, Told, ClearedLast, SubmittedFirst, InTurn
<1>11. Prepared /\ Committed /\ KnowersRecorded /\ RouteWarned
  BY <1>1, <1>3, <1>4, <1>5, <1>7 DEF Prepared, Committed, KnowersRecorded, RouteWarned
<1>12. Covered
  BY <1>3, <1>4, <1>7, <1>8 DEF Covered, RouteCovered, ManifestCovered, AckCovered,
     RouteNamed, AckKnown, SwitchKnown, RouteOwes
<1> QED
  BY <1>9, <1>10, <1>11, <1>12 DEF IInv, Staged, Covered

(* Every step keeps the invariant.                                          *)
LEMMA InvKept == IInv /\ [Next]_vars => IInv'
<1> SUFFICES ASSUME IInv, [Next]_vars
             PROVE  IInv'
  OBVIOUS
<1>1. TypeOK' /\ NamesExist'
  BY TypesKept DEF IInv
<1>2. Staged'
  BY StagedKept DEF IInv, Staged
<1>3. Covered'
  BY CoveredKept DEF IInv, Covered
<1>4. Prepared'
  BY PreparedKept DEF IInv
<1>5. Committed'
  BY CommittedKept DEF IInv
<1>6. KnowersRecorded'
  BY KnowersKept DEF IInv
<1>7. RouteWarned'
  BY WarnedKept DEF IInv
<1> QED
  BY <1>1, <1>2, <1>3, <1>4, <1>5, <1>6, <1>7 DEF IInv, Staged, Covered

(* The inductive invariant holds of every behaviour.                        *)
THEOREM InvHolds == Spec => []IInv
<1>1. Init => IInv
  BY InvInitially
<1>2. IInv /\ [Next]_vars => IInv'
  BY InvKept
<1> QED
  BY <1>1, <1>2, PTL DEF Spec

(* Whoever works on a request has been told of every turn the conversation  *)
(* completed, whatever was switched, lost, retried or restored before       *)
(* (_switch_session, restore_session, ContextSnapshots.reconcile).          *)
THEOREM WorksWithContext == Spec => []ContextComplete
<1>1. IInv => ContextComplete
  <2> SUFFICES ASSUME IInv, step = "running"
               PROVE  Finished \subseteq natives[route.nat].known
    BY DEF ContextComplete
  <2>1. route.nat # 0 /\ route.ctx \subseteq natives[route.nat].known
    BY DEF IInv, Asked, Told, InTurn
  <2> QED
    BY <2>1 DEF IInv, RouteCovered
<1> QED
  BY <1>1, InvHolds, PTL

(* A route that owes no history goes to a session that confirmed, what is   *)
(* confirmed was received, the manifest names no switch without a record,   *)
(* and a harness that gets the request after another may have worked on it  *)
(* is told so.                                                              *)
THEOREM ConfirmedHolds == Spec => []Confirmed
<1>1. IInv => Confirmed
  <2> SUFFICES ASSUME IInv
               PROVE  Confirmed
    OBVIOUS
  <2>1. /\ manifest.nat \in Natives /\ route.nat \in 0 .. MaxNatives
        /\ DOMAIN natives = 1 .. Len(natives) /\ Len(natives) \in Natives
        /\ NoRoute.nat = 0
        /\ DOMAIN natives \subseteq Natives
    <3>1. TypeOK
      BY DEF IInv
    <3> QED
      BY <3>1, TypeIs, NothingIs, HandoffAssumption DEF Manifests, Routes, Natives
  <2>2. ResumeOnlyAcknowledged
    <3> SUFFICES ASSUME route # NoRoute, ~route.hand, route.nat # 1
                 PROVE  Logged(Delivered(route.nat))
      BY DEF ResumeOnlyAcknowledged
    <3>1. route.nat # 0
      BY DEF IInv, NamesExist
    <3>2. route.nat \in Acked
      BY <3>1 DEF IInv, RouteOwes
    <3> QED
      BY <3>2 DEF Acked
  <2>3. NoFalseAcknowledgement
    BY <2>1 DEF NoFalseAcknowledgement, IInv, KnowersRecorded, Acked
  <2>4. ManifestCommitted
    <3>1. manifest.nat # 0 /\ (manifest.nat = 1 \/ manifest.nat \in Switched)
      BY <2>1 DEF IInv, Committed, Natives
    <3> QED
      BY <3>1 DEF ManifestCommitted, Switched
  <2>5. WarnedOfUnconfirmed
    <3> SUFFICES ASSUME step = "running", route.hand, NEW n \in 2 .. Len(natives),
                        n # route.nat, natives[n].known # {}, ~Logged(Delivered(n))
                 PROVE  route.warned
      BY DEF WarnedOfUnconfirmed
    <3>1. OthersUnconfirmed(route.nat)
      BY DEF OthersUnconfirmed, Acked
    <3> QED
      BY <3>1 DEF IInv, RouteWarned
  <2> QED
    BY <2>2, <2>3, <2>4, <2>5 DEF Confirmed, IInv
<1> QED
  BY <1>1, InvHolds, PTL

------------------------------------------------------------------------------
(* The history a switch hands over (Snapshots).                             *)

\* What a log holds.
Event ==
    [kind : {"user", "answer", "fragment", "tool", "switch", "rewind"}, of : Nat]

\* What the variables hold.
HistoryTypes ==
    /\ events \in Seq(Event)
    /\ lease \in Processes \cup {None} /\ slipped \subseteq Processes
    /\ op = [p \in Processes |-> op[p]]
    /\ serving = [p \in Processes |-> serving[p]]
    /\ \A p \in Processes :
         /\ op[p].at \in {"idle", "objects", "candidate", "commit", "turn"}
         /\ op[p].at \in {"objects", "candidate", "commit"} =>
              op[p] = [at |-> op[p].at, snap |-> op[p].snap]
         /\ serving[p] # None => serving[p] = [snap |-> serving[p].snap, at |-> serving[p].at]

\* A snapshot is made of what the log began with.
Made(s) ==
    /\ s.source \in Seq(Event) /\ Len(s.source) <= Len(events)
    /\ SubSeq(events, 1, Len(s.source)) = s.source
    /\ s.records = Given!Projected(s.source)

\* Those that are published can be read.
Readable == \A s \in snaps : Made(s) /\ s.records \subseteq objects

\* Who holds the lease is the only one that switches or has a turn.
Leased(p) ==
    /\ op[p].at # "idle" => lease = p
    /\ op[p].at = "turn" => serving[p] # None

\* The snapshot of a switch under way is of the log as it is, unless something
\* slipped in after the comparison.
Switching(p) ==
    /\ op[p].at \in {"objects", "candidate", "commit"} => Made(op[p].snap)
    /\ op[p].at \in {"candidate", "commit"} => op[p].snap \in snaps
    /\ op[p].at = "commit" => /\ p \notin slipped => events = op[p].snap.source
                              /\ Given!Omits(op[p].snap) => reads

\* What a route owes is published, and is what came before its switch.
OwesWhole(p) == Given!Pending(p) =>
    /\ serving[p].snap \in snaps
    /\ serving[p].at \in Nat /\ serving[p].at - 1 \in 0 .. Len(events)
    /\ p \notin slipped => serving[p].snap.source = SubSeq(events, 1, serving[p].at - 1)
    /\ Given!Omits(serving[p].snap) => reads

HistoryInv ==
    /\ HistoryTypes /\ Readable
    /\ \A p \in Processes : Leased(p) /\ Switching(p) /\ OwesWhole(p)

\* A log with one more record begins as it did.
LEMMA LogGrows ==
  ASSUME NEW l \in Seq(Event), NEW e \in Event
  PROVE  /\ Append(l, e) \in Seq(Event) /\ Len(Append(l, e)) = Len(l) + 1
         /\ Len(l) \in Nat
         /\ \A n \in 0 .. Len(l) : SubSeq(Append(l, e), 1, n) = SubSeq(l, 1, n)
         /\ SubSeq(l, 1, Len(l)) = l
  <1>1. /\ Append(l, e) \in Seq(Event) /\ Len(Append(l, e)) = Len(l) + 1
        /\ Len(l) \in Nat /\ \A i \in 1 .. Len(l) : Append(l, e)[i] = l[i]
    OBVIOUS
  <1>2. ASSUME NEW n \in 0 .. Len(l)
        PROVE  SubSeq(Append(l, e), 1, n) = SubSeq(l, 1, n)
    <2> DEFINE a == SubSeq(Append(l, e), 1, n)
               b == SubSeq(l, 1, n)
    <2>1. n \in Nat /\ n <= Len(l) /\ n <= Len(Append(l, e))
      BY <1>1
    <2>2. a \in Seq(Event) /\ Len(a) = n /\ \A i \in 1 .. n : a[i] = Append(l, e)[i]
      BY <1>1, <2>1
    <2>3. b \in Seq(Event) /\ Len(b) = n /\ \A i \in 1 .. n : b[i] = l[i]
      BY <1>1, <2>1
    <2> HIDE DEF a, b
    <2>4. \A i \in 1 .. n : a[i] = b[i]
      BY <1>1, <2>1, <2>2, <2>3
    <2>5. a = b
      BY <2>2, <2>3, <2>4
    <2> QED
      BY <2>5 DEF a, b
  <1>3. SubSeq(l, 1, Len(l)) = l
    OBVIOUS
  <1> QED
    BY <1>1, <1>2, <1>3

\* A snapshot that was made of the log's beginning stays one.
LEMMA MadeStays ==
  ASSUME HistoryTypes, NEW e \in Event, events' = Append(events, e), NEW s, Made(s)
  PROVE  Made(s)'
  <1>1. /\ events \in Seq(Event) /\ Len(events') = Len(events) + 1 /\ Len(events) \in Nat
        /\ \A n \in 0 .. Len(events) : SubSeq(events', 1, n) = SubSeq(events, 1, n)
    BY LogGrows DEF HistoryTypes
  <1>2. Len(s.source) \in 0 .. Len(events)
    BY <1>1 DEF Made
  <1> QED
    BY <1>1, <1>2 DEF Made, Given!Projected, Given!Active, Given!Hidden

\* What the log does to the snapshots that are published.
LEMMA ReadableStays ==
  ASSUME HistoryTypes, Readable, NEW e \in Event,
         events' = Append(events, e), UNCHANGED <<objects, snaps>>
  PROVE  Readable'
  BY MadeStays DEF Readable

\* A process that an append is no business of, unless it slips in between its
\* comparison and its commit.
LEMMA OthersLogged ==
  ASSUME HistoryInv, NEW e \in Event, events' = Append(events, e),
         UNCHANGED <<snaps, reads>>, NEW q \in Processes,
         op'[q] = op[q], serving'[q] = serving[q],
         q \in slipped => q \in slipped',
         op[q].at = "commit" => q \in slipped'
  PROVE  Switching(q)' /\ OwesWhole(q)'
  <1>1. events \in Seq(Event) /\ Switching(q) /\ OwesWhole(q) /\ HistoryTypes
    BY DEF HistoryInv, HistoryTypes
  <1>2. /\ Len(events') = Len(events) + 1 /\ Len(events) \in Nat
        /\ \A n \in 0 .. Len(events) : SubSeq(events', 1, n) = SubSeq(events, 1, n)
    BY <1>1, LogGrows
  <1>3. Switching(q)'
    <2>1. op[q].at \in {"objects", "candidate", "commit"} => Made(op[q].snap)'
      BY <1>1, MadeStays DEF Switching
    <2> QED
      BY <1>1, <2>1 DEF Switching, Given!Omits, Made
  <1>4. OwesWhole(q)'
    BY <1>1, <1>2 DEF OwesWhole, Given!Pending, Given!Omits
  <1> QED
    BY <1>3, <1>4

\* A process that the step of another one leaves where it is.
LEMMA OthersStay ==
  ASSUME HistoryInv, UNCHANGED <<events, reads>>, snaps \subseteq snaps', NEW q \in Processes,
         op'[q] = op[q], serving'[q] = serving[q],
         q \in slipped => q \in slipped'
  PROVE  Switching(q)' /\ OwesWhole(q)'
  <1>1. Switching(q) /\ OwesWhole(q)
    BY DEF HistoryInv
  <1>2. \A s : Made(s) => Made(s)'
    BY DEF Made, Given!Projected, Given!Active, Given!Hidden
  <1>3. Switching(q)'
    BY <1>1, <1>2 DEF Switching, Given!Omits
  <1> QED
    BY <1>1, <1>3 DEF OwesWhole, Given!Pending, Given!Omits

\* Nobody but who holds the lease is at anything.
LEMMA OneAtATime ==
  ASSUME HistoryInv, None \notin Processes, NEW p \in Processes, NEW q \in Processes, q # p,
         lease = None \/ op[p].at # "idle"
  PROVE  op[q].at = "idle"
  BY DEF HistoryInv, Leased

\* The invariant holds at the start: nothing is logged, published or owed.
LEMMA HistoryInit == Given!Init => HistoryInv
  <1> SUFFICES ASSUME Given!Init
               PROVE  HistoryInv
    OBVIOUS
  <1>1. \A p \in Processes : op[p].at = "idle" /\ serving[p] = None
    BY DEF Given!Init, Given!Idle
  <1>2. HistoryTypes
    BY <1>1 DEF HistoryTypes, Given!Init, Given!Idle
  <1>3. Readable
    BY DEF Readable, Given!Init
  <1> QED
    BY <1>1, <1>2, <1>3 DEF HistoryInv, Leased, Switching, OwesWhole, Given!Pending

\* A snapshot is taken of the whole log.
LEMMA HistoryBeginSwitchKeeps ==
  ASSUME HistoryInv, None \notin Processes, NEW p \in Processes, Given!BeginSwitch(p)
  PROVE  HistoryInv'
  <1>0. PICK o : o = [at |-> "objects", snap |-> Given!Snapshot(events)]
    OBVIOUS
  <1>1. /\ op' = [op EXCEPT ![p] = o] /\ lease = None /\ lease' = p /\ op[p].at = "idle"
        /\ UNCHANGED <<events, objects, snaps, serving, reads, slipped>>
    BY <1>0 DEF Given!BeginSwitch, Given!Take, Given!Idle
  <1>2. o.at = "objects" /\ o.snap.source = events /\ o.snap.records = Given!Projected(events)
    BY <1>0 DEF Given!Snapshot
  <1>3. HistoryTypes'
    BY <1>0, <1>1, <1>2 DEF HistoryInv, HistoryTypes
  <1>4. Readable'
    BY <1>1 DEF HistoryInv, Readable, Made, Given!Projected, Given!Active, Given!Hidden
  <1>5. op'[p] = o /\ \A q \in Processes : q # p => op'[q] = op[q]
    BY <1>1 DEF HistoryInv, HistoryTypes
  <1>6. ASSUME NEW q \in Processes
        PROVE  Leased(q)' /\ Switching(q)' /\ OwesWhole(q)'
    <2>1. CASE q = p
      <3>1. Leased(q)'
        BY <1>1, <1>2, <1>5, <2>1 DEF Leased
      <3>2. Made(o.snap)'
        <4>1. events \in Seq(Event)
          BY DEF HistoryInv, HistoryTypes
        <4>2. SubSeq(events, 1, Len(events)) = events /\ Len(events) <= Len(events)
          BY <4>1
        <4> QED
          BY <1>1, <1>2, <4>1, <4>2
          DEF Made, Given!Projected, Given!Active, Given!Hidden
      <3>3. Switching(q)'
        BY <1>2, <1>5, <2>1, <3>2 DEF Switching
      <3>4. OwesWhole(q)'
        BY <1>1 DEF HistoryInv, OwesWhole, Given!Pending, Given!Omits
      <3> QED
        BY <3>1, <3>3, <3>4
    <2>2. CASE q # p
      <3>1. op[q].at = "idle" /\ Leased(q)'
        BY <1>1, <1>5, <2>2, OneAtATime DEF Leased
      <3> QED
        BY <1>1, <1>5, <2>2, <3>1, OthersStay
    <2> QED
      BY <2>1, <2>2
  <1> QED
    BY <1>3, <1>4, <1>6 DEF HistoryInv

\* The snapshot is published when all that it is made of is.
LEMMA HistoryPublishKeeps ==
  ASSUME HistoryInv, None \notin Processes, NEW p \in Processes, Given!Publish(p)
  PROVE  HistoryInv'
  <1>1. /\ op[p].at = "objects"
        /\ UNCHANGED <<events, lease, serving, reads, slipped>>
        /\ objects \subseteq objects' /\ snaps \subseteq snaps'
        /\ op' = op \/ op' = [op EXCEPT ![p].at = "candidate"]
        /\ \/ snaps' = snaps
           \/ /\ snaps' = snaps \cup {op[p].snap} /\ op[p].snap.records \subseteq objects'
        /\ op' # op => op[p].snap \in snaps'
    BY DEF Given!Publish
  <1>2. /\ \A q \in Processes : q # p => op'[q] = op[q]
        /\ op'[p] = op[p] \/ op'[p] = [at |-> "candidate", snap |-> op[p].snap]
        /\ op' = [q \in Processes |-> op'[q]]
        /\ Made(op[p].snap)
    BY <1>1 DEF HistoryInv, HistoryTypes, Switching
  <1>3. HistoryTypes'
    BY <1>1, <1>2 DEF HistoryInv, HistoryTypes
  <1>4. \A s : Made(s) => Made(s)'
    BY <1>1 DEF Made, Given!Projected, Given!Active, Given!Hidden
  <1>5. Readable'
    BY <1>1, <1>2, <1>4 DEF HistoryInv, Readable
  <1>6. ASSUME NEW q \in Processes
        PROVE  Leased(q)' /\ Switching(q)' /\ OwesWhole(q)'
    <2>1. CASE q = p
      <3>1. Leased(q)'
        BY <1>1, <1>2, <2>1 DEF HistoryInv, Leased
      <3>2. Switching(q)'
        <4>1. Made(op[p].snap)'
          BY <1>1, <1>2, <1>4
        <4>2. CASE op' = op
          BY <1>1, <2>1, <1>4, <4>2 DEF HistoryInv, Switching, Given!Omits
        <4>3. CASE op' # op
          BY <1>1, <1>2, <2>1, <1>4, <4>3 DEF Switching
        <4> QED
          BY <4>2, <4>3
      <3>3. OwesWhole(q)'
        BY <1>1 DEF HistoryInv, OwesWhole, Given!Pending, Given!Omits
      <3> QED
        BY <3>1, <3>2, <3>3
    <2>2. CASE q # p
      <3>1. op[q].at = "idle" /\ Leased(q)'
        BY <1>1, <1>2, <2>2, OneAtATime DEF Leased
      <3> QED
        BY <1>1, <1>2, <2>2, <3>1, OthersStay
    <2> QED
      BY <2>1, <2>2
  <1> QED
    BY <1>3, <1>5, <1>6 DEF HistoryInv

\* Whoever gets as far as its commit holds a snapshot of the log as it is.
LEMMA HistoryCompareKeeps ==
  ASSUME HistoryInv, None \notin Processes, NEW p \in Processes, Given!Compare(p)
  PROVE  HistoryInv'
  <1>1. /\ op[p].at = "candidate" /\ UNCHANGED <<events, objects, snaps, serving, reads, slipped>>
        /\ \/ op' = [op EXCEPT ![p] = Given!Idle] /\ lease' = None
           \/ /\ op' = [op EXCEPT ![p].at = "commit"] /\ lease' = lease
              /\ events = op[p].snap.source /\ (Given!Omits(op[p].snap) => reads)
    BY DEF Given!Compare, Given!Release
  <1>2. /\ \A q \in Processes : q # p => op'[q] = op[q]
        /\ op' = [q \in Processes |-> op'[q]]
        /\ \/ op'[p] = [at |-> "idle"] /\ lease' = None
           \/ /\ op'[p] = [at |-> "commit", snap |-> op[p].snap] /\ lease' = lease
              /\ events = op[p].snap.source /\ (Given!Omits(op[p].snap) => reads)
        /\ Made(op[p].snap) /\ op[p].snap \in snaps
    BY <1>1 DEF HistoryInv, HistoryTypes, Switching, Given!Idle
  <1>3. HistoryTypes'
    BY <1>1, <1>2 DEF HistoryInv, HistoryTypes
  <1>4. \A s : Made(s) => Made(s)'
    BY <1>1 DEF Made, Given!Projected, Given!Active, Given!Hidden
  <1>5. Readable'
    BY <1>1, <1>4 DEF HistoryInv, Readable
  <1>6. ASSUME NEW q \in Processes
        PROVE  Leased(q)' /\ Switching(q)' /\ OwesWhole(q)'
    <2>1. CASE q = p
      <3>1. Leased(q)'
        BY <1>1, <1>2, <2>1 DEF HistoryInv, Leased
      <3>2. Switching(q)'
        BY <1>1, <1>2, <1>4, <2>1 DEF Switching, Given!Omits
      <3>3. OwesWhole(q)'
        BY <1>1 DEF HistoryInv, OwesWhole, Given!Pending, Given!Omits
      <3> QED
        BY <3>1, <3>2, <3>3
    <2>2. CASE q # p
      <3>1. op[q].at = "idle" /\ Leased(q)'
        BY <1>1, <1>2, <2>2, OneAtATime DEF Leased
      <3> QED
        BY <1>1, <1>2, <2>2, <3>1, OthersStay
    <2> QED
      BY <2>1, <2>2
  <1> QED
    BY <1>3, <1>5, <1>6 DEF HistoryInv

\* A switch that commits owes what came before it.
LEMMA HistoryCommitKeeps ==
  ASSUME HistoryInv, None \notin Processes, NEW p \in Processes, Given!Commit(p)
  PROVE  HistoryInv'
  <1>0. Given!Event("switch") \in Event
    BY DEF Given!Event, Event
  <1>1. PICK e \in Event : events' = Append(events, e)
    BY <1>0 DEF Given!Commit, Given!Append1
  <1>2. /\ op[p].at = "commit" /\ lease' = None
        /\ UNCHANGED <<objects, snaps, reads, slipped>>
        /\ op' = [op EXCEPT ![p] = Given!Idle]
        /\ serving' = [serving EXCEPT ![p] = [snap |-> op[p].snap, at |-> Len(events) + 1]]
    BY DEF Given!Commit, Given!Release
  <1>3. /\ \A q \in Processes : q # p => op'[q] = op[q] /\ serving'[q] = serving[q]
        /\ op' = [q \in Processes |-> op'[q]] /\ op'[p] = [at |-> "idle"]
        /\ serving' = [q \in Processes |-> serving'[q]]
        /\ serving'[p] = [snap |-> op[p].snap, at |-> Len(events) + 1]
        /\ events \in Seq(Event)
    BY <1>2 DEF HistoryInv, HistoryTypes, Given!Idle
  <1>4. /\ events' \in Seq(Event) /\ Len(events') = Len(events) + 1 /\ Len(events) \in Nat
        /\ SubSeq(events', 1, Len(events)) = events
    BY <1>1, <1>3, LogGrows
  <1>5. HistoryTypes'
    BY <1>2, <1>3, <1>4 DEF HistoryInv, HistoryTypes
  <1>6. Readable'
    BY <1>1, <1>2, ReadableStays DEF HistoryInv
  <1>7. ASSUME NEW q \in Processes
        PROVE  Leased(q)' /\ Switching(q)' /\ OwesWhole(q)'
    <2>1. CASE q = p
      <3>1. Leased(q)' /\ Switching(q)'
        BY <1>3, <2>1 DEF Leased, Switching
      <3>2. /\ op[p].snap \in snaps /\ (Given!Omits(op[p].snap) => reads)
            /\ p \notin slipped => events = op[p].snap.source
        BY <1>2 DEF HistoryInv, Switching
      <3>3. /\ Len(events) + 1 \in Nat /\ Len(events) + 1 - 1 = Len(events)
            /\ Len(events) \in 0 .. Len(events')
        BY <1>4
      <3>4. OwesWhole(q)'
        BY <1>2, <1>3, <1>4, <2>1, <3>2, <3>3 DEF OwesWhole, Given!Omits
      <3> QED
        BY <3>1, <3>4
    <2>2. CASE q # p
      <3>1. op[q].at = "idle" /\ Leased(q)'
        BY <1>2, <1>3, <2>2, OneAtATime DEF Leased
      <3> QED
        BY <1>1, <1>2, <1>3, <2>2, <3>1, OthersLogged
    <2> QED
      BY <2>1, <2>2
  <1> QED
    BY <1>5, <1>6, <1>7 DEF HistoryInv

\* A native session that is resumed owes nothing.
LEMMA HistoryResumeKeeps ==
  ASSUME HistoryInv, None \notin Processes, NEW p \in Processes, Given!Resume(p)
  PROVE  HistoryInv'
  <1>1. /\ op[p].at = "idle" /\ UNCHANGED <<events, objects, snaps, lease, op, reads>>
        /\ serving' = [serving EXCEPT ![p] = [snap |-> None, at |-> Len(events)]]
        /\ slipped' = slipped \ {p}
    BY DEF Given!Resume, Given!Idle
  <1>2. /\ \A q \in Processes : q # p => op'[q] = op[q] /\ serving'[q] = serving[q]
        /\ serving' = [q \in Processes |-> serving'[q]]
        /\ serving'[p] = [snap |-> None, at |-> Len(events)]
    BY <1>1 DEF HistoryInv, HistoryTypes
  <1>3. HistoryTypes'
    BY <1>1, <1>2 DEF HistoryInv, HistoryTypes
  <1>4. \A s : Made(s) => Made(s)'
    BY <1>1 DEF Made, Given!Projected, Given!Active, Given!Hidden
  <1>5. Readable'
    BY <1>1, <1>4 DEF HistoryInv, Readable
  <1>6. ASSUME NEW q \in Processes
        PROVE  Leased(q)' /\ Switching(q)' /\ OwesWhole(q)'
    <2>1. CASE q = p
      BY <1>1, <1>2, <2>1 DEF Leased, Switching, OwesWhole, Given!Pending
    <2>2. CASE q # p
      <3>1. Leased(q)'
        BY <1>1, <1>2, <2>2 DEF HistoryInv, Leased
      <3>2. Switching(q)' /\ OwesWhole(q)'
        BY <1>1, <1>2, <2>2, OthersStay
      <3> QED
        BY <3>1, <3>2
    <2> QED
      BY <2>1, <2>2
  <1> QED
    BY <1>3, <1>5, <1>6 DEF HistoryInv

\* A turn begins with the lease and a route.
LEMMA HistoryBeginTurnKeeps ==
  ASSUME HistoryInv, None \notin Processes, NEW p \in Processes, Given!BeginTurn(p)
  PROVE  HistoryInv'
  <1>0. Given!Event("user") \in Event
    BY DEF Given!Event, Event
  <1>1. PICK e \in Event : events' = Append(events, e)
    BY <1>0 DEF Given!BeginTurn, Given!Append1
  <1>2. /\ op[p].at = "idle" /\ serving[p] # None /\ lease = None /\ lease' = p
        /\ UNCHANGED <<objects, snaps, serving, reads, slipped>>
        /\ op' = [op EXCEPT ![p] = [at |-> "turn"]]
    BY DEF Given!BeginTurn, Given!Take, Given!Same, Given!Idle
  <1>3. /\ \A q \in Processes : q # p => op'[q] = op[q]
        /\ op' = [q \in Processes |-> op'[q]] /\ op'[p] = [at |-> "turn"]
        /\ events \in Seq(Event)
    BY <1>2 DEF HistoryInv, HistoryTypes
  <1>4. /\ events' \in Seq(Event) /\ Len(events') = Len(events) + 1 /\ Len(events) \in Nat
        /\ \A n \in 0 .. Len(events) : SubSeq(events', 1, n) = SubSeq(events, 1, n)
    BY <1>1, <1>3, LogGrows
  <1>5. HistoryTypes'
    BY <1>2, <1>3, <1>4 DEF HistoryInv, HistoryTypes
  <1>6. Readable'
    BY <1>1, <1>2, ReadableStays DEF HistoryInv
  <1>7. ASSUME NEW q \in Processes
        PROVE  Leased(q)' /\ Switching(q)' /\ OwesWhole(q)'
    <2>1. CASE q = p
      <3>1. Leased(q)' /\ Switching(q)'
        BY <1>2, <1>3, <2>1 DEF Leased, Switching
      <3>2. OwesWhole(q)'
        BY <1>2, <1>4 DEF HistoryInv, OwesWhole, Given!Pending, Given!Omits
      <3> QED
        BY <3>1, <3>2
    <2>2. CASE q # p
      <3>1. op[q].at = "idle" /\ Leased(q)'
        BY <1>2, <1>3, <2>2, OneAtATime DEF Leased
      <3> QED
        BY <1>1, <1>2, <1>3, <2>2, <3>1, OthersLogged
    <2> QED
      BY <2>1, <2>2
  <1> QED
    BY <1>5, <1>6, <1>7 DEF HistoryInv

\* A turn records under its lease.
LEMMA HistoryTurnSaysKeeps ==
  ASSUME HistoryInv, None \notin Processes, NEW p \in Processes, Given!TurnSays(p)
  PROVE  HistoryInv'
  <1>0. Given!Event("fragment") \in Event /\ Given!Event("tool") \in Event
    BY DEF Given!Event, Event
  <1>1. PICK e \in Event : events' = Append(events, e)
    BY <1>0 DEF Given!TurnSays, Given!Append1
  <1>2. op[p].at = "turn" /\ UNCHANGED <<objects, snaps, lease, op, serving, reads, slipped>>
    BY DEF Given!TurnSays, Given!Same
  <1>3. events' \in Seq(Event)
    BY <1>1, LogGrows DEF HistoryInv, HistoryTypes
  <1>4. HistoryTypes'
    BY <1>2, <1>3 DEF HistoryInv, HistoryTypes
  <1>5. Readable'
    BY <1>1, <1>2, ReadableStays DEF HistoryInv
  <1>6. ASSUME NEW q \in Processes
        PROVE  Leased(q)' /\ Switching(q)' /\ OwesWhole(q)'
    <2>1. op[q].at # "commit"
      BY <1>2, OneAtATime
    <2>2. Leased(q)'
      BY <1>2 DEF HistoryInv, Leased
    <2> QED
      BY <1>1, <1>2, <2>1, <2>2, OthersLogged
  <1> QED
    BY <1>4, <1>5, <1>6 DEF HistoryInv

\* A turn that ends with its answer owes nothing any more.
LEMMA HistoryEndTurnKeeps ==
  ASSUME HistoryInv, None \notin Processes, NEW p \in Processes, Given!EndTurn(p)
  PROVE  HistoryInv'
  <1>0. Given!Event("answer") \in Event
    BY DEF Given!Event, Event
  <1>1. /\ op[p].at = "turn" /\ lease' = None
        /\ op' = [op EXCEPT ![p] = Given!Idle]
        /\ UNCHANGED <<objects, snaps, reads>>
    BY DEF Given!EndTurn, Given!Release
  <1>2. \/ /\ \E e \in Event : events' = Append(events, e)
           /\ serving' = [serving EXCEPT ![p].snap = None] /\ slipped' = slipped \ {p}
        \/ UNCHANGED <<events, serving, slipped>>
    BY <1>0 DEF Given!EndTurn, Given!Append1
  <1>3. /\ \A q \in Processes : q # p => op'[q] = op[q] /\ op[q].at = "idle"
        /\ op' = [q \in Processes |-> op'[q]] /\ op'[p] = [at |-> "idle"]
    <2>1. \A q \in Processes : q # p => op[q].at = "idle"
      BY <1>1, OneAtATime
    <2> QED
      BY <1>1, <2>1 DEF HistoryInv, HistoryTypes, Given!Idle
  <1>4. Leased(p)' /\ Switching(p)'
    BY <1>3 DEF Leased, Switching
  <1>5. \A q \in Processes : q # p => Leased(q)'
    BY <1>3 DEF Leased
  <1>6. CASE UNCHANGED <<events, serving, slipped>>
    <2>1. HistoryTypes'
      BY <1>1, <1>3, <1>6 DEF HistoryInv, HistoryTypes
    <2>2. \A s : Made(s) => Made(s)'
      BY <1>6 DEF Made, Given!Projected, Given!Active, Given!Hidden
    <2>3. Readable'
      BY <1>1, <2>2 DEF HistoryInv, Readable
    <2>4. OwesWhole(p)'
      BY <1>1, <1>6 DEF HistoryInv, OwesWhole, Given!Pending, Given!Omits
    <2>5. \A q \in Processes : q # p => Switching(q)' /\ OwesWhole(q)'
      BY <1>1, <1>3, <1>6, OthersStay
    <2> QED
      BY <1>4, <1>5, <2>1, <2>3, <2>4, <2>5 DEF HistoryInv
  <1>7. CASE /\ \E e \in Event : events' = Append(events, e)
             /\ serving' = [serving EXCEPT ![p].snap = None] /\ slipped' = slipped \ {p}
    <2>1. PICK e \in Event : events' = Append(events, e)
      BY <1>7
    <2>2. serving[p] = [snap |-> serving[p].snap, at |-> serving[p].at]
      BY <1>1 DEF HistoryInv, HistoryTypes, Leased
    <2>3. /\ \A q \in Processes : q # p => serving'[q] = serving[q]
          /\ serving' = [q \in Processes |-> serving'[q]]
          /\ serving'[p] = [snap |-> None, at |-> serving[p].at]
      BY <1>7, <2>2 DEF HistoryInv, HistoryTypes
    <2>4. events' \in Seq(Event)
      BY <2>1, LogGrows DEF HistoryInv, HistoryTypes
    <2>5. HistoryTypes'
      BY <1>1, <1>3, <1>7, <2>3, <2>4 DEF HistoryInv, HistoryTypes
    <2>6. Readable'
      BY <1>1, <2>1, ReadableStays DEF HistoryInv
    <2>7. OwesWhole(p)'
      BY <2>3 DEF OwesWhole, Given!Pending
    <2>8. \A q \in Processes : q # p => Switching(q)' /\ OwesWhole(q)'
      <3>1. ASSUME NEW q \in Processes, q # p
            PROVE  Switching(q)' /\ OwesWhole(q)'
        BY <1>1, <1>3, <1>7, <2>1, <2>3, <3>1, OthersLogged
      <3> QED
        BY <3>1
    <2> QED
      BY <1>4, <1>5, <2>5, <2>6, <2>7, <2>8 DEF HistoryInv
  <1> QED
    BY <1>2, <1>6, <1>7

\* What is appended without the lease slips in before whoever is about to commit.
LEMMA HistorySlipsKeep ==
  ASSUME HistoryInv, NEW p \in Processes, op[p].at = "idle", NEW e \in Event,
         events' = Append(events, e), Given!Slips(p),
         UNCHANGED <<objects, snaps, lease, op, serving, reads>>
  PROVE  HistoryInv'
  <1>1. /\ slipped \subseteq slipped' /\ slipped' \subseteq Processes
        /\ \A q \in Processes : op[q].at = "commit" => q \in slipped'
    BY DEF HistoryInv, HistoryTypes, Given!Slips
  <1>2. events' \in Seq(Event)
    BY LogGrows DEF HistoryInv, HistoryTypes
  <1>3. HistoryTypes'
    BY <1>1, <1>2 DEF HistoryInv, HistoryTypes
  <1>4. Readable'
    BY ReadableStays DEF HistoryInv
  <1>5. ASSUME NEW q \in Processes
        PROVE  Leased(q)' /\ Switching(q)' /\ OwesWhole(q)'
    <2>1. Leased(q)'
      BY DEF HistoryInv, Leased
    <2> QED
      BY <1>1, <2>1, OthersLogged
  <1> QED
    BY <1>3, <1>4, <1>5 DEF HistoryInv

\* What appends to the log without the lease marks the switches it slips into.
LEMMA HistoryUnleasedKeeps ==
  ASSUME HistoryInv, NEW p \in Processes, Given!Unleased(p)
  PROVE  HistoryInv'
  <1>1. Given!Event("tool") \in Event
    BY DEF Given!Event, Event
  <1>2. op[p].at = "idle"
    BY DEF Given!Unleased, Given!Idle
  <1> QED
    BY <1>1, <1>2, HistorySlipsKeep DEF Given!Unleased, Given!Append1

\* A rewind is one more record, appended with the lease.
LEMMA HistoryRewindKeeps ==
  ASSUME HistoryInv, NEW p \in Processes, Given!Rewind(p)
  PROVE  HistoryInv'
  <1>1. PICK i \in Given!Active(events) : events' = Append(events, [kind |-> "rewind", of |-> i])
    BY DEF Given!Rewind, Given!Append1
  <1>2. i \in Nat
    BY <1>1 DEF Given!Active, HistoryInv, HistoryTypes
  <1>3. [kind |-> "rewind", of |-> i] \in Event
    BY <1>2 DEF Event
  <1>4. op[p].at = "idle"
    BY DEF Given!Rewind, Given!Idle
  <1> QED
    BY <1>1, <1>3, <1>4, HistorySlipsKeep DEF Given!Rewind

\* What a process that stops was about stops with it.
LEMMA HistoryCrashKeeps ==
  ASSUME HistoryInv, None \notin Processes, NEW p \in Processes, Given!Crash(p)
  PROVE  HistoryInv'
  <1>1. /\ op' = [op EXCEPT ![p] = Given!Idle] /\ serving' = [serving EXCEPT ![p] = None]
        /\ lease' = IF lease = p THEN None ELSE lease
        /\ slipped' = slipped \ {p} /\ UNCHANGED <<events, objects, snaps, reads>>
    BY DEF Given!Crash
  <1>2. /\ \A q \in Processes : q # p => op'[q] = op[q] /\ serving'[q] = serving[q]
        /\ op' = [q \in Processes |-> op'[q]] /\ op'[p] = [at |-> "idle"]
        /\ serving' = [q \in Processes |-> serving'[q]] /\ serving'[p] = None
    BY <1>1 DEF HistoryInv, HistoryTypes, Given!Idle
  <1>3. HistoryTypes'
    BY <1>1, <1>2 DEF HistoryInv, HistoryTypes
  <1>4. \A s : Made(s) => Made(s)'
    BY <1>1 DEF Made, Given!Projected, Given!Active, Given!Hidden
  <1>5. Readable'
    BY <1>1, <1>4 DEF HistoryInv, Readable
  <1>6. ASSUME NEW q \in Processes
        PROVE  Leased(q)' /\ Switching(q)' /\ OwesWhole(q)'
    <2>1. CASE q = p
      BY <1>2, <2>1 DEF Leased, Switching, OwesWhole, Given!Pending
    <2>2. CASE q # p
      <3>1. Leased(q)'
        BY <1>1, <1>2, <2>2 DEF HistoryInv, Leased
      <3>2. Switching(q)' /\ OwesWhole(q)'
        BY <1>1, <1>2, <2>2, OthersStay
      <3> QED
        BY <3>1, <3>2
    <2> QED
      BY <2>1, <2>2
  <1> QED
    BY <1>3, <1>5, <1>6 DEF HistoryInv

\* A step that changes no variable.
LEMMA HistoryStutters ==
  ASSUME HistoryInv, UNCHANGED Given!vars
  PROVE  HistoryInv'
  <1>1. UNCHANGED <<events, objects, snaps, lease, op, serving, reads, slipped>>
    BY DEF Given!vars
  <1>2. \A s : Made(s) => Made(s)'
    BY <1>1 DEF Made, Given!Projected, Given!Active, Given!Hidden
  <1>3. HistoryTypes' /\ Readable'
    BY <1>1, <1>2 DEF HistoryInv, HistoryTypes, Readable
  <1>4. ASSUME NEW q \in Processes
        PROVE  Leased(q)' /\ Switching(q)' /\ OwesWhole(q)'
    <2>1. Leased(q)'
      BY <1>1 DEF HistoryInv, Leased
    <2> QED
      BY <1>1, <2>1, OthersStay
  <1> QED
    BY <1>3, <1>4 DEF HistoryInv

\* Every step keeps the invariant.
LEMMA HistoryStep ==
  ASSUME HistoryInv, None \notin Processes, [Given!Next]_(Given!vars)
  PROVE  HistoryInv'
  <1>1. CASE Given!Next
    <2>1. PICK p \in Processes :
            \/ Given!BeginSwitch(p) \/ Given!Publish(p) \/ Given!Compare(p)
            \/ Given!Commit(p) \/ Given!Resume(p) \/ Given!BeginTurn(p)
            \/ Given!TurnSays(p) \/ Given!EndTurn(p) \/ Given!Unleased(p)
            \/ Given!Rewind(p) \/ Given!Crash(p)
      BY <1>1 DEF Given!Next
    <2> QED
      BY <2>1, HistoryBeginSwitchKeeps, HistoryPublishKeeps, HistoryCompareKeeps,
         HistoryCommitKeeps, HistoryResumeKeeps,
         HistoryBeginTurnKeeps, HistoryTurnSaysKeeps, HistoryEndTurnKeeps, HistoryUnleasedKeeps,
         HistoryRewindKeeps, HistoryCrashKeeps
  <1>2. CASE UNCHANGED Given!vars
    BY <1>2, HistoryStutters
  <1> QED
    BY <1>1, <1>2

\* What the invariant says of the property.
LEMMA HistoryImplies == HistoryInv => Given!ContextKept
  <1> SUFFICES ASSUME HistoryInv
               PROVE  Given!ContextKept
    OBVIOUS
  <1>1. Given!TypeOK
    BY DEF HistoryInv, HistoryTypes, Given!TypeOK
  <1>2. ASSUME NEW s \in snaps
        PROVE  Given!Loads(s) /\ s.records = Given!Projected(s.source)
    BY DEF HistoryInv, Readable, Made, Given!Loads
  <1>3. ASSUME NEW p \in Processes, Given!Pending(p)
        PROVE  /\ p \notin slipped => Given!Given(serving[p].snap)
                                        = Given!Projected(SubSeq(events, 1, serving[p].at - 1))
               /\ Given!Omits(serving[p].snap) => reads
    BY <1>2, <1>3 DEF HistoryInv, OwesWhole, Given!Given
  <1> QED
    BY <1>1, <1>2, <1>3 DEF Given!ContextKept, Given!SnapshotWhole, Given!HistoryGiven

\* A switch hands over the history it compared: every published snapshot can be
\* read whole, and what a fresh native session is given is the conversation up
\* to its switch, unless another process slipped in before the commit.
\* (harnesses/service.py:279-352, context.py:314-345)
THEOREM HistoryIsGivenWhole ==
  (None \notin Processes) => (Given!Spec => []Given!ContextKept)
  <1> SUFFICES ASSUME None \notin Processes
               PROVE  Given!Spec => []Given!ContextKept
    OBVIOUS
  <1>1. HistoryInv /\ [Given!Next]_(Given!vars) => HistoryInv'
    BY HistoryStep
  <1> QED
    BY HistoryInit, <1>1, HistoryImplies, PTL DEF Given!Spec

\* The invariant, of the behaviours of a suite that are of this part.
HistoryPart == part = "snapshots" => HistoryInv

\* What a run checks of the history handed over, for any constants: whoever owes
\* its harness a handoff gives it a published snapshot of all that came before.
THEOREM SwitchesGiveHistory == None \notin Processes => (SuiteSpec => []ContextKept)
  <1> SUFFICES ASSUME None \notin Processes
               PROVE  SuiteSpec => []ContextKept
    OBVIOUS
  <1>1. SuiteInit => HistoryPart
    BY HistoryInit DEF SuiteInit, HistoryPart
  <1>2. HistoryPart /\ [SuiteNext]_suite => HistoryPart'
    <2> SUFFICES ASSUME part' = "snapshots", HistoryPart, [SuiteNext]_suite
                 PROVE  HistoryInv'
      BY DEF HistoryPart
    <2>1. part = "snapshots" /\ [Given!Next]_(Given!vars)
      <3>1. CASE SuiteNext
        BY <3>1 DEF SuiteNext
      <3>2. CASE UNCHANGED suite
        BY <3>2 DEF suite, history, Given!vars
      <3> QED
        BY <3>1, <3>2
    <2> QED
      BY <2>1, HistoryStep DEF HistoryPart
  <1>3. HistoryPart => ContextKept
    BY HistoryImplies DEF HistoryPart, ContextKept
  <1> QED
    BY <1>1, <1>2, <1>3, PTL DEF SuiteSpec

------------------------------------------------------------------------------
(* The permissions a turn runs with (Permissions).                          *)

\* The choices that wait, a request and a turn.
Waiting  == [provider : Providers, options : Perm!Choices]
Requests    == [options : Perm!Choices, pending : {None} \cup Waiting,
             stage : {"ensuring", "applying"}, stale : BOOLEAN]
Stages   == {"reserved", "locked", "applying", "unlocked", "routing", "routed", "running"}
Prompts    == [stage : Stages, pending : {None} \cup Waiting, preset : Perm!Presets,
             options : {None} \cup Perm!Options, due : Perm!Options, changed : BOOLEAN]

\* What the constants are taken to be: the presets are made of values, and
\* None is not one of the things it is told from.
PermValues ==
    /\ {Default, "low", "high"} \subseteq Values
    /\ None \notin Perm!Options \cup Waiting \cup Requests \cup {"request", "turn", "switch"}

PermTypes ==
    /\ Perm!TypeOK
    /\ lock = "request" => request \in Requests
    /\ run # None => run \in Prompts

\* What holds the lock, and what a request knows of what waits.
PermLocks ==
    /\ lock = "switch" => switching /\ run = None
    /\ run # None /\ run.stage \in {"locked", "applying"} => lock = "turn"
    /\ lock = "request" /\ ~request.stale => request.pending = pending
    /\ lock = "request" /\ request.stage = "applying" =>
         (run # None => run.stage = "reserved" /\ run.changed)

\* The resident session has what the manifest saves for it.
LiveSaved == live # None => live = saved

\* What a turn is on its way to run with.
PermTurn == run # None =>
    /\ run.stage = "applying" => /\ pending = run.pending /\ pending # None
                                  /\ pending.provider = provider
    /\ ~run.changed /\ run.stage # "running" => run.preset = policy
    /\ ~run.changed /\ run.stage \in {"reserved", "locked"} => pending = run.pending
    /\ /\ ~run.changed /\ run.preset = "inherit"
       /\ run.stage \in {"unlocked", "routing", "routed"}
       => pending = None
    /\ /\ ~run.changed /\ run.stage # "running"
       /\ run.stage = "routed" => run.preset = "inherit"
       => told = run.due
    /\ run.stage = "running" => live # None
    /\ run.stage = "routed" /\ run.preset # "inherit" => saved = Perm!Native(run.preset)

PermInv == /\ PermTypes /\ PermLocks /\ LiveSaved /\ PermTurn
           /\ Perm!NextRunAsTold /\ Perm!RunsAsChosen /\ Perm!NotUnderTheRun

\* A choice laid over options gives options; one laid over another, and both over
\* options, give what the first gives over what the second does.
LEMMA OverOptions ==
  ASSUME NEW c \in Perm!Choices, NEW o \in Perm!Options
  PROVE  Perm!Over(c, o) \in Perm!Options
  <1>1. PICK F \in SUBSET Fields : c \in [F -> Values]
    BY DEF Perm!Choices
  <1> QED
    BY <1>1 DEF Perm!Over, Perm!Options

\* Choices that name no field leave the options as they were.
LEMMA OverNothing ==
  ASSUME NEW o \in Perm!Options
  PROVE  Perm!Over(Perm!Nothing, o) = o
  BY DEF Perm!Over, Perm!Options, Perm!Nothing

\* Two choices one after the other are their merge at once.
LEMMA OverMerged ==
  ASSUME NEW c \in Perm!Choices, NEW d \in Perm!Choices \cup {Perm!Nothing}
  PROVE  /\ Perm!Merge(c, d) \in Perm!Choices
         /\ \A o \in Perm!Options :
              Perm!Over(Perm!Merge(c, d), o) = Perm!Over(c, Perm!Over(d, o))
  <1>1. PICK F \in (SUBSET Fields) \ {{}} : c \in [F -> Values]
    BY DEF Perm!Choices
  <1>2. PICK G \in SUBSET Fields : d \in [G -> Values]
    BY DEF Perm!Choices, Perm!Nothing
  <1>3. Perm!Merge(c, d) \in [F \cup G -> Values]
    BY <1>1, <1>2 DEF Perm!Merge
  <1>4. F \cup G \in (SUBSET Fields) \ {{}}
    OBVIOUS
  <1>5. ASSUME NEW o \in Perm!Options
        PROVE  Perm!Over(Perm!Merge(c, d), o) = Perm!Over(c, Perm!Over(d, o))
    BY <1>1, <1>2, <1>5 DEF Perm!Over, Perm!Merge, Perm!Options
  <1> QED
    BY <1>3, <1>4, <1>5 DEF Perm!Choices

\* What a preset stands for is a value of every field.
LEMMA NativeOptions ==
  ASSUME PermValues, NEW preset
  PROVE  /\ Perm!Native(preset) \in Perm!Options
         /\ \A o : Perm!Over(Perm!Native(preset), o) = Perm!Native(preset)
  BY DEF PermValues, Perm!Native, Perm!Options, Perm!Over

\* What is queued is a choice or nothing.
LEMMA QueuedIs ==
  ASSUME PermTypes, PermValues, NEW p
  PROVE  Perm!QueuedFor(p) \in Perm!Choices \cup {Perm!Nothing}
  BY DEF PermTypes, PermValues, Perm!TypeOK, Waiting, Perm!QueuedFor

\* The invariant holds at the start: nothing waits and nothing runs.
LEMMA PermInit == PermValues /\ Perm!Init => PermInv
  <1> SUFFICES ASSUME PermValues, Perm!Init
               PROVE  PermInv
    OBVIOUS
  <1>1. saved \in Perm!Options /\ told = saved
    BY DEF PermValues, Perm!Init, Perm!Options
  <1>2. PermTypes /\ PermLocks
    BY <1>1 DEF PermValues, PermTypes, PermLocks, Perm!Init, Perm!TypeOK, Perm!Presets
  <1>3. LiveSaved /\ PermTurn
    BY DEF LiveSaved, PermTurn, Perm!Init
  <1>4. Perm!Queued = Perm!Nothing
    BY DEF Perm!Init, Perm!Queued, Perm!QueuedFor
  <1>5. Perm!NextRunAsTold
    BY <1>1, <1>4, OverNothing DEF Perm!NextRunAsTold
  <1>6. Perm!RunsAsChosen /\ Perm!NotUnderTheRun
    BY DEF Perm!Init, Perm!RunsAsChosen, Perm!NotUnderTheRun, Perm!Running
  <1> QED
    BY <1>2, <1>3, <1>5, <1>6 DEF PermInv

\* A step that touches neither what is saved and waits nor the harness leaves
\* what the next run has.
LEMMA ToldStays ==
  ASSUME Perm!NextRunAsTold, UNCHANGED <<provider, saved, pending, told>>
  PROVE  Perm!NextRunAsTold'
  BY DEF Perm!NextRunAsTold, Perm!Queued, Perm!QueuedFor, Perm!Over, Perm!Nothing

\* A choice of options takes the lock, with what waits as it is.
LEMMA PermChooseKeeps ==
  ASSUME PermValues, PermInv, NEW options \in Perm!Choices, Perm!Choose(options)
  PROVE  PermInv'
  <1> USE DEF PermInv
  <1>1. PermTypes'
    BY DEF Perm!Choose, PermTypes, PermValues, Perm!TypeOK, Requests, Waiting
  <1>2. PermLocks'
    BY DEF Perm!Choose, PermLocks, PermValues
  <1>3. LiveSaved' /\ PermTurn'
    BY DEF Perm!Choose, LiveSaved, PermTurn, Perm!Native
  <1>4. Perm!NextRunAsTold'
    BY ToldStays DEF Perm!Choose
  <1>5. Perm!RunsAsChosen' /\ Perm!NotUnderTheRun'
    BY DEF Perm!Choose, Perm!RunsAsChosen, Perm!NotUnderTheRun, Perm!Running, Perm!Native
  <1> QED
    BY <1>1, <1>2, <1>3, <1>4, <1>5

\* What is left waiting is for the provider the task has, or is nothing.
LEMMA WaitedIs ==
  ASSUME PermTypes, PermValues, lock = "request"
  PROVE  Perm!Waited \in Perm!Choices \cup {Perm!Nothing}
  BY DEF PermTypes, PermValues, Requests, Waiting, Perm!Waited

\* A request goes on to apply its options where no turn is past the lock.
LEMMA PermBeginUpdateKeeps ==
  ASSUME PermValues, PermInv, Perm!BeginUpdate
  PROVE  PermInv'
  <1> USE DEF PermInv
  <1>1. PermTypes'
    <2>1. request \in Requests /\ Perm!Waited \in Perm!Choices \cup {Perm!Nothing}
      BY WaitedIs DEF Perm!BeginUpdate, PermTypes
    <2>2. Perm!Merge(request.options, Perm!Waited) \in Perm!Choices
      BY <2>1, OverMerged DEF Requests
    <2>3. request' \in Requests
      BY <2>1, <2>2 DEF Perm!BeginUpdate, Requests
    <2> QED
      BY <2>3 DEF Perm!BeginUpdate, PermTypes, Perm!TypeOK, Perm!Running, Perm!bounds,
         Perm!Resumed
  <1>2. PermLocks'
    BY DEF Perm!BeginUpdate, PermLocks, PermValues, PermTypes, Prompts, Requests, Perm!Running,
       Perm!bounds,
       Perm!Answered
  <1>3. LiveSaved' /\ PermTurn'
    BY DEF Perm!BeginUpdate, LiveSaved, PermTurn, Perm!Native, PermTypes, PermLocks, Prompts,
       Perm!Running,
       Perm!bounds, Perm!Due, Perm!Resumed, Perm!Answered
  <1>4. Perm!NextRunAsTold'
    BY ToldStays DEF Perm!BeginUpdate, Perm!bounds
  <1>5. Perm!RunsAsChosen' /\ Perm!NotUnderTheRun'
    BY DEF Perm!BeginUpdate, Perm!RunsAsChosen, Perm!NotUnderTheRun, Perm!Running, Perm!Native,
       PermTypes, Prompts, Perm!bounds, Perm!Resumed, Perm!Answered
  <1> QED
    BY <1>1, <1>2, <1>3, <1>4, <1>5

\* A request that fails has changed nothing but what a resident session has.
LEMMA PermRequestFailsKeeps ==
  ASSUME PermValues, PermInv, Perm!RequestFails
  PROVE  PermInv'
  <1> USE DEF PermInv
  <1>1. PermTypes'
    BY DEF Perm!RequestFails, PermTypes, PermValues, Perm!TypeOK, Requests, Prompts, Stages,
       Perm!Running,
       Perm!bounds, Perm!Presets, Perm!Resumed, LiveSaved, Perm!Answered
  <1>2. PermLocks'
    BY DEF Perm!RequestFails, PermLocks, PermValues, PermTypes, Prompts, Requests, Perm!Running,
       Perm!bounds,
       Perm!Answered
  <1>3. LiveSaved' /\ PermTurn'
    BY DEF Perm!RequestFails, LiveSaved, PermTurn, Perm!Native, PermTypes, PermLocks, Prompts,
       Perm!Running,
       Perm!bounds, Perm!Due, Perm!Resumed, Perm!Answered
  <1>4. Perm!NextRunAsTold'
    BY ToldStays DEF Perm!RequestFails, Perm!bounds
  <1>5. Perm!RunsAsChosen' /\ Perm!NotUnderTheRun'
    BY DEF Perm!RequestFails, Perm!RunsAsChosen, Perm!NotUnderTheRun, Perm!Running, Perm!Native,
       PermTypes, Prompts, Perm!bounds, Perm!Resumed, Perm!Answered
  <1> QED
    BY <1>1, <1>2, <1>3, <1>4, <1>5

\* The policy may change at any time; a turn that is prepared notices.
LEMMA PermSetPolicyKeeps ==
  ASSUME PermValues, PermInv, NEW preset \in Perm!Presets, Perm!SetPolicy(preset)
  PROVE  PermInv'
  <1> USE DEF PermInv
  <1>1. PermTypes'
    <2>1. Perm!TypeOK'
      BY DEF Perm!SetPolicy, PermTypes, Perm!TypeOK, Perm!bounds
    <2>2. lock' = "request" => request' \in Requests
      BY DEF Perm!SetPolicy, PermTypes, PermValues, Perm!bounds
    <2>3. run' # None => run' \in Prompts
      <3>1. CASE run' = run
        BY <3>1 DEF PermTypes
      <3>2. CASE run # None /\ run' = [run EXCEPT !.changed = TRUE]
        <4>1. run \in Prompts
          BY <3>2 DEF PermTypes
        <4> QED
          BY <3>2, <4>1 DEF Prompts
      <3> QED
        BY <3>1, <3>2 DEF Perm!SetPolicy, Perm!Running
    <2> QED
      BY <2>1, <2>2, <2>3 DEF PermTypes
  <1>2. PermLocks'
    BY DEF Perm!SetPolicy, PermLocks, PermValues, PermTypes, Prompts, Requests, Perm!Running,
       Perm!bounds,
       Perm!Answered
  <1>3. LiveSaved' /\ PermTurn'
    BY DEF Perm!SetPolicy, LiveSaved, PermTurn, Perm!Native, PermTypes, PermLocks, Prompts,
       Perm!Running,
       Perm!bounds, Perm!Due, Perm!Resumed, Perm!Answered
  <1>4. Perm!NextRunAsTold'
    BY ToldStays DEF Perm!SetPolicy, Perm!bounds
  <1>5. Perm!RunsAsChosen' /\ Perm!NotUnderTheRun'
    BY DEF Perm!SetPolicy, Perm!RunsAsChosen, Perm!NotUnderTheRun, Perm!Running, Perm!Native,
       PermTypes, Prompts, Perm!bounds, Perm!Resumed, Perm!Answered
  <1> QED
    BY <1>1, <1>2, <1>3, <1>4, <1>5

\* A turn is reserved with what waits and the preset of that moment.
LEMMA PermReserveKeeps ==
  ASSUME PermValues, PermInv, Perm!Reserve
  PROVE  PermInv'
  <1> USE DEF PermInv
  <1>1. PermTypes'
    <2>1. /\ pending \in {None} \cup Waiting /\ policy \in Perm!Presets
          /\ told \in Perm!Options /\ (lock # None) \in BOOLEAN
      BY DEF PermTypes, Perm!TypeOK, Waiting
    <2>2. run' \in Prompts
      BY <2>1 DEF Perm!Reserve, Prompts, Stages
    <2> QED
      BY <2>2 DEF Perm!Reserve, PermTypes, Perm!TypeOK, Perm!bounds
  <1>2. PermLocks'
    BY DEF Perm!Reserve, PermLocks, PermValues, PermTypes, Prompts, Requests, Perm!Running,
       Perm!bounds,
       Perm!Answered
  <1>3. LiveSaved' /\ PermTurn'
    BY DEF Perm!Reserve, LiveSaved, PermTurn, Perm!Native, PermTypes, PermLocks, Prompts,
       Perm!Running,
       Perm!bounds, Perm!Due, Perm!Resumed, Perm!Answered
  <1>4. Perm!NextRunAsTold'
    BY ToldStays DEF Perm!Reserve, Perm!bounds
  <1>5. Perm!RunsAsChosen' /\ Perm!NotUnderTheRun'
    BY DEF Perm!Reserve, Perm!RunsAsChosen, Perm!NotUnderTheRun, Perm!Running, Perm!Native,
       PermTypes, Prompts, Perm!bounds, Perm!Resumed, Perm!Answered
  <1> QED
    BY <1>1, <1>2, <1>3, <1>4, <1>5

\* A turn takes the lock before it looks at what waits.
LEMMA PermTurnLocksKeeps ==
  ASSUME PermValues, PermInv, Perm!TurnLocks
  PROVE  PermInv'
  <1> USE DEF PermInv
  <1>1. PermTypes'
    BY DEF Perm!TurnLocks, PermTypes, PermValues, Perm!TypeOK, Requests, Prompts, Stages,
       Perm!Running,
       Perm!bounds, Perm!Presets, Perm!Resumed, LiveSaved, Perm!Answered
  <1>2. PermLocks'
    BY DEF Perm!TurnLocks, PermLocks, PermValues, PermTypes, Prompts, Requests, Perm!Running,
       Perm!bounds,
       Perm!Answered
  <1>3. LiveSaved' /\ PermTurn'
    BY DEF Perm!TurnLocks, LiveSaved, PermTurn, Perm!Native, PermTypes, PermLocks, Prompts,
       Perm!Running,
       Perm!bounds, Perm!Due, Perm!Resumed, Perm!Answered
  <1>4. Perm!NextRunAsTold'
    BY ToldStays DEF Perm!TurnLocks, Perm!bounds
  <1>5. Perm!RunsAsChosen' /\ Perm!NotUnderTheRun'
    BY DEF Perm!TurnLocks, Perm!RunsAsChosen, Perm!NotUnderTheRun, Perm!Running, Perm!Native,
       PermTypes, Prompts, Perm!bounds, Perm!Resumed, Perm!Answered
  <1> QED
    BY <1>1, <1>2, <1>3, <1>4, <1>5

\* A turn for which nothing waits goes on.
LEMMA PermNothingDueKeeps ==
  ASSUME PermValues, PermInv, Perm!NothingDue
  PROVE  PermInv'
  <1> USE DEF PermInv
  <1>1. PermTypes'
    <2>1. run \in Prompts /\ pending \in {None} \cup Waiting
      BY DEF Perm!NothingDue, PermTypes, Perm!TypeOK, Waiting, Perm!Running
    <2>2. run' \in Prompts
      BY <2>1 DEF Perm!NothingDue, Prompts, Stages
    <2> QED
      BY <2>2 DEF Perm!NothingDue, PermTypes, PermValues, Perm!TypeOK, Perm!bounds
  <1>2. PermLocks'
    BY DEF Perm!NothingDue, PermLocks, PermValues, PermTypes, Prompts, Requests, Perm!Running,
       Perm!bounds,
       Perm!Answered
  <1>3. LiveSaved' /\ PermTurn'
    BY DEF Perm!NothingDue, LiveSaved, PermTurn, Perm!Native, PermTypes, PermLocks, Prompts,
       Perm!Running,
       Perm!bounds, Perm!Due, Perm!Resumed, Perm!Answered
  <1>4. Perm!NextRunAsTold'
    BY ToldStays DEF Perm!NothingDue, Perm!bounds
  <1>5. Perm!RunsAsChosen' /\ Perm!NotUnderTheRun'
    BY DEF Perm!NothingDue, Perm!RunsAsChosen, Perm!NotUnderTheRun, Perm!Running, Perm!Native,
       PermTypes, Prompts, Perm!bounds, Perm!Resumed, Perm!Answered
  <1> QED
    BY <1>1, <1>2, <1>3, <1>4, <1>5

\* A turn begins to apply what waited when it was reserved.
LEMMA PermBeginApplyKeeps ==
  ASSUME PermValues, PermInv, Perm!BeginApply
  PROVE  PermInv'
  <1> USE DEF PermInv
  <1>1. PermTypes'
    BY DEF Perm!BeginApply, PermTypes, PermValues, Perm!TypeOK, Requests, Prompts, Stages,
       Perm!Running,
       Perm!bounds, Perm!Presets, Perm!Resumed, LiveSaved, Perm!Answered
  <1>2. PermLocks'
    BY DEF Perm!BeginApply, PermLocks, PermValues, PermTypes, Prompts, Requests, Perm!Running,
       Perm!bounds,
       Perm!Answered
  <1>3. LiveSaved' /\ PermTurn'
    BY DEF Perm!BeginApply, LiveSaved, PermTurn, Perm!Native, PermTypes, PermLocks, Prompts,
       Perm!Running,
       Perm!bounds, Perm!Due, Perm!Resumed, Perm!Answered
  <1>4. Perm!NextRunAsTold'
    BY ToldStays DEF Perm!BeginApply, Perm!bounds
  <1>5. Perm!RunsAsChosen' /\ Perm!NotUnderTheRun'
    BY DEF Perm!BeginApply, Perm!RunsAsChosen, Perm!NotUnderTheRun, Perm!Running, Perm!Native,
       PermTypes, Prompts, Perm!bounds, Perm!Resumed, Perm!Answered
  <1> QED
    BY <1>1, <1>2, <1>3, <1>4, <1>5

\* A turn reads the preset again before it routes.
LEMMA PermReadPresetKeeps ==
  ASSUME PermValues, PermInv, Perm!ReadPreset
  PROVE  PermInv'
  <1> USE DEF PermInv
  <1>1. PermTypes'
    <2>1. Perm!TypeOK'
      BY DEF Perm!ReadPreset, PermTypes, Perm!TypeOK, Perm!bounds
    <2>2. lock' = "request" => request' \in Requests
      BY DEF Perm!ReadPreset, PermTypes, PermValues, Perm!bounds
    <2>3. run' # None => run' \in Prompts
      <3>1. run \in Prompts
        BY DEF Perm!ReadPreset, Perm!Running, PermTypes
      <3> QED
        BY <3>1 DEF Perm!ReadPreset, Prompts, Stages, PermTypes, Perm!TypeOK
    <2> QED
      BY <2>1, <2>2, <2>3 DEF PermTypes
  <1>2. PermLocks'
    BY DEF Perm!ReadPreset, PermLocks, PermValues, PermTypes, Prompts, Requests, Perm!Running,
       Perm!bounds,
       Perm!Answered
  <1>3. LiveSaved' /\ PermTurn'
    BY DEF Perm!ReadPreset, LiveSaved, PermTurn, Perm!Native, PermTypes, PermLocks, Prompts,
       Perm!Running,
       Perm!bounds, Perm!Due, Perm!Resumed, Perm!Answered
  <1>4. Perm!NextRunAsTold'
    BY ToldStays DEF Perm!ReadPreset, Perm!bounds
  <1>5. Perm!RunsAsChosen' /\ Perm!NotUnderTheRun'
    BY DEF Perm!ReadPreset, Perm!RunsAsChosen, Perm!NotUnderTheRun, Perm!Running, Perm!Native,
       PermTypes, Prompts, Perm!bounds, Perm!Resumed, Perm!Answered
  <1> QED
    BY <1>1, <1>2, <1>3, <1>4, <1>5

\* A turn runs with what the session has when it is submitted.
LEMMA PermSubmitKeeps ==
  ASSUME PermValues, PermInv, Perm!Submit
  PROVE  PermInv'
  <1> USE DEF PermInv
  <1>1. run \in Prompts /\ saved \in Perm!Options /\ Perm!Resumed = saved
    BY DEF Perm!Submit, PermTypes, Perm!TypeOK, Perm!Running, Perm!Resumed, LiveSaved
  <1>2. run' = [run EXCEPT !.stage = "running", !.options = saved] /\ live' = saved
    BY <1>1 DEF Perm!Submit
  <1>3. PermTypes'
    <2>1. run' \in Prompts
      BY <1>1, <1>2 DEF Prompts, Stages
    <2> QED
      BY <1>1, <1>2, <2>1 DEF Perm!Submit, PermTypes, Perm!TypeOK, Perm!bounds
  <1>4. PermLocks' /\ LiveSaved' /\ PermTurn'
    BY <1>1, <1>2 DEF Perm!Submit, PermLocks, PermValues, LiveSaved, PermTurn, Prompts,
       Perm!Running, Perm!bounds
  <1>5. Perm!NextRunAsTold'
    BY ToldStays DEF Perm!Submit, Perm!bounds
  <1>6. Perm!RunsAsChosen'
    <2>1. /\ run' # None => run'.stage = "running" /\ run'.options = saved
          /\ UNCHANGED <<run.preset, run.due, run.changed>>
      BY <1>1, <1>2 DEF Prompts
    <2>2. ASSUME ~run.changed, run.preset = "inherit"
          PROVE  saved = run.due
      <3>1. pending = None /\ told = run.due
        BY <2>2 DEF Perm!Submit, PermTurn, Perm!Running
      <3>2. Perm!Queued = Perm!Nothing
        BY <3>1 DEF Perm!Queued, Perm!QueuedFor
      <3> QED
        BY <1>1, <3>1, <3>2, OverNothing DEF Perm!NextRunAsTold
    <2>3. run.preset # "inherit" => saved = Perm!Native(run.preset)
      BY DEF Perm!Submit, PermTurn, Perm!Running
    <2> QED
      BY <2>1, <2>2, <2>3 DEF Perm!RunsAsChosen, Perm!Running, Perm!Native
  <1>7. Perm!NotUnderTheRun'
    BY <1>1, <1>2 DEF Prompts, Perm!NotUnderTheRun, Perm!Running
  <1> QED
    BY <1>3, <1>4, <1>5, <1>6, <1>7

\* A turn that is refused leaves what waits waiting.
LEMMA PermTurnRefusedKeeps ==
  ASSUME PermValues, PermInv, Perm!TurnRefused
  PROVE  PermInv'
  <1> USE DEF PermInv
  <1>1. PermTypes'
    BY DEF Perm!TurnRefused, PermTypes, PermValues, Perm!TypeOK, Requests, Prompts, Stages,
       Perm!Running,
       Perm!bounds, Perm!Presets, Perm!Resumed, LiveSaved, Perm!Answered
  <1>2. PermLocks'
    BY DEF Perm!TurnRefused, PermLocks, PermValues, PermTypes, Prompts, Requests, Perm!Running,
       Perm!bounds,
       Perm!Answered
  <1>3. LiveSaved' /\ PermTurn'
    BY DEF Perm!TurnRefused, LiveSaved, PermTurn, Perm!Native, PermTypes, PermLocks, Prompts,
       Perm!Running,
       Perm!bounds, Perm!Due, Perm!Resumed, Perm!Answered
  <1>4. Perm!NextRunAsTold'
    BY ToldStays DEF Perm!TurnRefused, Perm!bounds
  <1>5. Perm!RunsAsChosen' /\ Perm!NotUnderTheRun'
    BY DEF Perm!TurnRefused, Perm!RunsAsChosen, Perm!NotUnderTheRun, Perm!Running, Perm!Native,
       PermTypes, Prompts, Perm!bounds, Perm!Resumed, Perm!Answered
  <1> QED
    BY <1>1, <1>2, <1>3, <1>4, <1>5

\* A turn that fails leaves what was saved before it.
LEMMA PermTurnFailsKeeps ==
  ASSUME PermValues, PermInv, Perm!TurnFails
  PROVE  PermInv'
  <1> USE DEF PermInv
  <1>1. PermTypes'
    BY DEF Perm!TurnFails, PermTypes, PermValues, Perm!TypeOK, Requests, Prompts, Stages,
       Perm!Running,
       Perm!bounds, Perm!Presets, Perm!Resumed, LiveSaved, Perm!Answered
  <1>2. PermLocks'
    BY DEF Perm!TurnFails, PermLocks, PermValues, PermTypes, Prompts, Requests, Perm!Running,
       Perm!bounds,
       Perm!Answered
  <1>3. LiveSaved' /\ PermTurn'
    BY DEF Perm!TurnFails, LiveSaved, PermTurn, Perm!Native, PermTypes, PermLocks, Prompts,
       Perm!Running,
       Perm!bounds, Perm!Due, Perm!Resumed, Perm!Answered
  <1>4. Perm!NextRunAsTold'
    BY ToldStays DEF Perm!TurnFails, Perm!bounds
  <1>5. Perm!RunsAsChosen' /\ Perm!NotUnderTheRun'
    BY DEF Perm!TurnFails, Perm!RunsAsChosen, Perm!NotUnderTheRun, Perm!Running, Perm!Native,
       PermTypes, Prompts, Perm!bounds, Perm!Resumed, Perm!Answered
  <1> QED
    BY <1>1, <1>2, <1>3, <1>4, <1>5

\* A turn that ends releases what it reserved.
LEMMA PermEndTurnKeeps ==
  ASSUME PermValues, PermInv, Perm!EndTurn
  PROVE  PermInv'
  <1> USE DEF PermInv
  <1>1. PermTypes'
    BY DEF Perm!EndTurn, PermTypes, PermValues, Perm!TypeOK, Requests, Prompts, Stages,
       Perm!Running,
       Perm!bounds, Perm!Presets, Perm!Resumed, LiveSaved, Perm!Answered
  <1>2. PermLocks'
    BY DEF Perm!EndTurn, PermLocks, PermValues, PermTypes, Prompts, Requests, Perm!Running,
       Perm!bounds,
       Perm!Answered
  <1>3. LiveSaved' /\ PermTurn'
    BY DEF Perm!EndTurn, LiveSaved, PermTurn, Perm!Native, PermTypes, PermLocks, Prompts,
       Perm!Running,
       Perm!bounds, Perm!Due, Perm!Resumed, Perm!Answered
  <1>4. Perm!NextRunAsTold'
    BY ToldStays DEF Perm!EndTurn, Perm!bounds
  <1>5. Perm!RunsAsChosen' /\ Perm!NotUnderTheRun'
    BY DEF Perm!EndTurn, Perm!RunsAsChosen, Perm!NotUnderTheRun, Perm!Running, Perm!Native,
       PermTypes, Prompts, Perm!bounds, Perm!Resumed, Perm!Answered
  <1> QED
    BY <1>1, <1>2, <1>3, <1>4, <1>5

\* A switch is asked for while no other is under way.
LEMMA PermBeginSwitchKeeps ==
  ASSUME PermValues, PermInv, Perm!BeginSwitch
  PROVE  PermInv'
  <1> USE DEF PermInv
  <1>1. PermTypes'
    BY DEF Perm!BeginSwitch, PermTypes, PermValues, Perm!TypeOK, Requests, Prompts, Stages,
       Perm!Running,
       Perm!bounds, Perm!Presets, Perm!Resumed, LiveSaved, Perm!Answered
  <1>2. PermLocks'
    BY DEF Perm!BeginSwitch, PermLocks, PermValues, PermTypes, Prompts, Requests, Perm!Running,
       Perm!bounds,
       Perm!Answered
  <1>3. LiveSaved' /\ PermTurn'
    BY DEF Perm!BeginSwitch, LiveSaved, PermTurn, Perm!Native, PermTypes, PermLocks, Prompts,
       Perm!Running,
       Perm!bounds, Perm!Due, Perm!Resumed, Perm!Answered
  <1>4. Perm!NextRunAsTold'
    BY ToldStays DEF Perm!BeginSwitch, Perm!bounds
  <1>5. Perm!RunsAsChosen' /\ Perm!NotUnderTheRun'
    BY DEF Perm!BeginSwitch, Perm!RunsAsChosen, Perm!NotUnderTheRun, Perm!Running, Perm!Native,
       PermTypes, Prompts, Perm!bounds, Perm!Resumed, Perm!Answered
  <1> QED
    BY <1>1, <1>2, <1>3, <1>4, <1>5

\* A switch takes the lock while no turn runs.
LEMMA PermSwitchLocksKeeps ==
  ASSUME PermValues, PermInv, Perm!SwitchLocks
  PROVE  PermInv'
  <1> USE DEF PermInv
  <1>1. PermTypes'
    BY DEF Perm!SwitchLocks, PermTypes, PermValues, Perm!TypeOK, Requests, Prompts, Stages,
       Perm!Running,
       Perm!bounds, Perm!Presets, Perm!Resumed, LiveSaved, Perm!Answered
  <1>2. PermLocks'
    BY DEF Perm!SwitchLocks, PermLocks, PermValues, PermTypes, Prompts, Requests, Perm!Running,
       Perm!bounds,
       Perm!Answered
  <1>3. LiveSaved' /\ PermTurn'
    BY DEF Perm!SwitchLocks, LiveSaved, PermTurn, Perm!Native, PermTypes, PermLocks, Prompts,
       Perm!Running,
       Perm!bounds, Perm!Due, Perm!Resumed, Perm!Answered
  <1>4. Perm!NextRunAsTold'
    BY ToldStays DEF Perm!SwitchLocks, Perm!bounds
  <1>5. Perm!RunsAsChosen' /\ Perm!NotUnderTheRun'
    BY DEF Perm!SwitchLocks, Perm!RunsAsChosen, Perm!NotUnderTheRun, Perm!Running, Perm!Native,
       PermTypes, Prompts, Perm!bounds, Perm!Resumed, Perm!Answered
  <1> QED
    BY <1>1, <1>2, <1>3, <1>4, <1>5

\* A switch that fails changes nothing.
LEMMA PermSwitchFailsKeeps ==
  ASSUME PermValues, PermInv, Perm!SwitchFails
  PROVE  PermInv'
  <1> USE DEF PermInv
  <1>1. PermTypes'
    <2>1. Perm!TypeOK'
      BY DEF Perm!SwitchFails, PermTypes, Perm!TypeOK, Perm!bounds
    <2>2. lock' = "request" => request' \in Requests
      BY DEF Perm!SwitchFails, PermTypes, PermValues, Perm!bounds
    <2>3. run' # None => run' \in Prompts
      BY DEF Perm!SwitchFails, PermTypes, Perm!bounds
    <2> QED
      BY <2>1, <2>2, <2>3 DEF PermTypes
  <1>2. PermLocks'
    BY DEF Perm!SwitchFails, PermLocks, PermValues, PermTypes, Prompts, Requests, Perm!Running,
       Perm!bounds,
       Perm!Answered
  <1>3. LiveSaved' /\ PermTurn'
    BY DEF Perm!SwitchFails, LiveSaved, PermTurn, Perm!Native, PermTypes, PermLocks, Prompts,
       Perm!Running,
       Perm!bounds, Perm!Due, Perm!Resumed, Perm!Answered
  <1>4. Perm!NextRunAsTold'
    BY ToldStays DEF Perm!SwitchFails, Perm!bounds
  <1>5. Perm!RunsAsChosen' /\ Perm!NotUnderTheRun'
    BY DEF Perm!SwitchFails, Perm!RunsAsChosen, Perm!NotUnderTheRun, Perm!Running, Perm!Native,
       PermTypes, Prompts, Perm!bounds, Perm!Resumed, Perm!Answered
  <1> QED
    BY <1>1, <1>2, <1>3, <1>4, <1>5

\* A resident session is closed; the manifest keeps its options.
LEMMA PermCloseKeeps ==
  ASSUME PermValues, PermInv, Perm!Close
  PROVE  PermInv'
  <1> USE DEF PermInv
  <1>1. PermTypes'
    BY DEF Perm!Close, PermTypes, PermValues, Perm!TypeOK, Requests, Prompts, Stages,
       Perm!Running,
       Perm!bounds, Perm!Presets, Perm!Resumed, LiveSaved, Perm!Answered
  <1>2. PermLocks'
    BY DEF Perm!Close, PermLocks, PermValues, PermTypes, Prompts, Requests, Perm!Running,
       Perm!bounds,
       Perm!Answered
  <1>3. LiveSaved' /\ PermTurn'
    BY DEF Perm!Close, LiveSaved, PermTurn, Perm!Native, PermTypes, PermLocks, Prompts,
       Perm!Running,
       Perm!bounds, Perm!Due, Perm!Resumed, Perm!Answered
  <1>4. Perm!NextRunAsTold'
    BY ToldStays DEF Perm!Close, Perm!bounds
  <1>5. Perm!RunsAsChosen' /\ Perm!NotUnderTheRun'
    BY DEF Perm!Close, Perm!RunsAsChosen, Perm!NotUnderTheRun, Perm!Running, Perm!Native,
       PermTypes, Prompts, Perm!bounds, Perm!Resumed, Perm!Answered
  <1> QED
    BY <1>1, <1>2, <1>3, <1>4, <1>5

\* After a restart there is what the manifest saved, and nothing runs.
LEMMA PermRestartKeeps ==
  ASSUME PermValues, PermInv, Perm!Restart
  PROVE  PermInv'
  <1> USE DEF PermInv
  <1>1. PermTypes'
    BY DEF Perm!Restart, PermTypes, PermValues, Perm!TypeOK, Requests, Prompts, Stages,
       Perm!Running,
       Perm!bounds, Perm!Presets, Perm!Resumed, LiveSaved, Perm!Answered
  <1>2. PermLocks'
    BY DEF Perm!Restart, PermLocks, PermValues, PermTypes, Prompts, Requests, Perm!Running,
       Perm!bounds,
       Perm!Answered
  <1>3. LiveSaved' /\ PermTurn'
    BY DEF Perm!Restart, LiveSaved, PermTurn, Perm!Native, PermTypes, PermLocks, Prompts,
       Perm!Running,
       Perm!bounds, Perm!Due, Perm!Resumed, Perm!Answered
  <1>4. Perm!NextRunAsTold'
    BY ToldStays DEF Perm!Restart, Perm!bounds
  <1>5. Perm!RunsAsChosen' /\ Perm!NotUnderTheRun'
    BY DEF Perm!Restart, Perm!RunsAsChosen, Perm!NotUnderTheRun, Perm!Running, Perm!Native,
       PermTypes, Prompts, Perm!bounds, Perm!Resumed, Perm!Answered
  <1> QED
    BY <1>1, <1>2, <1>3, <1>4, <1>5

\* A choice that waits is laid over the one that did.
LEMMA PermQueueKeeps ==
  ASSUME PermValues, PermInv, Perm!Queue
  PROVE  PermInv'
  <1> USE DEF PermInv
  <1>1. PICK q \in Perm!Choices : q = Perm!Merge(request.options, Perm!Waited)
    BY WaitedIs, OverMerged DEF Perm!Queue, PermTypes, Requests
  <1>2. /\ lock = "request" /\ request \in Requests /\ run \in Prompts /\ run # None
        /\ saved \in Perm!Options /\ provider \in Providers /\ Perm!Resumed = saved
        /\ UNCHANGED <<provider, saved, policy, switching>>
        /\ live' = saved /\ pending' = [provider |-> provider, options |-> q]
        /\ run' = [run EXCEPT !.changed = @ \/ run.stage # "running"]
        /\ lock' = None /\ request' = None
    BY <1>1 DEF Perm!Queue, PermTypes, Perm!TypeOK, Perm!Running, Perm!Resumed, LiveSaved,
       Perm!Answered
  <1>3. pending' \in Waiting /\ pending' # None /\ Perm!Queued' = q
    BY <1>1, <1>2 DEF Waiting, PermValues, Perm!Queued, Perm!QueuedFor
  <1>4. told' = Perm!Over(q, saved) /\ told' \in Perm!Options
    <2>1. CASE request.stale
      <3>1. told' = Perm!Over(Perm!Queued', saved)
        BY <2>1 DEF Perm!Queue
      <3> QED
        BY <1>1, <1>2, <1>3, <3>1, OverOptions
    <2>2. CASE ~request.stale
      <3>1. told' = Perm!Over(request.options, told) /\ request.pending = pending
        BY <1>2, <2>2 DEF Perm!Queue, PermLocks
      <3>2. Perm!Waited = Perm!Queued
        BY <3>1 DEF Perm!Waited, Perm!Queued, Perm!QueuedFor
      <3>3. request.options \in Perm!Choices /\ Perm!Waited \in Perm!Choices \cup {Perm!Nothing}
        BY <1>2, WaitedIs DEF Requests
      <3>4. Perm!Over(q, saved) = Perm!Over(request.options, Perm!Over(Perm!Waited, saved))
        BY <1>1, <1>2, <3>3, OverMerged
      <3> QED
        BY <1>1, <1>2, <3>1, <3>2, <3>4, OverOptions DEF Perm!NextRunAsTold
    <2> QED
      BY <1>2, <2>1, <2>2 DEF Requests
  <1>5. PICK c \in BOOLEAN : run' = [run EXCEPT !.changed = c] /\ (run.changed => c)
                             /\ (run.stage # "running" => c)
    <2>1. (run.changed \/ run.stage # "running") \in BOOLEAN
      OBVIOUS
    <2> QED
      BY <1>2, <2>1
  <1>6. run' \in Prompts /\ run'.changed = c
        /\ UNCHANGED <<run.stage, run.pending, run.preset, run.options, run.due>>
    BY <1>2, <1>5 DEF Prompts
  <1>7. PermTypes'
    BY <1>2, <1>3, <1>4, <1>6 DEF PermTypes, PermValues, Perm!TypeOK, Waiting
  <1>8. PermLocks'
    BY <1>2, <1>5, <1>6 DEF PermLocks, PermValues
  <1>9. LiveSaved' /\ PermTurn'
    BY <1>2, <1>5, <1>6 DEF LiveSaved, PermTurn, PermLocks, Perm!Native
  <1>10. Perm!NextRunAsTold'
    BY <1>2, <1>3, <1>4 DEF Perm!NextRunAsTold, Perm!Over
  <1>11. Perm!RunsAsChosen' /\ Perm!NotUnderTheRun'
    <2>1. live # None /\ run.stage = "running" => live' = live
      BY <1>2 DEF LiveSaved
    <2>2. run.stage = "running" => live = run.options /\ live # None
      BY <1>2 DEF Perm!NotUnderTheRun, PermTurn, Perm!Running
    <2> QED
      BY <1>2, <1>5, <1>6, <2>1, <2>2
      DEF Perm!RunsAsChosen, Perm!NotUnderTheRun, Perm!Running, Perm!Native
  <1> QED
    BY <1>7, <1>8, <1>9, <1>10, <1>11

\* What is applied now is what the manifest then saves.
LEMMA PermUpdatedKeeps ==
  ASSUME PermValues, PermInv, Perm!Updated
  PROVE  PermInv'
  <1> USE DEF PermInv
  <1>1. /\ lock = "request" /\ request \in Requests /\ request.stage = "applying"
        /\ saved \in Perm!Options /\ Perm!Resumed = saved
        /\ saved' = Perm!Over(request.options, saved) /\ live' = saved'
        /\ pending' = None /\ told' = saved' /\ lock' = None /\ request' = None
        /\ UNCHANGED <<provider, policy, switching, run>>
    BY DEF Perm!Updated, Perm!Update, PermTypes, Perm!TypeOK, Perm!Resumed, LiveSaved,
       Perm!Answered, Perm!bounds
  <1>2. saved' \in Perm!Options
    BY <1>1, OverOptions DEF Requests
  <1>3. run # None => run.stage = "reserved" /\ run.changed
    BY <1>1 DEF PermLocks
  <1>4. PermTypes' /\ PermLocks'
    BY <1>1, <1>2, <1>3 DEF PermTypes, PermLocks, PermValues, Perm!TypeOK
  <1>5. LiveSaved' /\ PermTurn' /\ Perm!RunsAsChosen' /\ Perm!NotUnderTheRun'
    BY <1>1, <1>3 DEF LiveSaved, PermTurn, Perm!RunsAsChosen, Perm!NotUnderTheRun, Perm!Running
  <1>6. Perm!Queued' = Perm!Nothing
    BY <1>1 DEF Perm!Queued, Perm!QueuedFor, Perm!Nothing
  <1>7. Perm!NextRunAsTold'
    BY <1>1, <1>2, <1>6, OverNothing DEF Perm!NextRunAsTold, Perm!Over
  <1> QED
    BY <1>4, <1>5, <1>7

\* What waits is discarded by who holds the lock.
LEMMA PermDiscardKeeps ==
  ASSUME PermValues, PermInv, Perm!Discard
  PROVE  PermInv'
  <1> USE DEF PermInv
  <1>1. /\ lock = None /\ pending # None /\ pending' = None /\ told' = saved
        /\ saved \in Perm!Options
        /\ UNCHANGED <<provider, saved, live, policy, lock, request, switching>>
    BY DEF Perm!Discard, PermTypes, Perm!TypeOK, Perm!bounds
  <1>2. Perm!Queued' = Perm!Nothing
    BY <1>1 DEF Perm!Queued, Perm!QueuedFor, Perm!Nothing
  <1>3. Perm!NextRunAsTold'
    BY <1>1, <1>2, OverNothing DEF Perm!NextRunAsTold, Perm!Over
  <1>4. CASE run # None /\ run.stage # "running"
    <2>1. run \in Prompts /\ run' = [run EXCEPT !.changed = TRUE]
      BY <1>4 DEF Perm!Discard, PermTypes, Perm!Running
    <2>2. run' \in Prompts /\ run'.changed
          /\ UNCHANGED <<run.stage, run.pending, run.preset, run.options, run.due>>
      BY <2>1 DEF Prompts
    <2>3. PermTypes' /\ PermLocks'
      BY <1>1, <1>4, <2>2 DEF PermTypes, PermLocks, PermValues, Perm!TypeOK
    <2>4. LiveSaved' /\ PermTurn' /\ Perm!RunsAsChosen' /\ Perm!NotUnderTheRun'
      BY <1>1, <1>4, <2>2 DEF LiveSaved, PermTurn, PermLocks, PermValues, Perm!RunsAsChosen,
         Perm!NotUnderTheRun, Perm!Running, Perm!Native
    <2> QED
      BY <1>3, <2>3, <2>4
  <1>5. CASE ~(run # None /\ run.stage # "running")
    <2>1. UNCHANGED run
      BY <1>5 DEF Perm!Discard, Perm!Running
    <2>2. PermTypes' /\ PermLocks'
      BY <1>1, <1>5, <2>1 DEF PermTypes, PermLocks, PermValues, Perm!TypeOK
    <2>3. LiveSaved' /\ PermTurn' /\ Perm!RunsAsChosen' /\ Perm!NotUnderTheRun'
      BY <1>1, <1>5, <2>1 DEF LiveSaved, PermTurn, PermLocks, PermValues, Perm!RunsAsChosen,
         Perm!NotUnderTheRun, Perm!Running, Perm!Native
    <2> QED
      BY <1>3, <2>2, <2>3
  <1> QED
    BY <1>4, <1>5

\* What waited for the turn is what the session and the manifest then have.
LEMMA PermAppliedKeeps ==
  ASSUME PermValues, PermInv, Perm!Applied
  PROVE  PermInv'
  <1> USE DEF PermInv
  <1>1. /\ run # None /\ run.stage = "applying" /\ run \in Prompts /\ lock = "turn"
        /\ pending = run.pending /\ pending # None /\ pending.provider = provider
        /\ pending \in Waiting /\ saved \in Perm!Options
    BY DEF Perm!Applied, PermTypes, PermLocks, PermTurn, Perm!TypeOK, Waiting, Perm!Running
  <1>2. Perm!Queued = pending.options /\ pending.options \in Perm!Choices
    BY <1>1 DEF Perm!Queued, Perm!QueuedFor, Waiting
  <1>3. /\ pending' = None /\ lock' = None /\ live' = saved'
        /\ saved' = told
        /\ UNCHANGED <<provider, policy, request, switching, told>>
        /\ run' = [run EXCEPT !.stage = "unlocked", !.pending = None]
    BY <1>1, <1>2 DEF Perm!Applied, Perm!Update, Perm!Resumed, LiveSaved, Perm!NextRunAsTold,
       Perm!bounds
  <1>4. /\ run' \in Prompts /\ run'.stage = "unlocked"
        /\ UNCHANGED <<run.preset, run.options, run.due, run.changed>>
    BY <1>1, <1>3 DEF Prompts, Stages
  <1>5. PermTypes' /\ PermLocks'
    BY <1>1, <1>3, <1>4 DEF PermTypes, PermLocks, PermValues, Perm!TypeOK
  <1>6. LiveSaved' /\ PermTurn' /\ Perm!RunsAsChosen' /\ Perm!NotUnderTheRun'
    BY <1>1, <1>3, <1>4 DEF LiveSaved, PermTurn, Perm!RunsAsChosen, Perm!NotUnderTheRun,
       Perm!Running
  <1>7. Perm!Queued' = Perm!Nothing
    BY <1>3 DEF Perm!Queued, Perm!QueuedFor, Perm!Nothing
  <1>8. told \in Perm!Options
    BY DEF PermTypes, Perm!TypeOK
  <1>9. Perm!NextRunAsTold'
    BY <1>3, <1>7, <1>8, OverNothing DEF Perm!NextRunAsTold, Perm!Over
  <1> QED
    BY <1>5, <1>6, <1>9

\* A preset replaces what the session had.
LEMMA PermRoutedKeeps ==
  ASSUME PermValues, PermInv, Perm!Routed
  PROVE  PermInv'
  <1> USE DEF PermInv
  <1>1. /\ run # None /\ run.stage = "routing" /\ run \in Prompts
        /\ run' = [run EXCEPT !.stage = "routed"] /\ saved \in Perm!Options
        /\ UNCHANGED <<provider, policy, lock, switching>>
    BY DEF Perm!Routed, PermTypes, Perm!Running, Perm!TypeOK, Perm!bounds
  <1>2. /\ run' \in Prompts /\ run'.stage = "routed"
        /\ UNCHANGED <<run.pending, run.preset, run.options, run.due, run.changed>>
    BY <1>1 DEF Prompts, Stages
  <1>3. CASE run.preset = "inherit"
    <2>1. UNCHANGED <<saved, live, pending, request, told>>
      BY <1>3 DEF Perm!Routed
    <2>2. PermTypes' /\ PermLocks'
      BY <1>1, <1>2, <2>1 DEF PermTypes, PermLocks, Perm!TypeOK
    <2>3. LiveSaved' /\ PermTurn' /\ Perm!RunsAsChosen' /\ Perm!NotUnderTheRun'
      BY <1>1, <1>2, <1>3, <2>1 DEF LiveSaved, PermTurn, Perm!RunsAsChosen,
         Perm!NotUnderTheRun, Perm!Running
    <2>4. Perm!NextRunAsTold'
      BY <1>1, <2>1, ToldStays
    <2> QED
      BY <2>2, <2>3, <2>4
  <1>4. CASE run.preset # "inherit"
    <2>1. PICK o \in Perm!Options : o = Perm!Native(run.preset)
      BY NativeOptions
    <2>2. /\ saved' = o /\ live' = o /\ pending' \in {pending, None}
          /\ request' = IF request # None THEN [request EXCEPT !.stale = TRUE] ELSE None
          /\ told' = Perm!Over(Perm!Queued', saved')
      BY <1>4, <2>1, NativeOptions DEF Perm!Routed, Perm!Update
    <2>3. lock = "request" => /\ request' \in Requests /\ request'.stale
                              /\ request'.stage = request.stage
      BY <2>2 DEF PermTypes, PermValues, Requests
    <2>4. Perm!Queued' \in Perm!Choices \cup {Perm!Nothing}
      BY <2>2 DEF PermTypes, PermValues, Perm!TypeOK, Waiting, Perm!Queued, Perm!QueuedFor,
         Perm!Nothing
    <2>5. told' \in Perm!Options
      BY <2>1, <2>2, <2>4, OverOptions, OverNothing
    <2>6. PermTypes' /\ PermLocks'
      BY <1>1, <1>2, <2>1, <2>2, <2>3, <2>5 DEF PermTypes, PermLocks, Perm!TypeOK
    <2>7. LiveSaved' /\ PermTurn' /\ Perm!RunsAsChosen' /\ Perm!NotUnderTheRun'
      BY <1>1, <1>2, <1>4, <2>1, <2>2 DEF LiveSaved, PermTurn, Perm!RunsAsChosen,
         Perm!NotUnderTheRun, Perm!Running, Perm!Native
    <2>8. Perm!NextRunAsTold'
      BY <2>2 DEF Perm!NextRunAsTold, Perm!Over
    <2> QED
      BY <2>6, <2>7, <2>8
  <1> QED
    BY <1>3, <1>4

\* What waited for the harness before the switch is not for the new one.
LEMMA PermSwitchedKeeps ==
  ASSUME PermValues, PermInv, NEW p \in Providers, Perm!Switched(p)
  PROVE  PermInv'
  <1> USE DEF PermInv
  <1>1. PICK o \in Perm!Options : live' = o /\ saved' = o
    <2>1. [f \in Fields |-> Default] \in Perm!Options
      BY DEF PermValues, Perm!Options
    <2> QED
      BY <2>1, NativeOptions DEF Perm!Switched
  <1>2. /\ lock = "switch" /\ run = None /\ lock' = None /\ provider' = p
        /\ switching' = FALSE /\ told' = Perm!Over(Perm!QueuedFor(p), o)
        /\ UNCHANGED <<pending, policy, request, run>>
    BY <1>1 DEF Perm!Switched, PermLocks, Perm!bounds
  <1>3. told' \in Perm!Options
    BY <1>1, <1>2, QueuedIs, OverOptions, OverNothing
  <1>4. PermTypes' /\ PermLocks'
    BY <1>1, <1>2, <1>3 DEF PermTypes, PermLocks, PermValues, Perm!TypeOK
  <1>5. LiveSaved' /\ PermTurn' /\ Perm!RunsAsChosen' /\ Perm!NotUnderTheRun'
    BY <1>1, <1>2 DEF LiveSaved, PermTurn, Perm!RunsAsChosen, Perm!NotUnderTheRun, Perm!Running
  <1>6. Perm!NextRunAsTold'
    BY <1>1, <1>2 DEF Perm!NextRunAsTold, Perm!Queued, Perm!QueuedFor, Perm!Over, Perm!Nothing
  <1> QED
    BY <1>4, <1>5, <1>6

\* A step that changes no variable.
LEMMA PermStutters ==
  ASSUME PermValues, PermInv, UNCHANGED Perm!vars
  PROVE  PermInv'
  <1> USE DEF PermInv
  <1>1. UNCHANGED <<provider, saved, pending, live, policy, lock, request, switching, run, told>>
    BY DEF Perm!vars
  <1>2. PermTypes' /\ PermLocks' /\ LiveSaved' /\ PermTurn'
    BY <1>1 DEF PermTypes, PermLocks, LiveSaved, PermTurn, Perm!TypeOK, Perm!Native
  <1>3. Perm!NextRunAsTold' /\ Perm!RunsAsChosen' /\ Perm!NotUnderTheRun'
    BY <1>1, ToldStays DEF Perm!RunsAsChosen, Perm!NotUnderTheRun, Perm!Running, Perm!Native
  <1> QED
    BY <1>2, <1>3

\* Every step keeps the invariant.
LEMMA PermStep ==
  ASSUME PermValues, PermInv, [Perm!Next]_(Perm!vars)
  PROVE  PermInv'
  <1>1. CASE Perm!Next
    BY <1>1, PermChooseKeeps, PermSetPolicyKeeps, PermSwitchedKeeps, PermQueueKeeps,
       PermBeginUpdateKeeps,
       PermUpdatedKeeps, PermRequestFailsKeeps, PermDiscardKeeps, PermReserveKeeps,
       PermTurnLocksKeeps,
       PermNothingDueKeeps, PermBeginApplyKeeps, PermAppliedKeeps, PermReadPresetKeeps,
       PermRoutedKeeps,
       PermSubmitKeeps, PermTurnRefusedKeeps, PermTurnFailsKeeps, PermEndTurnKeeps,
       PermBeginSwitchKeeps,
       PermSwitchLocksKeeps, PermSwitchFailsKeeps, PermCloseKeeps, PermRestartKeeps
    DEF Perm!Next
  <1>2. CASE UNCHANGED Perm!vars
    BY <1>2, PermStutters
  <1> QED
    BY <1>1, <1>2

\* The invariant says what the permissions of a turn are.
LEMMA PermImplies == PermInv => Perm!PermissionsAsChosen
  BY DEF PermInv, PermTypes, Perm!PermissionsAsChosen

\* A task runs under the permissions its user chose: whatever is queued, applied,
\* discarded, ruled by a preset or switched meanwhile, the next run has what the
\* user was last told it has, a turn that nobody changed runs under its preset
\* or its choice, and no turn's permissions change under it.
\* (desktop/service.py:1851-1862)
THEOREM PermissionsAreAsChosen ==
  PermValues => (Perm!Spec => []Perm!PermissionsAsChosen)
  <1> SUFFICES ASSUME PermValues
               PROVE  Perm!Spec => []Perm!PermissionsAsChosen
    OBVIOUS
  <1>1. PermInv /\ [Perm!Next]_(Perm!vars) => PermInv'
    BY PermStep
  <1> QED
    BY PermInit, <1>1, PermImplies, PTL DEF Perm!Spec

\* The invariant, of the behaviours of a suite that are of this part.
PermPart == part = "permissions" => PermInv

\* What a run checks of the permissions, for any constants: the next turn has what
\* the user was told, and none change under the one that runs.
THEOREM TurnsRunAsChosen == PermValues => (SuiteSpec => []PermissionsAsChosen)
  <1> SUFFICES ASSUME PermValues
               PROVE  SuiteSpec => []PermissionsAsChosen
    OBVIOUS
  <1>1. SuiteInit => PermPart
    BY PermInit DEF SuiteInit, PermPart
  <1>2. PermPart /\ [SuiteNext]_suite => PermPart'
    <2> SUFFICES ASSUME part' = "permissions", PermPart, [SuiteNext]_suite
                 PROVE  PermInv'
      BY DEF PermPart
    <2>1. part = "permissions" /\ [Perm!Next]_(Perm!vars)
      <3>1. CASE SuiteNext
        BY <3>1 DEF SuiteNext
      <3>2. CASE UNCHANGED suite
        BY <3>2 DEF suite, permissions, Perm!vars
      <3> QED
        BY <3>1, <3>2
    <2> QED
      BY <2>1, PermStep DEF PermPart
  <1>3. PermPart => PermissionsAsChosen
    BY PermImplies DEF PermPart, PermissionsAsChosen
  <1> QED
    BY <1>1, <1>2, <1>3, PTL DEF SuiteSpec

------------------------------------------------------------------------------
(* The policy of routed turns and of their workers (RoutingPolicy).         *)

\* The files a save has yet to write.
Lefts == {Routing!Order, Tail(Routing!Order), Tail(Tail(Routing!Order))}

PolicyTypes ==
    /\ Routing!TypeOK /\ turns \in Nat /\ turns <= MaxRouted
    /\ op = [w \in Windows |-> op[w]] /\ shown = [w \in Windows |-> shown[w]]
    /\ \A w \in Windows :
         /\ op[w].at \in {"idle", "view", "load", "write"}
         /\ op[w].at \in {"view", "load"} => op[w].update \in Routing!Updates
         /\ op[w].at = "write" =>
              /\ op[w] = [at |-> "write", left |-> op[w].left, policy |-> op[w].policy]
              /\ op[w].left \in Lefts /\ op[w].policy \in Routing!Policy
    /\ run \in {Routing!Idle, [at |-> "running"]} \cup [at : {"apply"}, preset : RoutePresets]
    /\ \/ worker = Routing!Idle
       \/ worker \in [at : {"constrain", "prepare"}, turn : Nat, policy : Routing!Policy]
       \/ worker \in [at : {"running"}, turn : Nat, runs : RoutePresets]

\* Two that save at once overlap; one that does not saves what it was shown.
SavesSeen ==
    /\ \A v, w \in Windows : v # w /\ Routing!Saving(v) /\ Routing!Saving(w) => overlapped
    /\ \A w \in Windows : op[w].at = "load" => overlapped \/ shown[w] = files
    /\ Routing!NoBlindSave

\* The worker of the turn that runs.
OfTheTurn == worker # Routing!Idle /\ run.at = "running" /\ worker.turn = turns

\* A worker is of a turn that has begun to run; one of the turn that runs was
\* made under automatic routing, and what its coordinator has was compared.
WorkersBound ==
    /\ worker # Routing!Idle => worker.turn <= turns
    /\ run.at = "apply" => turns >= 1 /\ (worker # Routing!Idle => worker.turn < turns)
    /\ OfTheTurn /\ worker.at \in {"constrain", "prepare"} =>
         Routing!Mode(worker.policy) = "auto"
    /\ OfTheTurn /\ worker.at = "prepare" /\ captured # None /\ captured.run = turns =>
         captured.preset \in {"inherit", native}
    /\ Routing!WorkersAsCaptured

PolicyInv == PolicyTypes /\ SavesSeen /\ WorkersBound

\* What the constants are taken to be.
PolicyValues == "inherit" \in RoutePresets /\ MaxRouted \in Nat

\* The invariant holds at the start: nothing is being saved and nothing runs.
LEMMA PolicyInit == PolicyValues /\ Routing!Init => PolicyInv
  <1> SUFFICES ASSUME PolicyValues, Routing!Init
               PROVE  PolicyInv
    OBVIOUS
  <1>1. \A w \in Windows : op[w].at = "idle"
    BY DEF Routing!Init, Routing!Idle
  <1>2. Routing!TypeOK
    <2>1. PICK p \in RoutePresets :
            files = [permissions |-> p, execution |-> "manual", base |-> p # "inherit"]
      BY DEF Routing!Init
    <2>2. (p # "inherit") \in BOOLEAN
      OBVIOUS
    <2>3. files \in Routing!Policy
      BY <2>1, <2>2 DEF Routing!Policy
    <2> QED
      BY <2>3 DEF Routing!Init, Routing!TypeOK
  <1>3. PolicyTypes
    BY <1>1, <1>2 DEF Routing!Init, Routing!Idle, PolicyTypes, PolicyValues
  <1>4. SavesSeen
    BY <1>1 DEF Routing!Init, SavesSeen, Routing!Saving, Routing!NoBlindSave
  <1>5. WorkersBound
    BY DEF Routing!Init, Routing!Idle, WorkersBound, OfTheTurn, Routing!WorkersAsCaptured
  <1> QED
    BY <1>3, <1>4, <1>5 DEF PolicyInv

\* What a window does leaves the workers as they are, and what a turn or a
\* worker does leaves the saves as they are.
LEMMA WorkersStay ==
  ASSUME WorkersBound, UNCHANGED <<thread, native, run, captured, worker, turns>>
  PROVE  WorkersBound'
  BY DEF WorkersBound, OfTheTurn, Routing!Mode, Routing!WorkersAsCaptured, Routing!Idle

\* A step that leaves the settings alone leaves the saves as they were.
LEMMA SavesStay ==
  ASSUME SavesSeen, UNCHANGED <<files, shown, op, blind, overlapped>>
  PROVE  SavesSeen'
  BY DEF SavesSeen, Routing!Saving, Routing!NoBlindSave

\* The policy a save writes is a policy.
LEMMA UpdatedPolicy ==
  ASSUME PolicyValues, NEW u \in Routing!Updates, NEW p \in Routing!Policy
  PROVE  Routing!Updated(p, u) \in Routing!Policy
  <1>1. DOMAIN p = {"permissions", "execution", "base"}
    BY DEF Routing!Policy
  <1>2. /\ "permissions" \in DOMAIN u => u["permissions"] \in RoutePresets
        /\ "execution" \in DOMAIN u => u["execution"] \in {"manual", "auto"}
        /\ "base" \in DOMAIN u => u["base"] \in BOOLEAN
    <2>1. \/ \E b \in BOOLEAN : u = [base |-> b]
          \/ u = [base |-> TRUE, execution |-> "auto"]
          \/ \E q \in RoutePresets : u = [base |-> TRUE, permissions |-> q]
      BY DEF Routing!Updates
    <2>2. CASE \E b \in BOOLEAN : u = [base |-> b]
      BY <2>2
    <2>3. CASE u = [base |-> TRUE, execution |-> "auto"]
      BY <2>3
    <2>4. CASE \E q \in RoutePresets : u = [base |-> TRUE, permissions |-> q]
      BY <2>4
    <2> QED
      BY <2>1, <2>2, <2>3, <2>4
  <1> QED
    BY <1>1, <1>2 DEF Routing!Updated, Routing!Policy

\* A window is shown the policy of the files.
LEMMA PolicyViewKeeps ==
  ASSUME PolicyInv, NEW w \in Windows, Routing!View(w)
  PROVE  PolicyInv'
  <1>1. /\ op[w].at = "idle" /\ shown' = [shown EXCEPT ![w] = files]
        /\ UNCHANGED <<files, op, blind, overlapped, thread, native, run, captured, worker, turns>>
    BY DEF Routing!View, Routing!Idle, Routing!session
  <1>2. PolicyTypes'
    BY <1>1 DEF PolicyInv, PolicyTypes, Routing!TypeOK
  <1>3. SavesSeen'
    BY <1>1 DEF PolicyInv, PolicyTypes, SavesSeen, Routing!Saving, Routing!NoBlindSave
  <1> QED
    BY <1>1, <1>2, <1>3, WorkersStay DEF PolicyInv

\* A window asks for a save.
LEMMA PolicySubmitKeeps ==
  ASSUME PolicyInv, NEW w \in Windows, Routing!Submit(w)
  PROVE  PolicyInv'
  <1>1. PICK u \in Routing!Updates : op' = [op EXCEPT ![w] = [at |-> "view", update |-> u]]
    BY DEF Routing!Submit
  <1>2. UNCHANGED <<files, shown, blind, overlapped, thread, native, run, captured, worker,
                    turns>>
    BY DEF Routing!Submit, Routing!session
  <1>3. /\ \A v \in Windows : v # w => op'[v] = op[v]
        /\ op' = [v \in Windows |-> op'[v]] /\ op'[w].at = "view" /\ op'[w].update = u
    BY <1>1 DEF PolicyInv, PolicyTypes
  <1>4. PolicyTypes'
    BY <1>2, <1>3 DEF PolicyInv, PolicyTypes, Routing!TypeOK
  <1>5. SavesSeen'
    BY <1>2, <1>3 DEF PolicyInv, SavesSeen, Routing!Saving, Routing!NoBlindSave
  <1> QED
    BY <1>2, <1>4, <1>5, WorkersStay DEF PolicyInv

\* Whoever starts to save was shown the policy as it is.
LEMMA PolicyCompareKeeps ==
  ASSUME PolicyInv, NEW w \in Windows, Routing!Compare(w)
  PROVE  PolicyInv'
  <1>1. /\ op[w].at = "view"
        /\ op' = [op EXCEPT ![w] = IF shown[w] = files
                                   THEN [at |-> "load", update |-> op[w].update] ELSE Routing!Idle]
        /\ overlapped' = (overlapped \/ \E v \in Windows : Routing!Saving(v))
        /\ UNCHANGED <<files, shown, blind, thread, native, run, captured, worker, turns>>
    BY DEF Routing!Compare, Routing!session
  <1>2. /\ \A v \in Windows : v # w => op'[v] = op[v]
        /\ op' = [v \in Windows |-> op'[v]]
        /\ \/ op'[w].at = "load" /\ op'[w].update = op[w].update /\ shown[w] = files
           \/ op'[w].at = "idle"
    BY <1>1 DEF PolicyInv, PolicyTypes, Routing!Idle
  <1>3. PolicyTypes'
    BY <1>1, <1>2 DEF PolicyInv, PolicyTypes, Routing!TypeOK
  <1>4. overlapped => overlapped'
    BY <1>1
  <1>5. ASSUME NEW v \in Windows, NEW x \in Windows, v # x,
               Routing!Saving(v)', Routing!Saving(x)'
        PROVE  overlapped'
    BY <1>1, <1>2, <1>4, <1>5 DEF PolicyInv, SavesSeen, Routing!Saving
  <1>6. SavesSeen'
    BY <1>1, <1>2, <1>4, <1>5 DEF PolicyInv, SavesSeen, Routing!NoBlindSave
  <1> QED
    BY <1>1, <1>3, <1>6, WorkersStay DEF PolicyInv

\* A save that loads the files goes on from what its window was shown, or overlaps.
LEMMA PolicyLoadKeeps ==
  ASSUME PolicyValues, PolicyInv, NEW w \in Windows, Routing!Load(w)
  PROVE  PolicyInv'
  <1>1. PICK p : p = Routing!Updated(files, op[w].update)
    OBVIOUS
  <1>2. /\ op[w].at = "load" /\ blind' = (blind \/ files # shown[w])
        /\ op' = [op EXCEPT ![w] = [at |-> "write", left |-> Routing!Order, policy |-> p]]
        /\ UNCHANGED <<files, shown, overlapped, thread, native, run, captured, worker, turns>>
    BY <1>1 DEF Routing!Load, Routing!session
  <1>3. p \in Routing!Policy
    BY <1>1, <1>2, UpdatedPolicy DEF PolicyInv, PolicyTypes, Routing!TypeOK
  <1>4. /\ \A v \in Windows : v # w => op'[v] = op[v]
        /\ op' = [v \in Windows |-> op'[v]]
        /\ op'[w] = [at |-> "write", left |-> Routing!Order, policy |-> p]
    BY <1>2 DEF PolicyInv, PolicyTypes
  <1>5. PolicyTypes'
    BY <1>2, <1>3, <1>4 DEF PolicyInv, PolicyTypes, Routing!TypeOK, Lefts
  <1>6. SavesSeen'
    BY <1>2, <1>4 DEF PolicyInv, SavesSeen, Routing!Saving, Routing!NoBlindSave
  <1> QED
    BY <1>2, <1>5, <1>6, WorkersStay DEF PolicyInv

\* What a save has left, file after file.
LEMMA OneFile ==
  ASSUME NEW l \in Lefts
  PROVE  /\ Head(l) \in {"permissions", "execution", "base"}
         /\ Tail(l) = <<>> \/ Tail(l) \in Lefts
  <1>1. CASE l = <<"permissions", "execution", "base">>
    <2>1. Head(l) = "permissions" /\ Tail(l) = <<"execution", "base">>
      BY <1>1
    <2>2. Tail(Routing!Order) = Tail(l)
      BY <1>1 DEF Routing!Order
    <2> QED
      BY <2>1, <2>2 DEF Lefts
  <1>2. CASE l = <<"execution", "base">>
    <2>1. Head(l) = "execution" /\ Tail(l) = <<"base">>
      BY <1>2
    <2>2. Tail(Routing!Order) = l
      BY <1>2 DEF Routing!Order
    <2> QED
      BY <2>1, <2>2 DEF Lefts
  <1>3. CASE l = <<"base">>
    BY <1>3
  <1>4. /\ Routing!Order = <<"permissions", "execution", "base">>
        /\ Tail(Routing!Order) = <<"execution", "base">>
        /\ Tail(Tail(Routing!Order)) = <<"base">>
    BY DEF Routing!Order
  <1> QED
    BY <1>1, <1>2, <1>3, <1>4 DEF Lefts

\* A save writes the next of its files.
LEMMA PolicyWriteKeeps ==
  ASSUME PolicyInv, NEW w \in Windows, Routing!Write(w)
  PROVE  PolicyInv'
  <1>1. PICK f \in {"permissions", "execution", "base"}, left \in Lefts \cup {<<>>} :
          f = Head(op[w].left) /\ left = Tail(op[w].left)
    BY OneFile DEF Routing!Write, PolicyInv, PolicyTypes
  <1>2. /\ op[w].at = "write"
        /\ files' = [files EXCEPT ![f] = op[w].policy[f]]
        /\ op' = [op EXCEPT ![w] = IF left = <<>> THEN Routing!Idle ELSE [@ EXCEPT !.left = left]]
        /\ shown' = [shown EXCEPT ![w] = IF left = <<>> THEN files' ELSE @]
        /\ UNCHANGED <<blind, overlapped, thread, native, run, captured, worker, turns>>
    BY <1>1 DEF Routing!Write, Routing!session
  <1>3. op[w] = [at |-> "write", left |-> op[w].left, policy |-> op[w].policy]
        /\ op[w].policy \in Routing!Policy /\ files \in Routing!Policy
    BY <1>2 DEF PolicyInv, PolicyTypes, Routing!TypeOK
  <1>4. files' \in Routing!Policy
    BY <1>2, <1>3 DEF Routing!Policy
  <1>5. /\ \A v \in Windows : v # w => op'[v] = op[v] /\ shown'[v] = shown[v]
        /\ op' = [v \in Windows |-> op'[v]] /\ shown' = [v \in Windows |-> shown'[v]]
        /\ \/ op'[w].at = "idle"
           \/ /\ op'[w] = [at |-> "write", left |-> left, policy |-> op[w].policy]
              /\ left \in Lefts
    BY <1>1, <1>2, <1>3 DEF PolicyInv, PolicyTypes, Routing!Idle
  <1>6. PolicyTypes'
    BY <1>2, <1>3, <1>4, <1>5 DEF PolicyInv, PolicyTypes, Routing!TypeOK
  <1>7. Routing!Saving(w) /\ \A v \in Windows : v # w /\ Routing!Saving(v) => overlapped
    BY <1>2 DEF PolicyInv, SavesSeen, Routing!Saving
  <1>8. SavesSeen'
    BY <1>2, <1>5, <1>7 DEF PolicyInv, SavesSeen, Routing!Saving, Routing!NoBlindSave
  <1> QED
    BY <1>2, <1>6, <1>8, WorkersStay DEF PolicyInv

\* The mode of the conversation may change; the worker keeps its own.
LEMMA PolicyChooseModeKeeps ==
  ASSUME PolicyInv, NEW m \in {"manual", "auto"}, Routing!ChooseMode(m)
  PROVE  PolicyInv'
  <1>1. /\ run = Routing!Idle /\ UNCHANGED <<files, shown, op, blind, overlapped>>
        /\ UNCHANGED <<native, run, captured, worker, turns>>
    BY DEF Routing!ChooseMode, Routing!settings
  <1>2. PolicyTypes'
    BY <1>1 DEF PolicyInv, PolicyTypes, Routing!TypeOK
  <1>3. WorkersBound'
    BY <1>1 DEF PolicyInv, WorkersBound, OfTheTurn, Routing!WorkersAsCaptured, Routing!Idle
  <1> QED
    BY <1>1, <1>2, <1>3, SavesStay DEF PolicyInv

\* A worker that is left over is of an earlier turn.
LEMMA PolicyBeginTurnKeeps ==
  ASSUME PolicyValues, PolicyInv, Routing!BeginTurn
  PROVE  PolicyInv'
  <1>1. /\ run = Routing!Idle /\ turns < MaxRouted /\ turns' = turns + 1
        /\ UNCHANGED <<files, shown, op, blind, overlapped, thread, native, captured, worker>>
        /\ run' \in {[at |-> "running"], [at |-> "apply", preset |-> files.permissions]}
    BY DEF Routing!BeginTurn, Routing!settings
  <1>2. turns \in Nat /\ files.permissions \in RoutePresets
    BY DEF PolicyInv, PolicyTypes, Routing!TypeOK, Routing!Policy
  <1>3. PolicyTypes'
    BY <1>1, <1>2 DEF PolicyInv, PolicyTypes, PolicyValues, Routing!TypeOK
  <1>4. worker # Routing!Idle => worker.turn \in Nat /\ worker.turn < turns'
    BY <1>1, <1>2 DEF PolicyInv, PolicyTypes, WorkersBound
  <1>5. worker.at # "idle" => worker # Routing!Idle
    BY DEF Routing!Idle
  <1>6. WorkersBound'
    BY <1>1, <1>2, <1>4, <1>5 DEF WorkersBound, OfTheTurn, Routing!WorkersAsCaptured,
       Routing!Idle
  <1> QED
    BY <1>1, <1>3, <1>6, SavesStay DEF PolicyInv

\* The preset of a turn is captured before any worker of it is there.
LEMMA PolicyCaptureKeeps ==
  ASSUME PolicyValues, PolicyInv, Routing!Capture
  PROVE  PolicyInv'
  <1>1. /\ run \in [at : {"apply"}, preset : RoutePresets] /\ run' = [at |-> "running"]
        /\ native' = IF run.preset = "inherit" THEN native ELSE run.preset
        /\ captured' = [run |-> turns, preset |-> run.preset]
        /\ UNCHANGED <<files, shown, op, blind, overlapped, thread, worker, turns>>
    BY DEF Routing!Capture, Routing!settings, PolicyInv, PolicyTypes, Routing!Idle
  <1>2. run.at = "apply" /\ run.preset \in RoutePresets /\ turns \in 1 .. MaxRouted
    BY <1>1 DEF PolicyInv, PolicyTypes, WorkersBound, PolicyValues
  <1>3. PolicyTypes'
    BY <1>1, <1>2 DEF PolicyInv, PolicyTypes, Routing!TypeOK
  <1>4. worker # Routing!Idle => worker.turn \in Nat /\ worker.turn < turns
    BY <1>2 DEF PolicyInv, PolicyTypes, WorkersBound
  <1>5. worker.at # "idle" => worker # Routing!Idle
    BY DEF Routing!Idle
  <1>6. WorkersBound'
    BY <1>1, <1>2, <1>4, <1>5 DEF WorkersBound, OfTheTurn, Routing!WorkersAsCaptured,
       Routing!Idle
  <1> QED
    BY <1>1, <1>3, <1>6, SavesStay DEF PolicyInv

\* A turn ends; its worker is of a turn that is over.
LEMMA PolicyEndTurnKeeps ==
  ASSUME PolicyInv, Routing!EndTurn
  PROVE  PolicyInv'
  <1>1. /\ run' = Routing!Idle /\ captured' \in {captured, None}
        /\ UNCHANGED <<files, shown, op, blind, overlapped, thread, native, worker, turns>>
    BY DEF Routing!EndTurn, Routing!settings
  <1>2. PolicyTypes'
    BY <1>1 DEF PolicyInv, PolicyTypes, Routing!TypeOK
  <1>3. WorkersBound'
    BY <1>1 DEF PolicyInv, WorkersBound, OfTheTurn, Routing!WorkersAsCaptured, Routing!Idle
  <1> QED
    BY <1>1, <1>2, <1>3, SavesStay DEF PolicyInv

\* A worker starts with the policy that is loaded, under automatic routing.
LEMMA PolicyStartWorkerKeeps ==
  ASSUME PolicyInv, Routing!StartWorker
  PROVE  PolicyInv'
  <1>1. /\ run.at = "running" /\ Routing!Mode(files) = "auto"
        /\ worker' = [at |-> "constrain", turn |-> turns, policy |-> files]
        /\ UNCHANGED <<files, shown, op, blind, overlapped, thread, native, run, captured, turns>>
    BY DEF Routing!StartWorker, Routing!settings
  <1>2. turns \in Nat /\ files \in Routing!Policy
    BY DEF PolicyInv, PolicyTypes, Routing!TypeOK
  <1>3. PolicyTypes'
    BY <1>1, <1>2 DEF PolicyInv, PolicyTypes, Routing!TypeOK
  <1>4. WorkersBound'
    BY <1>1, <1>2 DEF WorkersBound, OfTheTurn, Routing!WorkersAsCaptured, Routing!Mode
  <1> QED
    BY <1>1, <1>3, <1>4, SavesStay DEF PolicyInv

\* The preset its worker would get is compared with what the coordinator has.
LEMMA PolicyConstrainKeeps ==
  ASSUME PolicyInv, Routing!Constrain
  PROVE  PolicyInv'
  <1>1. /\ worker.at = "constrain"
        /\ worker' = IF Routing!RoutingPreset(worker.policy) \in {"inherit", native}
                     THEN [worker EXCEPT !.at = "prepare"] ELSE Routing!Idle
        /\ UNCHANGED <<files, shown, op, blind, overlapped, thread, native, run, captured, turns>>
    BY DEF Routing!Constrain, Routing!settings
  <1>2. worker \in [at : {"constrain", "prepare"}, turn : Nat, policy : Routing!Policy]
    BY <1>1 DEF PolicyInv, PolicyTypes, Routing!Idle
  <1>3. CASE worker' = Routing!Idle
    <2>1. PolicyTypes'
      BY <1>1, <1>3 DEF PolicyInv, PolicyTypes, Routing!TypeOK, Routing!Idle
    <2>2. WorkersBound'
      BY <1>1, <1>3 DEF PolicyInv, WorkersBound, OfTheTurn, Routing!WorkersAsCaptured,
         Routing!Idle
    <2> QED
      BY <1>1, <2>1, <2>2, SavesStay DEF PolicyInv
  <1>4. CASE /\ Routing!RoutingPreset(worker.policy) \in {"inherit", native}
             /\ worker' = [worker EXCEPT !.at = "prepare"]
    <2>1. /\ worker' \in [at : {"constrain", "prepare"}, turn : Nat, policy : Routing!Policy]
          /\ worker'.at = "prepare" /\ UNCHANGED <<worker.turn, worker.policy>>
      BY <1>2, <1>4
    <2>2. PolicyTypes'
      BY <1>1, <2>1 DEF PolicyInv, PolicyTypes, Routing!TypeOK
    <2>3. worker # Routing!Idle
      BY <1>1 DEF Routing!Idle
    <2>4. WorkersBound'
      BY <1>1, <1>4, <2>1, <2>3
      DEF PolicyInv, WorkersBound, OfTheTurn, Routing!WorkersAsCaptured, Routing!Mode,
          Routing!RoutingPreset
    <2> QED
      BY <1>1, <2>2, <2>4, SavesStay DEF PolicyInv
  <1> QED
    BY <1>1, <1>3, <1>4

\* A worker runs with what was captured for its turn.
LEMMA PolicyPrepareKeeps ==
  ASSUME PolicyValues, PolicyInv, Routing!Prepare
  PROVE  PolicyInv'
  <1>1. PICK r : r = Routing!RoutingPreset(worker.policy)
    OBVIOUS
  <1>2. /\ worker.at = "prepare"
        /\ worker' = [at |-> "running", turn |-> worker.turn, runs |-> r]
        /\ UNCHANGED <<files, shown, op, blind, overlapped, thread, native, run, captured, turns>>
    BY <1>1 DEF Routing!Prepare, Routing!settings
  <1>3. worker \in [at : {"constrain", "prepare"}, turn : Nat, policy : Routing!Policy]
    BY <1>2 DEF PolicyInv, PolicyTypes, Routing!Idle
  <1>4. r \in RoutePresets
    BY <1>1, <1>3 DEF PolicyInv, PolicyTypes, PolicyValues, Routing!TypeOK, Routing!Policy,
       Routing!RoutingPreset
  <1>5. PolicyTypes'
    BY <1>2, <1>3, <1>4 DEF PolicyInv, PolicyTypes, Routing!TypeOK
  <1>6. worker # Routing!Idle
    BY <1>2 DEF Routing!Idle
  <1>7. WorkersBound'
    BY <1>1, <1>2, <1>6
    DEF PolicyInv, WorkersBound, OfTheTurn, Routing!WorkersAsCaptured, Routing!Mode,
        Routing!RoutingPreset
  <1> QED
    BY <1>2, <1>5, <1>7, SavesStay DEF PolicyInv

\* A worker that has ended is no worker.
LEMMA PolicyWorkerEndsKeeps ==
  ASSUME PolicyInv, Routing!WorkerEnds
  PROVE  PolicyInv'
  <1>1. /\ worker' = Routing!Idle
        /\ UNCHANGED <<files, shown, op, blind, overlapped, thread, native, run, captured, turns>>
    BY DEF Routing!WorkerEnds, Routing!settings
  <1>2. PolicyTypes'
    BY <1>1 DEF PolicyInv, PolicyTypes, Routing!TypeOK
  <1>3. WorkersBound'
    BY <1>1 DEF PolicyInv, WorkersBound, OfTheTurn, Routing!WorkersAsCaptured, Routing!Idle
  <1> QED
    BY <1>1, <1>2, <1>3, SavesStay DEF PolicyInv

\* After a crash no save, turn or worker is left.
LEMMA PolicyCrashKeeps ==
  ASSUME PolicyInv, NEW p \in {"desktop", "preview"}, Routing!Crash(p)
  PROVE  PolicyInv'
  <1>1. /\ op' = [w \in Windows |-> IF Routing!Process(w) = p THEN Routing!Idle ELSE op[w]]
        /\ shown' = [w \in Windows |-> IF Routing!Process(w) = p THEN None ELSE shown[w]]
        /\ run' \in {Routing!Idle, run}
        /\ UNCHANGED <<files, blind, overlapped, thread, native, captured, worker, turns>>
    BY DEF Routing!Crash
  <1>2. \A w \in Windows : \/ op'[w] = Routing!Idle
                           \/ op'[w] = op[w] /\ shown'[w] = shown[w]
    BY <1>1
  <1>3. PolicyTypes'
    BY <1>1, <1>2 DEF PolicyInv, PolicyTypes, Routing!TypeOK, Routing!Idle
  <1>4. SavesSeen'
    BY <1>1, <1>2 DEF PolicyInv, SavesSeen, Routing!Saving, Routing!NoBlindSave, Routing!Idle
  <1>5. WorkersBound'
    BY <1>1 DEF PolicyInv, WorkersBound, OfTheTurn, Routing!WorkersAsCaptured, Routing!Mode,
       Routing!Idle
  <1> QED
    BY <1>3, <1>4, <1>5 DEF PolicyInv

\* Every step keeps the invariant.
LEMMA PolicyStep ==
  ASSUME PolicyValues, PolicyInv, [Routing!Next]_(Routing!vars)
  PROVE  PolicyInv'
  <1>1. CASE Routing!Next
    BY <1>1, PolicyViewKeeps, PolicySubmitKeeps, PolicyCompareKeeps, PolicyLoadKeeps,
       PolicyWriteKeeps, PolicyChooseModeKeeps,
       PolicyBeginTurnKeeps, PolicyCaptureKeeps, PolicyEndTurnKeeps, PolicyStartWorkerKeeps,
       PolicyConstrainKeeps,
       PolicyPrepareKeeps, PolicyWorkerEndsKeeps, PolicyCrashKeeps
    DEF Routing!Next
  <1>2. CASE UNCHANGED Routing!vars
    <2>1. UNCHANGED <<files, shown, op, thread, native, run, captured, worker, blind,
                      overlapped, turns>>
      BY <1>2 DEF Routing!vars
    <2>2. PolicyTypes'
      BY <2>1 DEF PolicyInv, PolicyTypes, Routing!TypeOK
    <2> QED
      BY <2>1, <2>2, SavesStay, WorkersStay DEF PolicyInv
  <1> QED
    BY <1>1, <1>2

\* The invariant says what saves replaced and what workers run under.
LEMMA PolicyImplies == PolicyInv => Routing!PolicyHolds
  BY DEF PolicyInv, PolicyTypes, SavesSeen, WorkersBound, Routing!PolicyHolds

\* No save overwrites a policy its window was not shown, unless two processes
\* saved at once; and a worker of the turn that runs has the preset its turn
\* captured, which its coordinator has as well, whatever is saved meanwhile.
\* (routing_settings.py:219-221, routing/permissions.py:35, execution.py:564-583)
THEOREM RoutingPolicyHolds ==
  PolicyValues => (Routing!Spec => []Routing!PolicyHolds)
  <1> SUFFICES ASSUME PolicyValues
               PROVE  Routing!Spec => []Routing!PolicyHolds
    OBVIOUS
  <1>1. PolicyInv /\ [Routing!Next]_(Routing!vars) => PolicyInv'
    BY PolicyStep
  <1> QED
    BY PolicyInit, <1>1, PolicyImplies, PTL DEF Routing!Spec

\* The invariant, of the behaviours of a suite that are of this part.
PolicyPart == part = "policy" => PolicyInv

\* What a run checks of the policy, for any constants: no save overwrites unseen,
\* and a worker runs under the preset captured for its turn.
THEOREM WorkersFollowThePolicy == PolicyValues => (SuiteSpec => []PolicyHolds)
  <1> SUFFICES ASSUME PolicyValues
               PROVE  SuiteSpec => []PolicyHolds
    OBVIOUS
  <1>1. SuiteInit => PolicyPart
    BY PolicyInit DEF SuiteInit, PolicyPart
  <1>2. PolicyPart /\ [SuiteNext]_suite => PolicyPart'
    <2> SUFFICES ASSUME part' = "policy", PolicyPart, [SuiteNext]_suite
                 PROVE  PolicyInv'
      BY DEF PolicyPart
    <2>1. part = "policy" /\ [Routing!Next]_(Routing!vars)
      <3>1. CASE SuiteNext
        BY <3>1 DEF SuiteNext
      <3>2. CASE UNCHANGED suite
        BY <3>2 DEF suite, routing, Routing!vars
      <3> QED
        BY <3>1, <3>2
    <2> QED
      BY <2>1, PolicyStep DEF PolicyPart
  <1>3. PolicyPart => PolicyHolds
    BY PolicyImplies DEF PolicyPart, PolicyHolds
  <1> QED
    BY <1>1, <1>2, <1>3, PTL DEF SuiteSpec

-----------------------------------------------------------------------------
(* Where a session lives (SessionMove).                                     *)

\* A directory as the operations leave it, and the operation under way.
Directories == [here : BOOLEAN, manifest : {Moving!NoManifest} \cup [project : Projects, seq : Nat],
                log : Seq(Moving!Events), synced : Nat]
MoveKinds == {"none", "create", "append", "update", "refresh", "move", "moved", "delete"}
MoveOps == [at : {"idle", "manifest", "row", "created", "rewrite", "discard", "refresh", "files",
                  "row_delete"},
            kind : MoveKinds, from : Projects \cup {Moving!Nowhere},
            to : Projects \cup {Moving!Nowhere}, seq : Nat, id : Nat]

\* What the constants are taken to be.
MoveValues == MaxWritten \in Nat /\ Projects # {} /\ Moving!Nowhere \notin Projects

MoveTypes ==
    /\ Moving!TypeOK
    /\ dirs \in [Projects -> Directories]
    /\ \A p \in Projects : ~dirs[p].here => dirs[p] = Moving!NoDir
    /\ op \in MoveOps
    /\ op.at = "idle" => op = Moving!Idle
    /\ op.at \in {"rewrite", "discard", "refresh"} => op.kind = "move"
    /\ op.at \in {"manifest", "row"} => op.kind \notin {"none", "delete"}
    /\ op.at = "created" => op.kind = "create"
    /\ op.at \in {"files", "row_delete"} => op.kind = "delete" /\ doomed
    /\ op.at = "rewrite" => written < MaxWritten /\ dirs[op.to].here
    /\ doomed => op.at \in {"idle", "files", "row_delete"}

\* What is moved was not consolidated before, and meanwhile only by a review that is late.
MovesFresh ==
    op.kind = "move" =>
      /\ op.from \in Projects /\ op.from # op.to /\ ~dirs[op.from].here
      /\ sources[op.from] # "consolidated" \/ op.from \in late

\* An event is in one directory, and one that is acknowledged, or will be, is in one.
EventsOnce ==
    /\ \A p \in Projects : Moving!EventsOf(p) \subseteq 1 .. written
    /\ \A p, q \in Projects : p # q => Moving!EventsOf(p) \cap Moving!EventsOf(q) = {}
EventsHeld ==
    /\ op.kind = "append" => op.id \in 1 .. written
    /\ \/ doomed \/ lost
       \/ \A e \in acked \cup (IF op.kind = "append" THEN {op.id} ELSE {}) :
            \E p \in Projects : e \in Moving!EventsOf(p)

\* No manifest is ahead of its log, so the next number is the log's.
Numbered ==
    ~half /\ ~lost =>
      /\ \A p \in Projects : \A i \in DOMAIN dirs[p].log : dirs[p].log[i].seq = i
      /\ ~doomed => /\ \A p \in Projects : dirs[p].manifest.seq <= Len(dirs[p].log)
                    /\ op.at = "rewrite" => op.seq = Len(dirs[op.to].log) + 1
                    /\ op.at = "manifest" => op.seq <= Len(dirs[op.to].log)

\* All of the session is in one place, or in a move from one to another.
BoundTo(home) == \A i \in DOMAIN dirs[home].log : dirs[home].log[i].project = home
TogetherAt(home) ==
    /\ \A p \in Projects \ {home} : dirs[p] = Moving!NoDir /\ (sources[p] = "none" \/ p \in late)
    /\ dirs[home].manifest.project \in {home, Moving!Nowhere}
    /\ BoundTo(home)
    /\ row \in {home, Moving!Nowhere}
    /\ ~doomed => /\ dirs[home].here => dirs[home].manifest # Moving!NoManifest
                  /\ ~dirs[home].here => sources[home] = "none" \/ home \in late
UnderWay ==
    /\ \A p \in Projects \ {op.to} : dirs[p] = Moving!NoDir
    /\ \A p \in Projects \ {op.from, op.to} : sources[p] = "none" \/ p \in late
    /\ dirs[op.to].here /\ dirs[op.to].manifest # Moving!NoManifest
    /\ op.at # "rewrite" => BoundTo(op.to)
    /\ op.at \in {"row", "discard", "refresh"} => dirs[op.to].manifest.project = op.to
    /\ op.at \in {"discard", "refresh"} => row = op.to
    /\ op.at = "refresh" => sources[op.from] = "none" \/ op.from \in late
Placed ==
    ~half => IF op.kind = "move" THEN UnderWay
             ELSE \E home \in Projects : TogetherAt(home) /\ (op.at # "idle" => op.to = home)

MoveInv == MoveTypes /\ MovesFresh /\ EventsOnce /\ EventsHeld /\ Numbered /\ Placed

\* What a directory is.
LEMMA DirIs ==
  ASSUME MoveTypes, NEW p \in Projects
  PROVE  /\ dirs[p] = [here |-> dirs[p].here, manifest |-> dirs[p].manifest,
                       log |-> dirs[p].log, synced |-> dirs[p].synced]
         /\ dirs[p].here \in BOOLEAN /\ dirs[p].synced \in Nat
         /\ dirs[p].manifest \in {Moving!NoManifest} \cup [project : Projects, seq : Nat]
         /\ dirs[p].manifest.seq \in Nat
         /\ dirs[p].log \in Seq(Moving!Events)
         /\ DOMAIN dirs[p].log = 1 .. Len(dirs[p].log) /\ Len(dirs[p].log) \in Nat
  <1>1. dirs[p] \in Directories
    BY DEF MoveTypes
  <1>2. dirs[p].manifest \in {Moving!NoManifest} \cup [project : Projects, seq : Nat]
    BY <1>1 DEF Directories
  <1> QED
    BY <1>1, <1>2 DEF Directories, Moving!NoManifest

\* Where the row points there is a project to work in.
LEMMA HomeIs ==
  ASSUME MoveTypes, MoveValues, Moving!Loads
  PROVE  /\ row \in Projects /\ Moving!Home \in Projects
         /\ Moving!Manifest = dirs[row].manifest /\ Moving!Manifest.seq \in Nat
         /\ Moving!Manifest # Moving!NoManifest
  <1>1. row \in Projects
    BY DEF MoveTypes, Moving!TypeOK, Moving!Loads
  <1>2. Moving!Manifest \in [project : Projects, seq : Nat] /\ Moving!Manifest # Moving!NoManifest
    BY <1>1, DirIs DEF Moving!Loads, Moving!Manifest
  <1> QED
    BY <1>1, <1>2 DEF Moving!Home, Moving!Manifest

\* The number of the last line, of any log and of one that is numbered.
LEMMA LastIs ==
  ASSUME MoveTypes, NEW p \in Projects
  PROVE  /\ Moving!LastSeq(p) \in Nat
         /\ (\A i \in DOMAIN dirs[p].log : dirs[p].log[i].seq = i) =>
              Moving!LastSeq(p) = Len(dirs[p].log)
  <1>1. CASE dirs[p].log = <<>>
    BY <1>1 DEF Moving!LastSeq
  <1>2. CASE dirs[p].log # <<>>
    <2>1. Len(dirs[p].log) \in DOMAIN dirs[p].log
      BY <1>2, DirIs
    <2>2. dirs[p].log[Len(dirs[p].log)] \in Moving!Events
      BY <2>1, DirIs, ElementOfSeq
    <2> QED
      BY <1>2, <2>1, <2>2 DEF Moving!LastSeq, Moving!Events
  <1> QED
    BY <1>1, <1>2

\* The next number follows the log and the manifest.
LEMMA BaseIs ==
  ASSUME MoveTypes, MoveValues, Moving!Loads
  PROVE  Moving!Base \in Nat
  BY HomeIs, LastIs DEF Moving!Base
\* One directory is replaced by another.
LEMMA PutIs ==
  ASSUME MoveTypes, NEW h \in Projects, NEW d \in Directories, dirs' = [dirs EXCEPT ![h] = d]
  PROVE  /\ dirs' \in [Projects -> Directories] /\ dirs'[h] = d
         /\ \A p \in Projects \ {h} : dirs'[p] = dirs[p]
  BY DEF MoveTypes

\* What an append changes: the log has one line more, or its number does not continue it.
LEMMA AppendIs ==
  ASSUME MoveTypes, MoveValues, NEW kind \in MoveKinds, Moving!Append1(kind)
  PROVE  LET h == Moving!Home IN
         /\ h \in Projects /\ Moving!Loads /\ dirs' \in [Projects -> Directories]
         /\ \A p \in Projects \ {h} : dirs'[p] = dirs[p]
         /\ dirs'[h].here /\ dirs'[h].manifest = dirs[h].manifest
         /\ dirs'[h].synced = dirs[h].synced
         /\ UNCHANGED <<row, sources, acked, doomed, half, lost, reviews, late>>
         /\ \/ dirs'[h].log = dirs[h].log /\ op' = Moving!Idle /\ written' = written
            \/ /\ Moving!Base = Moving!LastSeq(h) /\ Moving!Base \in Nat
               /\ dirs'[h].log = Append(dirs[h].log, Moving!Event(h, Moving!Base + 1))
               /\ Moving!Event(h, Moving!Base + 1) \in Moving!Events
               /\ written < MaxWritten /\ written' = written + 1
               /\ op' = [at |-> "manifest", kind |-> kind, from |-> Moving!Nowhere, to |-> h,
                         seq |-> Moving!Base + 1, id |-> written + 1]
  <1>1. PICK h : h = Moving!Home
    OBVIOUS
  <1>2. PICK e : e = Moving!Event(h, Moving!Base + 1)
    OBVIOUS
  <1>3. h \in Projects /\ Moving!Loads /\ Moving!Base \in Nat
    BY <1>1, HomeIs, BaseIs DEF Moving!Append1
  <1>4. written < MaxWritten /\ written \in Nat
    BY DEF Moving!Append1, MoveTypes, Moving!TypeOK
  <1>5. e \in Moving!Events
    BY <1>2, <1>3, <1>4 DEF Moving!Event, Moving!Events, MoveValues
  <1>6. Append(dirs[h].log, e) \in Seq(Moving!Events)
    BY <1>3, <1>5, DirIs, AppendProperties
  <1>7. dirs[h] \in Directories
    BY <1>3 DEF MoveTypes
  <1>8. UNCHANGED <<row, sources, acked, doomed, half, lost, reviews, late>>
    BY DEF Moving!Append1
  <1>9. CASE Moving!Base = Moving!LastSeq(h)
    <2>1. PICK d : d = [dirs[h] EXCEPT !.here = TRUE, !.log = Append(dirs[h].log, e)]
      OBVIOUS
    <2>2. d \in Directories /\ d.here /\ d.manifest = dirs[h].manifest
          /\ d.synced = dirs[h].synced /\ d.log = Append(dirs[h].log, e)
      BY <1>6, <1>7, <2>1 DEF Directories
    <2>3. dirs' = [dirs EXCEPT ![h] = d]
      <3>1. dirs' = [dirs EXCEPT ![h] = [dirs[h] EXCEPT !.here = TRUE,
                                                        !.log = Append(dirs[h].log, e)]]
        BY <1>1, <1>2, <1>3, <1>9 DEF Moving!Append1, MoveTypes
      <3> QED
        BY <2>1, <3>1
    <2>4. op' = [at |-> "manifest", kind |-> kind, from |-> Moving!Nowhere, to |-> h,
                 seq |-> Moving!Base + 1, id |-> written + 1] /\ written' = written + 1
      BY <1>1, <1>9 DEF Moving!Append1, Moving!Idle
    <2>5. /\ dirs' \in [Projects -> Directories] /\ dirs'[h] = d
          /\ \A p \in Projects \ {h} : dirs'[p] = dirs[p]
      BY <1>3, <2>2, <2>3, PutIs
    <2> QED
      BY <1>1, <1>2, <1>3, <1>4, <1>5, <1>8, <1>9, <2>2, <2>4, <2>5
  <1>10. CASE Moving!Base # Moving!LastSeq(h)
    <2>1. PICK d : d = [dirs[h] EXCEPT !.here = TRUE]
      OBVIOUS
    <2>2. d \in Directories /\ d.here /\ d.manifest = dirs[h].manifest
          /\ d.synced = dirs[h].synced /\ d.log = dirs[h].log
      BY <1>7, <2>1 DEF Directories
    <2>3. dirs' = [dirs EXCEPT ![h] = d]
      BY <1>1, <1>3, <1>10, <2>1 DEF Moving!Append1, MoveTypes
    <2>4. op' = Moving!Idle /\ written' = written
      BY <1>1, <1>10 DEF Moving!Append1
    <2>5. /\ dirs' \in [Projects -> Directories] /\ dirs'[h] = d
          /\ \A p \in Projects \ {h} : dirs'[p] = dirs[p]
      BY <1>3, <2>2, <2>3, PutIs
    <2> QED
      BY <1>1, <1>3, <1>8, <2>2, <2>4, <2>5
  <1> QED
    BY <1>9, <1>10

\* What a refresh changes.
LEMMA RefreshIs ==
  ASSUME MoveTypes, MoveValues, NEW kind \in MoveKinds, Moving!Refresh(kind)
  PROVE  LET h == Moving!Home IN
         /\ h \in Projects /\ Moving!Loads /\ dirs' \in [Projects -> Directories]
         /\ \A p \in Projects \ {h} : dirs'[p] = dirs[p]
         /\ dirs'[h].here /\ dirs'[h].manifest = dirs[h].manifest /\ dirs'[h].log = dirs[h].log
         /\ dirs'[h].synced = Len(dirs[h].log)
         /\ sources' = [sources EXCEPT ![h] = IF @ = "none" THEN "pending" ELSE @]
         /\ op' = [at |-> "manifest", kind |-> kind, from |-> Moving!Nowhere, to |-> h,
                   seq |-> Moving!LastSeq(h), id |-> 0]
         /\ Moving!LastSeq(h) \in Nat
         /\ UNCHANGED <<row, written, acked, doomed, half, lost, reviews, late>>
  <1>1. PICK h : h = Moving!Home
    OBVIOUS
  <1>2. h \in Projects /\ Moving!Loads /\ Moving!LastSeq(h) \in Nat
    BY <1>1, HomeIs, LastIs DEF Moving!Refresh
  <1>3. dirs[h] \in Directories /\ Len(dirs[h].log) \in Nat
    BY <1>2, DirIs DEF MoveTypes
  <1>4. PICK d : d = [dirs[h] EXCEPT !.here = TRUE, !.synced = Len(dirs[h].log)]
    OBVIOUS
  <1>5. d \in Directories /\ d.here /\ d.manifest = dirs[h].manifest
        /\ d.synced = Len(dirs[h].log) /\ d.log = dirs[h].log
    BY <1>3, <1>4 DEF Directories
  <1>6. dirs' = [dirs EXCEPT ![h] = d]
    BY <1>1, <1>2, <1>4 DEF Moving!Refresh, MoveTypes
  <1>7. /\ dirs' \in [Projects -> Directories] /\ dirs'[h] = d
        /\ \A p \in Projects \ {h} : dirs'[p] = dirs[p]
    BY <1>2, <1>5, <1>6, PutIs
  <1>8. /\ sources' = [sources EXCEPT ![h] = IF @ = "none" THEN "pending" ELSE @]
        /\ op' = [at |-> "manifest", kind |-> kind, from |-> Moving!Nowhere, to |-> h,
                  seq |-> Moving!LastSeq(h), id |-> 0]
        /\ UNCHANGED <<row, written, acked, doomed, half, lost, reviews, late>>
    BY <1>1 DEF Moving!Refresh, Moving!Idle
  <1> QED
    BY <1>1, <1>2, <1>5, <1>7, <1>8

\* What writing the manifest changes.
LEMMA ManifestWrittenIs ==
  ASSUME MoveTypes, Moving!WriteManifest
  PROVE  /\ op.at = "manifest" /\ op.to \in Projects /\ dirs' \in [Projects -> Directories]
         /\ \A p \in Projects \ {op.to} : dirs'[p] = dirs[p]
         /\ dirs'[op.to].here /\ dirs'[op.to].manifest = [project |-> op.to, seq |-> op.seq]
         /\ dirs'[op.to].log = dirs[op.to].log /\ dirs'[op.to].synced = dirs[op.to].synced
         /\ op' = [op EXCEPT !.at = "row"]
         /\ UNCHANGED <<row, sources, written, acked, doomed, half, lost, reviews, late>>
  <1>1. op.at = "manifest" /\ op.to \in Projects /\ op.seq \in Nat
    BY DEF Moving!WriteManifest, MoveTypes, Moving!TypeOK, MoveOps
  <1>2. PICK h \in Projects : h = op.to
    BY <1>1
  <1>3. PICK m : m = [project |-> h, seq |-> op.seq]
    OBVIOUS
  <1>4. m \in [project : Projects, seq : Nat] /\ dirs[h] \in Directories
    BY <1>1, <1>2, <1>3 DEF MoveTypes
  <1>5. PICK d : d = [dirs[h] EXCEPT !.here = TRUE, !.manifest = m]
    OBVIOUS
  <1>6. d \in Directories /\ d.here /\ d.manifest = m
        /\ d.synced = dirs[h].synced /\ d.log = dirs[h].log
    BY <1>4, <1>5 DEF Directories
  <1>7. dirs' = [dirs EXCEPT ![h] = d]
    BY <1>2, <1>3, <1>5 DEF Moving!WriteManifest, MoveTypes
  <1>8. /\ dirs' \in [Projects -> Directories] /\ dirs'[h] = d
        /\ \A p \in Projects \ {h} : dirs'[p] = dirs[p]
    BY <1>6, <1>7, PutIs
  <1> QED
    BY <1>1, <1>2, <1>3, <1>6, <1>8 DEF Moving!WriteManifest

\* A line more.
LEMMA AppendedIs ==
  ASSUME NEW l \in Seq(Moving!Events), NEW e \in Moving!Events
  PROVE  /\ Append(l, e) \in Seq(Moving!Events) /\ Len(l) \in Nat
         /\ DOMAIN l = 1 .. Len(l)
         /\ DOMAIN Append(l, e) = 1 .. Len(l) + 1 /\ Len(Append(l, e)) = Len(l) + 1
         /\ \A i \in DOMAIN l : Append(l, e)[i] = l[i]
         /\ Append(l, e)[Len(l) + 1] = e
  BY AppendProperties

\* The events of a directory whose log is the same, and of one with a line more.
LEMMA EventsSame ==
  ASSUME NEW p \in Projects, dirs'[p].log = dirs[p].log
  PROVE  Moving!EventsOf(p)' = Moving!EventsOf(p)
  BY DEF Moving!EventsOf

LEMMA EventsAppended ==
  ASSUME MoveTypes, NEW p \in Projects, NEW e \in Moving!Events,
         dirs'[p].log = Append(dirs[p].log, e)
  PROVE  Moving!EventsOf(p)' = Moving!EventsOf(p) \cup {e.id}
  <1>1. dirs[p].log \in Seq(Moving!Events)
    BY DirIs
  <1>2. PICK l \in Seq(Moving!Events) : l = dirs[p].log
    BY <1>1
  <1>3. PICK k : k = Append(l, e)
    OBVIOUS
  <1>4. /\ Len(l) \in Nat /\ DOMAIN l = 1 .. Len(l) /\ DOMAIN k = 1 .. Len(l) + 1
        /\ \A i \in DOMAIN l : k[i] = l[i]
        /\ k[Len(l) + 1] = e
    BY <1>3, AppendedIs
  <1>5. {k[i].id : i \in DOMAIN k} = {l[i].id : i \in DOMAIN l} \cup {e.id}
    BY <1>4
  <1> QED
    BY <1>2, <1>3, <1>5 DEF Moving!EventsOf

\* Events that stay where they are, or vanish, are in one directory still.
LEMMA OnceStays ==
  ASSUME MoveTypes, EventsOnce, written' = written,
         \A p \in Projects : Moving!EventsOf(p)' \subseteq Moving!EventsOf(p)
  PROVE  EventsOnce'
  BY DEF EventsOnce

\* So is one that is written.
LEMMA OnceWritten ==
  ASSUME MoveTypes, EventsOnce, written' = written + 1, NEW h \in Projects,
         Moving!EventsOf(h)' = Moving!EventsOf(h) \cup {written + 1},
         \A p \in Projects \ {h} : Moving!EventsOf(p)' = Moving!EventsOf(p)
  PROVE  EventsOnce'
  <1>1. written \in Nat
    BY DEF MoveTypes, Moving!TypeOK
  <1>2. \A p \in Projects : Moving!EventsOf(p)' \subseteq 1 .. written + 1
    BY <1>1 DEF EventsOnce
  <1>3. \A p \in Projects : written + 1 \notin Moving!EventsOf(p)
    BY <1>1 DEF EventsOnce
  <1>4. \A p, q \in Projects : p # q => Moving!EventsOf(p)' \cap Moving!EventsOf(q)' = {}
    BY <1>3 DEF EventsOnce
  <1> QED
    BY <1>2, <1>4 DEF EventsOnce

\* What is acknowledged was written.
LEMMA AckedWritten ==
  ASSUME MoveTypes, EventsHeld, NEW e \in acked \cup (IF op.kind = "append" THEN {op.id} ELSE {})
  PROVE  e \in 1 .. written
  BY DEF MoveTypes, Moving!TypeOK, EventsHeld

\* Nothing acknowledged is lost by a step that loses no event.
LEMMA HeldStays ==
  ASSUME EventsHeld,
         \A p \in Projects : Moving!EventsOf(p) \subseteq Moving!EventsOf(p)',
         acked' \cup (IF op'.kind = "append" THEN {op'.id} ELSE {})
           \subseteq acked \cup (IF op.kind = "append" THEN {op.id} ELSE {}),
         op'.kind = "append" => op'.id \in 1 .. written',
         doomed => doomed', lost => lost'
  PROVE  EventsHeld'
  BY DEF EventsHeld

\* The session is where its row says, as far as moves got to their end.
LEMMA AtHome ==
  ASSUME MoveInv, MoveValues, Moving!Loads, ~half, op.kind # "move"
  PROVE  /\ Moving!Home \in Projects /\ row = Moving!Home /\ TogetherAt(Moving!Home)
         /\ op.at # "idle" => op.to = Moving!Home
  <1>1. PICK home \in Projects : TogetherAt(home) /\ (op.at # "idle" => op.to = home)
    BY DEF MoveInv, Placed
  <1>2. row \in Projects /\ Moving!Home = dirs[row].manifest.project
        /\ Moving!Home \in Projects
    BY HomeIs DEF MoveInv, Moving!Home
  <1>3. row = home /\ Moving!Home = home
    BY <1>1, <1>2 DEF TogetherAt, MoveValues
  <1> QED
    BY <1>1, <1>3

LEMMA MovedHome ==
  ASSUME MoveInv, MoveValues, ~half, op.kind = "move", op.at = "refresh"
  PROVE  /\ op.to \in Projects /\ Moving!Home = op.to /\ row = op.to /\ UnderWay
  <1>1. UnderWay /\ op.to \in Projects
    BY DEF MoveInv, Placed, MoveTypes, Moving!TypeOK
  <1> QED
    BY <1>1 DEF UnderWay, Moving!Home, Moving!Manifest

\* The index is rebuilt from the manifests.
LEMMA MoveRebuildKeeps ==
  ASSUME MoveValues, MoveInv, Moving!Rebuild
  PROVE  MoveInv'
  <1> USE DEF MoveInv
  <1>1. MoveTypes' /\ MovesFresh'
    BY DEF Moving!Rebuild, Moving!Scanned, MoveTypes, Moving!TypeOK, MoveOps, MoveKinds,
       Moving!Idle, MoveValues, MovesFresh
  <1>2. \A p \in Projects : Moving!EventsOf(p)' = Moving!EventsOf(p)
    BY DEF Moving!Rebuild, Moving!Scanned, Moving!EventsOf
  <1>3. EventsOnce'
    BY <1>2, OnceStays DEF Moving!Rebuild, Moving!Scanned
  <1>4. EventsHeld'
    BY <1>2, HeldStays DEF Moving!Rebuild, Moving!Scanned, Moving!Idle, MoveTypes
  <1>5. Numbered'
    BY DEF Moving!Rebuild, Moving!Scanned, Numbered, Moving!Idle, MoveTypes
  <1>6. Placed'
    <2>1. op = Moving!Idle /\ UNCHANGED <<dirs, sources, op, doomed, half, late>>
          /\ row' \in Moving!Scanned \cup {Moving!Nowhere}
      BY DEF Moving!Rebuild
    <2>2. ASSUME ~half
          PROVE  \E home \in Projects : TogetherAt(home)'
      <3>1. PICK home \in Projects : TogetherAt(home)
        BY <2>1, <2>2 DEF Placed, Moving!Idle
      <3>2. Moving!Scanned \subseteq {home}
        BY <3>1 DEF Moving!Scanned, TogetherAt, Moving!NoDir
      <3>3. TogetherAt(home)'
        BY <2>1, <3>1, <3>2 DEF TogetherAt, BoundTo
      <3> QED
        BY <3>3
    <2> QED
      BY <2>1, <2>2 DEF Placed, Moving!Idle
  <1> QED
    BY <1>1, <1>3, <1>4, <1>5, <1>6

\* A rebuild stops after the index was cleared.
LEMMA MoveRebuildFailsKeeps ==
  ASSUME MoveValues, MoveInv, Moving!RebuildFails
  PROVE  MoveInv'
  <1> USE DEF MoveInv
  <1>1. MoveTypes' /\ MovesFresh'
    BY DEF Moving!RebuildFails, MoveTypes, Moving!TypeOK, MoveOps, MoveKinds, Moving!Idle,
       MoveValues, MovesFresh
  <1>2. \A p \in Projects : Moving!EventsOf(p)' = Moving!EventsOf(p)
    BY DEF Moving!RebuildFails, Moving!EventsOf
  <1>3. EventsOnce'
    BY <1>2, OnceStays DEF Moving!RebuildFails
  <1>4. EventsHeld'
    BY <1>2, HeldStays DEF Moving!RebuildFails, Moving!Idle, MoveTypes
  <1>5. Numbered'
    BY DEF Moving!RebuildFails, Numbered, Moving!Idle, MoveTypes
  <1>6. Placed'
    BY DEF Moving!RebuildFails, Placed, UnderWay, TogetherAt, BoundTo, Moving!Idle, MoveTypes,
       MoveValues, Moving!TypeOK
  <1> QED
    BY <1>1, <1>3, <1>4, <1>5, <1>6

\* A session is created.
LEMMA MoveBeginCreateKeeps ==
  ASSUME MoveValues, MoveInv, NEW new \in Projects, Moving!BeginCreate(new)
  PROVE  MoveInv'
  <1> USE DEF MoveInv
  <1>1. MoveTypes' /\ MovesFresh'
    BY DEF Moving!BeginCreate, Moving!Scanned, MoveTypes, Moving!TypeOK, MoveOps, MoveKinds,
       Moving!Idle, MoveValues, MovesFresh
  <1>2. \A p \in Projects : Moving!EventsOf(p)' = Moving!EventsOf(p)
    BY DEF Moving!BeginCreate, Moving!Scanned, Moving!EventsOf
  <1>3. EventsOnce'
    BY <1>2, OnceStays DEF Moving!BeginCreate, Moving!Scanned
  <1>4. EventsHeld'
    BY <1>2, HeldStays DEF Moving!BeginCreate, Moving!Scanned, Moving!Idle, MoveTypes
  <1>5. Numbered'
    BY DEF Moving!BeginCreate, Moving!Scanned, Numbered, Moving!Idle, MoveTypes
  <1>6. Placed'
    <2>1. /\ op = Moving!Idle /\ UNCHANGED <<dirs, row, sources, doomed, half, late>>
          /\ ~doomed /\ row = Moving!Nowhere /\ Moving!Scanned = {}
          /\ op'.kind = "create" /\ op'.to = new
      BY DEF Moving!BeginCreate, Moving!Idle
    <2>2. ASSUME ~half
          PROVE  TogetherAt(new)'
      <3>1. PICK home \in Projects : TogetherAt(home)
        BY <2>1, <2>2 DEF Placed, Moving!Idle
      <3>2. dirs[home] = Moving!NoDir /\ (sources[home] = "none" \/ home \in late)
        BY <2>1, <3>1 DEF Moving!Scanned, TogetherAt, MoveTypes
      <3>3. \A p \in Projects : dirs[p] = Moving!NoDir /\ (sources[p] = "none" \/ p \in late)
        BY <3>1, <3>2 DEF TogetherAt
      <3> QED
        <4>1. dirs' = dirs /\ row' = Moving!Nowhere /\ ~doomed' /\ sources' = sources
              /\ late' = late
          BY <2>1
        <4>2. /\ dirs[new].log = << >> /\ ~dirs[new].here
              /\ dirs[new].manifest.project = Moving!Nowhere
          BY <3>3 DEF Moving!NoDir, Moving!NoManifest
        <4>3. DOMAIN dirs[new].log = {}
          BY <4>2
        <4> QED
          BY <3>3, <4>1, <4>2, <4>3 DEF TogetherAt, BoundTo
    <2> QED
      BY <2>1, <2>2 DEF Placed
  <1> QED
    BY <1>1, <1>3, <1>4, <1>5, <1>6

\* The manifest is updated.
LEMMA MoveBeginUpdateKeeps ==
  ASSUME MoveValues, MoveInv, Moving!BeginUpdate
  PROVE  MoveInv'
  <1> USE DEF MoveInv
  <1>1. MoveTypes' /\ MovesFresh'
    BY HomeIs DEF Moving!BeginUpdate, MoveTypes, Moving!TypeOK, MoveOps, MoveKinds, Moving!Idle,
       MoveValues, MovesFresh
  <1>2. \A p \in Projects : Moving!EventsOf(p)' = Moving!EventsOf(p)
    BY DEF Moving!BeginUpdate, Moving!EventsOf
  <1>3. EventsOnce'
    BY <1>2, OnceStays DEF Moving!BeginUpdate
  <1>4. EventsHeld'
    BY <1>2, HeldStays DEF Moving!BeginUpdate, Moving!Idle, MoveTypes
  <1>5. Numbered'
    BY HomeIs, AtHome DEF Moving!BeginUpdate, Numbered, Moving!Idle, MoveTypes
  <1>6. Placed'
    BY AtHome DEF Moving!BeginUpdate, Placed, UnderWay, TogetherAt, BoundTo, Moving!Idle,
       MoveTypes, MoveValues, Moving!TypeOK
  <1> QED
    BY <1>1, <1>3, <1>4, <1>5, <1>6

\* The row follows the manifest.
LEMMA MoveUpsertRowKeeps ==
  ASSUME MoveValues, MoveInv, Moving!UpsertRow
  PROVE  MoveInv'
  <1> USE DEF MoveInv
  <1>1. MoveTypes' /\ MovesFresh'
    <2>1. /\ op.at = "row" /\ row' = op.to /\ op \in MoveOps /\ op.to \in Projects
          /\ op.kind \notin {"none", "delete"} /\ ~doomed
          /\ UNCHANGED <<dirs, sources, written, doomed, half, lost, reviews, late>>
      BY DEF Moving!UpsertRow, MoveTypes, Moving!TypeOK
    <2>2. \/ op' = [op EXCEPT !.at = "created"] /\ op.kind = "create"
          \/ op' = [op EXCEPT !.at = "discard"] /\ op.kind = "move"
          \/ op' = Moving!Idle
      BY DEF Moving!UpsertRow
    <2>3. /\ op' \in MoveOps /\ op'.at \in {"idle", "created", "discard"}
          /\ op'.at = "idle" => op' = Moving!Idle
          /\ op'.at = "discard" => op'.kind = "move" /\ op'.from = op.from /\ op.kind = "move"
          /\ op'.at = "created" => op'.kind = "create"
          /\ op'.at # "idle" => op'.to = op.to
      BY <2>1, <2>2 DEF MoveOps, MoveKinds, Moving!Idle
    <2>4. acked' \subseteq 1 .. written
      BY <2>1 DEF Moving!UpsertRow, MoveTypes, Moving!TypeOK, EventsHeld
    <2>5. MovesFresh'
      BY <2>1, <2>3 DEF MovesFresh, Moving!Idle
    <2> QED
      BY <2>1, <2>3, <2>4, <2>5 DEF MoveTypes, Moving!TypeOK
  <1>2. \A p \in Projects : Moving!EventsOf(p)' = Moving!EventsOf(p)
    BY DEF Moving!UpsertRow, Moving!EventsOf
  <1>3. EventsOnce'
    BY <1>2, OnceStays DEF Moving!UpsertRow
  <1>4. EventsHeld'
    BY <1>2, HeldStays DEF Moving!UpsertRow, Moving!Idle, MoveTypes
  <1>5. Numbered'
    BY DEF Moving!UpsertRow, Numbered, Moving!Idle, MoveTypes
  <1>6. Placed'
    <2>1. /\ op.at = "row" /\ row' = op.to /\ op.to \in Projects /\ op \in MoveOps
          /\ UNCHANGED <<dirs, sources, doomed, half, late>>
      BY DEF Moving!UpsertRow, MoveTypes, Moving!TypeOK
    <2>2. CASE op.kind = "move"
      <3>1. /\ op'.at = "discard" /\ op'.kind = "move" /\ op'.to = op.to /\ op'.from = op.from
        BY <2>1, <2>2 DEF Moving!UpsertRow, MoveOps
      <3> QED
        BY <2>1, <2>2, <3>1 DEF Placed, UnderWay, BoundTo
    <2>3. CASE op.kind # "move"
      <3>1. PICK home \in Projects : home = op.to
        BY <2>1
      <3>2. op'.kind # "move" /\ (op'.at # "idle" => op'.to = home)
        BY <2>1, <2>3, <3>1 DEF Moving!UpsertRow, MoveOps, Moving!Idle
      <3>3. ASSUME ~half
            PROVE  TogetherAt(home)'
        <4>1. TogetherAt(home)
          BY <2>1, <2>3, <3>1, <3>3 DEF Placed
        <4> QED
          BY <2>1, <3>1, <4>1 DEF TogetherAt, BoundTo
      <3> QED
        BY <2>1, <3>2, <3>3 DEF Placed
    <2> QED
      BY <2>2, <2>3
  <1> QED
    BY <1>1, <1>3, <1>4, <1>5, <1>6

\* The memory of the project that was left is discarded.
LEMMA MoveDiscardKeeps ==
  ASSUME MoveValues, MoveInv, Moving!Discard
  PROVE  MoveInv'
  <1> USE DEF MoveInv
  <1>1. MoveTypes' /\ MovesFresh'
    BY DEF Moving!Discard, MoveTypes, Moving!TypeOK, MoveOps, MoveKinds, Moving!Idle, MoveValues,
       MovesFresh
  <1>2. \A p \in Projects : Moving!EventsOf(p)' = Moving!EventsOf(p)
    BY DEF Moving!Discard, Moving!EventsOf
  <1>3. EventsOnce'
    BY <1>2, OnceStays DEF Moving!Discard
  <1>4. EventsHeld'
    BY <1>2, HeldStays DEF Moving!Discard, Moving!Idle, MoveTypes
  <1>5. Numbered'
    BY DEF Moving!Discard, Numbered, Moving!Idle, MoveTypes
  <1>6. Placed'
    <2>1. /\ op.at = "discard" /\ op.kind = "move" /\ op \in MoveOps
          /\ op' = [op EXCEPT !.at = "refresh"] /\ sources' = [sources EXCEPT ![op.from] = "none"]
          /\ op.from \in Projects /\ UNCHANGED <<dirs, row, half, late>>
      BY DEF Moving!Discard, MoveTypes, MovesFresh
    <2>2. op'.at = "refresh" /\ op'.kind = "move" /\ op'.from = op.from /\ op'.to = op.to
      BY <2>1 DEF MoveOps
    <2>3. \A p \in Projects : sources'[p] = IF p = op.from THEN "none" ELSE sources[p]
      BY <2>1 DEF MoveTypes, Moving!TypeOK
    <2> QED
      BY <2>1, <2>2, <2>3 DEF Placed, UnderWay, BoundTo
  <1> QED
    BY <1>1, <1>3, <1>4, <1>5, <1>6

\* A session is deleted.
LEMMA MoveBeginDeleteKeeps ==
  ASSUME MoveValues, MoveInv, Moving!BeginDelete
  PROVE  MoveInv'
  <1> USE DEF MoveInv
  <1>1. MoveTypes' /\ MovesFresh'
    BY HomeIs DEF Moving!BeginDelete, MoveTypes, Moving!TypeOK, MoveOps, MoveKinds, Moving!Idle,
       MoveValues, MovesFresh
  <1>2. \A p \in Projects : Moving!EventsOf(p)' = Moving!EventsOf(p)
    BY DEF Moving!BeginDelete, Moving!EventsOf
  <1>3. EventsOnce'
    BY <1>2, OnceStays DEF Moving!BeginDelete
  <1>4. EventsHeld'
    BY <1>2, HeldStays DEF Moving!BeginDelete, Moving!Idle, MoveTypes
  <1>5. Numbered'
    BY HomeIs DEF Moving!BeginDelete, Numbered, Moving!Idle, MoveTypes
  <1>6. Placed'
    BY AtHome DEF Moving!BeginDelete, Placed, UnderWay, TogetherAt, BoundTo, Moving!Idle,
       MoveTypes, MoveValues, Moving!TypeOK
  <1> QED
    BY <1>1, <1>3, <1>4, <1>5, <1>6

\* The row is deleted.
LEMMA MoveDeleteRowKeeps ==
  ASSUME MoveValues, MoveInv, Moving!DeleteRow
  PROVE  MoveInv'
  <1> USE DEF MoveInv
  <1>1. MoveTypes' /\ MovesFresh'
    BY DEF Moving!DeleteRow, MoveTypes, Moving!TypeOK, MoveOps, MoveKinds, Moving!Idle,
       MoveValues, MovesFresh
  <1>2. \A p \in Projects : Moving!EventsOf(p)' = Moving!EventsOf(p)
    BY DEF Moving!DeleteRow, Moving!EventsOf
  <1>3. EventsOnce'
    BY <1>2, OnceStays DEF Moving!DeleteRow
  <1>4. EventsHeld'
    BY <1>2, HeldStays DEF Moving!DeleteRow, Moving!Idle, MoveTypes
  <1>5. Numbered'
    BY DEF Moving!DeleteRow, Numbered, Moving!Idle, MoveTypes
  <1>6. Placed'
    BY DEF Moving!DeleteRow, Placed, UnderWay, TogetherAt, BoundTo, Moving!Idle, MoveTypes,
       MoveValues, Moving!TypeOK
  <1> QED
    BY <1>1, <1>3, <1>4, <1>5, <1>6

\* A review reads or ends, or nothing changes.
LEMMA MoveSame ==
  ASSUME MoveInv, reviews' \subseteq Projects,
         UNCHANGED <<dirs, row, sources, op, written, acked, doomed, half, lost, late>>
  PROVE  MoveInv'
  <1>2. MoveTypes'
    BY DEF MoveInv, MoveTypes, Moving!TypeOK
  <1>3. \A p \in Projects : Moving!EventsOf(p)' = Moving!EventsOf(p)
    BY DEF Moving!EventsOf
  <1>4. MovesFresh' /\ EventsOnce' /\ EventsHeld'
    BY <1>3 DEF MoveInv, MovesFresh, EventsOnce, EventsHeld
  <1>5. Numbered'
    BY DEF MoveInv, Numbered
  <1>6. Placed'
    BY DEF MoveInv, Placed, UnderWay, TogetherAt, BoundTo
  <1> QED
    BY <1>2, <1>4, <1>5, <1>6 DEF MoveInv

\* A review registers or marks what it has read, at any time.
LEMMA MoveReviewedKeeps ==
  ASSUME MoveInv, NEW q \in Projects, NEW state \in {"pending", "consolidated"},
         Moving!Reviewed(q, state), reviews' \subseteq Projects
  PROVE  MoveInv'
  <1> USE DEF MoveInv
  <1>1. /\ UNCHANGED <<dirs, row, op, written, acked, doomed, half, lost>>
        /\ sources' = [sources EXCEPT ![q] = state]
        /\ late' = IF dirs[q].here THEN late ELSE late \cup {q}
    BY DEF Moving!Reviewed
  <1>2. /\ sources' \in [Projects -> {"none", "pending", "consolidated"}]
        /\ sources'[q] = state /\ \A p \in Projects \ {q} : sources'[p] = sources[p]
        /\ late \subseteq late' /\ late' \subseteq Projects /\ (~dirs[q].here => q \in late')
    BY <1>1 DEF MoveTypes, Moving!TypeOK
  <1>3. MoveTypes'
    BY <1>1, <1>2 DEF MoveTypes, Moving!TypeOK
  <1>4. MovesFresh'
    BY <1>1, <1>2 DEF MovesFresh
  <1>5. \A p \in Projects : Moving!EventsOf(p)' = Moving!EventsOf(p)
    BY <1>1 DEF Moving!EventsOf
  <1>6. EventsOnce'
    BY <1>1, <1>5, OnceStays
  <1>7. EventsHeld'
    BY <1>1, <1>5 DEF EventsHeld
  <1>8. Numbered'
    BY <1>1 DEF Numbered
  <1>9. Placed'
    <2>1. ASSUME NEW p \in Projects, ~dirs[p].here, sources[p] = "none" \/ p \in late
          PROVE  sources'[p] = "none" \/ p \in late'
      BY <1>2, <2>1
    <2>2. ~Moving!NoDir.here
      BY DEF Moving!NoDir
    <2>3. ASSUME ~half, op.kind = "move"
          PROVE  UnderWay'
      <3>1. UnderWay
        BY <2>3 DEF Placed
      <3>2. op.from \in Projects \ {op.to} /\ ~dirs[op.from].here
        BY <2>3 DEF MovesFresh
      <3>3. \A p \in Projects \ {op.from, op.to} : sources'[p] = "none" \/ p \in late'
        BY <2>1, <2>2, <3>1 DEF UnderWay
      <3>4. op.at = "refresh" => sources'[op.from] = "none" \/ op.from \in late'
        BY <2>1, <3>1, <3>2 DEF UnderWay
      <3> QED
        BY <1>1, <3>1, <3>3, <3>4 DEF UnderWay, BoundTo
    <2>4. ASSUME NEW home \in Projects, TogetherAt(home)
          PROVE  TogetherAt(home)'
      <3>1. \A p \in Projects \ {home} : sources'[p] = "none" \/ p \in late'
        BY <2>1, <2>2, <2>4 DEF TogetherAt
      <3>2. ~doomed /\ ~dirs[home].here => sources'[home] = "none" \/ home \in late'
        BY <2>1, <2>4 DEF TogetherAt
      <3> QED
        BY <1>1, <2>4, <3>1, <3>2 DEF TogetherAt, BoundTo
    <2> QED
      BY <1>1, <2>3, <2>4 DEF Placed
  <1> QED
    BY <1>3, <1>4, <1>6, <1>7, <1>8, <1>9

\* An operation is cut short.
LEMMA MoveInterruptKeeps ==
  ASSUME MoveValues, MoveInv, Moving!Interrupt
  PROVE  MoveInv'
  <1> USE DEF MoveInv
  <1>1. MoveTypes' /\ MovesFresh'
    BY DEF Moving!Interrupt, MoveTypes, Moving!TypeOK, MoveOps, MoveKinds, Moving!Idle,
       MoveValues, MovesFresh
  <1>2. \A p \in Projects : Moving!EventsOf(p)' = Moving!EventsOf(p)
    BY DEF Moving!Interrupt, Moving!EventsOf
  <1>3. EventsOnce'
    BY <1>2, OnceStays DEF Moving!Interrupt
  <1>4. EventsHeld'
    BY <1>2, HeldStays DEF Moving!Interrupt, Moving!Idle, MoveTypes
  <1>5. Numbered'
    BY DEF Moving!Interrupt, Numbered, Moving!Idle, MoveTypes
  <1>6. Placed'
    BY DEF Moving!Interrupt, Placed, UnderWay, TogetherAt, BoundTo, Moving!Idle, MoveTypes,
       MoveValues, Moving!TypeOK
  <1> QED
    BY <1>1, <1>3, <1>4, <1>5, <1>6

\* Directories are of the types of the model.
LEMMA DirectoriesTyped ==
  ASSUME MoveValues
  PROVE  Directories \subseteq [here : BOOLEAN, manifest : Moving!Manifests,
                                log : Seq(Moving!Events), synced : Nat]
  BY DEF Directories, Moving!Manifests, Moving!NoManifest

\* An event is appended.
LEMMA MoveAppendKeeps ==
  ASSUME MoveValues, MoveInv, Moving!Append1("append"), ~doomed,
         op = Moving!Idle \/ op.at = "created"
  PROVE  MoveInv'
  <1> USE DEF MoveInv
  <1>1. PICK h : h = Moving!Home
    OBVIOUS
  <1>2. PICK e : e = Moving!Event(h, Moving!Base + 1)
    OBVIOUS
  <1>3. /\ h \in Projects /\ Moving!Loads /\ dirs' \in [Projects -> Directories]
        /\ \A p \in Projects \ {h} : dirs'[p] = dirs[p]
        /\ dirs'[h].here /\ dirs'[h].manifest = dirs[h].manifest
        /\ dirs'[h].synced = dirs[h].synced
        /\ UNCHANGED <<row, sources, acked, doomed, half, lost, reviews, late>>
        /\ \/ dirs'[h].log = dirs[h].log /\ op' = Moving!Idle /\ written' = written
           \/ /\ Moving!Base = Moving!LastSeq(h) /\ Moving!Base \in Nat
              /\ dirs'[h].log = Append(dirs[h].log, e) /\ e \in Moving!Events
              /\ written < MaxWritten /\ written' = written + 1
              /\ op' = [at |-> "manifest", kind |-> "append", from |-> Moving!Nowhere, to |-> h,
                        seq |-> Moving!Base + 1, id |-> written + 1]
    BY <1>1, <1>2, AppendIs DEF MoveKinds
  <1>4. e.id = written + 1 /\ e.seq = Moving!Base + 1 /\ e.project = h
    BY <1>2 DEF Moving!Event
  <1>5. written \in Nat /\ dirs[h].log \in Seq(Moving!Events) /\ dirs[h].synced <= Len(dirs[h].log)
        /\ Len(dirs[h].log) \in Nat /\ dirs[h].synced \in Nat
        /\ DOMAIN dirs[h].log = 1 .. Len(dirs[h].log)
    BY <1>3, DirIs DEF MoveTypes, Moving!TypeOK
  <1>6. op.kind \in {"none", "create"}
    BY DEF MoveTypes, Moving!Idle
  <1>7. MoveTypes'
    <2>1. dirs'[h].synced <= Len(dirs'[h].log)
      <3>1. CASE dirs'[h].log = dirs[h].log
        BY <1>3, <1>5, <3>1
      <3>2. CASE dirs'[h].log = Append(dirs[h].log, e) /\ e \in Moving!Events
        <4>1. Len(dirs'[h].log) = Len(dirs[h].log) + 1
          BY <1>5, <3>2, AppendedIs
        <4> QED
          BY <1>3, <1>5, <4>1
      <3> QED
        BY <1>3, <3>1, <3>2
    <2>2. /\ op' \in MoveOps /\ (op'.at = "idle" => op' = Moving!Idle)
          /\ op'.at \in {"idle", "manifest"}
          /\ op'.kind \in {"none", "append"} /\ (op'.at = "manifest" => op'.kind = "append")
          /\ (op'.at # "idle" => op'.to \in Projects)
      BY <1>3, <1>5 DEF MoveOps, MoveKinds, Moving!Idle
    <2>3. \A p \in Projects : dirs'[p].synced <= Len(dirs'[p].log)
      BY <1>3, <2>1 DEF MoveTypes, Moving!TypeOK
    <2>4. \A p \in Projects : ~dirs'[p].here => dirs'[p] = Moving!NoDir
      BY <1>3 DEF MoveTypes
    <2>5. written' \in 0 .. MaxWritten /\ acked' \subseteq 1 .. written'
      BY <1>3 DEF MoveTypes, Moving!TypeOK, MoveValues
    <2>6. Moving!TypeOK'
      BY <1>3, <2>2, <2>3, <2>5, DirectoriesTyped DEF MoveTypes, Moving!TypeOK
    <2> QED
      BY <1>3, <2>2, <2>4, <2>6 DEF MoveTypes
  <1>8. MovesFresh'
    BY <1>3 DEF MovesFresh, Moving!Idle
  <1>9. CASE dirs'[h].log = dirs[h].log /\ op' = Moving!Idle /\ written' = written
    <2>1. \A p \in Projects : dirs'[p].log = dirs[p].log
      BY <1>3, <1>9
    <2>2. \A p \in Projects : Moving!EventsOf(p)' = Moving!EventsOf(p)
      BY <2>1, EventsSame
    <2>3. EventsOnce'
      BY <1>9, <2>2, OnceStays
    <2>4. EventsHeld'
      BY <1>3, <1>9, <2>2, HeldStays DEF Moving!Idle
    <2>5. Numbered'
      BY <1>3, <1>9, <2>1 DEF Numbered, Moving!Idle
    <2>6. ASSUME ~half PROVE TogetherAt(h)'
      <3>1. row = h /\ TogetherAt(h)
        BY <1>1, <1>3, <1>6, <2>6, AtHome
      <3> QED
        BY <1>3, <2>1, <3>1, HomeIs DEF TogetherAt, BoundTo, Moving!Loads
    <2>7. Placed'
      BY <1>3, <1>9, <2>6 DEF Placed, Moving!Idle
    <2> QED
      BY <1>7, <1>8, <2>3, <2>4, <2>5, <2>7
  <1>10. CASE /\ Moving!Base = Moving!LastSeq(h) /\ Moving!Base \in Nat
              /\ dirs'[h].log = Append(dirs[h].log, e) /\ e \in Moving!Events
              /\ written < MaxWritten /\ written' = written + 1
              /\ op' = [at |-> "manifest", kind |-> "append", from |-> Moving!Nowhere, to |-> h,
                        seq |-> Moving!Base + 1, id |-> written + 1]
    <2>1. /\ Moving!EventsOf(h)' = Moving!EventsOf(h) \cup {written + 1}
          /\ \A p \in Projects \ {h} : Moving!EventsOf(p)' = Moving!EventsOf(p)
      BY <1>3, <1>4, <1>10, EventsAppended, EventsSame
    <2>2. EventsOnce'
      BY <1>3, <1>10, <2>1, OnceWritten
    <2>3. EventsHeld'
      <3>1. op'.kind = "append" /\ op'.id = written + 1 /\ op'.id \in 1 .. written'
        BY <1>5, <1>10
      <3>2. ASSUME ~doomed', ~lost', NEW x \in acked' \cup {written + 1}
            PROVE  \E p \in Projects : x \in Moving!EventsOf(p)'
        <4>1. CASE x = written + 1
          BY <1>3, <2>1, <4>1
        <4>2. CASE x # written + 1
          <5>1. PICK p \in Projects : x \in Moving!EventsOf(p)
            BY <1>3, <3>2, <4>2 DEF EventsHeld
          <5> QED
            BY <2>1, <5>1
        <4> QED
          BY <4>1, <4>2
      <3> QED
        BY <3>1, <3>2 DEF EventsHeld
    <2>4. /\ Len(dirs'[h].log) = Len(dirs[h].log) + 1
          /\ DOMAIN dirs'[h].log = 1 .. Len(dirs[h].log) + 1
          /\ \A i \in DOMAIN dirs[h].log : dirs'[h].log[i] = dirs[h].log[i]
          /\ dirs'[h].log[Len(dirs[h].log) + 1] = e
      BY <1>5, <1>10, AppendedIs
    <2>8. \A i \in 1 .. Len(dirs[h].log) + 1 :
            i \in 1 .. Len(dirs[h].log) \/ i = Len(dirs[h].log) + 1
      BY <1>5
    <2>5. Numbered'
      <3>1. ASSUME ~half, ~lost
            PROVE  /\ \A p \in Projects : \A i \in DOMAIN dirs'[p].log : dirs'[p].log[i].seq = i
                   /\ \A p \in Projects : dirs'[p].manifest.seq <= Len(dirs'[p].log)
                   /\ op'.seq <= Len(dirs'[op'.to].log)
        <4>1. /\ \A p \in Projects : \A i \in DOMAIN dirs[p].log : dirs[p].log[i].seq = i
              /\ \A p \in Projects : dirs[p].manifest.seq <= Len(dirs[p].log)
          BY <3>1 DEF Numbered
        <4>2. Moving!Base = Len(dirs[h].log)
          BY <1>3, <1>10, <4>1, LastIs
        <4>3. \A i \in DOMAIN dirs'[h].log : dirs'[h].log[i].seq = i
          <5>1. \A i \in 1 .. Len(dirs[h].log) : dirs'[h].log[i].seq = i
            BY <1>3, <1>5, <2>4, <4>1
          <5>2. dirs'[h].log[Len(dirs[h].log) + 1].seq = Len(dirs[h].log) + 1
            BY <1>4, <2>4, <4>2
          <5> QED
            BY <2>4, <2>8, <5>1, <5>2
        <4>4. dirs'[h].manifest.seq <= Len(dirs'[h].log)
          <5>1. dirs[h].manifest.seq \in Nat /\ dirs[h].manifest.seq <= Len(dirs[h].log)
            BY <1>3, <4>1, DirIs
          <5> QED
            BY <1>3, <1>5, <2>4, <5>1
        <4>5. op'.seq <= Len(dirs'[op'.to].log)
          BY <1>5, <1>10, <2>4, <4>2
        <4> QED
          BY <1>3, <4>1, <4>3, <4>4, <4>5
      <3> QED
        BY <1>3, <1>10, <3>1 DEF Numbered
    <2>6. ASSUME ~half PROVE TogetherAt(h)'
      <3>1. row = h /\ TogetherAt(h)
        BY <1>1, <1>3, <1>6, <2>6, AtHome
      <3>2. BoundTo(h)'
        <4>1. \A i \in 1 .. Len(dirs[h].log) : dirs'[h].log[i].project = h
          BY <1>5, <2>4, <3>1 DEF TogetherAt, BoundTo
        <4>2. dirs'[h].log[Len(dirs[h].log) + 1].project = h
          BY <1>4, <2>4
        <4> QED
          BY <2>4, <2>8, <4>1, <4>2 DEF BoundTo
      <3> QED
        BY <1>3, <3>1, <3>2 DEF TogetherAt, Moving!Loads
    <2>7. Placed'
      BY <1>3, <1>10, <2>6 DEF Placed
    <2> QED
      BY <1>7, <1>8, <2>2, <2>3, <2>5, <2>7
  <1> QED
    BY <1>3, <1>9, <1>10

\* The files that are derived from the log are made anew.
LEMMA MoveRefreshKeeps ==
  ASSUME MoveValues, MoveInv, NEW kind \in {"refresh", "moved"}, Moving!Refresh(kind), ~doomed,
         \/ kind = "refresh" /\ op = Moving!Idle
         \/ kind = "moved" /\ op.at = "refresh"
  PROVE  MoveInv'
  <1> USE DEF MoveInv
  <1>1. PICK h : h = Moving!Home
    OBVIOUS
  <1>2. /\ h \in Projects /\ Moving!Loads /\ dirs' \in [Projects -> Directories]
        /\ \A p \in Projects \ {h} : dirs'[p] = dirs[p]
        /\ dirs'[h].here /\ dirs'[h].manifest = dirs[h].manifest /\ dirs'[h].log = dirs[h].log
        /\ dirs'[h].synced = Len(dirs[h].log)
        /\ sources' = [sources EXCEPT ![h] = IF @ = "none" THEN "pending" ELSE @]
        /\ op' = [at |-> "manifest", kind |-> kind, from |-> Moving!Nowhere, to |-> h,
                  seq |-> Moving!LastSeq(h), id |-> 0]
        /\ Moving!LastSeq(h) \in Nat
        /\ UNCHANGED <<row, written, acked, doomed, half, lost, reviews, late>>
    BY <1>1, RefreshIs DEF MoveKinds
  <1>3. \A p \in Projects : dirs'[p].log = dirs[p].log
    BY <1>2
  <1>4. Len(dirs[h].log) \in Nat /\ DOMAIN dirs[h].log = 1 .. Len(dirs[h].log)
    BY <1>2, DirIs
  <1>5. MoveTypes'
    <2>1. op' \in MoveOps
      BY <1>2 DEF MoveOps, MoveKinds
    <2>2. \A p \in Projects : dirs'[p].synced <= Len(dirs'[p].log)
      <3>1. dirs'[h].synced <= Len(dirs'[h].log)
        BY <1>2, <1>4
      <3>2. \A p \in Projects \ {h} : dirs'[p].synced <= Len(dirs'[p].log)
        BY <1>2 DEF MoveTypes, Moving!TypeOK
      <3> QED
        BY <3>1, <3>2
    <2>3. \A p \in Projects : ~dirs'[p].here => dirs'[p] = Moving!NoDir
      BY <1>2 DEF MoveTypes
    <2>4. sources' \in [Projects -> {"none", "pending", "consolidated"}]
      BY <1>2 DEF MoveTypes, Moving!TypeOK
    <2>5. Moving!TypeOK'
      BY <1>2, <2>2, <2>4, DirectoriesTyped DEF MoveTypes, Moving!TypeOK
    <2> QED
      BY <1>2, <2>1, <2>3, <2>5 DEF MoveTypes
  <1>6. MovesFresh'
    BY <1>2 DEF MovesFresh
  <1>7. \A p \in Projects : Moving!EventsOf(p)' = Moving!EventsOf(p)
    BY <1>3, EventsSame
  <1>8. EventsOnce'
    BY <1>2, <1>7, OnceStays
  <1>9. EventsHeld'
    BY <1>2, <1>7, HeldStays
  <1>10. Numbered'
    <2>1. ASSUME ~half, ~lost
          PROVE  op'.seq <= Len(dirs'[op'.to].log)
      <3>1. Moving!LastSeq(h) = Len(dirs[h].log)
        BY <1>2, <2>1, LastIs DEF Numbered
      <3> QED
        BY <1>2, <1>4, <3>1
    <2> QED
      BY <1>2, <1>3, <2>1 DEF Numbered
  <1>11. ASSUME ~half PROVE TogetherAt(h)'
    <2>1. /\ row = h /\ dirs[h].manifest.project \in {h, Moving!Nowhere} /\ BoundTo(h)
          /\ \A p \in Projects \ {h} :
               dirs[p] = Moving!NoDir /\ (sources[p] = "none" \/ p \in late)
      <3>1. CASE op = Moving!Idle
        BY <1>1, <1>2, <1>11, <3>1, AtHome DEF TogetherAt, Moving!Idle
      <3>2. CASE op.at = "refresh"
        <4>1. op.kind = "move" /\ op.from \in Projects
          BY <3>2 DEF MoveTypes, MovesFresh
        <4>2. h = op.to /\ row = h /\ UnderWay
          BY <1>1, <1>11, <3>2, <4>1, MovedHome
        <4> QED
          BY <3>2, <4>1, <4>2 DEF UnderWay
      <3> QED
        BY <3>1, <3>2
    <2>2. dirs[h].manifest # Moving!NoManifest
      BY <1>2, <2>1 DEF Moving!Loads
    <2>3. \A p \in Projects \ {h} : sources'[p] = sources[p]
      BY <1>2 DEF MoveTypes, Moving!TypeOK
    <2> QED
      BY <1>2, <1>3, <2>1, <2>2, <2>3 DEF TogetherAt, BoundTo
  <1>12. Placed'
    BY <1>2, <1>11 DEF Placed
  <1> QED
    BY <1>5, <1>6, <1>8, <1>9, <1>10, <1>12

\* The manifest is written.
LEMMA MoveManifestKeeps ==
  ASSUME MoveValues, MoveInv, Moving!WriteManifest
  PROVE  MoveInv'
  <1> USE DEF MoveInv
  <1>1. PICK h \in Projects : h = op.to
    BY ManifestWrittenIs
  <1>2. /\ op.at = "manifest" /\ dirs' \in [Projects -> Directories]
        /\ \A p \in Projects \ {h} : dirs'[p] = dirs[p]
        /\ dirs'[h].here /\ dirs'[h].manifest = [project |-> h, seq |-> op.seq]
        /\ dirs'[h].log = dirs[h].log /\ dirs'[h].synced = dirs[h].synced
        /\ op' = [op EXCEPT !.at = "row"]
        /\ UNCHANGED <<row, sources, written, acked, doomed, half, lost, reviews, late>>
    BY <1>1, ManifestWrittenIs
  <1>3. /\ op \in MoveOps /\ op' \in MoveOps /\ op'.at = "row" /\ op'.kind = op.kind
        /\ op'.to = op.to /\ op'.from = op.from /\ op'.seq = op.seq /\ op'.id = op.id
        /\ ~doomed /\ op.kind \notin {"none", "delete"}
    BY <1>2 DEF MoveTypes, MoveOps
  <1>4. \A p \in Projects : dirs'[p].log = dirs[p].log /\ dirs'[p].synced = dirs[p].synced
    BY <1>2
  <1>5. MoveTypes'
    <2>1. \A p \in Projects : ~dirs'[p].here => dirs'[p] = Moving!NoDir
      BY <1>2 DEF MoveTypes
    <2>2. Moving!TypeOK'
      BY <1>1, <1>2, <1>3, <1>4, DirectoriesTyped DEF MoveTypes, Moving!TypeOK
    <2> QED
      BY <1>2, <1>3, <2>1, <2>2 DEF MoveTypes
  <1>6. MovesFresh'
    <2>1. ASSUME op.kind = "move" PROVE op.from \in Projects \ {h}
      BY <1>1, <2>1 DEF MovesFresh
    <2> QED
      BY <1>1, <1>2, <1>3, <2>1 DEF MovesFresh
  <1>7. \A p \in Projects : Moving!EventsOf(p)' = Moving!EventsOf(p)
    BY <1>4, EventsSame
  <1>8. EventsOnce'
    BY <1>2, <1>7, OnceStays
  <1>9. EventsHeld'
    BY <1>2, <1>3, <1>7, HeldStays DEF EventsHeld
  <1>10. Numbered'
    <2>1. dirs'[h].manifest.seq = op.seq
      BY <1>2
    <2> QED
      BY <1>1, <1>2, <1>3, <1>4, <2>1 DEF Numbered
  <1>11. Placed'
    <2>1. dirs'[h].manifest # Moving!NoManifest /\ dirs'[h].manifest.project = h
      BY <1>2 DEF Moving!NoManifest, MoveValues
    <2>2. CASE op.kind = "move"
      BY <1>1, <1>2, <1>3, <1>4, <2>1, <2>2 DEF Placed, UnderWay, BoundTo
    <2>3. CASE op.kind # "move"
      <3>1. ASSUME ~half PROVE TogetherAt(h)'
        <4>1. TogetherAt(h)
          BY <1>1, <1>2, <2>3, <3>1 DEF Placed
        <4> QED
          BY <1>2, <1>4, <2>1, <4>1 DEF TogetherAt, BoundTo
      <3> QED
        BY <1>1, <1>2, <1>3, <2>3, <3>1 DEF Placed
    <2> QED
      BY <2>2, <2>3
  <1> QED
    BY <1>5, <1>6, <1>8, <1>9, <1>10, <1>11

\* A log whose lines are bound to another project, with a line more.
LEMMA RewrittenIs ==
  ASSUME NEW l \in Seq(Moving!Events), NEW e \in Moving!Events, NEW home \in Projects,
         e.project = home, NEW b \in [DOMAIN l -> Moving!Events],
         \A i \in DOMAIN l : b[i].id = l[i].id /\ b[i].seq = l[i].seq /\ b[i].project = home,
         NEW k, k = Append(b, e)
  PROVE  /\ k \in Seq(Moving!Events) /\ Len(l) \in Nat /\ Len(k) = Len(l) + 1
         /\ DOMAIN l = 1 .. Len(l) /\ DOMAIN k = 1 .. Len(l) + 1
         /\ \A i \in DOMAIN l : k[i].id = l[i].id /\ k[i].seq = l[i].seq /\ k[i].project = home
         /\ k[Len(l) + 1] = e
  <1>2. Len(l) \in Nat /\ DOMAIN l = 1 .. Len(l)
    OBVIOUS
  <1>5. b \in [1 .. Len(l) -> Moving!Events]
    BY <1>2
  <1>6. b \in Seq(Moving!Events) /\ Len(b) = Len(l)
    BY <1>2, <1>5, SeqDef, LenProperties
  <1>8. /\ k \in Seq(Moving!Events) /\ Len(k) = Len(l) + 1 /\ DOMAIN k = 1 .. Len(l) + 1
        /\ \A i \in 1 .. Len(l) : k[i] = b[i]
        /\ k[Len(l) + 1] = e
    BY <1>2, <1>6, AppendedIs
  <1> QED
    BY <1>2, <1>8

\* A session is renamed into another project.
LEMMA MoveBeginMoveKeeps ==
  ASSUME MoveValues, MoveInv, NEW target \in Projects, Moving!BeginMove(target)
  PROVE  MoveInv'
  <1> USE DEF MoveInv
  <1>1. PICK source : source = Moving!Home
    OBVIOUS
  <1>2. /\ op = Moving!Idle /\ ~doomed /\ Moving!Loads /\ written < MaxWritten
        /\ source # target /\ sources[source] # "consolidated"
        /\ ~dirs[target].here /\ dirs[source].here
        /\ UNCHANGED <<row, sources, written, acked, doomed, half, lost, reviews, late>>
    BY <1>1 DEF Moving!BeginMove
  <1>3. dirs' = [p \in Projects |-> CASE p = target -> dirs[source]
                                      [] p = source -> Moving!NoDir
                                      [] OTHER      -> dirs[p]]
    BY <1>1 DEF Moving!BeginMove, Moving!Rename
  <1>4. op' = [at |-> "rewrite", kind |-> "move", from |-> source, to |-> target,
               seq |-> Moving!Base + 1, id |-> 0]
    BY <1>1 DEF Moving!BeginMove, Moving!Idle
  <1>5. source \in Projects /\ Moving!Base \in Nat
    BY <1>1, <1>2, HomeIs, BaseIs
  <1>6. /\ dirs'[target] = dirs[source] /\ dirs'[source] = Moving!NoDir
        /\ \A p \in Projects \ {source, target} : dirs'[p] = dirs[p]
        /\ dirs[target] = Moving!NoDir
    BY <1>2, <1>3, <1>5 DEF MoveTypes
  <1>7. /\ Moving!NoDir \in Directories /\ Moving!NoDir.log = << >> /\ Moving!NoDir.synced = 0
        /\ Moving!NoDir.manifest.seq = 0 /\ ~Moving!NoDir.here
    BY DEF Directories, Moving!NoDir, Moving!NoManifest
  <1>8. MoveTypes'
    <2>1. dirs' \in [Projects -> Directories]
      BY <1>3, <1>5, <1>7 DEF MoveTypes
    <2>2. op' \in MoveOps
      BY <1>4, <1>5 DEF MoveOps, MoveKinds
    <2>3. \A p \in Projects : dirs'[p].synced <= Len(dirs'[p].log)
      BY <1>5, <1>6, <1>7 DEF MoveTypes, Moving!TypeOK
    <2>4. \A p \in Projects : ~dirs'[p].here => dirs'[p] = Moving!NoDir
      BY <1>2, <1>5, <1>6 DEF MoveTypes
    <2>5. Moving!TypeOK'
      BY <1>2, <1>4, <2>1, <2>3, DirectoriesTyped DEF MoveTypes, Moving!TypeOK
    <2> QED
      BY <1>2, <1>4, <1>6, <2>1, <2>2, <2>4, <2>5 DEF MoveTypes
  <1>9. MovesFresh'
    BY <1>2, <1>4, <1>5, <1>6, <1>7 DEF MovesFresh
  <1>10. /\ Moving!EventsOf(target)' = Moving!EventsOf(source)
         /\ Moving!EventsOf(source)' = {} /\ Moving!EventsOf(target) = {}
         /\ \A p \in Projects \ {source, target} : Moving!EventsOf(p)' = Moving!EventsOf(p)
    <2>1. DOMAIN dirs'[source].log = {} /\ DOMAIN dirs[target].log = {}
      BY <1>6, <1>7
    <2> QED
      BY <1>6, <2>1 DEF Moving!EventsOf
  <1>11. EventsOnce'
    BY <1>2, <1>5, <1>10 DEF EventsOnce
  <1>12. EventsHeld'
    <2>1. ASSUME ~doomed', ~lost', NEW x \in acked'
          PROVE  \E p \in Projects : x \in Moving!EventsOf(p)'
      <3>1. PICK p \in Projects : x \in Moving!EventsOf(p)
        BY <1>2, <2>1 DEF EventsHeld
      <3> QED
        BY <1>5, <1>10, <3>1
    <2> QED
      BY <1>4, <2>1 DEF EventsHeld
  <1>13. Numbered'
    <2>1. ASSUME ~half, ~lost
          PROVE  /\ \A p \in Projects : \A i \in DOMAIN dirs'[p].log : dirs'[p].log[i].seq = i
                 /\ \A p \in Projects : dirs'[p].manifest.seq <= Len(dirs'[p].log)
                 /\ op'.seq = Len(dirs'[op'.to].log) + 1
      <3>1. /\ \A p \in Projects : \A i \in DOMAIN dirs[p].log : dirs[p].log[i].seq = i
            /\ \A p \in Projects : dirs[p].manifest.seq <= Len(dirs[p].log)
        BY <1>2, <2>1 DEF Numbered
      <3>2. row = source
        BY <1>1, <1>2, <2>1, AtHome DEF Moving!Idle
      <3>3. Moving!Base = Len(dirs[source].log)
        <4>1. Moving!LastSeq(source) = Len(dirs[source].log)
          BY <1>5, <3>1, LastIs
        <4>2. dirs[source].manifest.seq \in Nat /\ Len(dirs[source].log) \in Nat
          BY <1>5, DirIs
        <4> QED
          BY <1>1, <1>5, <3>1, <3>2, <4>1, <4>2 DEF Moving!Base, Moving!Manifest
      <3>4. \A i \in DOMAIN Moving!NoDir.log : FALSE
        BY <1>7
      <3> QED
        BY <1>4, <1>5, <1>6, <1>7, <3>1, <3>3, <3>4
    <2> QED
      BY <1>2, <1>4, <2>1 DEF Numbered
  <1>14. Placed'
    <2>1. ASSUME ~half
          PROVE  UnderWay'
      <3>1. row = source /\ TogetherAt(source)
        BY <1>1, <1>2, <2>1, AtHome DEF Moving!Idle
      <3>2. dirs[source].manifest # Moving!NoManifest
        BY <1>2, <3>1 DEF Moving!Loads
      <3>3. \A p \in Projects \ {target} : dirs'[p] = Moving!NoDir
        BY <1>6, <3>1 DEF TogetherAt
      <3>4. \A p \in Projects \ {source, target} : sources'[p] = "none" \/ p \in late'
        BY <1>2, <3>1 DEF TogetherAt
      <3> QED
        BY <1>2, <1>4, <1>6, <3>2, <3>3, <3>4 DEF UnderWay
    <2> QED
      BY <1>2, <1>4, <2>1 DEF Placed
  <1> QED
    BY <1>8, <1>9, <1>11, <1>12, <1>13, <1>14

\* The log of the moved session is rewritten.
LEMMA MoveRewriteKeeps ==
  ASSUME MoveValues, MoveInv, Moving!Rewrite
  PROVE  MoveInv'
  <1> USE DEF MoveInv
  <1>1. PICK h \in Projects : h = op.to
    BY DEF Moving!Rewrite, MoveTypes, Moving!TypeOK
  <1>2. /\ op.at = "rewrite" /\ op.kind = "move" /\ op \in MoveOps /\ written < MaxWritten
        /\ written' = written + 1 /\ op' = [op EXCEPT !.at = "manifest"] /\ ~doomed
        /\ UNCHANGED <<row, sources, acked, doomed, half, lost, reviews, late>>
    BY DEF Moving!Rewrite, MoveTypes
  <1>3. /\ op' \in MoveOps /\ op'.at = "manifest" /\ op'.kind = "move" /\ op'.to = h
        /\ op'.from = op.from /\ op'.seq = op.seq
    BY <1>1, <1>2 DEF MoveOps
  <1>4. PICK l \in Seq(Moving!Events) : l = dirs[h].log
    BY DirIs
  <1>5. PICK e \in Moving!Events :
          e = Moving!Event(h, op.seq) /\ e.id = written + 1 /\ e.seq = op.seq /\ e.project = h
    <2>1. written \in Nat /\ op.seq \in Nat /\ written + 1 \in 1 .. MaxWritten
      <3>1. written \in 0 .. MaxWritten /\ op.seq \in Nat
        BY <1>2 DEF MoveTypes, Moving!TypeOK, MoveOps
      <3> QED
        BY <1>2, <3>1 DEF MoveValues
    <2>2. PICK e : e = [id |-> written + 1, seq |-> op.seq, project |-> h]
      OBVIOUS
    <2>3. e \in Moving!Events /\ e.id = written + 1 /\ e.seq = op.seq /\ e.project = h
      BY <2>1, <2>2 DEF Moving!Events
    <2> QED
      BY <2>2, <2>3 DEF Moving!Event
  <1>6. PICK b : b = [i \in DOMAIN l |-> [l[i] EXCEPT !.project = h]]
    OBVIOUS
  <1>14. PICK k : k = Append(b, e)
    OBVIOUS
  <1>7. /\ k \in Seq(Moving!Events) /\ Len(l) \in Nat /\ Len(k) = Len(l) + 1
        /\ DOMAIN l = 1 .. Len(l) /\ DOMAIN k = 1 .. Len(l) + 1
        /\ \A i \in DOMAIN l : k[i].id = l[i].id /\ k[i].seq = l[i].seq /\ k[i].project = h
        /\ k[Len(l) + 1] = e
    <2>1. DOMAIN l = 1 .. Len(l) /\ \A i \in DOMAIN l : l[i] \in Moving!Events
      BY ElementOfSeq
    <2>2. \A i \in DOMAIN l : /\ b[i] \in Moving!Events /\ b[i].id = l[i].id
                              /\ b[i].seq = l[i].seq /\ b[i].project = h
      BY <1>6, <2>1 DEF Moving!Events
    <2>3. b \in [DOMAIN l -> Moving!Events]
      BY <1>6, <2>2
    <2> QED
      BY <1>4, <1>5, <1>14, <2>2, <2>3, RewrittenIs
  <1>8. PICK d : d = [dirs[h] EXCEPT !.synced = 0, !.log = k]
    OBVIOUS
  <1>9. /\ d \in Directories /\ d.here = dirs[h].here /\ d.manifest = dirs[h].manifest
        /\ d.synced = 0 /\ d.log = k
    <2>1. dirs[h] \in Directories
      BY DEF MoveTypes
    <2> QED
      BY <1>7, <1>8, <2>1 DEF Directories
  <1>10. dirs' = [dirs EXCEPT ![h] = d]
    <2>1. dirs' = [dirs EXCEPT ![h] = [dirs[h] EXCEPT !.synced = 0,
             !.log = Append([i \in DOMAIN dirs[h].log |->
                               [dirs[h].log[i] EXCEPT !.project = h]], e)]]
      BY <1>1, <1>5 DEF Moving!Rewrite, MoveTypes
    <2> QED
      BY <1>4, <1>6, <1>8, <1>14, <2>1
  <1>11. /\ dirs' \in [Projects -> Directories] /\ dirs'[h] = d
         /\ \A p \in Projects \ {h} : dirs'[p] = dirs[p]
    BY <1>9, <1>10, PutIs
  <1>12. dirs[h].here
    BY <1>1, <1>2 DEF MoveTypes
  <1>13. MoveTypes'
    <2>1. \A p \in Projects : dirs'[p].synced <= Len(dirs'[p].log)
      <3>1. dirs'[h].synced <= Len(dirs'[h].log)
        BY <1>7, <1>9, <1>11
      <3> QED
        BY <1>11, <3>1 DEF MoveTypes, Moving!TypeOK
    <2>2. \A p \in Projects : ~dirs'[p].here => dirs'[p] = Moving!NoDir
      BY <1>9, <1>11, <1>12 DEF MoveTypes
    <2>3. written' \in 0 .. MaxWritten /\ acked' \subseteq 1 .. written'
      BY <1>2 DEF MoveTypes, Moving!TypeOK, MoveValues
    <2>4. Moving!TypeOK'
      BY <1>2, <1>3, <1>11, <2>1, <2>3, DirectoriesTyped DEF MoveTypes, Moving!TypeOK
    <2> QED
      BY <1>2, <1>3, <1>11, <2>2, <2>4 DEF MoveTypes
  <1>15. MovesFresh'
    <2>1. op.from \in Projects \ {h}
      BY <1>1, <1>2 DEF MovesFresh
    <2> QED
      BY <1>1, <1>2, <1>3, <1>11, <2>1 DEF MovesFresh
  <1>16. Moving!EventsOf(h)' = Moving!EventsOf(h) \cup {written + 1}
    <2>1. {k[i].id : i \in DOMAIN k} = {l[i].id : i \in DOMAIN l} \cup {e.id}
      BY <1>7
    <2> QED
      BY <1>4, <1>5, <1>9, <1>11, <2>1 DEF Moving!EventsOf
  <1>17. \A p \in Projects \ {h} : Moving!EventsOf(p)' = Moving!EventsOf(p)
    BY <1>11, EventsSame
  <1>18. EventsOnce'
    BY <1>2, <1>16, <1>17, OnceWritten
  <1>19. EventsHeld'
    <2>1. \A p \in Projects : Moving!EventsOf(p) \subseteq Moving!EventsOf(p)'
      BY <1>16, <1>17
    <2> QED
      BY <1>2, <1>3, <2>1, HeldStays
  <1>20. Numbered'
    <2>1. ASSUME ~half, ~lost
          PROVE  /\ \A p \in Projects : \A i \in DOMAIN dirs'[p].log : dirs'[p].log[i].seq = i
                 /\ \A p \in Projects : dirs'[p].manifest.seq <= Len(dirs'[p].log)
                 /\ op'.seq <= Len(dirs'[h].log)
      <3>1. /\ \A p \in Projects : \A i \in DOMAIN dirs[p].log : dirs[p].log[i].seq = i
            /\ \A p \in Projects : dirs[p].manifest.seq <= Len(dirs[p].log)
            /\ op.seq = Len(l) + 1
        BY <1>1, <1>2, <1>4, <2>1 DEF Numbered
      <3>2. \A i \in 1 .. Len(l) + 1 : i \in 1 .. Len(l) \/ i = Len(l) + 1
        BY <1>7
      <3>3. \A i \in 1 .. Len(l) : k[i].seq = i
        BY <1>4, <1>7, <3>1
      <3>4. \A i \in DOMAIN k : k[i].seq = i
        BY <1>5, <1>7, <3>1, <3>2, <3>3
      <3>5. d.manifest.seq <= Len(k)
        <4>1. dirs[h].manifest.seq \in Nat /\ dirs[h].manifest.seq <= Len(l)
          BY <1>4, <3>1, DirIs
        <4> QED
          BY <1>7, <1>9, <4>1
      <3> QED
        <4>1. op'.seq <= Len(dirs'[h].log)
          BY <1>3, <1>7, <1>9, <1>11, <3>1
        <4>2. /\ dirs'[h].log = k /\ dirs'[h].manifest = d.manifest
              /\ \A p \in Projects \ {h} : dirs'[p].log = dirs[p].log
                                          /\ dirs'[p].manifest = dirs[p].manifest
          BY <1>9, <1>11
        <4>3. \A p \in Projects : \A i \in DOMAIN dirs'[p].log : dirs'[p].log[i].seq = i
          BY <3>1, <3>4, <4>2
        <4>4. \A p \in Projects : dirs'[p].manifest.seq <= Len(dirs'[p].log)
          BY <3>1, <3>5, <4>2
        <4> QED
          BY <4>1, <4>3, <4>4
    <2> QED
      BY <1>2, <1>3, <2>1 DEF Numbered
  <1>21. Placed'
    <2>1. ASSUME ~half
          PROVE  UnderWay'
      <3>1. UnderWay
        BY <1>2, <2>1 DEF Placed
      <3>2. \A i \in 1 .. Len(l) + 1 : i \in 1 .. Len(l) \/ i = Len(l) + 1
        BY <1>7
      <3>3. \A i \in DOMAIN k : k[i].project = h
        BY <1>5, <1>7, <3>2
      <3>4. BoundTo(h)'
        BY <1>9, <1>11, <3>3 DEF BoundTo
      <3> QED
        <4>1. \A p \in Projects \ {h} : dirs'[p] = Moving!NoDir
          BY <1>1, <1>11, <3>1 DEF UnderWay
        <4>2. dirs'[h].here /\ dirs'[h].manifest # Moving!NoManifest
          BY <1>1, <1>9, <1>11, <1>12, <3>1 DEF UnderWay
        <4>3. \A p \in Projects \ {op.from, op.to} : sources'[p] = "none" \/ p \in late'
          BY <1>2, <3>1 DEF UnderWay
        <4>4. \A p \in Projects \ {op'.from, op'.to} : sources'[p] = "none" \/ p \in late'
          BY <1>1, <1>3, <4>3
        <4> QED
          BY <1>3, <3>4, <4>1, <4>2, <4>4 DEF UnderWay
    <2> QED
      BY <1>2, <1>3, <2>1 DEF Placed
  <1> QED
    BY <1>13, <1>15, <1>18, <1>19, <1>20, <1>21

\* A file of a deleted session is removed.
LEMMA MoveRemoveFileKeeps ==
  ASSUME MoveValues, MoveInv, Moving!RemoveFile
  PROVE  MoveInv'
  <1> USE DEF MoveInv
  <1>1. /\ op.at = "files" /\ op.kind = "delete" /\ doomed
        /\ UNCHANGED <<row, sources, op, written, acked, doomed, half, lost, reviews, late>>
    BY DEF Moving!RemoveFile, MoveTypes
  <1>2. PICK h \in Projects : h = op.to
    BY <1>1 DEF MoveTypes, Moving!TypeOK
  <1>3. dirs[h] \in Directories
    BY DEF MoveTypes
  <1>4. PICK d \in Directories :
          /\ dirs' = [dirs EXCEPT ![h] = d] /\ d.here = dirs[h].here
          /\ d.manifest \in {dirs[h].manifest, Moving!NoManifest}
          /\ \/ d.log = dirs[h].log /\ d.synced = dirs[h].synced
             \/ d.log = << >> /\ d.synced = 0
          /\ dirs[h] = Moving!NoDir => d = Moving!NoDir
    <2>1. CASE dirs' = [dirs EXCEPT ![op.to].manifest = Moving!NoManifest]
      <3>1. PICK d : d = [dirs[h] EXCEPT !.manifest = Moving!NoManifest]
        OBVIOUS
      <3>2. d \in Directories /\ d.here = dirs[h].here /\ d.manifest = Moving!NoManifest
            /\ d.log = dirs[h].log /\ d.synced = dirs[h].synced
        BY <1>3, <3>1 DEF Directories
      <3>3. dirs[h] = Moving!NoDir => d = Moving!NoDir
        <4>1. d = [here |-> dirs[h].here, manifest |-> Moving!NoManifest,
                   log |-> dirs[h].log, synced |-> dirs[h].synced]
          BY <1>3, <3>1 DEF Directories
        <4> QED
          BY <4>1 DEF Moving!NoDir
      <3>4. dirs' = [dirs EXCEPT ![h] = d]
        BY <1>2, <2>1, <3>1 DEF MoveTypes
      <3> QED
        BY <3>2, <3>3, <3>4
    <2>2. CASE dirs' = [dirs EXCEPT ![op.to] = [dirs[op.to] EXCEPT !.log = <<>>, !.synced = 0]]
      <3>1. PICK d : d = [dirs[h] EXCEPT !.log = <<>>, !.synced = 0]
        OBVIOUS
      <3>2. d \in Directories /\ d.here = dirs[h].here /\ d.manifest = dirs[h].manifest
            /\ d.log = << >> /\ d.synced = 0
        <4>1. << >> \in Seq(Moving!Events)
          OBVIOUS
        <4> QED
          BY <1>3, <3>1, <4>1 DEF Directories
      <3>3. dirs[h] = Moving!NoDir => d = Moving!NoDir
        <4>1. d = [here |-> dirs[h].here, manifest |-> dirs[h].manifest,
                   log |-> << >>, synced |-> 0]
          BY <1>3, <3>1 DEF Directories
        <4> QED
          BY <4>1 DEF Moving!NoDir
      <3>4. dirs' = [dirs EXCEPT ![h] = d]
        BY <1>2, <2>2, <3>1
      <3> QED
        BY <3>2, <3>3, <3>4
    <2> QED
      BY <2>1, <2>2 DEF Moving!RemoveFile
  <1>5. /\ dirs' \in [Projects -> Directories] /\ dirs'[h] = d
        /\ \A p \in Projects \ {h} : dirs'[p] = dirs[p]
    BY <1>4, PutIs
  <1>6. MoveTypes'
    <2>1. \A p \in Projects : dirs'[p].synced <= Len(dirs'[p].log)
      <3>1. d.synced <= Len(d.log)
        BY <1>4 DEF MoveTypes, Moving!TypeOK
      <3> QED
        BY <1>5, <3>1 DEF MoveTypes, Moving!TypeOK
    <2>2. \A p \in Projects : ~dirs'[p].here => dirs'[p] = Moving!NoDir
      BY <1>4, <1>5 DEF MoveTypes
    <2>3. Moving!TypeOK'
      BY <1>1, <1>5, <2>1, DirectoriesTyped DEF MoveTypes, Moving!TypeOK
    <2> QED
      BY <1>1, <1>5, <2>2, <2>3 DEF MoveTypes
  <1>7. MovesFresh'
    BY <1>1 DEF MovesFresh
  <1>8. DOMAIN << >> = {}
    OBVIOUS
  <1>9. EventsOnce'
    <2>1. Moving!EventsOf(h)' \subseteq Moving!EventsOf(h)
      BY <1>4, <1>5, <1>8 DEF Moving!EventsOf
    <2>2. \A p \in Projects : Moving!EventsOf(p)' \subseteq Moving!EventsOf(p)
      BY <1>5, <2>1, EventsSame
    <2> QED
      BY <1>1, <2>2, OnceStays
  <1>10. EventsHeld'
    BY <1>1 DEF EventsHeld
  <1>11. Numbered'
    BY <1>1, <1>4, <1>5, <1>8 DEF Numbered
  <1>12. Placed'
    <2>1. ASSUME ~half
          PROVE  TogetherAt(h)'
      <3>1. TogetherAt(h)
        BY <1>1, <1>2, <2>1 DEF Placed
      <3>2. d.manifest.project \in {h, Moving!Nowhere}
        BY <1>4, <3>1 DEF TogetherAt, Moving!NoManifest
      <3>3. BoundTo(h)'
        BY <1>4, <1>5, <1>8, <3>1 DEF TogetherAt, BoundTo
      <3> QED
        BY <1>1, <1>5, <3>1, <3>2, <3>3 DEF TogetherAt
    <2> QED
      BY <1>1, <1>2, <2>1 DEF Placed
  <1> QED
    BY <1>6, <1>7, <1>9, <1>10, <1>11, <1>12

\* The directory of a deleted session is removed.
LEMMA MoveRemoveDirKeeps ==
  ASSUME MoveValues, MoveInv, Moving!RemoveDir
  PROVE  MoveInv'
  <1> USE DEF MoveInv
  <1>1. /\ op.at = "files" /\ op.kind = "delete" /\ doomed /\ op \in MoveOps
        /\ op' = [op EXCEPT !.at = "row_delete"]
        /\ UNCHANGED <<row, sources, written, acked, doomed, half, lost, reviews, late>>
    BY DEF Moving!RemoveDir, MoveTypes
  <1>2. PICK h \in Projects : h = op.to
    BY <1>1 DEF MoveTypes, Moving!TypeOK
  <1>3. op' \in MoveOps /\ op'.at = "row_delete" /\ op'.kind = "delete" /\ op'.to = h
    BY <1>1, <1>2 DEF MoveOps
  <1>4. PICK d : d = Moving!NoDir
    OBVIOUS
  <1>5. /\ d \in Directories /\ d.log = << >> /\ d.synced = 0 /\ ~d.here
        /\ d.manifest.project = Moving!Nowhere /\ d.manifest = Moving!NoManifest
    BY <1>4 DEF Directories, Moving!NoDir, Moving!NoManifest
  <1>6. dirs' = [dirs EXCEPT ![h] = d]
    BY <1>2, <1>4 DEF Moving!RemoveDir
  <1>7. /\ dirs' \in [Projects -> Directories] /\ dirs'[h] = d
        /\ \A p \in Projects \ {h} : dirs'[p] = dirs[p]
    BY <1>5, <1>6, PutIs
  <1>8. DOMAIN << >> = {} /\ Len(<< >>) = 0
    OBVIOUS
  <1>9. MoveTypes'
    <2>1. \A p \in Projects : dirs'[p].synced <= Len(dirs'[p].log)
      <3>1. dirs'[h].synced <= Len(dirs'[h].log)
        BY <1>5, <1>7, <1>8
      <3> QED
        BY <1>7, <3>1 DEF MoveTypes, Moving!TypeOK
    <2>2. \A p \in Projects : ~dirs'[p].here => dirs'[p] = Moving!NoDir
      BY <1>4, <1>7 DEF MoveTypes
    <2>3. Moving!TypeOK'
      BY <1>1, <1>3, <1>7, <2>1, DirectoriesTyped DEF MoveTypes, Moving!TypeOK
    <2> QED
      BY <1>1, <1>3, <1>7, <2>2, <2>3 DEF MoveTypes
  <1>10. MovesFresh'
    BY <1>3 DEF MovesFresh
  <1>11. EventsOnce'
    <2>1. Moving!EventsOf(h)' = {}
      BY <1>5, <1>7, <1>8 DEF Moving!EventsOf
    <2>2. \A p \in Projects : Moving!EventsOf(p)' \subseteq Moving!EventsOf(p)
      BY <1>7, <2>1, EventsSame
    <2> QED
      BY <1>1, <2>2, OnceStays
  <1>12. EventsHeld'
    BY <1>1, <1>3 DEF EventsHeld
  <1>13. Numbered'
    BY <1>1, <1>5, <1>7, <1>8 DEF Numbered
  <1>14. Placed'
    <2>1. ASSUME ~half
          PROVE  TogetherAt(h)'
      <3>1. TogetherAt(h)
        BY <1>1, <1>2, <2>1 DEF Placed
      <3>2. BoundTo(h)'
        BY <1>5, <1>7, <1>8 DEF BoundTo
      <3> QED
        BY <1>1, <1>5, <1>7, <3>1, <3>2 DEF TogetherAt
    <2> QED
      BY <1>1, <1>3, <2>1 DEF Placed
  <1> QED
    BY <1>9, <1>10, <1>11, <1>12, <1>13, <1>14

\* The power fails.
LEMMA MovePowerLossKeeps ==
  ASSUME MoveValues, MoveInv, Moving!PowerLoss
  PROVE  MoveInv'
  <1> USE DEF MoveInv
  <1>1. PICK kept \in [Projects -> 0 .. MaxWritten] :
          /\ \A p \in Projects : kept[p] \in dirs[p].synced .. Len(dirs[p].log)
          /\ dirs' = [p \in Projects |->
               [dirs[p] EXCEPT !.log = SubSeq(@, 1, kept[p]), !.synced = kept[p]]]
    BY DEF Moving!PowerLoss
  <1>2. /\ lost' /\ op' = Moving!Idle /\ half' = (half \/ op.kind \in {"move", "moved"})
        /\ UNCHANGED <<row, sources, written, acked, doomed, reviews, late>>
    BY DEF Moving!PowerLoss
  <1>3. ASSUME NEW p \in Projects
        PROVE  /\ dirs'[p] \in Directories /\ dirs'[p].here = dirs[p].here
               /\ dirs'[p].manifest = dirs[p].manifest
               /\ dirs'[p].synced <= Len(dirs'[p].log)
               /\ DOMAIN dirs'[p].log \subseteq DOMAIN dirs[p].log
               /\ \A i \in DOMAIN dirs'[p].log : dirs'[p].log[i] = dirs[p].log[i]
               /\ dirs[p] = Moving!NoDir => dirs'[p] = Moving!NoDir
    <2>1. /\ dirs[p] \in Directories /\ dirs[p].log \in Seq(Moving!Events)
          /\ Len(dirs[p].log) \in Nat /\ dirs[p].synced \in Nat
          /\ DOMAIN dirs[p].log = 1 .. Len(dirs[p].log)
      BY <1>3, DirIs DEF MoveTypes
    <2>2. PICK n \in Nat : n = kept[p] /\ n <= Len(dirs[p].log)
      <3>1. kept[p] \in dirs[p].synced .. Len(dirs[p].log)
        BY <1>1, <1>3
      <3> QED
        BY <2>1, <3>1
    <2>3. PICK l : l = SubSeq(dirs[p].log, 1, n)
      OBVIOUS
    <2>4. /\ l \in Seq(Moving!Events) /\ Len(l) = n /\ DOMAIN l = 1 .. n
          /\ \A i \in 1 .. n : l[i] = dirs[p].log[i]
      BY <2>1, <2>2, <2>3
    <2>5. dirs'[p] = [dirs[p] EXCEPT !.log = l, !.synced = n]
      BY <1>1, <1>3, <2>2, <2>3
    <2>6. /\ dirs'[p] \in Directories /\ dirs'[p].here = dirs[p].here
          /\ dirs'[p].manifest = dirs[p].manifest /\ dirs'[p].log = l /\ dirs'[p].synced = n
      BY <2>1, <2>2, <2>4, <2>5 DEF Directories
    <2>7. ASSUME dirs[p] = Moving!NoDir PROVE dirs'[p] = Moving!NoDir
      <3>1. dirs[p].log = << >> /\ n = 0
        BY <2>2, <2>7 DEF Moving!NoDir
      <3>2. l = << >>
        BY <2>4, <3>1, EmptySeq
      <3> QED
        <4>1. dirs'[p] = [here |-> dirs[p].here, manifest |-> dirs[p].manifest,
                          log |-> l, synced |-> n]
          BY <2>1, <2>5 DEF Directories
        <4> QED
          BY <2>7, <3>1, <3>2, <4>1 DEF Moving!NoDir
    <2> QED
      BY <2>1, <2>2, <2>4, <2>6, <2>7
  <1>4. dirs' \in [Projects -> Directories]
    BY <1>1, <1>3
  <1>5. MoveTypes'
    <2>1. op' \in MoveOps /\ op'.at = "idle"
      BY <1>2 DEF MoveOps, MoveKinds, Moving!Idle
    <2>2. Moving!TypeOK'
      BY <1>2, <1>3, <1>4, <2>1, DirectoriesTyped DEF MoveTypes, Moving!TypeOK
    <2> QED
      BY <1>2, <1>3, <1>4, <2>1, <2>2 DEF MoveTypes
  <1>6. MovesFresh'
    BY <1>2 DEF MovesFresh, Moving!Idle
  <1>7. EventsOnce'
    <2>1. \A p \in Projects : Moving!EventsOf(p)' \subseteq Moving!EventsOf(p)
      BY <1>3 DEF Moving!EventsOf
    <2> QED
      BY <1>2, <2>1, OnceStays
  <1>8. EventsHeld'
    BY <1>2 DEF EventsHeld, Moving!Idle
  <1>9. Numbered'
    BY <1>2 DEF Numbered
  <1>10. Placed'
    <2>1. ASSUME ~half'
          PROVE  \E home \in Projects : TogetherAt(home)'
      <3>1. PICK home \in Projects : TogetherAt(home)
        BY <1>2, <2>1 DEF Placed
      <3>2. BoundTo(home)'
        BY <1>3, <3>1 DEF TogetherAt, BoundTo
      <3>3. \A p \in Projects \ {home} : /\ dirs'[p] = Moving!NoDir
                                         /\ sources'[p] = "none" \/ p \in late'
        BY <1>2, <1>3, <3>1 DEF TogetherAt
      <3>4. dirs'[home].here = dirs[home].here /\ dirs'[home].manifest = dirs[home].manifest
        BY <1>3
      <3>5. TogetherAt(home)'
        BY <1>2, <3>1, <3>2, <3>3, <3>4 DEF TogetherAt
      <3> QED
        BY <3>5
    <2> QED
      BY <1>2, <2>1 DEF Placed, Moving!Idle
  <1> QED
    BY <1>5, <1>6, <1>7, <1>8, <1>9, <1>10

\* There is no session at first.
LEMMA MoveInit ==
  ASSUME MoveValues, Moving!Init
  PROVE  MoveInv
  <1>1. /\ dirs = [p \in Projects |-> Moving!NoDir] /\ row = Moving!Nowhere
        /\ sources = [p \in Projects |-> "none"] /\ op = Moving!Idle /\ written = 0
        /\ acked = {} /\ ~doomed /\ ~half /\ ~lost /\ reviews = {} /\ late = {}
        /\ doomed \in BOOLEAN /\ half \in BOOLEAN /\ lost \in BOOLEAN
    BY DEF Moving!Init
  <1>2. << >> \in Seq(Moving!Events) /\ DOMAIN << >> = {} /\ Len(<< >>) = 0
    OBVIOUS
  <1>3. /\ Moving!NoDir \in Directories /\ Moving!NoDir.log = << >> /\ Moving!NoDir.synced = 0
        /\ Moving!NoDir.manifest = Moving!NoManifest /\ ~Moving!NoDir.here
        /\ Moving!NoManifest.seq = 0 /\ Moving!NoManifest.project = Moving!Nowhere
    BY <1>2 DEF Directories, Moving!NoDir, Moving!NoManifest
  <1>4. Moving!Idle \in MoveOps /\ Moving!Idle.at = "idle" /\ Moving!Idle.kind = "none"
    BY DEF MoveOps, MoveKinds, Moving!Idle
  <1>5. dirs \in [Projects -> Directories] /\ \A p \in Projects : dirs[p] = Moving!NoDir
    BY <1>1, <1>3
  <1>6. MoveTypes
    <2>1. Moving!TypeOK
      BY <1>1, <1>2, <1>3, <1>4, <1>5, DirectoriesTyped DEF Moving!TypeOK, MoveValues
    <2> QED
      BY <1>1, <1>4, <1>5, <2>1 DEF MoveTypes
  <1>7. MovesFresh
    BY <1>1, <1>4 DEF MovesFresh
  <1>8. EventsOnce /\ EventsHeld
    <2>1. \A p \in Projects : Moving!EventsOf(p) = {}
      BY <1>2, <1>3, <1>5 DEF Moving!EventsOf
    <2> QED
      BY <1>1, <1>4, <2>1 DEF EventsOnce, EventsHeld
  <1>9. Numbered
    BY <1>1, <1>2, <1>3, <1>4, <1>5 DEF Numbered
  <1>10. Placed
    <2>2. Projects # {}
      BY DEF MoveValues
    <2>1. \A home \in Projects : TogetherAt(home)
      BY <1>1, <1>2, <1>3, <1>5 DEF TogetherAt, BoundTo
    <2> QED
      BY <1>1, <1>4, <2>1, <2>2 DEF Placed
  <1> QED
    BY <1>6, <1>7, <1>8, <1>9, <1>10 DEF MoveInv

\* Every step keeps the invariant.
LEMMA MoveStep ==
  ASSUME MoveValues, MoveInv, [Moving!Next]_(Moving!vars)
  PROVE  MoveInv'
  <1>1. CASE Moving!BeginAppend \/ Moving!CreatedEvent
    <2>1. Moving!Append1("append") /\ (op = Moving!Idle \/ op.at = "created") /\ ~doomed
      BY <1>1 DEF Moving!BeginAppend, Moving!CreatedEvent, MoveInv, MoveTypes
    <2> QED
      BY <2>1, MoveAppendKeeps
  <1>2. CASE Moving!BeginRefresh
    <2>1. Moving!Refresh("refresh") /\ op = Moving!Idle /\ ~doomed
      BY <1>2 DEF Moving!BeginRefresh
    <2> QED
      BY <2>1, MoveRefreshKeeps
  <1>3. CASE Moving!MovedRefresh
    <2>1. Moving!Refresh("moved") /\ op.at = "refresh" /\ ~doomed
      BY <1>3 DEF Moving!MovedRefresh, MoveInv, MoveTypes
    <2> QED
      BY <2>1, MoveRefreshKeeps
  <1>4. CASE \E p \in Projects : Moving!BeginCreate(p) \/ Moving!BeginMove(p)
    BY <1>4, MoveBeginCreateKeeps, MoveBeginMoveKeeps
  <1>5. CASE \/ Moving!Rebuild \/ Moving!RebuildFails \/ Moving!BeginUpdate
             \/ Moving!WriteManifest \/ Moving!UpsertRow \/ Moving!Rewrite \/ Moving!Discard
    BY <1>5, MoveRebuildKeeps, MoveRebuildFailsKeeps, MoveBeginUpdateKeeps, MoveManifestKeeps,
       MoveUpsertRowKeeps, MoveRewriteKeeps, MoveDiscardKeeps
  <1>6. CASE \/ Moving!BeginDelete \/ Moving!RemoveFile \/ Moving!RemoveDir \/ Moving!DeleteRow
             \/ Moving!Interrupt \/ Moving!PowerLoss
    BY <1>6, MoveBeginDeleteKeeps, MoveRemoveFileKeeps, MoveRemoveDirKeeps, MoveDeleteRowKeeps,
       MoveInterruptKeeps, MovePowerLossKeeps
  <1>8. reviews \subseteq Projects
    BY DEF MoveInv, MoveTypes, Moving!TypeOK
  <1>9. CASE Moving!BeginReview \/ \E p \in Projects : Moving!EndReview(p)
    <2>1. reviews' \subseteq Projects
      BY <1>8, <1>9, HomeIs DEF Moving!BeginReview, Moving!EndReview, MoveInv
    <2>2. UNCHANGED <<dirs, row, sources, op, written, acked, doomed, half, lost, late>>
      BY <1>9 DEF Moving!BeginReview, Moving!EndReview
    <2> QED
      BY <2>1, <2>2, MoveSame
  <1>10. CASE \E p \in Projects : Moving!Register(p) \/ Moving!Consolidate(p)
    <2>1. PICK p \in Projects : Moving!Register(p) \/ Moving!Consolidate(p)
      BY <1>10
    <2>2. /\ reviews' \subseteq Projects
          /\ Moving!Reviewed(p, "pending") \/ Moving!Reviewed(p, "consolidated")
      BY <1>8, <2>1 DEF Moving!Register, Moving!Consolidate
    <2> QED
      BY <2>2, MoveReviewedKeeps
  <1>7. CASE UNCHANGED Moving!vars
    BY <1>7, <1>8, MoveSame DEF Moving!vars
  <1> QED
    BY <1>1, <1>2, <1>3, <1>4, <1>5, <1>6, <1>7, <1>9, <1>10 DEF Moving!Next

\* The invariant says that all is accounted for.
LEMMA MoveImplies ==
  ASSUME MoveValues, MoveInv
  PROVE  Moving!Accounted
  <1> USE DEF MoveInv
  <1>1. Moving!TypeOK
    BY DEF MoveTypes
  <1>2. Moving!EventsKept
    <2> SUFFICES ASSUME ~doomed, ~lost, NEW e \in acked
                 PROVE  \E home \in Projects :
                          {p \in Projects : e \in Moving!EventsOf(p)} = {home}
      BY Zenon DEF Moving!EventsKept
    <2>1. PICK p \in Projects : e \in Moving!EventsOf(p)
      BY DEF EventsHeld
    <2>2. {q \in Projects : e \in Moving!EventsOf(q)} = {p}
      BY <2>1 DEF EventsOnce
    <2> QED
      BY <2>2
  <1>3. Moving!NumberedByOne
    BY DEF Numbered, Moving!NumberedByOne
  <1>4. Moving!MovesTogether
    <2> SUFFICES ASSUME op = Moving!Idle, ~half
                 PROVE  Moving!Together
      BY DEF Moving!MovesTogether
    <2>1. PICK home \in Projects : TogetherAt(home)
      BY DEF Placed, Moving!Idle
    <2> QED
      BY <2>1 DEF TogetherAt, BoundTo, Moving!Together
  <1> QED
    BY <1>1, <1>2, <1>3, <1>4 DEF Moving!Accounted

\* No step takes a session that is consolidated out of its project, unless late.
LEMMA MoveStays ==
  ASSUME MoveValues, MoveInv, [Moving!Next]_(Moving!vars)
  PROVE  Moving!Stays
  <1> USE DEF MoveInv
  <1> SUFFICES ASSUME NEW p \in Projects, sources[p] = "consolidated", ~doomed'
               PROVE  sources'[p] = "consolidated" \/ p \in late
    BY DEF Moving!Stays
  <1>1. sources \in [Projects -> {"none", "pending", "consolidated"}]
    BY DEF MoveTypes, Moving!TypeOK
  <1>2. CASE sources' = sources
    BY <1>2
  <1>3. CASE Moving!BeginRefresh \/ Moving!MovedRefresh
    <2>1. sources' = [sources EXCEPT ![Moving!Home] = IF @ = "none" THEN "pending" ELSE @]
      BY <1>3 DEF Moving!BeginRefresh, Moving!MovedRefresh, Moving!Refresh
    <2> QED
      BY <1>1, <2>1
  <1>4. CASE Moving!Discard
    <2>1. /\ sources' = [sources EXCEPT ![op.from] = "none"]
          /\ sources[op.from] # "consolidated" \/ op.from \in late
      BY <1>4 DEF Moving!Discard, MoveTypes, MovesFresh
    <2> QED
      BY <1>1, <2>1
  <1>5. CASE \E q \in Projects : Moving!Register(q) \/ Moving!Consolidate(q)
    <2>1. PICK q \in Projects : Moving!Register(q) \/ Moving!Consolidate(q)
      BY <1>5
    <2>2. \/ sources[q] = "none" /\ sources' = [sources EXCEPT ![q] = "pending"]
          \/ sources' = [sources EXCEPT ![q] = "consolidated"]
      BY <2>1 DEF Moving!Register, Moving!Consolidate, Moving!Reviewed
    <2> QED
      BY <1>1, <2>2
  <1>6. CASE Moving!BeginDelete
    BY <1>6 DEF Moving!BeginDelete
  <1>7. CASE UNCHANGED Moving!vars
    BY <1>2, <1>7 DEF Moving!vars
  <1>8. CASE Moving!Next
    BY <1>2, <1>3, <1>4, <1>5, <1>6, <1>8
    DEF Moving!Next, Moving!Rebuild, Moving!RebuildFails, Moving!BeginCreate, Moving!BeginMove,
        Moving!BeginAppend, Moving!CreatedEvent, Moving!Append1, Moving!BeginUpdate,
        Moving!WriteManifest, Moving!UpsertRow, Moving!Rewrite, Moving!RemoveFile,
        Moving!RemoveDir, Moving!DeleteRow, Moving!Interrupt, Moving!PowerLoss,
        Moving!BeginReview, Moving!EndReview
  <1> QED
    BY <1>7, <1>8

\* The invariant, of the behaviours of a suite that are of this part.
MovePart == part = "move" => MoveInv

\* What a run checks of moves, for any projects and constants: no acknowledged event
\* is lost, and unless a move was cut short all of a session is in one project.
\* (sessions/store.py:65-133, 208-266, 376-454, 515-528)
THEOREM NothingIsLostByMoves == MoveValues => (SuiteSpec => []Accounted)
  <1> SUFFICES ASSUME MoveValues
               PROVE  SuiteSpec => []Accounted
    OBVIOUS
  <1>1. SuiteInit => MovePart
    BY MoveInit DEF SuiteInit, MovePart
  <1>2. MovePart /\ [SuiteNext]_suite => MovePart'
    <2> SUFFICES ASSUME part' = "move", MovePart, [SuiteNext]_suite
                 PROVE  MoveInv'
      BY DEF MovePart
    <2>1. part = "move" /\ [Moving!Next]_(Moving!vars)
      <3>1. CASE SuiteNext
        BY <3>1 DEF SuiteNext
      <3>2. CASE UNCHANGED suite
        BY <3>2 DEF suite, places, Moving!vars
      <3> QED
        BY <3>1, <3>2
    <2> QED
      BY <2>1, MoveStep DEF MovePart
  <1>3. MovePart => Accounted
    BY MoveImplies DEF MovePart, Accounted
  <1> QED
    BY <1>1, <1>2, <1>3, PTL DEF SuiteSpec

\* What memory consolidated stays in its project, for any projects and constants: no
\* move, finished or cut short, discards it, unless the review that consolidated it wrote
\* when the session had left. (sessions/store.py:404-407, 452; memory/state.py:436-462)
THEOREM ConsolidatedSessionsStay == MoveValues => (SuiteSpec => ConsolidatedStays)
  <1> SUFFICES ASSUME MoveValues
               PROVE  SuiteSpec => ConsolidatedStays
    OBVIOUS
  <1>1. SuiteInit => MovePart
    BY MoveInit DEF SuiteInit, MovePart
  <1>2. ASSUME [SuiteNext]_suite, part' = "move"
        PROVE  part = "move" /\ [Moving!Next]_(Moving!vars)
    <2>1. CASE SuiteNext
      BY <1>2, <2>1 DEF SuiteNext
    <2>2. CASE UNCHANGED suite
      BY <1>2, <2>2 DEF suite, places, Moving!vars
    <2> QED
      BY <1>2, <2>1, <2>2
  <1>3. MovePart /\ [SuiteNext]_suite => MovePart'
    BY <1>2, MoveStep DEF MovePart
  <1>4. MovePart /\ [SuiteNext]_suite => [part = "move" => Moving!Stays]_suite
    <2> SUFFICES ASSUME MovePart, SuiteNext, part = "move"
                 PROVE  Moving!Stays
      OBVIOUS
    <2>1. Moving!Next
      BY DEF SuiteNext
    <2> QED
      BY <2>1, MoveStays DEF MovePart
  <1> QED
    BY <1>1, <1>3, <1>4, PTL DEF SuiteSpec, ConsolidatedStays

==============================================================================
