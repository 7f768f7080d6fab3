-------------------------- MODULE SessionLogProofs --------------------------
(***************************************************************************)
(* What TLAPS proves of SessionLog for any set of ids, any classification   *)
(* of them and any batch length: the values stay in their types, the log    *)
(* stays well formed and keeps what was acknowledged through failed writes, *)
(* crashes and power losses, the manifest never claims too much or too      *)
(* little, and a fragment is never written over.                            *)
(***************************************************************************)
EXTENDS SessionLog, SequenceTheorems, TLAPS

(* What is known of the operation that is under way, by its next step.     *)

(* The records about to be written continue the log and are new to it, and *)
(* there is no fragment for them to be glued to.                            *)
FreshContinues ==
    pc = "log" =>
        /\ ~torn
        /\ \A i \in DOMAIN fresh : /\ fresh[i].seq = Len(log) + i
                                   /\ fresh[i].id \notin LogIds
        /\ \A i, j \in DOMAIN fresh : fresh[i].id = fresh[j].id => i = j
        /\ IdsOf(request) \subseteq LogIds \cup WrittenIds
        /\ target = Len(log) + Len(fresh)

(* Once they are written, whatever was asked for is in the log.            *)
Writing == {"fsync_log", "manifest", "fsync_manifest", "return"}

RequestWritten ==
    pc \in Writing => /\ IdsOf(request) \subseteq LogIds
                      /\ WrittenIds \subseteq LogIds

(* The part of the log on stable storage, and who relies on it.            *)
SyncedIds == {log[i].id : i \in 1 .. synced}

DurableSynced == durable \subseteq SyncedIds

WrittenSynced ==
    pc \in Writing \ {"fsync_log"} /\ NeedsFsync => WrittenIds \subseteq SyncedIds

(* The manifest about to be written covers the log, and no more than the   *)
(* log unless an earlier power loss left the manifest ahead of it.          *)
TargetCoversLog ==
    /\ pc \in {"fsync_log", "manifest"} => target >= Len(log)
    /\ pc = "fsync_manifest" => manifest >= Len(log)
    /\ pc = "return" /\ IsDurableHandoff => \A m \in surviving : m >= Len(log)

TargetWithinLog ==
    pc \in {"fsync_log", "manifest"} /\ (request = <<>> \/ ~lost) => target <= Len(log)

(* The inductive invariant.                                                *)
IInv ==
    /\ TypeOK
    /\ LogWellFormed
    /\ FreshContinues
    /\ RequestWritten
    /\ DurableSynced
    /\ WrittenSynced
    /\ AckedInLog
    /\ TargetCoversLog
    /\ TargetWithinLog
    /\ ManifestAheadOnlyAfterLoss
    /\ HandoffInManifest

-----------------------------------------------------------------------------
(* What prepare returns: records that are new to the log, all different,   *)
(* numbered from base + 1, which with the log cover the request.            *)
LEMMA PreparedRecords ==
    ASSUME NEW ids \in Seq(Ids), NEW base \in Nat, NEW new \in Prepare(ids, base)
    PROVE  /\ new \in Seq(Record)
           /\ \A i \in DOMAIN new : new[i].seq = base + i /\ new[i].id \notin LogIds
           /\ \A i, j \in DOMAIN new : new[i].id = new[j].id => i = j
           /\ IdsOf(ids) \subseteq LogIds \cup {new[i].id : i \in DOMAIN new}
<1>1. PICK s \in Selected(ids) : new = [i \in DOMAIN s |-> [id |-> s[i], seq |-> base + i]]
  BY DEF Prepare
<1>2. Len(ids) \in Nat
  BY LenProperties
<1>3. PICK n \in 0 .. Len(ids) : s \in [1 .. n -> Ids]
  BY <1>1 DEF Selected
<1>4. n \in Nat /\ DOMAIN s = 1 .. n /\ DOMAIN new = 1 .. n
  BY <1>1, <1>2, <1>3
<1>5. \A i \in 1 .. n : new[i] = [id |-> s[i], seq |-> base + i] /\ s[i] \in Ids
  BY <1>1, <1>3, <1>4
<1>6. new \in Seq(Record)
  <2>1. \A i \in 1 .. n : new[i] \in Record
    BY <1>4, <1>5 DEF Record
  <2>2. new \in [1 .. n -> Record]
    BY <1>1, <1>4, <2>1
  <2> QED
    BY <1>4, <2>2, SeqDef
<1>7. IdsOf(s) = IdsOf(ids) \ LogIds
  BY <1>1 DEF Selected
<1>8. \A i, j \in 1 .. n : i < j => s[i] # s[j]
  BY <1>1, <1>4 DEF Selected
<1>9. \A i \in 1 .. n : new[i].seq = base + i /\ new[i].id \notin LogIds
  BY <1>4, <1>5, <1>7, SMTT(30) DEF IdsOf
<1>10. \A i, j \in 1 .. n : new[i].id = new[j].id => i = j
  BY <1>4, <1>5, <1>8
<1>11. IdsOf(ids) \subseteq LogIds \cup {new[i].id : i \in 1 .. n}
  <2>1. \A i \in 1 .. n : new[i].id = s[i]
    BY <1>4, <1>5
  <2> QED
    BY <1>4, <1>7, <2>1 DEF IdsOf
<1> QED
  BY <1>4, <1>6, <1>9, <1>10, <1>11

(* A write that stops after any number of the prepared records leaves a    *)
(* well formed log whose beginning is the old one.                          *)
LEMMA WrittenPart ==
    ASSUME TypeOK, LogWellFormed, FreshContinues, pc = "log",
           NEW k \in 0 .. Len(fresh), log' = log \o SubSeq(fresh, 1, k)
    PROVE  /\ log' \in Seq(Record)
           /\ Len(log') = Len(log) + k
           /\ \A i \in 1 .. Len(log) : log'[i] = log[i]
           /\ \A i \in 1 .. k : log'[Len(log) + i] = fresh[i]
           /\ LogWellFormed'
<1> DEFINE part == SubSeq(fresh, 1, k)
<1>1. /\ log \in Seq(Record) /\ fresh \in Seq(Record)
      /\ Len(log) \in Nat /\ Len(fresh) \in Nat /\ k \in Nat
      /\ DOMAIN log = 1 .. Len(log) /\ DOMAIN fresh = 1 .. Len(fresh)
  BY LenProperties DEF TypeOK
<1>2. \A i \in 1 .. k : fresh[i] \in Record
  BY <1>1, ElementOfSeq
<1>3. /\ part \in Seq(Record)
      /\ Len(part) = k
      /\ \A i \in 1 .. k : part[i] = fresh[i]
  BY <1>1, <1>2, SubSeqProperties
<1> HIDE DEF part
<1>4. /\ log' \in Seq(Record)
      /\ Len(log') = Len(log) + k
      /\ \A i \in 1 .. Len(log) + k :
            log'[i] = IF i <= Len(log) THEN log[i] ELSE part[i - Len(log)]
  BY <1>1, <1>3, ConcatProperties DEF part
<1>5. \A i \in 1 .. Len(log) : log'[i] = log[i]
  BY <1>1, <1>4
<1>6. \A i \in 1 .. k : log'[Len(log) + i] = fresh[i]
  BY <1>1, <1>3, <1>4
<1>7. DOMAIN log' = 1 .. Len(log) + k
  BY <1>4, LenProperties
<1>8. \A i \in 1 .. Len(log) + k :
         \/ i \in 1 .. Len(log) /\ log'[i] = log[i]
         \/ \E a \in 1 .. k : i = Len(log) + a /\ log'[i] = fresh[a]
  <2> TAKE i \in 1 .. Len(log) + k
  <2>1. CASE i <= Len(log)
    BY <1>1, <1>5, <2>1
  <2>2. CASE i > Len(log)
    <3>1. i - Len(log) \in 1 .. k /\ i = Len(log) + (i - Len(log))
      BY <1>1, <2>2
    <3> QED
      BY <1>6, <3>1
  <2> QED
    BY <1>1, <2>1, <2>2
<1>9. \A i \in DOMAIN log' : log'[i].seq = i
  BY <1>1, <1>7, <1>8, SMTT(30) DEF LogWellFormed, FreshContinues
<1>10. ASSUME NEW i \in DOMAIN log', NEW j \in DOMAIN log', log'[i].id = log'[j].id
       PROVE  i = j
  <2>0. \A a \in 1 .. k : a \in DOMAIN fresh
    BY <1>1
  <2>1. \A a \in 1 .. k, b \in 1 .. Len(log) : fresh[a].id # log[b].id
    <3>1. \A b \in 1 .. Len(log) : log[b].id \in LogIds
      BY <1>1 DEF LogIds
    <3>2. \A a \in DOMAIN fresh : fresh[a].id \notin LogIds
      BY DEF FreshContinues
    <3>3. \A a \in 1 .. k : fresh[a].id \notin LogIds
      BY <2>0, <3>2
    <3> QED
      BY <3>1, <3>3
  <2>2. \A a, b \in 1 .. k : fresh[a].id = fresh[b].id => a = b
    <3>1. \A a, b \in DOMAIN fresh : fresh[a].id = fresh[b].id => a = b
      BY DEF FreshContinues
    <3> QED
      BY <2>0, <3>1
  <2>3. \A a, b \in 1 .. Len(log) : log[a].id = log[b].id => a = b
    BY <1>1 DEF LogWellFormed
  <2>4. /\ \/ i \in 1 .. Len(log) /\ log'[i] = log[i]
           \/ \E a \in 1 .. k : i = Len(log) + a /\ log'[i] = fresh[a]
        /\ \/ j \in 1 .. Len(log) /\ log'[j] = log[j]
           \/ \E a \in 1 .. k : j = Len(log) + a /\ log'[j] = fresh[a]
    BY <1>7, <1>8
  <2>5. CASE i \in 1 .. Len(log) /\ log'[i] = log[i]
    BY <1>10, <2>1, <2>3, <2>4, <2>5
  <2>6. CASE \E a \in 1 .. k : i = Len(log) + a /\ log'[i] = fresh[a]
    BY <1>10, <2>1, <2>2, <2>4, <2>6
  <2> QED
    BY <2>4, <2>5, <2>6
<1> QED
  BY <1>4, <1>5, <1>6, <1>9, <1>10 DEF LogWellFormed

(* A cut leaves a well formed beginning of the log.                        *)
LEMMA CutLog ==
    ASSUME TypeOK, LogWellFormed, NEW k \in 0 .. Len(log), log' = SubSeq(log, 1, k)
    PROVE  /\ log' \in Seq(Record)
           /\ Len(log') = k
           /\ DOMAIN log' = 1 .. k
           /\ \A i \in 1 .. k : log'[i] = log[i]
           /\ LogWellFormed'
<1>1. /\ log \in Seq(Record) /\ Len(log) \in Nat /\ k \in Nat
      /\ DOMAIN log = 1 .. Len(log)
  BY LenProperties DEF TypeOK
<1>2. \A i \in 1 .. k : log[i] \in Record
  BY <1>1, ElementOfSeq
<1>3. /\ log' \in Seq(Record)
      /\ Len(log') = k
      /\ \A i \in 1 .. k : log'[i] = log[i]
  BY <1>1, <1>2, SubSeqProperties
<1>4. DOMAIN log' = 1 .. k
  BY <1>3, LenProperties
<1>5. LogWellFormed'
  BY <1>1, <1>3, <1>4 DEF LogWellFormed
<1> QED
  BY <1>3, <1>4, <1>5

(* In a well formed log the last number is the length.                     *)
LEMMA LastSeqIsLength ==
    ASSUME TypeOK, LogWellFormed
    PROVE  /\ Len(log) \in Nat
           /\ DOMAIN log = 1 .. Len(log)
           /\ LastSeq = Len(log)
           /\ Base \in Nat
           /\ Base >= Len(log)
           /\ manifest <= Len(log) => Base = Len(log)
<1>1. log \in Seq(Record) /\ Len(log) \in Nat /\ DOMAIN log = 1 .. Len(log) /\ manifest \in Nat
  BY LenProperties DEF TypeOK
<1>2. LastSeq = Len(log)
  <2>1. CASE log = <<>>
    BY <2>1 DEF LastSeq
  <2>2. CASE log # <<>>
    <3>1. Len(log) \in DOMAIN log
      BY <1>1, <2>2, EmptySeq
    <3> QED
      BY <2>2, <3>1 DEF LastSeq, LogWellFormed
  <2> QED
    BY <2>1, <2>2
<1>3. Base = IF manifest > Len(log) THEN manifest ELSE Len(log)
  BY <1>2 DEF Base
<1>4. CASE manifest > Len(log)
  <2>1. Base = manifest
    BY <1>3, <1>4
  <2>2. Base \in Nat /\ Base >= Len(log)
    BY <1>1, <1>4, <2>1
  <2>3. ~(manifest <= Len(log))
    BY <1>1, <1>4
  <2> QED
    BY <1>1, <1>2, <2>2, <2>3
<1>5. CASE ~(manifest > Len(log))
  <2>1. Base = Len(log)
    BY <1>3, <1>5
  <2> QED
    BY <1>1, <1>2, <1>5, <2>1
<1> QED
  BY <1>4, <1>5
-----------------------------------------------------------------------------
LEMMA InitEstablishes == Init => IInv
<1> SUFFICES ASSUME Init PROVE IInv
  OBVIOUS
<1>1. log = <<>> /\ Len(log) = 0 /\ DOMAIN log = {}
  BY EmptySeq DEF Init
<1>2. TypeOK
  <2>1. log \in Seq(Record) /\ request \in Seq(Ids) /\ fresh \in Seq(Record)
    BY EmptySeq DEF Init
  <2>2. synced \in 0 .. Len(log)
    BY <1>1 DEF Init
  <2>3. torn \in BOOLEAN /\ lost \in BOOLEAN
    BY Zenon DEF Init
  <2>4. /\ manifest \in Nat /\ target \in Nat /\ surviving \subseteq Nat
        /\ acked \subseteq Ids /\ durable \subseteq Ids
        /\ pc \in {"idle", "log", "fsync_log", "manifest", "fsync_manifest", "return"}
    BY DEF Init
  <2> QED
    BY <2>1, <2>2, <2>3, <2>4 DEF TypeOK
<1>3. LogWellFormed
  BY <1>1 DEF LogWellFormed
<1>4. FreshContinues /\ RequestWritten /\ WrittenSynced
  BY DEF Init, FreshContinues, RequestWritten, WrittenSynced, Writing
<1>5. DurableSynced /\ AckedInLog
  BY DEF Init, DurableSynced, AckedInLog
<1>6. TargetCoversLog /\ TargetWithinLog
  BY DEF Init, TargetCoversLog, TargetWithinLog
<1>7. ManifestAheadOnlyAfterLoss
  BY <1>1 DEF Init, ManifestAheadOnlyAfterLoss
<1>8. HandoffInManifest
  BY <1>1 DEF HandoffInManifest
<1> QED
  BY <1>2, <1>3, <1>4, <1>5, <1>6, <1>7, <1>8 DEF IInv

(* What a step that leaves the log and what was promised of it alone keeps.*)
LEMMA LogUntouched ==
    ASSUME IInv, log' = log, durable' = durable, synced' \in synced .. Len(log)
    PROVE  LogWellFormed' /\ DurableSynced' /\ LogIds' = LogIds
<1>1. LogWellFormed' /\ LogIds' = LogIds
  BY DEF IInv, LogWellFormed, LogIds
<1>2. Len(log) \in Nat /\ synced \in 0 .. Len(log)
  BY LenProperties DEF IInv, TypeOK
<1>3. SyncedIds \subseteq SyncedIds'
  BY <1>2 DEF SyncedIds
<1>4. DurableSynced'
  BY <1>3 DEF IInv, DurableSynced
<1> QED
  BY <1>1, <1>4

LEMMA BatchIsRequest ==
    ASSUME NEW ids \in Batches
    PROVE  ids \in Seq(Ids) /\ ids # <<>>
<1>1. PICK n \in 1 .. MaxBatch : ids \in [1 .. n -> Ids]
  BY DEF Batches
<1>2. n \in Nat /\ n >= 1
  BY <1>1, SessionLogAssumption
<1>3. ids \in Seq(Ids)
  BY <1>1, <1>2, SeqDef
<1>4. 1 \in DOMAIN ids
  BY <1>1, <1>2
<1> QED
  BY <1>3, <1>4

LEMMA BeginAppendKeeps ==
    ASSUME IInv, NEW ids \in Batches, BeginAppend(ids)
    PROVE  IInv'
<1> USE DEF IInv
<1>1. ids \in Seq(Ids) /\ ids # <<>>
  BY BatchIsRequest
<1>2. /\ Len(log) \in Nat /\ DOMAIN log = 1 .. Len(log)
      /\ LastSeq = Len(log) /\ Base \in Nat
  BY LastSeqIsLength
<1>3. PICK new \in Prepare(ids, Base) :
         ContinuesLog /\ fresh' = new /\ target' = Base + Len(new)
  BY DEF BeginAppend
<1>4. Base = Len(log)
  BY <1>2, <1>3 DEF ContinuesLog
<1>5. /\ new \in Seq(Record)
      /\ \A i \in DOMAIN new : new[i].seq = Base + i /\ new[i].id \notin LogIds
      /\ \A i, j \in DOMAIN new : new[i].id = new[j].id => i = j
      /\ IdsOf(ids) \subseteq LogIds \cup {new[i].id : i \in DOMAIN new}
  BY <1>1, <1>2, <1>3, PreparedRecords
<1>6. /\ ~torn /\ pc' = "log" /\ request' = ids
      /\ UNCHANGED <<log, torn, manifest, synced, surviving, acked, durable, lost>>
  BY DEF BeginAppend, Readable, disk
<1>7. LogWellFormed' /\ DurableSynced' /\ LogIds' = LogIds
  <2>1. synced' \in synced .. Len(log)
    BY <1>2, <1>6 DEF TypeOK
  <2> QED
    BY <1>6, <2>1, LogUntouched
<1>8. Len(new) \in Nat
  BY <1>5, LenProperties
<1>9. TypeOK'
  BY <1>1, <1>2, <1>3, <1>5, <1>6, <1>8 DEF TypeOK
<1>10. FreshContinues'
  BY <1>2, <1>3, <1>4, <1>5, <1>6, <1>7 DEF FreshContinues, WrittenIds
<1>11. RequestWritten' /\ WrittenSynced' /\ TargetWithinLog'
  BY <1>6 DEF RequestWritten, WrittenSynced, TargetWithinLog, Writing
<1>12. TargetCoversLog'
  BY <1>6 DEF TargetCoversLog
<1>13. AckedInLog' /\ ManifestAheadOnlyAfterLoss' /\ HandoffInManifest'
  BY <1>6, <1>7 DEF AckedInLog, ManifestAheadOnlyAfterLoss, HandoffInManifest
<1> QED
  BY <1>7, <1>9, <1>10, <1>11, <1>12, <1>13

LEMMA BeginRepeatKeeps ==
    ASSUME IInv, NEW ids \in Batches, BeginRepeat(ids)
    PROVE  IInv'
<1> USE DEF IInv
<1>1. ids \in Seq(Ids) /\ ids # <<>>
  BY BatchIsRequest
<1>2. /\ Len(log) \in Nat /\ DOMAIN log = 1 .. Len(log)
      /\ Base \in Nat /\ Base >= Len(log)
  BY LastSeqIsLength
<1>3. /\ pc' = "manifest" /\ request' = ids /\ fresh' = <<>> /\ target' = Base
      /\ IdsOf(ids) \subseteq LogIds
      /\ UNCHANGED <<log, torn, manifest, synced, surviving, acked, durable, lost>>
  BY DEF BeginRepeat, disk
<1>4. LogWellFormed' /\ DurableSynced' /\ LogIds' = LogIds
  <2>1. synced' \in synced .. Len(log)
    BY <1>2, <1>3 DEF TypeOK
  <2> QED
    BY <1>3, <2>1, LogUntouched
<1>5. WrittenIds' = {}
  BY <1>3 DEF WrittenIds
<1>6. TypeOK'
  BY <1>1, <1>2, <1>3, EmptySeq DEF TypeOK
<1>7. FreshContinues' /\ RequestWritten' /\ WrittenSynced'
  BY <1>3, <1>4, <1>5 DEF FreshContinues, RequestWritten, WrittenSynced
<1>8. TargetCoversLog'
  BY <1>2, <1>3 DEF TargetCoversLog
<1>9. TargetWithinLog'
  <2>1. ASSUME ~lost PROVE Base = Len(log)
    <3>1. ~(manifest > Len(log)) /\ manifest \in Nat
      BY <2>1 DEF TypeOK, ManifestAheadOnlyAfterLoss
    <3>2. manifest <= Len(log)
      BY <1>2, <3>1
    <3> QED
      BY <3>2, LastSeqIsLength
  <2> QED
    BY <1>1, <1>2, <1>3, <2>1 DEF TargetWithinLog
<1>10. AckedInLog' /\ ManifestAheadOnlyAfterLoss' /\ HandoffInManifest'
  BY <1>3, <1>4 DEF AckedInLog, ManifestAheadOnlyAfterLoss, HandoffInManifest
<1> QED
  BY <1>4, <1>6, <1>7, <1>8, <1>9, <1>10

LEMMA BeginRefreshKeeps ==
    ASSUME IInv, BeginRefresh
    PROVE  IInv'
<1> USE DEF IInv
<1>1. Len(log) \in Nat /\ DOMAIN log = 1 .. Len(log) /\ LastSeq = Len(log)
  BY LastSeqIsLength
<1>2. /\ pc' = "manifest" /\ request' = <<>> /\ fresh' = <<>>
      /\ target' = LastSeq /\ synced' = Len(log)
      /\ UNCHANGED <<log, torn, manifest, surviving, acked, durable, lost>>
  BY DEF BeginRefresh
<1>3. LogWellFormed' /\ DurableSynced' /\ LogIds' = LogIds
  <2>1. synced' \in synced .. Len(log)
    BY <1>1, <1>2 DEF TypeOK
  <2> QED
    BY <1>2, <2>1, LogUntouched
<1>4. WrittenIds' = {} /\ IdsOf(request') = {}
  BY <1>2 DEF WrittenIds, IdsOf
<1>5. TypeOK'
  BY <1>1, <1>2, EmptySeq DEF TypeOK
<1>6. FreshContinues' /\ RequestWritten' /\ WrittenSynced'
  BY <1>2, <1>4 DEF FreshContinues, RequestWritten, WrittenSynced
<1>7. TargetCoversLog' /\ TargetWithinLog'
  BY <1>1, <1>2 DEF TargetCoversLog, TargetWithinLog
<1>8. AckedInLog' /\ ManifestAheadOnlyAfterLoss' /\ HandoffInManifest'
  BY <1>2, <1>3 DEF AckedInLog, ManifestAheadOnlyAfterLoss, HandoffInManifest
<1> QED
  BY <1>3, <1>5, <1>6, <1>7, <1>8

(* The log grows by any number of the prepared records: the old log is its *)
(* beginning, so what was found by its place is found there still.          *)
LEMMA ExtensionKeeps ==
    ASSUME IInv, pc = "log",
           NEW k \in 0 .. Len(fresh), log' = log \o SubSeq(fresh, 1, k),
           UNCHANGED <<manifest, synced, surviving, acked, durable, lost>>
    PROVE  /\ log' \in Seq(Record)
           /\ Len(log') = Len(log) + k
           /\ synced' \in 0 .. Len(log')
           /\ LogIds \subseteq LogIds'
           /\ \A a \in 1 .. k : fresh[a].id \in LogIds'
           /\ LogWellFormed' /\ DurableSynced' /\ AckedInLog'
           /\ ManifestAheadOnlyAfterLoss' /\ HandoffInManifest'
<1> USE DEF IInv
<1>1. /\ Len(log) \in Nat /\ Len(fresh) \in Nat /\ k \in Nat
      /\ DOMAIN log = 1 .. Len(log) /\ DOMAIN fresh = 1 .. Len(fresh)
      /\ synced \in 0 .. Len(log) /\ manifest \in Nat
  BY LenProperties DEF TypeOK
<1>2. /\ log' \in Seq(Record)
      /\ Len(log') = Len(log) + k
      /\ \A i \in 1 .. Len(log) : log'[i] = log[i]
      /\ \A i \in 1 .. k : log'[Len(log) + i] = fresh[i]
      /\ LogWellFormed'
  BY WrittenPart
<1>3. DOMAIN log' = 1 .. Len(log) + k
  BY <1>2, LenProperties
<1>4. synced' \in 0 .. Len(log')
  BY <1>1, <1>2
<1>5. LogIds \subseteq LogIds'
  BY <1>1, <1>2, <1>3 DEF LogIds
<1>6. ASSUME NEW a \in 1 .. k
      PROVE  fresh[a].id \in LogIds'
  <2>1. Len(log) + a \in DOMAIN log' /\ log'[Len(log) + a].id = fresh[a].id
    BY <1>1, <1>2, <1>3
  <2> QED
    BY <2>1 DEF LogIds
<1>7. DurableSynced'
  <2>1. \A i \in 1 .. synced : log'[i] = log[i]
    BY <1>1, <1>2
  <2>2. SyncedIds' = SyncedIds
    BY <2>1 DEF SyncedIds
  <2> QED
    BY <2>2 DEF DurableSynced
<1>8. AckedInLog'
  BY <1>5 DEF AckedInLog
<1>9. ManifestAheadOnlyAfterLoss'
  <2>1. ASSUME manifest > Len(log') PROVE manifest > Len(log)
    BY <1>1, <1>2, <2>1
  <2> QED
    BY <2>1 DEF ManifestAheadOnlyAfterLoss
<1>10. HandoffInManifest'
  <2> SUFFICES ASSUME NEW i \in DOMAIN log', log'[i].id \in durable \cap Handoffs
               PROVE  \A m \in surviving : m >= i
    BY DEF HandoffInManifest
  <2>1. CASE i <= Len(log)
    <3>1. i \in DOMAIN log /\ log'[i] = log[i]
      BY <1>1, <1>2, <1>3, <2>1
    <3> QED
      BY <3>1 DEF HandoffInManifest
  <2>2. CASE i > Len(log)
    <3>1. i - Len(log) \in 1 .. k /\ i = Len(log) + (i - Len(log))
      BY <1>1, <1>3, <2>2
    <3>2. i - Len(log) \in DOMAIN fresh
      BY <1>1, <3>1
    <3>3. log'[i] = fresh[i - Len(log)]
      BY <1>2, <3>1
    <3>4. log'[i].id \notin LogIds
      BY <3>2, <3>3 DEF FreshContinues
    <3>5. durable \subseteq LogIds
      BY <1>1 DEF DurableSynced, SyncedIds, LogIds
    <3> QED
      BY <3>4, <3>5
  <2> QED
    BY <1>1, <1>3, <2>1, <2>2
<1> QED
  BY <1>2, <1>4, <1>5, <1>6, <1>7, <1>8, <1>9, <1>10

LEMMA WriteLogKeeps ==
    ASSUME IInv, WriteLog
    PROVE  IInv'
<1> USE DEF IInv
<1>1. /\ pc = "log" /\ log' = log \o fresh
      /\ pc' = IF NeedsFsync THEN "fsync_log" ELSE "manifest"
      /\ UNCHANGED <<torn, manifest, synced, surviving, request, fresh, target,
                     acked, durable, lost>>
  BY DEF WriteLog, call
<1>2. /\ Len(log) \in Nat /\ Len(fresh) \in Nat /\ fresh \in Seq(Record)
      /\ DOMAIN fresh = 1 .. Len(fresh)
  BY LenProperties DEF TypeOK
<1>3. log' = log \o SubSeq(fresh, 1, Len(fresh)) /\ Len(fresh) \in 0 .. Len(fresh)
  BY <1>1, <1>2, SubSeqFull
<1>4. /\ log' \in Seq(Record)
      /\ Len(log') = Len(log) + Len(fresh)
      /\ synced' \in 0 .. Len(log')
      /\ LogIds \subseteq LogIds'
      /\ \A a \in 1 .. Len(fresh) : fresh[a].id \in LogIds'
      /\ LogWellFormed' /\ DurableSynced' /\ AckedInLog'
      /\ ManifestAheadOnlyAfterLoss' /\ HandoffInManifest'
  BY <1>1, <1>3, ExtensionKeeps
<1>5. WrittenIds' = WrittenIds /\ WrittenIds \subseteq LogIds'
  BY <1>1, <1>2, <1>4 DEF WrittenIds
<1>6. TypeOK'
  BY <1>1, <1>4 DEF TypeOK
<1>7. FreshContinues'
  BY <1>1 DEF FreshContinues
<1>8. RequestWritten'
  BY <1>1, <1>4, <1>5 DEF FreshContinues, RequestWritten
<1>9. WrittenSynced'
  BY <1>1, <1>5 DEF WrittenSynced, Writing, NeedsFsync
<1>10. TargetCoversLog' /\ TargetWithinLog'
  <2>1. target' = Len(log')
    BY <1>1, <1>4 DEF FreshContinues
  <2>2. target' >= Len(log') /\ target' <= Len(log')
    BY <1>2, <1>4, <2>1
  <2> QED
    BY <1>1, <2>2 DEF TargetCoversLog, TargetWithinLog
<1> QED
  BY <1>4, <1>6, <1>7, <1>8, <1>9, <1>10

LEMMA FsyncLogKeeps ==
    ASSUME IInv, FsyncLog
    PROVE  IInv'
<1> USE DEF IInv
<1>1. /\ pc = "fsync_log" /\ pc' = "manifest" /\ synced' = Len(log)
      /\ UNCHANGED <<log, torn, manifest, surviving, request, fresh, target,
                     acked, durable, lost>>
  BY DEF FsyncLog, call
<1>2. Len(log) \in Nat /\ DOMAIN log = 1 .. Len(log) /\ synced \in 0 .. Len(log)
  BY LenProperties DEF TypeOK
<1>3. LogWellFormed' /\ DurableSynced' /\ LogIds' = LogIds
  <2>1. synced' \in synced .. Len(log)
    BY <1>1, <1>2
  <2> QED
    BY <1>1, <2>1, LogUntouched
<1>4. WrittenIds' = WrittenIds /\ SyncedIds' = LogIds
  BY <1>1, <1>2 DEF WrittenIds, SyncedIds, LogIds
<1>5. TypeOK'
  BY <1>1, <1>2 DEF TypeOK
<1>6. FreshContinues' /\ RequestWritten' /\ WrittenSynced'
  BY <1>1, <1>3, <1>4 DEF FreshContinues, RequestWritten, WrittenSynced, Writing
<1>7. TargetCoversLog' /\ TargetWithinLog'
  BY <1>1 DEF TargetCoversLog, TargetWithinLog
<1>8. AckedInLog' /\ ManifestAheadOnlyAfterLoss' /\ HandoffInManifest'
  BY <1>1, <1>3 DEF AckedInLog, ManifestAheadOnlyAfterLoss, HandoffInManifest
<1> QED
  BY <1>3, <1>5, <1>6, <1>7, <1>8

LEMMA WriteManifestKeeps ==
    ASSUME IInv, WriteManifest
    PROVE  IInv'
<1> USE DEF IInv
<1>1. /\ pc = "manifest"
      /\ pc' = IF IsDurableHandoff THEN "fsync_manifest" ELSE "return"
      /\ manifest' = target /\ surviving' = surviving \cup {target}
      /\ lost' = (lost /\ request # <<>>)
      /\ UNCHANGED <<log, torn, synced, request, fresh, target, acked, durable>>
  BY DEF WriteManifest, call
<1>2. /\ Len(log) \in Nat /\ DOMAIN log = 1 .. Len(log) /\ synced \in 0 .. Len(log)
      /\ target \in Nat
  BY LenProperties DEF TypeOK
<1>3. LogWellFormed' /\ DurableSynced' /\ LogIds' = LogIds
  <2>1. synced' \in synced .. Len(log)
    BY <1>1, <1>2
  <2> QED
    BY <1>1, <2>1, LogUntouched
<1>4. /\ WrittenIds' = WrittenIds /\ SyncedIds' = SyncedIds
      /\ NeedsFsync' = NeedsFsync /\ IsDurableHandoff' = IsDurableHandoff
  BY <1>1 DEF WrittenIds, SyncedIds, NeedsFsync, IsDurableHandoff
<1>5. TypeOK'
  <2>1. lost' \in BOOLEAN /\ torn' \in BOOLEAN
    BY <1>1, Zenon DEF TypeOK
  <2> QED
    BY <1>1, <1>2, <2>1 DEF TypeOK
<1>6. FreshContinues' /\ RequestWritten' /\ WrittenSynced'
  BY <1>1, <1>3, <1>4 DEF FreshContinues, RequestWritten, WrittenSynced, Writing
<1>7. target >= Len(log)
  BY <1>1 DEF TargetCoversLog
<1>8. TargetCoversLog' /\ TargetWithinLog'
  BY <1>1, <1>4, <1>7 DEF TargetCoversLog, TargetWithinLog
<1>9. AckedInLog'
  BY <1>1, <1>3 DEF AckedInLog
<1>10. ManifestAheadOnlyAfterLoss'
  <2>1. CASE request = <<>> \/ ~lost
    <3>1. ~(target > Len(log))
      BY <1>1, <1>2, <2>1 DEF TargetWithinLog
    <3> QED
      BY <1>1, <3>1 DEF ManifestAheadOnlyAfterLoss
  <2>2. CASE lost /\ request # <<>>
    BY <1>1, <2>2 DEF ManifestAheadOnlyAfterLoss
  <2> QED
    BY <2>1, <2>2
<1>11. HandoffInManifest'
  <2>1. \A i \in DOMAIN log : target >= i
    BY <1>2, <1>7
  <2> QED
    BY <1>1, <2>1 DEF HandoffInManifest
<1> QED
  BY <1>3, <1>5, <1>6, <1>8, <1>9, <1>10, <1>11

LEMMA FsyncManifestKeeps ==
    ASSUME IInv, FsyncManifest
    PROVE  IInv'
<1> USE DEF IInv
<1>1. /\ pc = "fsync_manifest" /\ pc' = "return" /\ surviving' = {manifest}
      /\ UNCHANGED <<log, torn, manifest, synced, request, fresh, target,
                     acked, durable, lost>>
  BY DEF FsyncManifest, call
<1>2. /\ Len(log) \in Nat /\ DOMAIN log = 1 .. Len(log) /\ synced \in 0 .. Len(log)
      /\ manifest \in Nat
  BY LenProperties DEF TypeOK
<1>3. LogWellFormed' /\ DurableSynced' /\ LogIds' = LogIds
  <2>1. synced' \in synced .. Len(log)
    BY <1>1, <1>2
  <2> QED
    BY <1>1, <2>1, LogUntouched
<1>4. /\ WrittenIds' = WrittenIds /\ SyncedIds' = SyncedIds
      /\ NeedsFsync' = NeedsFsync
  BY <1>1 DEF WrittenIds, SyncedIds, NeedsFsync
<1>5. TypeOK'
  BY <1>1, <1>2 DEF TypeOK
<1>6. FreshContinues' /\ RequestWritten' /\ WrittenSynced'
  BY <1>1, <1>3, <1>4 DEF FreshContinues, RequestWritten, WrittenSynced, Writing
<1>7. manifest >= Len(log)
  BY <1>1 DEF TargetCoversLog
<1>8. TargetCoversLog' /\ TargetWithinLog'
  BY <1>1, <1>7 DEF TargetCoversLog, TargetWithinLog
<1>9. AckedInLog' /\ ManifestAheadOnlyAfterLoss'
  BY <1>1, <1>3 DEF AckedInLog, ManifestAheadOnlyAfterLoss
<1>10. HandoffInManifest'
  <2>1. \A i \in DOMAIN log : manifest >= i
    BY <1>2, <1>7
  <2> QED
    BY <1>1, <2>1 DEF HandoffInManifest
<1> QED
  BY <1>3, <1>5, <1>6, <1>8, <1>9, <1>10

LEMMA ReturnKeeps ==
    ASSUME IInv, Return
    PROVE  IInv'
<1> USE DEF IInv
<1>1. /\ pc = "return" /\ pc' = "idle"
      /\ acked' = acked \cup IdsOf(request)
      /\ durable' = IF NeedsFsync THEN durable \cup WrittenIds ELSE durable
      /\ request' = <<>> /\ fresh' = <<>> /\ target' = 0
      /\ UNCHANGED <<log, torn, manifest, synced, surviving, lost>>
  BY DEF Return, CallEnds, disk
<1>2. /\ Len(log) \in Nat /\ DOMAIN log = 1 .. Len(log) /\ synced \in 0 .. Len(log)
  BY LenProperties DEF TypeOK
<1>3. /\ LogIds' = LogIds /\ SyncedIds' = SyncedIds /\ LogWellFormed'
      /\ LogIds \subseteq Ids
  <2>1. \A i \in 1 .. Len(log) : log[i].id \in Ids
    <3>1. \A i \in 1 .. Len(log) : log[i] \in Record
      BY ElementOfSeq DEF TypeOK
    <3> QED
      BY <3>1 DEF Record
  <2> QED
    BY <1>1, <1>2, <2>1 DEF LogIds, SyncedIds, LogWellFormed
<1>4. IdsOf(request) \subseteq LogIds /\ WrittenIds \subseteq LogIds
  BY <1>1 DEF RequestWritten, Writing
<1>5. TypeOK'
  BY <1>1, <1>2, <1>3, <1>4, EmptySeq DEF TypeOK
<1>6. FreshContinues' /\ RequestWritten' /\ WrittenSynced'
  BY <1>1 DEF FreshContinues, RequestWritten, WrittenSynced, Writing
<1>7. TargetCoversLog' /\ TargetWithinLog'
  BY <1>1 DEF TargetCoversLog, TargetWithinLog
<1>8. DurableSynced'
  BY <1>1, <1>3 DEF DurableSynced, WrittenSynced, Writing
<1>9. AckedInLog' /\ ManifestAheadOnlyAfterLoss'
  BY <1>1, <1>3, <1>4 DEF AckedInLog, ManifestAheadOnlyAfterLoss
<1>10. HandoffInManifest'
  <2> SUFFICES ASSUME NEW i \in DOMAIN log, log[i].id \in durable' \cap Handoffs,
                      NEW m \in surviving
               PROVE  m >= i
    BY <1>1 DEF HandoffInManifest
  <2>1. CASE log[i].id \in durable
    BY <2>1 DEF HandoffInManifest
  <2>2. CASE log[i].id \notin durable
    <3>1. IsDurableHandoff
      BY <1>1, <2>2 DEF IsDurableHandoff
    <3>2. m >= Len(log) /\ m \in Nat
      BY <1>1, <3>1 DEF TargetCoversLog, TypeOK
    <3> QED
      BY <1>2, <3>2
  <2> QED
    BY <2>1, <2>2
<1> QED
  BY <1>3, <1>5, <1>6, <1>7, <1>8, <1>9, <1>10

LEMMA InterruptKeeps ==
    ASSUME IInv, Interrupt
    PROVE  IInv'
<1> USE DEF IInv
<1>1. /\ pc' = "idle" /\ request' = <<>> /\ fresh' = <<>> /\ target' = 0
      /\ UNCHANGED <<manifest, synced, surviving, acked, durable, lost>>
  BY DEF Interrupt, CallEnds
<1>2. torn' \in BOOLEAN
  <2>1. CASE torn' = torn
    BY <2>1 DEF TypeOK
  <2>2. CASE \E k \in 0 .. Len(fresh) : torn' \in BOOLEAN
    BY <2>2
  <2> QED
    BY <2>1, <2>2 DEF Interrupt
<1>3. /\ log' \in Seq(Record) /\ synced' \in 0 .. Len(log')
      /\ LogWellFormed' /\ DurableSynced' /\ AckedInLog'
      /\ ManifestAheadOnlyAfterLoss' /\ HandoffInManifest'
  <2>1. CASE pc = "log"
    <3>1. PICK k \in 0 .. Len(fresh) : log' = log \o SubSeq(fresh, 1, k)
      BY <2>1 DEF Interrupt
    <3> QED
      BY <1>1, <2>1, <3>1, ExtensionKeeps
  <2>2. CASE pc # "log"
    <3>1. log' = log
      BY <2>2 DEF Interrupt
    <3>2. LogWellFormed' /\ DurableSynced' /\ LogIds' = LogIds
      <4>1. synced' \in synced .. Len(log)
        BY <1>1, LenProperties DEF TypeOK
      <4> QED
        BY <1>1, <3>1, <4>1, LogUntouched
    <3> QED
      BY <1>1, <3>1, <3>2
      DEF TypeOK, AckedInLog, ManifestAheadOnlyAfterLoss, HandoffInManifest
  <2> QED
    BY <2>1, <2>2
<1>4. TypeOK'
  BY <1>1, <1>2, <1>3, EmptySeq DEF TypeOK
<1>5. FreshContinues' /\ RequestWritten' /\ WrittenSynced'
  BY <1>1 DEF FreshContinues, RequestWritten, WrittenSynced, Writing
<1>6. TargetCoversLog' /\ TargetWithinLog'
  BY <1>1 DEF TargetCoversLog, TargetWithinLog
<1> QED
  BY <1>3, <1>4, <1>5, <1>6

LEMMA PowerLossKeeps ==
    ASSUME IInv, PowerLoss
    PROVE  IInv'
<1> USE DEF IInv
<1>1. PICK k \in synced .. Len(log) :
         /\ log' = SubSeq(log, 1, k) /\ synced' = k
         /\ torn' \in BOOLEAN
         /\ acked' = acked \cap {log[i].id : i \in 1 .. k}
  BY DEF PowerLoss
<1>2. /\ manifest' \in surviving /\ surviving' = {manifest'}
      /\ pc' = "idle" /\ lost' = TRUE
      /\ request' = <<>> /\ fresh' = <<>> /\ target' = 0 /\ durable' = durable
  BY DEF PowerLoss, CallEnds
<1>3. /\ Len(log) \in Nat /\ DOMAIN log = 1 .. Len(log) /\ synced \in 0 .. Len(log)
      /\ k \in 0 .. Len(log)
  BY LenProperties DEF TypeOK
<1>4. /\ log' \in Seq(Record) /\ Len(log') = k /\ DOMAIN log' = 1 .. k
      /\ \A i \in 1 .. k : log'[i] = log[i]
      /\ LogWellFormed'
  BY <1>1, <1>3, CutLog
<1>5. LogIds' = {log[i].id : i \in 1 .. k} /\ SyncedIds' = LogIds'
  BY <1>1, <1>4 DEF LogIds, SyncedIds
<1>6. TypeOK'
  <2>1. torn' \in BOOLEAN /\ lost' \in BOOLEAN
    BY <1>1, <1>2, Zenon DEF TypeOK
  <2>2. synced' \in 0 .. Len(log')
    BY <1>1, <1>3, <1>4
  <2>3. manifest' \in Nat /\ surviving' \subseteq Nat /\ acked' \subseteq Ids
    BY <1>1, <1>2 DEF TypeOK
  <2>4. /\ request' \in Seq(Ids) /\ fresh' \in Seq(Record) /\ target' \in Nat
        /\ durable' \subseteq Ids
        /\ pc' \in {"idle", "log", "fsync_log", "manifest", "fsync_manifest", "return"}
    BY <1>2, EmptySeq DEF TypeOK
  <2> QED
    BY <1>4, <2>1, <2>2, <2>3, <2>4 DEF TypeOK
<1>7. FreshContinues' /\ RequestWritten' /\ WrittenSynced'
  BY <1>2 DEF FreshContinues, RequestWritten, WrittenSynced, Writing
<1>8. TargetCoversLog' /\ TargetWithinLog'
  BY <1>2 DEF TargetCoversLog, TargetWithinLog
<1>9. DurableSynced'
  <2>1. SyncedIds \subseteq {log[i].id : i \in 1 .. k}
    BY <1>3 DEF SyncedIds
  <2> QED
    BY <1>2, <1>5, <2>1 DEF DurableSynced
<1>10. AckedInLog' /\ ManifestAheadOnlyAfterLoss'
  BY <1>1, <1>2, <1>5 DEF AckedInLog, ManifestAheadOnlyAfterLoss
<1>11. HandoffInManifest'
  <2>1. \A i \in 1 .. k : i \in DOMAIN log
    BY <1>3
  <2> QED
    BY <1>2, <1>4, <2>1 DEF HandoffInManifest
<1> QED
  BY <1>4, <1>6, <1>7, <1>8, <1>9, <1>10, <1>11

LEMMA StutterKeeps ==
    ASSUME IInv, UNCHANGED vars
    PROVE  IInv'
<1> USE DEF IInv, vars
<1>1. /\ LogIds' = LogIds /\ SyncedIds' = SyncedIds /\ WrittenIds' = WrittenIds
      /\ NeedsFsync' = NeedsFsync /\ IsDurableHandoff' = IsDurableHandoff
  BY DEF LogIds, SyncedIds, WrittenIds, NeedsFsync, IsDurableHandoff
<1>2. TypeOK'
  BY DEF TypeOK
<1>3. LogWellFormed' /\ HandoffInManifest' /\ ManifestAheadOnlyAfterLoss'
  BY DEF LogWellFormed, HandoffInManifest, ManifestAheadOnlyAfterLoss
<1>4. FreshContinues' /\ RequestWritten'
  BY <1>1 DEF FreshContinues, RequestWritten
<1>5. DurableSynced' /\ WrittenSynced' /\ AckedInLog'
  BY <1>1 DEF DurableSynced, WrittenSynced, AckedInLog
<1>6. TargetCoversLog' /\ TargetWithinLog'
  BY <1>1 DEF TargetCoversLog, TargetWithinLog
<1> QED
  BY <1>2, <1>3, <1>4, <1>5, <1>6

LEMMA NextKeeps == IInv /\ [Next]_vars => IInv'
<1> SUFFICES ASSUME IInv, [Next]_vars PROVE IInv'
  OBVIOUS
<1>1. CASE \E ids \in Batches : BeginAppend(ids)
  BY <1>1, BeginAppendKeeps
<1>2. CASE \E ids \in Batches : BeginRepeat(ids)
  BY <1>2, BeginRepeatKeeps
<1>3. CASE BeginRefresh
  BY <1>3, BeginRefreshKeeps
<1>4. CASE WriteLog
  BY <1>4, WriteLogKeeps
<1>5. CASE FsyncLog
  BY <1>5, FsyncLogKeeps
<1>6. CASE WriteManifest
  BY <1>6, WriteManifestKeeps
<1>7. CASE FsyncManifest
  BY <1>7, FsyncManifestKeeps
<1>8. CASE Return
  BY <1>8, ReturnKeeps
<1>9. CASE Interrupt
  BY <1>9, InterruptKeeps
<1>10. CASE PowerLoss
  BY <1>10, PowerLossKeeps
<1>11. CASE UNCHANGED vars
  BY <1>11, StutterKeeps
<1> QED
  BY <1>1, <1>2, <1>3, <1>4, <1>5, <1>6, <1>7, <1>8, <1>9, <1>10, <1>11 DEF Next
-----------------------------------------------------------------------------
(* The strengthened invariant holds of every reachable state, whatever the *)
(* ids, the handoffs and commands among them and the length of a batch.     *)
THEOREM Inductive == Spec => []IInv
BY InitEstablishes, NextKeeps, PTL DEF Spec

(* Every variable of the store keeps to its type.                          *)
THEOREM TypeCorrect == Spec => []TypeOK
<1>1. IInv => TypeOK
  BY DEF IInv
<1> QED
  BY <1>1, Inductive, PTL

(* load_events and checked_history can read every log the store leaves     *)
(* behind: numbered without holes, no id twice.                             *)
THEOREM LogAlwaysWellFormed == Spec => []LogWellFormed
<1>1. IInv => LogWellFormed
  BY DEF IInv
<1> QED
  BY <1>1, Inductive, PTL

(* Whatever append_events returned for is in the log.                      *)
THEOREM AcknowledgedIsRecorded == Spec => []AckedInLog
<1>1. IInv => AckedInLog
  BY DEF IInv
<1> QED
  BY <1>1, Inductive, PTL

(* A handoff, steer or rewind record that was fsynced and returned for is  *)
(* found after any power loss.                                              *)
THEOREM DurableIsRecorded == Spec => []DurableInLog
<1>1. IInv => DurableInLog
  <2> SUFFICES ASSUME IInv PROVE durable \subseteq LogIds
    BY DEF DurableInLog
  <2>1. Len(log) \in Nat /\ DOMAIN log = 1 .. Len(log) /\ synced \in 0 .. Len(log)
    BY LenProperties DEF IInv, TypeOK
  <2>2. SyncedIds \subseteq LogIds
    BY <2>1 DEF SyncedIds, LogIds
  <2> QED
    BY <2>2 DEF IInv, DurableSynced
<1> QED
  BY <1>1, Inductive, PTL

(* The three above, as the runs check them.                                *)
THEOREM EverythingRecorded == Spec => []Recorded
BY TypeCorrect, AcknowledgedIsRecorded, DurableIsRecorded, PTL DEF Recorded

(* Failed writes and crashes alone never leave a manifest ahead of its log.*)
THEOREM ManifestNeverAhead == Spec => []ManifestAheadOnlyAfterLoss
<1>1. IInv => ManifestAheadOnlyAfterLoss
  BY DEF IInv
<1> QED
  BY <1>1, Inductive, PTL

(* Every manifest a power loss can bring back covers the handoffs.         *)
THEOREM HandoffsCovered == Spec => []HandoffInManifest
<1>1. IInv => HandoffInManifest
  BY DEF IInv
<1> QED
  BY <1>1, Inductive, PTL

(* No step writes after a fragment.                                        *)
THEOREM FragmentsAreKept == Spec => FragmentPreserved
<1>1. IInv /\ [Next]_vars => [torn => UNCHANGED log \/ Len(log') < Len(log)]_vars
  <2> SUFFICES ASSUME IInv, Next, torn
               PROVE  log' = log \/ Len(log') < Len(log)
    BY DEF vars
  <2>1. pc # "log"
    BY DEF IInv, FreshContinues
  <2>2. CASE PowerLoss
    <3>1. PICK k \in synced .. Len(log) : log' = SubSeq(log, 1, k)
      BY <2>2 DEF PowerLoss
    <3>2. Len(log) \in Nat /\ k \in 0 .. Len(log) /\ log \in Seq(Record)
      BY LenProperties DEF IInv, TypeOK
    <3>3. CASE k = Len(log)
      BY <3>1, <3>2, <3>3, SubSeqFull
    <3>4. CASE k < Len(log)
      <4>1. Len(log') = k
        BY <3>1, <3>2, CutLog DEF IInv
      <4> QED
        BY <3>4, <4>1
    <3> QED
      BY <3>2, <3>3, <3>4
  <2>3. CASE ~PowerLoss
    BY <2>1, <2>3 DEF Next, BeginAppend, BeginRepeat, BeginRefresh, WriteLog,
         FsyncLog, WriteManifest, FsyncManifest, Return, Interrupt, disk
  <2> QED
    BY <2>2, <2>3
<1> QED
  BY <1>1, Inductive, PTL DEF Spec, FragmentPreserved

------------------------------------------------------------------------------
(***************************************************************************)
(* SessionLog implements DurableLog: the ids of the lines of                *)
(* events.jsonl are the abstract entries, a write (whole or interrupted)    *)
(* records, a return acknowledges, a power loss cuts, and everything that   *)
(* happens to the manifest, the fragment and the fsyncs is a stutter.       *)
(***************************************************************************)

(* Records are prepared for the ids that were asked for, and what is       *)
(* durable was acknowledged.                                                *)
WrittenRequested == WrittenIds \subseteq IdsOf(request)
DurableAcked     == durable \subseteq acked

RInv == IInv /\ WrittenRequested /\ DurableAcked

LEMMA PreparedRequested ==
    ASSUME NEW ids \in Seq(Ids), NEW base \in Nat, NEW new \in Prepare(ids, base)
    PROVE  {new[i].id : i \in DOMAIN new} \subseteq IdsOf(ids)
<1>1. PICK s \in Selected(ids) : new = [i \in DOMAIN s |-> [id |-> s[i], seq |-> base + i]]
  BY DEF Prepare
<1>2. IdsOf(s) \subseteq IdsOf(ids)
  BY <1>1 DEF Selected
<1>3. DOMAIN new = DOMAIN s /\ \A i \in DOMAIN s : new[i].id = s[i]
  BY <1>1
<1> QED
  BY <1>2, <1>3 DEF IdsOf

LEMMA RInvInit == Init => RInv
<1> SUFFICES ASSUME Init PROVE RInv
  OBVIOUS
<1>1. WrittenIds = {}
  BY EmptySeq DEF Init, WrittenIds
<1>2. DurableAcked
  BY DEF Init, DurableAcked
<1> QED
  BY <1>1, <1>2, InitEstablishes DEF RInv, WrittenRequested

LEMMA RInvNext == RInv /\ [Next]_vars => RInv'
<1> SUFFICES ASSUME RInv, [Next]_vars PROVE RInv'
  OBVIOUS
<1>1. IInv'
  BY NextKeeps DEF RInv
<1>2. WrittenRequested'
  <2>1. CASE \E ids \in Batches : BeginAppend(ids)
    <3>1. PICK ids \in Batches : BeginAppend(ids)
      BY <2>1
    <3>2. ids \in Seq(Ids) /\ Base \in Nat
      BY BatchIsRequest, LastSeqIsLength DEF RInv, IInv
    <3>3. fresh' \in Prepare(ids, Base) /\ request' = ids
      BY <3>1 DEF BeginAppend
    <3> QED
      BY <3>2, <3>3, PreparedRequested DEF WrittenRequested, WrittenIds
  <2>2. CASE fresh' = <<>>
    BY <2>2 DEF WrittenRequested, WrittenIds
  <2>3. CASE UNCHANGED <<fresh, request>>
    BY <2>3 DEF RInv, WrittenRequested, WrittenIds, IdsOf
  <2> QED
    BY <2>1, <2>2, <2>3 DEF Next, vars, BeginRepeat, BeginRefresh, WriteLog, FsyncLog,
       WriteManifest, FsyncManifest, Return, Interrupt, PowerLoss, CallEnds, call
<1>3. DurableAcked'
  <2>1. CASE Return
    BY <2>1 DEF Return, RInv, DurableAcked, WrittenRequested
  <2>2. CASE PowerLoss
    <3>1. durable' = durable /\ acked' = acked \cap LogIds'
      <4>1. PICK k \in synced .. Len(log) :
               /\ log' = SubSeq(log, 1, k)
               /\ acked' = acked \cap {log[i].id : i \in 1 .. k}
        BY <2>2 DEF PowerLoss
      <4>2. k \in 0 .. Len(log)
        BY <4>1, LenProperties DEF RInv, IInv, TypeOK
      <4>3. DOMAIN log' = 1 .. k /\ \A i \in 1 .. k : log'[i] = log[i]
        BY <4>1, <4>2, CutLog DEF RInv, IInv
      <4>4. LogIds' = {log[i].id : i \in 1 .. k}
        BY <4>3 DEF LogIds
      <4> QED
        BY <2>2, <4>1, <4>4 DEF PowerLoss
    <3>2. durable' \subseteq LogIds'
      <4>1. Len(log') \in Nat /\ DOMAIN log' = 1 .. Len(log') /\ synced' \in 0 .. Len(log')
        BY <1>1, LenProperties DEF IInv, TypeOK
      <4>2. SyncedIds' \subseteq LogIds'
        BY <4>1 DEF SyncedIds, LogIds
      <4> QED
        BY <1>1, <4>2 DEF IInv, DurableSynced
    <3> QED
      BY <3>1, <3>2 DEF RInv, DurableAcked
  <2>3. CASE UNCHANGED <<acked, durable>>
    BY <2>3 DEF RInv, DurableAcked
  <2> QED
    BY <2>1, <2>2, <2>3 DEF Next, vars, BeginAppend, BeginRepeat, BeginRefresh, WriteLog,
       FsyncLog, WriteManifest, FsyncManifest, Interrupt
<1> QED
  BY <1>1, <1>2, <1>3 DEF RInv
-----------------------------------------------------------------------------
(* The abstract entries are the ids in the log.                            *)
LEMMA EntriesOfLog ==
    ASSUME log \in Seq(Record)
    PROVE  /\ EntryIds \in Seq(Ids)
           /\ Len(EntryIds) = Len(log) /\ Len(log) \in Nat
           /\ DOMAIN EntryIds = 1 .. Len(log)
           /\ \A i \in 1 .. Len(log) : EntryIds[i] = log[i].id
           /\ Abstract!Recorded(EntryIds) = LogIds
<1>1. Len(log) \in Nat /\ DOMAIN log = 1 .. Len(log)
  BY LenProperties
<1>2. \A i \in 1 .. Len(log) : log[i].id \in Ids
  <2>1. \A i \in 1 .. Len(log) : log[i] \in Record
    BY ElementOfSeq
  <2> QED
    BY <2>1 DEF Record
<1>3. EntryIds \in [1 .. Len(log) -> Ids]
  BY <1>1, <1>2 DEF EntryIds
<1>4. EntryIds \in Seq(Ids)
  BY <1>1, <1>3, SeqDef
<1>5. DOMAIN EntryIds = 1 .. Len(log) /\ \A i \in 1 .. Len(log) : EntryIds[i] = log[i].id
  BY <1>1 DEF EntryIds
<1>6. Len(EntryIds) = Len(log)
  BY <1>1, <1>4, <1>5, LenProperties
<1>7. Abstract!Recorded(EntryIds) = LogIds
  BY <1>1, <1>5 DEF Abstract!Recorded, LogIds
<1> QED
  BY <1>1, <1>4, <1>5, <1>6, <1>7

LEMMA RefinesInit == Init => Abstract!AbsInit
<1> SUFFICES ASSUME Init PROVE Abstract!AbsInit
  OBVIOUS
<1>1. log = <<>> /\ log \in Seq(Record) /\ Len(log) = 0
  BY EmptySeq DEF Init
<1>2. EntryIds \in Seq(Ids) /\ Len(EntryIds) = 0
  BY <1>1, EntriesOfLog
<1>3. EntryIds = <<>>
  BY <1>2, EmptySeq
<1> QED
  BY <1>3 DEF Init, Abstract!AbsInit

(* A write of k prepared records is one step of the abstract log, or none. *)
LEMMA RefinesWrite ==
    ASSUME IInv, pc = "log",
           NEW k \in 0 .. Len(fresh), log' = log \o SubSeq(fresh, 1, k),
           UNCHANGED <<manifest, synced, surviving, acked, durable, lost>>
    PROVE  Abstract!Record \/ UNCHANGED <<EntryIds, acked, durable>>
<1>1. /\ log' \in Seq(Record)
      /\ Len(log') = Len(log) + k
      /\ \A i \in 1 .. Len(log) : log'[i] = log[i]
      /\ LogWellFormed'
  BY WrittenPart DEF IInv
<1>2. /\ log \in Seq(Record) /\ Len(log) \in Nat /\ fresh \in Seq(Record)
      /\ Len(fresh) \in Nat /\ k \in Nat
  BY LenProperties DEF IInv, TypeOK
<1>3. /\ EntryIds \in Seq(Ids) /\ Len(EntryIds) = Len(log)
      /\ DOMAIN EntryIds = 1 .. Len(log)
      /\ \A i \in 1 .. Len(log) : EntryIds[i] = log[i].id
  BY <1>2, EntriesOfLog
<1>4. /\ EntryIds' \in Seq(Ids) /\ Len(EntryIds') = Len(log')
      /\ DOMAIN EntryIds' = 1 .. Len(log')
      /\ \A i \in 1 .. Len(log') : EntryIds'[i] = log'[i].id
  <2>1. EntryIds' = [i \in DOMAIN log' |-> log'[i].id]
    BY DEF EntryIds
  <2>2. Len(log') \in Nat /\ DOMAIN log' = 1 .. Len(log')
    BY <1>1, LenProperties
  <2>3. \A i \in 1 .. Len(log') : log'[i].id \in Ids
    <3>1. \A i \in 1 .. Len(log') : log'[i] \in Record
      BY <1>1, ElementOfSeq
    <3> QED
      BY <3>1 DEF Record
  <2>4. EntryIds' \in [1 .. Len(log') -> Ids]
    BY <2>1, <2>2, <2>3
  <2>5. EntryIds' \in Seq(Ids)
    <3> DEFINE n == Len(log')
               e == EntryIds'
    <3>1. n \in Nat /\ e \in [1 .. n -> Ids]
      BY <2>2, <2>4
    <3> HIDE DEF n, e
    <3>2. e \in Seq(Ids)
      BY <3>1, SeqDef
    <3> QED
      BY <3>2 DEF e
  <2>6. DOMAIN EntryIds' = 1 .. Len(log')
    BY <2>1, <2>2
  <2>7. Len(EntryIds') \in Nat /\ DOMAIN EntryIds' = 1 .. Len(EntryIds')
    BY <2>5, LenProperties
  <2>8. Len(EntryIds') = Len(log')
    BY <2>2, <2>6, <2>7
  <2> QED
    BY <2>1, <2>2, <2>5, <2>6, <2>8
<1>5. CASE k = 0
  <2>1. \A i \in 1 .. Len(log) : EntryIds'[i] = EntryIds[i]
    BY <1>1, <1>2, <1>3, <1>4, <1>5
  <2>2. EntryIds' = EntryIds
    BY <1>1, <1>2, <1>3, <1>4, <1>5, <2>1, SeqEqual
  <2> QED
    BY <2>2
<1>6. CASE k > 0
  <2>1. Len(EntryIds') > Len(EntryIds)
    BY <1>1, <1>2, <1>3, <1>4, <1>6
  <2>2. \A i \in DOMAIN EntryIds : EntryIds'[i] = EntryIds[i]
    BY <1>1, <1>2, <1>3, <1>4
  <2>3. \A i, j \in DOMAIN EntryIds' : EntryIds'[i] = EntryIds'[j] => i = j
    <3>1. DOMAIN log' = 1 .. Len(log')
      BY <1>1, LenProperties
    <3>2. \A i, j \in 1 .. Len(log') : log'[i].id = log'[j].id => i = j
      BY <1>1, <3>1 DEF LogWellFormed
    <3> QED
      BY <1>4, <3>2
  <2> QED
    BY <1>4, <2>1, <2>2, <2>3 DEF Abstract!Record
<1> QED
  BY <1>2, <1>5, <1>6

LEMMA RefinesCut ==
    ASSUME RInv, RInv', PowerLoss
    PROVE  Abstract!Cut
<1>1. PICK k \in synced .. Len(log) :
         /\ log' = SubSeq(log, 1, k)
         /\ acked' = acked \cap {log[i].id : i \in 1 .. k}
  BY DEF PowerLoss
<1>2. log \in Seq(Record) /\ Len(log) \in Nat /\ k \in 0 .. Len(log)
  BY <1>1, LenProperties DEF RInv, IInv, TypeOK
<1>3. /\ log' \in Seq(Record) /\ Len(log') = k /\ DOMAIN log' = 1 .. k
      /\ \A i \in 1 .. k : log'[i] = log[i]
  BY <1>1, <1>2, CutLog DEF RInv, IInv
<1>4. /\ EntryIds \in Seq(Ids) /\ Len(EntryIds) = Len(log)
      /\ \A i \in 1 .. Len(log) : EntryIds[i] = log[i].id
  BY <1>2, EntriesOfLog
<1>5. EntryIds' = [i \in 1 .. k |-> log[i].id]
  BY <1>3 DEF EntryIds
<1>6. EntryIds' = SubSeq(EntryIds, 1, k)
  <2>1. \A i \in 1 .. k : EntryIds[i] \in Ids
    BY <1>2, <1>4, ElementOfSeq
  <2>2. /\ SubSeq(EntryIds, 1, k) \in Seq(Ids)
        /\ Len(SubSeq(EntryIds, 1, k)) = k
        /\ \A i \in 1 .. k : SubSeq(EntryIds, 1, k)[i] = EntryIds[i]
    BY <1>2, <2>1, SubSeqProperties
  <2>3. EntryIds' \in [1 .. k -> Ids] /\ \A i \in 1 .. k : EntryIds'[i] = EntryIds[i]
    BY <1>2, <1>4, <1>5, <2>1
  <2>4. EntryIds' \in Seq(Ids) /\ Len(EntryIds') = k
    BY <1>2, <2>3, SeqDef, LenProperties
  <2> QED
    BY <2>2, <2>3, <2>4, SeqEqual
<1>7. Abstract!Recorded(EntryIds') = {log[i].id : i \in 1 .. k}
  BY <1>2, <1>5 DEF Abstract!Recorded
<1>8. durable' = durable /\ durable \subseteq Abstract!Recorded(EntryIds')
  <2>1. durable' = durable
    BY DEF PowerLoss
  <2>2. durable \subseteq SyncedIds /\ synced \in 0 .. Len(log)
    BY DEF RInv, IInv, DurableSynced, TypeOK
  <2> QED
    BY <1>2, <1>7, <2>1, <2>2 DEF SyncedIds
<1>9. acked' = acked \cap Abstract!Recorded(EntryIds')
  BY <1>1, <1>7
<1>10. k \in 0 .. Len(EntryIds)
  BY <1>2, <1>4
<1> QED
  BY <1>6, <1>8, <1>9, <1>10 DEF Abstract!Cut

LEMMA RefinesReturn ==
    ASSUME RInv, RInv', Return
    PROVE  Abstract!Acknowledge
<1>1. /\ acked' = acked \cup IdsOf(request) /\ log' = log
      /\ durable' = IF NeedsFsync THEN durable \cup WrittenIds ELSE durable
  BY DEF Return, disk
<1>2. EntryIds' = EntryIds
  BY <1>1 DEF EntryIds
<1>3. Abstract!Recorded(EntryIds) = LogIds
  BY EntriesOfLog DEF RInv, IInv, TypeOK
<1>4. acked' \subseteq LogIds
  BY <1>1 DEF RInv, IInv, AckedInLog, LogIds
<1>5. durable' \subseteq acked'
  BY DEF RInv, DurableAcked
<1> QED
  BY <1>1, <1>2, <1>3, <1>4, <1>5 DEF Abstract!Acknowledge

LEMMA RefinesNext == RInv /\ RInv' /\ [Next]_vars => [Abstract!AbsNext]_(Abstract!absVars)
<1> SUFFICES ASSUME RInv, RInv', [Next]_vars
             PROVE  [Abstract!AbsNext]_(Abstract!absVars)
  OBVIOUS
<1>1. CASE WriteLog
  <2>1. /\ pc = "log" /\ log' = log \o fresh
        /\ UNCHANGED <<manifest, synced, surviving, acked, durable, lost>>
    BY <1>1 DEF WriteLog
  <2>2. log' = log \o SubSeq(fresh, 1, Len(fresh)) /\ Len(fresh) \in 0 .. Len(fresh)
    <3>1. fresh \in Seq(Record) /\ Len(fresh) \in Nat
      BY LenProperties DEF RInv, IInv, TypeOK
    <3>2. SubSeq(fresh, 1, Len(fresh)) = fresh
      BY <3>1, SubSeqFull
    <3> QED
      BY <2>1, <3>1, <3>2
  <2> QED
    BY <2>1, <2>2, RefinesWrite DEF RInv, Abstract!AbsNext, Abstract!absVars
<1>2. CASE Interrupt /\ pc = "log"
  <2>1. PICK k \in 0 .. Len(fresh) : log' = log \o SubSeq(fresh, 1, k)
    BY <1>2 DEF Interrupt
  <2>2. UNCHANGED <<manifest, synced, surviving, acked, durable, lost>>
    BY <1>2 DEF Interrupt
  <2> QED
    BY <1>2, <2>1, <2>2, RefinesWrite DEF RInv, Abstract!AbsNext, Abstract!absVars
<1>3. CASE Return
  BY <1>3, RefinesReturn DEF Abstract!AbsNext
<1>4. CASE PowerLoss
  BY <1>4, RefinesCut DEF Abstract!AbsNext
<1>5. CASE UNCHANGED <<log, acked, durable>>
  BY <1>5 DEF Abstract!absVars, EntryIds
<1> QED
  BY <1>1, <1>2, <1>3, <1>4, <1>5 DEF Next, vars, BeginAppend, BeginRepeat, BeginRefresh,
     FsyncLog, WriteManifest, FsyncManifest, Interrupt, disk

(* The store of one session, with its manifest, fragments, fsyncs, failed  *)
(* writes and power losses, implements the abstract log, for any ids.       *)
THEOREM Refinement == Spec => ImplementsDurableLog
<1>1. Spec => []RInv
  BY RInvInit, RInvNext, PTL DEF Spec
<1> QED
  BY <1>1, RefinesInit, RefinesNext, PTL DEF Spec, ImplementsDurableLog, Abstract!AbsSpec
=============================================================================
