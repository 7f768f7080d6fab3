------------------------------ MODULE DreamProofs ------------------------------
(***************************************************************************)
(* What TLAPS proves of Dream for any conversations, messages, rewinds,    *)
(* edits, failures and crashes: progress is never ahead of publication, a  *)
(* reader sees nothing that was not committed, the user's own entry stays, *)
(* and what was taken back before it was published stays out.  The         *)
(* invariant says where a preference can be: in a commit, or in the        *)
(* publication whose journal tells how to settle it.                       *)
(***************************************************************************)
EXTENDS Dream, FiniteSetTheorems, TLAPS

\* What a log holds.
Kinds == {"pref", "rewind"}

\* What it is to be in a log.
LEMMA LogFacts ==
  ASSUME NEW l \in Seq(Kinds)
  PROVE  /\ Len(l) \in Nat /\ DOMAIN l = 1 .. Len(l)
         /\ \A i \in 1 .. Len(l) : l[i] \in Kinds
         /\ ToSet(l) \subseteq Kinds
  <1>1. Len(l) \in Nat /\ DOMAIN l = 1 .. Len(l) /\ \A i \in 1 .. Len(l) : l[i] \in Kinds
    OBVIOUS
  <1> QED
    BY <1>1 DEF ToSet

\* A log with one more event.
LEMMA AppendFacts ==
  ASSUME NEW l \in Seq(Kinds), NEW x \in Kinds
  PROVE  /\ Append(l, x) \in Seq(Kinds)
         /\ Len(Append(l, x)) = Len(l) + 1
         /\ \A i \in 1 .. Len(l) : Append(l, x)[i] = l[i]
         /\ Append(l, x)[Len(l) + 1] = x
  OBVIOUS

\* The part of a log that was read.
LEMMA PartFacts ==
  ASSUME NEW l \in Seq(Kinds), NEW n \in Nat, n <= Len(l)
  PROVE  /\ SubSeq(l, 1, n) \in Seq(Kinds) /\ Len(SubSeq(l, 1, n)) = n
         /\ \A i \in 1 .. n : SubSeq(l, 1, n)[i] = l[i]
  OBVIOUS

\* More events leave the part that was read as it was.
LEMMA PartOfAppend ==
  ASSUME NEW l \in Seq(Kinds), NEW x \in Kinds, NEW n \in Nat, n <= Len(l)
  PROVE  SubSeq(Append(l, x), 1, n) = SubSeq(l, 1, n)
  <1> DEFINE a == SubSeq(Append(l, x), 1, n)
             b == SubSeq(l, 1, n)
  <1>1. /\ Append(l, x) \in Seq(Kinds) /\ Len(Append(l, x)) = Len(l) + 1 /\ Len(l) \in Nat
        /\ \A i \in 1 .. Len(l) : Append(l, x)[i] = l[i]
    BY AppendFacts
  <1>2. a \in Seq(Kinds) /\ Len(a) = n /\ \A i \in 1 .. n : a[i] = Append(l, x)[i]
    BY <1>1, PartFacts
  <1>3. b \in Seq(Kinds) /\ Len(b) = n /\ \A i \in 1 .. n : b[i] = l[i]
    BY PartFacts
  <1> HIDE DEF a, b
  <1>4. \A i \in 1 .. n : a[i] = b[i]
    BY <1>1, <1>2, <1>3
  <1>5. a = b
    BY <1>2, <1>3, <1>4
  <1> QED
    BY <1>5 DEF a, b

\* The count of a kind depends on the events that are counted.
LEMMA OfSame ==
  ASSUME NEW l, NEW m, NEW kind, NEW from, NEW to, \A k \in from .. to : l[k] = m[k]
  PROVE  Of(l, kind, from, to) = Of(m, kind, from, to)
  <1>1. {k \in from .. to : l[k] = kind} = {k \in from .. to : m[k] = kind}
    OBVIOUS
  <1> QED
    BY <1>1 DEF Of

\* A message that is not taken back is one of the log.
LEMMA VisibleFacts ==
  ASSUME NEW l \in Seq(Kinds)
  PROVE  /\ Visible(l) \subseteq 1 .. Len(l)
         /\ \A i \in Visible(l) : l[i] = "pref"
  BY LogFacts DEF Visible

\* One more event shows no earlier message again, and a marker shows none.
LEMMA VisibleOfAppend ==
  ASSUME NEW l \in Seq(Kinds), NEW x \in Kinds, NEW i \in Visible(Append(l, x))
  PROVE  i \in Visible(l) \/ (i = Len(l) + 1 /\ x = "pref")
  <1> DEFINE m == Append(l, x)
  <1>1. /\ m \in Seq(Kinds) /\ Len(m) = Len(l) + 1 /\ Len(l) \in Nat
        /\ \A k \in 1 .. Len(l) : m[k] = l[k]
        /\ m[Len(l) + 1] = x
    BY AppendFacts
  <1> HIDE DEF m
  <1>2. /\ i \in 1 .. Len(m) /\ m[i] = "pref"
        /\ \A j \in i .. Len(m) : Of(m, "rewind", i + 1, j) <= Of(m, "pref", i + 1, j)
    BY <1>1, LogFacts DEF Visible, m
  <1>3. CASE i \in 1 .. Len(l)
    <2>1. ASSUME NEW j \in i .. Len(l)
          PROVE  Of(l, "rewind", i + 1, j) <= Of(l, "pref", i + 1, j)
      <3>1. \A k \in i + 1 .. j : m[k] = l[k]
        BY <1>1, <1>3
      <3>2. /\ Of(m, "rewind", i + 1, j) = Of(l, "rewind", i + 1, j)
            /\ Of(m, "pref", i + 1, j) = Of(l, "pref", i + 1, j)
        BY <3>1, OfSame
      <3>3. j \in i .. Len(m)
        BY <1>1, <1>3
      <3> QED
        BY <1>2, <3>2, <3>3
    <2>2. i \in DOMAIN l /\ l[i] = "pref"
      BY <1>1, <1>2, <1>3
    <2> QED
      BY <2>1, <2>2 DEF Visible
  <1>4. CASE i = Len(l) + 1
    BY <1>1, <1>2, <1>4
  <1> QED
    BY <1>1, <1>2, <1>3, <1>4

\* A message of the whole log that is not taken back was not in the part.
LEMMA VisibleInPart ==
  ASSUME NEW l \in Seq(Kinds), NEW n \in Nat, n <= Len(l), NEW i \in Visible(l), i <= n
  PROVE  i \in Visible(SubSeq(l, 1, n))
  <1> DEFINE p == SubSeq(l, 1, n)
  <1>1. p \in Seq(Kinds) /\ Len(p) = n /\ \A k \in 1 .. n : p[k] = l[k]
    BY PartFacts
  <1> HIDE DEF p
  <1>2. /\ i \in 1 .. Len(l) /\ l[i] = "pref" /\ Len(l) \in Nat
        /\ \A j \in i .. Len(l) : Of(l, "rewind", i + 1, j) <= Of(l, "pref", i + 1, j)
    BY LogFacts DEF Visible
  <1>3. i \in 1 .. n
    BY <1>2
  <1>4. i \in DOMAIN p /\ p[i] = "pref"
    BY <1>1, <1>2, <1>3
  <1>5. ASSUME NEW j \in i .. Len(p)
        PROVE  Of(p, "rewind", i + 1, j) <= Of(p, "pref", i + 1, j)
    <2>1. \A k \in i + 1 .. j : p[k] = l[k]
      BY <1>1, <1>3
    <2>2. /\ Of(p, "rewind", i + 1, j) = Of(l, "rewind", i + 1, j)
          /\ Of(p, "pref", i + 1, j) = Of(l, "pref", i + 1, j)
      BY <2>1, OfSame
    <2>3. j \in i .. Len(l)
      BY <1>1, <1>2, <1>3
    <2> QED
      BY <1>2, <2>2, <2>3
  <1>6. i \in Visible(p)
    BY <1>4, <1>5 DEF Visible
  <1> QED
    BY <1>6 DEF p

\* With no marker after the part, its messages are not taken back since.
LEMMA VisibleSince ==
  ASSUME NEW l \in Seq(Kinds), NEW n \in Nat, n <= Len(l), ~RewoundAfter(l, n),
         NEW i \in Visible(SubSeq(l, 1, n))
  PROVE  i \in Visible(l)
  <1> DEFINE p == SubSeq(l, 1, n)
  <1>1. p \in Seq(Kinds) /\ Len(p) = n /\ \A k \in 1 .. n : p[k] = l[k]
    BY PartFacts
  <1> HIDE DEF p
  <1>2. /\ i \in 1 .. n /\ p[i] = "pref"
        /\ \A j \in i .. n : Of(p, "rewind", i + 1, j) <= Of(p, "pref", i + 1, j)
    BY <1>1, LogFacts DEF Visible, p
  <1>3. Len(l) \in Nat /\ DOMAIN l = 1 .. Len(l)
    BY LogFacts
  <1>4. i \in DOMAIN l /\ l[i] = "pref"
    BY <1>1, <1>2, <1>3
  <1>5. ASSUME NEW j \in i .. n
        PROVE  Of(l, "rewind", i + 1, j) <= Of(l, "pref", i + 1, j)
    <2>1. \A k \in i + 1 .. j : p[k] = l[k]
      BY <1>1, <1>2
    <2>2. /\ Of(p, "rewind", i + 1, j) = Of(l, "rewind", i + 1, j)
          /\ Of(p, "pref", i + 1, j) = Of(l, "pref", i + 1, j)
      BY <2>1, OfSame
    <2> QED
      BY <1>2, <2>2
  <1>6. ASSUME NEW j \in i .. Len(l), j > n
        PROVE  Of(l, "rewind", i + 1, j) <= Of(l, "pref", i + 1, j)
    <2> DEFINE R(m) == {k \in i + 1 .. m : l[k] = "rewind"}
               P(m) == {k \in i + 1 .. m : l[k] = "pref"}
    <2>1. R(j) = R(n)
      <3>1. ASSUME NEW k \in i + 1 .. j, l[k] = "rewind" PROVE k \in i + 1 .. n
        <4>1. k \in n + 1 .. Len(l) \/ k <= n
          BY <1>2, <1>3, <1>6
        <4> QED
          BY <1>2, <3>1, <4>1 DEF RewoundAfter
      <3>2. ASSUME NEW k \in i + 1 .. n PROVE k \in i + 1 .. j
        BY <1>2, <1>6
      <3> QED
        BY <3>1, <3>2
    <2>2. IsFiniteSet(P(j)) /\ P(n) \in SUBSET P(j)
      <3>1. IsFiniteSet(i + 1 .. j)
        BY <1>2, <1>6, FS_Interval
      <3>2. P(j) \in SUBSET (i + 1 .. j)
        OBVIOUS
      <3>3. P(n) \in SUBSET P(j)
        BY <1>2, <1>6
      <3> QED
        BY <3>1, <3>2, <3>3, FS_Subset
    <2>3. IsFiniteSet(P(n)) /\ Cardinality(P(n)) <= Cardinality(P(j))
      BY <2>2, FS_Subset
    <2>4. Cardinality(P(j)) \in Nat /\ Cardinality(P(n)) \in Nat
      BY <2>2, <2>3, FS_CardinalityType
    <2>5. IsFiniteSet(R(n))
      <3>1. IsFiniteSet(i + 1 .. n)
        BY <1>2, FS_Interval
      <3>2. R(n) \in SUBSET (i + 1 .. n)
        OBVIOUS
      <3> QED
        BY <3>1, <3>2, FS_Subset
    <2>6. Cardinality(R(n)) \in Nat
      BY <2>5, FS_CardinalityType
    <2>7. Cardinality(R(n)) <= Cardinality(P(n))
      BY <1>2, <1>5 DEF Of
    <2>8. Cardinality(R(j)) <= Cardinality(P(j))
      <3> HIDE DEF R, P
      <3> QED
        BY <2>1, <2>3, <2>4, <2>6, <2>7
    <2> QED
      BY <2>8 DEF Of
  <1>7. \A j \in i .. Len(l) : Of(l, "rewind", i + 1, j) <= Of(l, "pref", i + 1, j)
    <2> SUFFICES ASSUME NEW j \in i .. Len(l)
                 PROVE  Of(l, "rewind", i + 1, j) <= Of(l, "pref", i + 1, j)
      OBVIOUS
    <2>1. j \in i .. n \/ j > n
      BY <1>2, <1>3
    <2> QED
      BY <1>5, <1>6, <2>1
  <1> QED
    BY <1>4, <1>7 DEF Visible

\* While the logs are not full, none of them is.
LEMMA RoomInLog ==
  ASSUME ~Full, log \in [Sessions -> Seq(Kinds)], NEW s \in Sessions
  PROVE  Len(log[s]) < MaxSeq
  <1> SUFFICES ASSUME Len(log[s]) >= MaxSeq PROVE FALSE
    BY DreamAssumption, LogFacts
  <1>1. IsFiniteSet(Sessions) /\ MaxSeq \in Nat /\ IsFiniteSet(1 .. MaxSeq)
    BY DreamAssumption, FS_Interval
  <1>2. IsFiniteSet(Sessions \X (1 .. MaxSeq))
    BY <1>1, FS_Product
  <1>3. IsFiniteSet(Positions) /\ Cardinality(Positions) \in Nat
    <2>1. Positions \in SUBSET (Sessions \X (1 .. MaxSeq))
      BY DEF Positions
    <2>2. IsFiniteSet(Positions)
      BY <1>2, <2>1, FS_Subset
    <2> QED
      BY <2>2, FS_CardinalityType
  <1> DEFINE f == [i \in 1 .. MaxSeq |-> <<s, i>>]
  <1>4. \A i \in 1 .. MaxSeq : <<s, i>> \in Positions
    BY <1>1, LogFacts DEF Positions
  <1>5. f \in Injection(1 .. MaxSeq, Positions)
    BY <1>4 DEF Injection, IsInjective
  <1>6. Cardinality(1 .. MaxSeq) <= Cardinality(Positions)
    BY <1>3, <1>5, FS_Injection
  <1>7. Cardinality(1 .. MaxSeq) = MaxSeq
    BY <1>1, FS_Interval
  <1> QED
    BY <1>1, <1>3, <1>6, <1>7 DEF Full

------------------------------------------------------------------------------
(* The invariant.                                                           *)

Stages == {"idle", "recover", "prepare", "extract", "check", "baseline", "journal",
           "write", "commit", "unjournal", "finish", "mark"}
Composing == {"check", "baseline", "journal", "write", "commit", "unjournal", "finish"}
PendingType == [to : Nat, base : SUBSET Entries, done : SUBSET (1 .. MaxSeq),
                published : SUBSET Entries, on : BOOLEAN]
CheckpointType == [committed : Nat, pending : PendingType, memory : SUBSET Entries]

\* What the variables hold.
Types ==
    /\ log \in [Sessions -> Seq(Kinds)]
    /\ ckpt \in [Sessions -> CheckpointType]
    /\ processed \in [Sessions -> Nat]
    /\ file \subseteq Entries /\ head \subseteq Entries
    /\ journal \in [before : SUBSET Entries, after : SUBSET Entries, on : BOOLEAN]
    /\ job \in [at : Stages, s : Sessions \cup {"none"}, len : Nat, cand : SUBSET Entries]
    /\ job.at # "idle" => job.s \in Sessions
    /\ own \in [wrote : BOOLEAN, raced : BOOLEAN] /\ edited \in BOOLEAN

\* No progress is ahead of the log, and the logs keep to their bound.
Ahead ==
    /\ \A s \in Sessions : /\ Len(log[s]) <= MaxSeq
                           /\ ckpt[s].committed <= Len(log[s])
                           /\ ckpt[s].pending.to <= Len(log[s])
                           /\ processed[s] <= Len(log[s])
    /\ job.at # "idle" => job.len <= Len(log[job.s])

\* Preferences come into the file, and into what a publication starts from, only
\* through commits, or through the publication whose journal is there.
Kept(entries) == entries \ {Title, Mine}
Committed ==
    /\ Kept(head) \subseteq ever
    /\ Kept(file) \subseteq ever \cup (IF journal.on THEN Kept(journal.after) ELSE {})
    /\ \A s \in Sessions : Kept(ckpt[s].pending.base) \subseteq ever
    /\ journal.on => /\ Kept(journal.before) \subseteq ever
                     /\ Mine \in journal.after => Mine \in journal.before

\* No journal is there but while the file is written and committed.
Settled ==
    job.at \in {"prepare", "extract", "check", "baseline", "journal", "finish", "mark"} =>
      ~journal.on

\* What is to be published: what it starts from and the blocks since, of which
\* no later marker took one back.
Composed ==
    job.at \in Composing =>
      /\ Pending.base \subseteq job.cand
      /\ \A i \in Blocks : <<job.s, i>> \in job.cand
      /\ job.cand \subseteq Pending.base \cup {<<job.s, i>> : i \in Blocks} \cup {Title}
      /\ ~RewoundAfter(log[job.s], Pending.to)

\* The journal tells the publication, and after the commit its entries are kept.
Journaled ==
    /\ job.at \in {"write", "commit", "unjournal"} =>
         journal.on /\ journal.before = Pending.base /\ journal.after = job.cand
    /\ job.at \in {"unjournal", "finish"} => Kept(job.cand) \subseteq ever
    /\ job.at = "mark" => job.len = ckpt[job.s].committed

\* Where the file and HEAD may differ but for the user's edits.
Reading ==
    /\ ~edited /\ ~own.raced =>
         /\ ~journal.on => file = head
         /\ journal.on => file = head \/ head = journal.before
         /\ job.at \in {"baseline", "journal", "write"} => head = Pending.base
    /\ job.at = "unjournal" /\ ~edited => file = head

\* The entry the user wrote is in what a publication starts from.
Owning ==
    own.wrote /\ ~own.raced =>
      /\ Mine \in file
      /\ job.at \in {"baseline", "journal", "write"} => Mine \in Pending.base

IInv ==
    /\ Types /\ Ahead /\ Committed /\ Settled /\ Composed /\ Journaled /\ Reading /\ Owning
    /\ ProgressIsPublished

\* The titles and the entries are apart.
LEMMA EntryFacts ==
  /\ Title # Mine /\ Title \in Entries /\ Mine \in Entries
  /\ \A s \in Sessions, i \in 1 .. MaxSeq :
        <<s, i>> \in Entries /\ <<s, i>> # Title /\ <<s, i>> # Mine
  <1>1. ASSUME NEW i \in 1 .. MaxSeq PROVE i # 0
    BY DreamAssumption
  <1>2. \A s, i : (<<s, i>> = Title => i = 0) /\ (<<s, i>> = Mine => i = 0)
    BY DEF Title, Mine
  <1> QED
    BY <1>1, <1>2 DEF Entries, Title, Mine

\* A part that a session's log has is no longer than the log may be.
LEMMA BlockFacts ==
  ASSUME Types, Ahead, job.at # "idle"
  PROVE  /\ job.s \in Sessions /\ Pending \in PendingType
         /\ Pending.to \in Nat /\ Pending.to <= Len(log[job.s])
         /\ log[job.s] \in Seq(Kinds) /\ Len(log[job.s]) \in Nat
         /\ Blocks \subseteq 1 .. MaxSeq
         /\ Blocks \subseteq Visible(SubSeq(log[job.s], 1, Pending.to))
         /\ \A i \in Blocks : i <= Pending.to /\ i > ckpt[job.s].committed
  <1>1. job.s \in Sessions /\ Pending \in PendingType
    BY DEF Types, Pending, CheckpointType
  <1>2. Pending.to \in Nat /\ Pending.to <= Len(log[job.s]) /\ Len(log[job.s]) <= MaxSeq
    BY <1>1 DEF Ahead, Pending, PendingType
  <1>3. log[job.s] \in Seq(Kinds) /\ Len(log[job.s]) \in Nat
    BY <1>1, LogFacts DEF Types
  <1> DEFINE p == SubSeq(log[job.s], 1, Pending.to)
  <1>4. p \in Seq(Kinds) /\ Len(p) = Pending.to
    BY <1>2, <1>3, PartFacts
  <1>5. Visible(p) \subseteq 1 .. Pending.to
    BY <1>4, VisibleFacts
  <1>6. Blocks \subseteq Visible(p) /\ \A i \in Blocks : i > ckpt[job.s].committed
    BY DEF Blocks
  <1>7. 1 .. Pending.to \subseteq 1 .. MaxSeq
    BY <1>2, <1>3, DreamAssumption
  <1> HIDE DEF p
  <1>8. \A i \in Blocks : i <= Pending.to
    BY <1>5, <1>6
  <1>9. Blocks \subseteq 1 .. MaxSeq
    BY <1>5, <1>6, <1>7
  <1> QED
    BY <1>1, <1>2, <1>3, <1>6, <1>8, <1>9 DEF p

\* What was pending stays so, while neither log nor checkpoint change.
LEMMA SameBlocks ==
  ASSUME UNCHANGED <<log, ckpt>>, job'.s = job.s
  PROVE  Pending' = Pending /\ Blocks' = Blocks
  <1>1. Pending' = Pending
    BY DEF Pending
  <1> QED
    BY <1>1 DEF Blocks

\* A journal that is settled leaves what a reader may see, and the user's entry.
LEMMA Settles ==
  ASSUME IInv, Recover
  PROVE  /\ journal' \in [before : SUBSET Entries, after : SUBSET Entries, on : BOOLEAN]
         /\ ~journal'.on /\ file' \subseteq Entries /\ Kept(file') \subseteq ever
         /\ ~edited /\ ~own.raced => file' = head
         /\ own.wrote /\ ~own.raced => Mine \in file'
         /\ ~journal.on => file' = file
  <1>1. /\ journal.on \in BOOLEAN /\ file \subseteq Entries
        /\ journal.before \subseteq Entries /\ journal.after \subseteq Entries
        /\ journal \in [before : SUBSET Entries, after : SUBSET Entries, on : BOOLEAN]
    BY DEF IInv, Types
  <1>2. CASE ~journal.on
    BY <1>1, <1>2 DEF Recover, IInv, Committed, Reading, Owning
  <1>3. CASE journal.on
    <2>1. /\ ~Reconcile /\ journal' = None
          /\ file' = IF head = journal.after THEN file ELSE journal.before
      BY <1>3 DEF Recover
    <2>2. /\ file = journal.before \/ file = journal.after
          /\ head = journal.after => file = journal.after
      BY <1>3, <2>1 DEF Reconcile
    <2>3. journal' \in [before : SUBSET Entries, after : SUBSET Entries, on : BOOLEAN]
      BY <2>1 DEF None
    <2>4. ~journal'.on
      BY <2>1 DEF None
    <2>5. file' \subseteq Entries
      BY <1>1, <2>1
    <2>6. Kept(file') \subseteq ever
      BY <1>3, <2>1, <2>2 DEF IInv, Committed
    <2>7. ~edited /\ ~own.raced => file' = head
      BY <1>3, <2>1, <2>2 DEF IInv, Reading
    <2>8. own.wrote /\ ~own.raced => Mine \in file'
      BY <1>3, <2>1, <2>2 DEF IInv, Committed, Owning
    <2> QED
      BY <1>3, <2>3, <2>4, <2>5, <2>6, <2>7, <2>8
  <1> QED
    BY <1>2, <1>3

\* The invariant holds at first.
LEMMA InitIInv == Init => IInv
  <1> SUFFICES ASSUME Init PROVE IInv
    OBVIOUS
  <1>1. <<>> \in Seq(Kinds) /\ Len(<<>>) = 0
    OBVIOUS
  <1>2. NoPending \in PendingType /\ Fresh \in CheckpointType
    BY EntryFacts DEF NoPending, Fresh, PendingType, CheckpointType
  <1>3. /\ log \in [Sessions -> Seq(Kinds)] /\ ckpt \in [Sessions -> CheckpointType]
        /\ processed \in [Sessions -> Nat]
    BY <1>1, <1>2 DEF Init
  <1>4. Types
    BY <1>3 DEF Types, Init, None, Idle, Stages
  <1>5. Ahead
    BY <1>1, DreamAssumption DEF Ahead, Init, Fresh, NoPending, Idle
  <1>6. Committed
    BY DEF Committed, Init, Fresh, NoPending, None, Kept
  <1>7. Settled /\ Composed /\ Journaled /\ Reading /\ Owning
    BY DEF Settled, Composed, Journaled, Reading, Owning, Composing, Init, Idle, None
  <1>8. ProgressIsPublished
    <2>1. Visible(<<>>) = {}
      <3>1. Visible(<<>>) \subseteq 1 .. Len(<<>>)
        BY <1>1, VisibleFacts
      <3>2. 1 .. Len(<<>>) = {}
        BY <1>1
      <3> QED
        BY <3>1, <3>2, Zenon
    <2>2. \A s \in Sessions : log[s] = <<>>
      BY DEF Init
    <2> QED
      BY <2>1, <2>2 DEF ProgressIsPublished
  <1> QED
    BY <1>4, <1>5, <1>6, <1>7, <1>8 DEF IInv

------------------------------------------------------------------------------
(* Every step keeps it: around the consolidation.                           *)

\* A message: it is newer than all progress, and no part that was read changes.
LEMMA ConverseStep ==
  ASSUME IInv, NEW s \in Sessions, Converse(s) PROVE IInv'
  <1>1. /\ log' = [log EXCEPT ![s] = Append(@, "pref")]
        /\ UNCHANGED <<ckpt, processed, file, head, journal, job, edits, faults, ever, own, edited>>
        /\ Len(log[s]) < MaxSeq
    BY RoomInLog DEF Converse, IInv, Types
  <1>2. log \in [Sessions -> Seq(Kinds)]
    BY DEF IInv, Types
  <1>3. /\ log' \in [Sessions -> Seq(Kinds)]
        /\ \A t \in Sessions : t # s => log'[t] = log[t]
        /\ log'[s] = Append(log[s], "pref") /\ log[s] \in Seq(Kinds)
        /\ Len(log'[s]) = Len(log[s]) + 1 /\ Len(log[s]) \in Nat
    BY <1>1, <1>2, AppendFacts, LogFacts DEF Kinds
  <1>4. Types'
    BY <1>1, <1>3 DEF IInv, Types
  <1>5. \A t \in Sessions : /\ ckpt[t].committed \in Nat /\ ckpt[t].pending.to \in Nat
                            /\ processed[t] \in Nat /\ Len(log[t]) \in Nat
    BY <1>2, LogFacts DEF IInv, Types, CheckpointType, PendingType
  <1>6. Ahead'
    <2>1. \A t \in Sessions : Len(log'[t]) <= MaxSeq /\ Len(log[t]) <= Len(log'[t])
      BY <1>1, <1>3, <1>5, DreamAssumption DEF IInv, Ahead
    <2>2. \A t \in Sessions : Len(log'[t]) \in Nat
      BY <1>3, LogFacts
    <2>3. job.at # "idle" => job.s \in Sessions /\ job.len \in Nat
      BY DEF IInv, Types
    <2> QED
      BY <1>1, <1>5, <2>1, <2>2, <2>3 DEF IInv, Ahead
  <1>7. Committed' /\ Settled' /\ Pending' = Pending
    BY <1>1 DEF IInv, Committed, Settled, Pending
  <1>8. ASSUME job.at # "idle"
        PROVE  Blocks' = Blocks /\ (RewoundAfter(log'[job.s], Pending.to)
                                      => RewoundAfter(log[job.s], Pending.to))
    <2>1. /\ Pending.to \in Nat /\ Pending.to <= Len(log[job.s]) /\ job.s \in Sessions
      BY <1>8, BlockFacts DEF IInv
    <2>2. CASE job.s = s
      <3>1. SubSeq(log'[job.s], 1, Pending.to) = SubSeq(log[job.s], 1, Pending.to)
        <4>1. log[s] \in Seq(Kinds) /\ "pref" \in Kinds /\ Pending.to <= Len(log[s])
          BY <1>3, <2>1, <2>2 DEF Kinds
        <4>2. SubSeq(Append(log[s], "pref"), 1, Pending.to) = SubSeq(log[s], 1, Pending.to)
          BY <2>1, <4>1, PartOfAppend
        <4> QED
          BY <1>3, <2>2, <4>2
      <3>2. Blocks' = Blocks
        BY <1>1, <1>7, <3>1 DEF Blocks
      <3>3. ASSUME RewoundAfter(log'[job.s], Pending.to)
            PROVE  RewoundAfter(log[job.s], Pending.to)
        <4>1. PICK i \in Pending.to + 1 .. Len(log[s]) + 1 : log'[s][i] = "rewind"
          BY <1>3, <2>2, <3>3 DEF RewoundAfter
        <4>2. /\ log'[s][Len(log[s]) + 1] = "pref"
              /\ \A k \in 1 .. Len(log[s]) : log'[s][k] = log[s][k]
          BY <1>3, AppendFacts DEF Kinds
        <4>3. i \in Pending.to + 1 .. Len(log[s]) /\ i \in 1 .. Len(log[s])
          BY <1>3, <2>1, <2>2, <4>1, <4>2
        <4> QED
          BY <2>2, <4>1, <4>2, <4>3 DEF RewoundAfter
      <3> QED
        BY <3>2, <3>3
    <2>3. CASE job.s # s
      BY <1>1, <1>3, <1>7, <2>1, <2>3 DEF Blocks
    <2> QED
      BY <2>2, <2>3
  <1>9. Composed'
    <2>1. job.at \in Composing => job.at # "idle"
      BY DEF Composing
    <2> QED
      BY <1>1, <1>7, <1>8, <2>1 DEF IInv, Composed
  <1>10. Journaled' /\ Reading' /\ Owning'
    BY <1>1, <1>7 DEF IInv, Journaled, Reading, Owning
  <1>11. ProgressIsPublished'
    <2> SUFFICES ASSUME NEW t \in Sessions, NEW i \in Visible(log'[t]),
                        i <= ckpt[t].committed \/ i <= processed[t]
                 PROVE  <<t, i>> \in ever
      BY <1>1 DEF ProgressIsPublished
    <2>1. i \in Visible(log[t])
      <3>1. CASE t = s
        <4>1. i \in Visible(log[s]) \/ i = Len(log[s]) + 1
          BY <1>3, <3>1, VisibleOfAppend DEF Kinds
        <4>2. i # Len(log[s]) + 1
          BY <1>3, <1>5, <3>1 DEF IInv, Ahead
        <4> QED
          BY <3>1, <4>1, <4>2
      <3>2. CASE t # s
        BY <1>3, <3>2
      <3> QED
        BY <3>1, <3>2
    <2> QED
      BY <2>1 DEF IInv, ProgressIsPublished
  <1> QED
    BY <1>4, <1>6, <1>7, <1>9, <1>10, <1>11 DEF IInv

\* A marker: no consolidation is under way, and no message is shown again.
LEMMA RewindStep ==
  ASSUME IInv, NEW s \in Sessions, Rewind(s) PROVE IInv'
  <1>1. /\ log' = [log EXCEPT ![s] = Append(@, "rewind")]
        /\ UNCHANGED <<processed, file, head, journal, job, edits, ever, own, edited>>
        /\ Len(log[s]) < MaxSeq /\ job.at = "idle" /\ job'.at = "idle"
    BY RoomInLog DEF Rewind, IInv, Types
  <1>2. log \in [Sessions -> Seq(Kinds)] /\ ckpt \in [Sessions -> CheckpointType]
    BY DEF IInv, Types
  <1>3. /\ log' \in [Sessions -> Seq(Kinds)]
        /\ \A t \in Sessions : t # s => log'[t] = log[t]
        /\ log'[s] = Append(log[s], "rewind") /\ log[s] \in Seq(Kinds)
        /\ Len(log'[s]) = Len(log[s]) + 1 /\ Len(log[s]) \in Nat
    BY <1>1, <1>2, AppendFacts, LogFacts DEF Kinds
  <1>4. /\ NoPending \in PendingType /\ NoPending.to = 0 /\ NoPending.base = {}
    BY EntryFacts DEF NoPending, PendingType
  <1>5. ckpt' = ckpt \/ ckpt' = [ckpt EXCEPT ![s] = [ckpt[s] EXCEPT !.pending = NoPending]]
    <2>1. ckpt' = ckpt \/ ckpt' = [ckpt EXCEPT ![s] = Invalidated(ckpt[s], log'[s])]
      BY DEF Rewind
    <2>2. ckpt = [ckpt EXCEPT ![s] = ckpt[s]]
      BY <1>2
    <2> QED
      BY <2>1, <2>2 DEF Invalidated
  <1>6. /\ ckpt' \in [Sessions -> CheckpointType]
        /\ \A t \in Sessions : /\ ckpt'[t].committed = ckpt[t].committed
                               /\ ckpt'[t].pending \in {ckpt[t].pending, NoPending}
    <2> DEFINE d == [ckpt[s] EXCEPT !.pending = NoPending]
    <2>1. /\ d \in CheckpointType /\ d.committed = ckpt[s].committed
          /\ d.pending = NoPending
      BY <1>2, <1>4 DEF CheckpointType
    <2>2. ckpt' = ckpt \/ ckpt' = [ckpt EXCEPT ![s] = d]
      BY <1>5
    <2> HIDE DEF d
    <2> QED
      BY <1>2, <2>1, <2>2
  <1>7. Types'
    BY <1>1, <1>3, <1>6 DEF IInv, Types
  <1>8. \A t \in Sessions : /\ ckpt[t].committed \in Nat /\ ckpt[t].pending.to \in Nat
                            /\ processed[t] \in Nat /\ Len(log[t]) \in Nat
                            /\ Len(log'[t]) \in Nat
    BY <1>2, <1>3, LogFacts DEF IInv, Types, CheckpointType, PendingType
  <1>9. Ahead'
    <2>1. \A t \in Sessions : Len(log'[t]) <= MaxSeq /\ Len(log[t]) <= Len(log'[t])
      BY <1>1, <1>3, <1>8, DreamAssumption DEF IInv, Ahead
    <2>2. \A t \in Sessions : ckpt'[t].pending.to \in {ckpt[t].pending.to, 0}
      BY <1>4, <1>6
    <2> QED
      BY <1>1, <1>6, <1>8, <2>1, <2>2 DEF IInv, Ahead
  <1>10. Committed'
    <2>1. \A t \in Sessions : Kept(ckpt'[t].pending.base) \subseteq ever
      BY <1>4, <1>6 DEF IInv, Committed, Kept
    <2> QED
      BY <1>1, <2>1 DEF IInv, Committed
  <1>11. Settled' /\ Composed' /\ Journaled' /\ Reading' /\ Owning'
    BY <1>1 DEF IInv, Settled, Composed, Composing, Journaled, Reading, Owning
  <1>12. ProgressIsPublished'
    <2> SUFFICES ASSUME NEW t \in Sessions, NEW i \in Visible(log'[t]),
                        i <= ckpt[t].committed \/ i <= processed[t]
                 PROVE  <<t, i>> \in ever
      BY <1>1, <1>6 DEF ProgressIsPublished
    <2>1. i \in Visible(log[t])
      BY <1>3, VisibleOfAppend DEF Kinds
    <2> QED
      BY <2>1 DEF IInv, ProgressIsPublished
  <1> QED
    BY <1>7, <1>9, <1>10, <1>11, <1>12 DEF IInv

\* The user's edit brings no preference in; it takes his entry only when he does.
LEMMA UserEditStep ==
  ASSUME IInv, UserEdit PROVE IInv'
  <1>1. /\ UNCHANGED <<log, ckpt, processed, head, journal, job, faults, ever>>
        /\ edited' = TRUE
    BY DEF UserEdit
  <1>2. PICK e \in file \cup {Mine} :
          /\ file' = IF e = Title THEN {}
                     ELSE IF e \in file THEN file \ {e} ELSE file \cup {Title, e}
          /\ own' = [wrote |-> IF e = Mine THEN e \notin file ELSE own.wrote /\ e # Title,
                     raced |-> own.raced \/ job.at \in {"baseline", "journal", "write"}]
    BY DEF UserEdit
  <1>3. Kept(file') \subseteq Kept(file) /\ file' \subseteq Entries
    BY <1>2, EntryFacts DEF Kept, IInv, Types
  <1>4. own' \in [wrote : BOOLEAN, raced : BOOLEAN]
    BY <1>2
  <1>5. Types'
    BY <1>1, <1>3, <1>4 DEF IInv, Types
  <1>6. Ahead' /\ Settled' /\ Journaled' /\ ProgressIsPublished'
    BY <1>1 DEF IInv, Ahead, Settled, Journaled, ProgressIsPublished, Pending
  <1>7. Pending' = Pending /\ Blocks' = Blocks
    BY <1>1, SameBlocks
  <1>8. Composed'
    BY <1>1, <1>7 DEF IInv, Composed
  <1>9. Committed'
    BY <1>1, <1>3 DEF IInv, Committed
  <1>10. Reading'
    BY <1>1 DEF Reading
  <1>11. Owning'
    <2>1. SUFFICES ASSUME own'.wrote, ~own'.raced
                   PROVE  /\ Mine \in file'
                          /\ job'.at \notin {"baseline", "journal", "write"}
      BY DEF Owning
    <2>2. own'.raced <=> own.raced \/ job.at \in {"baseline", "journal", "write"}
      BY <1>2
    <2>3. job.at \notin {"baseline", "journal", "write"} /\ ~own.raced
      BY <2>1, <2>2
    <2>4. own'.wrote <=> IF e = Mine THEN e \notin file ELSE own.wrote /\ e # Title
      BY <1>2
    <2>5. CASE e = Mine
      BY <1>1, <1>2, <2>1, <2>3, <2>4, <2>5, EntryFacts
    <2>6. CASE e # Mine
      <3>1. own.wrote /\ e # Title /\ e \in file
        BY <2>1, <2>4, <2>6
      <3>2. Mine \in file
        BY <2>3, <3>1 DEF IInv, Owning
      <3> QED
        BY <1>1, <1>2, <2>3, <2>6, <3>1, <3>2
    <2> QED
      BY <1>1, <2>3, <2>5, <2>6
  <1> QED
    BY <1>5, <1>6, <1>8, <1>9, <1>10, <1>11 DEF IInv

------------------------------------------------------------------------------
(* Every step keeps it: up to what is to be published.                      *)

\* A consolidation starts with the events there are.
LEMMA StartStep ==
  ASSUME IInv, NEW s \in Sessions, Start(s) PROVE IInv'
  <1>1. /\ job' = [at |-> "recover", s |-> s, len |-> Len(log[s]), cand |-> {}]
        /\ UNCHANGED <<log, ckpt, processed, file, head, journal, edits, faults, ever, own, edited>>
    BY DEF Start, Idle
  <1>2. Len(log[s]) \in Nat
    BY LogFacts DEF IInv, Types
  <1>3. Types'
    BY <1>1, <1>2 DEF IInv, Types, Stages
  <1>4. Ahead' /\ Committed' /\ ProgressIsPublished'
    BY <1>1, <1>2 DEF IInv, Ahead, Committed, ProgressIsPublished
  <1>5. Settled' /\ Composed' /\ Journaled' /\ Reading' /\ Owning'
    BY <1>1 DEF IInv, Settled, Composed, Composing, Journaled, Reading, Owning
  <1> QED
    BY <1>3, <1>4, <1>5 DEF IInv

\* A consolidation that ends leaves all as it was.
LEMMA StopsStep ==
  ASSUME IInv, Stops,
         UNCHANGED <<log, ckpt, processed, file, head, journal, ever, own, edited>>
  PROVE  IInv'
  <1>1. job' = [at |-> "idle", s |-> "none", len |-> 0, cand |-> {}]
    BY DEF Stops, Idle
  <1>2. Types'
    BY <1>1 DEF IInv, Types, Stages
  <1>3. Ahead' /\ Committed' /\ ProgressIsPublished'
    BY <1>1 DEF IInv, Ahead, Committed, ProgressIsPublished
  <1>4. Settled' /\ Composed' /\ Journaled' /\ Reading' /\ Owning'
    BY <1>1 DEF IInv, Settled, Composed, Composing, Journaled, Reading, Owning
  <1> QED
    BY <1>2, <1>3, <1>4 DEF IInv

\* A journal is settled, and the consolidation goes on with none, or ends.
LEMMA SettlesStep ==
  ASSUME IInv, Recover, job' = Idle \/ (job.at # "idle" /\ job' = [job EXCEPT !.at = "prepare"]),
         UNCHANGED <<log, ckpt, processed, head, ever, own, edited>>
  PROVE  IInv'
  <1>1. /\ journal' \in [before : SUBSET Entries, after : SUBSET Entries, on : BOOLEAN]
        /\ ~journal'.on /\ file' \subseteq Entries /\ Kept(file') \subseteq ever
        /\ ~edited /\ ~own.raced => file' = head
        /\ own.wrote /\ ~own.raced => Mine \in file'
    BY Settles
  <1>2. /\ job' \in [at : Stages, s : Sessions \cup {"none"}, len : Nat, cand : SUBSET Entries]
        /\ job'.at \in {"idle", "prepare"}
        /\ job'.at # "idle" => job'.s = job.s /\ job'.len = job.len /\ job.at # "idle"
    <2>1. job \in [at : Stages, s : Sessions \cup {"none"}, len : Nat, cand : SUBSET Entries]
      BY DEF IInv, Types
    <2>2. CASE job.at # "idle" /\ job' = [job EXCEPT !.at = "prepare"]
      BY <2>1, <2>2 DEF Stages
    <2>3. CASE job' = Idle
      BY <2>3 DEF Idle, Stages
    <2> QED
      BY <2>2, <2>3
  <1>3. Types'
    BY <1>1, <1>2 DEF IInv, Types
  <1>4. Ahead' /\ Committed' /\ ProgressIsPublished'
    BY <1>1, <1>2 DEF IInv, Ahead, Committed, ProgressIsPublished
  <1>5. Settled' /\ Composed' /\ Journaled'
    BY <1>1, <1>2 DEF IInv, Settled, Composed, Composing, Journaled
  <1>6. Reading' /\ Owning'
    BY <1>1, <1>2 DEF IInv, Reading, Owning
  <1> QED
    BY <1>3, <1>4, <1>5, <1>6 DEF IInv

\* Nothing starts on a journal that cannot be settled.
LEMMA RecoverFirstStep ==
  ASSUME IInv, RecoverFirst PROVE IInv'
  <1>1. /\ job.at = "recover"
        /\ UNCHANGED <<log, ckpt, processed, head, edits, faults, ever, own, edited>>
        /\ \/ Recover /\ job' = [job EXCEPT !.at = "prepare"]
           \/ Stops /\ UNCHANGED <<file, journal>>
    BY DEF RecoverFirst
  <1> QED
    BY <1>1, SettlesStep, StopsStep

\* The snapshot starts from the file while no journal is there, or from the one
\* it started from before.
LEMMA PrepareStep ==
  ASSUME IInv, Prepare PROVE IInv'
  <1> DEFINE s == job.s
             c == Invalidated(ckpt[s], SubSeq(log[s], 1, job.len))
             q == Resumed(c, file, job.len)
  <1>1. /\ job.at = "prepare"
        /\ UNCHANGED <<log, processed, file, head, journal, edits, faults, ever, own, edited>>
        /\ \/ Stops /\ ckpt' = [ckpt EXCEPT ![s] = c]
           \/ /\ ckpt' = [ckpt EXCEPT ![s] = [c EXCEPT !.pending = q]]
              /\ job' = [job EXCEPT !.at = "extract"]
    BY DEF Prepare
  <1>2. /\ s \in Sessions /\ ckpt[s] \in CheckpointType /\ ckpt \in [Sessions -> CheckpointType]
        /\ job.len \in Nat /\ job.len <= Len(log[s]) /\ ckpt[s].pending.to <= Len(log[s])
        /\ Len(log[s]) \in Nat /\ file \subseteq Entries
    BY <1>1, LogFacts DEF IInv, Types, Ahead
  <1>3. NoPending \in PendingType /\ NoPending.to = 0 /\ NoPending.base = {}
    BY EntryFacts DEF NoPending, PendingType
  <1>4. /\ c \in CheckpointType /\ c.committed = ckpt[s].committed
        /\ c.pending \in {ckpt[s].pending, NoPending}
    BY <1>2, <1>3 DEF Invalidated, CheckpointType
  <1> HIDE DEF c
  <1>5. /\ q \in PendingType /\ q.to \in {c.pending.to, job.len}
        /\ q.base \in {c.pending.base, file}
    <2>1. c.pending \in PendingType
      BY <1>4 DEF CheckpointType
    <2>2. CASE q = c.pending
      BY <2>1, <2>2
    <2>3. CASE q = [NoPending EXCEPT !.to = job.len, !.base = file, !.on = TRUE]
      <3>1. q = [to |-> job.len, base |-> file, done |-> {}, published |-> {Mine}, on |-> TRUE]
        BY <2>3 DEF NoPending
      <3>2. q \in PendingType
        BY <1>2, <3>1, EntryFacts DEF PendingType
      <3> QED
        BY <3>1, <3>2
    <2>4. q = c.pending \/ q = [NoPending EXCEPT !.to = job.len, !.base = file, !.on = TRUE]
      BY DEF Resumed
    <2> QED
      BY <2>2, <2>3, <2>4
  <1> HIDE DEF q
  <1> DEFINE d == ckpt'[s]
  <1>6. /\ d \in CheckpointType /\ d.committed = ckpt[s].committed
        /\ d.pending.to \in {ckpt[s].pending.to, 0, job.len}
        /\ d.pending.base \in {ckpt[s].pending.base, {}, file}
        /\ ckpt' = [ckpt EXCEPT ![s] = d]
    <2>1. d = c \/ d = [c EXCEPT !.pending = q]
      BY <1>1, <1>2
    <2>2. ckpt' = [ckpt EXCEPT ![s] = d]
      BY <1>1, <1>2
    <2>3. CASE d = c
      <3> HIDE DEF d
      <3> QED
        BY <1>3, <1>4, <2>2, <2>3
    <2>4. CASE d = [c EXCEPT !.pending = q]
      <3> HIDE DEF d
      <3>1. d \in CheckpointType /\ d.committed = c.committed /\ d.pending = q
        BY <1>4, <1>5, <2>4 DEF CheckpointType
      <3> QED
        BY <1>3, <1>4, <1>5, <2>2, <3>1
    <2> QED
      BY <2>1, <2>3, <2>4
  <1> HIDE DEF d
  <1>7. /\ ckpt' \in [Sessions -> CheckpointType]
        /\ \A t \in Sessions : t # s => ckpt'[t] = ckpt[t]
        /\ ckpt'[s] = d
    BY <1>2, <1>6
  <1>8. /\ job' \in [at : Stages, s : Sessions \cup {"none"}, len : Nat, cand : SUBSET Entries]
        /\ job'.at \in {"idle", "extract"}
        /\ job'.at # "idle" => job'.s = s /\ job'.len = job.len
    <2>1. job \in [at : Stages, s : Sessions \cup {"none"}, len : Nat, cand : SUBSET Entries]
      BY DEF IInv, Types
    <2>2. CASE job' = [job EXCEPT !.at = "extract"]
      BY <2>1, <2>2 DEF Stages
    <2>3. CASE Stops
      BY <2>3 DEF Stops, Idle, Stages
    <2> QED
      BY <1>1, <2>2, <2>3
  <1>9. Types'
    BY <1>1, <1>2, <1>7, <1>8 DEF IInv, Types
  <1>10. Ahead'
    <2>1. \A t \in Sessions : /\ ckpt'[t].committed <= Len(log[t])
                              /\ ckpt'[t].pending.to <= Len(log[t])
      BY <1>2, <1>6, <1>7 DEF IInv, Ahead
    <2> QED
      BY <1>1, <1>2, <1>8, <2>1 DEF IInv, Ahead
  <1>11. Committed'
    <2>1. ~journal.on
      BY <1>1 DEF IInv, Settled
    <2>2. \A t \in Sessions : Kept(ckpt'[t].pending.base) \subseteq ever
      BY <1>2, <1>6, <1>7, <2>1 DEF IInv, Committed, Kept
    <2> QED
      BY <1>1, <2>1, <2>2 DEF IInv, Committed
  <1>12. Settled' /\ Composed' /\ Journaled' /\ Reading' /\ Owning'
    BY <1>1, <1>8 DEF IInv, Settled, Composed, Composing, Journaled, Reading, Owning
  <1>13. ProgressIsPublished'
    <2>1. \A t \in Sessions : ckpt'[t].committed = ckpt[t].committed
      BY <1>6, <1>7
    <2> QED
      BY <1>1, <2>1 DEF IInv, ProgressIsPublished
  <1> QED
    BY <1>9, <1>10, <1>11, <1>12, <1>13 DEF IInv

\* The model's answer for a block changes only which blocks are done.
LEMMA ExtractStep ==
  ASSUME IInv, Extract PROVE IInv'
  <1>1. /\ job.at = "extract"
        /\ UNCHANGED <<log, processed, file, head, journal, job, edits, faults, ever, own, edited>>
    BY DEF Extract
  <1>2. PICK i \in Blocks \ Pending.done :
          ckpt' = [ckpt EXCEPT ![job.s].pending.done = @ \cup {i}]
    BY DEF Extract
  <1>3. job.s \in Sessions /\ i \in 1 .. MaxSeq
    BY <1>1, BlockFacts DEF IInv
  <1>4. ckpt \in [Sessions -> CheckpointType]
    BY DEF IInv, Types
  <1> DEFINE c == ckpt[job.s]
             d == [c EXCEPT !.pending = [c.pending EXCEPT !.done = c.pending.done \cup {i}]]
  <1>5. ckpt' = [ckpt EXCEPT ![job.s] = d]
    BY <1>2, <1>3, <1>4
  <1>6. /\ d \in CheckpointType /\ d.committed = c.committed
        /\ d.pending.to = c.pending.to /\ d.pending.base = c.pending.base
    BY <1>3, <1>4 DEF CheckpointType, PendingType
  <1> HIDE DEF d
  <1>7. /\ ckpt' \in [Sessions -> CheckpointType]
        /\ \A t \in Sessions : /\ ckpt'[t].committed = ckpt[t].committed
                               /\ ckpt'[t].pending.to = ckpt[t].pending.to
                               /\ ckpt'[t].pending.base = ckpt[t].pending.base
    BY <1>3, <1>4, <1>5, <1>6
  <1>8. Types'
    BY <1>1, <1>7 DEF IInv, Types
  <1>9. Ahead' /\ Committed' /\ ProgressIsPublished'
    BY <1>1, <1>7 DEF IInv, Ahead, Committed, ProgressIsPublished
  <1>10. Settled' /\ Composed' /\ Journaled' /\ Reading' /\ Owning'
    BY <1>1 DEF IInv, Settled, Composed, Composing, Journaled, Reading, Owning
  <1> QED
    BY <1>8, <1>9, <1>10 DEF IInv

\* What is to be published is what it starts from and the blocks; no marker took
\* one back.
LEMMA VerifyStep ==
  ASSUME IInv, Verify PROVE IInv'
  <1>1. /\ job.at = "extract"
        /\ UNCHANGED <<log, processed, file, head, journal, edits, faults, ever, own, edited>>
    BY DEF Verify
  <1>2. CASE RewoundAfter(log[job.s], Pending.to)
    BY <1>1, <1>2, StopsStep DEF Verify
  <1>3. CASE ~RewoundAfter(log[job.s], Pending.to)
    <2>1. /\ job' = [job EXCEPT !.at = "check", !.cand = Candidate]
          /\ ckpt' = [ckpt EXCEPT ![job.s].pending.published = Candidate]
      BY <1>3 DEF Verify
    <2>2. /\ job.s \in Sessions /\ Blocks \subseteq 1 .. MaxSeq
          /\ Pending.base \subseteq Entries
      BY <1>1, BlockFacts DEF IInv, PendingType
    <2>3. Candidate \subseteq Entries
      BY <2>2, EntryFacts DEF Candidate
    <2>4. /\ Pending.base \subseteq Candidate
          /\ \A i \in Blocks : <<job.s, i>> \in Candidate
          /\ Candidate \subseteq Pending.base \cup {<<job.s, i>> : i \in Blocks} \cup {Title}
      BY DEF Candidate
    <2>5. ckpt \in [Sessions -> CheckpointType]
      BY DEF IInv, Types
    <2> DEFINE K == Candidate
               c == ckpt[job.s]
               d == [c EXCEPT !.pending = [c.pending EXCEPT !.published = K]]
    <2>6. ckpt' = [ckpt EXCEPT ![job.s] = d]
      BY <2>1, <2>2, <2>5
    <2>7. K \subseteq Entries
      BY <2>3
    <2> HIDE DEF K
    <2>8. /\ d \in CheckpointType /\ d.committed = c.committed
          /\ d.pending.to = c.pending.to /\ d.pending.base = c.pending.base
      BY <2>2, <2>5, <2>7 DEF CheckpointType, PendingType
    <2> HIDE DEF d
    <2>9. /\ ckpt' \in [Sessions -> CheckpointType]
          /\ \A t \in Sessions : /\ ckpt'[t].committed = ckpt[t].committed
                                 /\ ckpt'[t].pending.to = ckpt[t].pending.to
                                 /\ ckpt'[t].pending.base = ckpt[t].pending.base
      BY <2>2, <2>5, <2>6, <2>8
    <2>10. /\ job' \in [at : Stages, s : Sessions \cup {"none"}, len : Nat, cand : SUBSET Entries]
           /\ job'.at = "check" /\ job'.s = job.s /\ job'.len = job.len /\ job'.cand = K
      <3>1. job \in [at : Stages, s : Sessions \cup {"none"}, len : Nat, cand : SUBSET Entries]
        BY DEF IInv, Types
      <3>2. job' = [job EXCEPT !.at = "check", !.cand = K]
        BY <2>1 DEF K
      <3> QED
        BY <3>1, <3>2, <2>7 DEF Stages
    <2>11. Types'
      BY <1>1, <2>2, <2>9, <2>10 DEF IInv, Types
    <2>12. Ahead' /\ Committed' /\ ProgressIsPublished'
      BY <1>1, <2>9, <2>10 DEF IInv, Ahead, Committed, ProgressIsPublished
    <2>13. Pending'.to = Pending.to /\ Pending'.base = Pending.base
      BY <2>2, <2>9, <2>10 DEF Pending
    <2>14. Blocks' = Blocks
      BY <1>1, <2>2, <2>9, <2>10, <2>13 DEF Blocks
    <2>15. Composed'
      <3>1. /\ Pending.base \subseteq K /\ \A i \in Blocks : <<job.s, i>> \in K
            /\ K \subseteq Pending.base \cup {<<job.s, i>> : i \in Blocks} \cup {Title}
        BY <2>4 DEF K
      <3> QED
        BY <1>1, <1>3, <2>10, <2>13, <2>14, <3>1 DEF Composed
    <2>16. Settled' /\ Journaled' /\ Reading' /\ Owning'
      BY <1>1, <2>10 DEF IInv, Settled, Journaled, Reading, Owning
    <2> QED
      BY <2>11, <2>12, <2>15, <2>16 DEF IInv
  <1> QED
    BY <1>2, <1>3

------------------------------------------------------------------------------
(* Every step keeps it: the publication.                                    *)

\* A consolidation that goes on to another stage keeps what it has in hand.
LEMMA GoesOn ==
  ASSUME IInv, NEW to \in Stages, job' = [job EXCEPT !.at = to], job.at # "idle",
         UNCHANGED <<log, ckpt>>
  PROVE  /\ job' \in [at : Stages, s : Sessions \cup {"none"}, len : Nat, cand : SUBSET Entries]
         /\ job'.at = to /\ job'.s = job.s /\ job'.len = job.len /\ job'.cand = job.cand
         /\ Pending' = Pending /\ Blocks' = Blocks
         /\ job.at \in Composing => Composed'
  <1>1. job \in [at : Stages, s : Sessions \cup {"none"}, len : Nat, cand : SUBSET Entries]
    BY DEF IInv, Types
  <1>2. /\ job' \in [at : Stages, s : Sessions \cup {"none"}, len : Nat, cand : SUBSET Entries]
        /\ job'.at = to /\ job'.s = job.s /\ job'.len = job.len /\ job'.cand = job.cand
    BY <1>1
  <1>3. Pending' = Pending /\ Blocks' = Blocks
    BY <1>2, SameBlocks
  <1>4. job.at \in Composing => Composed'
    BY <1>2, <1>3 DEF IInv, Composed
  <1> QED
    BY <1>2, <1>3, <1>4

\* The file is compared with the one the edits were made on: the publication goes
\* on from that file, or is there already, or is not needed.
LEMMA CheckStep ==
  ASSUME IInv, Check PROVE IInv'
  <1>1. /\ job.at = "check" /\ ~journal.on
        /\ UNCHANGED <<log, ckpt, processed, head, edits, faults, ever, own, edited>>
    BY DEF Check, IInv, Settled
  <1>2. /\ UNCHANGED <<file, journal>>
        /\ \/ job' = Idle
           \/ job' = [job EXCEPT !.at = "finish"] /\ file = job.cand /\ head = job.cand
           \/ /\ file = Pending.base
              /\ job' = [job EXCEPT !.at = "finish"] /\ job.cand = Pending.base
           \/ file = Pending.base /\ job' = [job EXCEPT !.at = "baseline"]
    BY <1>1 DEF Check, Recover, Stops
  <1>3. CASE job' = Idle
    BY <1>1, <1>2, <1>3, StopsStep DEF Stops
  <1>4. CASE /\ job' = [job EXCEPT !.at = "finish"]
             /\ job.cand = head \/ job.cand = Pending.base
    <2>1. /\ job' \in [at : Stages, s : Sessions \cup {"none"}, len : Nat, cand : SUBSET Entries]
          /\ job'.at = "finish" /\ job'.s = job.s /\ job'.len = job.len /\ job'.cand = job.cand
          /\ Composed'
      BY <1>1, <1>4, GoesOn DEF Stages, Composing
    <2>2. Types'
      BY <1>1, <1>2, <2>1 DEF IInv, Types
    <2>3. Ahead' /\ Committed' /\ ProgressIsPublished'
      BY <1>1, <1>2, <2>1 DEF IInv, Ahead, Committed, ProgressIsPublished
    <2>4. Kept(job.cand) \subseteq ever
      <3>1. Kept(head) \subseteq ever
        BY DEF IInv, Committed
      <3>2. Kept(Pending.base) \subseteq ever
        BY <1>1, BlockFacts DEF IInv, Committed, Pending
      <3> QED
        BY <1>4, <3>1, <3>2
    <2>5. Settled' /\ Journaled' /\ Reading' /\ Owning'
      BY <1>1, <1>2, <2>1, <2>4 DEF IInv, Settled, Journaled, Reading, Owning
    <2> QED
      BY <2>1, <2>2, <2>3, <2>5 DEF IInv
  <1>5. CASE file = Pending.base /\ job' = [job EXCEPT !.at = "baseline"]
    <2>1. /\ job' \in [at : Stages, s : Sessions \cup {"none"}, len : Nat, cand : SUBSET Entries]
          /\ job'.at = "baseline" /\ job'.s = job.s /\ job'.len = job.len
          /\ Composed' /\ Pending' = Pending
      BY <1>1, <1>5, GoesOn DEF Stages, Composing
    <2>2. Types'
      BY <1>1, <1>2, <2>1 DEF IInv, Types
    <2>3. Ahead' /\ Committed' /\ ProgressIsPublished'
      BY <1>1, <1>2, <2>1 DEF IInv, Ahead, Committed, ProgressIsPublished
    <2>4. Settled' /\ Journaled'
      BY <1>1, <1>2, <2>1 DEF IInv, Settled, Journaled
    <2>5. Reading' /\ Owning'
      BY <1>1, <1>2, <1>5, <2>1 DEF IInv, Reading, Owning
    <2> QED
      BY <2>1, <2>2, <2>3, <2>4, <2>5 DEF IInv
  <1> QED
    BY <1>2, <1>3, <1>4, <1>5

\* What the user edited is history before it is changed.
LEMMA BaselineStep ==
  ASSUME IInv, Baseline PROVE IInv'
  <1>1. /\ job.at = "baseline" /\ ~journal.on
        /\ UNCHANGED <<log, ckpt, processed, file, journal, edits, faults, ever, own, edited>>
    BY DEF Baseline, IInv, Settled
  <1>2. CASE Stops /\ UNCHANGED head
    BY <1>1, <1>2, StopsStep
  <1>3. CASE /\ head' = head \/ (head' = file /\ file # head)
             /\ job' = [job EXCEPT !.at = "journal"]
    <2>1. /\ job' \in [at : Stages, s : Sessions \cup {"none"}, len : Nat, cand : SUBSET Entries]
          /\ job'.at = "journal" /\ job'.s = job.s /\ job'.len = job.len
          /\ Composed' /\ Pending' = Pending
      BY <1>1, <1>3, GoesOn DEF Stages, Composing
    <2>2. Types'
      BY <1>1, <1>3, <2>1 DEF IInv, Types
    <2>3. Ahead' /\ ProgressIsPublished'
      BY <1>1, <2>1 DEF IInv, Ahead, ProgressIsPublished
    <2>4. Committed'
      BY <1>1, <1>3 DEF IInv, Committed
    <2>5. Settled' /\ Journaled'
      BY <1>1, <2>1 DEF IInv, Settled, Journaled
    <2>6. Reading' /\ Owning'
      BY <1>1, <1>3, <2>1 DEF IInv, Reading, Owning
    <2> QED
      BY <2>1, <2>2, <2>3, <2>4, <2>5, <2>6 DEF IInv
  <1> QED
    BY <1>1, <1>2, <1>3 DEF Baseline

\* The journal tells how to settle the publication that follows.
LEMMA WriteJournalStep ==
  ASSUME IInv, WriteJournal PROVE IInv'
  <1>1. /\ job.at = "journal" /\ ~journal.on
        /\ journal' = [before |-> Pending.base, after |-> job.cand, on |-> TRUE]
        /\ job' = [job EXCEPT !.at = "write"]
        /\ UNCHANGED <<log, ckpt, processed, file, head, edits, faults, ever, own, edited>>
    BY DEF WriteJournal, IInv, Settled
  <1>2. /\ job' \in [at : Stages, s : Sessions \cup {"none"}, len : Nat, cand : SUBSET Entries]
        /\ job'.at = "write" /\ job'.s = job.s /\ job'.len = job.len /\ job'.cand = job.cand
        /\ Composed' /\ Pending' = Pending
    BY <1>1, GoesOn DEF Stages, Composing
  <1>3. /\ job.s \in Sessions /\ Pending.base \subseteq Entries /\ Blocks \subseteq 1 .. MaxSeq
    BY <1>1, BlockFacts DEF IInv, PendingType
  <1>4. journal' \in [before : SUBSET Entries, after : SUBSET Entries, on : BOOLEAN]
    <2>1. job.cand \subseteq Entries
      BY DEF IInv, Types
    <2> QED
      BY <1>1, <1>3, <2>1
  <1>5. Types'
    BY <1>1, <1>2, <1>4 DEF IInv, Types
  <1>6. Ahead' /\ ProgressIsPublished'
    BY <1>1, <1>2 DEF IInv, Ahead, ProgressIsPublished
  <1>7. Committed'
    <2>1. Mine \in job.cand => Mine \in Pending.base
      <3>1. job.cand \subseteq Pending.base \cup {<<job.s, i>> : i \in Blocks} \cup {Title}
        BY <1>1 DEF IInv, Composed, Composing
      <3>2. \A i \in Blocks : <<job.s, i>> # Mine
        BY <1>3, EntryFacts
      <3> QED
        BY <3>1, <3>2, EntryFacts
    <2>2. Kept(Pending.base) \subseteq ever
      BY <1>3 DEF IInv, Committed, Pending
    <2> QED
      BY <1>1, <2>1, <2>2 DEF IInv, Committed
  <1>8. Settled' /\ Journaled' /\ Reading' /\ Owning'
    BY <1>1, <1>2 DEF IInv, Settled, Journaled, Reading, Owning
  <1> QED
    BY <1>2, <1>5, <1>6, <1>7, <1>8 DEF IInv

\* The file is what the journal says it becomes.
LEMMA WriteFileStep ==
  ASSUME IInv, WriteFile PROVE IInv'
  <1>1. /\ job.at = "write" /\ file' = job.cand
        /\ job' = [job EXCEPT !.at = "commit"]
        /\ UNCHANGED <<log, ckpt, processed, head, journal, edits, faults, ever, own, edited>>
    BY DEF WriteFile
  <1>2. /\ job' \in [at : Stages, s : Sessions \cup {"none"}, len : Nat, cand : SUBSET Entries]
        /\ job'.at = "commit" /\ job'.s = job.s /\ job'.len = job.len /\ job'.cand = job.cand
        /\ Composed' /\ Pending' = Pending
    BY <1>1, GoesOn DEF Stages, Composing
  <1>3. journal.on /\ journal.before = Pending.base /\ journal.after = job.cand
    BY <1>1 DEF IInv, Journaled
  <1>4. Types'
    BY <1>1, <1>2 DEF IInv, Types
  <1>5. Ahead' /\ ProgressIsPublished' /\ Committed'
    BY <1>1, <1>2, <1>3 DEF IInv, Ahead, ProgressIsPublished, Committed
  <1>6. Settled' /\ Journaled' /\ Reading'
    BY <1>1, <1>2, <1>3 DEF IInv, Settled, Journaled, Reading
  <1>7. Owning'
    <2>1. Pending.base \subseteq job.cand
      BY <1>1 DEF IInv, Composed, Composing
    <2> QED
      BY <1>1, <1>2, <2>1 DEF IInv, Owning
  <1> QED
    BY <1>2, <1>4, <1>5, <1>6, <1>7 DEF IInv

\* The commit keeps what the file holds, and with it what was to be published.
LEMMA CommitStep ==
  ASSUME IInv, Commit PROVE IInv'
  <1>1. /\ job.at = "commit" /\ head' = file /\ edited' = FALSE
        /\ ever' = ever \cup Kept(job.cand)
        /\ job' = [job EXCEPT !.at = "unjournal"]
        /\ UNCHANGED <<log, ckpt, processed, file, journal, edits, faults, own>>
    BY DEF Commit, Kept
  <1>2. /\ job' \in [at : Stages, s : Sessions \cup {"none"}, len : Nat, cand : SUBSET Entries]
        /\ job'.at = "unjournal" /\ job'.s = job.s /\ job'.len = job.len /\ job'.cand = job.cand
        /\ Composed' /\ Pending' = Pending
    BY <1>1, GoesOn DEF Stages, Composing
  <1>3. journal.on /\ journal.before = Pending.base /\ journal.after = job.cand
    BY <1>1 DEF IInv, Journaled
  <1>4. Types'
    BY <1>1, <1>2 DEF IInv, Types
  <1>5. Ahead' /\ ProgressIsPublished'
    BY <1>1, <1>2 DEF IInv, Ahead, ProgressIsPublished
  <1>6. Committed'
    BY <1>1, <1>3 DEF IInv, Committed
  <1>7. Settled' /\ Journaled' /\ Reading' /\ Owning'
    BY <1>1, <1>2, <1>3 DEF IInv, Settled, Journaled, Reading, Owning
  <1> QED
    BY <1>2, <1>4, <1>5, <1>6, <1>7 DEF IInv

\* A publication that fails is settled at once, or left to be reconciled.
LEMMA PublishFailsStep ==
  ASSUME IInv, PublishFails PROVE IInv'
  <1>1. /\ job' = Idle
        /\ Recover \/ UNCHANGED <<file, journal>>
        /\ UNCHANGED <<log, ckpt, processed, head, edits, ever, own, edited>>
    BY DEF PublishFails, Stops
  <1> QED
    BY <1>1, SettlesStep, StopsStep DEF Stops

\* The journal goes once what it tells is committed.
LEMMA RemoveJournalStep ==
  ASSUME IInv, RemoveJournal PROVE IInv'
  <1>1. /\ job.at = "unjournal" /\ journal' = None
        /\ job' = [job EXCEPT !.at = "finish"]
        /\ UNCHANGED <<log, ckpt, processed, file, head, edits, faults, ever, own, edited>>
    BY DEF RemoveJournal
  <1>2. /\ job' \in [at : Stages, s : Sessions \cup {"none"}, len : Nat, cand : SUBSET Entries]
        /\ job'.at = "finish" /\ job'.s = job.s /\ job'.len = job.len /\ job'.cand = job.cand
        /\ Composed'
    BY <1>1, GoesOn DEF Stages, Composing
  <1>3. /\ journal' \in [before : SUBSET Entries, after : SUBSET Entries, on : BOOLEAN]
        /\ ~journal'.on
    BY <1>1 DEF None
  <1>4. journal.on /\ journal.after = job.cand /\ Kept(job.cand) \subseteq ever
    BY <1>1 DEF IInv, Journaled
  <1>5. Types'
    BY <1>1, <1>2, <1>3 DEF IInv, Types
  <1>6. Ahead' /\ ProgressIsPublished' /\ Committed'
    BY <1>1, <1>2, <1>3, <1>4 DEF IInv, Ahead, ProgressIsPublished, Committed
  <1>7. Settled' /\ Journaled' /\ Reading' /\ Owning'
    BY <1>1, <1>2, <1>3, <1>4 DEF IInv, Settled, Journaled, Reading, Owning
  <1> QED
    BY <1>2, <1>5, <1>6, <1>7 DEF IInv

\* The checkpoint advances over the blocks that are committed.
LEMMA FinishStep ==
  ASSUME IInv, Finish PROVE IInv'
  <1> DEFINE d == [committed |-> Pending.to, pending |-> NoPending, memory |-> job.cand]
  <1>1. /\ job.at = "finish" /\ ckpt' = [ckpt EXCEPT ![job.s] = d]
        /\ job' = [job EXCEPT !.at = "mark", !.len = Pending.to]
        /\ UNCHANGED <<log, processed, file, head, journal, edits, faults, ever, own, edited>>
    BY DEF Finish
  <1>2. /\ job.s \in Sessions /\ Pending.to \in Nat /\ Pending.to <= Len(log[job.s])
        /\ log[job.s] \in Seq(Kinds) /\ Blocks \subseteq 1 .. MaxSeq
        /\ job.cand \subseteq Entries /\ ckpt \in [Sessions -> CheckpointType]
    BY <1>1, BlockFacts DEF IInv, Types
  <1>3. /\ d \in CheckpointType /\ d.committed = Pending.to
        /\ d.pending.to = 0 /\ d.pending.base = {}
    BY <1>2, EntryFacts DEF NoPending, PendingType, CheckpointType
  <1> HIDE DEF d
  <1>4. /\ ckpt' \in [Sessions -> CheckpointType] /\ ckpt'[job.s] = d
        /\ \A t \in Sessions : t # job.s => ckpt'[t] = ckpt[t]
    BY <1>1, <1>2, <1>3
  <1>5. /\ job' \in [at : Stages, s : Sessions \cup {"none"}, len : Nat, cand : SUBSET Entries]
        /\ job'.at = "mark" /\ job'.s = job.s /\ job'.len = Pending.to
    <2>1. job \in [at : Stages, s : Sessions \cup {"none"}, len : Nat, cand : SUBSET Entries]
      BY DEF IInv, Types
    <2> QED
      BY <1>1, <1>2, <2>1 DEF Stages
  <1>6. Types'
    BY <1>1, <1>2, <1>4, <1>5 DEF IInv, Types
  <1>7. Ahead'
    <2>1. \A t \in Sessions : Len(log[t]) \in Nat
      BY LogFacts DEF IInv, Types
    <2> QED
      BY <1>1, <1>2, <1>3, <1>4, <1>5, <2>1 DEF IInv, Ahead
  <1>8. Committed'
    <2>1. \A t \in Sessions : Kept(ckpt'[t].pending.base) \subseteq ever
      BY <1>2, <1>3, <1>4 DEF IInv, Committed, Kept
    <2> QED
      BY <1>1, <2>1 DEF IInv, Committed
  <1>9. Settled' /\ Composed' /\ Journaled' /\ Reading' /\ Owning'
    BY <1>1, <1>3, <1>4, <1>5
    DEF IInv, Settled, Composed, Composing, Journaled, Reading, Owning
  <1>10. ProgressIsPublished'
    <2> SUFFICES ASSUME NEW t \in Sessions, NEW i \in Visible(log[t]),
                        i <= ckpt'[t].committed \/ i <= processed[t]
                 PROVE  <<t, i>> \in ever
      BY <1>1 DEF ProgressIsPublished
    <2>1. CASE i <= ckpt[t].committed \/ i <= processed[t]
      BY <2>1 DEF IInv, ProgressIsPublished
    <2>2. CASE ~(i <= ckpt[t].committed) /\ ~(i <= processed[t])
      <3>1. t = job.s /\ i <= Pending.to
        BY <1>3, <1>4, <2>2
      <3>2. i \in Visible(SubSeq(log[job.s], 1, Pending.to))
        BY <1>2, <3>1, VisibleInPart
      <3>3. i > ckpt[job.s].committed
        <4>1. i \in Nat /\ ckpt[t].committed \in Nat
          <5>1. i \in 1 .. Len(log[t]) /\ Len(log[t]) \in Nat
            BY VisibleFacts, LogFacts DEF IInv, Types
          <5> QED
            BY <1>2, <5>1 DEF CheckpointType
        <4> QED
          BY <2>2, <3>1, <4>1
      <3>4. i \in Blocks
        BY <3>2, <3>3 DEF Blocks
      <3>5. <<job.s, i>> \in job.cand /\ <<job.s, i>> # Title /\ <<job.s, i>> # Mine
        BY <1>1, <1>2, <3>4, EntryFacts DEF IInv, Composed, Composing
      <3>6. Kept(job.cand) \subseteq ever
        BY <1>1 DEF IInv, Journaled
      <3> QED
        BY <3>1, <3>5, <3>6 DEF Kept
    <2> QED
      BY <2>1, <2>2
  <1> QED
    BY <1>6, <1>7, <1>8, <1>9, <1>10 DEF IInv

\* A source is left as processed up to what is committed.
LEMMA MarkStep ==
  ASSUME IInv, Mark PROVE IInv'
  <1>1. /\ job.at = "mark" /\ Stops
        /\ processed' = IF Len(log[job.s]) = job.len
                        THEN [processed EXCEPT ![job.s] = job.len] ELSE processed
        /\ UNCHANGED <<log, ckpt, file, head, journal, edits, faults, ever, own, edited>>
    BY DEF Mark
  <1>2. /\ job.s \in Sessions /\ job.len \in Nat /\ job.len <= Len(log[job.s])
        /\ job.len = ckpt[job.s].committed /\ processed \in [Sessions -> Nat]
    BY <1>1 DEF IInv, Types, Ahead, Journaled
  <1>3. job' = [at |-> "idle", s |-> "none", len |-> 0, cand |-> {}]
    BY <1>1 DEF Stops, Idle
  <1>4. /\ processed' \in [Sessions -> Nat]
        /\ \A t \in Sessions : \/ processed'[t] = processed[t]
                               \/ /\ processed'[t] = ckpt[t].committed
                                  /\ processed'[t] <= Len(log[t])
    BY <1>1, <1>2
  <1>5. Types'
    BY <1>1, <1>3, <1>4 DEF IInv, Types, Stages
  <1>6. Ahead' /\ Committed'
    BY <1>1, <1>3, <1>4 DEF IInv, Ahead, Committed
  <1>7. Settled' /\ Composed' /\ Journaled' /\ Reading' /\ Owning'
    BY <1>1, <1>3 DEF IInv, Settled, Composed, Composing, Journaled, Reading, Owning
  <1>8. ProgressIsPublished'
    BY <1>1, <1>4 DEF IInv, ProgressIsPublished
  <1> QED
    BY <1>5, <1>6, <1>7, <1>8 DEF IInv

\* Every step keeps the invariant.
LEMMA StepIInv == IInv /\ [Next]_vars => IInv'
  <1> SUFFICES ASSUME IInv, [Next]_vars PROVE IInv'
    OBVIOUS
  <1>1. ASSUME NEW s \in Sessions, Converse(s) \/ Rewind(s) \/ Start(s) PROVE IInv'
    BY <1>1, ConverseStep, RewindStep, StartStep
  <1>2. CASE UserEdit \/ RecoverFirst \/ Prepare \/ Extract \/ Verify
    BY <1>2, UserEditStep, RecoverFirstStep, PrepareStep, ExtractStep, VerifyStep
  <1>3. CASE Check \/ Baseline \/ WriteJournal \/ WriteFile \/ Commit
    BY <1>3, CheckStep, BaselineStep, WriteJournalStep, WriteFileStep, CommitStep
  <1>4. CASE PublishFails \/ RemoveJournal \/ Finish \/ Mark
    BY <1>4, PublishFailsStep, RemoveJournalStep, FinishStep, MarkStep
  <1>5. CASE Interrupt \/ Crash
    <2>1. Stops /\ UNCHANGED <<log, ckpt, processed, file, head, journal, ever, own, edited>>
      BY <1>5 DEF Interrupt, Crash
    <2> QED
      BY <2>1, StopsStep
  <1>6. CASE UNCHANGED vars
    <2>1. /\ log' = log /\ ckpt' = ckpt /\ processed' = processed /\ file' = file /\ head' = head
          /\ journal' = journal /\ job' = job /\ ever' = ever /\ own' = own /\ edited' = edited
      BY <1>6 DEF vars
    <2>2. Types' /\ Ahead' /\ Committed' /\ Settled' /\ ProgressIsPublished'
      BY <2>1 DEF IInv, Types, Ahead, Committed, Settled, ProgressIsPublished
    <2>3. Pending' = Pending /\ Blocks' = Blocks
      BY <2>1, SameBlocks
    <2>4. Composed' /\ Journaled' /\ Reading' /\ Owning'
      BY <2>1, <2>3 DEF IInv, Composed, Journaled, Reading, Owning
    <2> QED
      BY <2>2, <2>4 DEF IInv
  <1> QED
    BY <1>1, <1>2, <1>3, <1>4, <1>5, <1>6 DEF Next

\* The invariant holds of every state.
THEOREM Invariant == Spec => []IInv
  BY InitIInv, StepIInv, PTL DEF Spec

------------------------------------------------------------------------------
(* What it says.                                                            *)

\* Progress is never ahead of publication, the entry the user wrote stays until
\* he deletes it, and a reader never sees what was not committed, for any
\* conversations, edits, failures and crashes of DreamAgent._consolidate.
THEOREM MemoryIsPublished == Spec => []Published
  <1>1. IInv => Published
    <2> SUFFICES ASSUME IInv PROVE Published
      OBVIOUS
    <2>1. ASSUME NEW s \in Sessions
          PROVE  /\ Len(log[s]) <= MaxSeq /\ ToSet(log[s]) \subseteq Kinds
                 /\ ckpt[s].committed \in 0 .. MaxSeq
                 /\ ckpt[s].pending.done \subseteq 1 .. MaxSeq
                 /\ processed[s] \in 0 .. MaxSeq
      <3>1. log[s] \in Seq(Kinds) /\ ckpt[s] \in CheckpointType /\ processed[s] \in Nat
        BY DEF IInv, Types
      <3>2. Len(log[s]) \in Nat /\ ToSet(log[s]) \subseteq Kinds
        BY <3>1, LogFacts
      <3>3. ckpt[s].committed \in Nat /\ ckpt[s].pending.done \subseteq 1 .. MaxSeq
        BY <3>1 DEF CheckpointType, PendingType
      <3> QED
        BY <3>1, <3>2, <3>3, DreamAssumption DEF IInv, Ahead
    <2>2. processed \in [Sessions -> 0 .. MaxSeq]
      BY <2>1 DEF IInv, Types
    <2>3. TypeOK
      BY <2>1, <2>2 DEF TypeOK, Kinds, IInv, Types, Stages
    <2>4. OwnEntryKept /\ ReadableIsCommitted
      BY DEF IInv, Owning, Reading, OwnEntryKept, ReadableIsCommitted
    <2> QED
      BY <2>3, <2>4 DEF IInv, Published
  <1> QED
    BY <1>1, Invariant, PTL

\* What a commit adds was not taken back by then.
LEMMA CommitsVisible ==
  ASSUME IInv, Commit, NEW e \in ever' \ ever PROVE e[2] \in Visible(log[e[1]])
  <1>1. job.at = "commit" /\ ever' = ever \cup Kept(job.cand)
    BY DEF Commit, Kept
  <1>2. e \in Kept(job.cand) /\ e \notin ever
    BY <1>1
  <1>3. /\ job.s \in Sessions /\ log[job.s] \in Seq(Kinds)
        /\ Pending.to \in Nat /\ Pending.to <= Len(log[job.s])
        /\ Blocks \subseteq Visible(SubSeq(log[job.s], 1, Pending.to))
    BY <1>1, BlockFacts DEF IInv
  <1>4. /\ job.cand \subseteq Pending.base \cup {<<job.s, i>> : i \in Blocks} \cup {Title}
        /\ ~RewoundAfter(log[job.s], Pending.to)
    BY <1>1 DEF IInv, Composed, Composing
  <1>5. Kept(Pending.base) \subseteq ever
    BY <1>3 DEF IInv, Committed, Pending
  <1>6. PICK i \in Blocks : e = <<job.s, i>>
    BY <1>2, <1>4, <1>5 DEF Kept
  <1>7. i \in Visible(log[job.s])
    BY <1>3, <1>4, <1>6, VisibleSince
  <1> QED
    BY <1>6, <1>7

\* What the conversation took back before it was published stays out of the
\* memory: the rewind waits for the consolidation, which reads the log again
\* before it publishes.
THEOREM TakenBackStaysOut == Spec => RewoundStaysOut
  <1>1. IInv /\ [Next]_vars => [\A e \in ever' \ ever : e[2] \in Visible(log[e[1]])]_vars
    <2> SUFFICES ASSUME IInv, [Next]_vars, NEW e \in ever' \ ever
                 PROVE  e[2] \in Visible(log[e[1]])
      OBVIOUS
    <2>1. CASE Commit
      BY <2>1, CommitsVisible
    <2>2. CASE ever' = ever
      BY <2>2
    <2>3. Commit \/ ever' = ever
      BY DEF Next, vars, Converse, Rewind, Start, UserEdit, RecoverFirst, Prepare, Extract,
             Verify, Check, Baseline, WriteJournal, WriteFile, PublishFails, RemoveJournal,
             Finish, Mark, Interrupt, Crash
    <2> QED
      BY <2>1, <2>2, <2>3
  <1> QED
    BY <1>1, Invariant, PTL DEF Spec, RewoundStaysOut
==============================================================================
