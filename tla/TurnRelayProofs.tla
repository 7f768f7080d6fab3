--------------------------- MODULE TurnRelayProofs ---------------------------
(****************************************************************************)
(* What TLAPS proves of TurnRelay for any notifications, requests, failures *)
(* and cancellations: the log and the client get the relayed events in the  *)
(* order they were taken, a turn the log calls completed is there as a      *)
(* whole, every approval has one decision, and nothing follows the terminal *)
(* event.  The invariant says where each accepted event is: still in the    *)
(* queue, or among the first Taken that were stored or failed.              *)
(****************************************************************************)
EXTENDS TurnRelay, FiniteSetTheorems, TLAPS


\* Events of different kinds differ, whatever they are about.
LEMMA Kinds ==
  ASSUME NEW a, NEW b, NEW d
  PROVE  /\ Update(a) # Plan(b) /\ Update(a) # Request(b) /\ Update(a) # Response(b, d)
         /\ Plan(a) # Request(b) /\ Plan(a) # Response(b, d) /\ Request(a) # Response(b, d)
         /\ Sentinel # Update(a) /\ Sentinel # Plan(a) /\ Sentinel # Request(a)
         /\ Sentinel # Response(a, d)
         /\ Terminal(a) # Update(b) /\ Terminal(a) # Plan(b) /\ Terminal(a) # Request(b)
         /\ Terminal(a) # Response(b, d)
  BY DEF Update, Plan, Request, Response, Sentinel, Terminal

\* Two events of one kind are the same only when they are about the same.
LEMMA SameKind ==
  ASSUME NEW a, NEW b, NEW c, NEW d
  PROVE  /\ Update(a) = Update(b) => a = b
         /\ Plan(a) = Plan(b) => a = b
         /\ Request(a) = Request(b) => a = b
         /\ Response(a, c) = Response(b, d) => a = b /\ c = d
         /\ Terminal(a) = Terminal(b) => a = b
  BY DEF Update, Plan, Request, Response, Terminal

\* The sentinel and the terminal events are no events of the agent.
LEMMA EventKinds ==
  /\ Sentinel \notin Events
  /\ Terminals \cap Events = {}
  /\ \A u \in Updates : Update(u) \in Events
  /\ \A u \in Planned : Plan(u) \in Events
  /\ \A a \in Approvals : Request(a) \in Events
  /\ \A a \in Approvals, d \in Answers : Response(a, d) \in Events
  BY Kinds DEF Events, Terminals

\* What it is to be in a sequence.
LEMMA InSeq ==
  ASSUME NEW S, NEW s \in Seq(S)
  PROVE  /\ DOMAIN s = 1 .. Len(s)
         /\ Len(s) \in Nat
         /\ \A x : x \in ToSet(s) <=> \E i \in 1 .. Len(s) : s[i] = x
         /\ ToSet(s) \subseteq S
  <1>1. DOMAIN s = 1 .. Len(s) /\ Len(s) \in Nat
    OBVIOUS
  <1>2. \A x : x \in ToSet(s) <=> \E i \in 1 .. Len(s) : s[i] = x
    BY <1>1 DEF ToSet
  <1>3. ToSet(s) \subseteq S
    BY <1>2
  <1> QED
    BY <1>1, <1>2, <1>3

\* No element of a sequence occurs twice.
Distinct(seq) == \A i, j \in DOMAIN seq : seq[i] = seq[j] => i = j

\* What one more element makes of a sequence.
LEMMA AppendFacts ==
  ASSUME NEW S, NEW s \in Seq(S), NEW e \in S
  PROVE  /\ Append(s, e) \in Seq(S)
         /\ Len(Append(s, e)) = Len(s) + 1
         /\ \A i \in 1 .. Len(s) : Append(s, e)[i] = s[i]
         /\ Append(s, e)[Len(s) + 1] = e
         /\ ToSet(Append(s, e)) = ToSet(s) \cup {e}
         /\ Distinct(s) /\ e \notin ToSet(s) => Distinct(Append(s, e))
  <1> DEFINE t == Append(s, e)
  <1>1. /\ t \in Seq(S) /\ Len(t) = Len(s) + 1 /\ t[Len(s) + 1] = e
        /\ \A i \in 1 .. Len(s) : t[i] = s[i]
    OBVIOUS
  <1> HIDE DEF t
  <1>2. Len(s) \in Nat
    OBVIOUS
  <1>3. \A x : x \in ToSet(t) <=> x \in ToSet(s) \/ x = e
    <2> SUFFICES ASSUME NEW x PROVE x \in ToSet(t) <=> x \in ToSet(s) \/ x = e
      OBVIOUS
    <2>1. x \in ToSet(t) <=> \E i \in 1 .. Len(t) : t[i] = x
      BY <1>1, InSeq
    <2>2. x \in ToSet(s) <=> \E i \in 1 .. Len(s) : s[i] = x
      BY InSeq
    <2>3. ASSUME NEW i \in 1 .. Len(t) PROVE i \in 1 .. Len(s) \/ i = Len(s) + 1
      BY <1>1, <1>2
    <2>4. ASSUME NEW i \in 1 .. Len(s) PROVE i \in 1 .. Len(t)
      BY <1>1, <1>2
    <2>5. Len(s) + 1 \in 1 .. Len(t)
      BY <1>1, <1>2
    <2> QED
      BY <1>1, <2>1, <2>2, <2>3, <2>4, <2>5
  <1>4. ToSet(t) = ToSet(s) \cup {e}
    BY <1>3
  <1>5. ASSUME Distinct(s), e \notin ToSet(s) PROVE Distinct(t)
    <2>1. DOMAIN t = 1 .. Len(s) + 1 /\ DOMAIN s = 1 .. Len(s)
      BY <1>1
    <2>2. \A i \in 1 .. Len(s) : s[i] # e
      BY <1>5, InSeq
    <2> QED
      BY <1>1, <1>2, <1>5, <2>1, <2>2 DEF Distinct
  <1> QED
    BY <1>1, <1>4, <1>5 DEF t

\* What is left of a sequence without its first element.
LEMMA TailFacts ==
  ASSUME NEW S, NEW s \in Seq(S), s # <<>>
  PROVE  /\ Len(s) >= 1 /\ Head(s) = s[1] /\ Head(s) \in S
         /\ Tail(s) \in Seq(S) /\ Len(Tail(s)) = Len(s) - 1
         /\ \A i \in 1 .. Len(s) - 1 : Tail(s)[i] = s[i + 1]
  OBVIOUS

\* What a sequence behind another makes of it.
LEMMA ConcatFacts ==
  ASSUME NEW S, NEW s \in Seq(S), NEW t \in Seq(S)
  PROVE  /\ s \o t \in Seq(S)
         /\ Len(s \o t) = Len(s) + Len(t)
         /\ \A i \in 1 .. Len(s) : (s \o t)[i] = s[i]
         /\ \A i \in 1 .. Len(t) : (s \o t)[Len(s) + i] = t[i]
         /\ ToSet(s \o t) = ToSet(s) \cup ToSet(t)
         /\ Distinct(s) /\ Distinct(t) /\ ToSet(s) \cap ToSet(t) = {} => Distinct(s \o t)
  <1> DEFINE r == s \o t
  <1>1. /\ r \in Seq(S) /\ Len(r) = Len(s) + Len(t)
        /\ \A i \in 1 .. Len(s) : r[i] = s[i]
        /\ \A i \in 1 .. Len(t) : r[Len(s) + i] = t[i]
    OBVIOUS
  <1> HIDE DEF r
  <1>2. Len(s) \in Nat /\ Len(t) \in Nat
    OBVIOUS
  <1>3. ASSUME NEW i \in 1 .. Len(r)
        PROVE  \/ i \in 1 .. Len(s) /\ r[i] = s[i]
               \/ i - Len(s) \in 1 .. Len(t) /\ r[i] = t[i - Len(s)]
    <2>1. CASE i <= Len(s)
      BY <1>1, <1>2, <2>1
    <2>2. CASE i > Len(s)
      <3>1. i - Len(s) \in 1 .. Len(t) /\ Len(s) + (i - Len(s)) = i
        BY <1>1, <1>2, <2>2
      <3> QED
        BY <1>1, <3>1
    <2> QED
      BY <1>2, <2>1, <2>2
  <1>4. \A x : x \in ToSet(r) <=> x \in ToSet(s) \/ x \in ToSet(t)
    <2> SUFFICES ASSUME NEW x PROVE x \in ToSet(r) <=> x \in ToSet(s) \/ x \in ToSet(t)
      OBVIOUS
    <2>1. x \in ToSet(r) <=> \E i \in 1 .. Len(r) : r[i] = x
      BY <1>1, InSeq
    <2>2. x \in ToSet(s) <=> \E i \in 1 .. Len(s) : s[i] = x
      BY InSeq
    <2>3. x \in ToSet(t) <=> \E i \in 1 .. Len(t) : t[i] = x
      BY InSeq
    <2>4. ASSUME NEW i \in 1 .. Len(s) PROVE i \in 1 .. Len(r)
      BY <1>1, <1>2
    <2>5. ASSUME NEW i \in 1 .. Len(t) PROVE Len(s) + i \in 1 .. Len(r)
      BY <1>1, <1>2
    <2> QED
      BY <1>1, <1>3, <2>1, <2>2, <2>3, <2>4, <2>5
  <1>5. ToSet(r) = ToSet(s) \cup ToSet(t)
    BY <1>4
  <1>6. ASSUME Distinct(s), Distinct(t), ToSet(s) \cap ToSet(t) = {} PROVE Distinct(r)
    <2>1. DOMAIN r = 1 .. Len(r) /\ DOMAIN s = 1 .. Len(s) /\ DOMAIN t = 1 .. Len(t)
      BY <1>1
    <2>2. \A i \in 1 .. Len(s) : s[i] \in ToSet(s)
      BY InSeq
    <2>3. \A i \in 1 .. Len(t) : t[i] \in ToSet(t)
      BY InSeq
    <2> SUFFICES ASSUME NEW i \in 1 .. Len(r), NEW j \in 1 .. Len(r), r[i] = r[j]
                 PROVE  i = j
      BY <2>1 DEF Distinct
    <2>4. CASE i \in 1 .. Len(s) /\ r[i] = s[i] /\ j \in 1 .. Len(s) /\ r[j] = s[j]
      BY <1>6, <2>1, <2>4 DEF Distinct
    <2>5. CASE /\ i - Len(s) \in 1 .. Len(t) /\ r[i] = t[i - Len(s)]
               /\ j - Len(s) \in 1 .. Len(t) /\ r[j] = t[j - Len(s)]
      <3>1. i - Len(s) = j - Len(s)
        BY <1>6, <2>1, <2>5 DEF Distinct
      <3> QED
        BY <1>2, <1>1, <3>1
    <2>6. CASE /\ i \in 1 .. Len(s) /\ r[i] = s[i]
               /\ j - Len(s) \in 1 .. Len(t) /\ r[j] = t[j - Len(s)]
      BY <1>6, <2>2, <2>3, <2>6
    <2>7. CASE /\ j \in 1 .. Len(s) /\ r[j] = s[j]
               /\ i - Len(s) \in 1 .. Len(t) /\ r[i] = t[i - Len(s)]
      BY <1>6, <2>2, <2>3, <2>7
    <2> QED
      BY <1>3, <2>4, <2>5, <2>6, <2>7
  <1> QED
    BY <1>1, <1>5, <1>6 DEF r

\* An element of a sequence without repetition is there once.
LEMMA OnceIn ==
  ASSUME NEW S, NEW s \in Seq(S), Distinct(s), NEW e \in ToSet(s)
  PROVE  Cardinality({i \in DOMAIN s : s[i] = e}) = 1
  <1>1. PICK i \in DOMAIN s : s[i] = e
    BY InSeq
  <1>2. {j \in DOMAIN s : s[j] = e} = {i}
    BY <1>1 DEF Distinct
  <1> QED
    BY <1>2, FS_Singleton

\* A set whose elements are all the same has at most one.
LEMMA AtMostOne ==
  ASSUME NEW S, \A x, y \in S : x = y
  PROVE  Cardinality(S) <= 1
  <1>1. CASE S = {}
    BY <1>1, FS_EmptySet
  <1>2. CASE S # {}
    <2>1. PICK x \in S : TRUE
      BY <1>2
    <2>2. S = {x}
      BY <2>1
    <2> QED
      BY <2>2, FS_Singleton
  <1> QED
    BY <1>1, <1>2

\* The place of each number of a finite set in their order.
Rank(U) == [i \in U |-> Cardinality({j \in U : j <= i})]

\* The elements of a finite set of numbers have the places 1, 2, ... in it.
LEMMA RankIsBijection ==
  ASSUME NEW n \in Nat, NEW U \in SUBSET (1 .. n)
  PROVE  /\ IsFiniteSet(U) /\ Cardinality(U) \in Nat
         /\ \A i \in U : Rank(U)[i] \in 1 .. Cardinality(U)
         /\ \A i, j \in U : Rank(U)[i] = Rank(U)[j] => i = j
         /\ \A k \in 1 .. Cardinality(U) : \E i \in U : Rank(U)[i] = k
  <1>1. IsFiniteSet(1 .. n)
    BY FS_Interval
  <1>2. IsFiniteSet(U) /\ Cardinality(U) \in Nat
    BY <1>1, FS_Subset, FS_CardinalityType
  <1> DEFINE B(i) == {j \in U : j <= i}
             r == Rank(U)
  <1> \A i \in U : i \in Nat
    OBVIOUS
  <1>3. ASSUME NEW i \in U
        PROVE  /\ IsFiniteSet(B(i)) /\ Cardinality(B(i)) \in Nat
               /\ Cardinality(B(i)) <= Cardinality(U) /\ i \in B(i)
    <2>1. B(i) \in SUBSET U /\ i \in B(i)
      OBVIOUS
    <2> QED
      BY <1>2, <2>1, FS_Subset, FS_CardinalityType
  <1>4. ASSUME NEW i \in U PROVE Cardinality(B(i)) # 0
    BY <1>3, FS_EmptySet
  <1>5. \A i \in U : r[i] = Cardinality(B(i)) /\ r[i] \in 1 .. Cardinality(U)
    BY <1>2, <1>3, <1>4 DEF Rank
  <1>6. ASSUME NEW i \in U, NEW j \in U, i < j PROVE r[i] # r[j]
    <2>1. j \in B(j) /\ j \notin B(i)
      BY <1>6
    <2>1b. \A m \in B(i) : m \in B(j)
      BY <1>6
    <2>2. B(i) # B(j)
      BY <2>1
    <2>3. Cardinality(B(i)) # Cardinality(B(j))
      BY <1>3, <2>1b, <2>2, FS_Subset
    <2> QED
      BY <1>5, <2>3
  <1>7. \A i, j \in U : r[i] = r[j] => i = j
    BY <1>6
  <1> DEFINE N == 1 .. Cardinality(U)
  <1>8. r \in [U -> N]
    BY <1>5 DEF Rank
  <1>9. r \in Injection(U, N)
    BY <1>7, <1>8 DEF Injection, IsInjective
  <1>10. IsFiniteSet(N) /\ Cardinality(N) = Cardinality(U)
    BY <1>2, FS_Interval
  <1>11. r \in Surjection(U, N)
    BY <1>9, <1>10, FS_Injection
  <1>12. \A k \in N : \E i \in U : r[i] = k
    BY <1>11 DEF Surjection
  <1> QED
    BY <1>2, <1>5, <1>7, <1>12

\* Leftovers has what was captured and not stored, each event once.
LEMMA LeftoverFacts ==
  ASSUME captured \in Seq(Events), Distinct(captured)
  PROVE  /\ Leftovers \in Seq(Events)
         /\ Distinct(Leftovers)
         /\ ToSet(Leftovers) = ToSet(captured) \ live
  <1>1. Len(captured) \in Nat /\ DOMAIN captured = 1 .. Len(captured)
    BY InSeq
  <1>2. Unstored \in SUBSET (1 .. Len(captured))
    BY <1>1 DEF Unstored
  <1> DEFINE U == Unstored
             R(i) == Cardinality({j \in U : j <= i})
             n == Cardinality(U)
             f == [k \in 1 .. n |-> CHOOSE i \in U : R(i) = k]
  <1>3. /\ n \in Nat
        /\ \A i \in U : R(i) \in 1 .. n
        /\ \A i, j \in U : R(i) = R(j) => i = j
        /\ \A k \in 1 .. n : \E i \in U : R(i) = k
    <2>1. \A i \in U : Rank(U)[i] = R(i)
      BY DEF Rank
    <2>2. /\ n \in Nat
          /\ \A i \in U : Rank(U)[i] \in 1 .. n
          /\ \A i, j \in U : Rank(U)[i] = Rank(U)[j] => i = j
          /\ \A k \in 1 .. n : \E i \in U : Rank(U)[i] = k
      BY <1>1, <1>2, RankIsBijection
    <2> HIDE DEF R, n, U
    <2> QED
      BY <2>1, <2>2
  <1>4. Leftovers = [k \in 1 .. n |-> captured[CHOOSE i \in U : R(i) = k]]
    BY DEF Leftovers
  <1> HIDE DEF U, R, n
  <1>5. \A k \in 1 .. n : f[k] \in U /\ R(f[k]) = k
    BY <1>3
  <1>51. \A k \in 1 .. n : Leftovers[k] = captured[f[k]]
    BY <1>4
  <1>52. DOMAIN Leftovers = 1 .. n /\ Leftovers = [k \in 1 .. n |-> Leftovers[k]]
    BY <1>4
  <1>6. \A i \in U : R(i) \in 1 .. n /\ f[R(i)] = i
    BY <1>3, <1>5
  <1> HIDE DEF f
  <1>7. \A i \in U : i \in 1 .. Len(captured) /\ captured[i] \in Events /\ captured[i] \notin live
    BY <1>1, <1>2 DEF U, Unstored
  <1>8. Leftovers \in [1 .. n -> Events]
    BY <1>51, <1>52, <1>5, <1>7
  <1>9. Leftovers \in Seq(Events) /\ Len(Leftovers) = n /\ DOMAIN Leftovers = 1 .. n
    BY <1>3, <1>8
  <1>10. \A k \in 1 .. n : Leftovers[k] = captured[f[k]]
    BY <1>51
  <1>11. Distinct(Leftovers)
    <2> SUFFICES ASSUME NEW k \in 1 .. n, NEW l \in 1 .. n, Leftovers[k] = Leftovers[l]
                 PROVE  k = l
      BY <1>9 DEF Distinct
    <2>1. f[k] = f[l]
      BY <1>1, <1>5, <1>7, <1>10 DEF Distinct
    <2> QED
      BY <1>5, <2>1
  <1>12. \A x : x \in ToSet(Leftovers) <=> \E k \in 1 .. n : captured[f[k]] = x
    BY <1>9, <1>10, InSeq
  <1>13. ASSUME NEW x \in ToSet(captured), x \notin live PROVE x \in ToSet(Leftovers)
    <2>1. PICK i \in 1 .. Len(captured) : captured[i] = x
      BY InSeq
    <2>2. i \in U
      BY <1>1, <1>13, <2>1 DEF U, Unstored
    <2> QED
      BY <1>6, <1>12, <2>1, <2>2
  <1>14. ASSUME NEW x \in ToSet(Leftovers) PROVE x \in ToSet(captured) /\ x \notin live
    <2>1. PICK k \in 1 .. n : captured[f[k]] = x
      BY <1>12
    <2> QED
      BY <1>5, <1>7, <2>1, InSeq
  <1> QED
    BY <1>9, <1>11, <1>13, <1>14

----------------------------------------------------------------------------
(* The inductive invariant. *)

Types ==
    /\ svc \in {"prompting", "draining", "ended"}
    /\ acp \in {"waiting", "unwinding", "ending", "left"}
    /\ outcome \in Outcomes \cup {"none"}
    /\ task \in [Callers -> {"unsent", "first", "last", "dropped"}]
    /\ pending \subseteq Approvals
    /\ resolving \subseteq (Approvals \X Deciders)
    /\ answer \in [Approvals -> Answers \cup {"none"}]
    /\ sweep \in [Sweepers -> [left : SUBSET Approvals, on : BOOLEAN]]
    /\ active \in BOOLEAN /\ bound \in BOOLEAN /\ consumer \in BOOLEAN
    /\ closing \in BOOLEAN /\ torn \in BOOLEAN
    /\ events \in Seq(Events) /\ captured \in Seq(Events) /\ accepted \in Seq(Events)
    /\ shown \in Seq(Events) /\ queue \in Seq(Events \cup {Sentinel})
    /\ log \in Seq(Events \cup Terminals)
    /\ live \subseteq Events /\ failed \subseteq Events
    /\ faults \in 0 .. MaxFailures /\ cancels \in 0 .. MaxCancels

\* The service goes on when the provider has left, and the provider has an
\* outcome once it no longer waits.
Phase ==
    /\ svc # "prompting" => acp = "left"
    /\ acp # "waiting" => outcome # "none"

\* An event is produced once; a request has one response, when it is claimed.
Emitted ==
    /\ Distinct(events)
    /\ \A u \in Updates : Update(u) \in ToSet(events) \/ Plan(u) \in ToSet(events)
                            => task[u] # "unsent"
    /\ \A a \in Approvals : Request(a) \in ToSet(events) => task[a] # "unsent"
    /\ \A a \in Approvals, d \in Answers : Response(a, d) \in ToSet(events) =>
         /\ task[a] # "unsent" /\ a \notin pending
         /\ \A e \in Answers : Response(a, e) \in ToSet(events) => d = e

\* relay takes an event once, and none the agent did not produce.
Taking ==
    /\ Distinct(accepted)
    /\ ToSet(accepted) \subseteq ToSet(events)
    /\ \A u \in Updates : task[u] = "first" =>
         u \in Planned /\ Plan(u) \in ToSet(events) /\ Plan(u) \notin ToSet(accepted)

\* The queue is what relay took after the first Taken events, and the sentinel
\* behind it once it is closed; those Taken events were stored or failed.
Closer == IF closing /\ consumer THEN 1 ELSE 0
Taken == Len(accepted) - (Len(queue) - Closer)
Queued ==
    /\ Taken \in 0 .. Len(accepted)
    /\ \A k \in 1 .. Len(accepted) - Taken : queue[k] = accepted[Taken + k]
    /\ closing /\ consumer => queue[Len(accepted) - Taken + 1] = Sentinel
    /\ ~consumer => queue = <<>> /\ closing
    /\ svc = "prompting" => ~closing
    /\ svc = "ended" => ~consumer
    /\ live \cup failed = {accepted[i] : i \in 1 .. Taken}

\* Before its end the log has what the consumer took; the log and the client
\* have the relayed events in the order they were taken.
Ordered(seq) ==
    \A i, j \in DOMAIN seq : \A k, l \in DOMAIN accepted :
      /\ i < j /\ seq[i] \in live /\ seq[j] \in live
      /\ seq[i] = accepted[k] /\ seq[j] = accepted[l]
      => k < l
Logged ==
    /\ svc # "ended" => ToSet(log) \subseteq live \cup failed
    /\ live \subseteq ToSet(log)
    /\ Distinct(log)
    /\ ToSet(log) \subseteq ToSet(events) \cup Terminals
    /\ Ordered(log)
    /\ ToSet(shown) \subseteq live
    /\ Ordered(shown)
    /\ ToSet(captured) \subseteq ToSet(events) /\ Distinct(captured)
    /\ Terminal("completed") \in ToSet(log) =>
         /\ svc = "ended" /\ failed = {}
         /\ ToSet(captured) \cup ToSet(accepted) \subseteq ToSet(log)

\* A pending request is undecided; a response that is being delivered, and one
\* the asker was given, was produced.
Agreed ==
    /\ \A a \in pending : task[a] = "last" /\ answer[a] = "none"
    /\ \A r \in resolving : Response(r[1], Decision(r[2])) \in ToSet(events)
    /\ \A a \in Approvals : answer[a] # "none" => Response(a, answer[a]) \in ToSet(events)

IInv == Types /\ Phase /\ Emitted /\ Taking /\ Queued /\ Logged /\ Agreed

\* Every decider has one of the two decisions.
LEMMA Decisions ==
  \A who \in Deciders : Decision(who) \in Answers
  BY DEF Decision, Deciders, Sweepers, Answers

\* The invariant holds when the prompt is sent.
LEMMA InitIInv == Init => IInv
  <1> SUFFICES ASSUME Init PROVE IInv
    OBVIOUS
  <1> USE DEF Init
  <1>1. Types
    <2>1. 0 \in 0 .. MaxFailures /\ 0 \in 0 .. MaxCancels
      BY RelayAssumption
    <2>2. sweep \in [Sweepers -> [left : SUBSET Approvals, on : BOOLEAN]]
      OBVIOUS
    <2>3. /\ svc \in {"prompting", "draining", "ended"}
          /\ acp \in {"waiting", "unwinding", "ending", "left"}
          /\ outcome \in Outcomes \cup {"none"}
          /\ task \in [Callers -> {"unsent", "first", "last", "dropped"}]
          /\ answer \in [Approvals -> Answers \cup {"none"}]
      OBVIOUS
    <2>4. /\ pending \subseteq Approvals /\ resolving \subseteq (Approvals \X Deciders)
          /\ live \subseteq Events /\ failed \subseteq Events
      OBVIOUS
    <2>5. /\ active \in BOOLEAN /\ bound \in BOOLEAN /\ consumer \in BOOLEAN
          /\ closing \in BOOLEAN /\ torn \in BOOLEAN
      BY Zenon
    <2>6. \A S : <<>> \in Seq(S)
      OBVIOUS
    <2> QED
      BY <2>1, <2>2, <2>3, <2>4, <2>5, <2>6 DEF Types
  <1>2. Phase
    BY DEF Phase
  <1>3. ToSet(<<>>) = {} /\ Distinct(<<>>) /\ DOMAIN <<>> = {} /\ Len(<<>>) = 0
    BY DEF ToSet, Distinct
  <1>4. Emitted
    BY <1>3 DEF Emitted
  <1>5. Taking
    BY <1>3 DEF Taking, Callers
  <1>6. Queued
    BY <1>3 DEF Queued, Taken, Closer
  <1>7. Logged
    BY <1>3 DEF Logged, Ordered
  <1>8. Agreed
    BY DEF Agreed
  <1> QED
    BY <1>1, <1>2, <1>4, <1>5, <1>6, <1>7, <1>8 DEF IInv

\* What the invariant says of the events the consumer took.
LEMMA TakenFacts ==
  ASSUME Types, Taking, Queued
  PROVE  /\ DOMAIN accepted = 1 .. Len(accepted) /\ Len(accepted) \in Nat /\ Taken \in Nat
         /\ live \cup failed \subseteq ToSet(accepted)
         /\ \A i \in 1 .. Len(accepted) : accepted[i] \in ToSet(accepted) /\ accepted[i] \in Events
         /\ \A i \in 1 .. Len(accepted) : accepted[i] \in live \cup failed <=> i <= Taken
         /\ ~consumer => live \cup failed = ToSet(accepted)
  <1>1. /\ DOMAIN accepted = 1 .. Len(accepted) /\ Len(accepted) \in Nat
        /\ \A x : x \in ToSet(accepted) <=> \E i \in 1 .. Len(accepted) : accepted[i] = x
        /\ ToSet(accepted) \subseteq Events
    BY InSeq DEF Types
  <1>2. Taken \in 0 .. Len(accepted) /\ live \cup failed = {accepted[i] : i \in 1 .. Taken}
    BY DEF Queued
  <1>3. live \cup failed \subseteq ToSet(accepted)
    BY <1>1, <1>2
  <1>4. \A i \in 1 .. Len(accepted) : accepted[i] \in ToSet(accepted) /\ accepted[i] \in Events
    BY <1>1
  <1>5. ASSUME NEW i \in 1 .. Len(accepted) PROVE accepted[i] \in live \cup failed <=> i <= Taken
    <2>1. \A j \in 1 .. Len(accepted) : accepted[i] = accepted[j] => i = j
      BY <1>1 DEF Taking, Distinct
    <2> QED
      BY <1>1, <1>2, <2>1
  <1>6. ASSUME ~consumer PROVE Taken = Len(accepted)
    BY <1>1, <1>6 DEF Queued, Taken, Closer
  <1>7. ~consumer => live \cup failed = ToSet(accepted)
    BY <1>1, <1>2, <1>6
  <1> QED
    BY <1>1, <1>2, <1>3, <1>4, <1>5, <1>7

\* A step that relays one event, or that drops it, keeps the queue and the log.
LEMMA RelayKeeps ==
  ASSUME Types, Types', Taking, Queued, Logged,
         NEW e \in Events, e \notin ToSet(accepted), e \in ToSet(events'),
         NEW b \in BOOLEAN, b => ~closing,
         queue' = IF b THEN Append(queue, e) ELSE queue,
         accepted' = IF b THEN Append(accepted, e) ELSE accepted,
         ToSet(events) \subseteq ToSet(events'),
         UNCHANGED <<svc, captured, closing, consumer, live, failed, shown, log>>
  PROVE  /\ Distinct(accepted') /\ ToSet(accepted') \subseteq ToSet(events')
         /\ ToSet(accepted') \subseteq ToSet(accepted) \cup {e}
         /\ Queued' /\ Logged'
  <1>1. CASE ~b
    <2>1. accepted' = accepted /\ queue' = queue
      BY <1>1
    <2>2. Distinct(accepted') /\ ToSet(accepted') \subseteq ToSet(events')
      BY <2>1 DEF Taking
    <2>3. Queued'
      <3>1. Taken' = Taken
        BY <2>1 DEF Taken, Closer
      <3> QED
        BY <2>1, <3>1 DEF Queued
    <2>4. Logged'
      BY <2>1 DEF Logged, Ordered
    <2> QED
      BY <2>1, <2>2, <2>3, <2>4
  <1>2. CASE b
    <2>1. accepted' = Append(accepted, e) /\ queue' = Append(queue, e) /\ ~closing /\ ~closing'
      BY <1>2
    <2>2. /\ accepted' \in Seq(Events) /\ Len(accepted') = Len(accepted) + 1
          /\ \A i \in 1 .. Len(accepted) : accepted'[i] = accepted[i]
          /\ accepted'[Len(accepted) + 1] = e
          /\ ToSet(accepted') = ToSet(accepted) \cup {e}
          /\ Distinct(accepted')
      BY <2>1, AppendFacts DEF Types, Taking
    <2>3. /\ Len(queue') = Len(queue) + 1
          /\ \A i \in 1 .. Len(queue) : queue'[i] = queue[i]
          /\ queue'[Len(queue) + 1] = e
      BY <2>1, AppendFacts DEF Types
    <2>4. ToSet(accepted') \subseteq ToSet(events')
      BY <2>2 DEF Taking
    <2>5. Len(queue) \in Nat /\ Len(accepted) \in Nat
      BY DEF Types
    <2>6. consumer /\ consumer' /\ Closer = 0 /\ Closer' = 0
      BY <2>1 DEF Queued, Closer
    <2>7. Taken' = Taken /\ Taken = Len(accepted) - Len(queue) /\ Taken \in 0 .. Len(accepted)
      BY <2>2, <2>3, <2>5, <2>6 DEF Taken, Queued
    <2>8. Queued'
      <3>1. ASSUME NEW k \in 1 .. Len(accepted') - Taken
            PROVE  queue'[k] = accepted'[Taken + k]
        <4>1. CASE k <= Len(queue)
          <5>1. k \in 1 .. Len(queue) /\ Taken + k \in 1 .. Len(accepted)
            BY <2>2, <2>5, <2>7, <4>1
          <5>2. queue[k] = accepted[Taken + k]
            BY <2>5, <2>7, <5>1 DEF Queued
          <5> QED
            BY <2>2, <2>3, <5>1, <5>2
        <4>2. CASE k > Len(queue)
          <5>1. Len(accepted') - Taken = Len(queue) + 1
            BY <2>2, <2>5, <2>7
          <5>2. k = Len(queue) + 1
            BY <2>5, <4>2, <5>1
          <5>3. Taken + k = Len(accepted) + 1
            BY <2>5, <2>7, <5>2
          <5> QED
            BY <2>2, <2>3, <5>2, <5>3
        <4>3. k <= Len(queue) \/ k > Len(queue)
          BY <2>5
        <4> QED
          BY <4>1, <4>2, <4>3
      <3>2. Taken' \in 0 .. Len(accepted')
        BY <2>2, <2>5, <2>7
      <3>3. {accepted'[i] : i \in 1 .. Taken} = {accepted[i] : i \in 1 .. Taken}
        BY <2>2, <2>5, <2>7
      <3>4. /\ closing' /\ consumer' => queue'[Len(accepted') - Taken' + 1] = Sentinel
            /\ ~consumer' => queue' = <<>> /\ closing'
            /\ svc' = "prompting" => ~closing'
            /\ svc' = "ended" => ~consumer'
        BY <2>1, <2>6 DEF Queued
      <3>5. live' \cup failed' = {accepted'[i] : i \in 1 .. Taken'}
        BY <2>7, <3>3 DEF Queued
      <3>6. \A k \in 1 .. Len(accepted') - Taken' : queue'[k] = accepted'[Taken' + k]
        BY <2>7, <3>1
      <3>7. Taken' \in 0 .. Len(accepted')
        BY <3>2
      <3> QED
        BY <3>4, <3>5, <3>6, <3>7 DEF Queued
    <2>9. ASSUME NEW seq, Ordered(seq), seq' = seq
          PROVE  Ordered(seq)'
      <3> SUFFICES ASSUME NEW i \in DOMAIN seq, NEW j \in DOMAIN seq,
                          NEW k \in DOMAIN accepted', NEW l \in DOMAIN accepted',
                          i < j, seq[i] \in live, seq[j] \in live,
                          seq[i] = accepted'[k], seq[j] = accepted'[l]
                   PROVE  k < l
        BY <2>9 DEF Ordered
      <3>1. live \subseteq ToSet(accepted) /\ DOMAIN accepted = 1 .. Len(accepted)
        BY TakenFacts
      <3>2. DOMAIN accepted' = 1 .. Len(accepted) + 1
        BY <2>2
      <3>3. k \in 1 .. Len(accepted) /\ l \in 1 .. Len(accepted)
        BY <2>2, <2>5, <3>1, <3>2
      <3> QED
        BY <2>2, <2>9, <3>1, <3>3 DEF Ordered
    <2>10. Logged'
      <3>1. svc' # "ended"
        BY <2>6 DEF Queued
      <3>2. Ordered(log)' /\ Ordered(shown)'
        BY <2>9 DEF Logged
      <3>3. Terminal("completed") \notin ToSet(log)'
        BY <3>1 DEF Logged
      <3> QED
        BY <3>1, <3>2, <3>3 DEF Logged
    <2> QED
      BY <2>2, <2>4, <2>8, <2>10
  <1> QED
    BY <1>1, <1>2

\* A step of the consumer takes the first event of the queue, stores it or
\* fails to, and shows it only once it is stored.
LEMMA TakeKeeps ==
  ASSUME Types, Types', Taking, Queued, Logged, Take,
         live' \in {live, live \cup {Head(queue)}},
         failed' \in {failed, failed \cup {Head(queue)}},
         live' \cup failed' = live \cup failed \cup {Head(queue)},
         log' \in {log, Append(log, Head(queue))},
         live' # live => log' = Append(log, Head(queue)),
         \/ shown' = shown
         \/ shown' = Append(shown, Head(queue)) /\ Head(queue) \in live'
  PROVE  Queued' /\ Logged'
  <1> DEFINE e == Head(queue)
  <1>1. /\ consumer /\ consumer' /\ queue # <<>> /\ e # Sentinel /\ queue' = Tail(queue)
        /\ UNCHANGED <<closing, events, accepted, svc, captured>>
    BY DEF Take, turn
  <1>2. /\ DOMAIN accepted = 1 .. Len(accepted) /\ Len(accepted) \in Nat /\ Taken \in Nat
        /\ live \cup failed \subseteq ToSet(accepted)
        /\ \A i \in 1 .. Len(accepted) : accepted[i] \in ToSet(accepted) /\ accepted[i] \in Events
        /\ \A i \in 1 .. Len(accepted) : accepted[i] \in live \cup failed <=> i <= Taken
    BY TakenFacts
  <1>3. /\ Len(queue) >= 1 /\ e = queue[1] /\ Len(queue) \in Nat
        /\ Len(queue') = Len(queue) - 1
        /\ \A i \in 1 .. Len(queue) - 1 : queue'[i] = queue[i + 1]
    BY <1>1, TailFacts DEF Types
  <1>4. Closer \in {0, 1} /\ Closer' = Closer /\ (Closer = 1 <=> closing)
    BY <1>1 DEF Closer
  <1>5. Taken = Len(accepted) - (Len(queue) - Closer) /\ Taken \in 0 .. Len(accepted)
    BY DEF Taken, Queued
  <1>6. Taken' = Taken + 1
    BY <1>1, <1>2, <1>3, <1>4, <1>5 DEF Taken
  <1>7. Taken < Len(accepted)
    <2>1. CASE Taken = Len(accepted)
      <3>1. Closer = 1 /\ closing /\ Len(accepted) - Taken + 1 = 1
        BY <1>2, <1>3, <1>4, <1>5, <2>1
      <3>2. queue[1] = Sentinel
        BY <1>1, <3>1 DEF Queued
      <3> QED
        BY <1>1, <1>3, <3>2
    <2> QED
      BY <1>2, <1>5, <2>1
  <1>8. e = accepted[Taken + 1] /\ Taken + 1 \in 1 .. Len(accepted)
    <2>1. 1 \in 1 .. Len(accepted) - Taken
      BY <1>2, <1>7
    <2> QED
      BY <1>2, <1>3, <1>7, <2>1 DEF Queued
  <1>9. e \notin live /\ e \notin failed /\ e \in Events /\ e \in ToSet(accepted)
    BY <1>2, <1>8
  <1> HIDE DEF e
  <1>10. Queued'
    <2>1. Taken' \in 0 .. Len(accepted')
      BY <1>1, <1>2, <1>6, <1>7
    <2>2. ASSUME NEW k \in 1 .. Len(accepted') - Taken'
          PROVE  queue'[k] = accepted'[Taken' + k]
      <3>1. k + 1 \in 1 .. Len(accepted) - Taken /\ k \in 1 .. Len(queue) - 1
        BY <1>1, <1>2, <1>3, <1>4, <1>5, <1>6
      <3>2. \A m \in 1 .. Len(accepted) - Taken : queue[m] = accepted[Taken + m]
        BY DEF Queued
      <3>3. Taken + (k + 1) = Taken' + k
        BY <1>2, <1>6
      <3> QED
        BY <1>1, <1>3, <3>1, <3>2, <3>3
    <2>3. ASSUME closing' /\ consumer' PROVE queue'[Len(accepted') - Taken' + 1] = Sentinel
      <3>1. queue[Len(accepted) - Taken + 1] = Sentinel
        BY <1>1, <2>3 DEF Queued
      <3>2. Len(accepted') - Taken' + 1 = Len(accepted) - Taken
        BY <1>1, <1>2, <1>6
      <3>3. Len(accepted) - Taken \in 1 .. Len(queue) - 1
        BY <1>1, <1>2, <1>3, <1>4, <1>5, <1>7, <2>3
      <3> QED
        BY <1>3, <3>1, <3>2, <3>3
    <2>4. /\ svc' = "prompting" => ~closing'
          /\ svc' = "ended" => ~consumer'
      BY <1>1 DEF Queued
    <2>5. live' \cup failed' = {accepted'[i] : i \in 1 .. Taken'}
      <3>1. {accepted[i] : i \in 1 .. Taken + 1} = {accepted[i] : i \in 1 .. Taken} \cup {e}
        BY <1>2, <1>8
      <3>2. live \cup failed = {accepted[i] : i \in 1 .. Taken}
        BY DEF Queued
      <3> QED
        BY <1>1, <1>6, <3>1, <3>2 DEF e
    <2> QED
      BY <1>1, <2>1, <2>2, <2>3, <2>4, <2>5 DEF Queued
  <1>11. /\ ToSet(log) \subseteq live \cup failed /\ svc # "ended" /\ e \notin ToSet(log)
         /\ live \subseteq ToSet(log) /\ ToSet(shown) \subseteq live /\ e \notin ToSet(shown)
    BY <1>1, <1>9 DEF Queued, Logged
  <1>12. ASSUME NEW S, NEW seq \in Seq(S), e \in S, Ordered(seq),
                ToSet(seq) \subseteq live \cup failed, NEW t, t = seq \/ t = Append(seq, e)
         PROVE  \A i, j \in DOMAIN t : \A k, l \in DOMAIN accepted :
                  /\ i < j /\ t[i] \in live' /\ t[j] \in live'
                  /\ t[i] = accepted[k] /\ t[j] = accepted[l]
                  => k < l
    <2> SUFFICES ASSUME NEW i \in DOMAIN t, NEW j \in DOMAIN t,
                        NEW k \in DOMAIN accepted, NEW l \in DOMAIN accepted,
                        i < j, t[i] \in live', t[j] \in live',
                        t[i] = accepted[k], t[j] = accepted[l]
                 PROVE  k < l
      OBVIOUS
    <2>1. /\ DOMAIN seq = 1 .. Len(seq) /\ Len(seq) \in Nat
          /\ \A m \in 1 .. Len(seq) : seq[m] \in ToSet(seq)
      BY InSeq
    <2>2. \A m \in 1 .. Len(seq) : seq[m] # e /\ (seq[m] \in live' => seq[m] \in live)
      BY <1>9, <1>12, <2>1 DEF e
    <2>3. /\ DOMAIN t \subseteq 1 .. Len(seq) + 1
          /\ \A m \in 1 .. Len(seq) : t[m] = seq[m]
          /\ \A m \in DOMAIN t : m > Len(seq) => m = Len(seq) + 1 /\ t[m] = e
      <3>1. CASE t = seq
        BY <2>1, <3>1
      <3>2. CASE t = Append(seq, e)
        <4>1. /\ t \in Seq(S) /\ Len(t) = Len(seq) + 1
              /\ \A m \in 1 .. Len(seq) : t[m] = seq[m]
              /\ t[Len(seq) + 1] = e
          BY <1>12, <3>2, AppendFacts
        <4>2. DOMAIN t = 1 .. Len(seq) + 1
          BY <4>1
        <4> QED
          BY <2>1, <4>1, <4>2
      <3> QED
        BY <1>12, <3>1, <3>2
    <2>4. i \in 1 .. Len(seq) /\ t[i] = seq[i] /\ j \in 1 .. Len(seq) + 1
      BY <2>1, <2>3
    <2>5. CASE j \in 1 .. Len(seq)
      <3>1. seq[i] \in live /\ seq[j] \in live /\ seq[j] = t[j]
        BY <2>2, <2>3, <2>4, <2>5
      <3> QED
        BY <1>12, <2>1, <2>4, <2>5, <3>1 DEF Ordered
    <2>6. CASE j = Len(seq) + 1
      <3>1. t[j] = e
        BY <2>1, <2>3, <2>6
      <3>2. l = Taken + 1
        BY <1>2, <1>8, <3>1 DEF Taking, Distinct
      <3>3. seq[i] \in live \cup failed
        BY <1>12, <2>1, <2>4
      <3>4. k <= Taken
        BY <1>2, <2>4, <3>3
      <3> QED
        BY <1>2, <3>2, <3>4
    <2> QED
      BY <2>1, <2>4, <2>5, <2>6
  <1>13. /\ Ordered(log)'
         /\ Ordered(shown)'
    <2>1. e \in Events \cup Terminals /\ log \in Seq(Events \cup Terminals) /\ shown \in Seq(Events)
      BY <1>9 DEF Types
    <2>2. log' = log \/ log' = Append(log, e)
      BY DEF e
    <2>3. shown' = shown \/ shown' = Append(shown, e)
      BY DEF e
    <2>4. Ordered(log) /\ Ordered(shown) /\ ToSet(shown) \subseteq live \cup failed
      BY <1>11 DEF Logged
    <2>5. \A i, j \in DOMAIN log' : \A k, l \in DOMAIN accepted :
            /\ i < j /\ log'[i] \in live' /\ log'[j] \in live'
            /\ log'[i] = accepted[k] /\ log'[j] = accepted[l]
            => k < l
      BY <1>11, <1>12, <2>1, <2>2, <2>4
    <2>6. \A i, j \in DOMAIN shown' : \A k, l \in DOMAIN accepted :
            /\ i < j /\ shown'[i] \in live' /\ shown'[j] \in live'
            /\ shown'[i] = accepted[k] /\ shown'[j] = accepted[l]
            => k < l
      BY <1>9, <1>11, <1>12, <2>1, <2>3, <2>4
    <2> QED
      BY <1>1, <2>5, <2>6 DEF Ordered
  <1>14. /\ ToSet(log') \subseteq ToSet(log) \cup {e} /\ ToSet(log) \subseteq ToSet(log')
         /\ log' # log => e \in ToSet(log')
         /\ Distinct(log')
    <2>1. CASE log' = log
      BY <2>1 DEF Logged
    <2>2. CASE log' = Append(log, e)
      <3>1. e \in Events \cup Terminals /\ log \in Seq(Events \cup Terminals)
        BY <1>9 DEF Types
      <3>2. /\ ToSet(Append(log, e)) = ToSet(log) \cup {e}
            /\ Distinct(log) => Distinct(Append(log, e))
        BY <1>11, <3>1, AppendFacts
      <3> QED
        BY <2>2, <3>2 DEF Logged
    <2> QED
      BY <2>1, <2>2 DEF e
  <1>15. ToSet(shown') \subseteq live'
    <2>1. CASE shown' = shown
      BY <1>11, <2>1
    <2>2. CASE shown' = Append(shown, e) /\ e \in live'
      <3>1. e \in Events /\ shown \in Seq(Events)
        BY <1>9 DEF Types
      <3>2. ToSet(Append(shown, e)) = ToSet(shown) \cup {e}
        BY <3>1, AppendFacts
      <3>3. ToSet(shown') = ToSet(shown) \cup {e}
        BY <2>2, <3>2
      <3> QED
        BY <1>11, <2>2, <3>3
    <2> QED
      BY <2>1, <2>2 DEF e
  <1>16. live' \subseteq ToSet(log')
    <2>1. CASE live' = live
      BY <1>11, <1>14, <2>1
    <2>2. CASE live' = live \cup {e} /\ live' # live
      <3>1. log' = Append(log, e)
        BY <2>2 DEF e
      <3>2. ToSet(log') = ToSet(log) \cup {e}
        <4>1. e \in Events \cup Terminals /\ log \in Seq(Events \cup Terminals)
          BY <1>9 DEF Types
        <4>2. ToSet(Append(log, e)) = ToSet(log) \cup {e}
          BY <4>1, AppendFacts
        <4> QED
          BY <3>1, <4>2
      <3> QED
        BY <1>11, <2>2, <3>2
    <2> QED
      BY <2>1, <2>2 DEF e
  <1>17. ToSet(log') \subseteq live' \cup failed'
    BY <1>11, <1>14 DEF e
  <1>18. Terminal("completed") \notin ToSet(log')
    <2>1. Terminal("completed") \notin Events
      BY EventKinds DEF Terminals, Outcomes
    <2> QED
      BY <1>2, <1>9, <1>11, <1>14, <2>1 DEF Types
  <1>19. ToSet(log') \subseteq ToSet(events') \cup Terminals
    BY <1>1, <1>9, <1>14 DEF Logged, Taking
  <1>20. ToSet(captured') \subseteq ToSet(events') /\ Distinct(captured')
    BY <1>1 DEF Logged
  <1>21. Logged'
    BY <1>13, <1>14, <1>15, <1>16, <1>17, <1>18, <1>19, <1>20 DEF Logged
  <1> QED
    BY <1>10, <1>21

\* A step that leaves the relay, the consumer and the log alone keeps them,
\* also when the provider hands over what it captured.
LEMMA QuietKeeps ==
  ASSUME Emitted, Taking, Queued, Logged,
         UNCHANGED <<svc, relayVars, delivery>>,
         captured' = captured \/ (captured' = events /\ svc = "prompting")
  PROVE  Queued' /\ Logged'
  <1>1. UNCHANGED <<svc, queue, closing, events, accepted, consumer, live, failed, shown, log>>
    BY DEF relayVars, delivery
  <1>2. Taken' = Taken
    BY <1>1 DEF Taken, Closer
  <1>3. Queued'
    BY <1>1, <1>2 DEF Queued
  <1>4. Ordered(log)' /\ Ordered(shown)'
    BY <1>1 DEF Logged, Ordered
  <1>5. ToSet(captured') \subseteq ToSet(events') /\ Distinct(captured')
    BY <1>1 DEF Logged, Emitted
  <1>6. ASSUME Terminal("completed") \in ToSet(log')
        PROVE  /\ svc' = "ended" /\ failed' = {}
               /\ ToSet(captured') \cup ToSet(accepted') \subseteq ToSet(log')
    <2>1. svc = "ended"
      BY <1>1, <1>6 DEF Logged
    <2> QED
      BY <1>1, <1>6, <2>1 DEF Logged
  <1>7. Logged'
    BY <1>1, <1>4, <1>5, <1>6 DEF Logged
  <1> QED
    BY <1>3, <1>7

\* relay puts an event in the queue or drops it; the sequences keep their types.
LEMMA RelayTypes ==
  ASSUME Types, NEW e \in Events, Relay(e)
  PROVE  queue' \in Seq(Events \cup {Sentinel}) /\ accepted' \in Seq(Events)
  <1>1. e \in Events \cup {Sentinel}
    OBVIOUS
  <1>2. Append(queue, e) \in Seq(Events \cup {Sentinel})
    BY <1>1, AppendFacts DEF Types
  <1>3. Append(accepted, e) \in Seq(Events)
    BY AppendFacts DEF Types
  <1> QED
    BY <1>2, <1>3 DEF Relay, Enqueue, Types

\* A notification arrives, before or after the turn.
LEMMA HandleUpdateKeeps ==
  ASSUME IInv, NEW u \in Updates, HandleUpdate(u)
  PROVE  IInv'
  <1> DEFINE more == IF u \in Planned THEN <<Update(u), Plan(u)>> ELSE <<Update(u)>>
  <1>1. /\ task[u] = "unsent" /\ events' = events \o more
        /\ task' = [task EXCEPT ![u] = IF ~Relays THEN "dropped"
                                       ELSE IF u \in Planned THEN "first" ELSE "last"]
        /\ UNCHANGED <<svc, acp, outcome, captured, torn, cancels, pending, resolving, answer,
                       sweep, active, bound, closing, consumer, live, failed, shown, log, faults>>
        /\ Relay(Update(u))
    BY DEF HandleUpdate, broker, delivery, turn
  <1>2. u \in Callers /\ Update(u) \in Events /\ (u \in Planned => Plan(u) \in Events)
    BY EventKinds DEF Callers
  <1>3. Update(u) \notin ToSet(events) /\ Plan(u) \notin ToSet(events)
    BY <1>1 DEF IInv, Emitted
  <1>4. /\ more \in Seq(Events) /\ Distinct(more)
        /\ ToSet(more) = IF u \in Planned THEN {Update(u), Plan(u)} ELSE {Update(u)}
    <2>1. CASE u \in Planned
      <3>1. more = <<Update(u), Plan(u)>> /\ Update(u) # Plan(u)
        BY <2>1, Kinds
      <3>2. more \in Seq(Events) /\ Len(more) = 2 /\ more[1] = Update(u) /\ more[2] = Plan(u)
        BY <1>2, <2>1, <3>1
      <3> HIDE DEF more
      <3>3. DOMAIN more = {1, 2}
        BY <3>2
      <3> QED
        BY <2>1, <3>1, <3>2, <3>3 DEF Distinct, ToSet
    <2>2. CASE u \notin Planned
      <3>1. more = <<Update(u)>>
        BY <2>2
      <3>2. more \in Seq(Events) /\ Len(more) = 1 /\ more[1] = Update(u)
        BY <1>2, <3>1
      <3> HIDE DEF more
      <3>3. DOMAIN more = {1}
        BY <3>2
      <3> QED
        BY <2>2, <3>2, <3>3 DEF Distinct, ToSet
    <2> QED
      BY <2>1, <2>2
  <1> HIDE DEF more
  <1>5. /\ events' \in Seq(Events) /\ ToSet(events') = ToSet(events) \cup ToSet(more)
        /\ Distinct(events')
    <2>1. ToSet(events) \cap ToSet(more) = {}
      BY <1>3, <1>4
    <2> QED
      BY <1>1, <1>4, <2>1, ConcatFacts DEF IInv, Types, Emitted
  <1>6. Types'
    <2>1. task' \in [Callers -> {"unsent", "first", "last", "dropped"}]
      BY <1>1 DEF IInv, Types
    <2>2. queue' \in Seq(Events \cup {Sentinel}) /\ accepted' \in Seq(Events)
      BY <1>1, <1>2, RelayTypes DEF IInv
    <2> QED
      BY <1>1, <1>5, <2>1, <2>2 DEF IInv, Types
  <1>7. Phase'
    BY <1>1 DEF IInv, Phase
  <1>8. \A c \in Callers : task'[c] = "unsent" => task[c] = "unsent" /\ c # u
    BY <1>1, <1>2 DEF IInv, Types
  <1>9. Emitted'
    <2>1. ASSUME NEW v \in Updates, Update(v) \in ToSet(events') \/ Plan(v) \in ToSet(events')
          PROVE  task'[v] # "unsent"
      <3>1. CASE v = u
        BY <1>2, <1>8, <3>1
      <3>2. CASE v # u
        <4>1. Update(v) \in ToSet(events) \/ Plan(v) \in ToSet(events)
          BY <1>4, <1>5, <2>1, <3>2, Kinds, SameKind
        <4> QED
          BY <1>8, <4>1 DEF IInv, Emitted, Callers
      <3> QED
        BY <3>1, <3>2
    <2>2. ASSUME NEW a \in Approvals PROVE Request(a) \in ToSet(events') => task'[a] # "unsent"
      BY <1>4, <1>5, <1>8, Kinds DEF IInv, Emitted, Callers
    <2>3. ASSUME NEW a \in Approvals, NEW d \in Answers
          PROVE  Response(a, d) \in ToSet(events') <=> Response(a, d) \in ToSet(events)
      BY <1>4, <1>5, Kinds
    <2>4. ASSUME NEW a \in Approvals, NEW d \in Answers, Response(a, d) \in ToSet(events')
          PROVE  /\ task'[a] # "unsent" /\ a \notin pending'
                 /\ \A e \in Answers : Response(a, e) \in ToSet(events') => d = e
      BY <1>1, <1>8, <2>3, <2>4 DEF IInv, Emitted, Callers
    <2> QED
      BY <1>5, <2>1, <2>2, <2>4 DEF Emitted
  <1>10. /\ Distinct(accepted') /\ ToSet(accepted') \subseteq ToSet(events')
         /\ ToSet(accepted') \subseteq ToSet(accepted) \cup {Update(u)}
         /\ Queued' /\ Logged'
    <2>1. Update(u) \notin ToSet(accepted) /\ Update(u) \in ToSet(events')
      BY <1>3, <1>4, <1>5 DEF IInv, Taking
    <2>2. Relays \in BOOLEAN /\ (Relays => ~closing)
      BY Zenon DEF Relays
    <2>3. /\ queue' = IF Relays THEN Append(queue, Update(u)) ELSE queue
          /\ accepted' = IF Relays THEN Append(accepted, Update(u)) ELSE accepted
      BY <1>1 DEF Relay, Enqueue
    <2>4. UNCHANGED <<svc, captured, closing, consumer, live, failed, shown, log>>
      BY <1>1
    <2> QED
      BY <1>2, <1>5, <1>6, <2>1, <2>2, <2>3, <2>4, RelayKeeps DEF IInv
  <1>11. Taking'
    <2>1. ASSUME NEW v \in Updates, task'[v] = "first"
          PROVE  v \in Planned /\ Plan(v) \in ToSet(events') /\ Plan(v) \notin ToSet(accepted')
      <3>1. CASE v = u
        <4>1. u \in Planned
          BY <1>1, <1>2, <2>1, <3>1 DEF IInv, Types
        <4>2. Plan(u) \notin ToSet(accepted')
          BY <1>3, <1>10, Kinds DEF IInv, Taking
        <4> QED
          BY <1>4, <1>5, <3>1, <4>1, <4>2
      <3>2. CASE v # u
        <4>1. task[v] = "first"
          BY <1>1, <2>1, <3>2 DEF IInv, Types, Callers
        <4>2. v \in Planned /\ Plan(v) \in ToSet(events) /\ Plan(v) \notin ToSet(accepted)
          BY <4>1 DEF IInv, Taking
        <4> QED
          BY <1>5, <1>10, <4>2, Kinds
      <3> QED
        BY <3>1, <3>2
    <2> QED
      BY <1>10, <2>1 DEF Taking
  <1>12. Agreed'
    <2>1. \A a \in pending : task'[a] = "last"
      BY <1>1 DEF IInv, Agreed, Types, Callers
    <2> QED
      BY <1>1, <1>5, <2>1 DEF IInv, Agreed
  <1> QED
    BY <1>6, <1>7, <1>9, <1>10, <1>11, <1>12 DEF IInv

\* The plan event of a notification follows its update.
LEMMA NextEventKeeps ==
  ASSUME IInv, NEW u \in Updates, NextEvent(u)
  PROVE  IInv'
  <1> DEFINE b == Update(u) \notin failed /\ ~closing
  <1>1. /\ task[u] = "first" /\ task' = [task EXCEPT ![u] = "last"]
        /\ queue' = IF b THEN Append(queue, Plan(u)) ELSE queue
        /\ accepted' = IF b THEN Append(accepted, Plan(u)) ELSE accepted
        /\ UNCHANGED <<svc, acp, outcome, captured, torn, cancels, pending, resolving, answer,
                       sweep, active, bound, closing, consumer, live, failed, shown, log, faults,
                       events>>
    BY DEF NextEvent, broker, delivery, turn, Enqueue
  <1>2. b \in BOOLEAN /\ (b => ~closing)
    BY Zenon
  <1>3. u \in Callers /\ u \in Planned
    BY <1>1 DEF Callers, IInv, Taking
  <1>4. Plan(u) \in Events /\ Plan(u) \in ToSet(events) /\ Plan(u) \notin ToSet(accepted)
    BY <1>1, <1>3, EventKinds DEF IInv, Taking
  <1> HIDE DEF b
  <1>5. Types'
    <2>1. task' \in [Callers -> {"unsent", "first", "last", "dropped"}]
      BY <1>1 DEF IInv, Types
    <2>2. Plan(u) \in Events \cup {Sentinel}
      BY <1>4
    <2>3. Append(queue, Plan(u)) \in Seq(Events \cup {Sentinel})
      BY <2>2, AppendFacts DEF IInv, Types
    <2>4. Append(accepted, Plan(u)) \in Seq(Events)
      BY <1>4, AppendFacts DEF IInv, Types
    <2>5. queue' \in Seq(Events \cup {Sentinel}) /\ accepted' \in Seq(Events)
      BY <1>1, <2>3, <2>4 DEF IInv, Types
    <2> QED
      BY <1>1, <2>1, <2>5 DEF IInv, Types
  <1>6. Phase'
    BY <1>1 DEF IInv, Phase
  <1>7. \A c \in Callers : task'[c] = "unsent" => task[c] = "unsent"
    BY <1>1, <1>3 DEF IInv, Types
  <1>8. Emitted'
    BY <1>1, <1>7 DEF IInv, Emitted, Callers
  <1>9. /\ Distinct(accepted') /\ ToSet(accepted') \subseteq ToSet(events')
        /\ ToSet(accepted') \subseteq ToSet(accepted) \cup {Plan(u)}
        /\ Queued' /\ Logged'
    <2>1. UNCHANGED <<svc, captured, closing, consumer, live, failed, shown, log>>
      BY <1>1
    <2> QED
      BY <1>1, <1>2, <1>4, <1>5, <2>1, RelayKeeps DEF IInv
  <1>10. Taking'
    <2>1. ASSUME NEW v \in Updates, task'[v] = "first"
          PROVE  v \in Planned /\ Plan(v) \in ToSet(events') /\ Plan(v) \notin ToSet(accepted')
      <3>1. v # u /\ task[v] = "first"
        BY <1>1, <1>3, <2>1 DEF IInv, Types, Callers
      <3>2. v \in Planned /\ Plan(v) \in ToSet(events) /\ Plan(v) \notin ToSet(accepted)
        BY <3>1 DEF IInv, Taking
      <3> QED
        BY <1>1, <1>9, <3>1, <3>2, SameKind
    <2> QED
      BY <1>9, <2>1 DEF Taking
  <1>11. Agreed'
    <2>1. \A a \in pending : task'[a] = "last"
      BY <1>1 DEF IInv, Agreed, Types, Callers
    <2> QED
      BY <1>1, <2>1 DEF IInv, Agreed
  <1> QED
    BY <1>5, <1>6, <1>8, <1>9, <1>10, <1>11 DEF IInv

\* A permission request arrives and is registered, or turned away.
LEMMA HandleRequestKeeps ==
  ASSUME IInv, NEW a \in Approvals, HandleRequest(a)
  PROVE  IInv'
  <1>1. /\ task[a] = "unsent" /\ a \in Callers
        /\ UNCHANGED <<svc, acp, outcome, captured, torn, cancels, resolving, answer,
                       sweep, active, bound, closing, consumer, live, failed, shown, log, faults>>
    BY DEF HandleRequest, delivery, turn, Callers
  <1>2. Request(a) \in Events /\ Request(a) \notin ToSet(events)
    BY <1>1, EventKinds DEF IInv, Emitted
  <1>3. \A d \in Answers : Response(a, d) \notin ToSet(events)
    BY <1>1 DEF IInv, Emitted
  <1>4. answer[a] = "none"
    BY <1>3 DEF IInv, Agreed, Types
  <1>5. CASE ~TakesRequests
    <2>1. /\ task' = [task EXCEPT ![a] = "dropped"]
          /\ UNCHANGED <<pending, events, queue, accepted>>
      BY <1>5 DEF HandleRequest
    <2>2. task' \in [Callers -> {"unsent", "first", "last", "dropped"}]
      BY <2>1 DEF IInv, Types
    <2>3. Types'
      BY <1>1, <2>1, <2>2 DEF IInv, Types
    <2>4. \A c \in Callers : task'[c] = "unsent" => task[c] = "unsent"
      BY <1>1, <2>1 DEF IInv, Types
    <2>5. \A c \in Callers : task'[c] = "first" => task[c] = "first"
      BY <1>1, <2>1 DEF IInv, Types
    <2>6. Phase'
      BY <1>1 DEF IInv, Phase
    <2>7. Emitted'
      BY <2>1, <2>4 DEF IInv, Emitted, Callers
    <2>8. Taking'
      BY <2>1, <2>5 DEF IInv, Taking, Callers
    <2>9. Queued' /\ Logged'
      BY <1>1, <2>1, QuietKeeps DEF IInv, relayVars, delivery
    <2>10. Agreed'
      <3>1. \A c \in pending : task'[c] = "last"
        BY <1>1, <2>1 DEF IInv, Agreed, Types, Callers
      <3> QED
        BY <1>1, <2>1, <3>1 DEF IInv, Agreed
    <2> QED
      BY <2>3, <2>6, <2>7, <2>8, <2>9, <2>10 DEF IInv
  <1>6. CASE TakesRequests
    <2>1. /\ pending' = pending \cup {a} /\ events' = Append(events, Request(a))
          /\ Relay(Request(a)) /\ task' = [task EXCEPT ![a] = "last"]
      BY <1>6 DEF HandleRequest
    <2>2. /\ events' \in Seq(Events) /\ ToSet(events') = ToSet(events) \cup {Request(a)}
          /\ Distinct(events')
      BY <1>2, <2>1, AppendFacts DEF IInv, Types, Emitted
    <2>3. Types'
      <3>1. task' \in [Callers -> {"unsent", "first", "last", "dropped"}]
        BY <2>1 DEF IInv, Types
      <3>2. queue' \in Seq(Events \cup {Sentinel}) /\ accepted' \in Seq(Events)
        BY <1>2, <2>1, RelayTypes DEF IInv
      <3> QED
        BY <1>1, <2>1, <2>2, <3>1, <3>2 DEF IInv, Types
    <2>4. \A c \in Callers : task'[c] = "unsent" => task[c] = "unsent" /\ c # a
      BY <1>1, <2>1 DEF IInv, Types
    <2>5. \A c \in Callers : task'[c] = "first" => task[c] = "first"
      BY <1>1, <2>1 DEF IInv, Types
    <2>6. Phase'
      BY <1>1 DEF IInv, Phase
    <2>7. Emitted'
      <3>1. ASSUME NEW v \in Updates, Update(v) \in ToSet(events') \/ Plan(v) \in ToSet(events')
            PROVE  task'[v] # "unsent"
        <4>1. Update(v) \in ToSet(events) \/ Plan(v) \in ToSet(events)
          BY <2>2, <3>1, Kinds
        <4> QED
          BY <2>4, <4>1 DEF IInv, Emitted, Callers
      <3>2. ASSUME NEW c \in Approvals, Request(c) \in ToSet(events') PROVE task'[c] # "unsent"
        <4>1. Request(c) \in ToSet(events) \/ c = a
          BY <2>2, <3>2, SameKind
        <4> QED
          BY <2>4, <4>1 DEF IInv, Emitted, Callers
      <3>3. ASSUME NEW c \in Approvals, NEW d \in Answers
            PROVE  Response(c, d) \in ToSet(events') <=> Response(c, d) \in ToSet(events)
        BY <2>2, Kinds
      <3>4. ASSUME NEW c \in Approvals, NEW d \in Answers, Response(c, d) \in ToSet(events')
            PROVE  /\ task'[c] # "unsent" /\ c \notin pending'
                   /\ \A e \in Answers : Response(c, e) \in ToSet(events') => d = e
        <4>1. c # a
          BY <1>3, <3>3, <3>4
        <4> QED
          BY <2>1, <2>4, <3>3, <3>4, <4>1 DEF IInv, Emitted, Callers
      <3> QED
        BY <2>2, <3>1, <3>2, <3>4 DEF Emitted
    <2>8. /\ Distinct(accepted') /\ ToSet(accepted') \subseteq ToSet(events')
          /\ ToSet(accepted') \subseteq ToSet(accepted) \cup {Request(a)}
          /\ Queued' /\ Logged'
      <3>1. Request(a) \notin ToSet(accepted) /\ Request(a) \in ToSet(events')
        BY <1>2, <2>2 DEF IInv, Taking
      <3>2. Relays \in BOOLEAN /\ (Relays => ~closing)
        BY Zenon DEF Relays
      <3>3. /\ queue' = IF Relays THEN Append(queue, Request(a)) ELSE queue
            /\ accepted' = IF Relays THEN Append(accepted, Request(a)) ELSE accepted
        BY <2>1 DEF Relay, Enqueue
      <3>4. UNCHANGED <<svc, captured, closing, consumer, live, failed, shown, log>>
        BY <1>1
      <3> QED
        BY <1>2, <2>2, <2>3, <3>1, <3>2, <3>3, <3>4, RelayKeeps DEF IInv
    <2>9. Taking'
      <3>1. ASSUME NEW v \in Updates, task'[v] = "first"
            PROVE  v \in Planned /\ Plan(v) \in ToSet(events') /\ Plan(v) \notin ToSet(accepted')
        <4>1. v \in Planned /\ Plan(v) \in ToSet(events) /\ Plan(v) \notin ToSet(accepted)
          BY <2>5, <3>1 DEF IInv, Taking, Callers
        <4> QED
          BY <2>2, <2>8, <4>1, Kinds
      <3> QED
        BY <2>8, <3>1 DEF Taking
    <2>10. Agreed'
      <3>1. \A c \in pending' : task'[c] = "last" /\ answer'[c] = "none"
        BY <1>1, <1>4, <2>1 DEF IInv, Agreed, Types, Callers
      <3> QED
        BY <1>1, <2>2, <3>1 DEF IInv, Agreed
    <2> QED
      BY <2>3, <2>6, <2>7, <2>8, <2>9, <2>10 DEF IInv
  <1> QED
    BY <1>5, <1>6

\* A request whose delivery failed is withdrawn.
LEMMA WithdrawKeeps ==
  ASSUME IInv, NEW a \in Approvals, Withdraw(a)
  PROVE  IInv'
  <1>1. /\ task[a] = "last" /\ task' = [task EXCEPT ![a] = "dropped"] /\ a \in Callers
        /\ pending' = pending \ {a}
        /\ UNCHANGED <<svc, acp, outcome, captured, torn, cancels, resolving, answer,
                       sweep, active, bound, queue, closing, events, accepted,
                       consumer, live, failed, shown, log, faults>>
    BY DEF Withdraw, relayVars, delivery, turn, Callers
  <1>2. task' \in [Callers -> {"unsent", "first", "last", "dropped"}]
    BY <1>1 DEF IInv, Types
  <1>3. Types'
    BY <1>1, <1>2 DEF IInv, Types
  <1>4. \A c \in Callers : /\ task'[c] = "unsent" => task[c] = "unsent"
                           /\ task'[c] = "first" => task[c] = "first"
                           /\ c # a => task'[c] = task[c]
    BY <1>1 DEF IInv, Types
  <1>5. Phase'
    BY <1>1 DEF IInv, Phase
  <1>6. Emitted'
    BY <1>1, <1>4 DEF IInv, Emitted, Callers
  <1>7. Taking'
    BY <1>1, <1>4 DEF IInv, Taking, Callers
  <1>8. Queued' /\ Logged'
    BY <1>1, QuietKeeps DEF IInv, relayVars, delivery
  <1>9. Agreed'
    <2>1. \A c \in pending' : task'[c] = "last" /\ answer'[c] = "none"
      BY <1>1, <1>4 DEF IInv, Agreed, Callers, Types
    <2> QED
      BY <1>1, <2>1 DEF IInv, Agreed
  <1> QED
    BY <1>3, <1>5, <1>6, <1>7, <1>8, <1>9 DEF IInv

\* A request is claimed by one decider, who produces its only response.
LEMMA BeginKeeps ==
  ASSUME IInv, NEW a \in Approvals, NEW who \in Deciders, BeginResolve(a, who),
         sweep' \in [Sweepers -> [left : SUBSET Approvals, on : BOOLEAN]],
         UNCHANGED <<answer, active, bound, closing, task, delivery, turn, faults>>
  PROVE  IInv'
  <1> DEFINE e == Response(a, Decision(who))
  <1>1. /\ a \in pending /\ pending' = pending \ {a} /\ resolving' = resolving \cup {<<a, who>>}
        /\ events' = Append(events, e) /\ Relay(e)
        /\ UNCHANGED <<svc, acp, outcome, captured, torn, cancels, answer, task,
                       active, bound, closing, consumer, live, failed, shown, log, faults>>
    BY DEF BeginResolve, ClaimedAfter, delivery, turn
  <1>2. Decision(who) \in Answers /\ e \in Events
    BY Decisions, EventKinds
  <1>3. \A d \in Answers : Response(a, d) \notin ToSet(events)
    BY <1>1 DEF IInv, Emitted
  <1>4. task[a] = "last" /\ a \in Callers
    BY <1>1 DEF IInv, Agreed, Callers
  <1>5. e \notin ToSet(events)
    BY <1>2, <1>3
  <1> HIDE DEF e
  <1>6. /\ events' \in Seq(Events) /\ ToSet(events') = ToSet(events) \cup {e}
        /\ Distinct(events')
    BY <1>1, <1>2, <1>5, AppendFacts DEF IInv, Types, Emitted
  <1>7. Types'
    <2>1. queue' \in Seq(Events \cup {Sentinel}) /\ accepted' \in Seq(Events)
      BY <1>1, <1>2, RelayTypes DEF IInv
    <2>2. resolving' \subseteq (Approvals \X Deciders)
      BY <1>1 DEF IInv, Types
    <2> QED
      BY <1>1, <1>6, <2>1, <2>2 DEF IInv, Types
  <1>8. Phase'
    BY <1>1 DEF IInv, Phase
  <1>9. Emitted'
    <2>1. ASSUME NEW v \in Updates, Update(v) \in ToSet(events') \/ Plan(v) \in ToSet(events')
          PROVE  task'[v] # "unsent"
      BY <1>1, <1>6, <2>1, Kinds DEF IInv, Emitted, e
    <2>2. ASSUME NEW c \in Approvals, Request(c) \in ToSet(events') PROVE task'[c] # "unsent"
      BY <1>1, <1>6, <2>2, Kinds DEF IInv, Emitted, e
    <2>3. ASSUME NEW c \in Approvals, NEW d \in Answers, Response(c, d) \in ToSet(events')
          PROVE  Response(c, d) \in ToSet(events) \/ (c = a /\ d = Decision(who))
      BY <1>6, <2>3, SameKind DEF e
    <2>4. ASSUME NEW c \in Approvals, NEW d \in Answers, Response(c, d) \in ToSet(events')
          PROVE  /\ task'[c] # "unsent" /\ c \notin pending'
                 /\ \A f \in Answers : Response(c, f) \in ToSet(events') => d = f
      <3>1. CASE c = a
        <4>1. \A f \in Answers : Response(a, f) \in ToSet(events') => f = Decision(who)
          BY <1>3, <2>3
        <4> QED
          BY <1>1, <1>4, <2>4, <3>1, <4>1
      <3>2. CASE c # a
        <4>1. \A f \in Answers :
                Response(c, f) \in ToSet(events') => Response(c, f) \in ToSet(events)
          BY <2>3, <3>2
        <4> QED
          BY <1>1, <2>4, <4>1 DEF IInv, Emitted
      <3> QED
        BY <3>1, <3>2
    <2> QED
      BY <1>6, <2>1, <2>2, <2>4 DEF Emitted
  <1>10. /\ Distinct(accepted') /\ ToSet(accepted') \subseteq ToSet(events')
         /\ ToSet(accepted') \subseteq ToSet(accepted) \cup {e}
         /\ Queued' /\ Logged'
    <2>1. e \notin ToSet(accepted) /\ e \in ToSet(events')
      BY <1>5, <1>6 DEF IInv, Taking
    <2>2. Relays \in BOOLEAN /\ (Relays => ~closing)
      BY Zenon DEF Relays
    <2>3. /\ queue' = IF Relays THEN Append(queue, e) ELSE queue
          /\ accepted' = IF Relays THEN Append(accepted, e) ELSE accepted
      BY <1>1 DEF Relay, Enqueue
    <2>4. UNCHANGED <<svc, captured, closing, consumer, live, failed, shown, log>>
      BY <1>1
    <2> QED
      BY <1>2, <1>6, <1>7, <2>1, <2>2, <2>3, <2>4, RelayKeeps DEF IInv
  <1>11. Taking'
    <2>1. ASSUME NEW v \in Updates, task'[v] = "first"
          PROVE  v \in Planned /\ Plan(v) \in ToSet(events') /\ Plan(v) \notin ToSet(accepted')
      <3>1. v \in Planned /\ Plan(v) \in ToSet(events) /\ Plan(v) \notin ToSet(accepted)
        BY <1>1, <2>1 DEF IInv, Taking
      <3>2. Plan(v) # e
        BY Kinds DEF e
      <3> QED
        BY <1>6, <1>10, <3>1, <3>2
    <2> QED
      BY <1>10, <2>1 DEF Taking
  <1>12. Agreed'
    <2>1. \A c \in pending' : task'[c] = "last" /\ answer'[c] = "none"
      BY <1>1 DEF IInv, Agreed
    <2>2. ASSUME NEW r \in resolving' PROVE Response(r[1], Decision(r[2])) \in ToSet(events')
      <3>1. CASE r \in resolving
        BY <1>6, <3>1 DEF IInv, Agreed
      <3>2. CASE r = <<a, who>>
        <4>1. r[1] = a /\ r[2] = who
          BY <3>2
        <4> QED
          BY <1>6, <4>1 DEF e
      <3> QED
        BY <1>1, <2>2, <3>1, <3>2
    <2>3. \A c \in Approvals : answer'[c] # "none" => Response(c, answer'[c]) \in ToSet(events')
      BY <1>1, <1>6 DEF IInv, Agreed
    <2> QED
      BY <2>1, <2>2, <2>3 DEF Agreed
  <1> QED
    BY <1>7, <1>8, <1>9, <1>10, <1>11, <1>12 DEF IInv

\* What the asker is given is the decision of the claim; it was produced.
LEMMA AnswerKeeps ==
  ASSUME IInv, NEW a \in Approvals, NEW who \in Deciders, <<a, who>> \in resolving,
         resolving' = resolving \ {<<a, who>>},
         answer' = [answer EXCEPT ![a] = IF @ = "none" THEN Decision(who) ELSE @],
         UNCHANGED <<pending, task, events>>
  PROVE  /\ Agreed' /\ resolving' \subseteq (Approvals \X Deciders)
         /\ answer' \in [Approvals -> Answers \cup {"none"}]
  <1>1. Response(a, Decision(who)) \in ToSet(events) /\ Decision(who) \in Answers
    <2>1. <<a, who>>[1] = a /\ <<a, who>>[2] = who
      OBVIOUS
    <2> QED
      BY <2>1, Decisions DEF IInv, Agreed
  <1>2. a \notin pending
    BY <1>1 DEF IInv, Emitted
  <1>3. answer' \in [Approvals -> Answers \cup {"none"}]
    BY <1>1 DEF IInv, Types
  <1>4. \A c \in pending' : task'[c] = "last" /\ answer'[c] = "none"
    BY <1>2 DEF IInv, Agreed, Types
  <1>5. \A r \in resolving' : Response(r[1], Decision(r[2])) \in ToSet(events')
    BY DEF IInv, Agreed
  <1>6. ASSUME NEW c \in Approvals, answer'[c] # "none"
        PROVE  Response(c, answer'[c]) \in ToSet(events')
    <2>1. CASE c # a
      BY <1>6, <2>1 DEF IInv, Agreed, Types
    <2>2. CASE c = a
      <3>1. answer'[a] = IF answer[a] = "none" THEN Decision(who) ELSE answer[a]
        BY DEF IInv, Types
      <3> QED
        BY <1>1, <2>2, <3>1 DEF IInv, Agreed
    <2> QED
      BY <2>1, <2>2
  <1> QED
    BY <1>3, <1>4, <1>5, <1>6 DEF IInv, Types, Agreed

\* The asker is given the decision once its response was delivered or dropped.
LEMMA EndKeeps ==
  ASSUME IInv, NEW a \in Approvals, NEW who \in Deciders, EndResolve(a, who),
         UNCHANGED <<pending, sweep, active, bound, task, relayVars, delivery, turn, faults>>
  PROVE  IInv'
  <1>1. /\ <<a, who>> \in resolving /\ resolving' = resolving \ {<<a, who>>}
        /\ answer' = [answer EXCEPT ![a] = IF @ = "none" THEN Decision(who) ELSE @]
        /\ UNCHANGED <<svc, acp, outcome, captured, torn, cancels, pending, task,
                       sweep, active, bound, queue, closing, events, accepted,
                       consumer, live, failed, shown, log, faults>>
    BY DEF EndResolve, relayVars, delivery, turn
  <1>2. /\ Agreed' /\ resolving' \subseteq (Approvals \X Deciders)
        /\ answer' \in [Approvals -> Answers \cup {"none"}]
    BY <1>1, AnswerKeeps
  <1>3. Types'
    BY <1>1, <1>2 DEF IInv, Types
  <1>4. Phase' /\ Emitted' /\ Taking'
    BY <1>1 DEF IInv, Phase, Emitted, Taking
  <1>5. Queued' /\ Logged'
    BY <1>1, QuietKeeps DEF IInv, relayVars, delivery
  <1> QED
    BY <1>2, <1>3, <1>4, <1>5 DEF IInv

\* A step of the provider that ends the turn and leaves the requests alone.
LEMMA ProviderKeeps ==
  ASSUME IInv, Types', Phase',
         UNCHANGED <<svc, pending, resolving, answer, task, relayVars, delivery>>,
         captured' = captured \/ (captured' = events /\ svc = "prompting")
  PROVE  IInv'
  <1>1. UNCHANGED <<svc, pending, resolving, answer, task, events, accepted>>
    BY DEF relayVars
  <1>2. Emitted' /\ Taking' /\ Agreed'
    BY <1>1 DEF IInv, Emitted, Taking, Agreed
  <1>3. Queued' /\ Logged'
    BY QuietKeeps DEF IInv
  <1> QED
    BY <1>2, <1>3 DEF IInv

\* What a snapshot of the pending requests is.
LEMMA SweepTypes ==
  ASSUME Types, NEW s \in Sweepers
  PROVE  /\ [sweep EXCEPT ![s] = [left |-> pending, on |-> TRUE]]
              \in [Sweepers -> [left : SUBSET Approvals, on : BOOLEAN]]
         /\ [sweep EXCEPT ![s] = [left |-> {}, on |-> FALSE]]
              \in [Sweepers -> [left : SUBSET Approvals, on : BOOLEAN]]
         /\ [sweep EXCEPT ![s].on = FALSE]
              \in [Sweepers -> [left : SUBSET Approvals, on : BOOLEAN]]
         /\ [sweep EXCEPT ![s].left = pending]
              \in [Sweepers -> [left : SUBSET Approvals, on : BOOLEAN]]
         /\ \A a : [sweep EXCEPT ![s].left = @ \ {a}]
                     \in [Sweepers -> [left : SUBSET Approvals, on : BOOLEAN]]
  <1>1. /\ sweep \in [Sweepers -> [left : SUBSET Approvals, on : BOOLEAN]]
        /\ pending \subseteq Approvals
    BY DEF Types
  <1>2. sweep[s] \in [left : SUBSET Approvals, on : BOOLEAN]
    BY <1>1
  <1>3. [left |-> pending, on |-> TRUE] \in [left : SUBSET Approvals, on : BOOLEAN]
    BY <1>1
  <1>4. [left |-> {}, on |-> FALSE] \in [left : SUBSET Approvals, on : BOOLEAN]
    OBVIOUS
  <1>5. [sweep[s] EXCEPT !.on = FALSE] \in [left : SUBSET Approvals, on : BOOLEAN]
    BY <1>2
  <1>6. [sweep[s] EXCEPT !.left = pending] \in [left : SUBSET Approvals, on : BOOLEAN]
    BY <1>1, <1>2
  <1>7. \A a : [sweep[s] EXCEPT !.left = @ \ {a}] \in [left : SUBSET Approvals, on : BOOLEAN]
    BY <1>2
  <1> QED
    BY <1>1, <1>3, <1>4, <1>5, <1>6, <1>7

\* Another task ends the turn's requests.
LEMMA SideKeeps ==
  ASSUME IInv, SideCancel \/ SideCancelled
  PROVE  IInv'
  <1>1. "side" \in Sweepers
    BY DEF Sweepers
  <1>2. CASE SideCancel
    <2>1. /\ sweep' = [sweep EXCEPT !["side"] = [left |-> pending, on |-> TRUE]]
          /\ active' = FALSE
          /\ UNCHANGED <<svc, acp, outcome, captured, torn, cancels, pending, resolving, answer,
                         bound, task, queue, closing, events, accepted,
                         consumer, live, failed, shown, log, faults>>
      BY <1>2 DEF SideCancel, BeginEnd, relayVars, delivery, turn
    <2>2. sweep' \in [Sweepers -> [left : SUBSET Approvals, on : BOOLEAN]]
      BY <1>1, <2>1, SweepTypes DEF IInv
    <2>3. Types'
      BY <2>1, <2>2 DEF IInv, Types
    <2>4. Phase'
      BY <2>1 DEF IInv, Phase
    <2> QED
      BY <2>1, <2>3, <2>4, ProviderKeeps DEF relayVars, delivery
  <1>3. CASE SideCancelled
    <2>1. /\ sweep' = [sweep EXCEPT !["side"].on = FALSE] /\ bound' = FALSE
          /\ UNCHANGED <<svc, acp, outcome, captured, torn, cancels, pending, resolving, answer,
                         active, task, queue, closing, events, accepted,
                         consumer, live, failed, shown, log, faults>>
      BY <1>3 DEF SideCancelled, relayVars, delivery, turn
    <2>2. sweep' \in [Sweepers -> [left : SUBSET Approvals, on : BOOLEAN]]
      BY <1>1, <2>1, SweepTypes DEF IInv
    <2>3. Types'
      BY <2>1, <2>2 DEF IInv, Types
    <2>4. Phase'
      BY <2>1 DEF IInv, Phase
    <2> QED
      BY <2>1, <2>3, <2>4, ProviderKeeps DEF relayVars, delivery
  <1> QED
    BY <1>2, <1>3

\* The agent answers the prompt, or the connection fails.
LEMMA PromptReturnsKeeps ==
  ASSUME IInv, PromptReturns
  PROVE  IInv'
  <1>1. /\ acp = "waiting" /\ acp' = "ending" /\ outcome' \in {"completed", "failed"}
        /\ sweep' = [sweep EXCEPT !["turn"] = [left |-> pending, on |-> TRUE]]
        /\ active' = FALSE
        /\ UNCHANGED <<svc, captured, torn, cancels, pending, resolving, answer,
                       bound, task, queue, closing, events, accepted,
                       consumer, live, failed, shown, log, faults>>
    BY DEF PromptReturns, BeginEnd, relayVars, delivery
  <1>2. sweep' \in [Sweepers -> [left : SUBSET Approvals, on : BOOLEAN]]
    BY <1>1, SweepTypes DEF IInv, Sweepers
  <1>3. outcome' \in Outcomes /\ outcome' # "none"
    BY <1>1 DEF Outcomes
  <1>4. Types'
    BY <1>1, <1>2, <1>3 DEF IInv, Types
  <1>5. Phase'
    BY <1>1, <1>3 DEF IInv, Phase
  <1> QED
    BY <1>1, <1>4, <1>5, ProviderKeeps DEF relayVars, delivery

\* A cancellation strikes the task that waits for the turn.
LEMMA CancelPromptKeeps ==
  ASSUME IInv, CancelPrompt
  PROVE  IInv'
  <1>1. /\ svc = "prompting" /\ cancels < MaxCancels /\ cancels' = cancels + 1
        /\ outcome' = "cancelled"
        /\ UNCHANGED <<svc, pending, bound, task, queue, closing, events, accepted,
                       consumer, live, failed, shown, log, faults>>
    BY DEF CancelPrompt, relayVars, delivery
  <1>2. cancels' \in 0 .. MaxCancels /\ outcome' \in Outcomes /\ outcome' # "none"
    BY <1>1, RelayAssumption DEF IInv, Types, Outcomes
  <1>3. "turn" \in Sweepers /\ "turn" \in Deciders
    BY DEF Sweepers, Deciders
  <1>4. Phase'
    BY <1>1, <1>2 DEF Phase
  <1>5. CASE acp = "waiting" /\ acp' = "unwinding" /\ BeginEnd("turn")
             /\ UNCHANGED <<resolving, answer, torn, captured>>
    <2>1. sweep' \in [Sweepers -> [left : SUBSET Approvals, on : BOOLEAN]] /\ active' \in BOOLEAN
      BY <1>3, <1>5, SweepTypes DEF IInv, BeginEnd
    <2>2. Types'
      BY <1>1, <1>2, <1>5, <2>1 DEF IInv, Types
    <2> QED
      BY <1>1, <1>4, <1>5, <2>2, ProviderKeeps DEF relayVars, delivery
  <1>6. ASSUME NEW a \in Approvals, <<a, "turn">> \in resolving,
               resolving' = resolving \ {<<a, "turn">>},
               answer' = [answer EXCEPT ![a] = IF @ = "none" THEN "cancel" ELSE @],
               \/ /\ acp = "unwinding" /\ acp' = "ending"
                  /\ BeginEnd("turn")
                  /\ UNCHANGED <<torn, captured>>
               \/ /\ acp = "ending" /\ acp' = "left"
                  /\ torn' = TRUE
                  /\ sweep' = [sweep EXCEPT !["turn"] = [left |-> {}, on |-> FALSE]]
                  /\ UNCHANGED <<active, captured>>
        PROVE  IInv'
    <2>1. Decision("turn") = "cancel"
      BY DEF Decision
    <2>2. /\ Agreed' /\ resolving' \subseteq (Approvals \X Deciders)
          /\ answer' \in [Approvals -> Answers \cup {"none"}]
      BY <1>1, <1>3, <1>6, <2>1, AnswerKeeps
    <2>3. /\ sweep' \in [Sweepers -> [left : SUBSET Approvals, on : BOOLEAN]]
          /\ active' \in BOOLEAN /\ torn' \in BOOLEAN
          /\ acp' \in {"waiting", "unwinding", "ending", "left"}
      <3>1. CASE acp' = "ending" /\ BeginEnd("turn") /\ torn' = torn
        BY <1>3, <3>1, SweepTypes DEF IInv, BeginEnd, Types
      <3>2. CASE /\ acp' = "left" /\ torn' = TRUE /\ active' = active
                 /\ sweep' = [sweep EXCEPT !["turn"] = [left |-> {}, on |-> FALSE]]
        BY <1>3, <3>2, SweepTypes DEF IInv, Types
      <3> QED
        BY <1>6, <3>1, <3>2
    <2>4. captured' = captured
      BY <1>6
    <2>5. Types'
      BY <1>1, <1>2, <2>2, <2>3, <2>4 DEF IInv, Types
    <2>6. Emitted' /\ Taking'
      BY <1>1 DEF IInv, Emitted, Taking
    <2>7. Queued' /\ Logged'
      BY <1>1, <2>4, QuietKeeps DEF IInv, relayVars, delivery
    <2> QED
      BY <1>4, <2>2, <2>5, <2>6, <2>7 DEF IInv
  <1> QED
    BY <1>5, <1>6 DEF CancelPrompt

\* The provider has ended the turn's requests, and goes on or leaves.
LEMMA TurnSweptKeeps ==
  ASSUME IInv, TurnSwept
  PROVE  IInv'
  <1>1. /\ bound' = FALSE
        /\ UNCHANGED <<svc, outcome, torn, cancels, pending, resolving, answer, active,
                       task, queue, closing, events, accepted,
                       consumer, live, failed, shown, log, faults>>
    BY DEF TurnSwept, relayVars, delivery
  <1>2. "turn" \in Sweepers
    BY DEF Sweepers
  <1>3. CASE /\ acp = "unwinding" /\ acp' = "ending"
             /\ sweep' = [sweep EXCEPT !["turn"].left = pending]
             /\ UNCHANGED captured
    <2>1. sweep' \in [Sweepers -> [left : SUBSET Approvals, on : BOOLEAN]]
      BY <1>2, <1>3, SweepTypes DEF IInv
    <2>2. Types'
      BY <1>1, <1>3, <2>1 DEF IInv, Types
    <2>3. Phase'
      BY <1>1, <1>3 DEF IInv, Phase
    <2> QED
      BY <1>1, <1>3, <2>2, <2>3, ProviderKeeps DEF relayVars, delivery
  <1>4. CASE /\ acp = "ending" /\ acp' = "left"
             /\ sweep' = [sweep EXCEPT !["turn"].on = FALSE]
             /\ captured' = events
    <2>1. sweep' \in [Sweepers -> [left : SUBSET Approvals, on : BOOLEAN]]
      BY <1>2, <1>4, SweepTypes DEF IInv
    <2>2. Types'
      BY <1>1, <1>4, <2>1 DEF IInv, Types
    <2>3. Phase'
      BY <1>1, <1>4 DEF IInv, Phase
    <2>4. svc = "prompting"
      BY <1>4 DEF IInv, Phase, Types
    <2> QED
      BY <1>1, <1>4, <2>2, <2>3, <2>4, ProviderKeeps DEF relayVars, delivery
  <1> QED
    BY <1>3, <1>4 DEF TurnSwept

\* The consumer changes nothing of the tasks, the broker and the turn.
LEMMA DeliveryKeeps ==
  ASSUME IInv, StoreAndShow \/ StoreFails \/ ShowFails
  PROVE  IInv'
  <1> DEFINE e == Head(queue)
  <1>1. /\ Take /\ consumer /\ queue # <<>> /\ e # Sentinel /\ queue' = Tail(queue)
        /\ UNCHANGED <<svc, acp, outcome, captured, torn, cancels, pending, resolving, answer,
                       sweep, active, bound, task, closing, events, accepted, consumer>>
    BY DEF StoreAndShow, StoreFails, ShowFails, Take, turn, broker
  <1>2. e \in Events /\ queue' \in Seq(Events \cup {Sentinel})
    BY <1>1, TailFacts DEF IInv, Types
  <1> HIDE DEF e
  <1>3. /\ live' \in {live, live \cup {e}} /\ failed' \in {failed, failed \cup {e}}
        /\ live' \cup failed' = live \cup failed \cup {e}
        /\ log' \in {log, Append(log, e)}
        /\ live' # live => log' = Append(log, e)
        /\ shown' = shown \/ (shown' = Append(shown, e) /\ e \in live')
        /\ faults' = faults \/ (faults < MaxFailures /\ faults' = faults + 1)
    <2>1. CASE StoreAndShow
      BY <2>1 DEF StoreAndShow, e
    <2>2. CASE StoreFails
      BY <2>2 DEF StoreFails, e
    <2>3. CASE ShowFails
      BY <2>3 DEF ShowFails, e
    <2> QED
      BY <2>1, <2>2, <2>3
  <1>4. Types'
    <2>1. live' \subseteq Events /\ failed' \subseteq Events
      BY <1>2, <1>3 DEF IInv, Types
    <2>2. log' \in Seq(Events \cup Terminals)
      <3>1. e \in Events \cup Terminals
        BY <1>2
      <3>2. Append(log, e) \in Seq(Events \cup Terminals)
        BY <3>1, AppendFacts DEF IInv, Types
      <3> QED
        BY <1>3, <3>2 DEF IInv, Types
    <2>3. shown' \in Seq(Events)
      <3>1. Append(shown, e) \in Seq(Events)
        BY <1>2, AppendFacts DEF IInv, Types
      <3> QED
        BY <1>3, <3>1 DEF IInv, Types
    <2>4. faults' \in 0 .. MaxFailures
      BY <1>3, RelayAssumption DEF IInv, Types
    <2> QED
      BY <1>1, <1>2, <2>1, <2>2, <2>3, <2>4 DEF IInv, Types
  <1>5. Phase' /\ Emitted' /\ Taking' /\ Agreed'
    BY <1>1 DEF IInv, Phase, Emitted, Taking, Agreed
  <1>6. Queued' /\ Logged'
    BY <1>1, <1>3, <1>4, TakeKeeps DEF IInv, e
  <1> QED
    BY <1>4, <1>5, <1>6 DEF IInv

\* The consumer meets the sentinel; nothing is in the queue behind it.
LEMMA ConsumerEndsKeeps ==
  ASSUME IInv, ConsumerEnds
  PROVE  IInv'
  <1>1. /\ consumer /\ ~consumer' /\ queue # <<>> /\ Head(queue) = Sentinel
        /\ queue' = Tail(queue)
        /\ UNCHANGED <<svc, acp, outcome, captured, torn, cancels, pending, resolving, answer,
                       sweep, active, bound, task, closing, events, accepted,
                       live, failed, shown, log, faults>>
    BY DEF ConsumerEnds, turn, broker
  <1>2. /\ Len(queue) >= 1 /\ queue[1] = Sentinel /\ Len(queue) \in Nat
        /\ queue' \in Seq(Events \cup {Sentinel}) /\ Len(queue') = Len(queue) - 1
    BY <1>1, TailFacts DEF IInv, Types
  <1>3. Types'
    <2>1. consumer' \in BOOLEAN
      BY DEF ConsumerEnds
    <2> QED
      BY <1>1, <1>2, <2>1 DEF IInv, Types
  <1>4. Phase' /\ Emitted' /\ Taking' /\ Agreed'
    BY <1>1 DEF IInv, Phase, Emitted, Taking, Agreed
  <1>5. /\ DOMAIN accepted = 1 .. Len(accepted) /\ Len(accepted) \in Nat /\ Taken \in Nat
        /\ \A i \in 1 .. Len(accepted) : accepted[i] \in Events
        /\ Taken \in 0 .. Len(accepted)
    BY TakenFacts DEF IInv, Queued
  <1>6. Taken = Len(accepted)
    <2>1. CASE Taken < Len(accepted)
      <3>1. 1 \in 1 .. Len(accepted) - Taken /\ Taken + 1 \in 1 .. Len(accepted)
        BY <1>5, <2>1
      <3>2. queue[1] = accepted[Taken + 1]
        BY <3>1 DEF IInv, Queued
      <3> QED
        BY <1>2, <1>5, <3>1, <3>2, EventKinds
    <2>2. Len(accepted) \in Nat /\ Taken \in Nat /\ Taken <= Len(accepted)
      BY <1>5
    <2> QED
      BY <2>1, <2>2
  <1>7. Taken = Len(accepted) - (Len(queue) - Closer) /\ Closer \in {0, 1}
        /\ (Closer = 1 => closing)
    BY DEF Taken, Closer
  <1>8. Closer = 1 /\ closing /\ Len(queue) = 1
    BY <1>2, <1>5, <1>6, <1>7
  <1>9. queue' = <<>> /\ Len(queue') = 0 /\ Closer' = 0
    BY <1>1, <1>2, <1>8 DEF Closer
  <1>10. Taken' = Len(accepted) /\ Len(accepted') = Len(accepted)
    <2>1. Taken' = Len(accepted') - (Len(queue') - Closer')
      BY DEF Taken
    <2>2. Len(accepted') = Len(accepted) /\ Len(accepted) \in Nat
      BY <1>1, <1>5
    <2>3. Len(queue') - Closer' = 0
      BY <1>9
    <2> QED
      BY <2>1, <2>2, <2>3
  <1>11. Queued'
    <2>1. live' \cup failed' = {accepted'[i] : i \in 1 .. Taken'}
      BY <1>1, <1>6, <1>10 DEF IInv, Queued
    <2>2. Taken' \in 0 .. Len(accepted') /\ 1 .. Len(accepted') - Taken' = {}
      BY <1>5, <1>10
    <2> QED
      BY <1>1, <1>8, <1>9, <2>1, <2>2 DEF IInv, Queued
  <1>12. Logged'
    <2>1. Ordered(log)' /\ Ordered(shown)'
      BY <1>1 DEF IInv, Logged, Ordered
    <2> QED
      BY <1>1, <2>1 DEF IInv, Logged
  <1> QED
    BY <1>3, <1>4, <1>11, <1>12 DEF IInv

\* The queue is closed behind what relay took.
LEMMA StartFinalizeKeeps ==
  ASSUME IInv, StartFinalize
  PROVE  IInv'
  <1>1. /\ svc = "prompting" /\ acp = "left" /\ svc' = "draining" /\ closing'
        /\ queue' = Append(queue, Sentinel)
        /\ UNCHANGED <<acp, outcome, captured, torn, cancels, pending, resolving, answer,
                       sweep, active, bound, task, events, accepted, consumer,
                       live, failed, shown, log, faults>>
    BY DEF StartFinalize, delivery, broker
  <1>2. /\ queue' \in Seq(Events \cup {Sentinel}) /\ Len(queue') = Len(queue) + 1
        /\ Len(queue) \in Nat /\ queue'[Len(queue) + 1] = Sentinel
        /\ \A i \in 1 .. Len(queue) : queue'[i] = queue[i]
    BY <1>1, AppendFacts DEF IInv, Types
  <1>3. Types'
    <2>1. closing' \in BOOLEAN
      BY DEF StartFinalize
    <2> QED
      BY <1>1, <1>2, <2>1 DEF IInv, Types
  <1>4. Phase' /\ Emitted' /\ Taking' /\ Agreed'
    BY <1>1 DEF IInv, Phase, Emitted, Taking, Agreed
  <1>5. ~closing /\ consumer /\ consumer' /\ Closer = 0 /\ Closer' = 1
    BY <1>1 DEF IInv, Queued, Closer
  <1>6. Len(accepted) \in Nat /\ Taken \in 0 .. Len(accepted) /\ Taken = Len(accepted) - Len(queue)
    BY <1>2, <1>5, TakenFacts DEF IInv, Queued, Taken
  <1>7. Taken' = Taken /\ Len(accepted) - Taken = Len(queue)
    BY <1>1, <1>2, <1>5, <1>6 DEF Taken
  <1>8. Queued'
    <2>1. ASSUME NEW k \in 1 .. Len(accepted) - Taken PROVE queue'[k] = accepted[Taken + k]
      BY <1>2, <1>7 DEF IInv, Queued
    <2>2. queue'[Len(accepted) - Taken + 1] = Sentinel
      BY <1>2, <1>7
    <2>3. live' \cup failed' = {accepted'[i] : i \in 1 .. Taken'}
      BY <1>1, <1>7 DEF IInv, Queued
    <2> QED
      BY <1>1, <1>5, <1>6, <1>7, <2>1, <2>2, <2>3 DEF Queued
  <1>9. Logged'
    <2>1. Ordered(log)' /\ Ordered(shown)'
      BY <1>1 DEF IInv, Logged, Ordered
    <2> QED
      BY <1>1, <2>1 DEF IInv, Logged
  <1> QED
    BY <1>3, <1>4, <1>8, <1>9 DEF IInv

\* Appending is putting a sequence of one behind.
LEMMA LastByConcat ==
  ASSUME NEW S, NEW s \in Seq(S), NEW e \in S
  PROVE  s \o <<e>> = Append(s, e)
  OBVIOUS

\* Nothing behind a sequence changes nothing.
LEMMA NothingByConcat ==
  ASSUME NEW S, NEW s \in Seq(S)
  PROVE  s \o <<>> = s
  OBVIOUS

\* The end of the turn adds what was not stored, and the terminal event.
LEMMA EndTurnKeeps ==
  ASSUME IInv, EndTurn
  PROVE  IInv'
  <1> DEFINE s == FinalStatus
             S == Events \cup Terminals
  <1>1. /\ svc = "draining" /\ closing /\ ~consumer /\ svc' = "ended"
        /\ UNCHANGED <<acp, outcome, captured, torn, cancels, pending, resolving, answer,
                       sweep, active, bound, task, queue, closing, events, accepted, consumer,
                       live, failed, shown>>
    BY DEF EndTurn, Drained, relayVars, broker
  <1>2. /\ log \in Seq(S) /\ Distinct(log) /\ live \subseteq ToSet(log)
        /\ ToSet(log) \subseteq live \cup failed /\ live \cup failed = ToSet(accepted)
        /\ ToSet(accepted) \subseteq ToSet(events) /\ live \cup failed \subseteq Events
        /\ ToSet(captured) \subseteq ToSet(events) /\ ToSet(events) \subseteq Events
    <2>1. live \cup failed = ToSet(accepted)
      BY <1>1, TakenFacts DEF IInv
    <2>2. ToSet(events) \subseteq Events
      BY InSeq DEF IInv, Types
    <2> QED
      BY <1>1, <2>1, <2>2 DEF IInv, Types, Logged, Taking
  <1>3. s \in Outcomes /\ (s = "completed" => failed = {})
    BY <1>1 DEF IInv, Phase, Types, FinalStatus, Outcomes
  <1>4. \A t \in Outcomes : Terminal(t) \in Terminals /\ Terminal(t) \in S
                              /\ Terminal(t) \notin Events /\ Terminal(t) \notin ToSet(log)
    BY <1>2, EventKinds DEF Terminals
  <1>5. Terminal("failed") # Terminal("completed")
    BY SameKind
  <1> HIDE DEF s
  <1>6. \E t \in Outcomes, rest \in Seq(Events) :
           /\ log' = Append(log \o rest, Terminal(t))
           /\ Distinct(rest) /\ ToSet(rest) \subseteq ToSet(captured) \ live
           /\ ToSet(log) \cap ToSet(rest) = {}
           /\ t = "completed" => failed = {} /\ ToSet(rest) = ToSet(captured) \ live
    <2>1. CASE s = "completed" /\ log' = log \o Leftovers \o <<Terminal("completed")>>
      <3>1. /\ Leftovers \in Seq(Events) /\ Distinct(Leftovers)
            /\ ToSet(Leftovers) = ToSet(captured) \ live
        BY LeftoverFacts DEF IInv, Types, Logged
      <3>2. log' = Append(log \o Leftovers, Terminal("completed"))
        <4>1. log \o Leftovers \in Seq(S) /\ Terminal("completed") \in S
          <5>1. Leftovers \in Seq(S)
            BY <3>1 DEF S
          <5> QED
            BY <1>2, <1>4, <5>1, ConcatFacts DEF Outcomes
        <4> QED
          BY <2>1, <4>1, LastByConcat
      <3>3. ToSet(log) \cap ToSet(Leftovers) = {} /\ failed = {}
        BY <1>2, <1>3, <2>1, <3>1
      <3>4. "completed" \in Outcomes
        BY DEF Outcomes
      <3> QED
        BY <3>1, <3>2, <3>3, <3>4
    <2>2. ASSUME NEW t \in Outcomes, t # "completed", log' = Append(log, Terminal(t))
          PROVE  \E rest \in Seq(Events) :
                   /\ log' = Append(log \o rest, Terminal(t))
                   /\ Distinct(rest) /\ ToSet(rest) \subseteq ToSet(captured) \ live
                   /\ ToSet(log) \cap ToSet(rest) = {}
           /\ ToSet(log) \cap ToSet(rest) = {}
      <3>1. <<>> \in Seq(Events) /\ Distinct(<<>>) /\ ToSet(<<>>) = {}
        BY DEF Distinct, ToSet
      <3>2. log \o <<>> = log
        BY <1>2, NothingByConcat
      <3> QED
        BY <2>2, <3>1, <3>2
    <2>3. \/ s = "completed" /\ log' = log \o Leftovers \o <<Terminal("completed")>>
          \/ s # "completed" /\ log' = Append(log, Terminal(s))
          \/ log' = Append(log, Terminal("failed"))
      BY DEF EndTurn, s
    <2>4. "failed" \in Outcomes /\ "failed" # "completed"
      BY DEF Outcomes
    <2> QED
      BY <1>3, <2>1, <2>2, <2>3, <2>4
  <1>7. PICK t \in Outcomes, rest \in Seq(Events) :
           /\ log' = Append(log \o rest, Terminal(t))
           /\ Distinct(rest) /\ ToSet(rest) \subseteq ToSet(captured) \ live
           /\ ToSet(log) \cap ToSet(rest) = {}
           /\ t = "completed" => failed = {} /\ ToSet(rest) = ToSet(captured) \ live
    BY <1>6
  <1> DEFINE first == log \o rest
  <1>8. /\ first \in Seq(S) /\ Len(first) = Len(log) + Len(rest)
        /\ \A i \in 1 .. Len(log) : first[i] = log[i]
        /\ \A i \in 1 .. Len(rest) : first[Len(log) + i] = rest[i]
        /\ ToSet(first) = ToSet(log) \cup ToSet(rest)
        /\ Distinct(first)
    <2>1. rest \in Seq(S)
      BY DEF S
    <2> QED
      BY <1>2, <1>7, <2>1, ConcatFacts
  <1> HIDE DEF first
  <1>9. Terminal(t) \in S /\ Terminal(t) \in Terminals /\ Terminal(t) \notin ToSet(first)
    <2>1. ToSet(rest) \subseteq Events
      BY <1>2, <1>7
    <2> QED
      BY <1>4, <1>8, <2>1
  <1>10. /\ log' \in Seq(S) /\ Len(log') = Len(first) + 1 /\ Distinct(log')
         /\ \A i \in 1 .. Len(first) : log'[i] = first[i]
         /\ log'[Len(first) + 1] = Terminal(t)
         /\ ToSet(log') = ToSet(first) \cup {Terminal(t)}
    <2>1. log' = Append(first, Terminal(t))
      BY <1>7 DEF first
    <2> QED
      BY <1>8, <1>9, <2>1, AppendFacts
  <1>11. Types'
    <2>1. svc' \in {"prompting", "draining", "ended"}
      BY <1>1
    <2>2. faults' \in 0 .. MaxFailures
      BY RelayAssumption DEF EndTurn, IInv, Types
    <2> QED
      BY <1>1, <1>10, <2>1, <2>2 DEF IInv, Types, S
  <1>12. Phase'
    BY <1>1 DEF IInv, Phase
  <1>13. Emitted' /\ Taking' /\ Agreed'
    BY <1>1 DEF IInv, Emitted, Taking, Agreed
  <1>14. Queued'
    <2>1. Taken' = Taken
      BY <1>1 DEF Taken, Closer
    <2> QED
      BY <1>1, <2>1 DEF IInv, Queued
  <1>15. Ordered(log)'
    <2>1. Len(log) \in Nat /\ Len(rest) \in Nat /\ DOMAIN log = 1 .. Len(log)
      BY <1>2
    <2>2. DOMAIN log' = 1 .. Len(log) + Len(rest) + 1
      BY <1>8, <1>10
    <2>3. ASSUME NEW i \in DOMAIN log', log'[i] \in live
          PROVE  i \in 1 .. Len(log) /\ log'[i] = log[i]
      <3>1. CASE i \in 1 .. Len(log)
        BY <1>8, <1>10, <2>1, <3>1
      <3>2. CASE i > Len(log) /\ i <= Len(log) + Len(rest)
        <4>1. PICK j \in 1 .. Len(rest) : i = Len(log) + j
          <5>1. i - Len(log) \in 1 .. Len(rest) /\ i = Len(log) + (i - Len(log))
            BY <2>1, <2>2, <3>2
          <5> QED
            BY <5>1
        <4>2. log'[i] = rest[j]
          BY <1>8, <1>10, <2>1, <2>2, <3>2, <4>1
        <4>3. rest[j] \in ToSet(rest)
          BY InSeq
        <4> QED
          BY <1>7, <2>3, <4>2, <4>3
      <3>3. CASE i = Len(log) + Len(rest) + 1
        <4>1. log'[i] = Terminal(t)
          BY <1>8, <1>10, <3>3
        <4> QED
          BY <1>2, <1>4, <2>3, <4>1
      <3> QED
        BY <2>1, <2>2, <3>1, <3>2, <3>3
    <2> SUFFICES ASSUME NEW i \in DOMAIN log', NEW j \in DOMAIN log',
                        NEW k \in DOMAIN accepted, NEW l \in DOMAIN accepted,
                        i < j, log'[i] \in live, log'[j] \in live,
                        log'[i] = accepted[k], log'[j] = accepted[l]
                 PROVE  k < l
      BY <1>1 DEF Ordered
    <2>4. /\ i \in DOMAIN log /\ log[i] = log'[i]
          /\ j \in DOMAIN log /\ log[j] = log'[j]
      BY <2>1, <2>3
    <2>5. Ordered(log)
      BY DEF IInv, Logged
    <2> QED
      BY <2>4, <2>5 DEF Ordered
  <1>16. Ordered(shown)'
    BY <1>1 DEF IInv, Logged, Ordered
  <1>17. /\ ToSet(log) \subseteq ToSet(log')
         /\ ToSet(log') \subseteq ToSet(events) \cup Terminals
    <2>1. ToSet(log) \subseteq ToSet(events) \cup Terminals
      BY DEF IInv, Logged
    <2> QED
      BY <1>2, <1>7, <1>8, <1>9, <1>10, <2>1
  <1>18. ASSUME Terminal("completed") \in ToSet(log')
         PROVE  failed = {} /\ ToSet(captured) \cup ToSet(accepted) \subseteq ToSet(log')
    <2>1. Terminal("completed") \notin ToSet(log) /\ Terminal("completed") \notin ToSet(rest)
      BY <1>2, <1>4, <1>7 DEF Outcomes
    <2>2. t = "completed"
      BY <1>8, <1>10, <1>18, <2>1, SameKind
    <2>3. failed = {} /\ ToSet(rest) = ToSet(captured) \ live
      BY <1>7, <2>2
    <2> QED
      BY <1>2, <1>8, <1>10, <2>3
  <1>19. Logged'
    <2>1. live \subseteq ToSet(log') /\ ToSet(shown) \subseteq live
          /\ ToSet(captured) \subseteq ToSet(events) /\ Distinct(captured)
      BY <1>2, <1>17 DEF IInv, Logged
    <2> QED
      BY <1>1, <1>10, <1>15, <1>16, <1>17, <1>18, <2>1 DEF Logged
  <1> QED
    BY <1>11, <1>12, <1>13, <1>14, <1>19 DEF IInv

----------------------------------------------------------------------------
\* Every step keeps the invariant.
LEMMA StepIInv == IInv /\ [Next]_vars => IInv'
  <1> SUFFICES ASSUME IInv, [Next]_vars PROVE IInv'
    OBVIOUS
  <1>1. ASSUME NEW u \in Updates, HandleUpdate(u) PROVE IInv'
    BY <1>1, HandleUpdateKeeps
  <1>2. ASSUME NEW a \in Approvals, HandleRequest(a) PROVE IInv'
    BY <1>2, HandleRequestKeeps
  <1>3. ASSUME NEW a \in Approvals, Decide(a) PROVE IInv'
    <2>1. "user" \in Deciders
      BY DEF Deciders
    <2>2. /\ BeginResolve(a, "user")
          /\ UNCHANGED <<answer, sweep, active, bound, closing, task, delivery, turn, faults>>
      BY <1>3 DEF Decide
    <2>3. sweep' \in [Sweepers -> [left : SUBSET Approvals, on : BOOLEAN]]
      BY <2>2 DEF IInv, Types
    <2> QED
      BY <2>1, <2>2, <2>3, BeginKeeps
  <1>4. ASSUME NEW u \in Updates, NextEvent(u) PROVE IInv'
    BY <1>4, NextEventKeeps
  <1>5. ASSUME NEW a \in Approvals, Withdraw(a) PROVE IInv'
    BY <1>5, WithdrawKeeps
  <1>6. ASSUME NEW a \in Approvals, Decided(a) PROVE IInv'
    <2>1. "user" \in Deciders
      BY DEF Deciders
    <2> QED
      BY <1>6, <2>1, EndKeeps DEF Decided
  <1>7. ASSUME NEW s \in Sweepers, SweepNext(s) PROVE IInv'
    <2>1. PICK a \in sweep[s].left \cap pending :
            BeginResolve(a, s) /\ sweep' = [sweep EXCEPT ![s].left = @ \ {a}]
      BY <1>7 DEF SweepNext
    <2>2. UNCHANGED <<answer, active, bound, closing, task, delivery, turn, faults>>
      BY <1>7 DEF SweepNext
    <2>3. a \in Approvals /\ s \in Deciders
      BY <2>1 DEF IInv, Types, Deciders
    <2>4. sweep' \in [Sweepers -> [left : SUBSET Approvals, on : BOOLEAN]]
      BY <2>1, SweepTypes DEF IInv
    <2> QED
      BY <2>1, <2>2, <2>3, <2>4, BeginKeeps
  <1>8. ASSUME NEW s \in Sweepers, SweepSet(s) PROVE IInv'
    <2>1. s \in Deciders
      BY DEF Deciders
    <2> QED
      BY <1>8, <2>1, EndKeeps DEF SweepSet
  <1>9. CASE SideCancel \/ SideCancelled
    BY <1>9, SideKeeps
  <1>10. CASE PromptReturns
    BY <1>10, PromptReturnsKeeps
  <1>11. CASE CancelPrompt
    BY <1>11, CancelPromptKeeps
  <1>12. CASE TurnSwept
    BY <1>12, TurnSweptKeeps
  <1>13. CASE StartFinalize
    BY <1>13, StartFinalizeKeeps
  <1>14. CASE EndTurn
    BY <1>14, EndTurnKeeps
  <1>15. CASE Deliver
    BY <1>15, DeliveryKeeps, ConsumerEndsKeeps DEF Deliver
  <1>16. CASE UNCHANGED vars
    <2>1. UNCHANGED <<svc, acp, outcome, captured, torn, cancels, pending, resolving, answer,
                      sweep, active, bound, task, queue, closing, events, accepted,
                      consumer, live, failed, shown, log, faults>>
      BY <1>16 DEF vars, broker, relayVars, delivery, turn
    <2>2. Types'
      BY <2>1 DEF IInv, Types
    <2>3. Phase'
      BY <2>1 DEF IInv, Phase
    <2> QED
      BY <2>1, <2>2, <2>3, ProviderKeeps DEF relayVars, delivery
  <1> QED
    BY <1>1, <1>2, <1>3, <1>4, <1>5, <1>6, <1>7, <1>8, <1>9, <1>10, <1>11, <1>12, <1>13,
       <1>14, <1>15, <1>16 DEF Next, Loop

\* The invariant holds in every state of every turn.
THEOREM Invariant == Spec => []IInv
  BY InitIInv, StepIInv, PTL DEF Spec

----------------------------------------------------------------------------
\* The types the runs check follow from those of the invariant.
LEMMA IInvTypes == IInv => TypeOK
  <1> SUFFICES ASSUME IInv PROVE TypeOK
    OBVIOUS
  <1>1. Types
    BY DEF IInv
  <1>2. \A r \in resolving : r[1] \notin pending
    <2> SUFFICES ASSUME NEW r \in resolving PROVE r[1] \notin pending
      OBVIOUS
    <2>1. r[1] \in Approvals /\ r[2] \in Deciders
      BY <1>1 DEF Types
    <2> QED
      BY <2>1, Decisions DEF IInv, Agreed, Emitted
  <1>3. {active, bound, consumer, closing, torn} \subseteq BOOLEAN
    BY <1>1, Zenon DEF Types
  <1>4. /\ ToSet(events) \subseteq Events /\ ToSet(captured) \subseteq Events
        /\ ToSet(accepted) \subseteq Events /\ ToSet(shown) \subseteq Events
        /\ ToSet(queue) \subseteq Events \cup {Sentinel}
        /\ ToSet(log) \subseteq Events \cup Terminals
    BY <1>1, InSeq DEF Types
  <1> QED
    BY <1>1, <1>2, <1>3, <1>4 DEF TypeOK, Types

\* Log and client get the relayed events in the order relay took them.
LEMMA IInvOrder == IInv => ArrivalOrder
  <1> SUFFICES ASSUME IInv PROVE ArrivalOrder
    OBVIOUS
  <1>1. /\ live \subseteq ToSet(accepted)
        /\ ToSet(shown) \subseteq live
        /\ Ordered(log) /\ Ordered(shown) /\ Distinct(log) /\ live \subseteq ToSet(log)
    BY TakenFacts DEF IInv, Logged
  <1>2. \A i \in DOMAIN accepted : i \in Nat
    BY TakenFacts DEF IInv
  <1>3. ASSUME NEW e \in ToSet(accepted) PROVE \E k \in DOMAIN accepted : accepted[k] = e
    BY DEF ToSet
  <1>4. ASSUME NEW seq, Ordered(seq), NEW e \in live, NEW f \in live, Before(e, f, seq)
        PROVE  Before(e, f, accepted)
    <2>1. PICK i \in DOMAIN seq, j \in DOMAIN seq : i < j /\ seq[i] = e /\ seq[j] = f
      BY <1>4 DEF Before
    <2>2. PICK k \in DOMAIN accepted : accepted[k] = e
      BY <1>1, <1>3
    <2>3. PICK l \in DOMAIN accepted : accepted[l] = f
      BY <1>1, <1>3
    <2>4. k < l
      BY <1>4, <2>1, <2>2, <2>3 DEF Ordered
    <2> QED
      BY <2>2, <2>3, <2>4 DEF Before
  <1>5. \A e, f \in live : Before(e, f, log) => Before(e, f, accepted)
    BY <1>1, <1>4
  <1>6. \A e, f \in ToSet(shown) : Before(e, f, shown) => Before(e, f, accepted)
    BY <1>1, <1>4
  <1>7. \A e \in live : Times(e) = 1
    BY <1>1, OnceIn DEF Times, IInv, Types
  <1>8. \A i, j \in DOMAIN accepted : accepted[i] = accepted[j] => i = j
    BY DEF IInv, Taking, Distinct
  <1> QED
    BY <1>1, <1>5, <1>6, <1>7, <1>8 DEF ArrivalOrder

\* A turn the log calls completed has every event once.
LEMMA IInvWhole == IInv => CompletedIsWhole
  <1> SUFFICES ASSUME IInv, Terminal("completed") \in ToSet(log)
               PROVE  failed = {} /\ \A e \in ToSet(captured) \cup ToSet(accepted) : Times(e) = 1
    BY DEF CompletedIsWhole
  <1>1. /\ failed = {} /\ ToSet(captured) \cup ToSet(accepted) \subseteq ToSet(log)
        /\ Distinct(log) /\ log \in Seq(Events \cup Terminals)
    BY DEF IInv, Logged, Types
  <1>2. \A e \in ToSet(log) : Times(e) = 1
    BY <1>1, OnceIn DEF Times
  <1> QED
    BY <1>1, <1>2

\* A request has one response in the log, the one its asker was given.
LEMMA IInvDecided == IInv => DecidedOnce
  <1> SUFFICES ASSUME IInv, NEW a \in Approvals
               PROVE  /\ Cardinality({i \in DOMAIN log :
                                        log[i] \in {Response(a, d) : d \in Answers}}) <= 1
                      /\ \A d \in Answers :
                           Response(a, d) \in ToSet(log) /\ answer[a] # "none" => answer[a] = d
    BY DEF DecidedOnce
  <1>1. \A d \in Answers : Response(a, d) \in ToSet(log) => Response(a, d) \in ToSet(events)
    <2>1. \A d \in Answers : Response(a, d) \in Events /\ Terminals \cap Events = {}
      BY EventKinds
    <2> QED
      BY <2>1 DEF IInv, Logged
  <1>2. \A d, e \in Answers : Response(a, d) \in ToSet(events) /\ Response(a, e) \in ToSet(events)
                                => d = e
    BY DEF IInv, Emitted
  <1> DEFINE P == {i \in DOMAIN log : log[i] \in {Response(a, d) : d \in Answers}}
  <1>3. \A i, j \in P : i = j
    <2> SUFFICES ASSUME NEW i \in P, NEW j \in P PROVE i = j
      OBVIOUS
    <2>1. PICK d \in Answers : log[i] = Response(a, d)
      OBVIOUS
    <2>2. PICK e \in Answers : log[j] = Response(a, e)
      OBVIOUS
    <2>3. log[i] \in ToSet(log) /\ log[j] \in ToSet(log)
      BY DEF ToSet
    <2>4. log[i] = log[j]
      BY <1>1, <1>2, <2>1, <2>2, <2>3
    <2> QED
      BY <2>4 DEF IInv, Logged, Distinct
  <1>4. Cardinality(P) <= 1
    BY <1>3, AtMostOne
  <1>5. ASSUME NEW d \in Answers, Response(a, d) \in ToSet(log), answer[a] # "none"
        PROVE  answer[a] = d
    <2>1. answer[a] \in Answers /\ Response(a, answer[a]) \in ToSet(events)
      BY <1>5 DEF IInv, Agreed, Types
    <2> QED
      BY <1>1, <1>2, <1>5, <2>1
  <1> QED
    BY <1>4, <1>5

\* For any notifications, requests, failures and cancellations: the log and the
\* client have the turn in order and, once it is completed, whole, and an approval
\* has one decision, the same in the log and for the agent (_prompt, deliver,
\* finalize of harnesses/service.py, PermissionBroker of approvals.py).
THEOREM TurnIsRelayedWhole == Spec => []RelayedWhole
  <1>1. IInv => RelayedWhole
    BY IInvTypes, IInvOrder, IInvWhole, IInvDecided DEF RelayedWhole
  <1> QED
    BY <1>1, Invariant, PTL

\* No step writes to a log that has a terminal event.
LEMMA LogIsClosed ==
  IInv /\ [Next]_vars => ((\E t \in Terminals : t \in ToSet(log)) => log' = log)
  <1> SUFFICES ASSUME IInv, [Next]_vars, NEW t \in Terminals, t \in ToSet(log)
               PROVE  log' = log
    OBVIOUS
  <1>1. svc = "ended"
    <2>1. live \cup failed \subseteq Events
      BY DEF IInv, Types
    <2> QED
      BY <2>1, EventKinds DEF IInv, Logged
  <1>2. ~consumer
    BY <1>1 DEF IInv, Queued
  <1>3. ~EndTurn
    BY <1>1 DEF EndTurn
  <1>4. ~Deliver
    BY <1>2 DEF Deliver, StoreAndShow, StoreFails, ShowFails, ConsumerEnds, Take
  <1>5. ASSUME NEW u \in Updates, HandleUpdate(u) \/ NextEvent(u) PROVE log' = log
    BY <1>5 DEF HandleUpdate, NextEvent, delivery
  <1>6. ASSUME NEW a \in Approvals,
               HandleRequest(a) \/ Decide(a) \/ Withdraw(a) \/ Decided(a)
        PROVE  log' = log
    BY <1>6 DEF HandleRequest, Decide, Withdraw, Decided, delivery
  <1>7. ASSUME NEW s \in Sweepers, SweepNext(s) \/ SweepSet(s) PROVE log' = log
    BY <1>7 DEF SweepNext, SweepSet, delivery
  <1>8. CASE SideCancel \/ SideCancelled \/ TurnSwept \/ StartFinalize
    BY <1>8 DEF SideCancel, SideCancelled, TurnSwept, StartFinalize, delivery
  <1>9. CASE PromptReturns \/ CancelPrompt
    BY <1>9 DEF PromptReturns, CancelPrompt, delivery
  <1>10. CASE UNCHANGED vars
    BY <1>10 DEF vars, delivery
  <1> QED
    BY <1>3, <1>4, <1>5, <1>6, <1>7, <1>8, <1>9, <1>10 DEF Next, Loop

\* The terminal event closes the turn: nothing is written after it, whatever
\* arrives late or is still being decided (the safety half of RelayEnds).
THEOREM NothingAfterTheEnd == Spec => TerminalIsLast
  <1>1. IInv /\ [Next]_vars
          => [(\E t \in Terminals : t \in ToSet(log)) => log' = log]_vars
    BY LogIsClosed
  <1> QED
    BY <1>1, Invariant, PTL DEF TerminalIsLast, Spec
==============================================================================
