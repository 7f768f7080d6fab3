----------------------------- MODULE DurableLog -----------------------------
(***************************************************************************)
(* What a session's event log promises its callers, with nothing said of   *)
(* manifests, file handles or fsync: an append-only list of event ids, each *)
(* recorded once, in which whatever was acknowledged is found.  A power     *)
(* loss may cut the list, but never below an event that was acknowledged    *)
(* as durable.                                                              *)
(***************************************************************************)
EXTENDS Naturals, Sequences

CONSTANT Ids    \* event ids, chosen by the callers or drawn at random

VARIABLES
    entries,    \* the ids recorded so far, in order
    acked,      \* ids some caller was told are recorded
    durable     \* ids some caller was told are on stable storage

absVars == <<entries, acked, durable>>

Recorded(s) == {s[i] : i \in DOMAIN s}

AbsInit ==
    /\ entries = <<>>
    /\ acked = {}
    /\ durable = {}

(* An append records new ids, once each; it may stop half way.             *)
Record ==
    /\ entries' \in Seq(Ids)
    /\ Len(entries') > Len(entries)
    /\ \A i \in DOMAIN entries : entries'[i] = entries[i]
    /\ \A i, j \in DOMAIN entries' : entries'[i] = entries'[j] => i = j
    /\ UNCHANGED <<acked, durable>>

(* A caller is told of ids that are recorded, and of some that they are    *)
(* durable.                                                                *)
Acknowledge ==
    /\ acked \subseteq acked'
    /\ acked' \subseteq Recorded(entries)
    /\ durable \subseteq durable'
    /\ durable' \subseteq acked'
    /\ UNCHANGED entries

(* A power loss cuts a tail that holds no durable id.                      *)
Cut ==
    /\ \E k \in 0 .. Len(entries) : entries' = SubSeq(entries, 1, k)
    /\ acked' = acked \cap Recorded(entries')
    /\ durable' = durable
    /\ durable \subseteq Recorded(entries')

AbsNext == Record \/ Acknowledge \/ Cut

AbsSpec == AbsInit /\ [][AbsNext]_absVars
=============================================================================
