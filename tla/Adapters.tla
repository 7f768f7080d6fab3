------------------------------ MODULE Adapters ------------------------------
(***************************************************************************)
(* A native adapter of a conversation: create_provider makes the one that   *)
(* its harness names, and the turns are that adapter's from then on.  All   *)
(* three are here, each from the sides its modules have: a turn of Claude's  *)
(* (ClaudeTurn, with its variables) or the life of its processes            *)
(* (ClaudeSession), Codex's (CodexSession) and an ACP agent's (AcpSession), *)
(* whose variables take the slots v1, v2, ... in the order in which each    *)
(* declares them.                                                           *)
(***************************************************************************)
EXTENDS ClaudeTurn

CONSTANTS a1, q1, c1, c2, Off

VARIABLES
    provider,    \* the type of its harness
    v1, v2, v3, v4, v5, v6, v7, v8, v9, v10, v11, v12, v13, v14, v15,
    v16, v17, v18, v19, v20, v21, v22, v23, v24, v25, v26, v27, v28

slots ==
  <<v1, v2, v3, v4, v5, v6, v7, v8, v9, v10, v11, v12, v13, v14, v15,
    v16, v17, v18, v19, v20, v21, v22, v23, v24, v25, v26, v27, v28>>
Rest11 == <<v11, v12, v13, v14, v15, v16, v17, v18, v19, v20, v21, v22, v23, v24, v25, v26,
            v27, v28>>
Rest10 == <<v10, Rest11>>
adapterVars == <<vars, provider, slots>>

Codex == INSTANCE CodexSession WITH
    Approvals <- {a1}, Questions <- {q1}, Decisions <- {"accept"}, MaxTurns
    <- 1, MaxFaults <- 2, MaxClients <- 3, turns <- v1, prompt <- v2, task
    <- v3, active <- v4, attended <- v5, bound <- v6, asks <- v7, cancelled
    <- v8, native <- v9, wire <- v10, reader <- v11, stage <- v12, response
    <- v13, done <- v14, emitting <- v15, recorded <- v16, given <- v17,
    told <- v18, session <- v19, client <- v20, life <- v21, mode <- v22,
    option <- v23, wanted <- v24, update <- v25, side <- v26, op <- v27,
    faults <- v28

Applied == [model |-> "m1", effort |-> "none", mode |-> "default"]
Processes == INSTANCE ClaudeSession WITH
    Callers <- {c1, c2}, Models <- {"m1", "m2"}, Efforts <- {"none", "high"}, Modes
    <- {"default", "plan", "bypassPermissions"}, Keep <- Off, Defaults <- Applied, Wishes
    <- {[model |-> "m2", effort |-> Off, mode |-> "plan"], [Applied EXCEPT !.effort = Off],
        [model |-> Off, effort |-> "high", mode |-> "bypassPermissions"]}, MaxClients
    <- 3, MaxFaults <- 1, session <- v1, rt <- v2, clients <- v3, callers <- v4, lock
    <- v5, unsure <- v6, last <- v7, cut <- v8, overtaken <- v9, faults <- v10

Acp == INSTANCE AcpSession WITH
    Callers <- {c1, c2}, Values <- [model |-> {"m1", "m2"}, effort |-> {"high"}], Usual
    <- [model |-> "m1", effort |-> "high"], Exposed <- {{"model", "effort"}}, Wanted
    <- {"m2"}, Chosen <- {"auto_allow"}, None <- Off, MaxAgents <- 2, MaxFaults <- 1, auto
    <- v1, agents <- v2, rts <- v3, session <- v4, callers <- v5, chosen <- v6, unsure
    <- v7, lost <- v8, faults <- v9

\* The slots from the first that an adapter does not use.
Off11 ==
    /\ v11 = Off /\ v12 = Off /\ v13 = Off /\ v14 = Off /\ v15 = Off /\ v16 = Off
    /\ v17 = Off /\ v18 = Off /\ v19 = Off /\ v20 = Off /\ v21 = Off /\ v22 = Off
    /\ v23 = Off /\ v24 = Off /\ v25 = Off /\ v26 = Off /\ v27 = Off /\ v28 = Off
Off10 == v10 = Off /\ Off11
Off1 ==
    /\ v1 = Off /\ v2 = Off /\ v3 = Off /\ v4 = Off /\ v5 = Off /\ v6 = Off /\ v7 = Off
    /\ v8 = Off /\ v9 = Off /\ Off10

\* create_provider: the adapter the harness names, or an error.
CreateProvider ==
    /\ Init
    /\ \/ provider = "claude_sdk" /\ Off1
       \/ provider = "claude_processes" /\ Processes!Init /\ Off11 /\ ceiling
       \/ provider = "codex_sdk" /\ Codex!Init /\ ceiling
       \/ provider = "acp" /\ Acp!Init /\ Off10 /\ ceiling

OfClaude(step) == provider = "claude_sdk" /\ step /\ UNCHANGED <<provider, slots>>
OfSlots(name, step) == provider = name /\ step /\ UNCHANGED <<provider, vars>>
OfCodex(step) == OfSlots("codex_sdk", step)

AdapterNext ==
    \/ OfClaude(Next)
    \/ OfSlots("claude_processes", Processes!Next /\ UNCHANGED Rest11)
    \/ OfCodex(Codex!Next)
    \/ OfSlots("acp", Acp!Next /\ UNCHANGED Rest10)

\* Of each adapter what its module assumes.
AdapterFairness ==
    /\ WF_vars(OfClaude(Receive)) /\ WF_vars(OfClaude(Handle))
    /\ WF_vars(OfClaude(Timeout)) /\ WF_vars(OfClaude(StreamEnds))
    /\ WF_vars(OfClaude(CliBegins))
    /\ WF_vars(OfClaude(CliEndsTurn("ok") /\ UNCHANGED events))
    /\ WF_slots(OfCodex(Codex!Reader)) /\ WF_slots(OfCodex(Codex!Prompt))
    /\ WF_slots(OfCodex(Codex!SideStep)) /\ WF_slots(OfCodex(Codex!Updating))
    /\ WF_slots(OfCodex(Codex!ServerStarts))
    /\ WF_slots(OfCodex(Codex!Delivered)) /\ WF_slots(OfCodex(Codex!Poll))
    /\ WF_slots(OfCodex(\E x \in {a1, q1} : Codex!ResolveEnds(x)))
    /\ WF_slots(OfCodex(Codex!Withdrawal))

AdapterSpec == CreateProvider /\ [][AdapterNext]_adapterVars /\ AdapterFairness
-----------------------------------------------------------------------------
\* Of each adapter: a decision is one for everybody and the thread has one client
\* that works as the options say (CodexSession!DecisionsTrue, ClientHeld); the
\* processes of a Claude session are its own, in its options and conversation
\* (ClaudeSessionHolds); so are an ACP session's, with the approval mode that was
\* chosen (AcpSessionHolds).
SessionHolds ==
    /\ provider = "codex_sdk" => Codex!DecisionsTrue /\ Codex!ClientHeld
    /\ provider = "claude_processes" => Processes!ClaudeSessionHolds
    /\ provider = "acp" => Acp!AcpSessionHolds

\* Turns end: Claude's wait for background tasks, and a cancelled Codex turn
\* unless it waits for the user (CodexSession!CancelledEnds).
Going == CASE provider = "codex_sdk" -> Codex!Cancelling
           [] provider = "claude_sdk" -> rt.active [] OTHER -> FALSE
Over  == IF provider = "codex_sdk" THEN Codex!CancelOver ELSE ~rt.active
TurnsEnd == Going ~> Over
=============================================================================
