----------------------------- MODULE MCSentinel -----------------------------
(***************************************************************************)
(* Small instances for TLC of the sentinel's pipelines: the loop that      *)
(* posts to the executor, the local replay, and the tools that announce    *)
(* what changed between summaries.  They share no state, so that a         *)
(* behaviour is one of any.                                                *)
(***************************************************************************)
EXTENDS SentinelLoop, TLC

CONSTANTS live, paper, Replay, ModelAnswer, Run, Symbols, LoopItem, MaxInvoked

VARIABLES
    component,
    results, audit, auditCut, at, phase, hand, attempts, made, replaysOverlapped,
    prev, viewing, told, changes, stopped, viewsOverlapped, invoked

Replays == INSTANCE LocalReplay WITH file <- results, log <- audit,
    cut <- auditCut, overlapped <- replaysOverlapped

Announce == INSTANCE MarketAlerts WITH hand <- viewing, overlapped <- viewsOverlapped

(* Nothing that the model answers is taken for no answer, and nothing that *)
(* a tool holds for no tool.                                               *)
ASSUME ReplaysAssumption == Null \notin ModelAnswer
ASSUME AlertsAssumption ==
    Null \notin Announce!Hands /\ Symbols \in Seq(Announce!Symbol)

alertState == <<prev, viewing, told, changes, stopped, viewsOverlapped, invoked>>
replayState ==
    <<results, audit, auditCut, at, phase, hand, attempts, made, replaysOverlapped>>

SentinelInit == component \in {"loop", "replays", "alerts"} /\ Init /\ Replays!Init /\ Announce!Init

SentinelNext ==
    /\ UNCHANGED component
    /\ \/ component = "loop" /\ Next /\ UNCHANGED <<replayState, alertState>>
       \/ component = "replays" /\ Replays!Next /\ UNCHANGED <<vars, alertState>>
       \/ component = "alerts" /\ Announce!Next /\ UNCHANGED <<vars, replayState>>

Sentinel == SentinelInit /\ [][SentinelNext]_<<component, vars, replayState, alertState>>

-----------------------------------------------------------------------------
(* LocalReplay's: what is audited was produced, by the replay itself.      *)
ReplaysAuditResults == Replays!ReplaysAuditResults
(* MarketAlerts': a change is announced once, and by whoever records it.   *)
AlertsAreSound == Announce!AlertsAreSound

-----------------------------------------------------------------------------
MCMode == [l \in Loop |-> IF l = live THEN "live" ELSE "paper"]

(* Open interest may rise twice and fall by 21 % again; the skew calls for *)
(* a long or for nothing; the hourly candle rises, rises far, or falls.    *)
MCReading == {[oi |-> 7900, skew |-> 15], [oi |-> 10000, skew |-> 15], [oi |-> 12700, skew |-> 0]}
MCBar == [tf \in Timeframe |->
            IF tf = "15m" THEN {[candle |-> 5, wide |-> FALSE]}
            ELSE {[candle |-> 5, wide |-> FALSE], [candle |-> 5, wide |-> TRUE],
                  [candle |-> -5, wide |-> FALSE]}]

(* Dry runs to reject for either reason, one whose confidence is not a     *)
(* number, and one that does not validate.                                 *)
MCModelAnswer ==
    { [confidence |-> "low", risk |-> "LOW"],
      [confidence |-> "enough", risk |-> "HIGH"],
      [confidence |-> "nan", risk |-> "LOW"],
      [confidence |-> "outside", risk |-> "LOW"] }

MCSymbols == <<"BTC", "ETH">>

(* No consensus, one of medium risk, one that jumps and risks more.        *)
MCLoopItem ==
    { NoConsensus,
      [score |-> 75, direction |-> "long", risk |-> "medium", confidence |-> 8000],
      [score |-> 95, direction |-> "long", risk |-> "high", confidence |-> 9000] }

Symmetry == Permutations(Replay) \cup Permutations(Run)
=============================================================================
