---------------------------- MODULE MCDecisions ----------------------------
(***************************************************************************)
(* Small instances for TLC of the two components that decide about what is *)
(* observed: the ingest handler and the window engine.  They share no      *)
(* state, so that a behaviour is one of either.                            *)
EXTENDS WindowEngine, TLC

CONSTANTS
    r1, r2, r3, shop, s1,
    Request, Context, ContextOf, CloseStreak, Threads, MaxCrashes, Torn

VARIABLES
    component,
    index, disk, tmp, runtime, object, chain, observed, snapshots, summaries, samples,
    editing, pc, scene, row, state, overlapped, crashes

Ingest == INSTANCE DecisionIngest

ASSUME WindowsHaveTheirType == WindowAssumption
ASSUME RequestsHaveTheirType == Ingest!IngestAssumption

ingestState ==
    <<index, disk, tmp, runtime, object, chain, observed, snapshots, summaries, samples,
      editing, pc, scene, row, state, overlapped, crashes>>

DecisionsInit ==
    component \in {"ingest", "engine"} /\ Init /\ Ingest!Init

DecisionsNext ==
    /\ UNCHANGED component
    /\ \/ component = "ingest" /\ Ingest!Next /\ UNCHANGED vars
       \/ component = "engine" /\ Next /\ UNCHANGED ingestState

Decisions == DecisionsInit /\ [][DecisionsNext]_<<component, vars, ingestState>>

-----------------------------------------------------------------------------
(* RiskReachesPeople, which is about every window there is, evaluated only  *)
(* where the engine moves: a risky window is answered as one and heard of. *)
EngineRiskReachesPeople == component = "engine" => RiskReachesPeople
(* DecisionIngest's: a recorded decision extends a chain that verifies.     *)
SnapshotsExtendTheChain == Ingest!SnapshotsExtendTheChain
(* DecisionIngest's: summaries count what was observed, serial ones exactly. *)
SummariesAddUp == Ingest!SummariesAddUp

-----------------------------------------------------------------------------
MCContextOf == [r \in Request |-> shop]

(* Complete windows of three channels, at times that are, are not and      *)
(* cannot be told to be the hold time apart; and incomplete ones.          *)
MCWindow ==
    [site : {s1}, channel : {"childcare", "fnb", Null},
     severity : {"low", "medium", "high", "critical"}, mode : {"observe_more"},
     quality : {"good", "poor"}, complete : {TRUE}, child : {"calm", "high"},
     stressed : {FALSE}, at : {0, 10, Null}, strict : {TRUE}]
    \cup
    [site : {s1}, channel : {"childcare"}, severity : {"low", "garbled", Null},
     mode : {"suppress", Null}, quality : {"good", Null}, complete : BOOLEAN,
     child : {"calm", "critical"}, stressed : BOOLEAN, at : {10}, strict : BOOLEAN]

Symmetry == Permutations(Request)
=============================================================================
