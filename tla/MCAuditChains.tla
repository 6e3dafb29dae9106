--------------------------- MODULE MCAuditChains ---------------------------
(***************************************************************************)
(* Small instances for TLC of the components that write or judge an audit  *)
(* file of their own: the override registry, the judgment trail, the core  *)
(* event chain, the observer logs and the orchestrator's seals.  They      *)
(* share no state, so that a behaviour is one of either.                   *)
(***************************************************************************)
EXTENDS OverrideRegistry, TLC

CONSTANTS ann, bob, d1, btc,
    Judgment, Giving, Bundle, Label, MaxOutcomes,
    Producer, Writing, Hashing, Payload, MaxEvents,
    Malformed, Altered, Incomplete, p1, p2, s1, s2,
    Appender, Intent, Large, MaxLines,
    Plan, ChannelOf, Worker, MaxForwards, MaxSeals

VARIABLES
    component,
    given, snap, trail, trailCut, row, step, outcome, report, recorded, before, spoiled,
    of, hashing, history, received,
    kind, lines, tail, draft, made, marred,
    inbox, decision, outbox, seals, work, delivered, crossed

Trail == INSTANCE JudgmentTrail WITH cut <- trailCut
Events == INSTANCE CoreEventChain
Observer == INSTANCE ObserverLog
Orchestrator == INSTANCE OrchestratorOutbox

trailState ==
    <<given, snap, trail, trailCut, row, step, outcome, report, recorded, before, spoiled>>
eventState == <<of, hashing, history, received>>
logState == <<kind, lines, tail, draft, made, marred>>
orchestratorState == <<inbox, decision, outbox, seals, work, delivered, crossed>>

(* A line that does not parse is no line, nothing is no outcome and no     *)
(* snapshot, and the exchange answers for each timeframe in a known way.   *)
ASSUME TrailAssumption ==
    /\ Torn \notin Trail!Line /\ Torn # Null /\ Null \notin Label
    /\ \A b \in Bundle :
        /\ Trail!Snapshot(b) # Null
        /\ \A tf \in DOMAIN b.candles : b.candles[tf] \in Trail!Fetched
ASSUME LogAssumption == Torn \notin Observer!Written
(* Producers number their events, nothing is no snapshot, id or hash, and  *)
(* a damaged event is none that was written.                               *)
ASSUME EventAssumption ==
    /\ MaxEvents \in Nat /\ Hashing \subseteq [1..MaxEvents -> BOOLEAN]
    /\ Writing \subseteq [Producer -> Events!Snapshots]
    /\ Null \notin Events!Snapshots \cup Seq(Events!Ids)
    /\ Events!Damage \cap Events!CoreEvent = {}

ChainsInit ==
    /\ component \in {"overrides", "judgments", "events", "observer", "orchestrator"}
    /\ Init /\ Trail!Init /\ Orchestrator!Init
    /\ component # "judgments" => given = CHOOSE g \in Giving : TRUE
    /\ IF component = "events" THEN Events!Init
       ELSE of = Null /\ hashing = Null /\ history = Null /\ received = Null
    /\ IF component = "observer" THEN Observer!Init
       ELSE /\ kind = Null /\ lines = Null /\ tail = Null
            /\ draft = Null /\ made = Null /\ marred = Null

ChainsNext ==
    /\ UNCHANGED component
    /\ \/ /\ component = "overrides" /\ Next
          /\ UNCHANGED <<trailState, eventState, logState, orchestratorState>>
       \/ /\ component = "judgments" /\ Trail!Next
          /\ UNCHANGED <<vars, eventState, logState, orchestratorState>>
       \/ /\ component = "events" /\ Events!Next
          /\ UNCHANGED <<vars, trailState, logState, orchestratorState>>
       \/ /\ component = "observer" /\ Observer!Next
          /\ UNCHANGED <<vars, trailState, eventState, orchestratorState>>
       \/ /\ component = "orchestrator" /\ Orchestrator!Next
          /\ UNCHANGED <<vars, trailState, eventState, logState>>

Chains ==
    ChainsInit
    /\ [][ChainsNext]_<<component, vars, trailState, eventState, logState, orchestratorState>>

-----------------------------------------------------------------------------
(* JudgmentTrail's: the verifier accepts exactly the undamaged chains.     *)
VerifierFindsDamage == Trail!VerifierFindsDamage
(* JudgmentTrail's: an event's snapshot is there and rests on evidence.    *)
EventsHaveTheirSnapshot == Trail!EventsHaveTheirSnapshot
(* JudgmentTrail's: a report joins each event with what was recorded.      *)
ReportJoinsRecorded == Trail!ReportJoinsRecorded
(* CoreEventChain's: a clean walk is the beginning of one history.         *)
WalkTellsHistories == component = "events" => Events!WalkTellsHistories
(* ObserverLog's: a log that is accepted was appended to serially and whole.*)
AcceptedLogsAreSerial == component = "observer" => Observer!AcceptedLogsAreSerial
(* OrchestratorOutbox's: files and seals never fall behind their source.   *)
SerialFilesMoveOn == Orchestrator!SerialFilesMoveOn

-----------------------------------------------------------------------------
(* What two people may write about one decision.                           *)
Request(t, who, act) ==
    [type |-> "requested", ts |-> t, subject |-> who, target |-> d1, action |-> act]
Approval(t, who, req, end) ==
    [type |-> "approved", ts |-> t, subject |-> who, target |-> d1,
     request |-> IdOf(req), scope |-> {btc}, expires |-> end]

Block  == Request(0, ann, "block_execution")
Reduce == Request(1, bob, "reduce_risk")
Agreed == Approval(0, bob, Block, 2)

MCInput ==
    { Block, Reduce, Agreed,
      Approval(0, ann, Reduce, 1),
      Approval(1, ann, Reduce, 2),
      Approval(1, bob, Reduce, 2),
      [type |-> "rejected", ts |-> 1, subject |-> bob, target |-> d1, request |-> IdOf(Block)],
      [type |-> "executed", ts |-> 2, subject |-> ann, target |-> d1,
       request |-> IdOf(Block), approval |-> IdOf(Agreed)] }

(* Two intents, one with a key too many that comes as it was generated,    *)
(* and one that is piped through the gate; or one that asks to trade for   *)
(* real, written by hand, and another.                                     *)
Said(way, keys, mode, side) ==
    [way |-> way, answer |-> [json |-> "object", keys |-> keys, mode |-> mode,
                              side |-> side, text |-> "good"]]
MCGiving ==
    { << Said("generated", "extra", "LIVE", "LONG"), Said("piped", "exact", "LIVE", "FLAT") >>,
      << Said("written", "exact", "LIVE", "SHORT"), Said("gated", "exact", "DRY_RUN", "SHORT") >> }

(* What the exchange answers for a base timeframe and a long one: all is   *)
(* there, or one thing is wrong.                                           *)
Answered(base, long, derivatives) ==
    [candles |-> ("15m" :> base @@ "4h" :> long), derivatives |-> derivatives]
All == {"openInterest", "fundingRate", "longShortRatio"}
MCBundle ==
    { Answered("good", "good", All),  Answered("good", "old", All),
      Answered("fair", "short", All), Answered("short", "good", All),
      Answered("error", "malformed", All),
      Answered("good", "good", All \ {"fundingRate"}) }

(* Two producers for one snapshot, or for two; chain hashes on all events, *)
(* on none, or on all but the second.                                      *)
MCWriting == { (p1 :> s1 @@ p2 :> s1), (p1 :> s1 @@ p2 :> s2) }
MCHashing == { [n \in 1..MaxEvents |-> TRUE], [n \in 1..MaxEvents |-> FALSE],
               [n \in 1..MaxEvents |-> n # 2] }

MCChannelOf == [p \in Plan |-> "fnb"]

Symmetry == Permutations(Command) \cup Permutations(Worker) \cup Permutations(Label)
=============================================================================
