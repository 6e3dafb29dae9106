-------------------------- MODULE Decisions_proofs --------------------------
(***************************************************************************)
(* Proofs about the components that MCDecisions joins: the window engine,  *)
(* for every set of sites and of windows, and the ingest handler, for any  *)
(* number of requests, contexts, threads and crashes.                      *)
(*                                                                         *)
(* A behaviour of the joined specification is one of either component, for *)
(* the other's steps leave its state alone.                                *)
(***************************************************************************)
EXTENDS MCDecisions, FiniteSetTheorems, SequenceTheorems, TLAPS

(* What runs in MCDecisions is the components.                             *)
LEMMA DecisionsRunEngine == Decisions => Spec
<1>1. DecisionsInit => Init
  BY DEF DecisionsInit
<1>2. [DecisionsNext]_<<component, vars, ingestState>> => [Next]_vars
  BY DEF DecisionsNext, vars
<1>3. QED
  BY <1>1, <1>2, PTL DEF Decisions, Spec

LEMMA DecisionsRunIngest == Decisions => Ingest!Spec
<1>1. DecisionsInit => Ingest!Init
  BY DEF DecisionsInit
<1>2. [DecisionsNext]_<<component, vars, ingestState>> => [Ingest!Next]_Ingest!vars
  BY DEF DecisionsNext, ingestState, Ingest!vars, Ingest!memory, Ingest!files, Ingest!local,
     Ingest!learn
<1>3. QED
  BY <1>1, <1>2, PTL DEF Decisions, Ingest!Spec

Channel == {"childcare", "fnb", "trading", Null}
Given == Severity \cup {Null}

-----------------------------------------------------------------------------
(* The scale of severities.                                                *)

LEMMA Scale ==
    /\ \A n \in 0..3 : Ranked(n) \in Severity /\ Rank[Ranked(n)] = n
    /\ \A s \in Severity : Rank[s] \in 0..3 /\ Ranked(Rank[s]) = s
<1>1. \A s, t \in Severity : Rank[s] = Rank[t] => s = t
  BY DEF Severity, Rank
<1>2. \A n \in 0..3 : \E s \in Severity : Rank[s] = n
  BY DEF Severity, Rank
<1>3. \A s \in Severity : Rank[s] \in 0..3
  BY DEF Severity, Rank
<1>4. QED
  BY <1>1, <1>2, <1>3 DEF Ranked

LEMMA StepsType ==
    \A s \in Severity :
        /\ StepUp(s) \in Severity /\ StepDown(s) \in Severity
        /\ s \in AtRisk => StepUp(s) \in AtRisk
        /\ s \notin AtRisk => StepDown(s) \notin AtRisk
<1> SUFFICES ASSUME NEW s \in Severity
             PROVE  /\ StepUp(s) \in Severity /\ StepDown(s) \in Severity
                    /\ s \in AtRisk => StepUp(s) \in AtRisk
                    /\ s \notin AtRisk => StepDown(s) \notin AtRisk
  OBVIOUS
<1>1. \A t \in Severity : t \in AtRisk <=> Rank[t] >= 2
  BY DEF Severity, AtRisk, Rank
<1>2. s # "critical" => Rank[s] + 1 \in 0..3
  BY DEF Severity, Rank
<1>3. s # "low" => Rank[s] - 1 \in 0..3
  BY DEF Severity, Rank
<1>4. "critical" \in Severity /\ "low" \in Severity
  BY DEF Severity
<1>5. Rank[s] \in 0..3
  BY Scale
<1>6. StepUp(s) \in Severity /\ (s \in AtRisk => StepUp(s) \in AtRisk)
  <2>1. CASE s = "critical"
    BY <2>1 DEF StepUp, Severity
  <2>2. CASE s # "critical"
    BY <2>2, <1>1, <1>2, <1>5, Scale DEF StepUp
  <2>3. QED
    BY <2>1, <2>2
<1>7. StepDown(s) \in Severity /\ (s \notin AtRisk => StepDown(s) \notin AtRisk)
  <2>1. CASE s = "low"
    BY <2>1 DEF StepDown, Severity
  <2>2. CASE s # "low"
    BY <2>2, <1>1, <1>3, <1>5, Scale DEF StepDown
  <2>3. QED
    BY <2>1, <2>2
<1>8. QED
  BY <1>6, <1>7

(* A severity that is compared with HIGH comes out at risk.                *)
LEMMA WorseType ==
    \A s \in Severity : Worse(s, "high") \in Severity /\ Worse(s, "high") \in AtRisk
BY DEF Worse, Severity, AtRisk, Rank

LEMMA AccumulatedType ==
    \A s \in Severity :
        Accumulated(s, s) \in Severity /\ (Accumulated(s, s) \in AtRisk <=> s \in AtRisk)
BY StepsType DEF Accumulated

-----------------------------------------------------------------------------
(* One window.                                                             *)

LEMMA AdaptedType ==
    ASSUME WindowAssumption, NEW w \in Window
    PROVE  /\ AdaptedSeverity(w) \in Given /\ AsLow(AdaptedSeverity(w)) \in Severity
           /\ Emotions(w) \subseteq AtRisk /\ Key(w) \in Keys
           /\ w.at \in Nat \cup {Null}
<1>1. /\ w.site \in Site /\ w.channel \in Channel /\ w.at \in Nat \cup {Null}
      /\ w.severity \in Severity \cup {"garbled", Null}
  BY DEF WindowAssumption, Channel, Severity
<1>2. AdaptedSeverity(w) \in Given
  BY <1>1 DEF AdaptedSeverity, Given, Severity
<1>3. AsLow(AdaptedSeverity(w)) \in Severity
  BY <1>2 DEF AsLow, Given, Severity
<1>4. Emotions(w) \subseteq AtRisk
  BY DEF Emotions, AtRisk
<1>5. Key(w) \in Keys
  BY <1>1 DEF Key, Keys, NamedChannel, Channel
<1>6. QED
  BY <1>1, <1>2, <1>3, <1>4, <1>5

(* A window that shows a risk enters the policies at risk, and one that    *)
(* shows none does not.                                                    *)
LEMMA RaisedRisk ==
    ASSUME WindowAssumption, NEW w \in Window, Raisable(w)
    PROVE  Raised(w) \in Severity /\ (Raised(w) \in AtRisk <=> Risky(w))
<1>1. AdaptedSeverity(w) \in Given /\ AsLow(AdaptedSeverity(w)) \in Severity
      /\ Emotions(w) \subseteq AtRisk
  BY AdaptedType
<1>2. CASE Emotions(w) # {}
  <2>1. AdaptedSeverity(w) \in Severity
    BY <1>1, <1>2 DEF Raisable, Given
  <2>2. Raised(w) \in Severity /\ Raised(w) \in AtRisk
    BY <1>2, <2>1, WorseType DEF Raised
  <2>3. Risky(w)
    BY <1>1, <1>2 DEF Risky, Signals
  <2>4. QED
    BY <2>2, <2>3
<1>3. CASE Emotions(w) = {}
  <2>1. Raised(w) = AsLow(AdaptedSeverity(w)) /\ Signals(w) = {AsLow(AdaptedSeverity(w))}
    BY <1>3 DEF Raised, Signals
  <2>2. QED
    BY <2>1, <1>1 DEF Risky
<1>4. QED
  BY <1>2, <1>3

(* The answer is at risk if the window is, and otherwise only by what is   *)
(* remembered.                                                             *)
LEMMA AnswerRisk ==
    ASSUME WindowAssumption, NEW w \in Window, Raisable(w),
           NEW last \in [severity : Severity, at : Nat \cup {Null}] \cup {Null},
           NEW late \in BOOLEAN
    PROVE  /\ Answer(w, last, late) \in Severity
           /\ Risky(w) => Answer(w, last, late) \in AtRisk
           /\ Answer(w, last, late) \in AtRisk =>
                Risky(w) \/ (last # Null /\ last.severity \in AtRisk)
<1> DEFINE d == Decayed(w, last, late)
<1>1. Raised(w) \in Severity /\ (Raised(w) \in AtRisk <=> Risky(w))
  BY RaisedRisk
<1>2. d \in Severity /\ (Risky(w) => d \in AtRisk)
      /\ (d \in AtRisk => Risky(w) \/ (last # Null /\ last.severity \in AtRisk))
  <2>1. CASE Safe(w) /\ Held(w, last, late)
    <3>1. last # Null /\ last.severity \in Severity
      BY <2>1 DEF Held
    <3>2. d = StepDown(last.severity)
      BY <2>1 DEF Decayed
    <3>3. ~Risky(w)
      BY <2>1 DEF Safe, Risky
    <3>4. QED
      BY <3>1, <3>2, <3>3, StepsType
  <2>2. CASE ~(Safe(w) /\ Held(w, last, late))
    BY <2>2, <1>1 DEF Decayed
  <2>3. QED
    BY <2>1, <2>2
<1>3. Answer(w, last, late) = Accumulated(d, d)
  BY DEF Answer
<1> HIDE DEF d
<1>4. QED
  BY <1>2, <1>3, AccumulatedType

-----------------------------------------------------------------------------
(* One step: what is kept for the window's key is its answer and its time. *)
LEMMA StepType ==
    ASSUME WindowAssumption, TypeOK, NEW w \in Window, RunEngine(w)
    PROVE  /\ Raisable(w) /\ Key(w) \in Keys
           /\ \E late \in BOOLEAN :
                memory' = [memory EXCEPT ![Key(w)] =
                            [severity |-> Answer(w, memory[Key(w)], late), at |-> w.at]]
           /\ alarmed' = alarmed \cup {k \in {Key(w)} : Risky(w)}
<1>1. Raisable(w) /\ Key(w) \in Keys
  BY AdaptedType DEF RunEngine
<1>2. PICK late \in BOOLEAN :
        memory' = [memory EXCEPT ![Key(w)] =
                    [SceneState(w) EXCEPT !.severity = Answer(w, memory[Key(w)], late)]]
  BY DEF RunEngine
<1>3. [SceneState(w) EXCEPT !.severity = Answer(w, memory[Key(w)], late)]
        = [severity |-> Answer(w, memory[Key(w)], late), at |-> w.at]
  <2>1. \A x, y, z :
          [[severity |-> x, at |-> y] EXCEPT !.severity = z] = [severity |-> z, at |-> y]
    OBVIOUS
  <2> DEFINE worst == CHOOSE s \in Signals(w) : \A t \in Signals(w) : Rank[s] >= Rank[t]
  <2>2. SceneState(w) = [severity |-> worst, at |-> w.at]
    BY DEF SceneState
  <2> HIDE DEF worst
  <2>3. QED
    BY <2>1, <2>2
<1>4. alarmed' = alarmed \cup {k \in {Key(w)} : Risky(w)}
  BY DEF RunEngine, Key
<1>5. QED
  BY <1>1, <1>2, <1>3, <1>4

(* Type correctness: what is remembered is a severity, the channels that   *)
(* were alarmed are channels (run_engine.py).                              *)
THEOREM EngineTyped == Spec => []TypeOK
<1>1. Init => TypeOK
  BY DEF Init, TypeOK, Keys
<1>2. TypeOK /\ [Next]_vars => TypeOK'
  <2> SUFFICES ASSUME TypeOK, [Next]_vars PROVE TypeOK'
    OBVIOUS
  <2>1. ASSUME NEW w \in Window, RunEngine(w) PROVE TypeOK'
    <3>1. PICK late \in BOOLEAN :
            memory' = [memory EXCEPT ![Key(w)] =
                        [severity |-> Answer(w, memory[Key(w)], late), at |-> w.at]]
      BY <2>1, StepType, WindowsHaveTheirType
    <3>2. Raisable(w) /\ Key(w) \in Keys /\ alarmed' = alarmed \cup {k \in {Key(w)} : Risky(w)}
      BY <2>1, StepType, WindowsHaveTheirType
    <3>3. memory[Key(w)] \in [severity : Severity, at : Nat \cup {Null}] \cup {Null}
      BY <3>2 DEF TypeOK
    <3>4. Answer(w, memory[Key(w)], late) \in Severity /\ w.at \in Nat \cup {Null}
      BY <3>2, <3>3, AnswerRisk, WindowsHaveTheirType, AdaptedType
    <3>5. QED
      BY <3>1, <3>2, <3>4 DEF TypeOK
  <2>2. CASE UNCHANGED vars
    BY <2>2 DEF TypeOK, vars
  <2>3. QED
    BY <2>1, <2>2 DEF Next
<1>3. QED
  BY <1>1, <1>2, PTL DEF Spec

(* A risky window is answered high or critical whatever is remembered, and *)
(* the router tells people: for every set of windows.                      *)
THEOREM RiskHeard == Decisions => []EngineRiskReachesPeople
<1>0. RiskReachesPeople => EngineRiskReachesPeople
  BY DEF EngineRiskReachesPeople
<1>1. TypeOK => RiskReachesPeople
  <2> SUFFICES ASSUME TypeOK, NEW w \in Window, NEW late \in BOOLEAN,
                      Risky(w), Raisable(w)
               PROVE  LET severity == Answer(w, memory[Key(w)], late)
                          routed == Routed(w.channel, severity)
                      IN  /\ severity \in AtRisk
                          /\ "alert" \in Recommended(AdaptedMode(w), severity)
                          /\ w.channel \in {"childcare", "fnb"} => routed.review
                          /\ w.channel = "fnb" => routed.target = "#ops-alerts"
    BY DEF RiskReachesPeople
  <2> DEFINE severity == Answer(w, memory[Key(w)], late)
  <2>1. memory[Key(w)] \in [severity : Severity, at : Nat \cup {Null}] \cup {Null}
    BY AdaptedType, WindowsHaveTheirType DEF TypeOK
  <2>2. severity \in AtRisk
    BY <2>1, AnswerRisk, WindowsHaveTheirType
  <2> HIDE DEF severity
  <2>3. "alert" \in Recommended(AdaptedMode(w), severity)
    BY <2>2 DEF Recommended
  <2>4. w.channel = "childcare" => Routed(w.channel, severity).review
    BY DEF Routed
  <2>5. w.channel = "fnb" =>
            Routed(w.channel, severity).review
            /\ Routed(w.channel, severity).target = "#ops-alerts"
    BY <2>2 DEF Routed
  <2>6. QED
    BY <2>2, <2>3, <2>4, <2>5 DEF severity
<1>2. QED
  BY <1>1, <1>0, EngineTyped, DecisionsRunEngine, PTL

(* What is remembered at risk has its cause in a risky window of the same  *)
(* site and channel: for every set of windows.                             *)
THEOREM AlarmsCaused == Decisions => []AlarmHasCause
<1>1. Init => AlarmHasCause
  BY DEF Init, AlarmHasCause
<1>2. TypeOK /\ AlarmHasCause /\ [Next]_vars => AlarmHasCause'
  <2> SUFFICES ASSUME TypeOK, AlarmHasCause, [Next]_vars PROVE AlarmHasCause'
    OBVIOUS
  <2>1. ASSUME NEW w \in Window, RunEngine(w) PROVE AlarmHasCause'
    <3>1. PICK late \in BOOLEAN :
            memory' = [memory EXCEPT ![Key(w)] =
                        [severity |-> Answer(w, memory[Key(w)], late), at |-> w.at]]
      BY <2>1, StepType, WindowsHaveTheirType
    <3>2. Raisable(w) /\ Key(w) \in Keys /\ alarmed' = alarmed \cup {k \in {Key(w)} : Risky(w)}
      BY <2>1, StepType, WindowsHaveTheirType
    <3>3. memory[Key(w)] \in [severity : Severity, at : Nat \cup {Null}] \cup {Null}
      BY <3>2 DEF TypeOK
    <3>4. Answer(w, memory[Key(w)], late) \in AtRisk =>
            Risky(w) \/ (memory[Key(w)] # Null /\ memory[Key(w)].severity \in AtRisk)
      BY <3>2, <3>3, AnswerRisk, WindowsHaveTheirType
    <3>5. Answer(w, memory[Key(w)], late) \in AtRisk => Key(w) \in alarmed'
      BY <3>2, <3>4 DEF AlarmHasCause
    <3>6. memory'[Key(w)].severity = Answer(w, memory[Key(w)], late)
      BY <3>1, <3>2 DEF TypeOK
    <3>7. \A k \in Keys : k # Key(w) => memory'[k] = memory[k]
      BY <3>1 DEF TypeOK
    <3>8. QED
      BY <3>2, <3>5, <3>6, <3>7 DEF AlarmHasCause
  <2>2. CASE UNCHANGED vars
    BY <2>2 DEF AlarmHasCause, vars
  <2>3. QED
    BY <2>1, <2>2 DEF Next
<1>3. QED
  BY <1>1, <1>2, EngineTyped, DecisionsRunEngine, PTL DEF Spec

-----------------------------------------------------------------------------
(* The ingest handler: types.                                              *)

Row == [prev: Seq(Request), payload: Request]
\* Has taken its scene.
Placed == Ingest!PC \ {"start"}

SceneTypes ==
    /\ index \in [Context -> Ingest!Entry \cup {Null}]
    /\ disk \in [Context -> Ingest!Entry \cup {Null}]
    /\ tmp \in BOOLEAN
    /\ runtime \in [Request -> Request \cup {Null}]
    /\ object \in [Request -> Ingest!Counted]
RecordTypes ==
    /\ chain \in Seq(Row \cup {Torn})
    /\ observed \in SUBSET Request /\ IsFiniteSet(observed)
    /\ snapshots \in SUBSET (Request \X Request) /\ IsFiniteSet(snapshots)
    /\ summaries \in SUBSET (Request \X Request \X Nat)
HandlerTypes ==
    /\ pc \in [Request -> Ingest!PC]
    /\ scene \in [Request -> Request \cup {Null}]
    /\ row \in [Request -> Row \cup {Null}]
    /\ state \in [Request -> Request]
    /\ \A r \in Request : pc[r] \in Placed => scene[r] \in Request
    /\ \A r \in Request : pc[r] = "chain" => row[r] \in Row /\ row[r].payload = r
HistoryTypes == overlapped \in BOOLEAN /\ crashes \in Nat
IngestTyped == SceneTypes /\ RecordTypes /\ HandlerTypes /\ HistoryTypes

LEMMA Requests ==
    /\ ContextOf \in [Request -> Context] /\ Null \notin Request
    /\ Torn \notin Row
    /\ CloseStreak \in Nat \ {0}
BY RequestsHaveTheirType DEF Ingest!IngestAssumption, Row

(* The labels.                                                             *)
LEMMA Labels ==
    /\ \A l \in {"open", "promote", "saving", "observe", "chain", "event", "get", "update",
                 "snapshot", "decide", "clear", "cleared", "pop"} :
            l \in Ingest!PC /\ l \in Ingest!Running /\ l \in Placed
    /\ {"done", "failed"} \subseteq Placed /\ Placed \subseteq Ingest!PC
    /\ "start" \in Ingest!PC /\ "start" \notin Placed
    /\ Ingest!Running \cap {"start", "done", "failed"} = {}
BY DEF Ingest!PC, Ingest!Running, Placed

(* A chain that verifies has a hash for the next row.                      *)
LEMMA HashType ==
    ASSUME IngestTyped, Ingest!Linked(chain)
    PROVE  Ingest!LastHash(chain) \in Seq(Request)
<1>1. CASE chain = <<>>
  BY <1>1 DEF Ingest!LastHash, Ingest!Genesis
<1>2. CASE chain # <<>>
  <2>1. chain \in Seq(Row \cup {Torn}) /\ Len(chain) \in 1..Len(chain)
    BY <1>2 DEF IngestTyped, RecordTypes
  <2>2. chain[Len(chain)] # Torn
    BY <2>1 DEF Ingest!Linked, Ingest!LinkedAt
  <2>3. chain[Len(chain)] \in Row
    BY <2>1, <2>2
  <2> PICK last \in Row : last = chain[Len(chain)]
    BY <2>3
  <2>4. last.prev \in Seq(Request) /\ last.payload \in Request
    BY DEF Row
  <2>5. Append(last.prev, last.payload) \in Seq(Request)
    BY <2>4, AppendProperties
  <2>6. QED
    BY <1>2, <2>5 DEF Ingest!LastHash, Ingest!Digest
<1>3. QED
  BY <1>1, <1>2

(* A step along the handler, but for the two that set more than the label. *)
LEMMA Moves ==
    ASSUME HandlerTypes, NEW r \in Request, NEW l \in Ingest!PC \ {"start", "chain"},
           pc[r] \in Placed, pc' = [pc EXCEPT ![r] = l], UNCHANGED <<scene, row, state>>
    PROVE  HandlerTypes'
BY DEF HandlerTypes

LEMMA IngestTypesHold == Ingest!Spec => []IngestTyped
<1>1. Ingest!Init => IngestTyped
  <2> SUFFICES ASSUME Ingest!Init PROVE IngestTyped
    OBVIOUS
  <2>1. SceneTypes
    BY Requests DEF Ingest!Init, SceneTypes, Ingest!Fresh, Ingest!Counted
  <2>2. RecordTypes
    BY FS_EmptySet DEF Ingest!Init, RecordTypes
  <2>3. HandlerTypes
    BY Labels DEF Ingest!Init, HandlerTypes
  <2>4. QED
    BY <2>1, <2>2, <2>3 DEF Ingest!Init, IngestTyped, HistoryTypes
<1>2. IngestTyped /\ [Ingest!Next]_Ingest!vars => IngestTyped'
  <2> SUFFICES ASSUME IngestTyped, [Ingest!Next]_Ingest!vars PROVE IngestTyped'
    OBVIOUS
  <2> USE DEF Ingest!memory, Ingest!files, Ingest!local, Ingest!learn, Ingest!At, Ingest!Goto,
              IngestTyped, SceneTypes, RecordTypes, HandlerTypes, HistoryTypes
  <2>1. ASSUME NEW r \in Request, Ingest!FindScene(r) PROVE IngestTyped'
    <3> DEFINE found == index[Ingest!KeyOf(r)]
               label == IF found = Null THEN "open"
                        ELSE IF found.status = "OPEN" THEN "promote" ELSE "observe"
               taken == IF found = Null THEN r ELSE found.scene
    <3>1. found \in Ingest!Entry \cup {Null}
      BY Requests DEF Ingest!KeyOf
    <3>2. taken \in Request /\ label \in Ingest!PC /\ label # "chain"
      BY <3>1, Labels DEF Ingest!Entry
    <3>3. pc' = [pc EXCEPT ![r] = label] /\ scene' = [scene EXCEPT ![r] = taken]
      BY <2>1 DEF Ingest!FindScene
    <3>4. overlapped' \in BOOLEAN
      BY <2>1 DEF Ingest!FindScene
    <3> HIDE DEF label, taken
    <3>5. QED
      BY <2>1, <3>2, <3>3, <3>4 DEF Ingest!FindScene
  <2>2. ASSUME NEW r \in Request, Ingest!OpenScene(r) \/ Ingest!PromoteScene(r)
        PROVE  IngestTyped'
    <3>1. PICK status \in {"OPEN", "ACTIVE"} :
            index' = [index EXCEPT ![Ingest!KeyOf(r)] = [scene |-> scene[r], status |-> status]]
      BY <2>2 DEF Ingest!OpenScene, Ingest!PromoteScene, Ingest!Upsert
    <3>2. scene[r] \in Request
      BY <2>2, Labels DEF Ingest!OpenScene, Ingest!PromoteScene, Ingest!Upsert
    <3>3. index' \in [Context -> Ingest!Entry \cup {Null}]
      BY <3>1, <3>2 DEF Ingest!Entry
    <3>4. /\ pc[r] \in Placed /\ pc' = [pc EXCEPT ![r] = "saving"] /\ tmp' \in BOOLEAN
          /\ UNCHANGED <<disk, runtime, object, chain, observed, snapshots, summaries, scene, row,
                        state, overlapped, crashes>>
      BY <2>2, Labels DEF Ingest!OpenScene, Ingest!PromoteScene, Ingest!Upsert
    <3>5. HandlerTypes'
      BY <3>4, Moves, Labels
    <3>6. QED
      BY <3>3, <3>4, <3>5
  <2>3. ASSUME NEW r \in Request, Ingest!SaveIndex(r) PROVE IngestTyped'
    <3>1. disk' \in [Context -> Ingest!Entry \cup {Null}]
      <4>1. Ingest!Unloadable \in [Context -> Ingest!Entry \cup {Null}]
        BY DEF Ingest!Unloadable
      <4>2. QED
        BY <2>3, <4>1 DEF Ingest!SaveIndex
    <3>2. PICK label \in {"observe", "pop", "failed"} : pc' = [pc EXCEPT ![r] = label]
      BY <2>3 DEF Ingest!SaveIndex
    <3>3. pc[r] \in Placed
      BY <2>3, Labels DEF Ingest!SaveIndex, Ingest!Saving
    <3>4. /\ tmp' \in BOOLEAN
          /\ UNCHANGED <<index, runtime, object, chain, observed, snapshots, summaries, scene, row,
                        state, overlapped, crashes>>
      BY <2>3 DEF Ingest!SaveIndex
    <3>5. HandlerTypes'
      BY <3>2, <3>3, <3>4, Moves, Labels
    <3>6. QED
      BY <3>1, <3>4, <3>5
  <2>4. ASSUME NEW r \in Request, Ingest!Observe(r) PROVE IngestTyped'
    <3>1. CASE Ingest!Linked(chain)
      <4> PICK h \in Seq(Request) : h = Ingest!LastHash(chain)
        BY <3>1, HashType
      <4>1. [prev |-> h, payload |-> r] \in Row /\ [prev |-> h, payload |-> r].payload = r
        BY DEF Row
      <4>2. row' = [row EXCEPT ![r] = [prev |-> h, payload |-> r]]
            /\ pc' = [pc EXCEPT ![r] = "chain"]
        BY <2>4, <3>1 DEF Ingest!Observe
      <4>3. QED
        BY <2>4, <4>1, <4>2, Labels DEF Ingest!Observe
    <3>2. CASE ~Ingest!Linked(chain)
      BY <2>4, <3>2, Labels DEF Ingest!Observe
    <3>3. QED
      BY <3>1, <3>2
  <2>5. ASSUME NEW r \in Request, Ingest!WriteChain(r) PROVE IngestTyped'
    <3>1. row[r] \in Row
      BY <2>5 DEF Ingest!WriteChain
    <3>2. chain' \in Seq(Row \cup {Torn})
      BY <2>5, <3>1, AppendProperties DEF Ingest!WriteChain
    <3>3. QED
      BY <2>5, <3>2, Labels DEF Ingest!WriteChain
  <2>6. ASSUME NEW r \in Request, Ingest!WriteEvent(r) PROVE IngestTyped'
    <3>1. observed' \in SUBSET Request /\ IsFiniteSet(observed')
      BY <2>6, FS_AddElement DEF Ingest!WriteEvent
    <3>2. QED
      BY <2>6, <3>1, Labels DEF Ingest!WriteEvent
  <2>7. ASSUME NEW r \in Request, Ingest!GetState(r) PROVE IngestTyped'
    <3>1. scene[r] \in Request
      BY <2>7, Labels DEF Ingest!GetState
    <3>2. state' \in [Request -> Request]
      BY <2>7, <3>1 DEF Ingest!GetState
    <3>3. QED
      BY <2>7, <3>2, Labels DEF Ingest!GetState
  <2>8. ASSUME NEW r \in Request, Ingest!UpdateState(r) PROVE IngestTyped'
    <3>1. scene[r] \in Request /\ state[r] \in Request
      BY <2>8, Labels DEF Ingest!UpdateState
    <3>2. \A c \in Ingest!Counted, low \in BOOLEAN : Ingest!Updated(c, low) \in Ingest!Counted
      BY DEF Ingest!Updated, Ingest!Counted
    <3>3. object' \in [Request -> Ingest!Counted]
      <4> PICK low \in BOOLEAN :
              object' = [object EXCEPT ![state[r]] = Ingest!Updated(object[state[r]], low)]
        BY <2>8 DEF Ingest!UpdateState
      <4>1. Ingest!Updated(object[state[r]], low) \in Ingest!Counted
        BY <3>1, <3>2
      <4>2. QED
        BY <4>1
    <3>4. runtime' \in [Request -> Request \cup {Null}]
      BY <2>8, <3>1 DEF Ingest!UpdateState
    <3>5. QED
      BY <2>8, <3>3, <3>4, Labels DEF Ingest!UpdateState
  <2>9. ASSUME NEW r \in Request, Ingest!Snapshot(r) PROVE IngestTyped'
    <3>1. scene[r] \in Request
      BY <2>9, Labels DEF Ingest!Snapshot
    <3>2. snapshots' \in SUBSET (Request \X Request) /\ IsFiniteSet(snapshots')
      <4>1. snapshots' = snapshots \cup {<<r, scene[r]>>}
        BY <2>9 DEF Ingest!Snapshot
      <4>2. IsFiniteSet(snapshots')
        BY <4>1, FS_AddElement
      <4>3. QED
        BY <3>1, <4>1, <4>2
    <3>3. QED
      BY <2>9, <3>2, Labels DEF Ingest!Snapshot
  <2>10. ASSUME NEW r \in Request, Ingest!Summarise(r) PROVE IngestTyped'
    <3>1. scene[r] \in Request
      BY <2>10, Labels DEF Ingest!Summarise
    <3>2. Ingest!SummaryOf(r) \in Request \X Request \X Nat
      BY <3>1 DEF Ingest!SummaryOf, Ingest!Counted
    <3>3. QED
      BY <2>10, <3>2, Labels DEF Ingest!Summarise
  <2>11. ASSUME NEW r \in Request, Ingest!KeepOpen(r) PROVE IngestTyped'
    BY <2>11, Labels DEF Ingest!KeepOpen
  <2>12. ASSUME NEW r \in Request, Ingest!ClearActive(r) PROVE IngestTyped'
    <3>1. CASE index[Ingest!KeyOf(r)] = Null
      BY <2>12, <3>1, Labels DEF Ingest!ClearActive
    <3>2. CASE index[Ingest!KeyOf(r)] # Null
      BY <2>12, <3>2, Labels DEF Ingest!ClearActive
    <3>3. QED
      BY <3>1, <3>2
  <2>13. ASSUME NEW r \in Request, Ingest!PopState(r) PROVE IngestTyped'
    BY <2>13, Labels DEF Ingest!PopState
  <2>14. CASE Ingest!OutcomeRead \/ Ingest!OutcomeReplace
    BY <2>14 DEF Ingest!OutcomeRead, Ingest!OutcomeReplace
  <2>15. CASE Ingest!Crash
    <3>1. chain' \in Seq(Row \cup {Torn})
      <4>1. Torn \in Row \cup {Torn}
        OBVIOUS
      <4>2. Append(chain, Torn) \in Seq(Row \cup {Torn})
        BY <4>1, AppendProperties
      <4>3. chain' = chain \/ chain' = Append(chain, Torn)
        BY <2>15 DEF Ingest!Crash
      <4>4. QED
        BY <4>2, <4>3
    <3>2. \A r \in Request : pc'[r] \in Ingest!PC /\ (pc'[r] = "chain" => pc[r] = "chain")
                             /\ (pc'[r] \in Placed => pc[r] \in Placed)
      BY <2>15, Labels DEF Ingest!Crash, Placed
    <3>3. pc' \in [Request -> Ingest!PC]
      BY <2>15, <3>2 DEF Ingest!Crash
    <3>4. QED
      BY <2>15, <3>1, <3>2, <3>3 DEF Ingest!Crash
  <2>16. CASE UNCHANGED Ingest!vars
    BY <2>16 DEF Ingest!vars
  <2>17. QED
    BY <2>1, <2>2, <2>3, <2>4, <2>5, <2>6, <2>7, <2>8, <2>9, <2>10, <2>11, <2>12, <2>13, <2>14,
       <2>15, <2>16 DEF Ingest!Next, Ingest!Handle
<1>3. QED
  BY <1>1, <1>2, PTL DEF Ingest!Spec

-----------------------------------------------------------------------------
(* What is recorded stands on a chain that verifies.                       *)

LEMMA PrefixKept ==
    ASSUME NEW S, NEW c \in Seq(S), NEW x \in S, NEW n \in 0..Len(c)
    PROVE  SubSeq(Append(c, x), 1, n) = SubSeq(c, 1, n)
<1>1. /\ Append(c, x) \in Seq(S) /\ Len(Append(c, x)) = Len(c) + 1
      /\ \A i \in 1..Len(c) : Append(c, x)[i] = c[i]
  BY AppendProperties
<1>2. /\ \A i \in 1..n : c[i] \in S /\ Append(c, x)[i] \in S
      /\ \A i \in 1..n : Append(c, x)[i] = c[i]
  BY <1>1
<1>3. /\ Len(SubSeq(c, 1, n)) = n /\ SubSeq(c, 1, n) \in Seq(S)
      /\ \A i \in 1..n : SubSeq(c, 1, n)[i] = c[i]
  BY <1>2, SubSeqProperties
<1>4. /\ Len(SubSeq(Append(c, x), 1, n)) = n /\ SubSeq(Append(c, x), 1, n) \in Seq(S)
      /\ \A i \in 1..n : SubSeq(Append(c, x), 1, n)[i] = Append(c, x)[i]
  BY <1>1, <1>2, SubSeqProperties
<1>5. QED
  BY <1>2, <1>3, <1>4, SeqEqual

(* Hashed onto a part of the file that verifies.                           *)
Part(n) == SubSeq(chain, 1, n)
Sound(rows, h) == Ingest!Linked(rows) /\ h = Ingest!LastHash(rows)
Stands(h) == \E n \in 0..Len(chain) : Sound(Part(n), h)
RowOn(r, i) ==
    /\ chain[i] # Torn /\ chain[i].payload = r
    /\ \E n \in 0..(i - 1) : Sound(Part(n), chain[i].prev)
OnChain(r) == \E i \in 1..Len(chain) : RowOn(r, i)

ChainInv ==
    /\ \A r \in Request : pc[r] = "chain" => Stands(row[r].prev)
    /\ \A r \in Request : pc[r] \in {"event", "get", "update", "snapshot"} => OnChain(r)
    /\ \A r \in Request : pc[r] \in {"get", "update", "snapshot"} => r \in observed
    /\ \A x \in snapshots : x[1] \in observed /\ OnChain(x[1])

(* A file that is appended to keeps its parts.                             *)
LEMMA GrowthKeeps ==
    ASSUME IngestTyped, NEW line \in Row \cup {Torn}, chain' = Append(chain, line)
    PROVE  /\ \A h : Stands(h) => Stands(h)'
           /\ \A r : OnChain(r) => OnChain(r)'
<1>1. /\ chain \in Seq(Row \cup {Torn}) /\ Len(chain) \in Nat /\ Len(chain') = Len(chain) + 1
      /\ \A i \in 1..Len(chain) : chain'[i] = chain[i]
  BY AppendProperties DEF IngestTyped, RecordTypes
<1>2. \A n \in 0..Len(chain) : Part(n)' = Part(n)
  BY <1>1, PrefixKept DEF Part
<1>3. \A h : Stands(h) => Stands(h)'
  BY <1>1, <1>2 DEF Stands
<1>4. ASSUME NEW r, OnChain(r) PROVE OnChain(r)'
  <2>1. PICK i \in 1..Len(chain) : RowOn(r, i)
    BY <1>4 DEF OnChain
  <2>2. PICK n \in 0..(i - 1) : Sound(Part(n), chain[i].prev)
    BY <2>1 DEF RowOn
  <2>3. chain'[i] = chain[i] /\ Part(n)' = Part(n) /\ i \in 1..Len(chain')
    BY <1>1, <1>2
  <2>4. RowOn(r, i)'
    BY <2>1, <2>2, <2>3 DEF RowOn
  <2>5. QED
    BY <2>3, <2>4 DEF OnChain
<1>5. QED
  BY <1>3, <1>4

(* A row that is appended onto the hash of a part that verifies is on it.  *)
LEMMA AppendedStands ==
    ASSUME IngestTyped, NEW r \in Request, NEW line \in Row, line.payload = r, Stands(line.prev),
           chain' = Append(chain, line)
    PROVE  OnChain(r)'
<1>1. PICK n \in 0..Len(chain) : Sound(Part(n), line.prev)
  BY DEF Stands
<1> PICK i \in Nat : i = Len(chain) + 1
  BY DEF IngestTyped, RecordTypes
<1>2. /\ chain \in Seq(Row \cup {Torn}) /\ Len(chain) \in Nat /\ Len(chain') = i /\ chain'[i] = line
  BY AppendProperties DEF IngestTyped, RecordTypes
<1>3. Part(n)' = Part(n) /\ n \in 0..(i - 1) /\ i \in 1..Len(chain')
  BY <1>2, PrefixKept DEF Part
<1>4. line # Torn
  BY Requests
<1>5. RowOn(r, i)'
  BY <1>1, <1>2, <1>3, <1>4 DEF RowOn
<1>6. QED
  BY <1>3, <1>5 DEF OnChain

LEMMA ChainHolds == Ingest!Spec => []ChainInv
<1>1. Ingest!Init => ChainInv
  BY DEF Ingest!Init, ChainInv
<1>2. IngestTyped /\ ChainInv /\ [Ingest!Next]_Ingest!vars => ChainInv'
  <2> SUFFICES ASSUME IngestTyped, ChainInv, [Ingest!Next]_Ingest!vars PROVE ChainInv'
    OBVIOUS
  <2> USE DEF Ingest!memory, Ingest!files, Ingest!local, Ingest!learn, Ingest!At, Ingest!Goto
  <2>1. ASSUME NEW r \in Request,
               NEW l \in {"open", "promote", "saving", "observe", "pop", "decide",
                          "failed", "update", "snapshot", "clear", "cleared", "done"},
               pc' = [pc EXCEPT ![r] = l],
               l = "update" => pc[r] = "get", l = "snapshot" => pc[r] = "update",
               UNCHANGED <<chain, row, observed, snapshots>>
        PROVE  ChainInv'
    <3>1. \A q \in Request : q # r => pc'[q] = pc[q]
      BY <2>1 DEF IngestTyped, HandlerTypes
    <3>2. pc'[r] = l
      BY <2>1 DEF IngestTyped, HandlerTypes
    <3>3. (\A h : Stands(h)' <=> Stands(h)) /\ (\A q : OnChain(q)' <=> OnChain(q))
      BY <2>1 DEF Stands, OnChain, RowOn, Part
    <3>4. QED
      BY <2>1, <3>1, <3>2, <3>3 DEF ChainInv
  <2>2. ASSUME NEW r \in Request, Ingest!Observe(r), Ingest!Linked(chain) PROVE ChainInv'
    <3>1. SubSeq(chain, 1, Len(chain)) = chain
      <4>1. \A i \in 1..Len(chain) : chain[i] \in Row \cup {Torn}
        BY DEF IngestTyped, RecordTypes
      <4>2. chain \in Seq(Row \cup {Torn}) /\ Len(chain) \in Nat
        BY DEF IngestTyped, RecordTypes
      <4>3. /\ SubSeq(chain, 1, Len(chain)) \in Seq(Row \cup {Torn})
            /\ Len(SubSeq(chain, 1, Len(chain))) = Len(chain)
            /\ \A i \in 1..Len(chain) : SubSeq(chain, 1, Len(chain))[i] = chain[i]
        BY <4>1, <4>2, SubSeqProperties
      <4>4. QED
        BY <4>2, <4>3, SeqEqual
    <3>2. PICK h \in Seq(Request) : h = Ingest!LastHash(chain)
      BY <2>2, HashType
    <3>3. Stands(h)
      <4>1. Len(chain) \in 0..Len(chain)
        BY DEF IngestTyped, RecordTypes
      <4>2. QED
        BY <2>2, <3>1, <3>2, <4>1 DEF Stands, Sound, Part
    <3>4. /\ row' = [row EXCEPT ![r] = [prev |-> h, payload |-> r]]
          /\ pc' = [pc EXCEPT ![r] = "chain"] /\ UNCHANGED <<chain, observed, snapshots>>
      BY <2>2, <3>2 DEF Ingest!Observe
    <3>5. /\ \A q \in Request : q # r => pc'[q] = pc[q] /\ row'[q] = row[q]
          /\ pc'[r] = "chain" /\ row'[r].prev = h
      BY <3>4 DEF IngestTyped, HandlerTypes
    <3>6. (\A g : Stands(g)' <=> Stands(g)) /\ (\A q : OnChain(q)' <=> OnChain(q))
      BY <3>4 DEF Stands, OnChain, RowOn, Part
    <3>7. QED
      BY <3>3, <3>4, <3>5, <3>6 DEF ChainInv
  <2>3. ASSUME NEW r \in Request, Ingest!WriteChain(r) PROVE ChainInv'
    <3>1. /\ row[r] \in Row /\ row[r].payload = r /\ Stands(row[r].prev)
          /\ chain' = Append(chain, row[r])
      BY <2>3 DEF Ingest!WriteChain, ChainInv, IngestTyped, HandlerTypes
    <3>2. OnChain(r)'
      BY <3>1, AppendedStands
    <3>3. (\A h : Stands(h) => Stands(h)') /\ (\A q : OnChain(q) => OnChain(q)')
      BY <3>1, GrowthKeeps
    <3>4. /\ \A q \in Request : q # r => pc'[q] = pc[q]
          /\ pc'[r] = "event" /\ UNCHANGED <<row, observed, snapshots>>
      BY <2>3 DEF Ingest!WriteChain, IngestTyped, HandlerTypes
    <3>5. QED
      BY <3>2, <3>3, <3>4 DEF ChainInv
  <2>4. ASSUME NEW r \in Request, Ingest!WriteEvent(r) PROVE ChainInv'
    <3>1. /\ \A q \in Request : q # r => pc'[q] = pc[q]
          /\ pc[r] = "event" /\ pc'[r] = "get" /\ observed' = observed \cup {r}
          /\ UNCHANGED <<chain, row, snapshots>>
      BY <2>4 DEF Ingest!WriteEvent, IngestTyped, HandlerTypes
    <3>2. (\A g : Stands(g)' <=> Stands(g)) /\ (\A q : OnChain(q)' <=> OnChain(q))
      BY <3>1 DEF Stands, OnChain, RowOn, Part
    <3>3. QED
      BY <3>1, <3>2 DEF ChainInv
  <2>5. ASSUME NEW r \in Request, Ingest!Snapshot(r) PROVE ChainInv'
    <3>1. /\ \A q \in Request : q # r => pc'[q] = pc[q]
          /\ pc[r] = "snapshot" /\ pc'[r] = "decide"
          /\ snapshots' = snapshots \cup {<<r, scene[r]>>}
          /\ UNCHANGED <<chain, row, observed>>
      BY <2>5 DEF Ingest!Snapshot, IngestTyped, HandlerTypes
    <3>2. (\A g : Stands(g)' <=> Stands(g)) /\ (\A q : OnChain(q)' <=> OnChain(q))
      BY <3>1 DEF Stands, OnChain, RowOn, Part
    <3>3. QED
      BY <3>1, <3>2 DEF ChainInv
  <2>6. CASE Ingest!Crash
    <3>1. (\A h : Stands(h) => Stands(h)') /\ (\A q : OnChain(q) => OnChain(q)')
      <4>1. CASE chain' = chain
        BY <4>1 DEF Stands, OnChain, RowOn, Part
      <4>2. CASE chain' = Append(chain, Torn)
        BY <4>2, GrowthKeeps
      <4>3. QED
        BY <2>6, <4>1, <4>2 DEF Ingest!Crash
    <3>2. \A q \in Request : pc'[q] \in {"failed", pc[q]} /\ pc'[q] \notin Ingest!Running
      BY <2>6, Labels DEF Ingest!Crash
    <3>3. \A q \in Request : pc'[q] \notin {"chain", "event", "get", "update", "snapshot"}
      BY <3>2, Labels
    <3>4. UNCHANGED <<observed, snapshots>>
      BY <2>6 DEF Ingest!Crash
    <3>5. QED
      BY <3>1, <3>3, <3>4 DEF ChainInv
  <2>7. CASE UNCHANGED <<pc, chain, row, observed, snapshots>>
    BY <2>7 DEF ChainInv, Stands, OnChain, RowOn, Part
  <2>8. ASSUME NEW r \in Request, Ingest!Handle(r) PROVE ChainInv'
    <3>1. CASE Ingest!FindScene(r)
      BY <2>1, <3>1 DEF Ingest!FindScene
    <3>2. CASE Ingest!OpenScene(r) \/ Ingest!PromoteScene(r)
      BY <2>1, <3>2 DEF Ingest!OpenScene, Ingest!PromoteScene, Ingest!Upsert
    <3>3. CASE Ingest!SaveIndex(r)
      BY <2>1, <3>3 DEF Ingest!SaveIndex
    <3>4. CASE Ingest!Observe(r) /\ ~Ingest!Linked(chain)
      BY <2>1, <3>4 DEF Ingest!Observe
    <3>5. CASE Ingest!GetState(r)
      BY <2>1, <3>5 DEF Ingest!GetState
    <3>6. CASE Ingest!UpdateState(r)
      BY <2>1, <3>6 DEF Ingest!UpdateState
    <3>7. CASE Ingest!Summarise(r) \/ Ingest!KeepOpen(r)
      BY <2>1, <3>7 DEF Ingest!Summarise, Ingest!KeepOpen
    <3>8. CASE Ingest!ClearActive(r) \/ Ingest!PopState(r)
      BY <2>1, <3>8 DEF Ingest!ClearActive, Ingest!PopState
    <3>9. QED
      BY <2>2, <2>3, <2>4, <2>5, <2>8, <3>1, <3>2, <3>3, <3>4, <3>5, <3>6, <3>7, <3>8
         DEF Ingest!Handle
  <2>9. QED
    BY <2>6, <2>7, <2>8 DEF Ingest!Next, Ingest!OutcomeRead, Ingest!OutcomeReplace, Ingest!vars
<1>3. QED
  BY <1>1, <1>2, IngestTypesHold, PTL DEF Ingest!Spec

(* However requests overlap and wherever the process dies, a decision that *)
(* is recorded has its event, and its row on a chain that verified.        *)
THEOREM SnapshotsStand == Decisions => []SnapshotsExtendTheChain
<1>1. ChainInv => SnapshotsExtendTheChain
  BY DEF ChainInv, OnChain, RowOn, Sound, Part, SnapshotsExtendTheChain,
     Ingest!SnapshotsExtendTheChain, Ingest!RowOf
<1>2. QED
  BY <1>1, ChainHolds, DecisionsRunIngest, PTL

-----------------------------------------------------------------------------
(* What is counted was observed.                                           *)

LEMMA IngestCardinalityIs == \A S : Ingest!Cardinality(S) = Cardinality(S)
BY DEF Ingest!Cardinality, Cardinality, Ingest!IsFiniteSet, IsFiniteSet

Unobserved == {"start", "open", "promote", "saving", "observe", "chain", "event"}

(* The observed decisions of a state object's scene that will not count    *)
(* any more: they have, or failed.                                         *)
Behind(st) == {q \in observed : scene[q] = scene[st] /\ pc[q] \notin {"get", "update"}}

CountInv ==
    /\ \A r \in observed : pc[r] \notin Unobserved
    /\ \A s \in Request :
         runtime[s] # Null => scene[runtime[s]] = s /\ pc[runtime[s]] \in Placed
    /\ \A r \in Request :
         pc[r] \in {"update", "snapshot", "decide"} =>
             scene[state[r]] = scene[r] /\ pc[state[r]] \in Placed
    /\ \A st \in Request : object[st].total > 0 => pc[st] \in Placed
    /\ \A st \in Request : object[st].total <= Cardinality(Behind(st))
    /\ \A x \in summaries : x[3] <= Cardinality(Ingest!ObservedFor(x[2]))

LEMMA CountFinite ==
    ASSUME IngestTyped, NEW s
    PROVE  /\ IsFiniteSet(Behind(s)) /\ Cardinality(Behind(s)) \in Nat
           /\ IsFiniteSet(Ingest!ObservedFor(s)) /\ Cardinality(Ingest!ObservedFor(s)) \in Nat
           /\ Cardinality(Behind(s)) <= Cardinality(Ingest!ObservedFor(scene[s]))
<1>1. IsFiniteSet(observed)
  BY DEF IngestTyped, RecordTypes
<1>2. /\ Ingest!ObservedFor(s) \in SUBSET observed /\ Behind(s) \in SUBSET observed
      /\ Ingest!ObservedFor(scene[s]) \in SUBSET observed
      /\ Behind(s) \in SUBSET Ingest!ObservedFor(scene[s])
  BY DEF Ingest!ObservedFor, Behind
<1>3. QED
  BY <1>1, <1>2, FS_Subset, FS_CardinalityType

(* Nobody who is behind or observed ceases to be.                          *)
LEMMA CountsGrow ==
    ASSUME IngestTyped, IngestTyped', observed \subseteq observed',
           \A q \in observed : /\ scene'[q] = scene[q]
                               /\ pc[q] \notin {"get", "update"} => pc'[q] \notin {"get", "update"}
    PROVE  /\ \A s : \A n \in Nat : n <= Cardinality(Ingest!ObservedFor(s))
                           => n <= Cardinality(Ingest!ObservedFor(s)')
           /\ \A s : \A n \in Nat : scene'[s] = scene[s] /\ n <= Cardinality(Behind(s))
                           => n <= Cardinality(Behind(s)')
<1>1. IsFiniteSet(observed')
  BY DEF IngestTyped, RecordTypes
<1>2. ASSUME NEW s, NEW n \in Nat, n <= Cardinality(Ingest!ObservedFor(s))
      PROVE  n <= Cardinality(Ingest!ObservedFor(s)')
  <2>1. Ingest!ObservedFor(s)' \in SUBSET observed'
        /\ Ingest!ObservedFor(s) \in SUBSET (Ingest!ObservedFor(s)')
    BY DEF Ingest!ObservedFor
  <2>2. QED
    BY <1>1, <1>2, <2>1, FS_Subset, FS_CardinalityType
<1>3. ASSUME NEW s, NEW n \in Nat, scene'[s] = scene[s], n <= Cardinality(Behind(s))
      PROVE  n <= Cardinality(Behind(s)')
  <2>1. Behind(s)' \in SUBSET observed' /\ Behind(s) \in SUBSET (Behind(s)')
    BY <1>3 DEF Behind
  <2>2. QED
    BY <1>1, <1>3, <2>1, FS_Subset, FS_CardinalityType
<1>4. QED
  BY <1>2, <1>3

(* A step that counts nothing.                                             *)
LEMMA MoveCountsNothing ==
    ASSUME IngestTyped, IngestTyped', CountInv, NEW r \in Request, NEW l \in Ingest!PC,
           pc' = [pc EXCEPT ![r] = l], l \notin {"start", "get", "update", "snapshot"},
           l \in Unobserved => pc[r] \in Unobserved,
           l = "decide" => pc[r] = "snapshot",
           \A s \in Request : runtime'[s] \in {runtime[s], Null},
           UNCHANGED <<object, observed, summaries, scene, state>>
    PROVE  CountInv'
<1>1. /\ \A q \in Request : q # r => pc'[q] = pc[q]
      /\ pc'[r] = l /\ l \in Placed
  BY DEF IngestTyped, HandlerTypes, Placed
<1>2. \A q \in Request : pc[q] \in Placed => pc'[q] \in Placed
  BY <1>1
<1>3. \A q \in observed : q \in Request
  BY DEF IngestTyped, RecordTypes
<1>4. \A q \in observed : /\ scene'[q] = scene[q]
                          /\ pc[q] \notin {"get", "update"} => pc'[q] \notin {"get", "update"}
  BY <1>1, <1>3
<1>5. \A st \in Request : object'[st].total <= Cardinality(Behind(st)')
  <2>1. \A st \in Request : object[st].total \in Nat
    BY DEF IngestTyped, SceneTypes, Ingest!Counted
  <2>2. QED
    BY <1>4, <2>1, CountsGrow DEF CountInv
<1>6. \A x \in summaries' : x[3] <= Cardinality(Ingest!ObservedFor(x[2])')
  <2>1. \A x \in summaries : x[3] \in Nat
    BY DEF IngestTyped, RecordTypes
  <2>2. QED
    BY <1>4, <2>1, CountsGrow DEF CountInv
<1>7. \A q \in observed' : pc'[q] \notin Unobserved
  BY <1>1, <1>3 DEF CountInv
<1>8. \A s \in Request :
          runtime'[s] # Null => scene'[runtime'[s]] = s /\ pc'[runtime'[s]] \in Placed
  <2>1. \A s \in Request : runtime[s] # Null => runtime[s] \in Request
    BY DEF IngestTyped, SceneTypes
  <2>2. QED
    BY <1>2, <2>1 DEF CountInv
<1>9. \A q \in Request :
          pc'[q] \in {"update", "snapshot", "decide"} =>
              scene'[state'[q]] = scene'[q] /\ pc'[state'[q]] \in Placed
  <2>1. \A q \in Request : state[q] \in Request
    BY DEF IngestTyped, HandlerTypes
  <2>2. QED
    BY <1>1, <1>2, <2>1 DEF CountInv
<1>10. \A st \in Request : object'[st].total > 0 => pc'[st] \in Placed
  BY <1>2 DEF CountInv
<1>11. QED
  BY <1>5, <1>6, <1>7, <1>8, <1>9, <1>10 DEF CountInv

LEMMA CountHolds == Ingest!Spec => []CountInv
<1>1. Ingest!Init => CountInv
  <2> SUFFICES ASSUME Ingest!Init PROVE CountInv
    OBVIOUS
  <2>1. \A st \in Request : Cardinality(Behind(st)) = 0 /\ object[st].total = 0
    <3>1. \A st : Behind(st) = {}
      BY DEF Ingest!Init, Behind
    <3>2. QED
      BY <3>1, FS_EmptySet DEF Ingest!Init, Ingest!Fresh
  <2>2. QED
    BY <2>1 DEF Ingest!Init, CountInv
<1>2. IngestTyped /\ IngestTyped' /\ ChainInv /\ CountInv /\ [Ingest!Next]_Ingest!vars => CountInv'
  <2> SUFFICES ASSUME IngestTyped, IngestTyped', ChainInv, CountInv, [Ingest!Next]_Ingest!vars
               PROVE  CountInv'
    OBVIOUS
  <2> USE DEF Ingest!memory, Ingest!files, Ingest!local, Ingest!learn, Ingest!At, Ingest!Goto
  <2>1. \A q \in observed : q \in Request
    BY DEF IngestTyped, RecordTypes
  <2>2. \A st \in Request : object[st].total \in Nat
    BY DEF IngestTyped, SceneTypes, Ingest!Counted
  <2>3. \A x \in summaries : x[3] \in Nat /\ x[2] \in Request
    BY DEF IngestTyped, RecordTypes
  <2>4. /\ \A s \in Request : runtime[s] # Null => runtime[s] \in Request
        /\ \A r \in Request : state[r] \in Request
    BY DEF IngestTyped, SceneTypes, HandlerTypes
  <2>5. ASSUME NEW r \in Request, Ingest!FindScene(r) PROVE CountInv'
    <3>1. PICK l \in {"open", "promote", "observe"}, s \in Request :
              pc' = [pc EXCEPT ![r] = l] /\ scene' = [scene EXCEPT ![r] = s]
      <4> DEFINE found == index[Ingest!KeyOf(r)]
                 l == IF found = Null THEN "open"
                      ELSE IF found.status = "OPEN" THEN "promote" ELSE "observe"
                 s == IF found = Null THEN r ELSE found.scene
      <4>1. pc' = [pc EXCEPT ![r] = l] /\ scene' = [scene EXCEPT ![r] = s]
        BY <2>5 DEF Ingest!FindScene
      <4>2. found \in Ingest!Entry \cup {Null}
        BY Requests DEF Ingest!KeyOf, IngestTyped, SceneTypes
      <4>3. s \in Request /\ l \in {"open", "promote", "observe"}
        BY <4>2 DEF Ingest!Entry
      <4>4. QED
        BY <4>1, <4>3
    <3>2. /\ pc[r] = "start"
          /\ UNCHANGED <<runtime, object, observed, summaries, state>>
      BY <2>5 DEF Ingest!FindScene
    <3>3. /\ \A q \in Request : q # r => pc'[q] = pc[q] /\ scene'[q] = scene[q]
          /\ pc'[r] = l
      BY <3>1 DEF IngestTyped, HandlerTypes
    <3>4. r \notin observed /\ pc[r] \notin Placed
      BY <3>2, Labels DEF CountInv, Unobserved
    <3>5. \A q \in observed : /\ scene'[q] = scene[q]
                              /\ pc[q] \notin {"get", "update"} => pc'[q] \notin {"get", "update"}
      BY <2>1, <3>3, <3>4
    <3>6. \A st \in Request : object'[st].total <= Cardinality(Behind(st)')
      <4>2. ASSUME NEW st \in Request, st # r
            PROVE  object'[st].total <= Cardinality(Behind(st)')
        BY <2>2, <3>2, <3>3, <3>5, <4>2, CountsGrow DEF CountInv
      <4>3. object'[r].total = 0
        BY <2>2, <3>2, <3>4 DEF CountInv
      <4>4. Cardinality(Behind(r)') >= 0
        <5>1. IsFiniteSet(observed') /\ Behind(r)' \in SUBSET observed'
          BY DEF IngestTyped, RecordTypes, Behind
        <5>2. QED
          BY <5>1, FS_Subset, FS_CardinalityType
      <4>5. QED
        BY <4>2, <4>3, <4>4
    <3>7. \A x \in summaries' : x[3] <= Cardinality(Ingest!ObservedFor(x[2])')
      BY <2>3, <3>2, <3>5, CountsGrow DEF CountInv
    <3>8. \A q \in observed' : pc'[q] \notin Unobserved
      BY <2>1, <3>2, <3>3, <3>4 DEF CountInv
    <3>9. \A t \in Request :
              runtime'[t] # Null => scene'[runtime'[t]] = t /\ pc'[runtime'[t]] \in Placed
      BY <2>4, <3>2, <3>3, <3>4 DEF CountInv
    <3>10. \A q \in Request :
              pc'[q] \in {"update", "snapshot", "decide"} =>
                  scene'[state'[q]] = scene'[q] /\ pc'[state'[q]] \in Placed
      BY <2>4, <3>2, <3>3, <3>4 DEF CountInv
    <3>11. \A st \in Request : object'[st].total > 0 => pc'[st] \in Placed
      BY <3>2, <3>3, <3>4 DEF CountInv
    <3>12. QED
      BY <3>6, <3>7, <3>8, <3>9, <3>10, <3>11 DEF CountInv
  <2>6. ASSUME NEW r \in Request,
               \/ Ingest!OpenScene(r) \/ Ingest!PromoteScene(r) \/ Ingest!SaveIndex(r)
               \/ Ingest!Observe(r) \/ Ingest!WriteChain(r) \/ Ingest!Snapshot(r)
               \/ Ingest!KeepOpen(r) \/ Ingest!ClearActive(r) \/ Ingest!PopState(r)
        PROVE  CountInv'
    <3>1. PICK l \in {"saving", "observe", "pop", "failed", "chain", "event", "decide", "done",
                      "cleared"} :
              /\ pc' = [pc EXCEPT ![r] = l]
              /\ l \in Unobserved => pc[r] \in Unobserved
              /\ l = "decide" => pc[r] = "snapshot"
      BY <2>6 DEF Ingest!OpenScene, Ingest!PromoteScene, Ingest!Upsert, Ingest!SaveIndex,
         Ingest!Saving, Ingest!Observe, Ingest!WriteChain, Ingest!Snapshot, Ingest!KeepOpen,
         Ingest!ClearActive, Ingest!PopState, Unobserved
    <3>2. UNCHANGED <<object, observed, summaries, scene, state>>
      BY <2>6 DEF Ingest!OpenScene, Ingest!PromoteScene, Ingest!Upsert, Ingest!SaveIndex,
         Ingest!Observe, Ingest!WriteChain, Ingest!Snapshot, Ingest!KeepOpen,
         Ingest!ClearActive, Ingest!PopState
    <3>3. \A s \in Request : runtime'[s] \in {runtime[s], Null}
      BY <2>6 DEF Ingest!OpenScene, Ingest!PromoteScene, Ingest!Upsert, Ingest!SaveIndex,
         Ingest!Observe, Ingest!WriteChain, Ingest!Snapshot, Ingest!KeepOpen,
         Ingest!ClearActive, Ingest!PopState, IngestTyped, SceneTypes
    <3>4. QED
      BY <3>1, <3>2, <3>3, MoveCountsNothing, Labels
  <2>7. ASSUME NEW r \in Request, Ingest!WriteEvent(r) PROVE CountInv'
    <3>1. /\ \A q \in Request : q # r => pc'[q] = pc[q]
          /\ pc[r] = "event" /\ pc'[r] = "get" /\ observed' = observed \cup {r}
          /\ UNCHANGED <<runtime, object, summaries, scene, state>>
      BY <2>7 DEF Ingest!WriteEvent, IngestTyped, HandlerTypes
    <3>2. r \notin observed
      BY <3>1 DEF CountInv, Unobserved
    <3>3. \A q \in observed : /\ scene'[q] = scene[q]
                              /\ pc[q] \notin {"get", "update"} => pc'[q] \notin {"get", "update"}
      BY <2>1, <3>1, <3>2
    <3>4. \A q \in Request : pc[q] \in Placed => pc'[q] \in Placed
      BY <3>1, Labels
    <3>5. \A st \in Request : object'[st].total <= Cardinality(Behind(st)')
      BY <2>2, <3>1, <3>3, CountsGrow DEF CountInv
    <3>6. \A x \in summaries' : x[3] <= Cardinality(Ingest!ObservedFor(x[2])')
      BY <2>3, <3>1, <3>3, CountsGrow DEF CountInv
    <3>7. \A q \in observed' : pc'[q] \notin Unobserved
      BY <2>1, <3>1 DEF CountInv, Unobserved
    <3>8. QED
      BY <2>4, <3>1, <3>4, <3>5, <3>6, <3>7 DEF CountInv
  <2>8. ASSUME NEW r \in Request, Ingest!GetState(r) PROVE CountInv'
    <3>1. /\ \A q \in Request : q # r => pc'[q] = pc[q] /\ state'[q] = state[q]
          /\ pc[r] = "get" /\ pc'[r] = "update"
          /\ state'[r] = IF runtime[scene[r]] = Null THEN r ELSE runtime[scene[r]]
          /\ UNCHANGED <<runtime, object, observed, summaries, scene>>
      BY <2>8 DEF Ingest!GetState, IngestTyped, HandlerTypes
    <3>2. scene[r] \in Request /\ r \in observed /\ pc'[r] \in Placed
      BY <3>1, Labels DEF ChainInv, IngestTyped, HandlerTypes
    <3>3. \A q \in observed : /\ scene'[q] = scene[q]
                              /\ pc[q] \notin {"get", "update"} => pc'[q] \notin {"get", "update"}
      BY <2>1, <3>1
    <3>4. \A q \in Request : pc[q] \in Placed => pc'[q] \in Placed
      BY <3>1, <3>2
    <3>5. \A st \in Request : object'[st].total <= Cardinality(Behind(st)')
      BY <2>2, <3>1, <3>3, CountsGrow DEF CountInv
    <3>6. \A x \in summaries' : x[3] <= Cardinality(Ingest!ObservedFor(x[2])')
      BY <2>3, <3>1, <3>3, CountsGrow DEF CountInv
    <3>7. scene[state'[r]] = scene[r] /\ pc'[state'[r]] \in Placed
      BY <2>4, <3>1, <3>2, <3>4 DEF CountInv
    <3>8. \A q \in observed' : pc'[q] \notin Unobserved
      BY <2>1, <3>1 DEF CountInv, Unobserved
    <3>9. QED
      BY <2>4, <3>1, <3>4, <3>5, <3>6, <3>7, <3>8 DEF CountInv
  <2>9. ASSUME NEW r \in Request, Ingest!UpdateState(r) PROVE CountInv'
    <3> DEFINE st == state[r]
    <3>1. /\ \A q \in Request : q # r => pc'[q] = pc[q]
          /\ pc[r] = "update" /\ pc'[r] = "snapshot"
          /\ runtime' = [runtime EXCEPT ![scene[r]] = state[r]]
          /\ UNCHANGED <<observed, summaries, scene, state>>
      BY <2>9 DEF Ingest!UpdateState, IngestTyped, HandlerTypes
    <3>2. /\ scene[r] \in Request /\ r \in observed /\ pc'[r] \in Placed /\ state[r] \in Request
          /\ scene[state[r]] = scene[r] /\ pc[state[r]] \in Placed
      BY <3>1, Labels DEF ChainInv, CountInv, IngestTyped, HandlerTypes
    <3>3. \A q \in observed : /\ scene'[q] = scene[q]
                              /\ pc[q] \notin {"get", "update"} => pc'[q] \notin {"get", "update"}
      BY <2>1, <3>1
    <3>4. \A q \in Request : pc[q] \in Placed => pc'[q] \in Placed
      BY <3>1, <3>2
    <3>5. /\ \A q \in Request : q # state[r] => object'[q] = object[q]
          /\ object'[state[r]].total = object[state[r]].total + 1
      <4>1. PICK low \in BOOLEAN :
                object' = [object EXCEPT ![state[r]] = Ingest!Updated(object[state[r]], low)]
        BY <2>9 DEF Ingest!UpdateState
      <4>2. Ingest!Updated(object[state[r]], low).total = object[state[r]].total + 1
        BY DEF Ingest!Updated
      <4>3. QED
        BY <3>2, <4>1, <4>2 DEF IngestTyped, SceneTypes
    <3>6. \A q \in Request : object'[q].total <= Cardinality(Behind(q)')
      <4>1. ASSUME NEW q \in Request, q # state[r]
            PROVE  object'[q].total <= Cardinality(Behind(q)')
        BY <2>2, <3>1, <3>3, <3>5, <4>1, CountsGrow DEF CountInv
      <4>2. PICK o \in Request : o = state[r]
        BY <3>2
      <4>3. Behind(o)' = Behind(o) \cup {r} /\ r \notin Behind(o)
        BY <2>1, <3>1, <3>2, <4>2 DEF Behind
      <4>4. Cardinality(Behind(o)') = Cardinality(Behind(o)) + 1
        BY <4>3, CountFinite, FS_AddElement
      <4>5. object'[o].total <= Cardinality(Behind(o)')
        BY <2>2, <3>5, <4>2, <4>4, CountFinite DEF CountInv
      <4>6. QED
        BY <4>1, <4>2, <4>5
    <3>7. \A x \in summaries' : x[3] <= Cardinality(Ingest!ObservedFor(x[2])')
      BY <2>3, <3>1, <3>3, CountsGrow DEF CountInv
    <3>8. \A q \in observed' : pc'[q] \notin Unobserved
      BY <2>1, <3>1 DEF CountInv, Unobserved
    <3>9. \A t \in Request :
              runtime'[t] # Null => scene'[runtime'[t]] = t /\ pc'[runtime'[t]] \in Placed
      <4>1. \A t \in Request : runtime'[t] = IF t = scene[r] THEN state[r] ELSE runtime[t]
        BY <3>1 DEF IngestTyped, SceneTypes
      <4>2. QED
        BY <2>4, <3>1, <3>2, <3>4, <4>1 DEF CountInv
    <3>10. \A q \in Request :
              pc'[q] \in {"update", "snapshot", "decide"} =>
                  scene'[state'[q]] = scene'[q] /\ pc'[state'[q]] \in Placed
      BY <2>4, <3>1, <3>2, <3>4 DEF CountInv
    <3>11. \A q \in Request : object'[q].total > 0 => pc'[q] \in Placed
      BY <2>2, <3>2, <3>4, <3>5 DEF CountInv
    <3>12. QED
      BY <3>6, <3>7, <3>8, <3>9, <3>10, <3>11 DEF CountInv
  <2>10. ASSUME NEW r \in Request, Ingest!Summarise(r) PROVE CountInv'
    <3>1. /\ \A q \in Request : q # r => pc'[q] = pc[q]
          /\ pc[r] = "decide" /\ pc'[r] = "clear"
          /\ summaries' = summaries \cup {<<r, scene[r], object[state[r]].total>>}
          /\ UNCHANGED <<runtime, object, observed, scene, state>>
      BY <2>10 DEF Ingest!Summarise, Ingest!SummaryOf, IngestTyped, HandlerTypes
    <3>2. \A q \in observed : /\ scene'[q] = scene[q]
                              /\ pc[q] \notin {"get", "update"} => pc'[q] \notin {"get", "update"}
      BY <2>1, <3>1
    <3>3. \A q \in Request : pc[q] \in Placed => pc'[q] \in Placed
      BY <3>1, Labels
    <3>4. \A st \in Request : object'[st].total <= Cardinality(Behind(st)')
      BY <2>2, <3>1, <3>2, CountsGrow DEF CountInv
    <3>5. object[state[r]].total <= Cardinality(Ingest!ObservedFor(scene[r]))
      <4>1. /\ state[r] \in Request /\ scene[state[r]] = scene[r]
            /\ object[state[r]].total <= Cardinality(Behind(state[r]))
        BY <2>4, <3>1 DEF CountInv
      <4>2. /\ Cardinality(Behind(state[r])) <= Cardinality(Ingest!ObservedFor(scene[state[r]]))
            /\ Cardinality(Behind(state[r])) \in Nat
            /\ Cardinality(Ingest!ObservedFor(scene[state[r]])) \in Nat
        BY CountFinite
      <4>3. QED
        BY <2>2, <4>1, <4>2
    <3>6. \A x \in summaries' : x[3] <= Cardinality(Ingest!ObservedFor(x[2])')
      <4>1. Ingest!ObservedFor(scene[r])' = Ingest!ObservedFor(scene[r])
            /\ \A s : Ingest!ObservedFor(s)' = Ingest!ObservedFor(s)
        BY <3>1 DEF Ingest!ObservedFor
      <4>2. QED
        BY <3>1, <3>5, <4>1 DEF CountInv
    <3>7. \A q \in observed' : pc'[q] \notin Unobserved
      BY <2>1, <3>1 DEF CountInv, Unobserved
    <3>8. QED
      BY <2>4, <3>1, <3>3, <3>4, <3>6, <3>7 DEF CountInv
  <2>11. CASE Ingest!Crash
    <3>1. /\ \A q \in Request : pc'[q] = IF pc[q] \in Ingest!Running THEN "failed" ELSE pc[q]
          /\ \A s \in Request : runtime'[s] = Null
          /\ UNCHANGED <<object, observed, summaries, scene, state>>
      BY <2>11 DEF Ingest!Crash
    <3>2. \A q \in Request : /\ pc[q] \in Placed => pc'[q] \in Placed
                             /\ pc'[q] \notin {"get", "update", "snapshot", "decide"}
                             /\ pc[q] \notin Unobserved => pc'[q] \notin Unobserved
      BY <3>1, Labels DEF Unobserved
    <3>3. \A q \in observed : /\ scene'[q] = scene[q]
                              /\ pc[q] \notin {"get", "update"} => pc'[q] \notin {"get", "update"}
      BY <2>1, <3>1, <3>2
    <3>4. \A st \in Request : object'[st].total <= Cardinality(Behind(st)')
      BY <2>2, <3>1, <3>3, CountsGrow DEF CountInv
    <3>5. \A x \in summaries' : x[3] <= Cardinality(Ingest!ObservedFor(x[2])')
      BY <2>3, <3>1, <3>3, CountsGrow DEF CountInv
    <3>6. QED
      BY <2>1, <3>1, <3>2, <3>4, <3>5 DEF CountInv
  <2>12. CASE UNCHANGED <<pc, runtime, object, observed, summaries, scene, state>>
    BY <2>12 DEF CountInv, Behind, Ingest!ObservedFor
  <2>13. QED
    BY <2>5, <2>6, <2>7, <2>8, <2>9, <2>10, <2>11, <2>12 DEF Ingest!Next, Ingest!Handle,
       Ingest!OutcomeRead, Ingest!OutcomeReplace, Ingest!vars
<1>3. QED
  BY <1>1, <1>2, IngestTypesHold, ChainHolds, PTL DEF Ingest!Spec

-----------------------------------------------------------------------------
(* Requests that come one at a time.                                       *)

\* Has not been counted.
Before == {"start", "open", "promote", "saving", "observe", "chain", "event", "get", "update"}
Closing == {"clear", "cleared", "pop"}

Unclosed(s) == \A x \in summaries : x[2] # s
Tally(s) == IF runtime[s] = Null THEN 0 ELSE object[runtime[s]].total
Pending(s) == IF \E r \in Request : pc[r] = "snapshot" /\ scene[r] = s THEN 1 ELSE 0

Alone == \A q, r \in Request : pc[q] \in Ingest!Running /\ pc[r] \in Ingest!Running => q = r
Saved == \A r \in Request : pc[r] \in {"saving", "cleared"} => tmp
(* A scene is of its context, and so is who has it.                        *)
Contexts ==
    /\ \A k \in Context :
         index[k] # Null => ContextOf[index[k].scene] = k /\ pc[index[k].scene] \in Placed
    /\ \A r \in Request :
         pc[r] \in Placed => ContextOf[scene[r]] = ContextOf[r] /\ pc[scene[r]] \in Placed
(* A state object is in use once its maker has counted.                    *)
States ==
    /\ \A s \in Request : runtime[s] # Null => pc[runtime[s]] \notin Before
    /\ \A st \in Request : object[st].total > 0 => pc[st] \notin Before
    /\ \A r \in Request :
         pc[r] = "update" =>
             state[r] = IF runtime[scene[r]] = Null THEN r ELSE runtime[scene[r]]
    /\ \A r \in Request : pc[r] \in {"snapshot", "decide"} => runtime[scene[r]] = state[r]
(* The count of a scene that is not closed is of what is recorded of it.   *)
Tallied ==
    \A s \in Request :
        Unclosed(s) => Tally(s) = Cardinality(Ingest!SnapshotsOf(s)) + Pending(s)
Recorded ==
    \A x \in snapshots : scene[x[1]] = x[2] /\ pc[x[1]] \notin Before \cup {"snapshot"}
Open == \A r \in Request :
          pc[r] \in Ingest!Running => (Unclosed(scene[r]) <=> pc[r] \notin Closing)
Closed ==
    \A x \in summaries :
        /\ scene[x[1]] = x[2] /\ pc[x[1]] \in Closing \cup {"done"}
        /\ x[3] = Cardinality(Ingest!SnapshotsOf(x[2]))
        /\ \A y \in summaries : y[2] = x[2] => y = x
        /\ \A k \in Context : index[k] # Null /\ index[k].scene = x[2] => pc[x[1]] = "clear"
        /\ runtime[x[2]] # Null => pc[x[1]] \in Closing

Serial == ~overlapped /\ crashes = 0
SceneInv ==
    Alone /\ Saved /\ Contexts /\ States /\ Tallied /\ Recorded /\ Open /\ Closed
SerialInv == Serial => SceneInv

LEMMA IngestElements ==
    ASSUME IngestTyped, ChainInv
    PROVE  /\ \A x \in summaries : x[1] \in Request /\ x[2] \in Request /\ x[3] \in Nat
           /\ \A x \in snapshots : x[1] \in Request /\ x[2] \in Request
           /\ \A k \in Context : index[k] # Null => index[k].scene \in Request
           /\ \A s \in Request : runtime[s] # Null => runtime[s] \in Request
           /\ \A r \in Request : /\ state[r] \in Request
                                 /\ pc[r] \in Placed => scene[r] \in Request
                                 /\ object[r].total \in Nat
                                 /\ ContextOf[r] \in Context
           /\ \A s : IsFiniteSet(Ingest!SnapshotsOf(s))
                     /\ Cardinality(Ingest!SnapshotsOf(s)) \in Nat
<1>1. ASSUME NEW s
      PROVE  IsFiniteSet(Ingest!SnapshotsOf(s)) /\ Cardinality(Ingest!SnapshotsOf(s)) \in Nat
  <2>1. Ingest!SnapshotsOf(s) \in SUBSET observed /\ IsFiniteSet(observed)
    BY DEF Ingest!SnapshotsOf, ChainInv, IngestTyped, RecordTypes
  <2>2. QED
    BY <2>1, FS_Subset, FS_CardinalityType
<1>2. \A x \in summaries : x[1] \in Request /\ x[2] \in Request /\ x[3] \in Nat
  BY DEF IngestTyped, RecordTypes
<1>3. \A x \in snapshots : x[1] \in Request /\ x[2] \in Request
  BY DEF IngestTyped, RecordTypes
<1>4. QED
  BY <1>1, <1>2, <1>3, Requests DEF IngestTyped, SceneTypes, HandlerTypes, Ingest!Entry,
     Ingest!Counted

(* What a step along the handler leaves to be shown.                       *)
LEMMA OneMoves ==
    ASSUME IngestTyped, SceneInv, NEW r \in Request, NEW l \in Ingest!PC \ {"start"},
           pc' = [pc EXCEPT ![r] = l], pc[r] \in Ingest!Running
    PROVE  /\ pc'[r] = l /\ \A q \in Request : q # r => pc'[q] = pc[q]
           /\ \A q \in Request : q # r => pc[q] \in {"start", "done", "failed"}
           /\ \A q \in Request : pc[q] \in Placed => pc'[q] \in Placed
           /\ Alone'
<1>1. pc'[r] = l /\ \A q \in Request : q # r => pc'[q] = pc[q]
  BY DEF IngestTyped, HandlerTypes
<1>2. \A q \in Request : pc[q] \in Ingest!Running => q = r
  BY DEF SceneInv, Alone
<1>3. \A q \in Request : pc[q] \in Ingest!PC
  BY DEF IngestTyped, HandlerTypes
<1>4. \A q \in Request : q # r => pc[q] \in {"start", "done", "failed"}
  BY <1>2, <1>3 DEF Ingest!Running
<1>5. Alone'
  BY <1>1, <1>2 DEF Alone
<1>6. QED
  BY <1>1, <1>4, <1>5 DEF Placed

(* A step that neither counts, records, closes nor writes the index.       *)
LEMMA SerialMove ==
    ASSUME IngestTyped, ChainInv, SceneInv, NEW r \in Request, NEW l \in Ingest!PC,
           pc' = [pc EXCEPT ![r] = l],
           <<pc[r], l>> \in {<<"saving", "observe">>, <<"cleared", "pop">>, <<"observe", "chain">>,
               <<"observe", "failed">>, <<"chain", "event">>, <<"event", "get">>,
               <<"decide", "done">>},
           UNCHANGED <<index, runtime, object, snapshots, summaries, scene, state>>
    PROVE  SceneInv'
<1>1. /\ pc[r] \in Ingest!Running /\ l # "start"
      /\ l \in {"observe", "pop", "chain", "failed", "event", "get", "done"}
      /\ pc[r] \in {"saving", "cleared", "observe", "chain", "event", "decide"}
      /\ l \in Before => pc[r] \in Before
      /\ l \in Ingest!Running => (l \in Closing <=> pc[r] \in Closing)
      /\ pc[r] \in Closing => l \in Closing
  BY Labels DEF Before, Closing, Ingest!Running
<1>2. /\ pc'[r] = l /\ \A q \in Request : q # r => pc'[q] = pc[q]
      /\ \A q \in Request : q # r => pc[q] \in {"start", "done", "failed"}
      /\ \A q \in Request : pc[q] \in Placed => pc'[q] \in Placed
      /\ Alone'
  BY <1>1, OneMoves
<1>3. /\ \A x \in summaries : x[1] \in Request /\ x[2] \in Request /\ x[3] \in Nat
      /\ \A x \in snapshots : x[1] \in Request /\ x[2] \in Request
      /\ \A k \in Context : index[k] # Null => index[k].scene \in Request
      /\ \A s \in Request : runtime[s] # Null => runtime[s] \in Request
      /\ \A q \in Request : pc[q] \in Placed => scene[q] \in Request
  BY IngestElements
<1>4. Saved'
  BY <1>1, <1>2 DEF Saved
<1>5. Contexts'
  BY <1>1, <1>2, <1>3, Labels DEF SceneInv, Contexts
<1>6. States'
  BY <1>1, <1>2, <1>3 DEF SceneInv, States
<1>7. Tallied'
  <2>1. \A q \in Request : pc'[q] = "snapshot" <=> pc[q] = "snapshot"
    BY <1>1, <1>2
  <2>2. \A s : Pending(s)' = Pending(s) /\ Tally(s)' = Tally(s)
               /\ Ingest!SnapshotsOf(s)' = Ingest!SnapshotsOf(s) /\ (Unclosed(s)' <=> Unclosed(s))
    BY <2>1 DEF Pending, Tally, Ingest!SnapshotsOf, Unclosed
  <2>3. QED
    BY <2>2 DEF SceneInv, Tallied
<1>8. Recorded'
  BY <1>1, <1>2, <1>3 DEF SceneInv, Recorded
<1>9. Open'
  BY <1>1, <1>2, Labels DEF SceneInv, Open, Unclosed
<1>10. Closed'
  <2>1. \A s : Ingest!SnapshotsOf(s)' = Ingest!SnapshotsOf(s)
    BY DEF Ingest!SnapshotsOf
  <2>2. QED
    BY <1>1, <1>2, <1>3, <2>1 DEF SceneInv, Closed, Closing
<1>11. QED
  BY <1>2, <1>4, <1>5, <1>6, <1>7, <1>8, <1>9, <1>10 DEF SceneInv

LEMMA SerialFindScene ==
    ASSUME IngestTyped, ChainInv, CountInv, SceneInv, NEW r \in Request, Ingest!FindScene(r),
           ~overlapped'
    PROVE  SceneInv'
<1> USE DEF Ingest!At, Ingest!Goto, Ingest!memory, Ingest!files
<1> DEFINE found == index[Ingest!KeyOf(r)]
<1>1. PICK l \in {"open", "promote", "observe"}, s \in Request :
          /\ pc' = [pc EXCEPT ![r] = l] /\ scene' = [scene EXCEPT ![r] = s]
          /\ found = Null => s = r
          /\ found # Null => s = found.scene
  <2> DEFINE lab == IF found = Null THEN "open"
                    ELSE IF found.status = "OPEN" THEN "promote" ELSE "observe"
             of == IF found = Null THEN r ELSE found.scene
  <2>1. pc' = [pc EXCEPT ![r] = lab] /\ scene' = [scene EXCEPT ![r] = of]
    BY DEF Ingest!FindScene
  <2>2. found \in Ingest!Entry \cup {Null}
    BY Requests DEF Ingest!KeyOf, IngestTyped, SceneTypes
  <2>3. of \in Request /\ lab \in {"open", "promote", "observe"}
    BY <2>2 DEF Ingest!Entry
  <2>4. QED
    BY <2>1, <2>3
<1>2. /\ pc[r] = "start" /\ pc[r] \notin Placed
      /\ \A q \in Request : q # r => pc[q] \notin Ingest!Running
      /\ UNCHANGED <<index, runtime, object, snapshots, summaries, state, tmp>>
  BY Labels DEF Ingest!FindScene, IngestTyped, HistoryTypes
<1>3. /\ \A q \in Request : q # r => pc'[q] = pc[q] /\ scene'[q] = scene[q]
      /\ pc'[r] = l /\ scene'[r] = s /\ l \in Placed /\ l \in Before /\ l \in Ingest!Running
  BY <1>1, Labels DEF IngestTyped, HandlerTypes, Before
<1>4. /\ \A x \in summaries : x[1] \in Request /\ x[2] \in Request /\ x[3] \in Nat
      /\ \A x \in snapshots : x[1] \in Request /\ x[2] \in Request
      /\ \A k \in Context : index[k] # Null => index[k].scene \in Request
      /\ \A t \in Request : runtime[t] # Null => runtime[t] \in Request
      /\ \A q \in Request : /\ pc[q] \in Placed => scene[q] \in Request
                            /\ ContextOf[q] \in Context
  BY IngestElements
<1>5. /\ \A q \in Request : pc[q] \notin Placed => pc[q] = "start"
      /\ \A q \in Request : pc[q] = "start" => pc[q] \in Before
  BY Labels DEF IngestTyped, HandlerTypes, Placed, Before
\* Nothing is known of the scene of a request that has none.
<1>6. /\ \A x \in summaries : x[1] # r /\ x[2] # r
      /\ \A x \in snapshots : x[1] # r
  <2>1. \A x \in summaries : pc[x[1]] \in Placed /\ scene[x[1]] = x[2]
    BY <1>4, <1>5 DEF SceneInv, Closed, Closing
  <2>2. \A x \in summaries : pc[x[2]] \in Placed
    BY <1>4, <2>1 DEF SceneInv, Contexts
  <2>3. QED
    BY <1>2, <1>4, <2>1, <2>2, <1>5 DEF SceneInv, Recorded
<1>7. ContextOf[s] = ContextOf[r] /\ pc'[s] \in Placed
  <2>1. CASE found = Null
    BY <1>1, <1>3, <2>1
  <2>2. CASE found # Null
    BY <1>1, <1>3, <1>4, <2>2 DEF SceneInv, Contexts, Ingest!KeyOf
  <2>3. QED
    BY <2>1, <2>2
<1>8. \A x \in summaries : x[2] # s
  <2>1. CASE found = Null
    BY <1>1, <1>6, <2>1
  <2>2. CASE found # Null
    <3>1. \A x \in summaries : x[2] = s => pc[x[1]] = "clear"
      BY <1>1, <1>4, <2>2 DEF SceneInv, Closed, Ingest!KeyOf
    <3>2. QED
      BY <1>2, <1>4, <1>6, <3>1, Labels
  <2>3. QED
    BY <2>1, <2>2
<1>9. Alone' /\ Saved'
  BY <1>1, <1>2, <1>3 DEF SceneInv, Alone, Saved
<1>10. Contexts'
  <2>1. \A q \in Request : pc[q] \in Placed => pc'[q] \in Placed /\ scene'[q] = scene[q]
    BY <1>2, <1>3
  <2>2. QED
    BY <1>2, <1>3, <1>4, <1>7, <2>1 DEF SceneInv, Contexts
<1>11. States'
  BY <1>2, <1>3, <1>4, <1>5 DEF SceneInv, States
<1>12. Tallied'
  <2>1. \A q \in Request : pc'[q] = "snapshot" => q # r
    BY <1>1, <1>3
  <2>2. \A t : Pending(t)' = Pending(t)
    BY <1>2, <1>3, <2>1 DEF Pending
  <2>3. \A t : Tally(t)' = Tally(t) /\ Ingest!SnapshotsOf(t)' = Ingest!SnapshotsOf(t)
               /\ (Unclosed(t)' <=> Unclosed(t))
    BY <1>2 DEF Tally, Ingest!SnapshotsOf, Unclosed
  <2>4. QED
    BY <2>2, <2>3 DEF SceneInv, Tallied
<1>13. Recorded'
  BY <1>2, <1>3, <1>4, <1>6 DEF SceneInv, Recorded
<1>14. Open'
  BY <1>2, <1>3, <1>8 DEF SceneInv, Open, Unclosed, Before, Closing
<1>15. Closed'
  <2>1. \A t : Ingest!SnapshotsOf(t)' = Ingest!SnapshotsOf(t)
    BY <1>2 DEF Ingest!SnapshotsOf
  <2>2. QED
    BY <1>2, <1>3, <1>4, <1>6, <2>1 DEF SceneInv, Closed
<1>16. QED
  BY <1>9, <1>10, <1>11, <1>12, <1>13, <1>14, <1>15 DEF SceneInv

LEMMA SerialUpsert ==
    ASSUME IngestTyped, ChainInv, SceneInv, NEW r \in Request,
           Ingest!OpenScene(r) \/ Ingest!PromoteScene(r)
    PROVE  SceneInv'
<1> USE DEF Ingest!At, Ingest!Goto, Ingest!files
<1>1. /\ pc' = [pc EXCEPT ![r] = "saving"] /\ pc[r] \in {"open", "promote"} /\ tmp' = TRUE
      /\ \E s : index' = [index EXCEPT ![ContextOf[r]] = [scene |-> scene[r], status |-> s]]
      /\ UNCHANGED <<runtime, object, snapshots, summaries, scene, state>>
  BY DEF Ingest!OpenScene, Ingest!PromoteScene, Ingest!Upsert, Ingest!KeyOf
<1>2. /\ pc'[r] = "saving" /\ \A q \in Request : q # r => pc'[q] = pc[q]
      /\ \A q \in Request : q # r => pc[q] \in {"start", "done", "failed"}
      /\ \A q \in Request : pc[q] \in Placed => pc'[q] \in Placed
      /\ Alone'
  BY <1>1, OneMoves, Labels
<1>3. /\ \A x \in summaries : x[1] \in Request /\ x[2] \in Request /\ x[3] \in Nat
      /\ \A x \in snapshots : x[1] \in Request /\ x[2] \in Request
      /\ \A k \in Context : index[k] # Null => index[k].scene \in Request
      /\ \A s \in Request : runtime[s] # Null => runtime[s] \in Request
      /\ \A q \in Request : /\ pc[q] \in Placed => scene[q] \in Request
                            /\ ContextOf[q] \in Context
  BY IngestElements
<1>4. /\ \A k \in Context : k # ContextOf[r] => index'[k] = index[k]
      /\ index'[ContextOf[r]].scene = scene[r]
  BY <1>1, <1>3 DEF IngestTyped, SceneTypes
<1>5. /\ pc[r] \in Placed /\ pc[r] \in Ingest!Running \ Closing
      /\ {pc[r], "saving"} \subseteq Before
  BY <1>1, Labels DEF Before, Closing
<1>6. Saved'
  BY <1>1 DEF Saved
<1>7. Contexts'
  BY <1>1, <1>2, <1>3, <1>4, <1>5 DEF SceneInv, Contexts
<1>8. States'
  BY <1>1, <1>2, <1>3, <1>5 DEF SceneInv, States
<1>9. Tallied'
  <2>1. \A q \in Request : pc'[q] = "snapshot" <=> pc[q] = "snapshot"
    BY <1>1, <1>2
  <2>2. \A s : Pending(s)' = Pending(s) /\ Tally(s)' = Tally(s)
               /\ Ingest!SnapshotsOf(s)' = Ingest!SnapshotsOf(s) /\ (Unclosed(s)' <=> Unclosed(s))
    BY <1>1, <2>1 DEF Pending, Tally, Ingest!SnapshotsOf, Unclosed
  <2>3. QED
    BY <2>2 DEF SceneInv, Tallied
<1>10. Recorded'
  BY <1>1, <1>2, <1>3, <1>5 DEF SceneInv, Recorded
<1>11. Open'
  BY <1>1, <1>2, <1>5, Labels DEF SceneInv, Open, Unclosed, Closing
<1>12. Closed'
  <2>1. \A s : Ingest!SnapshotsOf(s)' = Ingest!SnapshotsOf(s)
    BY <1>1 DEF Ingest!SnapshotsOf
  <2>2. \A x \in summaries : x[2] # scene[r] /\ x[1] # r
    BY <1>1, <1>3, <1>5 DEF SceneInv, Open, Unclosed, Closed, Closing
  <2>3. QED
    BY <1>1, <1>2, <1>3, <1>4, <2>1, <2>2 DEF SceneInv, Closed
<1>13. QED
  BY <1>2, <1>6, <1>7, <1>8, <1>9, <1>10, <1>11, <1>12 DEF SceneInv

LEMMA SerialGetState ==
    ASSUME IngestTyped, ChainInv, SceneInv, NEW r \in Request, Ingest!GetState(r)
    PROVE  SceneInv'
<1> USE DEF Ingest!At, Ingest!Goto, Ingest!files, Ingest!memory
<1>1. /\ pc' = [pc EXCEPT ![r] = "update"] /\ pc[r] = "get"
      /\ state' = [state EXCEPT ![r] = IF runtime[scene[r]] = Null THEN r ELSE runtime[scene[r]]]
      /\ UNCHANGED <<index, runtime, object, snapshots, summaries, scene, tmp>>
  BY DEF Ingest!GetState
<1>2. /\ pc'[r] = "update" /\ \A q \in Request : q # r => pc'[q] = pc[q]
      /\ \A q \in Request : q # r => pc[q] \in {"start", "done", "failed"}
      /\ \A q \in Request : pc[q] \in Placed => pc'[q] \in Placed
      /\ Alone'
  BY <1>1, OneMoves, Labels
<1>3. /\ \A x \in summaries : x[1] \in Request /\ x[2] \in Request /\ x[3] \in Nat
      /\ \A x \in snapshots : x[1] \in Request /\ x[2] \in Request
      /\ \A k \in Context : index[k] # Null => index[k].scene \in Request
      /\ \A s \in Request : runtime[s] # Null => runtime[s] \in Request
      /\ \A q \in Request : pc[q] \in Placed => scene[q] \in Request
  BY IngestElements
<1>4. \A q \in Request : /\ q # r => state'[q] = state[q]
                         /\ state'[r] = IF runtime[scene[r]] = Null THEN r ELSE runtime[scene[r]]
  BY <1>1 DEF IngestTyped, HandlerTypes
<1>5. /\ pc[r] \in Placed /\ pc[r] \in Ingest!Running \ Closing
      /\ {pc[r], "update"} \subseteq Before
  BY <1>1, Labels DEF Before, Closing
<1>6. Saved'
  BY <1>1, <1>2 DEF SceneInv, Saved
<1>7. Contexts'
  BY <1>1, <1>2, <1>3, <1>5 DEF SceneInv, Contexts
<1>8. States'
  BY <1>1, <1>2, <1>3, <1>4, <1>5 DEF SceneInv, States
<1>9. Tallied'
  <2>1. \A q \in Request : pc'[q] = "snapshot" <=> pc[q] = "snapshot"
    BY <1>1, <1>2
  <2>2. \A s : Pending(s)' = Pending(s) /\ Tally(s)' = Tally(s)
               /\ Ingest!SnapshotsOf(s)' = Ingest!SnapshotsOf(s) /\ (Unclosed(s)' <=> Unclosed(s))
    BY <1>1, <2>1 DEF Pending, Tally, Ingest!SnapshotsOf, Unclosed
  <2>3. QED
    BY <2>2 DEF SceneInv, Tallied
<1>10. Recorded'
  BY <1>1, <1>2, <1>3, <1>5 DEF SceneInv, Recorded
<1>11. Open'
  BY <1>1, <1>2, <1>5, Labels DEF SceneInv, Open, Unclosed, Closing
<1>12. Closed'
  <2>1. \A s : Ingest!SnapshotsOf(s)' = Ingest!SnapshotsOf(s)
    BY <1>1 DEF Ingest!SnapshotsOf
  <2>2. \A x \in summaries : x[1] # r
    BY <1>1, <1>3 DEF SceneInv, Closed, Closing
  <2>3. QED
    BY <1>1, <1>2, <1>3, <2>1, <2>2 DEF SceneInv, Closed
<1>13. QED
  BY <1>2, <1>6, <1>7, <1>8, <1>9, <1>10, <1>11, <1>12 DEF SceneInv

LEMMA SerialUpdateState ==
    ASSUME IngestTyped, ChainInv, CountInv, SceneInv, NEW r \in Request, Ingest!UpdateState(r)
    PROVE  SceneInv'
<1> USE DEF Ingest!At, Ingest!Goto, Ingest!files
<1>1. /\ pc' = [pc EXCEPT ![r] = "snapshot"] /\ pc[r] = "update"
      /\ runtime' = [runtime EXCEPT ![scene[r]] = state[r]]
      /\ UNCHANGED <<index, snapshots, summaries, scene, state, tmp>>
  BY DEF Ingest!UpdateState
<1>2. /\ pc'[r] = "snapshot" /\ \A q \in Request : q # r => pc'[q] = pc[q]
      /\ \A q \in Request : q # r => pc[q] \in {"start", "done", "failed"}
      /\ \A q \in Request : pc[q] \in Placed => pc'[q] \in Placed
      /\ Alone'
  BY <1>1, OneMoves, Labels
<1>3. /\ \A x \in summaries : x[1] \in Request /\ x[2] \in Request /\ x[3] \in Nat
      /\ \A x \in snapshots : x[1] \in Request /\ x[2] \in Request
      /\ \A k \in Context : index[k] # Null => index[k].scene \in Request
      /\ \A s \in Request : runtime[s] # Null => runtime[s] \in Request
      /\ \A q \in Request : /\ pc[q] \in Placed => scene[q] \in Request
                            /\ state[q] \in Request /\ object[q].total \in Nat
      /\ \A s : Cardinality(Ingest!SnapshotsOf(s)) \in Nat
  BY IngestElements
<1>4. /\ pc[r] \in Placed /\ pc[r] \in Ingest!Running \ Closing /\ pc[r] \in Before
      /\ "snapshot" \notin Before \cup Closing \cup {"done", "failed"}
      /\ scene[r] \in Request /\ state[r] \in Request
  BY <1>1, <1>3, Labels DEF Before, Closing
<1>5. /\ runtime'[scene[r]] = state[r]
      /\ \A s \in Request : s # scene[r] => runtime'[s] = runtime[s]
  BY <1>1, <1>4 DEF IngestTyped, SceneTypes
<1>6. /\ \A q \in Request : q # state[r] => object'[q] = object[q]
      /\ object'[state[r]].total = object[state[r]].total + 1
  <2>1. PICK low \in BOOLEAN :
            object' = [object EXCEPT ![state[r]] = Ingest!Updated(object[state[r]], low)]
    BY DEF Ingest!UpdateState
  <2>2. Ingest!Updated(object[state[r]], low).total = object[state[r]].total + 1
    BY DEF Ingest!Updated
  <2>3. QED
    BY <1>4, <2>1, <2>2 DEF IngestTyped, SceneTypes
<1>7. /\ state[r] = IF runtime[scene[r]] = Null THEN r ELSE runtime[scene[r]]
      /\ scene[state[r]] = scene[r]
      /\ \A s \in Request : runtime[s] # Null => scene[runtime[s]] = s
  BY <1>1 DEF SceneInv, States, CountInv
<1>8. Saved'
  BY <1>1, <1>2 DEF SceneInv, Saved
<1>9. Contexts'
  BY <1>1, <1>2, <1>3, <1>4 DEF SceneInv, Contexts
<1>10. States'
  <2>1. pc'[state[r]] \notin Before
    BY <1>2, <1>3, <1>4, <1>7 DEF SceneInv, States
  <2>2. \A s \in Request : runtime'[s] # Null => pc'[runtime'[s]] \notin Before
    BY <1>2, <1>3, <1>4, <1>5, <2>1 DEF SceneInv, States
  <2>3. \A q \in Request : object'[q].total > 0 => pc'[q] \notin Before
    BY <1>2, <1>3, <1>4, <1>6, <2>1 DEF SceneInv, States
  <2>4. \A q \in Request :
            pc'[q] \in {"snapshot", "decide"} => runtime'[scene'[q]] = state'[q]
    BY <1>1, <1>2, <1>5
  <2>5. \A q \in Request : pc'[q] # "update"
    BY <1>2
  <2>6. QED
    BY <2>2, <2>3, <2>4, <2>5 DEF States
<1>11. Tallied'
  <2>1. ASSUME NEW s \in Request, Unclosed(s)'
        PROVE  Tally(s)' = Cardinality(Ingest!SnapshotsOf(s)') + Pending(s)'
    <3>1. Tally(s) = Cardinality(Ingest!SnapshotsOf(s)) + Pending(s)
      BY <1>1, <2>1 DEF SceneInv, Tallied, Unclosed
    <3>2. Ingest!SnapshotsOf(s)' = Ingest!SnapshotsOf(s)
      BY <1>1 DEF Ingest!SnapshotsOf
    <3>3. Pending(s) = 0
      BY <1>1, <1>2 DEF Pending
    <3>4. CASE s = scene[r]
      <4>1. Pending(s)' = 1
        BY <1>1, <1>2, <3>4 DEF Pending
      <4>2. Tally(s) = object[state[r]].total
        <5>1. CASE runtime[s] = Null
          <6>1. state[r] = r /\ ~(object[r].total > 0)
            BY <1>4, <1>7, <3>4, <5>1 DEF SceneInv, States
          <6>2. QED
            BY <1>3, <5>1, <6>1 DEF Tally
        <5>2. CASE runtime[s] # Null
          BY <1>7, <3>4, <5>2 DEF Tally
        <5>3. QED
          BY <5>1, <5>2
      <4>3. Tally(s)' = object'[state[r]].total
        BY <1>4, <1>5, <3>4, Requests DEF Tally
      <4>4. QED
        BY <1>3, <1>4, <1>6, <3>1, <3>2, <3>3, <4>1, <4>2, <4>3
    <3>5. CASE s # scene[r]
      <4>1. Pending(s)' = 0
        BY <1>1, <1>2, <3>5 DEF Pending
      <4>2. Tally(s)' = Tally(s)
        BY <1>3, <1>5, <1>6, <1>7, <3>5 DEF Tally
      <4>3. QED
        BY <3>1, <3>2, <3>3, <4>1, <4>2
    <3>6. QED
      BY <3>4, <3>5
  <2>2. QED
    BY <2>1 DEF Tallied
<1>12. Recorded'
  <2>1. \A x \in snapshots : x[1] # r
    BY <1>4 DEF SceneInv, Recorded
  <2>2. QED
    BY <1>1, <1>2, <1>3, <2>1 DEF SceneInv, Recorded
<1>13. Open'
  BY <1>1, <1>2, <1>4, Labels DEF SceneInv, Open, Unclosed
<1>14. Closed'
  <2>1. \A s : Ingest!SnapshotsOf(s)' = Ingest!SnapshotsOf(s)
    BY <1>1 DEF Ingest!SnapshotsOf
  <2>2. \A x \in summaries : x[1] # r /\ x[2] # scene[r]
    BY <1>1, <1>3, <1>4 DEF SceneInv, Open, Unclosed, Closed, Closing
  <2>3. QED
    BY <1>1, <1>2, <1>3, <1>5, <2>1, <2>2 DEF SceneInv, Closed
<1>15. QED
  BY <1>2, <1>8, <1>9, <1>10, <1>11, <1>12, <1>13, <1>14 DEF SceneInv

LEMMA SerialSnapshot ==
    ASSUME IngestTyped, ChainInv, SceneInv, NEW r \in Request, Ingest!Snapshot(r)
    PROVE  SceneInv'
<1> USE DEF Ingest!At, Ingest!Goto, Ingest!memory
<1>1. /\ pc' = [pc EXCEPT ![r] = "decide"] /\ pc[r] = "snapshot"
      /\ snapshots' = snapshots \cup {<<r, scene[r]>>}
      /\ UNCHANGED <<index, runtime, object, summaries, scene, state, tmp>>
  BY DEF Ingest!Snapshot
<1>2. /\ pc'[r] = "decide" /\ \A q \in Request : q # r => pc'[q] = pc[q]
      /\ \A q \in Request : q # r => pc[q] \in {"start", "done", "failed"}
      /\ \A q \in Request : pc[q] \in Placed => pc'[q] \in Placed
      /\ Alone'
  BY <1>1, OneMoves, Labels
<1>3. /\ \A x \in summaries : x[1] \in Request /\ x[2] \in Request /\ x[3] \in Nat
      /\ \A x \in snapshots : x[1] \in Request /\ x[2] \in Request
      /\ \A k \in Context : index[k] # Null => index[k].scene \in Request
      /\ \A s \in Request : runtime[s] # Null => runtime[s] \in Request
      /\ \A q \in Request : pc[q] \in Placed => scene[q] \in Request
      /\ \A s : IsFiniteSet(Ingest!SnapshotsOf(s)) /\ Cardinality(Ingest!SnapshotsOf(s)) \in Nat
  BY IngestElements
<1>4. /\ pc[r] \in Placed /\ pc[r] \in Ingest!Running \ Closing
      /\ "decide" \notin Before \cup Closing \cup {"snapshot", "done", "failed"}
      /\ scene[r] \in Request
  BY <1>1, <1>3, Labels DEF Before, Closing
<1>5. /\ r \notin Ingest!SnapshotsOf(scene[r])
      /\ Ingest!SnapshotsOf(scene[r])' = Ingest!SnapshotsOf(scene[r]) \cup {r}
      /\ \A s : s # scene[r] => Ingest!SnapshotsOf(s)' = Ingest!SnapshotsOf(s)
  <2>1. \A s : <<r, s>> \notin snapshots
    BY <1>1 DEF SceneInv, Recorded
  <2>2. QED
    BY <1>1, <2>1 DEF Ingest!SnapshotsOf
<1>6. Saved'
  BY <1>1, <1>2 DEF SceneInv, Saved
<1>7. Contexts'
  BY <1>1, <1>2, <1>3, <1>4 DEF SceneInv, Contexts
<1>8. States'
  BY <1>1, <1>2, <1>3, <1>4 DEF SceneInv, States
<1>9. Tallied'
  <2>1. ASSUME NEW s \in Request, Unclosed(s)'
        PROVE  Tally(s)' = Cardinality(Ingest!SnapshotsOf(s)') + Pending(s)'
    <3>1. Tally(s) = Cardinality(Ingest!SnapshotsOf(s)) + Pending(s) /\ Tally(s)' = Tally(s)
      BY <1>1, <2>1 DEF SceneInv, Tallied, Unclosed, Tally
    <3>2. Pending(s)' = 0
      BY <1>1, <1>2 DEF Pending
    <3>3. CASE s = scene[r]
      <4>1. Pending(s) = 1
        BY <1>1, <3>3 DEF Pending
      <4>2. PICK t \in Request : t = scene[r]
        BY <1>4
      <4>3. /\ Ingest!SnapshotsOf(t)' = Ingest!SnapshotsOf(t) \cup {r}
            /\ r \notin Ingest!SnapshotsOf(t)
        BY <1>1, <1>5, <4>2
      <4>4. Cardinality(Ingest!SnapshotsOf(t)') = Cardinality(Ingest!SnapshotsOf(t)) + 1
        BY <1>3, <4>3, FS_AddElement
      <4>5. QED
        BY <1>3, <3>1, <3>2, <3>3, <4>1, <4>2, <4>4
    <3>4. CASE s # scene[r]
      <4>1. Pending(s) = 0
        BY <1>1, <1>2, <3>4 DEF Pending
      <4>2. QED
        BY <1>5, <3>1, <3>2, <3>4, <4>1
    <3>5. QED
      BY <3>3, <3>4
  <2>2. QED
    BY <2>1 DEF Tallied
<1>10. Recorded'
  BY <1>1, <1>2, <1>3, <1>4 DEF SceneInv, Recorded
<1>11. Open'
  BY <1>1, <1>2, <1>4, Labels DEF SceneInv, Open, Unclosed
<1>12. Closed'
  <2>1. \A x \in summaries : x[1] # r /\ x[2] # scene[r]
    BY <1>1, <1>3, <1>4 DEF SceneInv, Open, Unclosed, Closed, Closing
  <2>2. \A x \in summaries : Ingest!SnapshotsOf(x[2])' = Ingest!SnapshotsOf(x[2])
    BY <1>5, <2>1
  <2>3. QED
    BY <1>1, <1>2, <1>3, <2>1, <2>2 DEF SceneInv, Closed
<1>13. QED
  BY <1>2, <1>6, <1>7, <1>8, <1>9, <1>10, <1>11, <1>12 DEF SceneInv

LEMMA SerialSummarise ==
    ASSUME IngestTyped, ChainInv, SceneInv, NEW r \in Request, Ingest!Summarise(r)
    PROVE  SceneInv'
<1> USE DEF Ingest!At, Ingest!Goto, Ingest!memory
<1>1. /\ pc' = [pc EXCEPT ![r] = "clear"] /\ pc[r] = "decide"
      /\ summaries' = summaries \cup {<<r, scene[r], object[state[r]].total>>}
      /\ UNCHANGED <<index, runtime, object, snapshots, scene, state, tmp>>
  BY DEF Ingest!Summarise, Ingest!SummaryOf
<1>2. /\ pc'[r] = "clear" /\ \A q \in Request : q # r => pc'[q] = pc[q]
      /\ \A q \in Request : q # r => pc[q] \in {"start", "done", "failed"}
      /\ \A q \in Request : pc[q] \in Placed => pc'[q] \in Placed
      /\ Alone'
  BY <1>1, OneMoves, Labels
<1>3. /\ \A x \in summaries : x[1] \in Request /\ x[2] \in Request /\ x[3] \in Nat
      /\ \A x \in snapshots : x[1] \in Request /\ x[2] \in Request
      /\ \A k \in Context : index[k] # Null => index[k].scene \in Request
      /\ \A s \in Request : runtime[s] # Null => runtime[s] \in Request
      /\ \A q \in Request : /\ pc[q] \in Placed => scene[q] \in Request
                            /\ state[q] \in Request /\ object[q].total \in Nat
      /\ \A s : Cardinality(Ingest!SnapshotsOf(s)) \in Nat
  BY IngestElements
<1>4. /\ pc[r] \in Placed /\ pc[r] \in Ingest!Running \ Closing
      /\ "clear" \in Closing /\ "clear" \notin Before \cup {"snapshot"}
      /\ scene[r] \in Request /\ state[r] \in Request
      /\ Closing \cap {"start", "done", "failed"} = {}
  BY <1>1, <1>3, Labels DEF Before, Closing
<1>5. \A s : Ingest!SnapshotsOf(s)' = Ingest!SnapshotsOf(s)
  BY <1>1 DEF Ingest!SnapshotsOf
<1>6. /\ \A x \in summaries : x[1] # r /\ x[2] # scene[r]
      /\ Unclosed(scene[r])
  BY <1>1, <1>3, <1>4 DEF SceneInv, Open, Unclosed, Closed, Closing
<1>7. object[state[r]].total = Cardinality(Ingest!SnapshotsOf(scene[r]))
  <2>1. Tally(scene[r]) = Cardinality(Ingest!SnapshotsOf(scene[r])) + Pending(scene[r])
    BY <1>4, <1>6 DEF SceneInv, Tallied
  <2>2. Pending(scene[r]) = 0
    BY <1>1, <1>2 DEF Pending
  <2>3. runtime[scene[r]] = state[r]
    BY <1>1 DEF SceneInv, States
  <2>4. Tally(scene[r]) = object[state[r]].total
    BY <1>4, <2>3, Requests DEF Tally
  <2>5. QED
    BY <1>3, <2>1, <2>2, <2>4
<1>8. Saved'
  BY <1>1, <1>2 DEF SceneInv, Saved
<1>9. Contexts'
  BY <1>1, <1>2, <1>3, <1>4 DEF SceneInv, Contexts
<1>10. States'
  BY <1>1, <1>2, <1>3, <1>4 DEF SceneInv, States
<1>11. Tallied'
  <2>1. \A s : Tally(s)' = Tally(s) /\ Pending(s)' = Pending(s)
               /\ (Unclosed(s)' => Unclosed(s))
    BY <1>1, <1>2 DEF Tally, Pending, Unclosed
  <2>2. QED
    BY <1>5, <2>1 DEF SceneInv, Tallied
<1>12. Recorded'
  BY <1>1, <1>2, <1>3, <1>4 DEF SceneInv, Recorded
<1>13. Open'
  <2>1. ~Unclosed(scene[r])'
    <3>1. <<r, scene[r], object[state[r]].total>> \in summaries'
      BY <1>1
    <3>2. QED
      BY <1>1, <3>1 DEF Unclosed
  <2>2. \A q \in Request : q # r => pc'[q] \notin Ingest!Running
    BY <1>2, Labels
  <2>3. QED
    BY <1>1, <1>2, <1>4, <2>1, <2>2 DEF Open, Unclosed
<1>14. Closed'
  <2> SUFFICES ASSUME NEW x \in summaries'
               PROVE  /\ scene'[x[1]] = x[2] /\ pc'[x[1]] \in Closing \cup {"done"}
                      /\ x[3] = Cardinality(Ingest!SnapshotsOf(x[2])')
                      /\ \A y \in summaries' : y[2] = x[2] => y = x
                      /\ \A k \in Context :
                            index'[k] # Null /\ index'[k].scene = x[2] => pc'[x[1]] = "clear"
                      /\ runtime'[x[2]] # Null => pc'[x[1]] \in Closing
    BY DEF Closed
  <2>1. CASE x \in summaries
    <3>1. x[1] # r /\ x[2] # scene[r] /\ x[1] \in Request
      BY <1>3, <1>6, <2>1
    <3>2. \A y \in summaries' : y[2] = x[2] => y \in summaries
      BY <1>1, <3>1
    <3>3. QED
      BY <1>1, <1>2, <1>5, <2>1, <3>1, <3>2 DEF SceneInv, Closed
  <2>2. CASE x = <<r, scene[r], object[state[r]].total>>
    <3>1. \A y \in summaries' : y[2] = x[2] => y = x
      BY <1>1, <1>6, <2>2
    <3>2. x[1] = r /\ x[2] = scene[r] /\ x[3] = object[state[r]].total
      BY <2>2
    <3>3. QED
      BY <1>1, <1>2, <1>4, <1>5, <1>7, <3>1, <3>2
  <2>3. QED
    BY <1>1, <2>1, <2>2
<1>15. QED
  BY <1>2, <1>8, <1>9, <1>10, <1>11, <1>12, <1>13, <1>14 DEF SceneInv

LEMMA SerialClearActive ==
    ASSUME IngestTyped, ChainInv, SceneInv, NEW r \in Request, Ingest!ClearActive(r)
    PROVE  SceneInv'
<1> USE DEF Ingest!At, Ingest!Goto, Ingest!memory, Ingest!files
<1>1. /\ pc[r] = "clear"
      /\ UNCHANGED <<runtime, object, snapshots, summaries, scene, state>>
  BY DEF Ingest!ClearActive
<1>2. PICK l \in {"pop", "cleared"} :
          /\ pc' = [pc EXCEPT ![r] = l]
          /\ l = "cleared" => tmp'
  BY DEF Ingest!ClearActive
<1>3. index'[ContextOf[r]] = Null /\ \A k \in Context : index'[k] \in {index[k], Null}
  BY Requests DEF Ingest!ClearActive, Ingest!KeyOf, IngestTyped, SceneTypes
<1>4. /\ pc'[r] = l /\ \A q \in Request : q # r => pc'[q] = pc[q]
      /\ \A q \in Request : q # r => pc[q] \in {"start", "done", "failed"}
      /\ \A q \in Request : pc[q] \in Placed => pc'[q] \in Placed
      /\ Alone'
  BY <1>1, <1>2, OneMoves, Labels
<1>5. /\ \A x \in summaries : x[1] \in Request /\ x[2] \in Request /\ x[3] \in Nat
      /\ \A x \in snapshots : x[1] \in Request /\ x[2] \in Request
      /\ \A k \in Context : index[k] # Null => index[k].scene \in Request
      /\ \A s \in Request : runtime[s] # Null => runtime[s] \in Request
      /\ \A q \in Request : pc[q] \in Placed => scene[q] \in Request
  BY IngestElements
<1>6. /\ pc[r] \in Placed /\ pc[r] \in Ingest!Running /\ pc[r] \in Closing /\ l \in Closing
      /\ l \notin Before \cup {"snapshot", "decide", "update", "saving"} /\ scene[r] \in Request
      /\ Closing \cap {"start", "done", "failed"} = {}
  BY <1>1, <1>2, <1>5, Labels DEF Before, Closing
<1>7. \A s : /\ Tally(s)' = Tally(s) /\ (Unclosed(s)' <=> Unclosed(s))
             /\ Ingest!SnapshotsOf(s)' = Ingest!SnapshotsOf(s)
  BY <1>1 DEF Tally, Unclosed, Ingest!SnapshotsOf
<1>8. Saved'
  BY <1>2, <1>4 DEF Saved
<1>9. Contexts'
  <2>1. \A k \in Context : index'[k] # Null => index'[k] = index[k]
    BY <1>3
  <2>2. QED
    BY <1>1, <1>4, <1>5, <1>6, <2>1 DEF SceneInv, Contexts
<1>10. States'
  BY <1>1, <1>4, <1>5, <1>6 DEF SceneInv, States
<1>11. Tallied'
  <2>1. \A q \in Request : pc'[q] = "snapshot" <=> pc[q] = "snapshot"
    BY <1>1, <1>4, <1>6
  <2>2. \A s : Pending(s)' = Pending(s)
    BY <1>1, <2>1 DEF Pending
  <2>3. QED
    BY <1>7, <2>2 DEF SceneInv, Tallied
<1>12. Recorded'
  BY <1>1, <1>4, <1>5, <1>6 DEF SceneInv, Recorded
<1>13. Open'
  BY <1>1, <1>4, <1>6, <1>7, Labels DEF SceneInv, Open
<1>14. Closed'
  \* Only this request is clearing, and its context has its scene.
  <2>1. ASSUME NEW x \in summaries, NEW k \in Context, index'[k] # Null, index'[k].scene = x[2]
        PROVE  FALSE
    <3>1. index[k] # Null /\ index[k].scene = x[2] /\ k # ContextOf[r]
      BY <1>3, <2>1
    <3>2. pc[x[1]] = "clear" /\ scene[x[1]] = x[2]
      BY <3>1 DEF SceneInv, Closed
    <3>3. x[1] = r
      BY <1>4, <1>5, <3>2
    <3>4. ContextOf[scene[r]] = k
      BY <3>1, <3>2, <3>3 DEF SceneInv, Contexts
    <3>5. ContextOf[scene[r]] = ContextOf[r]
      BY <1>6 DEF SceneInv, Contexts
    <3>6. QED
      BY <3>1, <3>4, <3>5
  <2>2. \A x \in summaries : /\ pc'[x[1]] \in Closing \cup {"done"}
                             /\ pc[x[1]] \in Closing => pc'[x[1]] \in Closing
    BY <1>4, <1>5, <1>6 DEF SceneInv, Closed
  <2>3. QED
    BY <1>1, <1>7, <2>1, <2>2 DEF SceneInv, Closed
<1>15. QED
  BY <1>4, <1>8, <1>9, <1>10, <1>11, <1>12, <1>13, <1>14 DEF SceneInv

LEMMA SerialPopState ==
    ASSUME IngestTyped, ChainInv, SceneInv, NEW r \in Request, Ingest!PopState(r)
    PROVE  SceneInv'
<1> USE DEF Ingest!At, Ingest!Goto, Ingest!files
<1>1. /\ pc' = [pc EXCEPT ![r] = "done"] /\ pc[r] = "pop"
      /\ runtime' = [runtime EXCEPT ![scene[r]] = Null]
      /\ UNCHANGED <<index, object, snapshots, summaries, scene, state, tmp>>
  BY DEF Ingest!PopState
<1>2. /\ pc'[r] = "done" /\ \A q \in Request : q # r => pc'[q] = pc[q]
      /\ \A q \in Request : q # r => pc[q] \in {"start", "done", "failed"}
      /\ \A q \in Request : pc[q] \in Placed => pc'[q] \in Placed
      /\ Alone'
  BY <1>1, OneMoves, Labels
<1>3. /\ \A x \in summaries : x[1] \in Request /\ x[2] \in Request /\ x[3] \in Nat
      /\ \A x \in snapshots : x[1] \in Request /\ x[2] \in Request
      /\ \A k \in Context : index[k] # Null => index[k].scene \in Request
      /\ \A s \in Request : runtime[s] # Null => runtime[s] \in Request
      /\ \A q \in Request : pc[q] \in Placed => scene[q] \in Request
  BY IngestElements
<1>4. /\ pc[r] \in Placed /\ pc[r] \in Ingest!Running /\ pc[r] \in Closing
      /\ "done" \notin Before \cup Ingest!Running /\ scene[r] \in Request
  BY <1>1, <1>3, Labels DEF Before, Closing
<1>5. /\ runtime'[scene[r]] = Null
      /\ \A s \in Request : s # scene[r] => runtime'[s] = runtime[s]
  BY <1>1, <1>4 DEF IngestTyped, SceneTypes
<1>6. \A s : /\ (Unclosed(s)' <=> Unclosed(s))
             /\ Ingest!SnapshotsOf(s)' = Ingest!SnapshotsOf(s)
  BY <1>1 DEF Unclosed, Ingest!SnapshotsOf
<1>7. Saved'
  BY <1>1, <1>2 DEF SceneInv, Saved
<1>8. Contexts'
  BY <1>1, <1>2, <1>3, <1>4 DEF SceneInv, Contexts
<1>9. States'
  <2>1. \A s \in Request : runtime'[s] # Null => runtime'[s] = runtime[s]
    BY <1>5
  <2>2. \A q \in Request : pc'[q] \notin {"update", "snapshot", "decide"}
    BY <1>2
  <2>3. \A q \in Request : pc[q] \notin Before => pc'[q] \notin Before
    BY <1>2, <1>4
  <2>4. QED
    BY <1>1, <1>3, <2>1, <2>2, <2>3 DEF SceneInv, States
<1>10. Tallied'
  <2>1. ~Unclosed(scene[r])
    BY <1>4 DEF SceneInv, Open
  <2>2. \A q \in Request : pc'[q] # "snapshot" /\ pc[q] # "snapshot"
    BY <1>1, <1>2
  <2>3. \A s : Pending(s)' = Pending(s)
    BY <2>2 DEF Pending
  <2>4. \A s \in Request : s # scene[r] => Tally(s)' = Tally(s)
    BY <1>1, <1>5 DEF Tally
  <2>5. QED
    BY <1>6, <2>1, <2>3, <2>4 DEF SceneInv, Tallied
<1>11. Recorded'
  BY <1>1, <1>2, <1>3, <1>4 DEF SceneInv, Recorded
<1>12. Open'
  BY <1>1, <1>2, <1>4, <1>6, Labels DEF SceneInv, Open
<1>13. Closed'
  <2>1. ASSUME NEW x \in summaries
        PROVE  /\ pc'[x[1]] \in Closing \cup {"done"}
               /\ runtime'[x[2]] # Null => pc'[x[1]] \in Closing
               /\ pc'[x[1]] = "clear" <=> pc[x[1]] = "clear"
    <3>1. CASE x[1] = r
      <4>1. x[2] = scene[r]
        BY <3>1 DEF SceneInv, Closed
      <4>2. QED
        BY <1>1, <1>2, <1>5, <3>1, <4>1
    <3>2. CASE x[1] # r
      BY <1>2, <1>3, <1>5, <3>2 DEF SceneInv, Closed
    <3>3. QED
      BY <3>1, <3>2
  <2>2. QED
    BY <1>1, <1>6, <2>1 DEF SceneInv, Closed
<1>14. QED
  BY <1>2, <1>7, <1>8, <1>9, <1>10, <1>11, <1>12, <1>13 DEF SceneInv

LEMMA SerialSaveIndex ==
    ASSUME IngestTyped, ChainInv, SceneInv, NEW r \in Request, Ingest!SaveIndex(r)
    PROVE  SceneInv'
<1>1. tmp
  BY DEF SceneInv, Saved, Ingest!SaveIndex, Ingest!Saving
<1>2. /\ pc' = [pc EXCEPT ![r] = IF pc[r] = "saving" THEN "observe" ELSE "pop"]
      /\ pc[r] \in {"saving", "cleared"}
      /\ UNCHANGED <<index, runtime, object, snapshots, summaries, scene, state>>
  BY <1>1 DEF Ingest!SaveIndex, Ingest!Saving, Ingest!Goto, Ingest!At, Ingest!memory
<1>3. CASE pc[r] = "saving"
  BY <1>2, <1>3, SerialMove, Labels
<1>4. CASE pc[r] = "cleared"
  BY <1>2, <1>4, SerialMove, Labels
<1>5. QED
  BY <1>2, <1>3, <1>4

LEMMA SerialPasses ==
    ASSUME IngestTyped, ChainInv, SceneInv, NEW r \in Request,
           \/ Ingest!Observe(r) \/ Ingest!WriteChain(r) \/ Ingest!WriteEvent(r)
           \/ Ingest!KeepOpen(r)
    PROVE  SceneInv'
<1> USE DEF Ingest!At, Ingest!Goto, Ingest!memory, Ingest!files
<1>1. CASE Ingest!Observe(r)
  <2>1. /\ pc[r] = "observe"
        /\ \/ pc' = [pc EXCEPT ![r] = "chain"]
           \/ pc' = [pc EXCEPT ![r] = "failed"]
        /\ UNCHANGED <<index, runtime, object, snapshots, summaries, scene, state>>
    BY <1>1 DEF Ingest!Observe
  <2>2. QED
    BY <2>1, SerialMove, Labels
<1>2. CASE Ingest!WriteChain(r)
  BY <1>2, SerialMove, Labels DEF Ingest!WriteChain
<1>3. CASE Ingest!WriteEvent(r)
  BY <1>3, SerialMove, Labels DEF Ingest!WriteEvent
<1>4. CASE Ingest!KeepOpen(r)
  BY <1>4, SerialMove, Labels DEF Ingest!KeepOpen
<1>5. QED
  BY <1>1, <1>2, <1>3, <1>4

LEMMA SerialHolds == Ingest!Spec => []SerialInv
<1>1. Ingest!Init => SerialInv
  <2> SUFFICES ASSUME Ingest!Init PROVE SceneInv
    BY DEF SerialInv
  <2>1. /\ \A r \in Request : pc[r] = "start" /\ runtime[r] = Null /\ object[r].total = 0
        /\ \A k \in Context : index[k] = Null
        /\ snapshots = {} /\ summaries = {}
    BY DEF Ingest!Init, Ingest!Fresh
  <2>2. Alone /\ Saved /\ Contexts /\ States /\ Recorded /\ Open /\ Closed
    BY <2>1, Labels DEF Alone, Saved, Contexts, States, Recorded, Open, Closed
  <2>3. Tallied
    <3>1. \A s : Ingest!SnapshotsOf(s) = {} /\ Pending(s) = 0
      BY <2>1 DEF Ingest!SnapshotsOf, Pending
    <3>2. \A s : Cardinality(Ingest!SnapshotsOf(s)) = 0
      BY <3>1, FS_EmptySet
    <3>3. QED
      BY <2>1, <3>1, <3>2 DEF Tallied, Tally
  <2>4. QED
    BY <2>2, <2>3 DEF SceneInv
<1>2. /\ IngestTyped /\ ChainInv /\ CountInv /\ SerialInv /\ [Ingest!Next]_Ingest!vars
      => SerialInv'
  <2> SUFFICES ASSUME IngestTyped, ChainInv, CountInv, SerialInv, [Ingest!Next]_Ingest!vars, Serial'
               PROVE  SceneInv'
    BY DEF SerialInv
  <2>1. ASSUME Ingest!Crash PROVE FALSE
    BY <2>1 DEF Ingest!Crash, Serial, IngestTyped, HistoryTypes
  <2>2. ASSUME NEW r \in Request, Ingest!Handle(r)
        PROVE  SceneInv /\ ~overlapped' /\ SceneInv'
    <3>1. SceneInv /\ ~overlapped'
      BY <2>2 DEF SerialInv, Serial, Ingest!Handle, Ingest!FindScene, Ingest!OpenScene,
         Ingest!PromoteScene, Ingest!Upsert, Ingest!SaveIndex, Ingest!Observe, Ingest!WriteChain,
         Ingest!WriteEvent, Ingest!GetState, Ingest!UpdateState, Ingest!Snapshot,
         Ingest!Summarise, Ingest!KeepOpen, Ingest!ClearActive, Ingest!PopState
    <3>2. QED
      BY <2>2, <3>1, SerialFindScene, SerialUpsert, SerialSaveIndex, SerialPasses, SerialGetState,
         SerialUpdateState, SerialSnapshot, SerialSummarise, SerialClearActive, SerialPopState
         DEF Ingest!Handle
  <2>3. CASE UNCHANGED <<index, runtime, object, snapshots, summaries, pc, scene, state, tmp,
                         overlapped, crashes>>
    BY <2>3 DEF SerialInv, Serial, SceneInv, Alone, Saved, Contexts, States, Tallied, Tally,
       Pending, Unclosed, Recorded, Open, Closed, Ingest!SnapshotsOf
  <2>4. QED
    BY <2>1, <2>2, <2>3 DEF Ingest!Next, Ingest!OutcomeRead, Ingest!OutcomeReplace, Ingest!vars,
       Ingest!memory, Ingest!files, Ingest!local, Ingest!learn
<1>3. QED
  BY <1>1, <1>2, IngestTypesHold, ChainHolds, CountHolds, PTL DEF Ingest!Spec

(* However requests overlap and the process crashes, no summary of a scene *)
(* counts a decision that was not observed; and requests that come one at  *)
(* a time close a scene once, with a summary of all its snapshots, and     *)
(* leave neither its state nor its entry behind (routes/decision.py,       *)
(* scene_repo.py).                                                         *)
THEOREM SummariesAgree == Decisions => []SummariesAddUp
<1>1. IngestTyped /\ ChainInv /\ CountInv /\ SerialInv => SummariesAddUp
  <2> SUFFICES ASSUME IngestTyped, ChainInv, CountInv, SerialInv PROVE SummariesAddUp
    OBVIOUS
  <2>1. Ingest!SummaryCountsObserved
    BY IngestCardinalityIs DEF CountInv, Ingest!SummaryCountsObserved
  <2>2. ASSUME Serial, NEW x \in summaries
        PROVE  /\ x[3] = Ingest!Cardinality(Ingest!SnapshotsOf(x[2]))
               /\ \A y \in summaries : y[2] = x[2] => y = x
               /\ pc[x[1]] = "done" =>
                    runtime[x[2]] = Null /\ \A k \in Context :
                        index[k] # Null => index[k].scene # x[2]
    BY <2>2, IngestCardinalityIs DEF SerialInv, SceneInv, Closed, Closing
  <2>3. Ingest!SerialScenesCloseOnce
    BY <2>2 DEF Ingest!SerialScenesCloseOnce, Serial
  <2>4. QED
    BY <2>1, <2>3 DEF SummariesAddUp, Ingest!SummariesAddUp
<1>2. QED
  BY <1>1, IngestTypesHold, ChainHolds, CountHolds, SerialHolds, DecisionsRunIngest, PTL
=============================================================================
