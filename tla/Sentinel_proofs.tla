-------------------------- MODULE Sentinel_proofs ---------------------------
(***************************************************************************)
(* Proofs about the sentinel's pipelines, which MCSentinel joins: the loop *)
(* that posts to the executor, for any loops, readings, candles and bounds; *)
(* the local replay, for any replays and answers of the model; and the     *)
(* tools that announce changes, for any symbols and runs.                  *)
(*                                                                         *)
(* A behaviour of the joined specification is one of each pipeline, for    *)
(* the others' steps leave its state alone.                                *)
(***************************************************************************)
EXTENDS MCSentinel, SequenceTheorems, WellFoundedInduction, TLAPS

(* What runs in MCSentinel is the pipelines.                               *)
LEMMA SentinelRunsLoop == Sentinel => Spec
<1>1. SentinelInit => Init
  BY DEF SentinelInit
<1>2. [SentinelNext]_<<component, vars, replayState, alertState>> => [Next]_vars
  BY DEF SentinelNext
<1>3. QED
  BY <1>1, <1>2, PTL DEF Sentinel, Spec

LEMMA SentinelRunsReplays == Sentinel => Replays!Spec
<1>1. SentinelInit => Replays!Init
  BY DEF SentinelInit
<1>2. [SentinelNext]_<<component, vars, replayState, alertState>>
      => [Replays!Next]_Replays!replayVars
  BY DEF SentinelNext, replayState, Replays!replayVars
<1>3. QED
  BY <1>1, <1>2, PTL DEF Sentinel, Replays!Spec

LEMMA SentinelRunsAlerts == Sentinel => Announce!Spec
<1>1. SentinelInit => Announce!Init
  BY DEF SentinelInit
<1>2. [SentinelNext]_<<component, vars, replayState, alertState>>
      => [Announce!Next]_Announce!alerts
  BY DEF SentinelNext, alertState, Announce!alerts
<1>3. QED
  BY <1>1, <1>2, PTL DEF Sentinel, Announce!Spec

-----------------------------------------------------------------------------
(* The numbers.                                                            *)

(* The greatest of some numbers that are bounded.                          *)
LEMMA Greatest ==
    ASSUME NEW n \in Nat, NEW S \in SUBSET (0..n), S # {}
    PROVE  Max(S) \in S /\ \A y \in S : Max(S) >= y
<1> DEFINE T == {n - x : x \in S}
           R == OpToRel(<, Nat)
<1>1. T \subseteq Nat /\ T # {}
  <2>1. \A x \in S : n - x \in Nat
    OBVIOUS
  <2>2. QED
    BY <2>1
<1>2. \E x \in T : \A y \in T : ~(<<y, x>> \in R)
  <2> HIDE DEF T, R
  <2>1. IsWellFoundedOn(R, Nat)
    BY NatLessThanWellFounded DEF R
  <2>2. QED
    BY <1>1, <2>1, WFMin
<1>3. PICK x \in T : \A y \in T : ~(y < x)
  BY <1>1, <1>2 DEF OpToRel
<1>4. PICK z \in S : x = n - z
  OBVIOUS
<1>5. ASSUME NEW y \in S PROVE z >= y
  <2>1. PICK w \in T : w = n - y
    OBVIOUS
  <2>2. ~(w < x) /\ y \in 0..n /\ z \in 0..n
    BY <1>3
  <2>3. QED
    BY <1>4, <2>1, <2>2
<1>6. \E m \in S : \A y \in S : m >= y
  BY <1>5
<1>7. QED
  BY <1>6 DEF Max

(* The lesser of two, and what 0 and a number leave.                       *)
LEMMA Extremes ==
    /\ \A a, b \in Int : Lesser(a, b) \in Int /\ Lesser(a, b) <= a /\ Lesser(a, b) <= b
                         /\ Lesser(a, b) \in {a, b}
    /\ \A a \in Int : Max({0, a}) \in Int /\ Max({0, a}) >= 0 /\ Max({0, a}) >= a
                      /\ Max({0, a}) \in {0, a}
<1>1. ASSUME NEW a \in Int, NEW b \in Int
      PROVE  Lesser(a, b) \in {a, b} /\ Lesser(a, b) <= a /\ Lesser(a, b) <= b
  <2>1. \E x \in {a, b} : \A y \in {a, b} : x =< y
    <3>1. CASE a <= b
      BY <3>1
    <3>2. CASE b <= a
      BY <3>2
    <3>3. QED
      BY <3>1, <3>2
  <2>2. QED
    BY <2>1 DEF Lesser, Min
<1>2. ASSUME NEW a \in Int
      PROVE  Max({0, a}) \in {0, a} /\ Max({0, a}) >= 0 /\ Max({0, a}) >= a
  <2>1. \E x \in {0, a} : \A y \in {0, a} : x >= y
    <3>1. CASE a <= 0
      BY <3>1
    <3>2. CASE 0 <= a
      BY <3>2
    <3>3. QED
      BY <3>1, <3>2
  <2>2. QED
    BY <2>1 DEF Max
<1>3. QED
  BY <1>1, <1>2

LEMMA Strings == Directions = {"long", "short", "neutral"}
BY DEF Directions
LEMMA ChangeType ==
    ASSUME NEW now \in Nat \ {0}, NEW before \in Nat \ {0}
    PROVE  Change(now, before) \in Int
BY DEF Change

(* A leg is of the summary's type, and its direction follows its score.    *)
LEMMA LegType ==
    ASSUME NEW tf \in Timeframe, NEW delta \in Int \cup {Unknown}, NEW skew \in Int,
           NEW bar \in [candle: {-5, 0, 5}, wide: BOOLEAN]
    PROVE  Leg(tf, delta, skew, bar) \in Legs
<1>1. bar.candle \in Int /\ bar.wide \in BOOLEAN
  OBVIOUS
<1>2. Moved(tf, delta) \in Int
  BY SignalAssumption DEF Moved, Thresholds, Magnitude
<1>3. PICK s \in Int : s = Score(tf, delta, skew, bar.candle)
  <2>1. PICK p \in Int : p = 50 + skew + Moved(tf, delta) + bar.candle
    BY <1>1, <1>2
  <2>2. Lesser(100, p) \in Int
    BY Extremes
  <2>3. Max({0, Lesser(100, p)}) \in Int
    BY <2>2, Extremes
  <2>4. QED
    BY <2>1, <2>3 DEF Score
<1>4. Direction(s) \in Directions
  BY DEF Direction, Directions
<1>5. Confidence(s, delta) \in Int
  <2>1. 100 * Magnitude(s - 50) \in Int
    BY DEF Magnitude
  <2>2. Lesser(100 * Magnitude(s - 50), 3500) \in Int
    BY <2>1, Extremes
  <2>3. delta # Unknown => Lesser(Magnitude(delta), 1000) \in Int
    <3>1. delta # Unknown => Magnitude(delta) \in Int
      BY DEF Magnitude
    <3>2. QED
      BY <3>1, Extremes
  <2>4. QED
    BY <2>2, <2>3 DEF Confidence
<1>6. Leg(tf, delta, skew, bar) =
         [score |-> s, direction |-> Direction(s), confidence |-> Confidence(s, delta),
          wide |-> bar.wide]
  BY <1>3 DEF Leg
<1>7. QED
  BY <1>1, <1>3, <1>4, <1>5, <1>6 DEF Legs

(* What a summary's item has to do with the hourly leg beside it.          *)
Agreed(item, hourly) ==
    /\ item.direction # "short"
    /\ item.direction = "long" =>
        hourly.score >= 55 /\ (item.score >= 80 /\ item.risk # "high" => ~hourly.wide)

LEMMA ConsensusAgrees ==
    ASSUME NEW a \in Legs, NEW b \in Legs
    PROVE  Consensus(a, b) \in Items /\ Agreed(Consensus(a, b), b)
<1>1. /\ a.score \in Int /\ a.confidence \in Int /\ a.direction = Direction(a.score)
      /\ b.score \in Int /\ b.confidence \in Int /\ b.wide \in BOOLEAN
  BY DEF Legs
<1>2. CASE /\ a.score >= 70 /\ a.direction \in {"long", "short"}
           /\ b.direction \in {a.direction, "neutral"} /\ b.score >= 55
  <2>1. PICK s \in Int : s = Lesser(a.score, b.score + 20)
    <3>1. b.score + 20 \in Int
      BY <1>1
    <3>2. QED
      BY <1>1, <3>1, Extremes
  <2>2. PICK c \in Int : c = Lesser(10000, Lesser(a.confidence, b.confidence) + 500)
    <3>1. Lesser(a.confidence, b.confidence) \in Int
      BY <1>1, Extremes
    <3>2. QED
      BY <3>1, Extremes
  <2>3. a.direction = "long"
    BY <1>1, <1>2 DEF Direction
  <2>4. PICK risk \in {"medium", "high"} : risk = IF s >= 80 /\ b.wide THEN "high" ELSE "medium"
    OBVIOUS
  <2>5. Consensus(a, b) = [score |-> s, direction |-> "long", risk |-> risk, confidence |-> c]
    BY <1>2, <2>1, <2>2, <2>3, <2>4 DEF Consensus
  <2>6. QED
    BY <1>2, <2>4, <2>5 DEF Items, Directions, Agreed
<1>3. CASE Consensus(a, b) = NoConsensus
  BY <1>3 DEF NoConsensus, Items, Directions, Agreed
<1>4. QED
  BY <1>2, <1>3 DEF Consensus

-----------------------------------------------------------------------------
(* The live loop: types.                                                   *)

Row == [prev: Seq(Payload), payload: Payload]
Times == 0..MaxSecond
Summaries == {x \in [item: Items, hourly: Legs] : Agreed(x.item, x.hourly)}

Steps == {"off", "idle", "score15m", "write15m", "score1h", "write1h", "summary", "intent",
          "dedupe", "hash", "append", "verify", "decide", "post", "answer"}
\* In a cycle, and what of it is behind.
Working == Steps \ {"off", "idle"}
Wrote15m == Working \ {"score15m", "write15m"}
Wrote1h == Wrote15m \ {"score1h", "write1h"}
Summed == Wrote1h \ {"summary"}
Intended == Summed \ {"intent"}

FileTypes ==
    /\ clock \in Second
    /\ deriv \in [Second -> Reading \cup {Null}]
    /\ prevOI \in [Timeframe -> [at: Times, oi: Nat]]
    /\ event \in [Second -> [Timeframe -> Legs \cup {Null}]]
    /\ summary \in [Second -> Summaries \cup {Null}]
    /\ intent \in [Second -> Intents \cup {Null}]
    /\ chain \in Seq(Row \cup {Torn})
LoopTypes ==
    /\ streak \in Nat
    /\ pc \in [Loop -> Steps]
    /\ ts \in [Loop -> Times]
    /\ leg \in [Loop -> Legs \cup {Null}]
    /\ last \in [Loop -> Row \cup {Null}]
    /\ failed \in [Loop -> Nat]
    /\ scored \in SUBSET (Timeframe \X Times \X Second)
    /\ overlapped \in BOOLEAN
(* What a cycle has done is in the files of its second.                    *)
CycleOf(l) ==
    /\ pc[l] \in Working => ts[l] \in Second /\ deriv[ts[l]] \in Reading
    /\ pc[l] \in {"write15m", "write1h"} => leg[l] \in Legs
    /\ pc[l] \in Wrote15m => event[ts[l]]["15m"] \in Legs
    /\ pc[l] \in Wrote1h => event[ts[l]]["1h"] \in Legs
    /\ pc[l] \in Summed => summary[ts[l]] \in Summaries
    /\ pc[l] \in Intended => intent[ts[l]] \in Intents /\ ts[l] < clock
    /\ pc[l] \in {"append", "verify"} => last[l] \in Row /\ last[l].payload.ts = ts[l]
LoopTyped == FileTypes /\ LoopTypes /\ \A l \in Loop : CycleOf(l)

LEMMA LoopConstants ==
    /\ MaxSecond \in Nat \ {0} /\ 1 \in Second /\ 0 \in Times /\ Second \subseteq Times
    /\ \A r \in Reading : r.oi \in Nat \ {0} /\ r.skew \in Int
    /\ \A tf \in Timeframe : Bar[tf] \subseteq [candle: {-5, 0, 5}, wide: BOOLEAN]
    /\ Torn \notin Row
    /\ Timeframe = {"15m", "1h"}
BY LoopAssumption DEF Second, Times, Row, Timeframe

LEMMA LoopSteps ==
    /\ Intended \subseteq Summed /\ Summed \subseteq Wrote1h /\ Wrote1h \subseteq Wrote15m
    /\ Wrote15m \subseteq Working /\ Working \subseteq Steps
    /\ "score1h" \in Wrote15m /\ "summary" \in Wrote1h /\ "intent" \in Summed
    /\ {"dedupe", "hash", "append", "verify", "decide", "post", "answer"} \subseteq Intended
    /\ {"score15m", "write15m"} \subseteq Working \ Wrote15m
    /\ {"score1h", "write1h"} \subseteq Wrote15m \ Wrote1h
    /\ "summary" \notin Summed /\ "intent" \notin Intended
    /\ {"off", "idle"} \subseteq Steps \ Working
BY DEF Intended, Summed, Wrote1h, Wrote15m, Working, Steps

(* A step that only one loop takes, and that leaves every file that a      *)
(* cycle relies on filled.                                                 *)
FilesKept ==
    /\ \A t \in Second :
        /\ deriv[t] \in Reading => deriv'[t] \in Reading
        /\ \A tf \in Timeframe : event[t][tf] \in Legs => event'[t][tf] \in Legs
        /\ summary[t] \in Summaries => summary'[t] \in Summaries
        /\ intent[t] \in Intents => intent'[t] \in Intents
    /\ clock' >= clock
OthersKept(l) ==
    \A q \in Loop \ {l} :
        pc'[q] = pc[q] /\ ts'[q] = ts[q] /\ leg'[q] = leg[q] /\ last'[q] = last[q]

LEMMA LoopMoves ==
    ASSUME LoopTyped, NEW l \in Loop, FileTypes', LoopTypes', FilesKept, OthersKept(l), CycleOf(l)'
    PROVE  LoopTyped'
<1>1. ASSUME NEW q \in Loop \ {l} PROVE CycleOf(q)'
  <2>1. CycleOf(q)
    BY DEF LoopTyped
  <2>2. pc'[q] = pc[q] /\ ts'[q] = ts[q] /\ leg'[q] = leg[q] /\ last'[q] = last[q]
    BY DEF OthersKept
  <2>3. pc[q] \in Working => ts[q] \in Second
    BY <2>1 DEF CycleOf
  <2>4. clock \in Int /\ clock' \in Int /\ ts[q] \in Int
    BY DEF LoopTyped, FileTypes, LoopTypes, Second, Times
  <2>5. "15m" \in Timeframe /\ "1h" \in Timeframe
    BY DEF Timeframe
  <2>6. QED
    BY <2>1, <2>2, <2>3, <2>4, <2>5, LoopSteps DEF CycleOf, FilesKept
<1>2. QED
  BY <1>1 DEF LoopTyped

(* What the steps of a cycle write.                                        *)
LEMMA ScoredType ==
    ASSUME LoopTyped, NEW l \in Loop, NEW tf \in Timeframe, NEW bar \in Bar[tf],
           pc[l] \in Working
    PROVE  Scored(l, tf, bar) \in Legs /\ deriv[ts[l]].oi \in Nat /\ ts[l] \in Second
<1>1. ts[l] \in Second /\ deriv[ts[l]] \in Reading
  BY DEF LoopTyped, CycleOf
<1>2. deriv[ts[l]].oi \in Nat \ {0} /\ deriv[ts[l]].skew \in Int
      /\ bar \in [candle: {-5, 0, 5}, wide: BOOLEAN]
  BY <1>1, LoopConstants
<1>3. prevOI[tf].oi \in Nat
  BY DEF LoopTyped, FileTypes
<1>4. prevOI[tf].oi # 0 => Change(deriv[ts[l]].oi, prevOI[tf].oi) \in Int
  BY <1>2, <1>3, ChangeType
<1>5. PICK delta \in Int \cup {Unknown} :
         delta = IF prevOI[tf].oi = 0 THEN Unknown ELSE Change(deriv[ts[l]].oi, prevOI[tf].oi)
  BY <1>4
<1>6. PICK skew \in Int, b \in [candle: {-5, 0, 5}, wide: BOOLEAN] :
         skew = deriv[ts[l]].skew /\ b = bar
  BY <1>2
<1>7. Scored(l, tf, bar) = Leg(tf, delta, skew, b)
  BY <1>5, <1>6 DEF Scored
<1>8. Leg(tf, delta, skew, b) \in Legs
  BY LegType
<1>9. QED
  BY <1>1, <1>2, <1>7, <1>8

LEMMA FileChangeType ==
    ASSUME LoopTyped, NEW t \in Second, deriv[t] \in Reading
    PROVE  FileChange(t) \in Int \cup {Unknown}
<1> DEFINE S == {0} \cup {u \in 1..(t - 1) : deriv[u] # Null}
<1>1. t \in Nat /\ S \in SUBSET (0..t) /\ S # {}
  BY DEF Second
<1>2. Max(S) \in S
  <2> HIDE DEF S
  <2>1. QED
    BY <1>1, Greatest
<1>3. FileBefore(t) \in S
  BY <1>2 DEF FileBefore
<1>4. FileBefore(t) # 0 => deriv[FileBefore(t)] \in Reading
  <2>1. FileBefore(t) # 0 => FileBefore(t) \in Second /\ deriv[FileBefore(t)] # Null
    BY <1>3, LoopConstants DEF Second
  <2>2. QED
    BY <2>1 DEF LoopTyped, FileTypes
<1>5. QED
  BY <1>4, LoopConstants, ChangeType DEF FileChange

(* What an intent is, of a summary whose item goes with its leg.           *)
Sound(x) ==
    x.triggered =>
        /\ x.direction = "long" /\ x.hourly.score >= 55 /\ ~Vetoed(x.delta)
        /\ x.score >= 80 => ~x.hourly.wide
        /\ OrderOf("paper", x) \in {"BUY", "NONE"}
LEMMA IntentType ==
    ASSUME LoopTyped, NEW l \in Loop, BuildIntent(l)
    PROVE  /\ ts[l] \in Second
           /\ intent' \in [Second -> Intents \cup {Null}]
           /\ intent'[ts[l]] \in Intents /\ Sound(intent'[ts[l]])
           /\ \A t \in Second \ {ts[l]} : intent'[t] = intent[t]
<1>1. /\ pc[l] = "intent" /\ ts[l] \in Second /\ deriv[ts[l]] \in Reading
      /\ summary[ts[l]] \in Summaries /\ intent \in [Second -> Intents \cup {Null}]
  BY LoopSteps DEF BuildIntent, Step, LoopTyped, CycleOf, FileTypes
<1>2. PICK t \in Second : t = ts[l]
  BY <1>1
<1>3. PICK s \in Items, h \in Legs : s = summary[t].item /\ h = summary[t].hourly /\ Agreed(s, h)
  BY <1>1, <1>2 DEF Summaries
<1>4. PICK delta \in Int \cup {Unknown} : delta = FileChange(t)
  BY <1>1, <1>2, FileChangeType
<1>5. PICK trig \in BOOLEAN : trig = Triggers(Mode[l], s, delta)
  BY DEF Triggers
<1>6. /\ s.score \in Int /\ s.direction \in Directions /\ s.risk \in {"low", "medium", "high"}
      /\ s.confidence \in Int
  BY DEF Items
<1>7. PICK x \in Intents :
         x = [score |-> s.score, direction |-> s.direction, risk |-> s.risk,
              confidence |-> s.confidence, delta |-> delta, hourly |-> h, triggered |-> trig]
  BY <1>6 DEF Intents
<1>8. intent' = [intent EXCEPT ![t] = x]
  BY <1>2, <1>3, <1>4, <1>5, <1>7 DEF BuildIntent, Selected
<1>9. Sound(x)
  <2>1. /\ x.score = s.score /\ x.direction = s.direction /\ x.risk = s.risk
        /\ x.confidence = s.confidence /\ x.delta = delta /\ x.hourly = h /\ x.triggered = trig
    BY <1>7
  <2>2. trig => ~Vetoed(delta) /\ s.direction \in {"long", "short"} /\ s.risk \in {"low", "medium"}
    BY <1>5 DEF Triggers
  <2>3. QED
    BY <1>3, <2>1, <2>2 DEF Sound, Agreed, OrderOf
<1>10. QED
  BY <1>1, <1>2, <1>8, <1>9

(* A step that changes no file, to a step that what is behind suffices for. *)
LEMMA LoopPasses ==
    ASSUME LoopTyped, NEW l \in Loop, NEW to \in Intended, Step(l, pc[l], to), pc[l] \in Intended,
           UNCHANGED <<clock, files, chain, ts, leg, scored>>,
           streak' \in Nat, failed' \in [Loop -> Nat], overlapped' \in BOOLEAN,
           \E r \in Row \cup {Null} : last' = [last EXCEPT ![l] = r],
           to \in {"append", "verify"} => last'[l] \in Row /\ last'[l].payload.ts = ts[l]
    PROVE  LoopTyped'
<1>1. FileTypes' /\ FilesKept
  BY DEF LoopTyped, FileTypes, files, FilesKept, Second
<1>2. LoopTypes' /\ OthersKept(l)
  BY LoopSteps DEF LoopTyped, LoopTypes, Step, OthersKept
<1>3. CycleOf(l)'
  <2>1. pc'[l] = to /\ CycleOf(l)
    BY DEF LoopTyped, LoopTypes, Step
  <2>2. QED
    BY <2>1, LoopSteps DEF CycleOf, files
<1>4. QED
  BY <1>1, <1>2, <1>3, LoopMoves

LEMMA LoopEnds ==
    ASSUME LoopTyped, NEW l \in Loop, NEW to \in {"off", "idle"},
           pc' = [pc EXCEPT ![l] = to], EndCycle(l),
           UNCHANGED <<clock, files, scored, overlapped>>,
           streak' \in Nat, chain' \in Seq(Row \cup {Torn})
    PROVE  LoopTyped'
<1>1. FileTypes' /\ FilesKept
  BY DEF LoopTyped, FileTypes, files, FilesKept, Second
<1>2. LoopTypes'
  BY LoopSteps, LoopConstants DEF LoopTyped, LoopTypes, EndCycle
<1>3. OthersKept(l)
  BY DEF LoopTyped, LoopTypes, EndCycle, OthersKept
<1>4. CycleOf(l)'
  <2>1. pc'[l] \in {"off", "idle"}
    BY DEF LoopTyped, LoopTypes
  <2>2. QED
    BY <2>1, LoopSteps DEF CycleOf
<1>5. QED
  BY <1>1, <1>2, <1>3, <1>4, LoopMoves

(* The hash of a chain that can be read is that of a row.                  *)
LEMMA HashType ==
    ASSUME LoopTyped, Readable(chain)
    PROVE  LastHash(chain) \in Seq(Payload)
<1>1. CASE chain = <<>>
  BY <1>1 DEF LastHash, Genesis
<1>2. CASE chain # <<>>
  <2>1. chain \in Seq(Row \cup {Torn}) /\ Len(chain) \in 1..Len(chain)
    BY <1>2 DEF LoopTyped, FileTypes
  <2>2. chain[Len(chain)] \in Row
    BY <1>2, <2>1 DEF Readable
  <2> PICK row \in Row : row = chain[Len(chain)]
    BY <2>2
  <2>3. row.prev \in Seq(Payload) /\ row.payload \in Payload
    BY DEF Row
  <2>4. Append(row.prev, row.payload) \in Seq(Payload)
    BY <2>3, AppendProperties
  <2>5. QED
    BY <1>2, <2>4 DEF LastHash, Digest
<1>3. QED
  BY <1>1, <1>2

LEMMA LoopTypesHold == Spec => []LoopTyped
<1>1. Init => LoopTyped
  <2> SUFFICES ASSUME Init PROVE LoopTyped
    OBVIOUS
  <2>1. FileTypes
    BY LoopConstants DEF Init, FileTypes, NoReading
  <2>2. LoopTypes
    BY LoopConstants, LoopSteps DEF Init, LoopTypes
  <2>3. \A l \in Loop : CycleOf(l)
    BY LoopSteps DEF Init, CycleOf
  <2>4. QED
    BY <2>1, <2>2, <2>3 DEF LoopTyped
<1>2. LoopTyped /\ [Next]_vars => LoopTyped'
  <2> SUFFICES ASSUME LoopTyped, [Next]_vars PROVE LoopTyped'
    OBVIOUS
  <2>1. CASE Tick
    <3>1. FileTypes' /\ LoopTypes'
      <4>1. clock' \in Second
        BY <2>1, LoopConstants DEF Tick, LoopTyped, FileTypes, Second
      <4>2. QED
        BY <2>1, <4>1 DEF Tick, LoopTyped, FileTypes, LoopTypes, files, local, posting
    <3>2. \A l \in Loop : CycleOf(l)'
      <4>1. clock \in Int /\ clock' = clock + 1 /\ \A l \in Loop : ts[l] \in Int
        BY <2>1 DEF Tick, LoopTyped, FileTypes, LoopTypes, Second, Times
      <4>2. QED
        BY <2>1, <4>1 DEF Tick, LoopTyped, CycleOf, files, local
    <3>3. QED
      BY <3>1, <3>2 DEF LoopTyped
  <2>2. ASSUME NEW l \in Loop, StartRun(l) PROVE LoopTyped'
    <3>1. FileTypes' /\ FilesKept
      BY <2>2 DEF StartRun, LoopTyped, FileTypes, files, FilesKept, Second
    <3>2. LoopTypes' /\ OthersKept(l)
      BY <2>2, LoopSteps DEF StartRun, Step, LoopTyped, LoopTypes, local, posting, OthersKept
    <3>3. CycleOf(l)'
      <4>1. pc'[l] = "idle"
        BY <2>2 DEF StartRun, Step, LoopTyped, LoopTypes
      <4>2. QED
        BY <4>1, LoopSteps DEF CycleOf
    <3>4. QED
      BY <3>1, <3>2, <3>3, LoopMoves
  <2>3. ASSUME NEW l \in Loop, Begin(l) PROVE LoopTyped'
    <3>1. PICK r \in Reading : deriv' = [deriv EXCEPT ![clock] = r]
      BY <2>3 DEF Begin
    <3>2. clock \in Second
      BY DEF LoopTyped, FileTypes
    <3>3. FileTypes' /\ FilesKept
      BY <2>3, <3>1, <3>2 DEF Begin, LoopTyped, FileTypes, FilesKept, Second
    <3>4. LoopTypes' /\ OthersKept(l)
      BY <2>3, <3>2, LoopSteps, LoopConstants DEF Begin, Step, LoopTyped, LoopTypes, posting,
         OthersKept
    <3>5. CycleOf(l)'
      <4>1. pc'[l] = "score15m" /\ ts'[l] = clock /\ deriv'[clock] = r
        BY <2>3, <3>1, <3>2 DEF Begin, Step, LoopTyped, LoopTypes, FileTypes
      <4>2. QED
        BY <3>2, <4>1, LoopSteps DEF CycleOf
    <3>6. QED
      BY <3>3, <3>4, <3>5, LoopMoves
  <2>4. ASSUME NEW l \in Loop, NEW tf \in Timeframe, EmitScore(l, tf) PROVE LoopTyped'
    <3>1. pc[l] \in Working /\ pc[l] = ScoreStep(tf) /\ pc' = [pc EXCEPT ![l] = WriteStep(tf)]
      BY <2>4, LoopSteps DEF EmitScore, Step, ScoreStep
    <3>2. PICK x \in Legs : leg' = [leg EXCEPT ![l] = x]
      BY <2>4, <3>1, ScoredType, LoopConstants DEF EmitScore
    <3>3. PICK t \in Second, oi \in Nat : t = ts[l] /\ oi = deriv[ts[l]].oi
      <4>1. PICK bar \in Bar[tf] : TRUE
        BY <2>4 DEF EmitScore
      <4>2. QED
        BY <3>1, <4>1, ScoredType
    <3>4. FileTypes' /\ FilesKept
      <4>1. prevOI' = [prevOI EXCEPT ![tf] = [at |-> t, oi |-> oi]] /\ t \in Times
        BY <2>4, <3>3, LoopConstants DEF EmitScore
      <4>2. prevOI' \in [Timeframe -> [at: Times, oi: Nat]]
        BY <4>1 DEF LoopTyped, FileTypes
      <4>3. QED
        BY <2>4, <4>2 DEF EmitScore, LoopTyped, FileTypes, FilesKept, Second
    <3>5. LoopTypes' /\ OthersKept(l)
      <4>1. scored' \in SUBSET (Timeframe \X Times \X Second)
        BY <2>4, <3>3 DEF EmitScore, LoopTyped, LoopTypes, FileTypes
      <4>2. WriteStep(tf) \in Steps
        BY LoopSteps DEF WriteStep, Steps
      <4>3. QED
        BY <2>4, <3>1, <3>2, <4>1, <4>2 DEF EmitScore, posting, LoopTyped, LoopTypes, OthersKept
    <3>6. CycleOf(l)'
      <4>1. pc'[l] = WriteStep(tf) /\ leg'[l] = x /\ ts' = ts /\ deriv' = deriv /\ event' = event
        BY <2>4, <3>1, <3>2 DEF EmitScore, LoopTyped, LoopTypes
      <4>2. CycleOf(l)
        BY DEF LoopTyped
      <4>3. QED
        BY <3>1, <4>1, <4>2, LoopSteps DEF CycleOf, ScoreStep, WriteStep
    <3>7. QED
      BY <3>4, <3>5, <3>6, LoopMoves
  <2>5. ASSUME NEW l \in Loop, NEW tf \in Timeframe, EmitWrite(l, tf) PROVE LoopTyped'
    <3>1. pc[l] = WriteStep(tf) /\ pc' = [pc EXCEPT ![l] = AfterWrite(tf)] /\ pc[l] \in Working
      BY <2>5, LoopSteps DEF EmitWrite, Step, WriteStep
    <3>2. PICK t \in Second, x \in Legs : t = ts[l] /\ x = leg[l]
      BY <3>1 DEF LoopTyped, CycleOf, WriteStep
    <3>3. /\ event' \in [Second -> [Timeframe -> Legs \cup {Null}]]
          /\ event'[t][tf] = x
          /\ \A u \in Second, f \in Timeframe : u # t \/ f # tf => event'[u][f] = event[u][f]
      BY <2>5, <3>2 DEF EmitWrite, LoopTyped, FileTypes
    <3>4. FileTypes' /\ FilesKept
      BY <2>5, <3>3 DEF EmitWrite, LoopTyped, FileTypes, FilesKept, Second
    <3>5. LoopTypes' /\ OthersKept(l)
      <4>1. AfterWrite(tf) \in Steps
        BY DEF AfterWrite, Steps
      <4>2. QED
        BY <2>5, <3>1, <4>1 DEF EmitWrite, posting, LoopTyped, LoopTypes, OthersKept
    <3>6. CycleOf(l)'
      <4>1. pc'[l] = AfterWrite(tf) /\ ts' = ts /\ deriv' = deriv
        BY <2>5, <3>1 DEF EmitWrite, LoopTyped, LoopTypes
      <4>2. CycleOf(l)
        BY DEF LoopTyped
      <4>3. "15m" \in Timeframe /\ "1h" \in Timeframe /\ tf \in {"15m", "1h"}
        BY LoopConstants
      <4>4. QED
        BY <3>1, <3>2, <3>3, <4>1, <4>2, <4>3, LoopSteps DEF CycleOf, WriteStep, AfterWrite
    <3>7. QED
      BY <3>4, <3>5, <3>6, LoopMoves
  <2>6. ASSUME NEW l \in Loop, Summarise(l) PROVE LoopTyped'
    <3>1. /\ pc[l] = "summary" /\ pc' = [pc EXCEPT ![l] = "intent"] /\ CycleOf(l)
          /\ ts[l] \in Second /\ event[ts[l]]["15m"] \in Legs /\ event[ts[l]]["1h"] \in Legs
      BY <2>6, LoopSteps DEF Summarise, Step, LoopTyped, CycleOf
    <3>2. PICK t \in Second, a \in Legs, b \in Legs :
             t = ts[l] /\ a = event[t]["15m"] /\ b = event[t]["1h"]
      BY <3>1
    <3>3. PICK x \in Summaries : x = [item |-> Consensus(a, b), hourly |-> b]
      BY ConsensusAgrees DEF Summaries
    <3>4. summary' = [summary EXCEPT ![t] = x]
      BY <2>6, <3>2, <3>3 DEF Summarise
    <3>5. FileTypes' /\ FilesKept
      <4>1. UNCHANGED <<clock, deriv, prevOI, event, intent, chain>>
        BY <2>6 DEF Summarise
      <4>2. /\ summary' \in [Second -> Summaries \cup {Null}]
            /\ \A u \in Second : summary'[u] \in {summary[u], x}
        BY <3>4 DEF LoopTyped, FileTypes
      <4>3. clock \in Int
        BY DEF LoopTyped, FileTypes, Second
      <4>4. \A u \in Second : summary[u] \in Summaries => summary'[u] \in Summaries
        BY <4>2
      <4>5. FileTypes'
        BY <4>1, <4>2 DEF LoopTyped, FileTypes
      <4>6. QED
        BY <4>1, <4>3, <4>4, <4>5 DEF FilesKept
    <3>6. LoopTypes' /\ OthersKept(l)
      BY <2>6, <3>1, LoopSteps DEF Summarise, local, posting, LoopTyped, LoopTypes, OthersKept,
         Steps
    <3>7. CycleOf(l)'
      <4>1. /\ pc'[l] = "intent" /\ ts' = ts /\ deriv' = deriv /\ event' = event
            /\ summary'[t] = x
        BY <2>6, <3>1, <3>4 DEF Summarise, local, LoopTyped, LoopTypes, FileTypes
      <4>2. QED
        BY <3>1, <3>2, <4>1, LoopSteps DEF CycleOf
    <3>8. QED
      BY <3>5, <3>6, <3>7, LoopMoves
  <2>7. ASSUME NEW l \in Loop, BuildIntent(l) PROVE LoopTyped'
    <3>1. /\ pc[l] = "intent" /\ pc' = [pc EXCEPT ![l] = "dedupe"] /\ CycleOf(l)
          /\ clock > ts[l]
      BY <2>7 DEF BuildIntent, Step, LoopTyped
    <3>2. FileTypes' /\ FilesKept
      <4>1. /\ ts[l] \in Second /\ intent' \in [Second -> Intents \cup {Null}]
            /\ intent'[ts[l]] \in Intents
            /\ \A t \in Second \ {ts[l]} : intent'[t] = intent[t]
        BY <2>7, IntentType
      <4>2. \A t \in Second : intent[t] \in Intents => intent'[t] \in Intents
        BY <4>1
      <4>3. UNCHANGED <<clock, deriv, prevOI, event, summary, chain>> /\ clock \in Int
        BY <2>7 DEF BuildIntent, LoopTyped, FileTypes, Second
      <4>4. QED
        BY <4>1, <4>2, <4>3 DEF LoopTyped, FileTypes, FilesKept
    <3>3. LoopTypes' /\ OthersKept(l)
      BY <2>7, <3>1, LoopSteps DEF BuildIntent, local, posting, LoopTyped, LoopTypes, OthersKept,
         Steps
    <3>4. CycleOf(l)'
      <4>1. ts' = ts /\ deriv' = deriv /\ event' = event /\ summary' = summary /\ clock' = clock
        BY <2>7 DEF BuildIntent, local
      <4>2. pc'[l] = "dedupe" /\ ts[l] \in Int /\ clock \in Int
        BY <3>1 DEF LoopTyped, LoopTypes, FileTypes, Second, Times
      <4>3. intent'[ts[l]] \in Intents
        BY <2>7, IntentType
      <4>4. QED
        BY <3>1, <4>1, <4>2, <4>3, LoopSteps DEF CycleOf
    <3>5. QED
      BY <3>2, <3>3, <3>4, LoopMoves
  <2>8. ASSUME NEW l \in Loop, Dedupe(l) PROVE LoopTyped'
    <3>1. PICK to \in Intended : Step(l, pc[l], to) /\ to \in {"decide", "hash"}
      BY <2>8, LoopSteps DEF Dedupe, Step
    <3>2. pc[l] \in Intended /\ last' = [last EXCEPT ![l] = Null]
      BY <2>8, LoopSteps DEF Dedupe
    <3>3. /\ UNCHANGED <<clock, files, chain, ts, leg, scored>>
          /\ streak' \in Nat /\ failed' \in [Loop -> Nat] /\ overlapped' \in BOOLEAN
      BY <2>8 DEF Dedupe, posting, LoopTyped, LoopTypes
    <3>4. QED
      BY <3>1, <3>2, <3>3, LoopPasses
  <2>9. ASSUME NEW l \in Loop, ReadHash(l) PROVE LoopTyped'
    <3>1. PICK to \in Intended : Step(l, pc[l], to) /\ to = "append"
      BY <2>9, LoopSteps DEF ReadHash, Step
    <3>2. /\ pc[l] \in Intended /\ ts[l] \in Second /\ intent[ts[l]] \in Intents
      BY <2>9, LoopSteps DEF ReadHash, Step, LoopTyped, CycleOf
    <3>3. PICK r \in Row : r.payload.ts = ts[l] /\ last' = [last EXCEPT ![l] = r]
      <4>1. PICK hash \in Seq(Payload) : hash = LastHash(chain)
        BY <2>9, HashType DEF ReadHash
      <4>2. PICK p \in Payload : p = [ts |-> ts[l], intent |-> intent[ts[l]]]
        BY <3>2 DEF Payload
      <4>3. PICK r \in Row : r = [prev |-> hash, payload |-> p]
        BY DEF Row
      <4>4. QED
        BY <2>9, <4>1, <4>2, <4>3 DEF ReadHash
    <3>4. last'[l] = r
      BY <3>3 DEF LoopTyped, LoopTypes
    <3>5. /\ UNCHANGED <<clock, files, chain, ts, leg, scored>>
          /\ streak' \in Nat /\ failed' \in [Loop -> Nat] /\ overlapped' \in BOOLEAN
      BY <2>9 DEF ReadHash, posting, LoopTyped, LoopTypes
    <3>6. QED
      BY <3>1, <3>2, <3>3, <3>4, <3>5, LoopPasses
  <2>10. ASSUME NEW l \in Loop, AppendRow(l) PROVE LoopTyped'
    <3>1. /\ pc[l] = "append" /\ pc' = [pc EXCEPT ![l] = "verify"] /\ CycleOf(l)
          /\ last[l] \in Row
      BY <2>10 DEF AppendRow, Step, LoopTyped, CycleOf
    <3>2. PICK row \in Row \cup {Torn} : row = last[l]
      BY <3>1
    <3>3. chain' \in Seq(Row \cup {Torn})
      BY <2>10, <3>2, AppendProperties DEF AppendRow, LoopTyped, FileTypes
    <3>4. FileTypes' /\ FilesKept
      BY <2>10, <3>3 DEF AppendRow, LoopTyped, FileTypes, files, FilesKept, Second
    <3>5. LoopTypes' /\ OthersKept(l)
      BY <2>10, <3>1, LoopSteps DEF AppendRow, local, posting, LoopTyped, LoopTypes, OthersKept,
         Steps
    <3>6. CycleOf(l)'
      <4>1. pc'[l] = "verify"
        BY <3>1 DEF LoopTyped, LoopTypes
      <4>2. QED
        BY <2>10, <3>1, <4>1, LoopSteps DEF AppendRow, CycleOf, files, local
    <3>7. QED
      BY <3>4, <3>5, <3>6, LoopMoves
  <2>11. ASSUME NEW l \in Loop, Verify(l) \/ ReadStreak(l) \/ Post(l) PROVE LoopTyped'
    <3>1. PICK to \in Intended : Step(l, pc[l], to) /\ to \in {"decide", "post", "answer"}
      BY <2>11, LoopSteps DEF Verify, ReadStreak, Post, Step
    <3>2. pc[l] \in Intended
      BY <2>11, LoopSteps DEF Verify, ReadStreak, Post, Step
    <3>3. /\ UNCHANGED <<clock, files, chain, ts, leg, scored, last>>
          /\ streak' \in Nat /\ failed' \in [Loop -> Nat] /\ overlapped' \in BOOLEAN
      BY <2>11 DEF Verify, ReadStreak, Post, local, posting, LoopTyped, LoopTypes
    <3>4. \E r \in Row \cup {Null} : last' = [last EXCEPT ![l] = r]
      <4>1. last[l] \in Row \cup {Null} /\ last' = [last EXCEPT ![l] = last[l]]
        BY <3>3 DEF LoopTyped, LoopTypes
      <4>2. QED
        BY <4>1
    <3>5. QED
      BY <3>1, <3>2, <3>3, <3>4, LoopPasses
  <2>12. ASSUME NEW l \in Loop, Skip(l) \/ Record(l) \/ Stop(l) PROVE LoopTyped'
    <3>1. PICK to \in {"off", "idle"} : pc' = [pc EXCEPT ![l] = to]
      BY <2>12 DEF Skip, Record, Stop, Step
    <3>2. EndCycle(l) /\ UNCHANGED <<clock, files, scored, overlapped>>
      BY <2>12 DEF Skip, Record, Stop
    <3>3. streak' \in Nat
      BY <2>12 DEF Skip, Record, Stop, posting, LoopTyped, LoopTypes
    <3>4. chain' \in Seq(Row \cup {Torn})
      <4>1. Torn \in Row \cup {Torn}
        OBVIOUS
      <4>2. Append(chain, Torn) \in Seq(Row \cup {Torn})
        BY <4>1, AppendProperties DEF LoopTyped, FileTypes
      <4>3. chain' \in {chain, Append(chain, Torn)}
        BY <2>12 DEF Skip, Record, Stop
      <4>4. QED
        BY <4>2, <4>3 DEF LoopTyped, FileTypes
    <3>5. QED
      BY <3>1, <3>2, <3>3, <3>4, LoopEnds
  <2>13. CASE UNCHANGED vars
    BY <2>13 DEF vars, files, local, posting, LoopTyped, FileTypes, LoopTypes, CycleOf
  <2>14. QED
    BY <2>1, <2>2, <2>3, <2>4, <2>5, <2>6, <2>7, <2>8, <2>9, <2>10, <2>11, <2>12, <2>13 DEF Next
<1>3. QED
  BY <1>1, <1>2, PTL DEF Spec

-----------------------------------------------------------------------------
(* What triggers was agreed on.                                            *)

IntentsInv == \A t \in Second : intent[t] # Null => Sound(intent[t])

(* However loops share and overwrite the files, an intent triggers only    *)
(* long, on the hourly leg's score, an open interest that did not fall far *)
(* and a risk that is not high (sentinel_build_summary, _consensus_stable; *)
(* sentinel_build_execution_intent, _evaluate_trigger).                    *)
THEOREM TriggersAgreed == Sentinel => []TriggersAreAgreed
<1>1. Init => IntentsInv
  BY DEF Init, IntentsInv
<1>2. LoopTyped /\ IntentsInv /\ [Next]_vars => IntentsInv'
  <2> SUFFICES ASSUME LoopTyped, IntentsInv, [Next]_vars PROVE IntentsInv'
    OBVIOUS
  <2>1. ASSUME NEW l \in Loop, BuildIntent(l) PROVE IntentsInv'
    BY <2>1, IntentType DEF IntentsInv
  <2>2. CASE UNCHANGED intent
    BY <2>2 DEF IntentsInv
  <2>3. QED
    BY <2>1, <2>2 DEF Next, vars, files, Tick, StartRun, Begin, EmitScore, EmitWrite, Summarise,
       Dedupe, ReadHash, AppendRow, Verify, Skip, ReadStreak, Post, Record, Stop
<1>3. IntentsInv => TriggersAreAgreed
  BY DEF IntentsInv, Sound, TriggersAreAgreed
<1>4. QED
  BY <1>1, <1>2, <1>3, LoopTypesHold, SentinelRunsLoop, PTL DEF Spec

-----------------------------------------------------------------------------
(* What is posted was audited.                                             *)

Part(n) == SubSeq(chain, 1, n)
(* A loop that passed the audit has its row in a chain that links up to    *)
(* it, or found one of its second, which then is another loop's.           *)
Audited(l) ==
    \/ last[l] = Null /\ overlapped /\ \E i \in Rows : chain[i].payload.ts = ts[l]
    \/ /\ last[l] \in Row /\ last[l].payload.ts = ts[l]
       /\ \E i \in Rows : chain[i] = last[l] /\ Linked(Part(i))
RowOf(l) ==
    /\ pc[l] = "verify" => \E i \in Rows : chain[i] = last[l]
    /\ pc[l] \in {"decide", "post"} => Audited(l)
RowsInv == (\A i \in Rows : chain[i].payload.ts < clock) /\ \A l \in Loop : RowOf(l)

Alone == \A k, l \in Loop : pc[k] # "off" /\ pc[l] # "off" => k = l
\* Up to its append.
Unwritten == Working \ {"verify", "decide", "post", "answer"}
Holding == {"append", "verify", "decide", "post"}
SerialOf(l) ==
    /\ pc[l] \in Unwritten => \A i \in Rows : chain[i].payload.ts < ts[l]
    /\ pc[l] \in Holding /\ last[l] \in Row => last[l].payload.intent = intent[ts[l]]
SerialInv == ~overlapped => Alone /\ \A l \in Loop : SerialOf(l)

Covered(x) ==
    \E i \in Rows :
        /\ chain[i].payload.ts = x.ts
        /\ ~overlapped => chain[i].payload.intent = x.intent
        /\ x.own => Linked(Part(i))
AuditInv == RowsInv /\ SerialInv /\ \A x \in posted : Covered(x)

(* A file that is appended to keeps its parts.                             *)
LEMMA PrefixKept ==
    ASSUME NEW S, NEW c \in Seq(S), NEW x \in S, NEW n \in 0..Len(c)
    PROVE  SubSeq(Append(c, x), 1, n) = SubSeq(c, 1, n)
<1>1. /\ Append(c, x) \in Seq(S) /\ Len(Append(c, x)) = Len(c) + 1
      /\ \A i \in 1..Len(c) : Append(c, x)[i] = c[i]
  BY AppendProperties
<1>2. /\ \A i \in 1..n : c[i] \in S /\ Append(c, x)[i] \in S
      /\ \A i \in 1..n : Append(c, x)[i] = c[i]
  BY <1>1
<1>3. /\ Len(SubSeq(c, 1, n)) = n /\ SubSeq(c, 1, n) \in Seq(S)
      /\ \A i \in 1..n : SubSeq(c, 1, n)[i] = c[i]
  BY <1>2, SubSeqProperties
<1>4. /\ Len(SubSeq(Append(c, x), 1, n)) = n /\ SubSeq(Append(c, x), 1, n) \in Seq(S)
      /\ \A i \in 1..n : SubSeq(Append(c, x), 1, n)[i] = Append(c, x)[i]
  BY <1>1, <1>2, SubSeqProperties
<1>5. QED
  BY <1>2, <1>3, <1>4, SeqEqual

RowsKept == \A i \in Rows : i \in Rows' /\ chain'[i] = chain[i] /\ Part(i)' = Part(i)

LEMMA SameRows ==
    ASSUME chain' = chain
    PROVE  RowsKept /\ Rows' = Rows
BY DEF RowsKept, Rows, Part

LEMMA ChainGrows ==
    ASSUME LoopTyped, NEW line \in Row \cup {Torn}, chain' = Append(chain, line)
    PROVE  /\ RowsKept
           /\ \A i \in Rows' : i \in Rows \/ (chain'[i] = line /\ line # Torn)
           /\ line # Torn => \E i \in Rows' : chain'[i] = line
<1>1. /\ chain \in Seq(Row \cup {Torn}) /\ Len(chain) \in Nat /\ Len(chain') = Len(chain) + 1
      /\ \A i \in 1..Len(chain) : chain'[i] = chain[i]
      /\ chain'[Len(chain) + 1] = line
  BY AppendProperties DEF LoopTyped, FileTypes
<1>2. \A i \in 1..Len(chain) : Part(i)' = Part(i)
  BY <1>1, PrefixKept DEF Part
<1>3. RowsKept
  BY <1>1, <1>2 DEF RowsKept, Rows
<1>4. \A i \in Rows' : i \in Rows \/ (chain'[i] = line /\ line # Torn)
  BY <1>1 DEF Rows
<1>5. line # Torn => \E i \in Rows' : chain'[i] = line
  BY <1>1 DEF Rows
<1>6. QED
  BY <1>3, <1>4, <1>5

(* A step that only one loop takes.                                        *)
LEMMA AuditMoves ==
    ASSUME LoopTyped, AuditInv, NEW l \in Loop, RowsKept, OthersKept(l),
           clock \in Int /\ clock' \in Int /\ clock' >= clock, overlapped => overlapped',
           ~overlapped' => \A q \in Loop \ {l} : pc[q] = "off",
           \A i \in Rows' : i \in Rows \/ chain'[i].payload.ts < clock',
           \A x \in posted' : x \in posted \/ Covered(x)',
           RowOf(l)', ~overlapped' => SerialOf(l)'
    PROVE  AuditInv'
<1>1. \A i \in Rows' : chain'[i].payload.ts < clock'
  <2>1. \A i \in Rows : chain[i].payload.ts \in Int
    BY DEF LoopTyped, FileTypes, Rows, Row, Payload, Second
  <2>2. QED
    BY <2>1 DEF AuditInv, RowsInv, RowsKept
<1>2. ASSUME NEW q \in Loop \ {l} PROVE RowOf(q)'
  <2>1. pc'[q] = pc[q] /\ ts'[q] = ts[q] /\ last'[q] = last[q] /\ RowOf(q)
    BY DEF OthersKept, AuditInv, RowsInv
  <2>2. Audited(q) => Audited(q)'
    BY <2>1 DEF Audited, RowsKept
  <2>3. QED
    BY <2>1, <2>2 DEF RowOf, RowsKept
<1>3. RowsInv'
  BY <1>1, <1>2 DEF RowsInv
<1>4. SerialInv'
  <2> SUFFICES ASSUME ~overlapped' PROVE Alone' /\ \A q \in Loop : SerialOf(q)'
    BY DEF SerialInv
  <2>1. \A q \in Loop \ {l} : pc'[q] = "off"
    BY DEF OthersKept
  <2>2. \A q \in Loop \ {l} : SerialOf(q)'
    BY <2>1, LoopSteps DEF SerialOf, Unwritten, Holding
  <2>3. QED
    BY <2>1, <2>2 DEF Alone
<1>5. \A x \in posted : Covered(x)'
  BY DEF AuditInv, Covered, RowsKept
<1>6. QED
  BY <1>3, <1>4, <1>5 DEF AuditInv

(* A step off the audit's path: it audits nothing and posts nothing.       *)
LEMMA AuditPasses ==
    ASSUME LoopTyped, AuditInv, NEW l \in Loop, NEW to \in Steps \ Holding,
           pc' = [pc EXCEPT ![l] = to], OthersKept(l),
           to \in Unwritten => pc[l] \in Unwritten /\ ts'[l] = ts[l],
           chain' = chain \/ (chain' = Append(chain, Torn) /\ to = "off"),
           ~overlapped' => \A q \in Loop \ {l} : pc[q] = "off",
           clock' = clock, overlapped => overlapped', \A x \in posted' : x \in posted \/ Covered(x)'
    PROVE  AuditInv'
<1>1. RowsKept /\ \A i \in Rows' : i \in Rows
  <2>1. CASE chain' = chain
    BY <2>1, SameRows
  <2>2. CASE chain' = Append(chain, Torn)
    <3>1. Torn \in Row \cup {Torn}
      OBVIOUS
    <3>2. QED
      BY <2>2, <3>1, ChainGrows
  <2>3. QED
    BY <2>1, <2>2
<1>2. pc'[l] = to
  BY DEF LoopTyped, LoopTypes
<1>3. RowOf(l)'
  BY <1>2 DEF RowOf, Holding
<1>4. ~overlapped' => SerialOf(l)'
  <2> SUFFICES ASSUME ~overlapped' PROVE SerialOf(l)'
    OBVIOUS
  <2>1. ~overlapped /\ SerialOf(l)
    BY DEF AuditInv, SerialInv
  <2>2. QED
    BY <1>1, <1>2, <2>1 DEF SerialOf, RowsKept
<1>5. clock \in Int
  BY DEF LoopTyped, FileTypes, Second
<1>6. QED
  BY <1>1, <1>3, <1>4, <1>5, AuditMoves

LEMMA Apart ==
    ASSUME AuditInv, NEW l \in Loop, pc[l] # "off", ~overlapped
    PROVE  \A q \in Loop \ {l} : pc[q] = "off"
BY DEF AuditInv, SerialInv, Alone

LEMMA OffPath ==
    /\ {"off", "idle", "score15m", "write15m", "score1h", "write1h", "summary", "intent",
        "dedupe", "hash", "answer"} \subseteq Steps \ Holding
    /\ {"score15m", "write15m", "score1h", "write1h", "summary", "intent", "dedupe", "hash",
        "append"} \subseteq Unwritten
    /\ Unwritten \cap {"off", "idle", "verify", "decide", "post", "answer"} = {}
BY DEF Steps, Holding, Unwritten, Working

LEMMA AuditHolds == Spec => []AuditInv
<1>1. Init => AuditInv
  <2> SUFFICES ASSUME Init PROVE AuditInv
    OBVIOUS
  <2>1. Rows = {} /\ posted = {} /\ \A l \in Loop : pc[l] = "off"
    BY DEF Init, Rows
  <2>2. QED
    BY <2>1, OffPath DEF AuditInv, RowsInv, RowOf, SerialInv, SerialOf, Alone, Holding
<1>2. LoopTyped /\ LoopTyped' /\ AuditInv /\ [Next]_vars => AuditInv'
  <2> SUFFICES ASSUME LoopTyped, LoopTyped', AuditInv, [Next]_vars PROVE AuditInv'
    OBVIOUS
  <2>1. CASE Tick
    <3>1. /\ UNCHANGED <<chain, posted, pc, ts, last, intent, overlapped>> /\ clock' = clock + 1
          /\ clock \in Int /\ Rows' = Rows
      BY <2>1 DEF Tick, files, posting, local, LoopTyped, FileTypes, Second, Rows
    <3>2. \A i \in Rows : chain[i].payload.ts \in Int
      BY DEF LoopTyped, FileTypes, Rows, Row, Payload, Second
    <3>3. RowsInv'
      <4>1. \A l \in Loop : Audited(l) => Audited(l)'
        BY <3>1 DEF Audited, Part
      <4>2. QED
        BY <3>1, <3>2, <4>1 DEF AuditInv, RowsInv, RowOf
    <3>4. SerialInv' /\ \A x \in posted' : Covered(x)'
      BY <3>1 DEF AuditInv, SerialInv, SerialOf, Alone, Covered, Part
    <3>5. QED
      BY <3>3, <3>4 DEF AuditInv
  <2>2. ASSUME NEW l \in Loop, StartRun(l) PROVE AuditInv'
    <3>1. /\ pc' = [pc EXCEPT ![l] = "idle"] /\ OthersKept(l)
          /\ UNCHANGED <<clock, chain, posted>>
          /\ overlapped => overlapped'
          /\ ~overlapped' => \A q \in Loop \ {l} : pc[q] = "off"
      BY <2>2 DEF StartRun, Step, local, posting, OthersKept, LoopTyped, LoopTypes
    <3>2. PICK to \in Steps \ Holding : to = "idle" /\ to \notin Unwritten
      BY OffPath
    <3>3. QED
      BY <3>1, <3>2, AuditPasses
  <2>3. ASSUME NEW l \in Loop, Begin(l) PROVE AuditInv'
    <3>1. /\ pc[l] = "idle" /\ pc'[l] = "score15m" /\ ts'[l] = clock /\ OthersKept(l)
          /\ UNCHANGED <<clock, chain, posted, overlapped>>
      BY <2>3 DEF Begin, Step, posting, OthersKept, LoopTyped, LoopTypes
    <3>2. RowsKept /\ Rows' = Rows /\ clock \in Int
      BY <3>1, SameRows DEF LoopTyped, FileTypes, Second
    <3>3. RowOf(l)'
      BY <3>1 DEF RowOf
    <3>4. SerialOf(l)'
      BY <3>1, <3>2 DEF SerialOf, Holding, AuditInv, RowsInv
    <3>5. QED
      BY <3>1, <3>2, <3>3, <3>4, AuditMoves, Apart
  <2>4. ASSUME NEW l \in Loop, NEW tf \in Timeframe, EmitScore(l, tf) \/ EmitWrite(l, tf)
        PROVE  AuditInv'
    <3>1. PICK to \in {"write15m", "write1h", "score1h", "summary"} :
              /\ pc' = [pc EXCEPT ![l] = to]
              /\ pc[l] \in {"score15m", "score1h", "write15m", "write1h"}
      BY <2>4 DEF EmitScore, EmitWrite, Step, ScoreStep, WriteStep, AfterWrite
    <3>2. OthersKept(l) /\ UNCHANGED <<clock, chain, posted, overlapped, ts>>
      BY <2>4, <3>1 DEF EmitScore, EmitWrite, posting, OthersKept, LoopTyped, LoopTypes
    <3>3. QED
      BY <3>1, <3>2, AuditPasses, Apart, OffPath
  <2>5. ASSUME NEW l \in Loop, Summarise(l) \/ BuildIntent(l) PROVE AuditInv'
    <3>1. PICK to \in {"intent", "dedupe"} :
              pc' = [pc EXCEPT ![l] = to] /\ pc[l] \in {"summary", "intent"}
      BY <2>5 DEF Summarise, BuildIntent, Step
    <3>2. OthersKept(l) /\ UNCHANGED <<clock, chain, posted, overlapped, ts>>
      BY <2>5, <3>1 DEF Summarise, BuildIntent, local, posting, OthersKept, LoopTyped, LoopTypes
    <3>3. QED
      BY <3>1, <3>2, AuditPasses, Apart, OffPath
  <2>6. ASSUME NEW l \in Loop, Dedupe(l) PROVE AuditInv'
    <3>1. /\ pc[l] = "dedupe" /\ OthersKept(l) /\ last'[l] = Null
          /\ UNCHANGED <<clock, chain, posted, overlapped, ts>>
          /\ ~overlapped => \A q \in Loop \ {l} : pc[q] = "off"
      BY <2>6, Apart DEF Dedupe, Step, posting, OthersKept, LoopTyped, LoopTypes
    <3>2. CASE LastAppended = ts[l]
      <4>1. pc'[l] = "decide"
        BY <2>6, <3>2 DEF Dedupe, Step, LoopTyped, LoopTypes
      <4>2. ts[l] \in Nat \ {0}
        BY <3>1, LoopSteps DEF LoopTyped, CycleOf, Second
      <4>3. PICK i \in Rows : chain[i].payload.ts = ts[l]
        <5>1. Rows # {} /\ chain[Max(Rows)].payload.ts = ts[l]
          BY <3>2, <4>2 DEF LastAppended
        <5>2. Rows \in SUBSET (0..Len(chain)) /\ Len(chain) \in Nat
          BY DEF Rows, LoopTyped, FileTypes
        <5>3. QED
          BY <5>1, <5>2, Greatest
      \* Its second is older than any row's that another loop has not written.
      <4>4. overlapped
        <5>1. SUFFICES ASSUME ~overlapped PROVE FALSE
          OBVIOUS
        <5>2. chain[i].payload.ts < ts[l]
          BY <3>1, <5>1, OffPath DEF AuditInv, SerialInv, SerialOf
        <5>3. QED
          BY <4>2, <4>3, <5>2
      <4>5. RowsKept /\ Rows' = Rows /\ clock \in Int
        BY <3>1, SameRows DEF LoopTyped, FileTypes, Second
      <4>6. RowOf(l)'
        BY <3>1, <4>1, <4>3, <4>4, <4>5 DEF RowOf, Audited
      <4>7. QED
        BY <3>1, <4>4, <4>5, <4>6, AuditMoves
    <3>3. CASE LastAppended # ts[l]
      <4>1. pc' = [pc EXCEPT ![l] = "hash"]
        BY <2>6, <3>3 DEF Dedupe, Step
      <4>2. QED
        BY <3>1, <4>1, AuditPasses, OffPath
    <3>4. QED
      BY <3>2, <3>3
  <2>7. ASSUME NEW l \in Loop, ReadHash(l) PROVE AuditInv'
    <3>1. /\ pc[l] = "hash" /\ pc'[l] = "append" /\ OthersKept(l)
          /\ last'[l].payload.intent = intent'[ts'[l]]
          /\ UNCHANGED <<clock, chain, posted, overlapped, ts>>
      BY <2>7 DEF ReadHash, Step, files, posting, OthersKept, LoopTyped, LoopTypes
    <3>2. RowsKept /\ Rows' = Rows /\ clock \in Int
      BY <3>1, SameRows DEF LoopTyped, FileTypes, Second
    <3>3. RowOf(l)'
      BY <3>1 DEF RowOf
    <3>4. ~overlapped => SerialOf(l)'
      BY <3>1, <3>2, OffPath DEF SerialOf, AuditInv, SerialInv
    <3>5. QED
      BY <3>1, <3>2, <3>3, <3>4, AuditMoves, Apart
  <2>8. ASSUME NEW l \in Loop, AppendRow(l) PROVE AuditInv'
    <3>1. /\ pc[l] = "append" /\ pc'[l] = "verify" /\ OthersKept(l)
          /\ chain' = Append(chain, last[l])
          /\ UNCHANGED <<clock, posted, overlapped, ts, last, intent>>
      BY <2>8 DEF AppendRow, Step, files, local, posting, OthersKept, LoopTyped, LoopTypes
    <3>2. /\ last[l] \in Row /\ last[l].payload.ts < clock /\ last[l] # Torn /\ clock \in Int
      BY <3>1, LoopSteps, LoopConstants DEF LoopTyped, CycleOf, FileTypes, Second
    <3>3. PICK row \in Row : row = last[l]
      BY <3>2
    <3>4. /\ RowsKept /\ \A i \in Rows' : i \in Rows \/ chain'[i] = row
          /\ \E i \in Rows' : chain'[i] = row
      BY <3>1, <3>2, <3>3, ChainGrows
    <3>5. RowOf(l)'
      BY <3>1, <3>3, <3>4 DEF RowOf
    <3>6. ~overlapped => SerialOf(l)'
      BY <3>1, OffPath DEF SerialOf, AuditInv, SerialInv, Holding
    <3>7. \A i \in Rows' : i \in Rows \/ chain'[i].payload.ts < clock'
      BY <3>1, <3>2, <3>3, <3>4
    <3>8. /\ RowsKept /\ clock \in Int /\ clock' = clock /\ overlapped' = overlapped
          /\ posted' = posted /\ OthersKept(l)
          /\ ~overlapped => \A q \in Loop \ {l} : pc[q] = "off"
      BY <3>1, <3>2, <3>4, Apart
    <3>9. QED
      BY <3>5, <3>6, <3>7, <3>8, AuditMoves
  <2>9. ASSUME NEW l \in Loop, Verify(l) PROVE AuditInv'
    <3>1. /\ pc[l] = "verify" /\ pc'[l] = "decide" /\ OthersKept(l) /\ Linked(chain)
          /\ UNCHANGED <<clock, chain, posted, overlapped, ts, last, intent>>
      BY <2>9 DEF Verify, Step, files, local, posting, OthersKept, LoopTyped, LoopTypes
    <3>2. RowsKept /\ Rows' = Rows /\ clock \in Int
      BY <3>1, SameRows DEF LoopTyped, FileTypes, Second
    <3>3. PICK i \in Rows : chain[i] = last[l]
      BY <3>1 DEF AuditInv, RowsInv, RowOf
    <3>4. last[l] \in Row /\ last[l].payload.ts = ts[l]
      BY <3>1 DEF LoopTyped, CycleOf
    <3>5. Linked(Part(i))
      <4>1. chain \in Seq(Row \cup {Torn}) /\ i \in 1..Len(chain)
        BY DEF LoopTyped, FileTypes, Rows
      <4>2. \A k \in 1..i : chain[k] \in Row \cup {Torn}
        BY <4>1
      <4>3. Len(Part(i)) = i /\ \A k \in 1..i : Part(i)[k] = chain[k]
        BY <4>1, <4>2, SubSeqProperties DEF Part
      <4>4. QED
        BY <3>1, <4>1, <4>3 DEF Linked, LinkedAt
    <3>6. RowOf(l)'
      <4>1. Linked(Part(i))'
        BY <3>1, <3>5 DEF Part
      <4>2. QED
        BY <3>1, <3>2, <3>3, <3>4, <4>1 DEF RowOf, Audited
    <3>7. ~overlapped => SerialOf(l)'
      BY <3>1, OffPath DEF SerialOf, AuditInv, SerialInv, Holding
    <3>8. QED
      BY <3>1, <3>2, <3>6, <3>7, AuditMoves, Apart
  <2>10. ASSUME NEW l \in Loop, ReadStreak(l) PROVE AuditInv'
    <3>1. /\ pc[l] = "decide" /\ pc'[l] = "post" /\ OthersKept(l)
          /\ UNCHANGED <<clock, chain, posted, overlapped, ts, last, intent>>
      BY <2>10 DEF ReadStreak, Step, files, posting, OthersKept, LoopTyped, LoopTypes
    <3>2. RowsKept /\ Rows' = Rows /\ clock \in Int
      BY <3>1, SameRows DEF LoopTyped, FileTypes, Second
    <3>3. RowOf(l)'
      BY <3>1, <3>2 DEF RowOf, Audited, Part, AuditInv, RowsInv
    <3>4. ~overlapped => SerialOf(l)'
      BY <3>1, OffPath DEF SerialOf, AuditInv, SerialInv, Holding
    <3>5. QED
      BY <3>1, <3>2, <3>3, <3>4, AuditMoves, Apart
  <2>11. ASSUME NEW l \in Loop, Post(l) PROVE AuditInv'
    <3>1. /\ pc[l] = "post" /\ pc' = [pc EXCEPT ![l] = "answer"] /\ OthersKept(l)
          /\ UNCHANGED <<clock, chain, overlapped, ts, last, intent>>
      BY <2>11 DEF Post, Step, files, OthersKept, LoopTyped, LoopTypes
    <3>2. PICK x : x = [ts |-> ts[l], intent |-> intent[ts[l]], own |-> last[l] # Null]
      OBVIOUS
    <3>3. /\ x.ts = ts[l] /\ x.intent = intent[ts[l]] /\ (x.own <=> last[l] # Null)
          /\ posted' = posted \cup {x}
      BY <2>11, <3>2 DEF Post
    <3>4. Covered(x)
      <4>1. CASE last[l] = Null /\ overlapped /\ \E i \in Rows : chain[i].payload.ts = ts[l]
        BY <3>3, <4>1 DEF Covered
      <4>2. CASE /\ last[l] \in Row /\ last[l].payload.ts = ts[l]
                 /\ \E i \in Rows : chain[i] = last[l] /\ Linked(Part(i))
        <5>1. ~overlapped => last[l].payload.intent = intent[ts[l]]
          BY <3>1, <4>2 DEF AuditInv, SerialInv, SerialOf, Holding
        <5>2. QED
          BY <3>3, <4>2, <5>1 DEF Covered
      <4>3. QED
        BY <3>1, <4>1, <4>2 DEF AuditInv, RowsInv, RowOf, Audited
    <3>5. Covered(x)'
      BY <3>1, <3>4 DEF Covered, Part, Rows
    <3>6. QED
      BY <3>1, <3>3, <3>5, AuditPasses, Apart, OffPath
  <2>12. ASSUME NEW l \in Loop, Skip(l) \/ Record(l) \/ Stop(l) PROVE AuditInv'
    <3>1. PICK to \in {"off", "idle"} :
              /\ pc' = [pc EXCEPT ![l] = to] /\ pc[l] # "off"
              /\ chain' = chain \/ (chain' = Append(chain, Torn) /\ to = "off")
      BY <2>12 DEF Skip, Record, Stop, Step
    <3>2. OthersKept(l) /\ UNCHANGED <<clock, posted, overlapped>>
      BY <2>12, <3>1 DEF Skip, Record, Stop, EndCycle, posting, OthersKept, LoopTyped, LoopTypes
    <3>3. QED
      BY <3>1, <3>2, AuditPasses, Apart, OffPath
  <2>13. CASE UNCHANGED vars
    BY <2>13 DEF vars, files, local, posting, AuditInv, RowsInv, RowOf, Audited, SerialInv,
       SerialOf, Alone, Covered, Part, Rows
  <2>14. QED
    BY <2>1, <2>2, <2>3, <2>4, <2>5, <2>6, <2>7, <2>8, <2>9, <2>10, <2>11, <2>12, <2>13 DEF Next
<1>3. QED
  BY <1>1, <1>2, LoopTypesHold, PTL DEF Spec

(* Whatever is posted was appended to the audit chain first, by a loop     *)
(* that verified every row up to its own, or, where loops share a second,  *)
(* by one of them (run_sentinel_live_loop.sh; core/audit_chain).           *)
THEOREM PostsAudited == Sentinel => []PostsAreAudited
<1>1. AuditInv => PostsAreAudited
  BY DEF AuditInv, Covered, Part, PostsAreAudited
<1>2. QED
  BY <1>1, AuditHolds, SentinelRunsLoop, PTL

-----------------------------------------------------------------------------
(* No two readings are compared twice.                                     *)

MovesOf(l) ==
    /\ pc[l] = "score15m" => \A tf \in Timeframe : prevOI[tf].at <= ts[l]
    /\ pc[l] \in {"write15m", "score1h"} => prevOI["1h"].at <= ts[l]
Apiece ==
    \A a, b \in scored : a[1] = b[1] => a = b \/ a[3] <= b[2] \/ b[3] <= a[2]
Latest == \A a \in scored : a[3] <= prevOI[a[1]].at
MovesInv ==
    /\ \A tf \in Timeframe : prevOI[tf].at <= clock
    /\ \A l \in Loop : pc[l] \in {"score15m", "write15m", "score1h"} => ts[l] <= clock
    /\ ~overlapped => Apiece /\ Latest /\ \A l \in Loop : MovesOf(l)

(* A step that scores nothing.                                             *)
LEMMA MovesPass ==
    ASSUME MovesInv, NEW l \in Loop, NEW to \in Steps, pc' = [pc EXCEPT ![l] = to],
           pc \in [Loop -> Steps],
           \A q \in Loop \ {l} : ts'[q] = ts[q],
           to \notin {"score15m", "write15m"},
           to = "score1h" => pc[l] = "write15m" /\ ts'[l] = ts[l],
           UNCHANGED <<clock, prevOI, scored>>, overlapped => overlapped'
    PROVE  MovesInv'
<1>1. pc'[l] = to /\ \A q \in Loop \ {l} : pc'[q] = pc[q]
  OBVIOUS
<1>2. \A q \in Loop : pc'[q] \in {"score15m", "write15m", "score1h"}
        => ts'[q] = ts[q] /\ pc[q] \in {"score15m", "write15m", "score1h"}
           /\ (pc'[q] = "score15m" => pc[q] = "score15m")
           /\ (pc'[q] \in {"write15m", "score1h"} => pc[q] \in {"write15m", "score1h"})
  BY <1>1
<1>3. QED
  BY <1>2 DEF MovesInv, MovesOf, Apiece, Latest

(* Loops that do not overlap compare no two readings twice, wherever a     *)
(* cycle of theirs ends (sentinel_emit_domain_event, main).                *)
THEOREM MovesScoredOnce == Sentinel => []SerialMovesScoredOnce
<1>1. Init => MovesInv
  BY LoopConstants DEF Init, MovesInv, MovesOf, Apiece, Latest, NoReading
<1>2. LoopTyped /\ AuditInv /\ MovesInv /\ [Next]_vars => MovesInv'
  <2> SUFFICES ASSUME LoopTyped, AuditInv, MovesInv, [Next]_vars PROVE MovesInv'
    OBVIOUS
  <2>1. /\ clock \in Int /\ \A tf \in Timeframe : prevOI[tf].at \in Int
        /\ \A l \in Loop : ts[l] \in Int
        /\ \A a \in scored : a[1] \in Timeframe /\ a[2] \in Int /\ a[3] \in Int
        /\ "1h" \in Timeframe /\ "15m" \in Timeframe /\ Timeframe = {"15m", "1h"}
        /\ pc \in [Loop -> Steps]
    BY LoopConstants DEF LoopTyped, FileTypes, LoopTypes, Second, Times, Timeframe
  <2>2. CASE Tick
    BY <2>1, <2>2 DEF Tick, files, local, MovesInv, MovesOf, Apiece, Latest
  <2>3. ASSUME NEW l \in Loop, StartRun(l) PROVE MovesInv'
    <3>1. PICK to \in Steps : to = "idle"
      BY LoopSteps
    <3>2. QED
      BY <2>1, <2>3, <3>1, MovesPass DEF StartRun, Step, files, local
  <2>4. ASSUME NEW l \in Loop, Begin(l) PROVE MovesInv'
    <3>1. /\ pc'[l] = "score15m" /\ ts'[l] = clock
          /\ \A q \in Loop \ {l} : pc'[q] = pc[q] /\ ts'[q] = ts[q]
          /\ UNCHANGED <<clock, prevOI, scored, overlapped>>
      BY <2>4 DEF Begin, Step, LoopTyped, LoopTypes
    <3>2. QED
      BY <2>1, <3>1 DEF MovesInv, MovesOf, Apiece, Latest
  <2>5. ASSUME NEW l \in Loop, NEW tf \in Timeframe, EmitScore(l, tf) PROVE MovesInv'
    <3>1. /\ pc[l] = ScoreStep(tf) /\ pc'[l] = WriteStep(tf)
          /\ \A q \in Loop \ {l} : pc'[q] = pc[q]
          /\ prevOI'[tf].at = ts[l] /\ \A f \in Timeframe \ {tf} : prevOI'[f] = prevOI[f]
          /\ scored' = scored \cup {<<tf, prevOI[tf].at, ts[l]>>}
          /\ UNCHANGED <<clock, ts, overlapped>>
      BY <2>5 DEF EmitScore, Step, LoopTyped, LoopTypes, FileTypes
    <3>2. ts[l] <= clock
      BY <2>1, <3>1 DEF MovesInv, ScoreStep
    <3>3. /\ \A f \in Timeframe : prevOI'[f].at <= clock'
          /\ \A q \in Loop : pc'[q] \in {"score15m", "write15m", "score1h"} => ts'[q] <= clock'
      BY <2>1, <3>1, <3>2 DEF MovesInv, WriteStep
    <3>4. SUFFICES ASSUME ~overlapped PROVE Apiece' /\ Latest' /\ \A q \in Loop : MovesOf(q)'
      BY <3>1, <3>3 DEF MovesInv
    <3>5. Apiece /\ Latest /\ MovesOf(l)
      BY <3>4 DEF MovesInv
    <3>6. prevOI[tf].at <= ts[l]
      BY <2>1, <3>1, <3>5 DEF MovesOf, ScoreStep
    <3>7. PICK new : new = <<tf, prevOI[tf].at, ts[l]>>
      OBVIOUS
    <3>8. /\ new[1] = tf /\ new[2] = prevOI[tf].at /\ new[3] = ts[l]
          /\ scored' = scored \cup {new}
      BY <3>1, <3>7
    <3>9. \A a \in scored : a[1] = tf => a[3] <= new[2]
      BY <3>5, <3>8 DEF Latest
    <3>10. Apiece'
      BY <3>5, <3>8, <3>9 DEF Apiece
    <3>11. Latest'
      <4>1. \A a \in scored : a[3] <= prevOI'[a[1]].at
        BY <2>1, <3>1, <3>5, <3>6 DEF Latest
      <4>2. QED
        BY <2>1, <3>1, <3>8, <4>1 DEF Latest
    <3>12. \A q \in Loop \ {l} : pc'[q] = "off"
      <4>1. pc[l] # "off"
        BY <3>1 DEF ScoreStep
      <4>2. QED
        BY <3>1, <3>4, <4>1, Apart
    <3>13. MovesOf(l)'
      <4>1. CASE tf = "15m"
        BY <2>1, <3>1, <3>2, <3>5, <4>1 DEF MovesOf, ScoreStep, WriteStep
      <4>2. CASE tf = "1h"
        BY <2>1, <3>1, <4>2 DEF MovesOf, WriteStep
      <4>3. QED
        BY <2>1, <4>1, <4>2
    <3>14. QED
      BY <3>10, <3>11, <3>12, <3>13 DEF MovesOf
  <2>6. ASSUME NEW l \in Loop, NEW tf \in Timeframe, EmitWrite(l, tf) PROVE MovesInv'
    <3>1. PICK to \in Steps : to = AfterWrite(tf) /\ to \in {"score1h", "summary"}
      BY LoopSteps DEF AfterWrite
    <3>2. /\ pc' = [pc EXCEPT ![l] = to] /\ (to = "score1h" => pc[l] = "write15m")
          /\ UNCHANGED <<clock, prevOI, scored, overlapped, ts>>
      BY <2>6, <3>1 DEF EmitWrite, Step, WriteStep, AfterWrite
    <3>3. QED
      BY <2>1, <3>1, <3>2, MovesPass
  <2>7. ASSUME NEW l \in Loop,
               \/ Summarise(l) \/ BuildIntent(l) \/ Dedupe(l) \/ ReadHash(l)
               \/ AppendRow(l) \/ Verify(l) \/ ReadStreak(l) \/ Post(l)
        PROVE  MovesInv'
    <3>1. PICK to \in {"intent", "dedupe", "decide", "hash", "append", "verify", "post",
                       "answer"} : pc' = [pc EXCEPT ![l] = to]
      BY <2>7 DEF Summarise, BuildIntent, Dedupe, ReadHash, AppendRow, Verify, ReadStreak, Post,
         Step
    <3>2. UNCHANGED <<clock, prevOI, scored, overlapped, ts>>
      BY <2>7 DEF Summarise, BuildIntent, Dedupe, ReadHash, AppendRow, Verify, ReadStreak, Post,
         files, local
    <3>3. to \in Steps
      BY DEF Steps
    <3>4. QED
      BY <2>1, <3>1, <3>2, <3>3, MovesPass
  <2>8. ASSUME NEW l \in Loop, Skip(l) \/ Record(l) \/ Stop(l) PROVE MovesInv'
    <3>1. PICK to \in {"off", "idle"} : pc' = [pc EXCEPT ![l] = to]
      BY <2>8 DEF Skip, Record, Stop, Step
    <3>2. /\ UNCHANGED <<clock, prevOI, scored, overlapped>>
          /\ \A q \in Loop \ {l} : ts'[q] = ts[q]
      BY <2>8 DEF Skip, Record, Stop, EndCycle, files, LoopTyped, LoopTypes
    <3>3. to \in Steps
      BY DEF Steps
    <3>4. QED
      BY <2>1, <3>1, <3>2, <3>3, MovesPass
  <2>9. CASE UNCHANGED vars
    BY <2>9 DEF vars, files, local, MovesInv, MovesOf, Apiece, Latest
  <2>10. QED
    BY <2>2, <2>3, <2>4, <2>5, <2>6, <2>7, <2>8, <2>9 DEF Next
<1>3. MovesInv => SerialMovesScoredOnce
  BY DEF MovesInv, Apiece, SerialMovesScoredOnce
<1>4. QED
  BY <1>1, <1>2, <1>3, LoopTypesHold, AuditHolds, SentinelRunsLoop, PTL DEF Spec

-----------------------------------------------------------------------------
(* The local replay.  Its records carry what they tell of: the run, the    *)
(* kind and what was recorded.                                             *)

Verdicts == {Replays!Decide(d) : d \in ModelAnswer}
Note == [run: Replay, kind: {"snapshot", "dry", "gate"},
         content: ModelAnswer \cup Verdicts \cup {Null}]
Line == [prev: Seq(Note), payload: Note]
AuditHand == [n: 1..3, prev: Seq(Note), snapshot: {Null}, dry: ModelAnswer, gate: Verdicts]
Held == ModelAnswer \cup Verdicts \cup AuditHand \cup {Null}
Stages == {"new", "dry", "norm", "gate", "audit", "done"}
Phases == {"read", "open", "write", "last", "append"}

ReplayTyped ==
    /\ made \in [Replay -> ModelAnswer \cup {Null}]
    /\ at \in [Replay -> Stages]
    /\ phase \in [Replay -> Phases]
    /\ hand \in [Replay -> Held]
    /\ results \in [{"dry", "norm", "gate"} -> ModelAnswer \cup Verdicts \cup {Null, Torn}]
    /\ audit \in Seq(Line \cup {Torn})
    /\ auditCut \in BOOLEAN
    /\ auditCut => audit # <<>>
    /\ replaysOverlapped \in BOOLEAN

(* What the model gave to some replay, and the policy's verdicts on that.  *)
Given == {made[r] : r \in Replay} \ {Null}
Judged == {Replays!Decide(d) : d \in Given}

PlaceOf(r) ==
    /\ at[r] \in {"new", "done"} => phase[r] = "read"
    /\ at[r] \in {"dry", "norm", "gate"} => phase[r] \in {"read", "open", "write"}
    /\ at[r] = "audit" => phase[r] \in {"read", "last", "append"}

(* What a stage holds was given, or judged of what was given; and a replay *)
(* that is not past its model has no dry run yet.                          *)
HandOf(r) ==
    /\ PlaceOf(r)
    /\ at[r] = "new" => made[r] = Null
    /\ at[r] = "dry" /\ phase[r] = "read" => made[r] = Null
    /\ at[r] \in {"dry", "norm"} /\ phase[r] \in {"open", "write"} => hand[r] \in Given
    /\ at[r] = "gate" /\ phase[r] \in {"open", "write"} => hand[r] \in Judged
    /\ phase[r] \in {"last", "append"} =>
        hand[r] \in AuditHand /\ hand[r].dry \in Given /\ hand[r].gate \in Judged

FilesGiven ==
    /\ results["dry"] \in Given \cup {Null, Torn}
    /\ results["norm"] \in Given \cup {Null, Torn}
    /\ results["gate"] \in Judged \cup {Null, Torn}

(* What a record tells was given or judged, and its run is past its model. *)
NoteOf(x) ==
    /\ x.run \in Replay /\ at[x.run] \in {"audit", "done"}
    /\ x.kind = "dry" => x.content \in Given
    /\ x.kind = "gate" => x.content \in Judged
Noted == \A i \in 1..Len(audit) : audit[i] = Torn \/ NoteOf(audit[i].payload)

ReplayInv == ReplayTyped /\ (\A r \in Replay : HandOf(r)) /\ FilesGiven /\ Noted

(* A step of one replay.                                                   *)
OtherReplays(r) ==
    \A s \in Replay \ {r} :
        at'[s] = at[s] /\ phase'[s] = phase[s] /\ hand'[s] = hand[s] /\ made'[s] = made[s]

(* A step of one replay keeps the invariant where its own part holds: what *)
(* was given stays so.                                                     *)
LEMMA ReplayMoves ==
    ASSUME ReplayInv, NEW r \in Replay, ReplayTyped', OtherReplays(r),
           made[r] = Null \/ made'[r] = made[r],
           HandOf(r)', FilesGiven',
           at[r] \in {"audit", "done"} => at'[r] \in {"audit", "done"},
           \A i \in 1..Len(audit') :
               \/ audit'[i] = Torn
               \/ i \in 1..Len(audit) /\ audit'[i] = audit[i]
               \/ NoteOf(audit[i].payload)'
    PROVE  ReplayInv'
<1>1. Given \subseteq Given' /\ Judged \subseteq Judged'
  BY DEF OtherReplays, Given, Judged
<1>2. ASSUME NEW s \in Replay \ {r} PROVE HandOf(s)'
  BY <1>1, <1>2 DEF ReplayInv, HandOf, PlaceOf, OtherReplays
<1>3. ASSUME NEW x, NoteOf(x) PROVE NoteOf(x)'
  BY <1>1, <1>3 DEF NoteOf, OtherReplays
<1>4. Noted'
  <2> SUFFICES ASSUME NEW i \in 1..Len(audit') 
               PROVE  audit'[i] = Torn \/ NoteOf(audit[i].payload)'
    BY DEF Noted
  <2>1. CASE i \in 1..Len(audit) /\ audit'[i] = audit[i] /\ audit'[i] # Torn
    <3>1. PICK x : x = audit[i].payload
      OBVIOUS
    <3>2. NoteOf(x)
      BY <2>1, <3>1 DEF ReplayInv, Noted
    <3>3. NoteOf(x)'
      BY <3>2, <1>3
    <3>4. x = audit'[i].payload
      BY <2>1, <3>1
    <3>5. QED
      BY <3>3, <3>4 DEF NoteOf, Given, Judged
  <2>2. QED
    BY <2>1
<1>5. QED
  BY <1>2, <1>4 DEF ReplayInv

LEMMA EmptyHistory == <<>> \in Seq(Note)
BY EmptySeq

(* What is read for the audit, what its link is, and what follows.         *)
LEMMA HandGoesOn ==
    /\ \A d \in ModelAnswer, g \in Verdicts :
        [n |-> 1, prev |-> Genesis, snapshot |-> Null, dry |-> d, gate |-> g] \in AuditHand
    /\ \A h \in AuditHand, hash \in Seq(Note) :
        /\ [h EXCEPT !.prev = hash] \in AuditHand
        /\ [h EXCEPT !.prev = hash].dry = h.dry /\ [h EXCEPT !.prev = hash].gate = h.gate
        /\ [h EXCEPT !.prev = hash].n = h.n /\ [h EXCEPT !.prev = hash].prev = hash
    /\ \A h \in AuditHand : h.n # 3 =>
        /\ [h EXCEPT !.n = @ + 1] \in AuditHand
        /\ [h EXCEPT !.n = @ + 1].dry = h.dry /\ [h EXCEPT !.n = @ + 1].gate = h.gate
        /\ [h EXCEPT !.n = @ + 1].n = h.n + 1
<1>1. \A d \in ModelAnswer, g \in Verdicts :
        [n |-> 1, prev |-> Genesis, snapshot |-> Null, dry |-> d, gate |-> g] \in AuditHand
  BY EmptyHistory DEF AuditHand, Genesis
<1>2. ASSUME NEW h \in AuditHand, NEW hash \in Seq(Note)
      PROVE  /\ [h EXCEPT !.prev = hash] \in AuditHand
             /\ [h EXCEPT !.prev = hash].dry = h.dry /\ [h EXCEPT !.prev = hash].gate = h.gate
             /\ [h EXCEPT !.prev = hash].n = h.n /\ [h EXCEPT !.prev = hash].prev = hash
  BY DEF AuditHand
<1>3. ASSUME NEW h \in AuditHand, h.n # 3
      PROVE  /\ [h EXCEPT !.n = @ + 1] \in AuditHand
             /\ [h EXCEPT !.n = @ + 1].dry = h.dry /\ [h EXCEPT !.n = @ + 1].gate = h.gate
             /\ [h EXCEPT !.n = @ + 1].n = h.n + 1
  BY <1>3 DEF AuditHand
<1>4. QED
  BY <1>1, <1>2, <1>3

(* The next record of a replay that appends.                               *)
LEMMA NextRecord ==
    ASSUME ReplayInv, NEW r \in Replay, at[r] = "audit", phase[r] = "append"
    PROVE  /\ Replays!Record(r) \in Line
           /\ NoteOf(Replays!Record(r).payload)
           /\ Replays!Record(r).prev = hand[r].prev
           /\ Replays!Record(r).payload.run = r
           /\ hand[r].n = 1 => Replays!Record(r).payload.kind = "snapshot"
           /\ hand[r].n = 2 => Replays!Record(r).payload.kind = "dry"
                               /\ Replays!Record(r).payload.content = hand[r].dry
           /\ hand[r].n = 3 => Replays!Record(r).payload.kind = "gate"
                               /\ Replays!Record(r).payload.content = hand[r].gate
<1>1. hand[r] \in AuditHand /\ hand[r].dry \in Given /\ hand[r].gate \in Judged
  BY DEF ReplayInv, HandOf
<1>2. PICK h \in AuditHand : h = hand[r]
  BY <1>1
<1>3. PICK x : x = Replays!Record(r)
  OBVIOUS
<1>4. PICK k : k = Replays!Kinds[h.n]
  OBVIOUS
<1>5. /\ x = [prev |-> h.prev, payload |-> [run |-> r, kind |-> k, content |-> h[k]]]
      /\ h.n \in 1..3
  BY <1>2, <1>3, <1>4 DEF Replays!Record, AuditHand
<1>6. /\ h.n = 1 => k = "snapshot" /\ h[k] = Null
      /\ h.n = 2 => k = "dry" /\ h[k] = h.dry
      /\ h.n = 3 => k = "gate" /\ h[k] = h.gate
  BY <1>4 DEF Replays!Kinds, AuditHand
<1>7. /\ k \in {"snapshot", "dry", "gate"} /\ h[k] \in ModelAnswer \cup Verdicts \cup {Null}
      /\ h.prev \in Seq(Note)
  BY <1>5, <1>6 DEF AuditHand
<1>8. x \in Line
  <2>1. [run |-> r, kind |-> k, content |-> h[k]] \in Note
    BY <1>7 DEF Note
  <2>2. QED
    BY <1>5, <1>7, <2>1 DEF Line
<1>9. NoteOf(x.payload)
  BY <1>1, <1>2, <1>5, <1>6 DEF NoteOf
<1>10. QED
  BY <1>2, <1>3, <1>5, <1>6, <1>8, <1>9

(* The log grows by a line, which a torn one swallows.                     *)
LEMMA LogGrows ==
    ASSUME ReplayTyped, NEW line \in Line \cup {Torn}, audit' = Replays!Extended(line)
    PROVE  /\ audit' \in Seq(Line \cup {Torn}) /\ audit' # <<>>
           /\ auditCut => Len(audit') = Len(audit) /\ audit'[Len(audit)] = Torn
           /\ ~auditCut => Len(audit') = Len(audit) + 1 /\ audit'[Len(audit')] = line
           /\ \A i \in 1..Len(audit') : i < Len(audit') =>
               i \in 1..Len(audit) /\ audit'[i] = audit[i]
           /\ \A i \in 1..Len(audit') :
               \/ audit'[i] = Torn
               \/ i \in 1..Len(audit) /\ audit'[i] = audit[i]
               \/ audit'[i] = line /\ ~auditCut /\ i = Len(audit')
<1>1. audit \in Seq(Line \cup {Torn}) /\ Len(audit) \in Nat
  BY LenProperties DEF ReplayTyped
<1>2. CASE auditCut
  <2>1. audit # <<>>
    BY <1>2 DEF ReplayTyped
  <2>2. Len(audit) \in 1..Len(audit)
    BY <1>1, <2>1, EmptySeq
  <2>3. audit' = [audit EXCEPT ![Len(audit)] = Torn]
    BY <1>2 DEF Replays!Extended
  <2>4. Torn \in Line \cup {Torn}
    OBVIOUS
  <2>5. /\ audit' \in Seq(Line \cup {Torn}) /\ Len(audit') = Len(audit)
        /\ \A j \in 1..Len(audit) : audit'[j] = IF j = Len(audit) THEN Torn ELSE audit[j]
    BY <1>1, <2>2, <2>3, <2>4, ExceptSeq
  <2>6. audit' # <<>>
    BY <1>1, <2>1, <2>5, EmptySeq
  <2> HIDE <2>3
  <2>7. QED
    BY <1>1, <1>2, <2>2, <2>5, <2>6
<1>3. CASE ~auditCut
  <2>1. audit' = Append(audit, line)
    BY <1>3 DEF Replays!Extended
  <2>2. /\ audit' \in Seq(Line \cup {Torn}) /\ audit' # <<>> /\ Len(audit') = Len(audit) + 1
        /\ \A j \in 1..Len(audit) : audit'[j] = audit[j]
        /\ audit'[Len(audit) + 1] = line
    BY <1>1, <2>1, AppendProperties
  <2>3. QED
    BY <1>1, <1>3, <2>2
<1>4. QED
  BY <1>2, <1>3 DEF ReplayTyped

(* The hash of the last line, where it parses.                             *)
LEMMA ReadableHash ==
    ASSUME ReplayTyped, Replays!Readable(audit)
    PROVE  Replays!LastHash(audit) \in Seq(Note)
<1>1. CASE audit = <<>>
  BY <1>1, EmptyHistory DEF Replays!LastHash, Replays!Genesis
<1>2. CASE audit # <<>>
  <2>1. audit[Len(audit)] \in Line
    BY <1>2, EmptySeq, LenProperties DEF ReplayTyped, Replays!Readable
  <2>2. Append(audit[Len(audit)].prev, audit[Len(audit)].payload) \in Seq(Note)
    BY <2>1, AppendProperties DEF Line
  <2>3. QED
    BY <1>2, <2>2 DEF Replays!LastHash, Replays!Digest
<1>3. QED
  BY <1>1, <1>2

LEMMA ReplayStep == ReplayInv /\ [Replays!Next]_Replays!replayVars => ReplayInv'
<1> SUFFICES ASSUME ReplayInv, [Replays!Next]_Replays!replayVars PROVE ReplayInv'
  OBVIOUS
<1>1. /\ ReplayTyped /\ FilesGiven /\ Noted
      /\ \A r \in Replay : HandOf(r)
  BY DEF ReplayInv
<1>2. Given \subseteq ModelAnswer /\ Judged \subseteq Verdicts /\ Null \notin Given
  BY <1>1 DEF Given, Judged, Verdicts, ReplayTyped
<1>3. /\ Len(audit) \in Nat
      /\ \A i \in 1..Len(audit) : i \in 1..Len(audit) /\ audit[i] = audit[i]
  BY <1>1, LenProperties DEF ReplayTyped
<1>4. ASSUME NEW r \in Replay, Replays!Begin(r) PROVE ReplayInv'
  <2>1. ReplayTyped' /\ OtherReplays(r) /\ HandOf(r)' /\ FilesGiven'
    BY <1>1, <1>4 DEF ReplayTyped, OtherReplays, HandOf, PlaceOf, FilesGiven, Given, Judged,
       Replays!Begin, Replays!Go, Stages, Phases, Held
  <2>2. UNCHANGED <<audit, made>> /\ at[r] = "new"
    BY <1>4 DEF Replays!Begin
  <2>3. QED
    BY <2>1, <2>2, ReplayMoves
<1>5. ASSUME NEW r \in Replay, Replays!Answered(r) PROVE ReplayInv'
  <2>1. PICK d \in ModelAnswer :
            /\ at[r] = "dry" /\ phase[r] = "read"
            /\ at' = [at EXCEPT ![r] = "dry"] /\ phase' = [phase EXCEPT ![r] = "open"]
            /\ hand' = [hand EXCEPT ![r] = d] /\ made' = [made EXCEPT ![r] = d]
            /\ UNCHANGED <<results, audit, auditCut, replaysOverlapped>>
    BY <1>5 DEF Replays!Answered, Replays!Go
  <2>2. made[r] = Null
    BY <1>1, <2>1 DEF HandOf
  <2>3. ReplayTyped' /\ OtherReplays(r)
    BY <1>1, <2>1 DEF ReplayTyped, OtherReplays, Stages, Phases, Held
  <2>4. Given \subseteq Given' /\ Judged \subseteq Judged' /\ d \in Given'
    BY <1>1, <2>1, <2>2, ReplaysAssumption DEF Given, Judged, ReplayTyped
  <2>5. HandOf(r)' /\ FilesGiven'
    BY <1>1, <2>1, <2>4 DEF HandOf, PlaceOf, FilesGiven, ReplayTyped
  <2>6. QED
    BY <2>1, <2>2, <2>3, <2>5, ReplayMoves
<1>6. ASSUME NEW r \in Replay, Replays!Read(r) PROVE ReplayInv'
  <2>1. PICK d : d = results[Replays!Source(at[r])]
    OBVIOUS
  <2>2. /\ at[r] \in {"norm", "gate"} /\ phase[r] = "read" /\ d \notin {Null, Torn}
        /\ UNCHANGED <<results, audit, auditCut, made, replaysOverlapped>>
    BY <1>6, <2>1 DEF Replays!Read, Replays!Whole
  <2>3. d \in Given
    BY <1>1, <2>1, <2>2 DEF Replays!Source, FilesGiven
  <2>4. PICK x : x = IF at[r] = "gate" THEN Replays!Decide(d) ELSE d
    OBVIOUS
  <2>5. /\ at' = [at EXCEPT ![r] = at[r]] /\ phase' = [phase EXCEPT ![r] = "open"]
        /\ hand' = [hand EXCEPT ![r] = x]
    BY <1>6, <2>1, <2>4 DEF Replays!Read, Replays!Go
  <2>6. /\ at[r] = "norm" => x \in Given
        /\ at[r] = "gate" => x \in Judged
    BY <2>3, <2>4 DEF Judged
  <2>7. ReplayTyped' /\ OtherReplays(r)
    BY <1>1, <1>2, <2>2, <2>5, <2>6 DEF ReplayTyped, OtherReplays, Stages, Phases, Held
  <2>8. HandOf(r)' /\ FilesGiven'
    BY <1>1, <2>2, <2>5, <2>6 DEF HandOf, PlaceOf, FilesGiven, ReplayTyped, Given, Judged
  <2>9. at[r] \in {"audit", "done"} => at'[r] \in {"audit", "done"}
    BY <2>2
  <2>10. QED
    BY <2>2, <2>7, <2>8, <2>9, ReplayMoves
<1>7. ASSUME NEW r \in Replay, Replays!Open(r) PROVE ReplayInv'
  <2>1. /\ phase[r] = "open" /\ at' = [at EXCEPT ![r] = at[r]]
        /\ phase' = [phase EXCEPT ![r] = "write"] /\ hand' = [hand EXCEPT ![r] = hand[r]]
        /\ results' = [results EXCEPT ![at[r]] = Torn]
        /\ UNCHANGED <<audit, auditCut, made, replaysOverlapped>>
    BY <1>7 DEF Replays!Open, Replays!Go
  <2>2. at[r] \in {"dry", "norm", "gate"} /\ phase[r] # "read"
    BY <1>1, <2>1 DEF HandOf, PlaceOf, ReplayTyped, Stages
  <2>3. ReplayTyped' /\ OtherReplays(r)
    BY <1>1, <2>1 DEF ReplayTyped, OtherReplays, Stages, Phases
  <2>4. HandOf(r)' /\ FilesGiven'
    BY <1>1, <2>1, <2>2 DEF HandOf, PlaceOf, FilesGiven, ReplayTyped, Given, Judged
  <2>5. at[r] \in {"audit", "done"} => at'[r] \in {"audit", "done"}
    BY <2>2
  <2>6. QED
    BY <2>1, <2>3, <2>4, <2>5, ReplayMoves
<1>8. ASSUME NEW r \in Replay, Replays!Write(r) PROVE ReplayInv'
  <2>1. PICK stage : stage = Replays!After(at[r])
    OBVIOUS
  <2>2. /\ phase[r] = "write" /\ at' = [at EXCEPT ![r] = stage]
        /\ phase' = [phase EXCEPT ![r] = "read"] /\ hand' = [hand EXCEPT ![r] = Null]
        /\ results' = [results EXCEPT ![at[r]] = hand[r]]
        /\ UNCHANGED <<audit, auditCut, made, replaysOverlapped>>
    BY <1>8, <2>1 DEF Replays!Write, Replays!Go
  <2>3. at[r] \in {"dry", "norm", "gate"}
    BY <1>1, <2>2 DEF HandOf, PlaceOf, ReplayTyped, Stages
  <2>4. stage \in {"norm", "gate", "audit"}
    BY <2>1 DEF Replays!After
  <2>5. /\ at[r] \in {"dry", "norm"} => hand[r] \in Given
        /\ at[r] = "gate" => hand[r] \in Judged
    BY <1>1, <2>2 DEF HandOf
  <2>6. ReplayTyped' /\ OtherReplays(r)
    BY <1>1, <1>2, <2>2, <2>3, <2>4, <2>5
       DEF ReplayTyped, OtherReplays, Stages, Phases, Held
  <2>7. HandOf(r)' /\ FilesGiven'
    BY <1>1, <2>2, <2>3, <2>4, <2>5 DEF HandOf, PlaceOf, FilesGiven, ReplayTyped, Given, Judged
  <2>8. at[r] \in {"audit", "done"} => at'[r] \in {"audit", "done"}
    BY <2>3
  <2>9. QED
    BY <2>2, <2>6, <2>7, <2>8, ReplayMoves
<1>9. ASSUME NEW r \in Replay, Replays!Stop(r) PROVE ReplayInv'
  <2>1. ReplayTyped' /\ OtherReplays(r) /\ HandOf(r)' /\ FilesGiven'
    BY <1>1, <1>9 DEF ReplayTyped, OtherReplays, HandOf, PlaceOf, FilesGiven, Given, Judged,
       Replays!Stop, Replays!End, Replays!Go, Stages, Phases, Held
  <2>2. UNCHANGED <<audit, made>> /\ at[r] \notin {"audit", "done"}
    BY <1>9 DEF Replays!Stop
  <2>3. QED
    BY <2>1, <2>2, ReplayMoves
<1>10. ASSUME NEW r \in Replay, Replays!ReadAll(r) PROVE ReplayInv'
  <2>1. PICK d, g : d = results["dry"] /\ g = results["gate"]
    OBVIOUS
  <2>2. PICK h : h = [n |-> 1, prev |-> Genesis, snapshot |-> Null, dry |-> d, gate |-> g]
    OBVIOUS
  <2>3. /\ at[r] = "audit" /\ {d, g} \cap {Null, Torn} = {}
        /\ at' = [at EXCEPT ![r] = "audit"] /\ phase' = [phase EXCEPT ![r] = "last"]
        /\ hand' = [hand EXCEPT ![r] = h]
        /\ UNCHANGED <<results, audit, auditCut, made, replaysOverlapped>>
    BY <1>10, <2>1, <2>2
       DEF Replays!ReadAll, Replays!Whole, Replays!Go, Replays!Genesis, Genesis
  <2>4. d \in Given /\ g \in Judged
    BY <1>1, <2>1, <2>3 DEF FilesGiven
  <2>5. h \in AuditHand /\ h.dry = d /\ h.gate = g
    BY <1>2, <2>2, <2>4, HandGoesOn
  <2>6. ReplayTyped' /\ OtherReplays(r)
    BY <1>1, <2>3, <2>5 DEF ReplayTyped, OtherReplays, Stages, Phases, Held
  <2>7. HandOf(r)' /\ FilesGiven'
    BY <1>1, <2>3, <2>4, <2>5 DEF HandOf, PlaceOf, FilesGiven, ReplayTyped, Given, Judged
  <2>8. QED
    BY <1>1, <2>3, <2>6, <2>7, ReplayMoves DEF ReplayTyped
<1>11. ASSUME NEW r \in Replay, Replays!AppendRead(r) PROVE ReplayInv'
  <2>1. at[r] = "audit" /\ phase[r] = "last" /\ Replays!Readable(audit)
    BY <1>11 DEF Replays!AppendRead
  <2>2. PICK h \in AuditHand : h = hand[r] /\ h.dry \in Given /\ h.gate \in Judged
    BY <1>1, <2>1 DEF HandOf
  <2>3. PICK hash : hash = Replays!LastHash(audit)
    OBVIOUS
  <2>4. hash \in Seq(Note)
    BY <1>1, <2>1, <2>3, ReadableHash
  <2>5. PICK x : x = [h EXCEPT !.prev = hash]
    OBVIOUS
  <2>6. /\ at' = [at EXCEPT ![r] = "audit"] /\ phase' = [phase EXCEPT ![r] = "append"]
        /\ hand' = [hand EXCEPT ![r] = x]
        /\ UNCHANGED <<results, audit, auditCut, made, replaysOverlapped>>
    BY <1>11, <2>2, <2>3, <2>5 DEF Replays!AppendRead, Replays!Go
  <2>7. x \in AuditHand /\ x.dry = h.dry /\ x.gate = h.gate
    BY <2>4, <2>5, HandGoesOn
  <2>8. ReplayTyped' /\ OtherReplays(r)
    BY <1>1, <2>6, <2>7 DEF ReplayTyped, OtherReplays, Stages, Phases, Held
  <2>9. HandOf(r)' /\ FilesGiven'
    BY <1>1, <2>2, <2>6, <2>7 DEF HandOf, PlaceOf, FilesGiven, ReplayTyped, Given, Judged
  <2>10. QED
    BY <1>1, <2>1, <2>6, <2>8, <2>9, ReplayMoves DEF ReplayTyped
<1>12. ASSUME NEW r \in Replay, NEW line \in {Replays!Record(r), Torn},
              at[r] = "audit", phase[r] = "append",
              audit' = Replays!Extended(line), auditCut' \in BOOLEAN,
              UNCHANGED <<results, made, replaysOverlapped>>,
              ReplayTyped', OtherReplays(r), HandOf(r)', at'[r] \in {"audit", "done"}
       PROVE  ReplayInv'
  <2>1. line \in Line \cup {Torn}
    BY <1>12, NextRecord
  <2>2. PICK l \in Line \cup {Torn} : l = line
    BY <2>1
  <2>3. ASSUME NEW i \in 1..Len(audit'), audit'[i] = line, line # Torn
        PROVE  NoteOf(audit[i].payload)'
    <3>1. PICK x : x = Replays!Record(r).payload
      OBVIOUS
    <3>2. NoteOf(x)
      BY <1>12, <3>1, NextRecord
    <3>3. NoteOf(x)'
      BY <1>12, <3>2 DEF NoteOf, Given, Judged, OtherReplays
    <3>4. x = audit'[i].payload
      BY <1>12, <2>3, <3>1
    <3>5. QED
      BY <3>3, <3>4 DEF NoteOf, Given, Judged
  <2>4. FilesGiven'
    BY <1>1, <1>12 DEF FilesGiven, Given, Judged
  <2>5. \A i \in 1..Len(audit') :
            \/ audit'[i] = Torn
            \/ i \in 1..Len(audit) /\ audit'[i] = audit[i]
            \/ audit'[i] = line
    BY <1>1, <1>12, <2>2, LogGrows
  <2>6. QED
    BY <1>12, <2>3, <2>4, <2>5, ReplayMoves
<1>13. ASSUME NEW r \in Replay, Replays!AppendWrite(r) PROVE ReplayInv'
  <2>1. /\ at[r] = "audit" /\ phase[r] = "append"
        /\ audit' = Replays!Extended(Replays!Record(r)) /\ auditCut' = FALSE
        /\ UNCHANGED <<results, made, replaysOverlapped>>
    BY <1>13 DEF Replays!AppendWrite
  <2>2. Replays!Record(r) \in Line
    BY <2>1, NextRecord
  <2>3. audit' \in Seq(Line \cup {Torn})
    BY <1>1, <2>1, <2>2, LogGrows
  <2>4. PICK h \in AuditHand : h = hand[r] /\ h.dry \in Given /\ h.gate \in Judged
    BY <1>1, <2>1 DEF HandOf
  <2>5. CASE h.n = 3
    <3>1. /\ at' = [at EXCEPT ![r] = "done"] /\ phase' = [phase EXCEPT ![r] = "read"]
          /\ hand' = [hand EXCEPT ![r] = Null]
      BY <1>13, <2>4, <2>5 DEF Replays!AppendWrite, Replays!End, Replays!Go
    <3>2. ReplayTyped' /\ OtherReplays(r)
      BY <1>1, <2>1, <2>3, <3>1 DEF ReplayTyped, OtherReplays, Stages, Phases, Held
    <3>3. HandOf(r)' /\ at'[r] = "done"
      BY <1>1, <3>1 DEF HandOf, PlaceOf, ReplayTyped
    <3>4. QED
      BY <1>12, <2>1, <3>2, <3>3
  <2>6. CASE h.n # 3
    <3>1. PICK x : x = [h EXCEPT !.n = @ + 1]
      OBVIOUS
    <3>2. x \in AuditHand /\ x.dry = h.dry /\ x.gate = h.gate
      BY <2>6, <3>1, HandGoesOn
    <3>3. /\ at' = [at EXCEPT ![r] = "audit"] /\ phase' = [phase EXCEPT ![r] = "last"]
          /\ hand' = [hand EXCEPT ![r] = x]
      BY <1>13, <2>4, <2>6, <3>1 DEF Replays!AppendWrite, Replays!Go
    <3>4. ReplayTyped' /\ OtherReplays(r)
      BY <1>1, <2>1, <2>3, <3>2, <3>3 DEF ReplayTyped, OtherReplays, Stages, Phases, Held
    <3>5. HandOf(r)' /\ at'[r] = "audit"
      BY <1>1, <2>1, <2>4, <3>2, <3>3 DEF HandOf, PlaceOf, ReplayTyped, Given, Judged
    <3>6. QED
      BY <1>12, <2>1, <3>4, <3>5
  <2>7. QED
    BY <2>5, <2>6
<1>14. ASSUME NEW r \in Replay, Replays!StopAudit(r) PROVE ReplayInv'
  <2>1. /\ at[r] = "audit" /\ UNCHANGED <<results, made, replaysOverlapped>>
        /\ at' = [at EXCEPT ![r] = "done"] /\ phase' = [phase EXCEPT ![r] = "read"]
        /\ hand' = [hand EXCEPT ![r] = Null]
    BY <1>14 DEF Replays!StopAudit, Replays!End, Replays!Go
  <2>2. OtherReplays(r) /\ HandOf(r)' /\ at'[r] = "done"
    BY <1>1, <2>1 DEF ReplayTyped, OtherReplays, HandOf, PlaceOf
  <2>3. CASE UNCHANGED <<audit, auditCut>>
    <3>1. ReplayTyped' /\ FilesGiven'
      BY <1>1, <2>1, <2>3 DEF ReplayTyped, Stages, Phases, Held, FilesGiven, Given, Judged
    <3>2. QED
      BY <2>1, <2>2, <2>3, <3>1, ReplayMoves
  <2>4. ASSUME NEW line \in {Replays!Record(r), Torn}, audit' = Replays!Extended(line),
               phase[r] = "append", auditCut' = TRUE
        PROVE  ReplayInv'
    <3>1. line \in Line \cup {Torn}
      BY <2>1, <2>4, NextRecord
    <3>2. PICK l \in Line \cup {Torn} : l = line
      BY <3>1
    <3>3. audit' \in Seq(Line \cup {Torn}) /\ audit' # <<>>
      BY <1>1, <2>4, <3>2, LogGrows
    <3>4. ReplayTyped'
      BY <1>1, <2>1, <2>4, <3>3 DEF ReplayTyped, Stages, Phases, Held
    <3>5. QED
      BY <1>12, <2>1, <2>2, <2>4, <3>4
  <2>5. QED
    BY <1>14, <2>3, <2>4 DEF Replays!StopAudit
<1>15. CASE UNCHANGED <<results, audit, auditCut, at, phase, hand, made, replaysOverlapped>>
  <2>1. ReplayTyped' /\ FilesGiven'
    BY <1>1, <1>15 DEF ReplayTyped, FilesGiven, Given, Judged
  <2>2. \A r \in Replay : HandOf(r)'
    BY <1>1, <1>15 DEF HandOf, PlaceOf, Given, Judged
  <2>3. Noted'
    BY <1>1, <1>15 DEF Noted, NoteOf, Given, Judged
  <2>4. QED
    BY <2>1, <2>2, <2>3 DEF ReplayInv
<1>16. QED
  BY <1>4, <1>5, <1>6, <1>7, <1>8, <1>9, <1>10, <1>11, <1>13, <1>14, <1>15
     DEF Replays!Next, Replays!replayVars, Replays!Repaired

-----------------------------------------------------------------------------
(* Replays that do not overlap.                                            *)

Idle(r) == at[r] \in {"new", "done"}
ReplayAlone == \A r, s \in Replay : ~Idle(r) /\ ~Idle(s) => r = s

(* The last line, unless it is torn, is the dry run of the replay itself.  *)
Leads(r) ==
    /\ ~auditCut /\ audit # <<>>
    /\ audit[Len(audit)] # Torn =>
        /\ audit[Len(audit)].payload.run = r
        /\ audit[Len(audit)].payload.content = made[r]
(* What a replay holds, and what lies in the files it will read, is its own. *)
OwnOf(r) ==
    /\ at[r] \in {"dry", "norm"} /\ phase[r] \in {"open", "write"} => hand[r] = made[r]
    /\ at[r] = "gate" /\ phase[r] \in {"open", "write"} => hand[r] = Replays!Decide(made[r])
    /\ at[r] \in {"norm", "gate", "audit"} => results["dry"] = made[r]
    /\ at[r] = "gate" /\ phase[r] = "read" => results["norm"] = made[r]
    /\ at[r] = "audit" => results["gate"] = Replays!Decide(made[r])
    /\ phase[r] \in {"last", "append"} =>
        hand[r].dry = made[r] /\ hand[r].gate = Replays!Decide(made[r])
    /\ phase[r] \in {"last", "append"} /\ hand[r].n = 3 => Leads(r)
    /\ phase[r] = "append" =>
        Replays!Readable(audit) /\ hand[r].prev = Replays!LastHash(audit)

(* A decision follows the dry run it is about.                             *)
GateAt(i) ==
    audit[i].payload.kind = "gate" =>
        /\ audit[i].payload.content = Replays!Decide(made[audit[i].payload.run])
        /\ i > 1
        /\ audit[i - 1].payload.run = audit[i].payload.run
        /\ audit[i - 1].payload.content = made[audit[i].payload.run]
OwnLog ==
    /\ \A i \in 1..Len(audit) : i < Len(audit) => audit[i] # Torn
    /\ \A i \in 1..Len(audit) : audit[i] # Torn => Replays!LinkedAt(audit, i) /\ GateAt(i)

SerialReplays == ~replaysOverlapped => ReplayAlone /\ (\A r \in Replay : OwnOf(r)) /\ OwnLog

LEMMA SerialReplayMoves ==
    ASSUME ReplayInv', NEW r \in Replay, OtherReplays(r), \A s \in Replay \ {r} : Idle(s),
           OwnOf(r)', OwnLog'
    PROVE  SerialReplays'
<1>1. ASSUME NEW s \in Replay \ {r} PROVE Idle(s)' /\ at'[s] \in {"new", "done"}
  BY DEF Idle, OtherReplays
<1>2. ASSUME NEW s \in Replay \ {r} PROVE OwnOf(s)'
  BY <1>1 DEF OwnOf, ReplayInv, HandOf, PlaceOf
<1>3. ReplayAlone'
  BY <1>1 DEF ReplayAlone
<1>4. QED
  BY <1>2, <1>3 DEF SerialReplays

(* A log that stays goes on being of what the replays were given.          *)
LEMMA LogKept ==
    ASSUME Noted, OwnLog, audit' = audit,
           \A s \in Replay : at[s] \in {"audit", "done"} => made'[s] = made[s]
    PROVE  OwnLog'
<1>1. ASSUME NEW i \in 1..Len(audit), audit[i] # Torn PROVE GateAt(i)'
  <2>1. GateAt(i) /\ NoteOf(audit[i].payload)
    BY <1>1 DEF OwnLog, Noted
  <2>2. PICK run : run = audit[i].payload.run
    OBVIOUS
  <2>3. made'[run] = made[run]
    BY <2>1, <2>2 DEF NoteOf
  <2>4. QED
    BY <2>1, <2>2, <2>3 DEF GateAt
<1>2. QED
  BY <1>1 DEF OwnLog, Replays!LinkedAt

(* A line that continues a log that parses.                                *)
Fits(line) ==
    line # Torn =>
        /\ line.prev = Replays!LastHash(audit)
        /\ ~auditCut /\ line.payload.kind = "gate" =>
            /\ audit # <<>>
            /\ audit[Len(audit)].payload.run = line.payload.run
            /\ audit[Len(audit)].payload.content = made[line.payload.run]
            /\ line.payload.content = Replays!Decide(made[line.payload.run])

LEMMA LogFits ==
    ASSUME ReplayTyped, OwnLog, Replays!Readable(audit), NEW line \in Line \cup {Torn},
           Fits(line), audit' = Replays!Extended(line), made' = made
    PROVE  OwnLog'
<1>1. /\ audit' \in Seq(Line \cup {Torn}) /\ audit' # <<>>
      /\ auditCut => Len(audit') = Len(audit) /\ audit'[Len(audit)] = Torn
      /\ ~auditCut => Len(audit') = Len(audit) + 1 /\ audit'[Len(audit')] = line
      /\ \A i \in 1..Len(audit') : i < Len(audit') =>
            i \in 1..Len(audit) /\ audit'[i] = audit[i]
  BY LogGrows
<1>2. PICK m, n : m = Len(audit) /\ n = Len(audit') /\ m \in Nat /\ n \in Nat
  BY <1>1, LenProperties DEF ReplayTyped
<1>3. /\ auditCut => n = m
      /\ ~auditCut => n = m + 1
      /\ \A i \in 1..n : i < n => i \in 1..m /\ audit'[i] = audit[i]
  BY <1>1, <1>2
<1>4. \A i \in 1..m : (i < m => audit[i] # Torn) /\ (i = m => audit[i] # Torn)
  BY <1>2, EmptySeq DEF OwnLog, Replays!Readable
<1>5. \A i \in 1..n : i < n => audit'[i] # Torn
  BY <1>2, <1>3, <1>4
<1>6. ASSUME NEW i \in 1..n, i < n, audit'[i] # Torn
      PROVE  Replays!LinkedAt(audit', i) /\ GateAt(i)'
  <2>1. Replays!LinkedAt(audit, i) /\ GateAt(i) /\ i \in 1..m
    BY <1>2, <1>3, <1>6 DEF OwnLog
  <2>2. audit'[i] = audit[i] /\ (i # 1 => i - 1 \in 1..n /\ audit'[i - 1] = audit[i - 1])
    BY <1>2, <1>3, <1>6
  <2>3. Replays!LinkedAt(audit', i)
    BY <2>1, <2>2, <1>6 DEF Replays!LinkedAt
  <2>4. PICK x : x = audit[i].payload /\ x = audit'[i].payload
    BY <2>2
  <2>5. ASSUME x.kind = "gate" PROVE GateAt(i)'
    <3>1. i # 1 /\ i > 1
      BY <2>1, <2>4, <2>5 DEF GateAt
    <3>2. QED
      BY <2>1, <2>2, <2>4, <2>5, <3>1 DEF GateAt
  <2>6. QED
    BY <2>3, <2>4, <2>5 DEF GateAt
<1>7. ASSUME NEW i \in 1..n, i = n, audit'[i] # Torn
      PROVE  Replays!LinkedAt(audit', i) /\ GateAt(i)'
  <2>1. ~auditCut /\ audit'[i] = line /\ i = m + 1 /\ line # Torn
    BY <1>1, <1>2, <1>3, <1>7
  <2>2. line.prev = Replays!LastHash(audit)
    BY <2>1 DEF Fits
  <2>3. audit # <<>> => m # 0 /\ m \in 1..n /\ i - 1 = m /\ audit'[m] = audit[m]
    BY <1>2, <1>3, <2>1, EmptySeq DEF ReplayTyped
  <2>4. audit = <<>> => i = 1
    BY <1>2, <2>1, EmptySeq
  <2>5. Replays!LinkedAt(audit', i)
    <3>1. CASE audit = <<>>
      BY <2>1, <2>2, <2>4, <3>1 DEF Replays!LinkedAt, Replays!LastHash
    <3>2. CASE audit # <<>>
      BY <1>2, <2>1, <2>2, <2>3, <3>2 DEF Replays!LinkedAt, Replays!LastHash
    <3>3. QED
      BY <3>1, <3>2
  <2>6. ASSUME line.payload.kind = "gate" PROVE GateAt(i)'
    <3>1. PICK run : run = line.payload.run
      OBVIOUS
    <3>2. /\ audit # <<>> /\ audit[m].payload.run = run
          /\ audit[m].payload.content = made[run]
          /\ line.payload.content = Replays!Decide(made[run])
      BY <1>2, <2>1, <2>6, <3>1 DEF Fits
    <3>3. i > 1 /\ i - 1 = m /\ audit'[i - 1] = audit[m]
      BY <1>2, <2>1, <2>3, <3>2
    <3>4. QED
      BY <2>1, <3>1, <3>2, <3>3 DEF GateAt
  <2>7. QED
    BY <2>1, <2>5, <2>6 DEF GateAt
<1>8. QED
  BY <1>2, <1>5, <1>6, <1>7 DEF OwnLog

(* A step keeps what replays that do not overlap hold and left behind.     *)
LEMMA SerialStep ==
    ReplayInv /\ ReplayInv' /\ SerialReplays /\ [Replays!Next]_Replays!replayVars
    => SerialReplays'
<1> SUFFICES ASSUME ReplayInv, ReplayInv', SerialReplays,
                    [Replays!Next]_Replays!replayVars, ~replaysOverlapped'
             PROVE  SerialReplays'
  BY DEF SerialReplays
<1>1. /\ ReplayTyped /\ FilesGiven /\ Noted
      /\ \A r \in Replay : HandOf(r)
  BY DEF ReplayInv
<1>2. ASSUME ~replaysOverlapped
      PROVE  ReplayAlone /\ OwnLog /\ \A r \in Replay : OwnOf(r)
  BY <1>2 DEF SerialReplays
<1>3. ASSUME NEW r \in Replay, ReplayAlone, ~Idle(r) PROVE \A s \in Replay \ {r} : Idle(s)
  BY <1>3 DEF ReplayAlone
<1>4. ASSUME NEW r \in Replay, Replays!Begin(r) PROVE SerialReplays'
  <2>1. ~replaysOverlapped /\ \A s \in Replay : Idle(s)
    BY <1>1, <1>4 DEF Replays!Begin, Idle, ReplayTyped
  <2>2. OtherReplays(r) /\ OwnOf(r)'
    BY <1>1, <1>4 DEF Replays!Begin, Replays!Go, OtherReplays, OwnOf, ReplayTyped
  <2>3. OwnLog'
    BY <1>1, <1>2, <1>4, <2>1, LogKept DEF Replays!Begin
  <2>4. QED
    BY <2>1, <2>2, <2>3, SerialReplayMoves
<1>5. ASSUME NEW r \in Replay, ~replaysOverlapped, ~Idle(r), OtherReplays(r), OwnOf(r)', OwnLog'
      PROVE  SerialReplays'
  BY <1>2, <1>3, <1>5, SerialReplayMoves
<1>6. ASSUME NEW r \in Replay, Replays!Answered(r) PROVE SerialReplays'
  <2>1. PICK d \in ModelAnswer :
            /\ at[r] = "dry" /\ phase[r] = "read"
            /\ at' = [at EXCEPT ![r] = "dry"] /\ phase' = [phase EXCEPT ![r] = "open"]
            /\ hand' = [hand EXCEPT ![r] = d] /\ made' = [made EXCEPT ![r] = d]
            /\ UNCHANGED <<results, audit, auditCut, replaysOverlapped>>
    BY <1>6 DEF Replays!Answered, Replays!Go
  <2>2. OtherReplays(r) /\ OwnOf(r)' /\ ~replaysOverlapped /\ ~Idle(r)
    BY <1>1, <2>1 DEF OtherReplays, OwnOf, ReplayTyped, Idle
  <2>3. OwnLog'
    BY <1>1, <1>2, <2>1, <2>2, LogKept DEF ReplayTyped
  <2>4. QED
    BY <1>5, <2>2, <2>3
<1>7. ASSUME NEW r \in Replay, Replays!Read(r) PROVE SerialReplays'
  <2>1. PICK d, x : /\ d = results[Replays!Source(at[r])]
                    /\ x = IF at[r] = "gate" THEN Replays!Decide(d) ELSE d
    OBVIOUS
  <2>2. /\ at[r] \in {"norm", "gate"} /\ phase[r] = "read"
        /\ at' = [at EXCEPT ![r] = at[r]] /\ phase' = [phase EXCEPT ![r] = "open"]
        /\ hand' = [hand EXCEPT ![r] = x]
        /\ UNCHANGED <<results, audit, auditCut, made, replaysOverlapped>>
    BY <1>7, <2>1 DEF Replays!Read, Replays!Go
  <2>3. OtherReplays(r) /\ ~replaysOverlapped /\ ~Idle(r)
    BY <1>1, <2>2 DEF OtherReplays, ReplayTyped, Idle
  <2>4. d = made[r]
    BY <1>2, <2>1, <2>2, <2>3 DEF Replays!Source, OwnOf
  <2>5. OwnOf(r)'
    BY <1>1, <1>2, <2>1, <2>2, <2>3, <2>4 DEF OwnOf, ReplayTyped
  <2>6. OwnLog'
    BY <1>1, <1>2, <2>2, <2>3, LogKept
  <2>7. QED
    BY <1>5, <2>3, <2>5, <2>6
<1>8. ASSUME NEW r \in Replay, Replays!Open(r) PROVE SerialReplays'
  <2>1. /\ phase[r] = "open" /\ at' = [at EXCEPT ![r] = at[r]]
        /\ phase' = [phase EXCEPT ![r] = "write"] /\ hand' = [hand EXCEPT ![r] = hand[r]]
        /\ results' = [results EXCEPT ![at[r]] = Torn]
        /\ UNCHANGED <<audit, auditCut, made, replaysOverlapped>>
    BY <1>8 DEF Replays!Open, Replays!Go
  <2>2. at[r] \in {"dry", "norm", "gate"}
    BY <1>1, <2>1 DEF HandOf, PlaceOf, ReplayTyped, Stages
  <2>3. OtherReplays(r) /\ ~replaysOverlapped /\ ~Idle(r)
    BY <1>1, <2>1, <2>2 DEF OtherReplays, ReplayTyped, Idle
  <2>4. OwnOf(r)'
    BY <1>1, <1>2, <2>1, <2>2, <2>3 DEF OwnOf, ReplayTyped
  <2>5. OwnLog'
    BY <1>1, <1>2, <2>1, <2>3, LogKept
  <2>6. QED
    BY <1>5, <2>3, <2>4, <2>5
<1>9. ASSUME NEW r \in Replay, Replays!Write(r) PROVE SerialReplays'
  <2>1. PICK stage : stage = Replays!After(at[r])
    OBVIOUS
  <2>2. /\ phase[r] = "write" /\ at' = [at EXCEPT ![r] = stage]
        /\ phase' = [phase EXCEPT ![r] = "read"] /\ hand' = [hand EXCEPT ![r] = Null]
        /\ results' = [results EXCEPT ![at[r]] = hand[r]]
        /\ UNCHANGED <<audit, auditCut, made, replaysOverlapped>>
    BY <1>9, <2>1 DEF Replays!Write, Replays!Go
  <2>3. at[r] \in {"dry", "norm", "gate"}
    BY <1>1, <2>2 DEF HandOf, PlaceOf, ReplayTyped, Stages
  <2>4. OtherReplays(r) /\ ~replaysOverlapped /\ ~Idle(r)
    BY <1>1, <2>2, <2>3 DEF OtherReplays, ReplayTyped, Idle
  <2>5. OwnOf(r) /\ HandOf(r)
    BY <1>1, <1>2, <2>4
  <2>6. OwnOf(r)'
    <3>1. CASE at[r] = "dry" /\ stage = "norm"
      BY <1>1, <2>2, <2>5, <3>1 DEF OwnOf, ReplayTyped
    <3>2. CASE at[r] = "norm" /\ stage = "gate"
      BY <1>1, <2>2, <2>5, <3>2 DEF OwnOf, ReplayTyped
    <3>3. CASE at[r] = "gate" /\ stage = "audit"
      BY <1>1, <2>2, <2>5, <3>3 DEF OwnOf, ReplayTyped
    <3>4. QED
      BY <2>1, <2>3, <3>1, <3>2, <3>3 DEF Replays!After
  <2>7. OwnLog'
    BY <1>1, <1>2, <2>2, <2>4, LogKept
  <2>8. QED
    BY <1>5, <2>4, <2>6, <2>7
<1>10. ASSUME NEW r \in Replay, Replays!Stop(r) PROVE SerialReplays'
  <2>1. OtherReplays(r) /\ OwnOf(r)' /\ ~replaysOverlapped /\ ~Idle(r)
    BY <1>1, <1>10 DEF Replays!Stop, Replays!End, Replays!Go, OtherReplays, OwnOf, ReplayTyped,
       Idle
  <2>2. OwnLog'
    BY <1>1, <1>2, <1>10, <2>1, LogKept DEF Replays!Stop
  <2>3. QED
    BY <1>5, <2>1, <2>2
<1>11. ASSUME NEW r \in Replay, Replays!ReadAll(r) PROVE SerialReplays'
  <2>1. PICK h : h = [n |-> 1, prev |-> Genesis, snapshot |-> Null,
                      dry |-> results["dry"], gate |-> results["gate"]]
    OBVIOUS
  <2>2. /\ at[r] = "audit"
        /\ at' = [at EXCEPT ![r] = "audit"] /\ phase' = [phase EXCEPT ![r] = "last"]
        /\ hand' = [hand EXCEPT ![r] = h]
        /\ UNCHANGED <<results, audit, auditCut, made, replaysOverlapped>>
    BY <1>11, <2>1 DEF Replays!ReadAll, Replays!Go, Replays!Genesis, Genesis
  <2>3. OtherReplays(r) /\ ~replaysOverlapped /\ ~Idle(r)
    BY <1>1, <2>2 DEF OtherReplays, ReplayTyped, Idle
  <2>4. h.n = 1 /\ h.dry = made[r] /\ h.gate = Replays!Decide(made[r])
    BY <1>2, <2>1, <2>2, <2>3 DEF OwnOf
  <2>5. OwnOf(r)'
    BY <1>1, <1>2, <2>2, <2>3, <2>4 DEF OwnOf, ReplayTyped
  <2>6. OwnLog'
    BY <1>1, <1>2, <2>2, <2>3, LogKept
  <2>7. QED
    BY <1>5, <2>3, <2>5, <2>6
<1>12. ASSUME NEW r \in Replay, Replays!AppendRead(r) PROVE SerialReplays'
  <2>1. at[r] = "audit" /\ phase[r] = "last" /\ Replays!Readable(audit)
    BY <1>12 DEF Replays!AppendRead
  <2>2. PICK h \in AuditHand : h = hand[r]
    BY <1>1, <2>1 DEF HandOf
  <2>3. PICK hash, x : hash = Replays!LastHash(audit) /\ x = [h EXCEPT !.prev = hash]
    OBVIOUS
  <2>4. /\ at' = [at EXCEPT ![r] = "audit"] /\ phase' = [phase EXCEPT ![r] = "append"]
        /\ hand' = [hand EXCEPT ![r] = x]
        /\ UNCHANGED <<results, audit, auditCut, made, replaysOverlapped>>
    BY <1>12, <2>2, <2>3 DEF Replays!AppendRead, Replays!Go
  <2>5. x.dry = h.dry /\ x.gate = h.gate /\ x.n = h.n /\ x.prev = hash
    BY <1>1, <2>1, <2>3, ReadableHash, HandGoesOn
  <2>6. OtherReplays(r) /\ ~replaysOverlapped /\ ~Idle(r)
    BY <1>1, <2>1, <2>4 DEF OtherReplays, ReplayTyped, Idle
  <2>7. /\ hand'[r] = x /\ phase'[r] = "append" /\ at'[r] = "audit"
        /\ Replays!LastHash(audit)' = hash /\ Replays!Readable(audit)'
        /\ Leads(r) => Leads(r)'
    BY <1>1, <2>1, <2>3, <2>4 DEF ReplayTyped, Leads, Replays!LastHash, Replays!Readable,
       Replays!Digest, Replays!Genesis
  <2>8. OwnOf(r)
    BY <1>2, <2>6
  <2>9. OwnOf(r)'
    BY <2>1, <2>2, <2>4, <2>5, <2>7, <2>8 DEF OwnOf
  <2>10. OwnLog'
    BY <1>1, <1>2, <2>4, <2>6, LogKept
  <2>11. QED
    BY <1>5, <2>6, <2>9, <2>10
<1>13. ASSUME NEW r \in Replay, NEW line \in {Replays!Record(r), Torn},
              ~replaysOverlapped, at[r] = "audit", phase[r] = "append",
              audit' = Replays!Extended(line), made' = made
       PROVE  OwnLog'
  <2>1. OwnOf(r) /\ OwnLog /\ HandOf(r)
    BY <1>1, <1>2, <1>13
  <2>2. PICK l \in Line \cup {Torn} : l = line
    BY <1>13, NextRecord
  <2>3. Replays!Readable(audit) /\ hand[r].prev = Replays!LastHash(audit)
    BY <1>13, <2>1 DEF OwnOf
  <2>4. ASSUME l # Torn PROVE Fits(l)
    <3>1. l = Replays!Record(r)
      BY <2>2, <2>4
    <3>2. /\ l.prev = hand[r].prev /\ l.payload.run = r
          /\ l.payload.kind = "gate" => hand[r].n = 3 /\ l.payload.content = hand[r].gate
      <4>1. hand[r].n \in 1..3
        BY <1>13, <2>1 DEF HandOf, AuditHand
      <4>2. QED
        BY <1>13, <3>1, <4>1, NextRecord
    <3>3. hand[r].n = 3 => Leads(r) /\ hand[r].gate = Replays!Decide(made[r])
      BY <1>13, <2>1 DEF OwnOf
    <3>4. QED
      BY <2>3, <3>2, <3>3 DEF Fits, Leads, Replays!Readable
  <2>5. Fits(l)
    BY <2>4 DEF Fits
  <2>6. QED
    BY <1>1, <1>13, <2>1, <2>2, <2>3, <2>5, LogFits
<1>14. ASSUME NEW r \in Replay, Replays!AppendWrite(r) PROVE SerialReplays'
  <2>1. /\ at[r] = "audit" /\ phase[r] = "append"
        /\ audit' = Replays!Extended(Replays!Record(r)) /\ auditCut' = FALSE
        /\ UNCHANGED <<results, made, replaysOverlapped>>
    BY <1>14 DEF Replays!AppendWrite
  <2>2. ~replaysOverlapped /\ ~Idle(r) /\ OwnOf(r)
    BY <1>2, <2>1 DEF Idle
  <2>3. OwnLog'
    BY <1>13, <2>1, <2>2
  <2>4. PICK h \in AuditHand : h = hand[r]
    BY <1>1, <2>1 DEF HandOf
  <2>5. CASE h.n = 3
    <3>1. OtherReplays(r) /\ OwnOf(r)'
      <4>1. /\ at' = [at EXCEPT ![r] = "done"] /\ phase' = [phase EXCEPT ![r] = "read"]
            /\ hand' = [hand EXCEPT ![r] = Null]
        BY <1>14, <2>4, <2>5 DEF Replays!AppendWrite, Replays!End, Replays!Go
      <4>2. QED
        BY <1>1, <2>1, <4>1 DEF OtherReplays, OwnOf, ReplayTyped
    <3>2. QED
      BY <1>5, <2>2, <2>3, <3>1
  <2>6. CASE h.n # 3
    <3>1. PICK x : x = [h EXCEPT !.n = @ + 1]
      OBVIOUS
    <3>2. x.dry = h.dry /\ x.gate = h.gate /\ x.n = h.n + 1
      BY <2>6, <3>1, HandGoesOn
    <3>3. /\ at' = [at EXCEPT ![r] = "audit"] /\ phase' = [phase EXCEPT ![r] = "last"]
          /\ hand' = [hand EXCEPT ![r] = x]
      BY <1>14, <2>4, <2>6, <3>1 DEF Replays!AppendWrite, Replays!Go
    <3>4. /\ OtherReplays(r) /\ hand'[r] = x /\ at'[r] = "audit" /\ phase'[r] = "last"
      BY <1>1, <2>1, <3>3 DEF OtherReplays, ReplayTyped
    <3>5. x.n = 3 => Leads(r)'
      <4>1. SUFFICES ASSUME x.n = 3 PROVE Leads(r)'
        OBVIOUS
      <4>2. h.n = 2
        BY <3>2, <4>1 DEF AuditHand
      <4>3. PICK l \in Line \cup {Torn} :
                /\ l = Replays!Record(r) /\ l.payload.run = r /\ l.payload.content = h.dry
        BY <2>1, <2>4, <4>2, NextRecord
      <4>4. h.dry = made[r]
        BY <2>1, <2>2, <2>4 DEF OwnOf
      <4>5. /\ audit' # <<>>
            /\ auditCut => audit'[Len(audit')] = Torn
            /\ ~auditCut => audit'[Len(audit')] = l
        BY <1>1, <2>1, <4>3, LogGrows
      <4>6. QED
        BY <2>1, <4>3, <4>4, <4>5 DEF Leads
    <3>6. OwnOf(r)'
      BY <2>1, <2>2, <2>4, <3>2, <3>4, <3>5 DEF OwnOf
    <3>7. QED
      BY <1>5, <2>2, <2>3, <3>4, <3>6
  <2>7. QED
    BY <2>5, <2>6
<1>15. ASSUME NEW r \in Replay, Replays!StopAudit(r) PROVE SerialReplays'
  <2>1. /\ at[r] = "audit" /\ UNCHANGED <<results, made, replaysOverlapped>>
        /\ at' = [at EXCEPT ![r] = "done"] /\ phase' = [phase EXCEPT ![r] = "read"]
        /\ hand' = [hand EXCEPT ![r] = Null]
    BY <1>15 DEF Replays!StopAudit, Replays!End, Replays!Go
  <2>2. OtherReplays(r) /\ OwnOf(r)' /\ ~replaysOverlapped /\ ~Idle(r)
    BY <1>1, <2>1 DEF ReplayTyped, OtherReplays, OwnOf, Idle
  <2>3. CASE UNCHANGED <<audit, auditCut>>
    BY <1>1, <1>2, <1>5, <2>1, <2>2, <2>3, LogKept
  <2>4. ASSUME NEW line \in {Replays!Record(r), Torn}, audit' = Replays!Extended(line),
               phase[r] = "append"
        PROVE  SerialReplays'
    BY <1>5, <1>13, <2>1, <2>2, <2>4
  <2>5. QED
    BY <1>15, <2>3, <2>4 DEF Replays!StopAudit
<1>16. CASE UNCHANGED <<results, audit, auditCut, at, phase, hand, made, replaysOverlapped>>
  <2>1. ReplayAlone' /\ OwnLog' /\ ~replaysOverlapped
    BY <1>1, <1>2, <1>16, LogKept DEF ReplayAlone, Idle
  <2>2. \A r \in Replay : OwnOf(r)'
    BY <1>2, <1>16, <2>1 DEF OwnOf, Leads, Replays!Readable, Replays!LastHash, Replays!Digest,
       Replays!Genesis
  <2>3. QED
    BY <2>1, <2>2 DEF SerialReplays
<1>17. QED
  BY <1>4, <1>6, <1>7, <1>8, <1>9, <1>10, <1>11, <1>12, <1>14, <1>15, <1>16
     DEF Replays!Next, Replays!replayVars, Replays!Repaired

(* However replays share and overwrite the files, and whatever the model   *)
(* answers: what the log tells of was given or judged; and replays that do *)
(* not overlap, stopped anywhere, audit their own dry run, and then the    *)
(* decision about it, in a log that links unless its last line is torn     *)
(* (replay_sentinel_pipeline, append_sentinel_to_audit).                   *)
THEOREM ReplaysAudit == Sentinel => []ReplaysAuditResults
<1>1. Replays!Init => ReplayInv /\ SerialReplays
  <2> SUFFICES ASSUME Replays!Init PROVE ReplayInv /\ SerialReplays
    OBVIOUS
  <2>1. ReplayTyped /\ audit = <<>>
    BY EmptySeq DEF Replays!Init, ReplayTyped, Stages, Phases, Held
  <2>2. Len(audit) = 0
    BY <2>1
  <2>3. FilesGiven /\ \A r \in Replay : HandOf(r) /\ OwnOf(r) /\ Idle(r)
    BY DEF Replays!Init, FilesGiven, HandOf, PlaceOf, OwnOf, Idle
  <2>4. Noted /\ OwnLog /\ ReplayAlone
    BY <2>2, <2>3 DEF Noted, OwnLog, ReplayAlone
  <2>5. QED
    BY <2>1, <2>3, <2>4 DEF ReplayInv, SerialReplays
<1>2. ReplayInv /\ SerialReplays => ReplaysAuditResults
  <2> SUFFICES ASSUME ReplayInv, SerialReplays PROVE ReplaysAuditResults
    OBVIOUS
  <2>1. Replays!AuditedWasProduced
    <3>1. \A i \in Replays!Records : NoteOf(audit[i].payload)
      BY DEF ReplayInv, Noted, Replays!Records
    <3>2. QED
      BY <3>1 DEF Replays!AuditedWasProduced, Replays!Entry, NoteOf, Given, Judged
  <2>2. ASSUME ~replaysOverlapped PROVE Replays!AuditedIsOwn
    <3>1. OwnLog
      BY <2>2 DEF SerialReplays
    <3>2. \A i \in Replays!Records : GateAt(i)
      BY <3>1 DEF OwnLog, Replays!Records
    <3>3. ASSUME Len(audit) \in Replays!Records PROVE Replays!Linked(audit)
      <4>1. PICK n \in Nat : n = Len(audit) /\ audit[n] # Torn
        BY <3>3, LenProperties DEF Replays!Records, ReplayInv, ReplayTyped
      <4>2. \A i \in 1..n : audit[i] # Torn
        BY <3>1, <4>1 DEF OwnLog
      <4>3. QED
        BY <3>1, <4>1, <4>2 DEF OwnLog, Replays!Linked
    <3>4. QED
      BY <3>2, <3>3 DEF Replays!AuditedIsOwn, Replays!Entry, GateAt
  <2>3. QED
    BY <2>1, <2>2 DEF ReplaysAuditResults, Replays!ReplaysAuditResults
<1>3. QED
  BY <1>1, <1>2, ReplayStep, SerialStep, SentinelRunsReplays, PTL DEF Replays!Spec

-----------------------------------------------------------------------------
(* The tools that announce changes.  A snapshot's scores are too low for a *)
(* consensus: none of its timeframes reaches more than 60 points.          *)

LEMMA AnnounceExtremes ==
    /\ \A a \in Int : Announce!Max({0, a}) \in {0, a} /\ Announce!Max({0, a}) >= 0
    /\ \A a \in Int : Announce!Lesser(100, a) \in {100, a} /\ Announce!Lesser(100, a) <= a
<1>1. ASSUME NEW a \in Int
      PROVE  Announce!Max({0, a}) \in {0, a} /\ Announce!Max({0, a}) >= 0
  <2>1. Announce!Max({0, a}) = Max({0, a})
    BY DEF Announce!Max, Max
  <2>2. QED
    BY <2>1, Extremes
<1>2. ASSUME NEW a \in Int
      PROVE  Announce!Lesser(100, a) \in {100, a} /\ Announce!Lesser(100, a) <= a
  <2>1. Announce!Lesser(100, a) = Lesser(100, a)
    BY DEF Announce!Lesser, Announce!Min, Lesser, Min
  <2>2. Lesser(100, a) \in {100, a} /\ Lesser(100, a) <= a
    BY Extremes
  <2>3. QED
    BY <2>1, <2>2
<1>3. QED
  BY <1>1, <1>2

LEMMA TimeframeScores == \A c \in Announce!Chart : Announce!TfScore(c) \in 0..60
<1> SUFFICES ASSUME NEW c \in Announce!Chart PROVE Announce!TfScore(c) \in 0..60
  OBVIOUS
<1>1. Announce!RsiPoints(c.rsi) \in {0, 8, 12, 6, 1}
  BY DEF Announce!Chart, Announce!Band, Announce!RsiPoints
<1>2. /\ Announce!Worth(c.trend = 1, 15) \in {0, 15}
      /\ Announce!Worth(c.trend = -1, 10) \in {0, 10}
      /\ Announce!Worth(c.emas, 10) \in {0, 10} /\ Announce!Worth(c.vwap, 10) \in {0, 10}
      /\ Announce!Worth(c.obv, 10) \in {0, 10} /\ Announce!Worth(c.ema20, 3) \in {0, 3}
  BY DEF Announce!Worth
<1>3. PICK w1 \in {0, 15}, w2 \in {0, 10}, w3 \in {0, 10}, w4 \in {0, 10}, w5 \in {0, 10},
           w6 \in {0, 3}, p \in {0, 8, 12, 6, 1} :
          /\ w1 = Announce!Worth(c.trend = 1, 15) /\ w2 = Announce!Worth(c.trend = -1, 10)
          /\ w3 = Announce!Worth(c.emas, 10) /\ w4 = Announce!Worth(c.vwap, 10)
          /\ w5 = Announce!Worth(c.obv, 10) /\ w6 = Announce!Worth(c.ema20, 3)
          /\ p = Announce!RsiPoints(c.rsi)
  BY <1>1, <1>2
<1>4. PICK sum : sum = w1 - w2 + p + w3 + w4 + w5 + w6
  OBVIOUS
<1>5. sum \in Int /\ sum <= 60
  BY <1>4
<1>6. PICK low : low = Announce!Lesser(100, sum)
  OBVIOUS
<1>7. low \in Int /\ low <= 60
  <2>1. \A n \in Int : Announce!Lesser(100, n) \in {100, n} /\ Announce!Lesser(100, n) <= n
    BY AnnounceExtremes
  <2>2. Announce!Lesser(100, sum) \in {100, sum} /\ Announce!Lesser(100, sum) <= sum
    BY <1>5, <2>1
  <2>3. QED
    BY <1>5, <1>6, <2>2
<1>8. Announce!Max({0, low}) \in 0..60
  BY <1>7, AnnounceExtremes
<1>9. Announce!TfScore(c) = Announce!Max({0, low})
  BY <1>3, <1>4, <1>6 DEF Announce!TfScore
<1>10. QED
  BY <1>8, <1>9

LEMMA SnapshotNeutral == \A x \in Announce!SnapshotItems : x.direction = "neutral"
<1> SUFFICES ASSUME NEW x \in Announce!SnapshotItems PROVE x.direction = "neutral"
  OBVIOUS
<1>1. PICK e \in Announce!SnapshotEvents : x = Announce!Consensus(e, e)
  BY DEF Announce!SnapshotItems
<1>2. PICK s15 \in Announce!Scores, s1h \in Announce!Scores, h \in Announce!Hourly4 :
          \E f \in Announce!Final(s15, s1h, h[1]) :
              e = Announce!SnapshotEvent(s15, s1h, h[2], f)
  BY DEF Announce!SnapshotEvents
<1>3. s15 \in 0..60 /\ s1h \in 0..60 /\ h[1] \in 0..60
  BY TimeframeScores DEF Announce!Scores, Announce!Hourly4
<1>4. PICK s4h \in 0..60 : s4h = h[1]
  BY <1>3
<1>5. PICK f \in Announce!Final(s15, s1h, s4h) :
          e = Announce!SnapshotEvent(s15, s1h, h[2], f)
  BY <1>2, <1>4
<1>6. f \in Int /\ f <= 60
  <2>1. PICK tenths \in 0..600 : tenths = 5 * s15 + 3 * s1h + 2 * s4h
    BY <1>3
  <2>2. (tenths + 5) \div 10 \in Int /\ (tenths + 5) \div 10 <= 60
    BY <2>1
  <2>3. tenths \div 10 \in Int /\ tenths \div 10 <= 60
    BY <2>1
  <2>4. QED
    BY <1>5, <2>1, <2>2, <2>3 DEF Announce!Final
<1>7. e.score = f
  BY <1>5 DEF Announce!SnapshotEvent
<1>8. x = Announce!NoConsensus
  BY <1>1, <1>6, <1>7 DEF Announce!Consensus
<1>9. QED
  BY <1>8 DEF Announce!NoConsensus

(* What the tools hold, in runs that overlap too.                          *)
Rec == [by: Nat, item: Announce!SnapshotItems \cup LoopItem]
AlertsTyped ==
    /\ prev \in [Announce!Symbol -> Rec \cup {Null, Torn}]
    /\ viewing \in [Run -> Announce!Hands \cup {Null}]
    /\ told \subseteq Announce!Alert /\ changes \subseteq Announce!Alert
    /\ stopped \subseteq Nat /\ invoked \in Nat /\ viewsOverlapped \in BOOLEAN
ViewOf(r) ==
    viewing[r] # Null =>
        /\ viewing[r].at = "write" => viewing[r].next <= Len(Symbols)
        /\ viewing[r].batch =>
            viewing[r].items \in [Announce!Symbol -> Announce!SnapshotItems]
ViewsInv == AlertsTyped /\ \A r \in Run : ViewOf(r)

(* What a run that is at a symbol would announce.                          *)
LEMMA DueAlerts ==
    ASSUME AlertsTyped, NEW r \in Run, viewing[r] # Null, viewing[r].next <= Len(Symbols)
    PROVE  /\ Announce!Place(r) \in Announce!Symbol
           /\ Announce!Record(r) \in Rec /\ Announce!Record(r).by = viewing[r].number
           /\ prev[Announce!Place(r)] # Torn =>
                /\ Announce!Due(r) \subseteq Announce!Alert
                /\ \A a \in Announce!Due(r) :
                    /\ a.symbol = Announce!Place(r) /\ a.to = viewing[r].number
                    /\ a.tool = viewing[r].tool
                    /\ prev[Announce!Place(r)] \in Rec /\ a.from = prev[Announce!Place(r)].by
                    /\ \A b \in Announce!Due(r) : a = b
<1>1. PICK h \in Announce!Hands : h = viewing[r] /\ h.next <= Len(Symbols)
  BY DEF AlertsTyped
<1>2. Len(Symbols) \in Nat /\ h.next \in 1..Len(Symbols)
  BY <1>1, AlertsAssumption, LenProperties DEF Announce!Hands
<1>3. PICK s \in Announce!Symbol : s = Announce!Place(r) /\ s = Symbols[h.next]
  BY <1>1, <1>2 DEF Announce!Symbol, Announce!Place
<1>4. PICK x : x = Announce!Record(r)
  OBVIOUS
<1>5. x = [by |-> h.number, item |-> h.items[s]]
  BY <1>1, <1>3, <1>4 DEF Announce!Record
<1>6. h.items[s] \in Announce!SnapshotItems \cup LoopItem /\ h.number \in Nat
  BY <1>1, <1>3 DEF Announce!Hands
<1>7. x \in Rec /\ x.by = h.number
  BY <1>5, <1>6 DEF Rec
<1>8. ASSUME prev[s] # Torn
      PROVE  /\ Announce!Due(r) \subseteq Announce!Alert
             /\ \A a \in Announce!Due(r) :
                    /\ a.symbol = s /\ a.to = h.number /\ a.tool = h.tool
                    /\ prev[s] \in Rec /\ a.from = prev[s].by
                    /\ \A b \in Announce!Due(r) : a = b
  <2>1. Announce!Due(r) = Announce!Alerts(s, prev[s], x, h.tool)
    BY <1>1, <1>3, <1>4 DEF Announce!Due
  <2>2. CASE prev[s] = Null \/ Announce!Due(r) = {}
    BY <2>1, <2>2 DEF Announce!Alerts
  <2>3. CASE prev[s] # Null /\ Announce!Due(r) # {}
    <3>1. prev[s] \in Rec /\ prev[s].by \in Nat
      BY <1>3, <1>8, <2>3 DEF AlertsTyped, Rec
    <3>2. PICK k \in SUBSET {"jump", "riskUp", "drop"} :
              k = Announce!Kinds(prev[s].item, x.item)
      BY DEF Announce!Kinds
    <3>3. PICK b : b = [symbol |-> s, from |-> prev[s].by, to |-> x.by, tool |-> h.tool,
                        kinds |-> k]
      OBVIOUS
    <3>4. Announce!Due(r) = {b}
      BY <2>1, <2>3, <3>2, <3>3 DEF Announce!Alerts
    <3>5. b \in Announce!Alert
      BY <1>1, <1>6, <1>7, <3>1, <3>3 DEF Announce!Alert, Announce!Hands
    <3>6. b.symbol = s /\ b.to = h.number /\ b.tool = h.tool /\ b.from = prev[s].by
      BY <1>7, <3>3
    <3>7. QED
      BY <3>1, <3>4, <3>5, <3>6
  <2>4. QED
    BY <2>2, <2>3
<1>9. QED
  BY <1>1, <1>3, <1>4, <1>7, <1>8

(* What a run holds as it goes on.                                         *)
LEMMA ViewGoesOn ==
    ASSUME NEW h \in Announce!Hands, NEW new \in SUBSET Announce!Alert
    PROVE  /\ [h EXCEPT !.at = "write"] \in Announce!Hands
           /\ [h EXCEPT !.at = "write", !.events = @ \cup new] \in Announce!Hands
           /\ [h EXCEPT !.at = "compare", !.next = @ + 1] \in Announce!Hands
<1>1. [h EXCEPT !.at = "write"] \in Announce!Hands
  BY DEF Announce!Hands
<1>2. [h EXCEPT !.at = "write", !.events = @ \cup new] \in Announce!Hands
  <2>1. PICK events \in SUBSET Announce!Alert : events = h.events \cup new
    BY DEF Announce!Hands
  <2>2. [h EXCEPT !.at = "write", !.events = events] \in Announce!Hands
    BY DEF Announce!Hands
  <2>3. QED
    BY <2>1, <2>2
<1>3. [h EXCEPT !.at = "compare", !.next = @ + 1] \in Announce!Hands
  <2>1. PICK next \in Nat \ {0} : next = h.next + 1
    BY DEF Announce!Hands
  <2>2. [h EXCEPT !.at = "compare", !.next = next] \in Announce!Hands
    BY DEF Announce!Hands
  <2>3. QED
    BY <2>1, <2>2
<1>4. QED
  BY <1>1, <1>2, <1>3

LEMMA ViewsStep == ViewsInv /\ [Announce!Next]_Announce!alerts => ViewsInv'
<1> SUFFICES ASSUME ViewsInv, [Announce!Next]_Announce!alerts PROVE ViewsInv'
  OBVIOUS
<1>1. AlertsTyped /\ \A r \in Run : ViewOf(r)
  BY DEF ViewsInv
<1>2. ASSUME NEW r \in Run, Announce!Invoke(r) PROVE ViewsInv'
  <2>1. PICK tool \in {"dashboard", "events"}, batch \in BOOLEAN :
            \E items \in [Announce!Symbol ->
                            IF batch THEN Announce!SnapshotItems ELSE LoopItem] :
                viewing' = [viewing EXCEPT ![r] =
                    [number |-> invoked', tool |-> tool, batch |-> batch, items |-> items,
                     next |-> 1, at |-> "compare", events |-> {}]]
    BY <1>2 DEF Announce!Invoke
  <2>2. PICK items \in [Announce!Symbol ->
                            IF batch THEN Announce!SnapshotItems ELSE LoopItem] :
                viewing' = [viewing EXCEPT ![r] =
                    [number |-> invoked', tool |-> tool, batch |-> batch, items |-> items,
                     next |-> 1, at |-> "compare", events |-> {}]]
    BY <2>1
  <2>3. PICK h : h = [number |-> invoked', tool |-> tool, batch |-> batch, items |-> items,
                      next |-> 1, at |-> "compare", events |-> {}]
    OBVIOUS
  <2>4. /\ invoked' = invoked + 1 /\ invoked' \in Nat /\ viewsOverlapped' \in BOOLEAN
        /\ UNCHANGED <<prev, told, changes, stopped>>
    BY <1>1, <1>2 DEF Announce!Invoke, AlertsTyped
  <2>5. h \in Announce!Hands
    <3>1. items \in [Announce!Symbol -> Announce!SnapshotItems \cup LoopItem]
      OBVIOUS
    <3>2. QED
      BY <2>3, <2>4, <3>1 DEF Announce!Hands
  <2>6. viewing' = [viewing EXCEPT ![r] = h]
    BY <2>2, <2>3
  <2>7. AlertsTyped'
    BY <1>1, <2>4, <2>5, <2>6 DEF AlertsTyped
  <2>8. \A q \in Run : ViewOf(q)'
    BY <1>1, <2>2, <2>3, <2>6 DEF ViewOf, AlertsTyped
  <2>9. QED
    BY <2>7, <2>8 DEF ViewsInv
<1>3. ASSUME NEW r \in Run, NEW h \in Announce!Hands, NEW x \in Announce!Hands,
             h = viewing[r], viewing' = [viewing EXCEPT ![r] = x],
             x.batch = h.batch, x.items = h.items,
             x.at = "write" => x.next <= Len(Symbols),
             prev' \in [Announce!Symbol -> Rec \cup {Null, Torn}],
             told' \subseteq Announce!Alert, changes' \subseteq Announce!Alert,
             UNCHANGED <<stopped, viewsOverlapped, invoked>>
      PROVE  ViewsInv'
  <2>1. h # Null
    BY AlertsAssumption
  <2>2. AlertsTyped'
    BY <1>1, <1>3 DEF AlertsTyped
  <2>3. \A q \in Run : ViewOf(q)'
    BY <1>1, <1>3, <2>1 DEF ViewOf, AlertsTyped
  <2>4. QED
    BY <2>2, <2>3 DEF ViewsInv
<1>4. ASSUME NEW r \in Run, Announce!Compare(r) PROVE ViewsInv'
  <2>1. /\ viewing[r] # Null /\ viewing[r].next <= Len(Symbols)
        /\ prev[Announce!Place(r)] # Torn
        /\ UNCHANGED <<prev, changes, stopped, viewsOverlapped, invoked>>
    BY <1>4 DEF Announce!Compare
  <2>2. PICK h \in Announce!Hands : h = viewing[r] /\ h.next <= Len(Symbols)
    BY <1>1, <2>1 DEF AlertsTyped
  <2>3. Announce!Due(r) \subseteq Announce!Alert
    BY <1>1, <2>1, DueAlerts
  <2>4. PICK new \in SUBSET Announce!Alert : new = Announce!Due(r)
    BY <2>3
  <2>5. CASE h.tool = "dashboard"
    <3>1. PICK x : x = [h EXCEPT !.at = "write"]
      OBVIOUS
    <3>2. viewing' = [viewing EXCEPT ![r] = x] /\ told' = told \cup new
      BY <1>4, <2>2, <2>4, <2>5, <3>1 DEF Announce!Compare
    <3>3. x \in Announce!Hands
      BY <3>1, ViewGoesOn
    <3>4. x.batch = h.batch /\ x.items = h.items /\ x.next = h.next
      BY <3>1 DEF Announce!Hands
    <3>5. QED
      BY <1>1, <1>3, <2>1, <2>2, <3>2, <3>3, <3>4 DEF AlertsTyped
  <2>6. CASE h.tool # "dashboard"
    <3>1. PICK x : x = [h EXCEPT !.at = "write", !.events = @ \cup new]
      OBVIOUS
    <3>2. viewing' = [viewing EXCEPT ![r] = x] /\ told' = told
      BY <1>4, <2>2, <2>4, <2>6, <3>1 DEF Announce!Compare
    <3>3. x \in Announce!Hands
      BY <3>1, ViewGoesOn
    <3>4. x.batch = h.batch /\ x.items = h.items /\ x.next = h.next
      BY <3>1 DEF Announce!Hands
    <3>5. QED
      BY <1>1, <1>3, <2>1, <2>2, <3>2, <3>3, <3>4 DEF AlertsTyped
  <2>7. QED
    BY <2>5, <2>6
<1>5. ASSUME NEW r \in Run, Announce!Write(r) PROVE ViewsInv'
  <2>1. viewing[r] # Null /\ viewing[r].at = "write" /\ viewing[r].next <= Len(Symbols)
    BY <1>1, <1>5 DEF Announce!Write, ViewOf
  <2>2. PICK h \in Announce!Hands : h = viewing[r]
    BY <1>1, <2>1 DEF AlertsTyped
  <2>3. PICK s \in Announce!Symbol, rec \in Rec :
            s = Announce!Place(r) /\ rec = Announce!Record(r)
    BY <1>1, <2>1, DueAlerts
  <2>4. changes' \subseteq Announce!Alert
    <3>1. prev[s] # Torn => Announce!Due(r) \subseteq Announce!Alert
      BY <1>1, <2>1, <2>3, DueAlerts
    <3>2. QED
      BY <1>1, <1>5, <2>3, <3>1 DEF Announce!Write, AlertsTyped
  <2>5. PICK x : x = [h EXCEPT !.at = "compare", !.next = @ + 1]
    OBVIOUS
  <2>6. /\ viewing' = [viewing EXCEPT ![r] = x] /\ prev' = [prev EXCEPT ![s] = rec]
        /\ UNCHANGED <<told, stopped, viewsOverlapped, invoked>>
    BY <1>5, <2>2, <2>3, <2>5 DEF Announce!Write
  <2>7. x \in Announce!Hands
    BY <2>5, ViewGoesOn
  <2>8. x.batch = h.batch /\ x.items = h.items /\ x.at = "compare"
    BY <2>5 DEF Announce!Hands
  <2>9. prev' \in [Announce!Symbol -> Rec \cup {Null, Torn}]
    BY <1>1, <2>6 DEF AlertsTyped
  <2>10. QED
    BY <1>1, <1>3, <2>2, <2>4, <2>6, <2>7, <2>8, <2>9 DEF AlertsTyped
<1>6. ASSUME NEW r \in Run, Announce!Report(r) PROVE ViewsInv'
  <2>1. viewing[r] \in Announce!Hands
    BY <1>1, <1>6 DEF Announce!Report, AlertsTyped
  <2>2. viewing[r].events \subseteq Announce!Alert
    BY <2>1 DEF Announce!Hands
  <2>3. AlertsTyped'
    BY <1>1, <1>6, <2>2 DEF Announce!Report, AlertsTyped
  <2>4. \A q \in Run : ViewOf(q)'
    BY <1>1, <1>6 DEF Announce!Report, ViewOf, AlertsTyped
  <2>5. QED
    BY <2>3, <2>4 DEF ViewsInv
<1>7. ASSUME NEW r \in Run, Announce!Fail(r) PROVE ViewsInv'
  <2>1. /\ viewing[r] # Null /\ viewing' = [viewing EXCEPT ![r] = Null]
        /\ stopped' = stopped \cup {viewing[r].number}
        /\ UNCHANGED <<told, changes, viewsOverlapped, invoked>>
    BY <1>7 DEF Announce!Fail
  <2>2. viewing[r].number \in Nat
    BY <1>1, <2>1 DEF AlertsTyped, Announce!Hands
  <2>3. prev' \in [Announce!Symbol -> Rec \cup {Null, Torn}]
    BY <1>1, <1>7 DEF Announce!Fail, AlertsTyped
  <2>4. AlertsTyped'
    BY <1>1, <2>1, <2>2, <2>3 DEF AlertsTyped
  <2>5. \A q \in Run : ViewOf(q)'
    BY <1>1, <2>1 DEF ViewOf, AlertsTyped
  <2>6. QED
    BY <2>4, <2>5 DEF ViewsInv
<1>8. CASE UNCHANGED Announce!alerts
  BY <1>1, <1>8 DEF Announce!alerts, ViewsInv, AlertsTyped, ViewOf
<1>9. QED
  BY <1>2, <1>4, <1>5, <1>6, <1>7, <1>8 DEF Announce!Next

(* Nothing is due where nothing was seen before.                           *)
LEMMA DueNever ==
    ASSUME NEW r \in Run, prev[Announce!Place(r)] = Null
    PROVE  Announce!Due(r) = {}
BY DEF Announce!Due, Announce!Alerts

(* Runs that do not overlap.  What was shown: printed, written, or about   *)
(* to be written.                                                          *)
Viewing == {r \in Run : viewing[r] # Null}
Shown == told \cup UNION {viewing[r].events : r \in Viewing}
OneView == \A q, r \in Viewing : q = r
(* A run that is between the comparison and the record has shown what was  *)
(* due, and nobody wrote meanwhile.                                        *)
SerialView(r) ==
    /\ viewing[r].number = invoked
    /\ \A a \in viewing[r].events : a.tool = "events" /\ a.to = invoked
    /\ viewing[r].at = "write" =>
        prev[Announce!Place(r)] # Torn /\ Announce!Due(r) \subseteq Shown
(* What was shown goes no further than the record, except by a run that    *)
(* has not written it yet, or never will.                                  *)
Behind(a) ==
    \/ a.to \in stopped
    \/ prev[a.symbol] \in {Null, Torn}
    \/ a.to <= prev[a.symbol].by
    \/ \E r \in Viewing : viewing[r].at = "write" /\ a \in Announce!Due(r)
ToldApart(a, b) ==
    a.symbol = b.symbol /\ a.to \notin stopped /\ b.to \notin stopped =>
        a = b \/ a.to <= b.from \/ b.to <= a.from
SerialViews ==
    /\ OneView
    /\ \A r \in Viewing : SerialView(r)
    /\ \A s \in Announce!Symbol : prev[s] \notin {Null, Torn} => prev[s].by <= invoked
    /\ \A a \in Shown : a.to <= invoked /\ Behind(a)
    /\ \A a, b \in Shown : ToldApart(a, b)
    /\ \A c \in changes : c \in Shown \/ (c.tool = "events" /\ c.to \in stopped)
SerialAlerts == ~viewsOverlapped => SerialViews

LEMMA SerialAlertsStep ==
    ViewsInv /\ ViewsInv' /\ SerialAlerts /\ [Announce!Next]_Announce!alerts
    => SerialAlerts'
<1> SUFFICES ASSUME ViewsInv, ViewsInv', SerialAlerts,
                    [Announce!Next]_Announce!alerts, ~viewsOverlapped'
             PROVE  SerialViews'
  BY DEF SerialAlerts
<1>1. /\ AlertsTyped /\ \A r \in Run : ViewOf(r)
      /\ Shown \subseteq Announce!Alert
  <2>1. AlertsTyped /\ \A r \in Run : ViewOf(r)
    BY DEF ViewsInv
  <2>2. \A r \in Viewing :
            viewing[r] \in Announce!Hands /\ viewing[r].events \subseteq Announce!Alert
    BY <2>1 DEF AlertsTyped, Viewing, Announce!Hands
  <2>3. QED
    BY <2>1, <2>2 DEF Shown, AlertsTyped
<1>2. \A a \in Announce!Alert : a.symbol \in Announce!Symbol /\ a.from \in Nat /\ a.to \in Nat
  BY DEF Announce!Alert
<1>3. ~viewsOverlapped => SerialViews
  BY DEF SerialAlerts
<1>4. ASSUME NEW r \in Run, Announce!Invoke(r) PROVE SerialViews'
  <2>1. /\ Viewing = {} /\ SerialViews /\ invoked' = invoked + 1
        /\ UNCHANGED <<prev, told, changes, stopped>>
    BY <1>3, <1>4 DEF Announce!Invoke, Viewing
  <2>2. PICK h : /\ viewing' = [viewing EXCEPT ![r] = h]
                 /\ h.number = invoked' /\ h.at = "compare" /\ h.events = {}
    <3>1. PICK tool \in {"dashboard", "events"}, batch \in BOOLEAN :
              \E items \in [Announce!Symbol ->
                              IF batch THEN Announce!SnapshotItems ELSE LoopItem] :
                  viewing' = [viewing EXCEPT ![r] =
                      [number |-> invoked', tool |-> tool, batch |-> batch, items |-> items,
                       next |-> 1, at |-> "compare", events |-> {}]]
      BY <1>4 DEF Announce!Invoke
    <3>2. PICK items :
              viewing' = [viewing EXCEPT ![r] =
                  [number |-> invoked', tool |-> tool, batch |-> batch, items |-> items,
                   next |-> 1, at |-> "compare", events |-> {}]]
      BY <3>1
    <3>3. PICK h : h = [number |-> invoked', tool |-> tool, batch |-> batch, items |-> items,
                        next |-> 1, at |-> "compare", events |-> {}]
      OBVIOUS
    <3>4. h.number = invoked' /\ h.at = "compare" /\ h.events = {}
      BY <3>3
    <3>5. QED
      BY <3>2, <3>3, <3>4
  <2>3. Viewing' \subseteq {r} /\ viewing'[r] = h
    BY <1>1, <2>1, <2>2 DEF Viewing, AlertsTyped
  <2>4. Shown' = Shown
    BY <2>1, <2>2, <2>3 DEF Shown
  <2>5. OneView' /\ \A q \in Viewing' : SerialView(q)'
    BY <2>2, <2>3 DEF OneView, SerialView
  <2>6. \A s \in Announce!Symbol : prev'[s] \notin {Null, Torn} => prev'[s].by <= invoked'
    <3>1. ASSUME NEW s \in Announce!Symbol, prev[s] \notin {Null, Torn}
          PROVE  prev[s].by <= invoked + 1
      <4>1. prev[s].by \in Nat /\ prev[s].by <= invoked /\ invoked \in Nat
        BY <1>1, <2>1, <3>1 DEF SerialViews, AlertsTyped, Rec
      <4>2. QED
        BY <4>1
    <3>2. QED
      BY <2>1, <3>1
  <2>7. ASSUME NEW a \in Shown PROVE a.to <= invoked' /\ Behind(a)'
    <3>1. a.to \in Nat /\ a.to <= invoked /\ invoked \in Nat /\ Behind(a)
      BY <1>1, <1>2, <2>1 DEF SerialViews, AlertsTyped
    <3>2. Behind(a)'
      BY <2>1, <3>1 DEF Behind
    <3>3. QED
      BY <2>1, <3>1, <3>2
  <2>8. \A a, b \in Shown : ToldApart(a, b)'
    BY <2>1 DEF SerialViews, ToldApart
  <2>9. \A c \in changes' : c \in Shown' \/ (c.tool = "events" /\ c.to \in stopped')
    BY <2>1, <2>4 DEF SerialViews
  <2>10. QED
    BY <2>4, <2>5, <2>6, <2>7, <2>8, <2>9 DEF SerialViews
<1>5. ASSUME NEW r \in Run, Announce!Compare(r) PROVE SerialViews'
  <2>1. /\ viewing[r] # Null /\ viewing[r].at = "compare" /\ viewing[r].next <= Len(Symbols)
        /\ prev[Announce!Place(r)] # Torn /\ SerialViews
        /\ UNCHANGED <<prev, changes, stopped, viewsOverlapped, invoked>>
    BY <1>3, <1>5 DEF Announce!Compare
  <2>2. PICK h \in Announce!Hands : h = viewing[r]
    BY <1>1, <2>1 DEF AlertsTyped
  <2>3. Viewing = {r} /\ h.number = invoked
    BY <2>1, <2>2 DEF SerialViews, OneView, SerialView, Viewing
  <2>4. PICK new \in SUBSET Announce!Alert, s \in Announce!Symbol :
            /\ new = Announce!Due(r) /\ s = Announce!Place(r)
            /\ \A a \in new :
                    /\ a.symbol = s /\ a.to = invoked /\ a.tool = h.tool
                    /\ prev[s] \in Rec /\ a.from = prev[s].by
                    /\ \A b \in new : a = b
    BY <1>1, <2>1, <2>2, <2>3, DueAlerts
  <2>5. PICK x \in Announce!Hands :
            /\ viewing' = [viewing EXCEPT ![r] = x] /\ x.at = "write" /\ x.next = h.next
            /\ x.number = h.number /\ x.items = h.items /\ x.tool = h.tool
            /\ \/ h.tool = "dashboard" /\ x.events = h.events /\ told' = told \cup new
               \/ h.tool = "events" /\ x.events = h.events \cup new /\ told' = told
    <3>1. CASE h.tool = "dashboard"
      <4>1. PICK x : x = [h EXCEPT !.at = "write"]
        OBVIOUS
      <4>2. viewing' = [viewing EXCEPT ![r] = x] /\ told' = told \cup new
        BY <1>5, <2>2, <2>4, <3>1, <4>1 DEF Announce!Compare
      <4>3. x \in Announce!Hands
        BY <4>1, ViewGoesOn
      <4>4. x.at = "write" /\ x.next = h.next /\ x.number = h.number /\ x.items = h.items
            /\ x.tool = h.tool /\ x.events = h.events
        BY <4>1 DEF Announce!Hands
      <4>5. QED
        BY <3>1, <4>2, <4>3, <4>4
    <3>2. CASE h.tool # "dashboard"
      <4>1. PICK x : x = [h EXCEPT !.at = "write", !.events = @ \cup new]
        OBVIOUS
      <4>2. viewing' = [viewing EXCEPT ![r] = x] /\ told' = told
        BY <1>5, <2>2, <2>4, <3>2, <4>1 DEF Announce!Compare
      <4>3. x \in Announce!Hands
        BY <4>1, ViewGoesOn
      <4>4. x.at = "write" /\ x.next = h.next /\ x.number = h.number /\ x.items = h.items
            /\ x.tool = h.tool /\ x.events = h.events \cup new /\ h.tool = "events"
        BY <3>2, <4>1 DEF Announce!Hands
      <4>5. QED
        BY <4>2, <4>3, <4>4
    <3>3. QED
      BY <3>1, <3>2
  <2>6. Viewing' = {r} /\ viewing'[r] = x
    <3>1. x # Null
      BY AlertsAssumption
    <3>2. QED
      BY <1>1, <2>3, <2>5, <3>1 DEF Viewing, AlertsTyped
  <2>7. Shown' = Shown \cup new
    BY <2>2, <2>3, <2>5, <2>6 DEF Shown
  <2>8. Announce!Place(r)' = s /\ Announce!Due(r)' = new
    BY <2>1, <2>2, <2>4, <2>5, <2>6
       DEF Announce!Place, Announce!Due, Announce!Record
  <2>9. OneView' /\ \A q \in Viewing' : SerialView(q)'
    <3>1. \A a \in x.events : a.tool = "events" /\ a.to = invoked
      BY <2>1, <2>2, <2>3, <2>4, <2>5 DEF SerialViews, SerialView
    <3>2. SerialView(r)'
      BY <2>1, <2>3, <2>4, <2>5, <2>6, <2>7, <2>8, <3>1 DEF SerialView
    <3>3. QED
      BY <2>6, <3>2 DEF OneView
  <2>10. ASSUME NEW a \in Shown
         PROVE  a.to <= invoked /\ Behind(a)' /\ \A b \in new : ToldApart(a, b)' /\ ToldApart(b, a)'
    <3>1. a.to <= invoked /\ Behind(a) /\ a.to \in Nat /\ a.from \in Nat
      BY <1>1, <1>2, <2>1 DEF SerialViews
    <3>2. \/ a.to \in stopped
          \/ prev[a.symbol] \in {Null, Torn}
          \/ a.to <= prev[a.symbol].by
      BY <2>1, <2>3, <3>1 DEF Behind
    <3>3. Behind(a)'
      BY <2>1, <3>2 DEF Behind
    <3>4. ASSUME NEW b \in new, a.symbol = b.symbol, a.to \notin stopped
          PROVE  a.to <= b.from
      <4>1. b.from = prev[s].by /\ prev[s] \in Rec /\ a.symbol = s
        BY <2>4, <3>4
      <4>2. CASE prev[s] = Null
        <5>1. FALSE
          BY <2>4, <3>4, <4>2, DueNever
        <5>2. QED
          BY <5>1
      <4>3. CASE prev[s] # Null
        BY <2>1, <2>4, <3>2, <3>4, <4>1, <4>3
      <4>4. QED
        BY <4>2, <4>3
    <3>5. QED
      BY <2>1, <3>1, <3>3, <3>4 DEF ToldApart
  <2>11. ASSUME NEW a \in new PROVE a.to <= invoked /\ Behind(a)' /\ \A b \in new : ToldApart(a, b)'
    <3>1. Behind(a)'
      BY <2>5, <2>6, <2>8 DEF Behind
    <3>2. a.to = invoked /\ invoked \in Nat
      BY <1>1, <2>4 DEF AlertsTyped
    <3>3. \A b \in new : ToldApart(a, b)'
      BY <2>4 DEF ToldApart
    <3>4. QED
      BY <3>1, <3>2, <3>3
  <2>12. \A a, b \in Shown : ToldApart(a, b)'
    BY <2>1 DEF SerialViews, ToldApart
  <2>13. \A c \in changes' : c \in Shown' \/ (c.tool = "events" /\ c.to \in stopped')
    BY <2>1, <2>7 DEF SerialViews
  <2>14. \A a \in Shown' : a.to <= invoked' /\ Behind(a)'
    BY <2>1, <2>7, <2>10, <2>11
  <2>15. \A a, b \in Shown' : ToldApart(a, b)'
    BY <2>7, <2>10, <2>11, <2>12
  <2>16. \A t \in Announce!Symbol : prev'[t] \notin {Null, Torn} => prev'[t].by <= invoked'
    BY <2>1 DEF SerialViews
  <2>17. QED
    BY <2>9, <2>13, <2>14, <2>15, <2>16 DEF SerialViews
<1>6. ASSUME NEW r \in Run, Announce!Write(r) PROVE SerialViews'
  <2>1. /\ viewing[r] # Null /\ viewing[r].at = "write" /\ viewing[r].next <= Len(Symbols)
        /\ SerialViews
        /\ UNCHANGED <<told, stopped, viewsOverlapped, invoked>>
    BY <1>1, <1>3, <1>6 DEF Announce!Write, ViewOf
  <2>2. PICK h \in Announce!Hands : h = viewing[r]
    BY <1>1, <2>1 DEF AlertsTyped
  <2>3. Viewing = {r} /\ h.number = invoked /\ SerialView(r)
    BY <2>1, <2>2 DEF SerialViews, OneView, SerialView, Viewing
  <2>4. PICK s \in Announce!Symbol, rec \in Rec :
            /\ s = Announce!Place(r) /\ rec = Announce!Record(r) /\ rec.by = invoked
            /\ \A a \in Announce!Due(r) : a.symbol = s
    BY <1>1, <2>1, <2>2, <2>3, DueAlerts DEF SerialView
  <2>5. PICK x : x = [h EXCEPT !.at = "compare", !.next = @ + 1]
    OBVIOUS
  <2>6. x.at = "compare" /\ x.number = h.number /\ x.events = h.events
    BY <2>5 DEF Announce!Hands
  <2>7. /\ viewing' = [viewing EXCEPT ![r] = x] /\ prev' = [prev EXCEPT ![s] = rec]
        /\ changes' \subseteq changes \cup Announce!Due(r)
    BY <1>6, <2>2, <2>4, <2>5 DEF Announce!Write
  <2>8. Viewing' = {r} /\ viewing'[r] = x
    <3>1. x # Null
      BY <2>5, ViewGoesOn, AlertsAssumption
    <3>2. QED
      BY <1>1, <2>3, <2>7, <3>1 DEF Viewing, AlertsTyped
  <2>9. Shown' = Shown
    BY <2>1, <2>2, <2>3, <2>6, <2>8 DEF Shown
  <2>10. OneView' /\ \A q \in Viewing' : SerialView(q)'
    BY <2>1, <2>2, <2>3, <2>6, <2>8 DEF OneView, SerialView
  <2>11. /\ prev'[s] = rec
         /\ \A t \in Announce!Symbol : t # s => prev'[t] = prev[t]
    BY <1>1, <2>7 DEF AlertsTyped
  <2>12. \A t \in Announce!Symbol : prev'[t] \notin {Null, Torn} => prev'[t].by <= invoked'
    <3>1. invoked \in Nat
      BY <1>1 DEF AlertsTyped
    <3>2. QED
      BY <2>1, <2>4, <2>11, <3>1 DEF SerialViews
  <2>13. ASSUME NEW a \in Shown PROVE a.to <= invoked' /\ Behind(a)'
    <3>1. a.to <= invoked /\ Behind(a) /\ a.symbol \in Announce!Symbol
      BY <1>1, <1>2, <2>1 DEF SerialViews
    <3>2. CASE a.symbol = s
      BY <2>1, <2>4, <2>11, <3>1, <3>2 DEF Behind
    <3>3. CASE a.symbol # s
      BY <2>1, <2>3, <2>4, <2>11, <3>1, <3>3 DEF Behind
    <3>4. QED
      BY <2>1, <3>1, <3>2, <3>3
  <2>14. \A a, b \in Shown : ToldApart(a, b)'
    BY <2>1 DEF SerialViews, ToldApart
  <2>15. \A c \in changes' : c \in Shown' \/ (c.tool = "events" /\ c.to \in stopped')
    BY <2>1, <2>3, <2>7, <2>9 DEF SerialViews, SerialView
  <2>16. QED
    BY <2>9, <2>10, <2>12, <2>13, <2>14, <2>15 DEF SerialViews
<1>7. ASSUME NEW r \in Run, Announce!Report(r) PROVE SerialViews'
  <2>1. /\ viewing[r] # Null /\ viewing[r].next > Len(Symbols)
        /\ told' = told \cup viewing[r].events /\ viewing' = [viewing EXCEPT ![r] = Null]
        /\ SerialViews
        /\ UNCHANGED <<prev, changes, stopped, viewsOverlapped, invoked>>
    BY <1>3, <1>7 DEF Announce!Report
  <2>2. viewing[r].at # "write"
    <3>1. Len(Symbols) \in Nat /\ viewing[r].next \in Nat
      BY <1>1, <2>1, AlertsAssumption, LenProperties DEF AlertsTyped, Announce!Hands
    <3>2. QED
      BY <1>1, <2>1, <3>1 DEF ViewOf
  <2>3. Viewing = {r}
    BY <2>1 DEF SerialViews, OneView, Viewing
  <2>4. Viewing' = {} /\ Shown' = Shown
    <3>1. Viewing' = {}
      BY <1>1, <2>1, <2>3 DEF Viewing, AlertsTyped
    <3>2. QED
      BY <2>1, <2>3, <3>1 DEF Shown
  <2>5. \A a \in Shown : a.to <= invoked' /\ Behind(a)'
    BY <2>1, <2>2, <2>3 DEF SerialViews, Behind
  <2>6. \A a, b \in Shown : ToldApart(a, b)'
    BY <2>1 DEF SerialViews, ToldApart
  <2>7. QED
    BY <2>1, <2>4, <2>5, <2>6 DEF SerialViews, OneView
<1>8. ASSUME NEW r \in Run, Announce!Fail(r) PROVE SerialViews'
  <2>1. /\ viewing[r] # Null /\ viewing' = [viewing EXCEPT ![r] = Null]
        /\ stopped' = stopped \cup {viewing[r].number} /\ SerialViews
        /\ UNCHANGED <<told, changes, viewsOverlapped, invoked>>
    BY <1>3, <1>8 DEF Announce!Fail
  <2>2. Viewing = {r} /\ viewing[r].number = invoked /\ SerialView(r)
    BY <2>1 DEF SerialViews, OneView, SerialView, Viewing
  <2>3. Viewing' = {}
    BY <1>1, <2>1, <2>2 DEF Viewing, AlertsTyped
  <2>4. Shown' = told /\ Shown = told \cup viewing[r].events
    BY <2>1, <2>2, <2>3 DEF Shown
  <2>5. \A t \in Announce!Symbol : prev'[t] \in {prev[t], Torn}
    BY <1>1, <1>8 DEF Announce!Fail, AlertsTyped
  <2>6. ASSUME NEW a \in Shown PROVE a.to <= invoked' /\ Behind(a)'
    <3>1. a.to <= invoked /\ Behind(a) /\ a.symbol \in Announce!Symbol
      BY <1>1, <1>2, <2>1 DEF SerialViews
    <3>2. CASE viewing[r].at = "write" /\ a \in Announce!Due(r)
      <4>1. a.to = invoked
        <5>1. viewing[r].next <= Len(Symbols) /\ prev[Announce!Place(r)] # Torn
          BY <1>1, <2>1, <2>2, <3>2 DEF ViewOf, SerialView
        <5>2. QED
          BY <1>1, <2>1, <2>2, <3>2, <5>1, DueAlerts
      <4>2. a.to \in stopped'
        BY <2>1, <2>2, <4>1
      <4>3. QED
        BY <2>1, <3>1, <4>2 DEF Behind
    <3>3. CASE \/ a.to \in stopped
               \/ prev[a.symbol] \in {Null, Torn}
               \/ a.to <= prev[a.symbol].by
      BY <2>1, <2>5, <3>1, <3>3 DEF Behind
    <3>4. QED
      BY <2>2, <3>1, <3>2, <3>3 DEF Behind
  <2>7. \A a, b \in Shown : ToldApart(a, b)'
    BY <2>1 DEF SerialViews, ToldApart
  <2>8. \A t \in Announce!Symbol : prev'[t] \notin {Null, Torn} => prev'[t].by <= invoked'
    BY <2>1, <2>5 DEF SerialViews
  <2>9. \A c \in changes' : c \in Shown' \/ (c.tool = "events" /\ c.to \in stopped')
    BY <2>1, <2>2, <2>4 DEF SerialViews, SerialView
  <2>10. QED
    BY <2>1, <2>3, <2>4, <2>6, <2>7, <2>8, <2>9 DEF SerialViews, OneView
<1>9. CASE UNCHANGED Announce!alerts
  <2>1. /\ SerialViews /\ UNCHANGED <<prev, viewing, told, changes, stopped, invoked>>
    BY <1>3, <1>9 DEF Announce!alerts
  <2>2. Viewing' = Viewing /\ Shown' = Shown
    BY <2>1 DEF Viewing, Shown
  <2>3. \A r \in Run : Announce!Place(r)' = Announce!Place(r) /\ Announce!Due(r)' = Announce!Due(r)
    BY <2>1 DEF Announce!Place, Announce!Due, Announce!Record
  <2>4. QED
    BY <2>1, <2>2, <2>3
       DEF SerialViews, OneView, SerialView, Behind, ToldApart, Viewing
<1>10. QED
  BY <1>4, <1>5, <1>6, <1>7, <1>8, <1>9 DEF Announce!Next

(* However the tools run: a summary of snapshots calls for no trade; and   *)
(* while runs do not overlap, stopped anywhere, no stretch of a symbol's   *)
(* history is announced twice and no change between two records is left    *)
(* untold, but for what a stopped run leaves (sentinel_console_dashboard,  *)
(* sentinel_build_events, main).                                           *)
THEOREM AlertsSound == Sentinel => []AlertsAreSound
<1>1. Announce!Init => ViewsInv /\ SerialAlerts
  <2> SUFFICES ASSUME Announce!Init PROVE ViewsInv /\ SerialAlerts
    OBVIOUS
  <2>1. ViewsInv
    BY DEF Announce!Init, ViewsInv, ViewOf, AlertsTyped
  <2>2. Viewing = {} /\ Shown = {} /\ changes = {}
    <3>1. Viewing = {} /\ told = {} /\ changes = {}
      BY DEF Announce!Init, Viewing
    <3>2. QED
      BY <3>1 DEF Shown
  <2>3. \A s \in Announce!Symbol : prev[s] = Null
    BY DEF Announce!Init
  <2>4. QED
    BY <2>1, <2>2, <2>3 DEF SerialAlerts, SerialViews, OneView
<1>2. ViewsInv /\ SerialAlerts => AlertsAreSound
  <2> SUFFICES ASSUME ViewsInv, SerialAlerts PROVE AlertsAreSound
    OBVIOUS
  <2>1. Announce!SnapshotsAreNeutral
    <3>1. ASSUME NEW r \in Run, viewing[r] # Null, viewing[r].batch, NEW s \in Announce!Symbol
          PROVE  viewing[r].items[s].direction = "neutral"
      <4>1. viewing[r].items[s] \in Announce!SnapshotItems
        BY <3>1 DEF ViewsInv, ViewOf
      <4>2. QED
        BY <4>1, SnapshotNeutral
    <3>2. QED
      BY <3>1 DEF Announce!SnapshotsAreNeutral
  <2>2. ASSUME ~viewsOverlapped PROVE Announce!ToldOnce /\ Announce!NothingUntold
    <3>1. SerialViews /\ told \subseteq Shown
      BY <2>2 DEF SerialAlerts, Shown
    <3>2. Announce!ToldOnce
      BY <3>1 DEF SerialViews, ToldApart, Announce!ToldOnce
    <3>3. Announce!NothingUntold
      BY <3>1 DEF SerialViews, Shown, Viewing, Announce!NothingUntold
    <3>4. QED
      BY <3>2, <3>3
  <2>3. QED
    BY <2>1, <2>2 DEF AlertsAreSound, Announce!AlertsAreSound
<1>3. QED
  BY <1>1, <1>2, ViewsStep, SerialAlertsStep, SentinelRunsAlerts, PTL DEF Announce!Spec
=============================================================================
