--------------------------- MODULE SentinelSignal ---------------------------
(***************************************************************************)
(* What the sentinel tools compute from market readings: the score of a    *)
(* reading per timeframe, the consensus of the two timeframes, whether an  *)
(* execution intent triggers, and whether a paper order follows from it    *)
(* (tools/sentinel_emit_domain_event, _build_summary,                      *)
(* _build_execution_intent, _build_paper_orders, policies/sentinel).       *)
(*                                                                         *)
(* Changes of open interest are in hundredths of a percent, cut towards    *)
(* zero as the emitter's dead zone does, confidence in units of 1/10000.   *)
(***************************************************************************)
EXTENDS Integers, FiniteSetsExt

CONSTANTS
    QualityMode,  \* quality_policy.mode of the trigger policy
    Unknown       \* no open interest to compare with

ASSUME SignalAssumption ==
    QualityMode \in {"observer", "soft_gate", "hard_gate"} /\ Unknown \notin Int

Timeframe == {"15m", "1h"}

-----------------------------------------------------------------------------
(* An operator that nothing uses, placed just before the one it is named   *)
(* after, is that operator's faulty form for the mutation checks.          *)

Magnitude(n) == IF n < 0 THEN -n ELSE n
Lesser(a, b) == Min({a, b})

Change(now, before) ==
    IF now >= before THEN ((now - before) * 10000) \div before
                     ELSE -(((before - now) * 10000) \div before)

(* The steps of the score that a change of open interest is worth, from    *)
(* the thresholds of the timeframe.                                        *)
Thresholds(tf) == IF tf = "15m" THEN [s |-> 1, m |-> 3, l |-> 6]
                                ELSE [s |-> 99900, m |-> 99900, l |-> 99900]
Moved(tf, delta) ==
    LET th == Thresholds(tf)
        by == Magnitude(delta)
        points == IF by >= th.l THEN 20 ELSE IF by >= th.m THEN 12
                  ELSE IF by >= th.s THEN 6 ELSE 0
    IN IF delta = Unknown THEN 0 ELSE IF delta < 0 THEN -points ELSE points

(* score_v2: skew is what the long/short ratio is worth, candle +5, 0, -5. *)
Score(tf, delta, skew, candle) ==
    Max({0, Lesser(100, 50 + skew + Moved(tf, delta) + candle)})
Direction(score) ==
    IF score >= 65 THEN "long" ELSE IF score <= 35 THEN "short" ELSE "neutral"
Confidence(score, delta) ==
    (IF Direction(score) = "neutral" THEN 5500
                                     ELSE 5000 + Lesser(100 * Magnitude(score - 50), 3500))
    + (IF delta = Unknown THEN 0 ELSE Lesser(Magnitude(delta), 1000))

(* A leg of the summary.  wide: the candle's range is 0.25 % or more.      *)
Leg(tf, delta, skew, bar) ==
    LET s == Score(tf, delta, skew, bar.candle) IN
    [score |-> s, direction |-> Direction(s), confidence |-> Confidence(s, delta),
     wide |-> bar.wide]

-----------------------------------------------------------------------------
Directions == {"long", "short", "neutral"}
(* The legs and the items that a summary may have.                         *)
Legs == {x \in [score: Int, direction: Directions, confidence: Int, wide: BOOLEAN] :
            x.direction = Direction(x.score)}
Items == [score: Int, direction: Directions, risk: {"low", "medium", "high"}, confidence: Int]

(* _consensus_stable: the shorter timeframe triggers, the longer one must  *)
(* not contradict it.  Legs have no metrics, so that two of the conditions *)
(* for a high risk are all there are.                                      *)
NoConsensus == [score |-> 60, direction |-> "neutral", risk |-> "medium", confidence |-> 5500]
ConsensusOfOne(l15, l1) ==
    IF l15.score >= 70 /\ l15.direction \in {"long", "short"}
    THEN LET s == Lesser(l15.score, l1.score + 20) IN
         [score |-> s, direction |-> l15.direction,
          risk |-> IF s >= 80 /\ l1.wide THEN "high" ELSE "medium",
          confidence |-> Lesser(10000, Lesser(l15.confidence, l1.confidence) + 500)]
    ELSE NoConsensus
Consensus(l15, l1) ==
    IF /\ l15.score >= 70 /\ l15.direction \in {"long", "short"}
       /\ l1.direction \in {l15.direction, "neutral"} /\ l1.score >= 55
    THEN LET s == Lesser(l15.score, l1.score + 20) IN
         [score |-> s, direction |-> l15.direction,
          risk |-> IF s >= 80 /\ l1.wide THEN "high" ELSE "medium",
          confidence |-> Lesser(10000, Lesser(l15.confidence, l1.confidence) + 500)]
    ELSE NoConsensus

(* _evaluate_trigger and _apply_quality_policy: a summary's item never has *)
(* a quality block, which counts as evidence that is not ok.               *)
Vetoed(delta) == delta # Unknown /\ delta <= -2000
Triggers(mode, item, delta) ==
    /\ ~Vetoed(delta)
    /\ item.score >= (IF mode = "paper" THEN 60 ELSE 75)
    /\ item.direction \in {"long", "short"}
    /\ item.risk \in {"low", "medium"}
    /\ item.confidence >= (IF mode = "paper" THEN 5500 ELSE 7000)
    /\ QualityMode # "hard_gate"

(* The quality effects of an intent's item let new entries in unless the   *)
(* trigger policy made them reduce-only.                                   *)
NewEntries == QualityMode # "soft_gate"

(* The rule PAPER_ONLY and the quality effects: the side of the order that *)
(* the intent's item becomes, if any.                                      *)
OrderOf(mode, intent) ==
    IF /\ mode = "paper" /\ intent.triggered
       /\ intent.direction \in {"long", "short"} /\ intent.risk \in {"low", "medium"}
       /\ intent.confidence >= 5500 /\ intent.score >= 60
       /\ intent.delta # Unknown /\ intent.delta > -20
       /\ NewEntries
    THEN IF intent.direction = "long" THEN "BUY" ELSE "SELL"
    ELSE "NONE"
=============================================================================
