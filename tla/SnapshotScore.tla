--------------------------- MODULE SnapshotScore ---------------------------
(***************************************************************************)
(* tools/sentinel_score_snapshot_v0_2: a snapshot scores three timeframes  *)
(* by the last price against its averages, and concludes a direction and a *)
(* risk.  sentinel_build_domain_event makes one event of it, which the     *)
(* summary reads as the leg of either timeframe, by the older file name.   *)
(***************************************************************************)
EXTENDS SentinelSignal

(* What the price and the indicators of one timeframe show: the price      *)
(* against ema200, the index's band, and what is above or positive.        *)
Band == {"below50", "from50", "from60", "from70", "from75"}
Chart == [trend: {-1, 0, 1}, rsi: Band, emas: BOOLEAN, vwap: BOOLEAN, obv: BOOLEAN,
          ema20: BOOLEAN]

Worth(b, n) == IF b THEN n ELSE 0
RsiPoints(band) ==
    [below50 |-> 0, from50 |-> 8, from60 |-> 12, from70 |-> 6, from75 |-> 6 - 5][band]

(* _tf_score                                                               *)
TfScore(c) ==
    LET sum == Worth(c.trend = 1, 15) - Worth(c.trend = -1, 10) + RsiPoints(c.rsi)
               + Worth(c.emas, 10) + Worth(c.vwap, 10) + Worth(c.obv, 10) + Worth(c.ema20, 3)
    IN Max({0, Lesser(100, sum)})

(* round(0.5 * s15 + 0.3 * s1h + 0.2 * s4h); a half may go either way.     *)
Final(s15, s1h, s4h) ==
    LET tenths == 5 * s15 + 3 * s1h + 2 * s4h IN
    {(tenths + 5) \div 10} \cup IF tenths % 10 = 5 THEN {tenths \div 10} ELSE {}

(* The event of a snapshot.                                                *)
SnapshotEvent(s15, s1h, trend4h, final) ==
    [score |-> final,
     direction |-> IF s15 >= 65 /\ s1h >= 55 /\ trend4h = 1 THEN "long"
                   ELSE IF s15 <= 35 /\ s1h <= 45 /\ trend4h = -1 THEN "short"
                   ELSE "neutral",
     risk |-> IF trend4h = -1 \/ final < 55 THEN "high"
              ELSE IF final >= 75 /\ trend4h = 1 THEN "low" ELSE "medium",
     confidence |-> 100 * final, wide |-> FALSE]

Scores == {TfScore(c) : c \in Chart}
Hourly4 == {<<TfScore(c), c.trend>> : c \in Chart}
SnapshotEvents ==
    UNION {{SnapshotEvent(s15, s1h, h[2], f) : f \in Final(s15, s1h, h[1])} :
              s15 \in Scores, s1h \in Scores, h \in Hourly4}

(* What a summary of snapshot events says of a symbol.                     *)
SnapshotItems == {Consensus(e, e) : e \in SnapshotEvents}
=============================================================================
