---------------------------- MODULE SentinelLoop ----------------------------
(***************************************************************************)
(* scripts/run_sentinel_live_loop.sh for one symbol: a cycle reads the     *)
(* market, emits an event per timeframe, summarises them, decides on an    *)
(* execution intent, appends it to the audit chain, verifies the chain,    *)
(* and in live mode posts the intent to the executor and counts failures.  *)
(*                                                                         *)
(* Loops share all files, which are named by the second that the cycle     *)
(* began in; every command of a cycle is a step, and a cycle may end after *)
(* any of them (|| exit 1, or a crash).  The executor is an HTTP service:  *)
(* what it answers is infra/api/routes/executor.py.                        *)
(***************************************************************************)
EXTENDS SentinelSignal, Sequences, FiniteSets

CONSTANTS
    Loop,
    Mode,            \* EXECUTION_MODE of each loop
    Reading,         \* the derivatives that may be fetched: [oi, skew]
    Bar,             \* the candles that each timeframe may show: [candle, wide]
    MaxStreak,       \* EXECUTOR_FAIL_STREAK_MAX
    MaxSecond,
    MaxRuns,         \* runs of loops
    MaxCycles,       \* cycles of all runs
    MaxTogether,     \* the same when two loops have run at once
    Null, Torn

INSTANCE HashChain

Second == 1..MaxSecond
Intents == [score: Int, direction: Directions, risk: {"low", "medium", "high"},
            confidence: Int, delta: Int \cup {Unknown}, hourly: Legs, triggered: BOOLEAN]
\* What a row of the chain is about.
Payload == [ts: Second, intent: Intents]

ASSUME LoopAssumption ==
    /\ Mode \in [Loop -> {"dry_run", "paper", "live"}]
    /\ \A r \in Reading : r.oi \in Nat \ {0} /\ r.skew \in {-15, -8, 0, 8, 15}
    /\ \A tf \in Timeframe : Bar[tf] \subseteq [candle: {-5, 0, 5}, wide: BOOLEAN]
    /\ {MaxStreak, MaxRuns, MaxCycles, MaxTogether} \subseteq Nat /\ MaxSecond \in Nat \ {0}
    /\ Torn \notin [prev: Seq(Payload), payload: Payload]

NoReading == [at |-> 0, oi |-> 0]

VARIABLES
    clock,
    deriv,      \* deriv_TS.json, by TS
    prevOI,     \* prev_oi_SYMBOL_TF.json, by timeframe
    event,      \* domain_event_TS_TF.json, by TS and timeframe
    summary,    \* the item of summary_TS.json, with its 1h leg
    intent,     \* the item of intent_TS.json
    chain,      \* execution_intent.jsonl: a payload is the intent and its TS
    streak,     \* executor_fail_streak.txt
    pc, ts,     \* each loop's next step, and its TS
    leg,        \* the event that it has scored and not yet written
    last,       \* the last event id in the chain, or the hash it will append to
    failed,     \* FAIL_STREAK, as read
    code,       \* HTTP_CODE
    scored,     \* history: <<tf, from, to>>, the readings each event compares
    posted,     \* history: the intents sent, and whether this loop had appended them
    overlapped, \* history: two loops ran at once
    runs, cycles \* begun so far

files   == <<deriv, prevOI, event, summary, intent>>
local   == <<ts, leg, last, failed, code>>
posting == <<streak, posted>>
counts  == <<runs, cycles>>
vars    == <<clock, files, chain, posting, pc, local, scored, overlapped, counts>>

Init ==
    /\ clock = 1
    /\ deriv = [t \in Second |-> Null] /\ prevOI = [tf \in Timeframe |-> NoReading]
    /\ event = [t \in Second |-> [tf \in Timeframe |-> Null]]
    /\ summary = [t \in Second |-> Null] /\ intent = [t \in Second |-> Null]
    /\ chain = <<>> /\ streak = 0
    /\ pc = [l \in Loop |-> "off"] /\ ts = [l \in Loop |-> 0]
    /\ leg = [l \in Loop |-> Null] /\ last = [l \in Loop |-> Null]
    /\ failed = [l \in Loop |-> 0] /\ code = [l \in Loop |-> 0]
    /\ scored = {} /\ posted = {}
    /\ overlapped = FALSE /\ runs = 0 /\ cycles = 0

-----------------------------------------------------------------------------
(* An operator that nothing uses, placed just before the one it is named   *)
(* after, is that operator's faulty form for the mutation checks.          *)

Step(l, from, to) == pc[l] = from /\ pc' = [pc EXCEPT ![l] = to]

Tick ==
    /\ clock < MaxSecond
    /\ clock' = clock + 1
    /\ UNCHANGED <<files, chain, posting, pc, local, scored, overlapped, counts>>

StartRun(l) ==
    /\ runs < MaxRuns /\ Step(l, "off", "idle")
    /\ runs' = runs + 1
    /\ overlapped' = (overlapped \/ \E k \in Loop \ {l} : pc[k] # "off")
    /\ UNCHANGED <<clock, files, chain, posting, local, scored, cycles>>

(* A cycle begins, and the derivatives are fetched.                        *)
Begin(l) ==
    /\ cycles < IF overlapped THEN MaxTogether ELSE MaxCycles
    /\ Step(l, "idle", "score15m")
    /\ cycles' = cycles + 1
    /\ ts' = [ts EXCEPT ![l] = clock]
    /\ \E r \in Reading : deriv' = [deriv EXCEPT ![clock] = r]
    /\ UNCHANGED <<clock, prevOI, event, summary, intent, chain, posting, leg, last, failed, code,
                   scored, overlapped, runs>>

(* sentinel_emit_domain_event scores the reading against the previous one, *)
(* replaces that by this, and then writes the event.                       *)
ScoreStep(tf) == IF tf = "15m" THEN "score15m" ELSE "score1h"
WriteStep(tf) == IF tf = "15m" THEN "write15m" ELSE "write1h"
AfterWrite(tf) == IF tf = "15m" THEN "score1h" ELSE "summary"
Scored(l, tf, bar) ==
    LET now == deriv[ts[l]] IN
    Leg(tf, IF prevOI[tf].oi = 0 THEN Unknown ELSE Change(now.oi, prevOI[tf].oi),
        now.skew, bar)

EmitScoreOnly(l, tf) ==
    /\ Step(l, ScoreStep(tf), WriteStep(tf))
    /\ \E bar \in Bar[tf] : leg' = [leg EXCEPT ![l] = Scored(l, tf, bar)]
    /\ scored' = scored \cup {<<tf, prevOI[tf].at, ts[l]>>}
    /\ prevOI' = [prevOI EXCEPT ![tf] = IF @.at = 0 THEN [at |-> ts[l], oi |-> deriv[ts[l]].oi]
                                               ELSE @]
    /\ UNCHANGED <<clock, deriv, event, summary, intent, chain, posting, ts, last, failed, code,
                   overlapped, counts>>
EmitScore(l, tf) ==
    /\ Step(l, ScoreStep(tf), WriteStep(tf))
    /\ \E bar \in Bar[tf] : leg' = [leg EXCEPT ![l] = Scored(l, tf, bar)]
    /\ scored' = scored \cup {<<tf, prevOI[tf].at, ts[l]>>}
    /\ prevOI' = [prevOI EXCEPT ![tf] = [at |-> ts[l], oi |-> deriv[ts[l]].oi]]
    /\ UNCHANGED <<clock, deriv, event, summary, intent, chain, posting, ts, last, failed, code,
                   overlapped, counts>>
EmitWrite(l, tf) ==
    /\ Step(l, WriteStep(tf), AfterWrite(tf))
    /\ event' = [event EXCEPT ![ts[l]][tf] = leg[l]]
    /\ leg' = [leg EXCEPT ![l] = Null]
    /\ UNCHANGED <<clock, deriv, prevOI, summary, intent, chain, posting, ts, last, failed, code,
                   scored, overlapped, counts>>

Summarise(l) ==
    LET e == event[ts[l]] IN
    /\ Step(l, "summary", "intent")
    /\ summary' = [summary EXCEPT ![ts[l]] =
                    [item |-> Consensus(e["15m"], e["1h"]), hourly |-> e["1h"]]]
    /\ UNCHANGED <<clock, deriv, prevOI, event, intent, chain, posting, local, scored,
                   overlapped, counts>>

(* The change of open interest is between the cycle's file and the one     *)
(* before it by name.  By now the cycle's second is over: it has started   *)
(* a dozen interpreters.                                                   *)
FileBefore(t) == Max({0} \cup {u \in 1..(t - 1) : deriv[u] # Null})
FileChange(t) == IF FileBefore(t) = 0 THEN Unknown
                 ELSE Change(deriv[t].oi, deriv[FileBefore(t)].oi)
(* The consensus is what a summary's item says, in two places.             *)
Selected(t) == summary[t].item
BuildIntent(l) ==
    LET t == ts[l]
        s == Selected(t)
    IN
    /\ clock > t /\ Step(l, "intent", "dedupe")
    /\ intent' = [intent EXCEPT ![t] =
                    [score |-> s.score, direction |-> s.direction,
                     risk |-> s.risk, confidence |-> s.confidence,
                     delta |-> FileChange(t), hourly |-> summary[t].hourly,
                     triggered |-> Triggers(Mode[l], s, FileChange(t))]]
    /\ UNCHANGED <<clock, deriv, prevOI, event, summary, chain, posting, local, scored,
                   overlapped, counts>>

-----------------------------------------------------------------------------
(* The intent is not appended when the last row that parses is of its TS.  *)
Rows == {i \in 1..Len(chain) : chain[i] # Torn}
LastAppended == IF Rows = {} THEN 0 ELSE chain[Max(Rows)].payload.ts
Dedupe(l) ==
    /\ pc[l] = "dedupe"
    /\ IF LastAppended = ts[l] THEN Step(l, "dedupe", "decide") ELSE Step(l, "dedupe", "hash")
    /\ last' = [last EXCEPT ![l] = Null]
    /\ UNCHANGED <<clock, files, chain, posting, ts, leg, failed, code, scored, overlapped, counts>>

(* append_audit reads the last line's hash, and appends.                   *)
ReadHash(l) ==
    /\ Readable(chain) /\ Step(l, "hash", "append")
    /\ last' = [last EXCEPT ![l] = [prev |-> LastHash(chain),
                                    payload |-> [ts |-> ts[l], intent |-> intent[ts[l]]]]]
    /\ UNCHANGED <<clock, files, chain, posting, ts, leg, failed, code, scored, overlapped, counts>>
AppendRow(l) ==
    /\ Step(l, "append", "verify")
    /\ chain' = Append(chain, last[l])
    /\ UNCHANGED <<clock, files, posting, local, scored, overlapped, counts>>
VerifyNothing(l) ==
    /\ Step(l, "verify", "decide")
    /\ UNCHANGED <<clock, files, chain, posting, local, scored, overlapped, counts>>
Verify(l) ==
    /\ Linked(chain) /\ Step(l, "verify", "decide")
    /\ UNCHANGED <<clock, files, chain, posting, local, scored, overlapped, counts>>

-----------------------------------------------------------------------------
(* A live loop posts an intent that triggered; the failure count is read   *)
(* first and written last.                                                 *)
Posts(l) == Mode[l] = "live" /\ intent[ts[l]].triggered
EndCycle(l) ==
    /\ ts' = [ts EXCEPT ![l] = 0] /\ leg' = [leg EXCEPT ![l] = Null]
    /\ last' = [last EXCEPT ![l] = Null]
    /\ failed' = [failed EXCEPT ![l] = 0] /\ code' = [code EXCEPT ![l] = 0]
Skip(l) ==
    /\ Step(l, "decide", "idle") /\ ~Posts(l) /\ EndCycle(l)
    /\ UNCHANGED <<clock, files, chain, posting, scored, overlapped, counts>>
ReadStreak(l) ==
    /\ Step(l, "decide", "post") /\ Posts(l)
    /\ failed' = [failed EXCEPT ![l] = streak]
    /\ UNCHANGED <<clock, files, chain, posting, ts, leg, last, code, scored, overlapped, counts>>

(* The live gate, where it is enforced, wants the keys of another kind of  *)
(* intent than the loop's.                                                 *)
IntentKeys == {"schema", "domain", "kind", "event_id", "ts_iso", "intent", "meta",
               "evidence_refs"}
GateKeys == {"run_id", "ts_utc", "symbol", "side", "order_type", "qty", "mode", "risk",
             "evidence"}
GateKeysCovered == GateKeys \subseteq IntentKeys
GateAllows == GateKeysCovered /\ "last_price_usd" \in IntentKeys

(* Denied, it answers as LIVE_GATE_MODE says, or fails on its capsule.     *)
GateAnswers == IF GateAllows THEN {} ELSE {200, 403, 500}

(* execute_market answers 200 when live trading is not enabled, and 423    *)
(* when the kill switch is on.  Past the gate it runs the append tool with *)
(* an option that the tool does not have, and answers 500; the row that    *)
(* the loop has written is not found as a duplicate, for a blank in it, so *)
(* that it never answers 409.                                              *)
ExecuteMarket == {200, 423, 500} \cup GateAnswers
NoAnswer == 0
Post(l) ==
    /\ Step(l, "post", "answer")
    /\ posted' = posted \cup {[ts |-> ts[l], intent |-> intent[ts[l]], own |-> last[l] # Null]}
    /\ \E c \in ExecuteMarket \cup {NoAnswer} : code' = [code EXCEPT ![l] = c]
    /\ UNCHANGED <<clock, files, chain, streak, ts, leg, last, failed, scored, overlapped, counts>>

(* The run that counts one failure too many ends.                          *)
Record(l) ==
    LET ok == code[l] \in {200, 409} IN
    /\ streak' = IF ok THEN 0 ELSE failed[l] + 1
    /\ Step(l, "answer", IF ~ok /\ failed[l] + 1 > MaxStreak THEN "off" ELSE "idle")
    /\ EndCycle(l)
    /\ UNCHANGED <<clock, files, chain, posted, scored, overlapped, counts>>

(* A run ends, or a command of it fails and the run with it, perhaps with  *)
(* part of its row in the chain.                                           *)
Stop(l) ==
    /\ pc[l] # "off"
    /\ pc' = [pc EXCEPT ![l] = "off"] /\ EndCycle(l)
    /\ chain' \in {chain} \cup IF pc[l] = "append" THEN {Append(chain, Torn)} ELSE {}
    /\ UNCHANGED <<clock, files, posting, scored, overlapped, counts>>

-----------------------------------------------------------------------------
Next ==
    \/ Tick
    \/ \E l \in Loop :
        \/ StartRun(l) \/ Begin(l) \/ \E tf \in Timeframe : EmitScore(l, tf) \/ EmitWrite(l, tf)
        \/ Summarise(l) \/ BuildIntent(l)
        \/ Dedupe(l) \/ ReadHash(l) \/ AppendRow(l) \/ Verify(l)
        \/ Skip(l) \/ ReadStreak(l) \/ Post(l) \/ Record(l) \/ Stop(l)

Spec == Init /\ [][Next]_vars

-----------------------------------------------------------------------------
(* Properties.                                                             *)

(* However loops share and overwrite the files: an intent triggers only    *)
(* long (no reading gives a short one), with an hourly score of 55 or more *)
(* and an open interest that did not fall by 20 % from the file before, in *)
(* live mode not with a high risk; and an order follows only if it fell by *)
(* less than 0.2 %.                                                        *)
TriggersAreAgreed ==
    \A t \in Second : intent[t] # Null /\ intent[t].triggered =>
        /\ intent[t].direction = "long" /\ intent[t].hourly.score >= 55
        /\ ~Vetoed(intent[t].delta)
        /\ intent[t].score >= 80 => ~intent[t].hourly.wide
        /\ OrderOf("paper", intent[t]) \in {"BUY", "NONE"}

(* What is posted was audited first; a loop that appended the row itself   *)
(* posts only if every row up to it links; and loops that do not overlap   *)
(* post what the row says.                                                 *)
PostsAreAudited ==
    \A x \in posted : \E i \in Rows :
        /\ chain[i].payload.ts = x.ts
        /\ ~overlapped => chain[i].payload.intent = x.intent
        /\ x.own => Linked(SubSeq(chain, 1, i))

(* Loops that do not overlap compare no two readings twice, though a cycle *)
(* may end between the state and the event: the spans of the events of a   *)
(* timeframe do not overlap either.                                        *)
SerialMovesScoredOnce ==
    ~overlapped => \A a, b \in scored :
        a[1] = b[1] => a = b \/ a[3] <= b[2] \/ b[3] <= a[2]
=============================================================================
