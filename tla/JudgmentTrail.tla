--------------------------- MODULE JudgmentTrail ---------------------------
(***************************************************************************)
(* The trail of a sentinel trade intent.  consume_trade_intent captures a  *)
(* market snapshot, picks a card and appends a hash-chained judgment       *)
(* event, signed or not; record_outcome labels a judgment later; and       *)
(* replay_judgments joins events and outcomes into a report.               *)
(*                                                                         *)
(* Every command is a process of its own over shared files.  A hash is the *)
(* sequence of what was hashed, as in HashChain, but a row also keeps the  *)
(* hash that was computed when it was built.                               *)
(***************************************************************************)
EXTENDS Naturals, Sequences, FiniteSets, TradeIntent

CONSTANTS
    Judgment,      \* judgments, in the order of their ids: 1..n
    Giving,        \* what the consumers may be given: see given
    Bundle,        \* what the exchange may answer
    Label,         \* outcome labels that people record
    MaxOutcomes,   \* bound on the outcomes recorded
    Null, Torn

VARIABLES
    given,     \* by judgment: a model's answer, and the way it came to the consumer
    snap,      \* snapshots by judgment: the bundle, and whether numbers were filled in
    trail,     \* the lines of judgment_events_chain.jsonl
    cut,       \* its last line has no newline
    row,       \* the row that each running consumer will append
    step,      \* where each consumer is
    outcome,   \* outcomes/ID.json: a label, Torn while it is rewritten
    report,    \* replay_judgments: the events it read, and each one's outcome so far
    recorded,  \* history: <<judgment, label>>, the outcomes ever recorded
    before,    \* history: the judgments with an outcome when the report began
    spoiled    \* history: a row was written after another than it was built on,
               \* or only in part

consumers == <<given, snap, trail, cut, row, step, spoiled>>
results   == <<outcome, report, recorded, before>>
trailVars == <<consumers, results>>

Init ==
    /\ given \in Giving
    /\ snap = [j \in Judgment |-> Null] /\ trail = <<>> /\ cut = FALSE
    /\ row = [j \in Judgment |-> Null] /\ step = [j \in Judgment |-> "new"]
    /\ outcome = [j \in Judgment |-> Null] /\ report = Null
    /\ recorded = {} /\ before = {} /\ spoiled = FALSE

-----------------------------------------------------------------------------
(* capture_market_snapshot.  A bundle has for each timeframe asked for the *)
(* exchange's answer: an error, rows of which none parses, or candles of   *)
(* which the last is old, or that are too few for any indicator (short) or *)
(* for some (fair), or good; and the derivatives that came as numbers.     *)
(*                                                                         *)
(* An operator that nothing uses, placed just before the one it is named   *)
(* after, is that operator's faulty form for the mutation checks.          *)

Timeframes(b) == DOMAIN b.candles
ParsedRows(answer) == IF answer = "malformed" THEN "none" ELSE answer
Candles(b) ==
    [tf \in Timeframes(b) |->
        IF b.candles[tf] = "error" THEN "none" ELSE ParsedRows(b.candles[tf])]
(* Old candles are dropped before the evidence is built.                   *)
PrunedNothing(b) == Candles(b)
Pruned(b) ==
    [tf \in Timeframes(b) |-> IF Candles(b)[tf] = "old" THEN "none" ELSE Candles(b)[tf]]
Derivatives == {"openInterest", "fundingRate", "longShortRatio"}
Unparsed(b) == Derivatives \ b.derivatives
RawErrors(b) == Unparsed(b) \cup {tf \in Timeframes(b) : Candles(b)[tf] = "none"}
\* None is dropped; no adapter names a severity, and none of these is a warning.
ProofErrors(b) == [error: RawErrors(b), severity: {"error"}]

(* The indicators that so many candles allow.                              *)
Ema(candles) == IF candles \in {"fair", "good"} THEN {"ema20", "rsi14"} ELSE {}
Vwap(candles) == IF candles = "good" THEN {"vwap"} ELSE {}
Cvd(candles) == candles = "good"
Indicators(b) == [tf \in Timeframes(b) |-> Ema(Pruned(b)[tf])]
BasePreference == <<"15m", "5m", "1m">>
Present(b) == {i \in 1..3 : BasePreference[i] \in Timeframes(b) /\
                            Pruned(b)[BasePreference[i]] # "none"}
BaseTf(b) == BasePreference[CHOOSE i \in Present(b) : \A k \in Present(b) : i <= k]
(* Only the base timeframe must have its indicators.                       *)
EvidenceOk(b) ==
    /\ ProofErrors(b) = {}
    /\ \A tf \in Timeframes(b) : Pruned(b)[tf] # "none"
    /\ Present(b) # {} /\ Indicators(b)[BaseTf(b)] # {}

(* Without evidence every field keeps its placeholder.                     *)
Price(candles) == IF candles = "none" THEN {} ELSE {"price"}
Filled(b) ==
    IF EvidenceOk(b)
    THEN [tf \in Timeframes(b) |->
            Price(Pruned(b)[tf]) \cup Indicators(b)[tf] \cup Vwap(Pruned(b)[tf])]
    ELSE [tf \in Timeframes(b) |-> {}]
DerivativesFilled(b) ==
    IF EvidenceOk(b)
    THEN b.derivatives \cup (IF "15m" \in Timeframes(b) /\ Cvd(Pruned(b)["15m"]) THEN {"cvd"} ELSE {})
    ELSE {}
Snapshot(b) == [of |-> b, numbers |-> Filled(b), derivatives |-> DerivativesFilled(b)]

(* A line of the trail, and what the exchange may answer for a timeframe.  *)
Entry ==
    [id: Judgment, card: [status: {"ACCEPTED", "BLOCKED"}, side: {"LONG", "SHORT", "FLAT"}]]
Draft == [prev: Seq(Seq(Entry)), payload: Entry]
Line ==
    [prev: Seq(Seq(Entry)), payload: Entry, hash: Seq(Seq(Entry)),
     signature: {"signed", "unsigned"}]
Fetched == {"error", "malformed", "old", "short", "fair", "good"}

Genesis == <<>>
Preimage(r) == Append(r.prev, <<r.payload>>)
SignedPreimage(r) == Append(r.prev, <<r.payload, r.signature>>)

(* _read_last_hash raises on a last line that does not parse.              *)
Readable == trail # <<>> => trail[Len(trail)] # Torn
LastHash == IF trail = <<>> THEN Genesis ELSE trail[Len(trail)].hash

(* The intent is valid and the last hash read; the bundle is fetched and   *)
(* the snapshot replaced in place in one step; the row is built and        *)
(* appended, with the judgment's id, its card and its status.              *)
Turn(j) == step[j] = "new" /\ \A i \in Judgment : i < j => step[i] # "new"
Received(j) == Arrived(given[j].way, given[j].answer)
Accepted(j) == Arrives(given[j].way, given[j].answer) /\ ConsumerAccepts(Received(j))
Refuse(j) ==
    /\ Turn(j) /\ ~Accepted(j)
    /\ step' = [step EXCEPT ![j] = "done"]
    /\ UNCHANGED <<given, snap, trail, cut, row, spoiled, results>>
ReadLast(j) ==
    /\ Turn(j) /\ Accepted(j) /\ Readable
    /\ row' = [row EXCEPT ![j] = [prev |-> LastHash,
                                 payload |-> [id |-> j, card |-> Card(Received(j))]]]
    /\ step' = [step EXCEPT ![j] = "read"]
    /\ UNCHANGED <<given, snap, trail, cut, spoiled, results>>
Capture(j) ==
    /\ step[j] = "read"
    /\ \E b \in Bundle : snap' = [snap EXCEPT ![j] = Snapshot(b)]
    /\ step' = [step EXCEPT ![j] = "captured"]
    /\ UNCHANGED <<given, trail, cut, row, spoiled, results>>

(* Signing is off, or on with a key or without.  A row without a signature *)
(* is one of a process that was to sign none: a key that is missing ends   *)
(* the process, as SystemExit is no Exception.                             *)
Config == {"off", "keyed", "keyless"}
KeyMissing(config) == config = "keyless"
SignatureBy(config) == IF config = "off" THEN "unsigned" ELSE "signed"

Signed(r, signature) ==
    [prev |-> r.prev, payload |-> r.payload, hash |-> Preimage(r), signature |-> signature]
SignedOver(r, signature) ==
    [prev |-> r.prev, payload |-> r.payload, signature |-> signature,
     hash |-> SignedPreimage([prev |-> r.prev, payload |-> r.payload, signature |-> signature])]
(* Text that follows a line without a newline becomes part of that line.   *)
Extended(line) == IF cut THEN [trail EXCEPT ![Len(trail)] = Torn] ELSE Append(trail, line)
Damages(j) == cut \/ ~Readable \/ row[j].prev # LastHash

AppendOver(j) ==
    /\ step[j] = "captured"
    /\ \E config \in Config :
        ~KeyMissing(config) /\ trail' = Extended(SignedOver(row[j], SignatureBy(config)))
    /\ cut' = FALSE /\ spoiled' = (spoiled \/ Damages(j))
    /\ row' = [row EXCEPT ![j] = Null] /\ step' = [step EXCEPT ![j] = "done"]
    /\ UNCHANGED <<given, snap, results>>
AppendEvent(j) ==
    /\ step[j] = "captured"
    /\ \E config \in Config :
        ~KeyMissing(config) /\ trail' = Extended(Signed(row[j], SignatureBy(config)))
    /\ cut' = FALSE /\ spoiled' = (spoiled \/ Damages(j))
    /\ row' = [row EXCEPT ![j] = Null] /\ step' = [step EXCEPT ![j] = "done"]
    /\ UNCHANGED <<given, snap, results>>

(* A consumer stops, for want of its key or at any other point, perhaps    *)
(* with a part of its line written: all of it but the newline, or less.    *)
Stop(j) ==
    /\ step[j] \in {"read", "captured"}
    /\ \/ UNCHANGED <<trail, cut, spoiled>>
       \/ /\ step[j] = "captured"
          /\ \E line \in {Signed(row[j], "unsigned"), Torn} :
              /\ trail' = Extended(line) /\ cut' = TRUE
              /\ spoiled' = (spoiled \/ line = Torn \/ Damages(j))
    /\ row' = [row EXCEPT ![j] = Null] /\ step' = [step EXCEPT ![j] = "done"]
    /\ UNCHANGED <<given, snap, results>>

-----------------------------------------------------------------------------
(* verify_judgment_event_chain.                                            *)
Accepts(lines) ==
    /\ lines # <<>>
    /\ \A i \in 1..Len(lines) :
        /\ lines[i] # Torn
        /\ lines[i].prev = IF i = 1 THEN Genesis ELSE lines[i - 1].hash
        /\ lines[i].hash = Preimage(lines[i])

-----------------------------------------------------------------------------
(* record_outcome truncates the file of a judgment, whether the chain has  *)
(* it or not, and writes it.  It may stop in between.                      *)
Truncate(j) ==
    /\ outcome[j] # Torn
    /\ Cardinality(recorded) < MaxOutcomes
    /\ outcome' = [outcome EXCEPT ![j] = Torn]
    /\ UNCHANGED <<consumers, report, recorded, before>>
Record(j) ==
    /\ outcome[j] = Torn
    /\ \E l \in Label :
        /\ outcome' = [outcome EXCEPT ![j] = l]
        /\ recorded' = recorded \cup {<<j, l>>}
    /\ UNCHANGED <<consumers, report, before>>

(* replay_judgments reads the whole chain, which must parse, and then the  *)
(* outcome of one event after the other.  An outcome that does not parse   *)
(* ends the report.                                                        *)
BeginReport ==
    /\ report = Null /\ trail # <<>> /\ \A i \in 1..Len(trail) : trail[i] # Torn
    /\ report' = [events |-> [i \in 1..Len(trail) |-> trail[i].payload.id], joined |-> <<>>]
    /\ before' = {j \in Judgment : outcome[j] # Null}
    /\ UNCHANGED <<consumers, outcome, recorded>>
Unread == report # Null /\ Len(report.joined) < Len(report.events)
NextId == report.events[Len(report.joined) + 1]
OutcomeParses(j) == outcome[j] # Torn
JoinOrSkip ==
    /\ Unread
    /\ report' = [report EXCEPT !.joined =
                    Append(@, IF outcome[NextId] = Torn THEN Null ELSE outcome[NextId])]
    /\ UNCHANGED <<consumers, outcome, recorded, before>>
Join ==
    /\ Unread /\ OutcomeParses(NextId)
    /\ report' = [report EXCEPT !.joined = Append(@, outcome[NextId])]
    /\ UNCHANGED <<consumers, outcome, recorded, before>>
EndReport ==
    /\ report # Null /\ (Unread => ~OutcomeParses(NextId))
    /\ report' = Null /\ before' = {}
    /\ UNCHANGED <<consumers, outcome, recorded>>

-----------------------------------------------------------------------------
Next ==
    \/ \E j \in Judgment :
        \/ Refuse(j) \/ ReadLast(j) \/ Capture(j) \/ AppendEvent(j) \/ Stop(j)
        \/ Truncate(j) \/ Record(j)
    \/ BeginReport \/ Join \/ EndReport

Spec == Init /\ [][Next]_trailVars

-----------------------------------------------------------------------------
(* Properties.                                                             *)

(* The verifier tells exactly the damaged chains: whatever rows were       *)
(* signed, it accepts the file if and only if every row was written whole  *)
(* and right after the row that it was built on.                           *)
VerifierFindsDamage == trail # <<>> => (Accepts(trail) <=> ~spoiled)

(* Whenever consumers stop, whatever the model said and however it came,   *)
(* an event is one of a dry run that is accepted only if it says which     *)
(* way; its snapshot is on disk (in the default --snapshot-dir, the one    *)
(* that features_ref names), and has numbers only if all derivatives       *)
(* came, every timeframe asked for had recent candles and the base         *)
(* timeframe enough of them for its indicators.                            *)
EventsHaveTheirSnapshot ==
    \A i \in 1..Len(trail) : trail[i] # Torn =>
        LET j == trail[i].payload.id
            s == snap[j]
        IN  /\ Received(j).mode = "DRY_RUN"
            /\ trail[i].payload.card.status = "ACCEPTED" => Received(j).side \in {"LONG", "SHORT"}
            /\ s # Null
            /\ (\E tf \in Timeframes(s.of) : s.numbers[tf] # {}) \/ s.derivatives # {} =>
                /\ Derivatives \subseteq s.derivatives
                /\ \A tf \in Timeframes(s.of) :
                    /\ s.of.candles[tf] \in {"short", "fair", "good"} /\ "price" \in s.numbers[tf]
                    /\ tf = BaseTf(s.of) => {"ema20", "rsi14"} \subseteq s.numbers[tf]

(* A report that runs beside people who rewrite outcomes counts every      *)
(* event once, counts each with an outcome that was recorded for it, and   *)
(* misses none that had one when the report began.                         *)
ReportJoinsRecorded ==
    report # Null =>
        /\ \A i \in DOMAIN report.joined :
            LET j == report.events[i] IN
            IF report.joined[i] = Null THEN j \notin before
            ELSE <<j, report.joined[i]>> \in recorded
        /\ \A i, k \in DOMAIN report.events : report.events[i] = report.events[k] => i = k
=============================================================================
