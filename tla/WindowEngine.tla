---------------------------- MODULE WindowEngine ----------------------------
(***************************************************************************)
(* The decision about one observation window (core/engine/run_engine.py)   *)
(* and what is handed to people about it.                                  *)
(*                                                                         *)
(* A window comes with the severity, the mode and the quality an earlier   *)
(* stage gave it, and with emotional features.  The adapter refuses it or, *)
(* when it is lenient, fills in what is missing; the features may raise    *)
(* the severity; policy v0.3 looks at what a process-wide memory keeps of  *)
(* the last window of the same site and channel and lets the severity      *)
(* decay; policy v0.2, which is given no memory, has the last word; the    *)
(* router says who is told.  The calls of one process follow one another.  *)
(*                                                                         *)
(* Scores are abstracted to the side of each threshold they lie on, times  *)
(* are minutes.  Left out: cooldowns and trends (written, never read),     *)
(* confidences, the wording.  A channel is one of the names the router     *)
(* knows, spelled as it spells them, or none.                              *)
EXTENDS Integers

CONSTANTS
    Site,       \* an organisation's sites
    Window,     \* the windows that may come, see WindowAssumption
    Null        \* nothing: no value, no channel, a time nobody can parse

WindowAssumption ==
    \A w \in Window :
        /\ w.site \in Site
        /\ w.channel \in {"childcare", "fnb", "trading", Null}
        /\ w.severity \in {"low", "medium", "high", "critical", "garbled", Null}
        /\ w.mode \in {"observe_more", "suppress", "allow", "garbled", Null}
        /\ w.quality \in {"good", "poor", Null}     \* is the score 0.9 or more?
        /\ w.complete \in BOOLEAN       \* is every other required field there?
        /\ w.child \in {"calm", "high", "critical"}     \* the 0.7 and 0.9 lines
        /\ w.stressed \in BOOLEAN       \* valence < -0.5 and arousal > 0.6
        /\ w.at \in Nat \cup {Null}     \* when the window ended
        /\ w.strict \in BOOLEAN

VARIABLES
    memory,     \* per site and channel: the severity and time last remembered
    alarmed     \* (history) the sites and channels that have had a risky window

vars == <<memory, alarmed>>

Severity == {"low", "medium", "high", "critical"}
Rank == [low |-> 0, medium |-> 1, high |-> 2, critical |-> 3]
Ranked(n) == CHOOSE s \in Severity : Rank[s] = n
Worse(a, b) == IF Rank[a] >= Rank[b] THEN a ELSE b
StepUp(s) == IF s = "critical" THEN s ELSE Ranked(Rank[s] + 1)
StepDown(s) == IF s = "low" THEN s ELSE Ranked(Rank[s] - 1)
AtRisk == {"high", "critical"}

NamedChannel(channel) == IF channel = Null THEN "unknown" ELSE channel
(* Faulty: one memory per site, whatever the channel.                      *)
SiteKey(w) == <<w.site, "unknown">>
Key(w) == <<w.site, NamedChannel(w.channel)>>
Keys == Site \X {"childcare", "fnb", "trading", "unknown"}

-----------------------------------------------------------------------------
(* What the adapter makes of the window.                                   *)
Required(w) == w.complete /\ w.quality # Null
Accepted(w) ==
    w.strict => /\ Required(w)
                /\ w.mode \notin {Null, "garbled"}
                /\ w.severity \notin {Null, "garbled"}

AdaptedMode(w) == IF w.mode = "garbled" THEN "observe_more" ELSE w.mode
AdaptedSeverity(w) == IF w.severity = "garbled" THEN "medium" ELSE w.severity
GoodQuality(w) == w.quality = "good"

(* The severities of the emotional signals.                                *)
Emotions(w) ==
    {s \in {w.child} : s \in AtRisk} \cup {s \in {"high"} : w.stressed}

(* Policy code reads a severity that is missing as low.                    *)
AsLow(s) == IF s = Null THEN "low" ELSE s

(* The quality and uncertainty signals repeat the severity that was given. *)
Signals(w) == Emotions(w) \cup {AsLow(AdaptedSeverity(w))}

(* The comparison with HIGH fails when there is no severity to compare.    *)
Raisable(w) == Emotions(w) # {} => AdaptedSeverity(w) # Null
Raised(w) ==
    IF Emotions(w) # {} THEN Worse(AdaptedSeverity(w), "high")
    ELSE AsLow(AdaptedSeverity(w))

-----------------------------------------------------------------------------
(* Policy v0.3: the remembered severity decays under safe windows.         *)
HoldMinutes(channel) ==
    CASE channel = "childcare" -> 10
      [] channel = "trading" -> 2
      [] OTHER -> 5

(* Faulty: good data is all that safety takes.                             *)
QualityIsSafe(w) == GoodQuality(w)
Safe(w) == Signals(w) \cap AtRisk = {} /\ GoodQuality(w)

(* A window whose end cannot be parsed is taken to end now: `late` says    *)
(* whether now is the hold time after the remembered window.               *)
Held(w, last, late) ==
    /\ last # Null /\ last.at # Null
    /\ IF w.at = Null THEN late ELSE w.at - last.at >= HoldMinutes(w.channel)

Decayed(w, last, late) ==
    IF Safe(w) /\ Held(w, last, late) THEN StepDown(last.severity) ELSE Raised(w)

(* Policy v0.2: two risks in a row are one step worse.                     *)
Accumulated(previous, current) ==
    IF {previous, current} \subseteq AtRisk THEN StepUp(current) ELSE current

(* run_engine gives v0.2 no previous window, and v0.2 then takes the       *)
(* current one for the previous one.                                       *)
Answer(w, last, late) ==
    LET decayed == Decayed(w, last, late) IN Accumulated(decayed, decayed)

-----------------------------------------------------------------------------
(* What follows from the answer: recommendations and who is told.          *)
Recommended(mode, severity) ==
    IF mode = "suppress" THEN {"alert", "action"}
    ELSE {t \in {"alert"} : severity \in AtRisk}
         \cup {IF mode = "observe_more" THEN "observe" ELSE "allow"}

(* A decision that has no mode, which a lenient adapter lets through, does *)
(* not get to the router.                                                  *)
Adaptable(w) == AdaptedMode(w) # Null

Routed(channel, severity) ==
    CASE channel = "childcare" -> [mode |-> "HOLD", target |-> "stdout", review |-> TRUE]
      [] channel = "fnb" ->
            [mode |-> "NOTIFY_MANAGER",
             target |-> IF severity \in AtRisk THEN "#ops-alerts" ELSE "#ops",
             review |-> severity \in AtRisk]
      [] channel = "trading" ->
            [mode |-> "ALERT_ONLY", target |-> "stdout", review |-> FALSE]
      [] OTHER -> [mode |-> "LOG_ONLY", target |-> Null, review |-> FALSE]

-----------------------------------------------------------------------------
Init == memory = [k \in Keys |-> Null] /\ alarmed = {}

Risky(w) == Signals(w) \cap AtRisk # {}

(* What the next window will look at; the state as it is built starts from *)
(* the worst of the window's own signals.                                  *)
SceneState(w) ==
    [severity |-> CHOOSE s \in Signals(w) : \A t \in Signals(w) : Rank[s] >= Rank[t],
     at |-> w.at]

(* The state is saved with v0.3's verdict and, being the saved object      *)
(* itself, gets v0.2's verdict afterwards.  When the adapter refuses the   *)
(* window, or the severity cannot be compared, nothing is saved.           *)
RunEngine(w) ==
    /\ Accepted(w) /\ Raisable(w)
    /\ \E late \in BOOLEAN :
          memory' = [memory EXCEPT ![Key(w)] =
                        [SceneState(w) EXCEPT !.severity = Answer(w, memory[Key(w)], late)]]
    /\ alarmed' = alarmed \cup {k \in {<<w.site, NamedChannel(w.channel)>>} : Risky(w)}

Next == \E w \in Window : RunEngine(w)

Spec == Init /\ [][Next]_vars

-----------------------------------------------------------------------------
TypeOK ==
    /\ memory \in [Keys -> [severity : Severity, at : Nat \cup {Null}] \cup {Null}]
    /\ alarmed \subseteq Keys

(* Whatever is remembered, a window with a sign of high risk that gets an  *)
(* answer is answered high or critical and people hear of it: an alert is recommended, in     *)
(* childcare and fnb somebody has to look, in fnb the alerts channel is    *)
(* used (run_engine.py, policy_v0_3.py and recommendation_router.py        *)
(* together).                                                              *)
RiskReachesPeople ==
    \A w \in Window, late \in BOOLEAN :
        Risky(w) /\ Accepted(w) /\ Raisable(w) /\ Adaptable(w) =>
            LET severity == Answer(w, memory[Key(w)], late)
                routed == Routed(w.channel, severity)
            IN  /\ severity \in AtRisk
                /\ "alert" \in Recommended(AdaptedMode(w), severity)
                /\ w.channel \in {"childcare", "fnb"} => routed.review
                /\ w.channel = "fnb" => routed.target = "#ops-alerts"

(* Nobody is alarmed by somebody else's memory: what is remembered as high *)
(* or critical, and outlives the windows that made it so, has its cause in *)
(* a risky window of the same site and channel (run_engine.py with the key *)
(* of core/policy/memory/in_memory.py).                                    *)
AlarmHasCause ==
    \A k \in Keys :
        memory[k] # Null => (memory[k].severity \in AtRisk => k \in alarmed)

(* What policy_v0_3.py promises of decay: a safe window that ends the hold *)
(* time after the one remembered lowers the severity by one step.          *)
DecayLowers ==
    \A w \in Window :
        LET last == memory[Key(w)]
        IN  Accepted(w) /\ Safe(w) /\ Held(w, last, FALSE) =>
                Answer(w, last, FALSE) = StepDown(last.severity)
=============================================================================
