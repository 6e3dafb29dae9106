---------------------------- MODULE MarketAlerts ----------------------------
(***************************************************************************)
(* The two tools that compare a summary with the one before and announce   *)
(* what changed: tools/sentinel_console_dashboard prints alerts,           *)
(* tools/sentinel_build_events writes them to a file.  Both keep what they *)
(* saw last in prev_SYMBOL.json of one default directory, so that either   *)
(* is told from the record that the other left.                            *)
(*                                                                         *)
(* A run goes through the symbols of the summary it was given.  It may end *)
(* at any step: on a snapshot without prices, on a record that does not    *)
(* parse, or by a stop, which may cut the record that it was writing.      *)
(***************************************************************************)
EXTENDS SnapshotScore, Sequences

CONSTANTS
    Run,          \* invocations at once
    Symbols,      \* the symbols of a summary, in order
    LoopItem,     \* what a summary of the loop's events may say of a symbol
    MaxInvoked,
    MaxTogether,  \* the same when two runs have overlapped
    Null, Torn

VARIABLES
    prev,       \* prev_SYMBOL.json: the item, and the number of the run
    hand,       \* each run: its number, tool, items, place, and events so far
    told,       \* the alerts that were printed or written
    changes,    \* history: the alerts that two records in succession call for
    stopped,    \* history: the runs that did not come to their end
    overlapped, \* history: two runs at once
    invoked

alerts == <<prev, hand, told, changes, stopped, overlapped, invoked>>

Symbol == {Symbols[i] : i \in 1..Len(Symbols)}

(* An alert, and what a run holds.                                         *)
Alert == [symbol : Symbol, from : Nat, to : Nat, tool : {"dashboard", "events"},
          kinds : SUBSET {"jump", "riskUp", "drop"}]
Hands == [number : Nat, tool : {"dashboard", "events"}, batch : BOOLEAN,
          items : [Symbol -> SnapshotItems \cup LoopItem],
          next : Nat \ {0}, at : {"compare", "write"}, events : SUBSET Alert]

Init ==
    /\ prev = [s \in Symbol |-> Null] /\ hand = [r \in Run |-> Null]
    /\ told = {} /\ changes = {} /\ stopped = {} /\ overlapped = FALSE /\ invoked = 0

-----------------------------------------------------------------------------
(* An operator that nothing uses, placed just before the one it is named   *)
(* after, is that operator's faulty form for the mutation checks.          *)

(* SCORE_JUMP, RISK_UP, CONF_DROP                                          *)
Kinds(from, to) ==
    {k \in {"jump", "riskUp", "drop"} :
        CASE k = "jump"   -> Magnitude(to.score - from.score) >= 20
          [] k = "riskUp" -> from.risk # "high" /\ to.risk = "high"
          [] k = "drop"   -> from.confidence - to.confidence >= 2000}
Alerts(s, from, to, tool) ==
    IF from = Null \/ Kinds(from.item, to.item) = {} THEN {}
    ELSE {[symbol |-> s, from |-> from.by, to |-> to.by, tool |-> tool,
           kinds |-> Kinds(from.item, to.item)]}

Place(r) == Symbols[hand[r].next]
Record(r) == [by |-> hand[r].number, item |-> hand[r].items[Place(r)]]
Due(r) == Alerts(Place(r), prev[Place(r)], Record(r), hand[r].tool)

Invoke(r) ==
    /\ hand[r] = Null
    /\ invoked < IF overlapped THEN MaxTogether ELSE MaxInvoked
    /\ invoked' = invoked + 1
    /\ \E tool \in {"dashboard", "events"}, batch \in BOOLEAN :
         \E items \in [Symbol -> IF batch THEN SnapshotItems ELSE LoopItem] :
            hand' = [hand EXCEPT ![r] =
                        [number |-> invoked', tool |-> tool, batch |-> batch, items |-> items,
                         next |-> 1, at |-> "compare", events |-> {}]]
    /\ overlapped' = (overlapped \/ \E q \in Run \ {r} : hand[q] # Null)
    /\ UNCHANGED <<prev, told, changes, stopped>>

(* The dashboard prints at once, the other tool collects.                  *)
Compare(r) ==
    /\ hand[r] # Null /\ hand[r].at = "compare" /\ hand[r].next <= Len(Symbols)
    /\ prev[Place(r)] # Torn
    /\ IF hand[r].tool = "dashboard"
       THEN told' = told \cup Due(r) /\ hand' = [hand EXCEPT ![r].at = "write"]
       ELSE told' = told
            /\ hand' = [hand EXCEPT ![r].at = "write", ![r].events = @ \cup Due(r)]
    /\ UNCHANGED <<prev, changes, stopped, overlapped, invoked>>

WriteEventsOnly(r) ==
    /\ hand[r] # Null /\ hand[r].at = "write"
    /\ prev' = IF hand[r].tool = "dashboard" THEN prev
               ELSE [prev EXCEPT ![Place(r)] = Record(r)]
    /\ changes' = changes \cup IF prev[Place(r)] = Torn THEN {} ELSE Due(r)
    /\ hand' = [hand EXCEPT ![r].at = "compare", ![r].next = @ + 1]
    /\ UNCHANGED <<told, stopped, overlapped, invoked>>
Write(r) ==
    /\ hand[r] # Null /\ hand[r].at = "write"
    /\ prev' = [prev EXCEPT ![Place(r)] = Record(r)]
    /\ changes' = changes \cup IF prev[Place(r)] = Torn THEN {} ELSE Due(r)
    /\ hand' = [hand EXCEPT ![r].at = "compare", ![r].next = @ + 1]
    /\ UNCHANGED <<told, stopped, overlapped, invoked>>

(* The events file is written at the end.                                  *)
Report(r) ==
    /\ hand[r] # Null /\ hand[r].next > Len(Symbols)
    /\ told' = told \cup hand[r].events
    /\ hand' = [hand EXCEPT ![r] = Null]
    /\ UNCHANGED <<prev, changes, stopped, overlapped, invoked>>

Fail(r) ==
    /\ hand[r] # Null
    /\ stopped' = stopped \cup {hand[r].number}
    /\ prev' \in {prev} \cup IF hand[r].at = "write" THEN {[prev EXCEPT ![Place(r)] = Torn]}
                             ELSE {}
    /\ hand' = [hand EXCEPT ![r] = Null]
    /\ UNCHANGED <<told, changes, overlapped, invoked>>

Next == \E r \in Run : Invoke(r) \/ Compare(r) \/ Write(r) \/ Report(r) \/ Fail(r)

Spec == Init /\ [][Next]_alerts

-----------------------------------------------------------------------------
(* Properties.                                                             *)

(* Summaries of snapshots never call for a trade: their scores are too low *)
(* for a consensus.                                                        *)
SnapshotsAreNeutral ==
    \A r \in Run : hand[r] # Null /\ hand[r].batch =>
        \A s \in Symbol : hand[r].items[s].direction = "neutral"

(* Of runs that do not overlap, whichever tool they are of: no stretch of  *)
(* a symbol's history is announced twice, except after a dashboard that    *)
(* was stopped between the alert and the record; and every change between  *)
(* two records is announced, except by an events tool that was stopped.    *)
ToldOnce ==
    \A a, b \in told :
        a.symbol = b.symbol /\ a.to \notin stopped /\ b.to \notin stopped =>
            a = b \/ a.to <= b.from \/ b.to <= a.from
NothingUntold ==
    \A c \in changes :
        \/ c \in told \/ (c.tool = "events" /\ c.to \in stopped)
        \/ \E r \in Run : hand[r] # Null /\ c \in hand[r].events

AlertsAreSound == SnapshotsAreNeutral /\ (~overlapped => ToldOnce /\ NothingUntold)
=============================================================================
