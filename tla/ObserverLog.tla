---------------------------- MODULE ObserverLog ----------------------------
(***************************************************************************)
(* The observer logs: three appenders of hash-chained lines (execution     *)
(* intents, paper orders, and the events of a dry run), the verifier of    *)
(* the first two and the gate of the third (tools/observer_*,              *)
(* tools/observer, adapters/sentinel, tools/gates/lock3_observer_gate).    *)
(*                                                                         *)
(* There is no lock: an append is a read of the last line and a later      *)
(* write, and may be stopped at any point.  A behaviour is of one log.     *)
(***************************************************************************)
EXTENDS Naturals, Sequences, FiniteSets

CONSTANTS
    Appender,  \* runs of the appenders
    Intent,    \* the intents of runs, by id
    Large,     \* those whose line is longer than the window that is read back
    MaxLines,  \* bound on the lines of the log and on the appends
    Null, Torn

Genesis == <<>>
Kind == {"intents", "orders", "events"}

VARIABLES
    kind,     \* the log of this behaviour
    lines,    \* its lines
    tail,     \* the last has no newline
    draft,    \* the line that each appender is about to write
    made,     \* history: the bodies of the lines written whole, in order
    marred    \* history: a line was written in part, or after another than it was
              \* drafted after, or after one that could not be read back

history == <<made, marred>>
vars == <<kind, lines, tail, draft, history>>

Init ==
    /\ kind \in Kind
    /\ lines = <<>> /\ tail = FALSE
    /\ draft = [a \in Appender |-> Null]
    /\ made = <<>> /\ marred = FALSE

-----------------------------------------------------------------------------
(* An operator that nothing uses, placed just before the one it is named   *)
(* after, is that operator's faulty form for the mutation checks.          *)

(* The hash of a line with what was in it besides body and prev_hash when  *)
(* the hash was taken: nothing, its own hash as null, or signature_meta.   *)
Hash(prev, body, besides) == Append(prev, [body |-> body, besides |-> besides])

Line(prev, body, besides, meta) ==
    [prev |-> prev, body |-> body, meta |-> meta, hash |-> Hash(prev, body, besides)]

(* observer_append_execution_intent hashes its record with chain.hash null.*)
IntentLine(prev, body) == Line(prev, body, {"hash"}, {})
(* observer_append_paper_orders hashes it before it has a hash at all.     *)
OrderLine(prev, body) == Line(prev, body, {}, {})
(* append_observer_event adds signature_meta, signed or not, to the line   *)
(* that it has hashed.  The gate's fixtures are made by others, without it.*)
EventLine(prev, body) == Line(prev, body, {}, {"signature_meta"})
FixtureLine(prev, body) == Line(prev, body, {}, {})

(* What the next line is to carry: a last line that does not parse, or is  *)
(* longer than the window, starts the chain anew.  The orders' appender    *)
(* fails on a line that does not parse.                                    *)
Last == lines[Len(lines)]
ReadBack == lines # <<>> /\ Last # Torn /\ (kind = "intents" => Last.body.intent \notin Large)
LastHash == IF ReadBack THEN Last.hash ELSE Genesis
Appendable == kind = "orders" /\ lines # <<>> => Last # Torn

(* The dry-run adapter's event, of a run that it accepted or failed, is    *)
(* about ids that it derives from the intent's; the command's names        *)
(* whatever it is told, an empty id (Null) included.                       *)
Derived(i) == [run |-> i, approval |-> i]
Named == [run : Intent, approval : Intent \cup {Null}]
Bodies == IF kind = "events" THEN {Derived(i) : i \in Intent} \cup Named
          ELSE {[intent |-> i] : i \in Intent}

LinesOf(prev, body) ==
    CASE kind = "intents" -> {IntentLine(prev, body)}
      [] kind = "orders"  -> {OrderLine(prev, body)}
      [] OTHER            -> {EventLine(prev, body), FixtureLine(prev, body)}

(* What a line of any of the logs is made of.                              *)
Body == [intent: Intent] \cup [run: Intent, approval: Intent \cup {Null}]
Hashes == Seq([body: Body, besides: {{}, {"hash"}}])
Written == [prev: Hashes, body: Body, meta: {{}, {"signature_meta"}}, hash: Hashes]

-----------------------------------------------------------------------------
Room ==
    LET drafted == Cardinality({a \in Appender : draft[a] # Null})
    IN  Len(lines) + drafted < MaxLines /\ Len(made) + drafted < MaxLines

Draft(a, body) ==
    /\ draft[a] = Null /\ Appendable /\ Room
    /\ \E line \in LinesOf(LastHash, body) : draft' = [draft EXCEPT ![a] = line]
    /\ UNCHANGED <<kind, lines, tail, history>>

(* Text that follows a line without a newline becomes part of that line.   *)
Extended(line) == IF tail THEN [lines EXCEPT ![Len(lines)] = Torn] ELSE Append(lines, line)
Follows(line) ==
    ~tail /\ IF lines = <<>> THEN line.prev = Genesis ELSE ReadBack /\ line.prev = Last.hash

Write(a) ==
    /\ draft[a] # Null
    /\ lines' = Extended(draft[a]) /\ tail' = FALSE
    /\ made' = Append(made, draft[a].body)
    /\ marred' = (marred \/ ~Follows(draft[a]))
    /\ draft' = [draft EXCEPT ![a] = Null]
    /\ UNCHANGED kind

(* An appender stops before it writes, or with all of its line written but *)
(* the newline, or with less.                                              *)
Stop(a) ==
    /\ draft[a] # Null
    /\ draft' = [draft EXCEPT ![a] = Null]
    /\ \/ UNCHANGED <<lines, tail, history>>
       \/ /\ lines' = Extended(draft[a]) /\ tail' = TRUE
          /\ made' = Append(made, draft[a].body)
          /\ marred' = (marred \/ ~Follows(draft[a]))
       \/ /\ lines' = Extended(Torn) /\ tail' = TRUE
          /\ marred' = TRUE /\ UNCHANGED made
    /\ UNCHANGED kind

Next ==
    \E a \in Appender : (\E b \in Bodies : Draft(a, b)) \/ Write(a) \/ Stop(a)

Spec == Init /\ [][Next]_vars

-----------------------------------------------------------------------------
(* observer_verify_chain: signatures are taken out of the line, and its    *)
(* hash, wherever it was, is made null.                                    *)
LinkedAt(i) == lines[i].prev = IF i = 1 THEN Genesis ELSE lines[i - 1].hash
Intact(i, besides) == lines[i].hash = Hash(lines[i].prev, lines[i].body, besides)
VerifiedUnlinked ==
    /\ lines # <<>>
    /\ \A i \in 1..Len(lines) : lines[i] # Torn /\ Intact(i, {"hash"})
Verified ==
    /\ lines # <<>>
    /\ \A i \in 1..Len(lines) : lines[i] # Torn /\ LinkedAt(i) /\ Intact(i, {"hash"})

WellFormed(body) == body.approval # Null

(* lock3_observer_gate: all that is in the line goes into its hash; the    *)
(* first line's prev_hash may be any; a run has one approval.              *)
OneLink(i, j) ==
    lines[i].body.run = lines[j].body.run => lines[i].body.approval = lines[j].body.approval
GatePassesEach ==
    \A i \in 1..Len(lines) :
        lines[i] # Torn /\ WellFormed(lines[i].body) /\ Intact(i, lines[i].meta)
GatePasses ==
    /\ \A i \in 1..Len(lines) :
        /\ lines[i] # Torn /\ WellFormed(lines[i].body) /\ Intact(i, lines[i].meta)
        /\ i > 1 => LinkedAt(i)
    /\ \A i, j \in 1..Len(lines) : OneLink(i, j)

Accepted == IF kind = "events" THEN GatePasses ELSE Verified

-----------------------------------------------------------------------------
(* Properties.                                                             *)

(* A log that its verifier or its gate accepts holds all that was ever     *)
(* appended to it, each line written after the one that it was drafted     *)
(* after, whatever appenders overlapped or stopped in their writes; and a  *)
(* log of intents whose lines were whole, serial and short is accepted.    *)
AcceptedLogsAreSerial ==
    /\ Accepted => ~marred /\ [i \in 1..Len(lines) |-> lines[i].body] = made
    /\ kind = "intents" /\ lines # <<>> /\ ~marred => Accepted
=============================================================================
