------------------------- MODULE OverrideRegistry --------------------------
(***************************************************************************)
(* The override registry: commands append requests, approvals, rejections  *)
(* and executions to one hash-chained file, and the sentinel's guard       *)
(* verifies the file, reads it again and answers whether a symbol may be   *)
(* traded (tools/override, tools/audit/verify_override_chain,              *)
(* tools/sentinel/sentinel_override_guard).                                *)
(*                                                                         *)
(* There is no lock and no clock: an append is a read and a later write,   *)
(* and every time stamp is an argument of the command that is given it.    *)
(***************************************************************************)
EXTENDS Naturals, Sequences, FiniteSets

CONSTANTS
    Command,   \* runs of override_append
    Subject,   \* the people who run them
    Target,    \* hashes of the decisions that are overridden
    Symbol,
    MaxTime,   \* time stamps are 0..MaxTime
    Input,     \* the events that commands are run with
    MaxRows,   \* bound on the lines of the file
    Null, Torn

INSTANCE HashChain

Time  == 0..MaxTime
Types == {"requested", "approved", "rejected", "executed"}

(* _event_id hashes these four fields and nothing else.                    *)
EventId == [type: Types, ts: Time, subject: Subject, target: Target]
IdOf(e) == [type |-> e.type, ts |-> e.ts, subject |-> e.subject, target |-> e.target]

Event ==
    [type: {"requested"}, ts: Time, subject: Subject, target: Target,
     action: {"block_execution", "reduce_risk"}]
    \cup [type: {"approved"}, ts: Time, subject: Subject, target: Target,
          request: EventId, scope: SUBSET Symbol, expires: Time]
    \cup [type: {"rejected"}, ts: Time, subject: Subject, target: Target, request: EventId]
    \cup [type: {"executed"}, ts: Time, subject: Subject, target: Target,
          request: EventId, approval: EventId]

ASSUME InputAssumption == Input \subseteq Event /\ MaxTime \in Nat /\ MaxRows \in Nat

Row == [prev: Seq(Event), payload: Event]

ASSUME TornAssumption == Torn \notin Row

VARIABLES
    log,         \* the lines of the file
    cut,         \* its last line has no newline
    pending,     \* the row that each command is about to append
    asked,       \* the guard's question, once the file was verified
    verdict,     \* its last answer
    overlapped,  \* history: a command read the file while another was pending
    broken       \* history: a row was written after another than it was read after,
                 \* or only in part

file == <<log, cut>>
vars == <<file, pending, asked, verdict, overlapped, broken>>

Init ==
    /\ log = <<>> /\ cut = FALSE
    /\ pending = [c \in Command |-> Null]
    /\ asked = Null /\ verdict = Null
    /\ overlapped = FALSE /\ broken = FALSE

-----------------------------------------------------------------------------
(* An operator that nothing uses, placed just before the one it is named   *)
(* after, is that operator's faulty form for the mutation checks.          *)

(* validate_override_event_full, of what the inputs vary.                  *)
WellFormed(e) == e.type = "approved" => e.scope # {}

HasId(rows, id) == \E i \in 1..Len(rows) : IdOf(rows[i].payload) = id
OfId(rows, id) ==
    rows[CHOOSE i \in 1..Len(rows) : IdOf(rows[i].payload) = id].payload
IsRequest(rows, id) == id.type = "requested" /\ HasId(rows, id)
IsApproval(rows, id) == id.type = "approved" /\ HasId(rows, id)

UniqueIds(rows) ==
    \A i, j \in 1..Len(rows) : IdOf(rows[i].payload) = IdOf(rows[j].payload) => i = j

(* verify_chain of one event.  The request and the approval that it names  *)
(* may be anywhere in the file.                                            *)
JudgedBy(rows, e) ==
    /\ IsRequest(rows, e.request)
    /\ e.request.subject # e.subject
    /\ e.type = "approved" => e.ts < e.expires
ExecutedUnder(rows, e) ==
    /\ IsRequest(rows, e.request) /\ IsApproval(rows, e.approval)
    /\ OfId(rows, e.approval).request = e.request
    /\ e.ts <= OfId(rows, e.approval).expires
Referenced(rows, e) ==
    CASE e.type = "requested" -> TRUE
      [] e.type = "executed" -> ExecutedUnder(rows, e)
      [] OTHER -> JudgedBy(rows, e)

VerifiedOneEyed(rows) ==
    /\ rows # <<>> /\ Linked(rows) /\ UniqueIds(rows)
    /\ \A i \in 1..Len(rows) :
        LET e == rows[i].payload IN
        /\ WellFormed(e)
        /\ e.type = "approved" => IsRequest(rows, e.request) /\ e.ts < e.expires
VerifiedUnlinked(rows) ==
    /\ rows # <<>> /\ \A i \in 1..Len(rows) : rows[i] # Torn
    /\ UniqueIds(rows)
    /\ \A i \in 1..Len(rows) :
        WellFormed(rows[i].payload) /\ Referenced(rows, rows[i].payload)
Verified(rows) ==
    /\ rows # <<>> /\ Linked(rows) /\ UniqueIds(rows)
    /\ \A i \in 1..Len(rows) :
        WellFormed(rows[i].payload) /\ Referenced(rows, rows[i].payload)

-----------------------------------------------------------------------------
(* append_event: the last line is read, the row that follows it is built,  *)
(* and the row is appended to whatever the file holds by then.  A command  *)
(* that is refused, or stops, in between leaves no line.                   *)
Room == Len(log) + Cardinality({c \in Command : pending[c] # Null}) < MaxRows
AppendRead(c, e) ==
    /\ pending[c] = Null /\ WellFormed(e) /\ Readable(log) /\ Room
    /\ pending' = [pending EXCEPT ![c] = [prev |-> LastHash(log), payload |-> e]]
    /\ overlapped' = (overlapped \/ \E d \in Command : pending[d] # Null)
    /\ UNCHANGED <<file, asked, verdict, broken>>

(* Text that follows a line without a newline becomes part of that line.   *)
Extended(line) == IF cut THEN [log EXCEPT ![Len(log)] = Torn] ELSE Append(log, line)

AppendWrite(c) ==
    /\ pending[c] # Null
    /\ log' = Extended(pending[c])
    /\ cut' = FALSE
    /\ pending' = [pending EXCEPT ![c] = Null]
    /\ broken' = (broken \/ cut \/ ~Readable(log) \/ pending[c].prev # LastHash(log))
    /\ UNCHANGED <<asked, verdict, overlapped>>

(* It stops in the write: part of the line is there, or all but its end.   *)
AppendTorn(c) ==
    /\ pending[c] # Null
    /\ log' \in {Extended(Torn), Extended(pending[c])}
    /\ cut' = TRUE
    /\ pending' = [pending EXCEPT ![c] = Null]
    /\ broken' = (broken \/ cut \/ ~Readable(log) \/ ~Readable(log')
                      \/ pending[c].prev # LastHash(log))
    /\ UNCHANGED <<asked, verdict, overlapped>>

AppendStops(c) ==
    /\ pending[c] # Null
    /\ pending' = [pending EXCEPT ![c] = Null]
    /\ UNCHANGED <<file, asked, verdict, overlapped, broken>>

-----------------------------------------------------------------------------
(* build_active_overrides: an approval counts until it expires; of those   *)
(* for one symbol the last by time stamp, then by line, is the active one. *)
(* Rejections and executions change nothing.                               *)
InForce(rows, i, s, now) ==
    /\ rows[i].payload.type = "approved" /\ s \in rows[i].payload.scope
    /\ now < rows[i].payload.expires

Before(rows, i, j) ==
    LET a == rows[i].payload.ts   b == rows[j].payload.ts IN a < b \/ (a = b /\ i < j)

ActionOf(rows, i) == OfId(rows, rows[i].payload.request).action

Loads(rows, now) ==
    /\ \A i \in 1..Len(rows) : rows[i] # Torn
    /\ UniqueIds(rows)
    /\ \A i \in 1..Len(rows) :
        LET e == rows[i].payload IN
        e.type = "approved" /\ now < e.expires => IsRequest(rows, e.request)

(* evaluate_guard, of the lines it loads.                                  *)
Denied(rows, s, now) ==
    \E i \in 1..Len(rows) :
        /\ InForce(rows, i, s, now)
        /\ \A j \in 1..Len(rows) : InForce(rows, j, s, now) => ~Before(rows, i, j)
        /\ ActionOf(rows, i) = "block_execution"
Answer(rows, s, now) ==
    IF ~Loads(rows, now) THEN "exit" ELSE IF Denied(rows, s, now) THEN "deny" ELSE "allow"

GuardVerify(s, now) ==
    /\ asked = Null
    /\ IF Verified(log)
         THEN /\ asked' = [symbol |-> s, now |-> now, verified |-> Len(log)]
              /\ verdict' = Null
         ELSE asked' = Null /\ verdict' = "exit"
    /\ UNCHANGED <<file, pending, overlapped, broken>>

(* The file is read a second time.                                         *)
GuardLoad ==
    /\ asked # Null
    /\ verdict' = Answer(log, asked.symbol, asked.now)
    /\ asked' = Null
    /\ UNCHANGED <<file, pending, overlapped, broken>>

Run(c) ==
    (\E e \in Input : AppendRead(c, e)) \/ AppendWrite(c) \/ AppendTorn(c) \/ AppendStops(c)
Next ==
    \/ \E c \in Command : Run(c)
    \/ \E s \in Symbol, now \in Time : GuardVerify(s, now)
    \/ GuardLoad

Spec == Init /\ [][Next]_vars

-----------------------------------------------------------------------------
(* Properties.                                                             *)

(* A block that was in force in what the guard verified is lifted only by  *)
(* a later approval of something else: one that was verified too, and so   *)
(* has an approver who did not ask for it, or one that was appended after  *)
(* the verification.  No time stamp that an operator passes, no rejection  *)
(* and no execution record lifts it.                                       *)
Lifts(j, i) ==
    /\ InForce(log, j, asked.symbol, asked.now) /\ Before(log, i, j)
    /\ ActionOf(log, j) # "block_execution"
    /\ j <= asked.verified => log[j].payload.request.subject # log[j].payload.subject
BlockNeedsSecondPerson ==
    [][asked # Null /\ asked' = Null /\ verdict' = "allow" =>
        \A i \in 1..asked.verified :
            /\ InForce(log, i, asked.symbol, asked.now)
            /\ ActionOf(log, i) = "block_execution"
            => \E j \in 1..Len(log) : Lifts(j, i)]_vars

(* Commands that do not overlap, wherever they stop, leave a chain: every  *)
(* line that parses follows the one before it, and only the last line may  *)
(* be unreadable, after which nothing is appended.                         *)
SerialAppendsLink ==
    ~overlapped => \A i \in 1..Len(log) : LinkedAt(log, i) \/ (i = Len(log) /\ log[i] = Torn)

(* A row written after another line than the one it was read after, or     *)
(* only in part, is noticed by every later verification: from then on the  *)
(* guard starts no answer.                                                 *)
BrokenLogAnswersNobody == [][broken /\ asked = Null => asked' = Null]_vars
=============================================================================
