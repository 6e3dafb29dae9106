---------------------------- MODULE ApprovalGate ----------------------------
(***************************************************************************)
(* The execution-run approval gate of infra/api: POST /execution/run, POST *)
(* /approvals/{id}/approve and /reject, the approval expirer job, the      *)
(* execution worker and the internal create_execution_run service, over    *)
(* the tables execution_runs, approvals and approval_decision_events.      *)
(*                                                                         *)
(* Every handler has its own AsyncSession.  Its SELECTs run outside a      *)
(* write transaction, so a row may change between the SELECT and the       *)
(* handler's first flush.  From that flush to the commit the handler holds *)
(* the database's single write lock: those statements are one step here.   *)
(* An UPDATE writes the columns the handler assigned and is keyed by the   *)
(* primary key alone, so it applies whatever the row holds by then.        *)
(***************************************************************************)
EXTENDS Naturals, FiniteSets

CONSTANTS
    Run,       \* execution ids (uuid4): as many rows as execution_runs may get
    Key,       \* (project_id, idempotency_key) pairs
    Payload,   \* (decision_card_id, execution_scope) of a request
    BadScope,  \* payloads whose scope ck_execution_runs_scope refuses
    Client,    \* concurrent requests to the API
    Worker,    \* concurrent execute_job calls
    Limit,     \* rows one expirer pass reads
    Null       \* no value

ASSUME ConstantsAssumption ==
    /\ BadScope \subseteq Payload
    /\ Limit \in Nat \ {0}
    /\ IsFiniteSet(Run)
    /\ Null \notin Run \cup Payload \cup Key

RunStatus  == {"absent", "created", "BLOCKED", "RUN", "HALTED"}
Reason     == {"none", "approval_pending", "approval_expired", "approval_rejected"}
ApprStatus == {"none", "pending", "approved", "rejected", "expired"}
Decision   == {"approved", "rejected"}
AuditLine  == Decision \cup {"none", "audit_error"}
PC == {"idle", "insert", "created", "reread", "ensure", "addApproval", "backfill",
       "approve", "reject", "expire"}

\* "stamped": request_fingerprint is set; it is the fingerprint of the row's own payload.
RunRow  == [status: RunStatus, reason: Reason, key: Key \cup {Null},
            payload: Payload \cup {Null}, stamped: BOOLEAN, started: BOOLEAN, ended: BOOLEAN]
\* "due": expires_at is in the past.
ApprRow == [status: ApprStatus, expiry: {"null", "future", "due"},
            approved: Nat, rejected: Nat]
Tally   == [Decision -> Nat]
Session == [key: Key \cup {Null}, payload: Payload \cup {Null}, run: Run \cup {Null},
            seen: ApprRow]

AbsentRun == [status |-> "absent", reason |-> "none", key |-> Null, payload |-> Null,
              stamped |-> FALSE, started |-> FALSE, ended |-> FALSE]
NoAppr    == [status |-> "none", expiry |-> "null", approved |-> 0, rejected |-> 0]
NoSession == [key |-> Null, payload |-> Null, run |-> Null, seen |-> NoAppr]

VARIABLES
    row,     \* execution_runs, by id
    appr,    \* approvals, by execution_run_id (UNIQUE)
    events,  \* approval_decision_events: how many of each decision an approval has
    audit,   \* the last line the audit sink wrote about a decision on a run
    pc,      \* what a request does next
    ctx,     \* what a request has read
    scan,    \* rows the expirer has read and not yet written
    job      \* run a worker has read in status RUN

vars == <<row, appr, events, audit, pc, ctx, scan, job>>

-----------------------------------------------------------------------------
(* Rows and requests.                                                      *)

Exists(r) == row[r].status # "absent"
RunsOf(k) == {r \in Run : Exists(r) /\ row[r].key = k}
Conflict(r, p) == row[r].payload # p \/ ~row[r].stamped
Undecided(r) == events[r].approved + events[r].rejected = 0

NewRun(k, p, status, reason, stamped) ==
    [status |-> status, reason |-> reason, key |-> k, payload |-> p,
     stamped |-> stamped, started |-> FALSE, ended |-> FALSE]
Counted(tally, d) == [tally EXCEPT ![d] = @ + 1]
PendingAppr(expiry) == [NoAppr EXCEPT !.status = "pending", !.expiry = expiry]

(* An operator that nothing uses, placed just before the one it is named   *)
(* after, is that operator's faulty form for the mutation checks.          *)

(* INSERT INTO execution_runs, under the table's index and check constraint.*)
InsertRow(r, new) ==
    /\ ~Exists(r)
    /\ RunsOf(new.key) = {}             \* ux_execution_runs_project_id_idempotency_key
    /\ new.payload \notin BadScope      \* ck_execution_runs_scope
    /\ row' = [row EXCEPT ![r] = new]

(* INSERT INTO approval_decision_events; every decision has one approver.  *)
InsertDecisionAgain(r, d) == events' = [events EXCEPT ![r] = Counted(@, d)]
InsertDecision(r, d) ==
    /\ Undecided(r)                     \* uq_approval_one_decision_per_approver
    /\ events' = [events EXCEPT ![r] = Counted(@, d)]

(* emit_audit_event about a decision.  It swallows a failure to build or    *)
(* write the line and reports an audit_error on stderr in its place, which *)
(* names no run; it is kept at the run whose handler met it.  (A report    *)
(* that fails as well raises: RequestDies.)  The lines about creations,    *)
(* duplicates and expiries are left out.                                   *)
EmitFails(r) == audit' = [audit EXCEPT ![r] = "audit_error"]
Emit(r, d) == audit' = [audit EXCEPT ![r] = d] \/ EmitFails(r)

Goto(c, label) == pc' = [pc EXCEPT ![c] = label] /\ UNCHANGED ctx
Done(c) == pc' = [pc EXCEPT ![c] = "idle"] /\ ctx' = [ctx EXCEPT ![c] = NoSession]

LegacyRuns == UNION {{NewRun(k, p, "BLOCKED", "approval_pending", TRUE) :
                            p \in Payload \ BadScope} : k \in Key}

(* Tables that hold nothing, or rows of the releases before the expiry and *)
(* approval columns: a fingerprinted BLOCKED run, its approval missing or  *)
(* with expires_at NULL.                                                   *)
Init ==
    /\ row \in [Run -> {AbsentRun} \cup LegacyRuns]
    /\ \A r, s \in Run : Exists(r) /\ Exists(s) /\ row[r].key = row[s].key => r = s
    /\ appr \in [Run -> {NoAppr, PendingAppr("null")}]
    /\ \A r \in Run : ~Exists(r) => appr[r] = NoAppr
    /\ events = [r \in Run |-> [d \in Decision |-> 0]]
    /\ audit = [r \in Run |-> "none"]
    /\ pc = [c \in Client |-> "idle"]
    /\ ctx = [c \in Client |-> NoSession]
    /\ scan = {}
    /\ job = [w \in Worker |-> Null]

-----------------------------------------------------------------------------
(* POST /execution/run.                                                    *)

(* The idempotency pre-check, or the re-read after an IntegrityError: 409  *)
(* on another fingerprint, the dedup path on the same one.                 *)
Dedup(c, k, p) ==
    \E r \in RunsOf(k) :
        IF Conflict(r, p)
        THEN Done(c)
        ELSE /\ pc' = [pc EXCEPT ![c] = "ensure"]
             /\ ctx' = [ctx EXCEPT ![c] = [NoSession EXCEPT !.key = k, !.payload = p, !.run = r]]

RunLookup(c, k, p) ==
    /\ pc[c] = "idle"
    /\ \/ Dedup(c, k, p)
       \/ /\ RunsOf(k) = {}
          /\ pc' = [pc EXCEPT ![c] = "insert"]
          /\ ctx' = [ctx EXCEPT ![c] = [NoSession EXCEPT !.key = k, !.payload = p]]
    /\ UNCHANGED <<row, appr, events, audit, scan, job>>

(* INSERT the BLOCKED run and its pending approval, and commit.            *)
RunInsert(c) ==
    /\ pc[c] = "insert"
    /\ \E r \in Run :
        /\ InsertRow(r, NewRun(ctx[c].key, ctx[c].payload, "BLOCKED", "approval_pending", TRUE))
        /\ appr' = [appr EXCEPT ![r] = PendingAppr("future")]
        /\ pc' = [pc EXCEPT ![c] = "created"]
        /\ ctx' = [ctx EXCEPT ![c] = [@ EXCEPT !.run = r]]
    /\ UNCHANGED <<events, audit, scan, job>>

(* IntegrityError on that INSERT, and the rollback.                        *)
RunInsertRefused(c) ==
    /\ pc[c] = "insert"
    /\ RunsOf(ctx[c].key) # {} \/ ctx[c].payload \in BadScope
    /\ Goto(c, "reread")
    /\ UNCHANGED <<row, appr, events, audit, scan, job>>

(* No row to recover is idempotency_race_inconsistent_state (500).         *)
RunReread(c) ==
    /\ pc[c] = "reread"
    /\ \/ Dedup(c, ctx[c].key, ctx[c].payload)
       \/ RunsOf(ctx[c].key) = {} /\ Done(c)
    /\ UNCHANGED <<row, appr, events, audit, scan, job>>

(* After the commit execution_run_created is emitted, and the request ends.*)
RunCreated(c) ==
    /\ pc[c] = "created"
    /\ Done(c)
    /\ UNCHANGED <<row, appr, events, audit, scan, job>>

(* _ensure_approval on a dedup hit: its SELECT, and what it leads to.      *)
EnsureApproval(c) ==
    LET a == appr[ctx[c].run] IN
    /\ pc[c] = "ensure"
    /\ CASE a.status = "none" -> Goto(c, "addApproval")
         [] a.status = "pending" /\ a.expiry = "null" -> Goto(c, "backfill")
         [] OTHER -> Done(c)
    /\ UNCHANGED <<row, appr, events, audit, scan, job>>

AddApproval(c) ==
    /\ pc[c] = "addApproval"
    /\ appr[ctx[c].run].status = "none"     \* UNIQUE (execution_run_id)
    /\ appr' = [appr EXCEPT ![ctx[c].run] = PendingAppr("future")]
    /\ Done(c)
    /\ UNCHANGED <<row, events, audit, scan, job>>

BackfillReopens(c) ==
    /\ pc[c] = "backfill"
    /\ appr' = [appr EXCEPT ![ctx[c].run] = [@ EXCEPT !.status = "pending", !.expiry = "future"]]
    /\ Done(c)
    /\ UNCHANGED <<row, events, audit, scan, job>>
BackfillExpiry(c) ==
    /\ pc[c] = "backfill"
    /\ appr' = [appr EXCEPT ![ctx[c].run] = [@ EXCEPT !.expiry = "future"]]
    /\ Done(c)
    /\ UNCHANGED <<row, events, audit, scan, job>>

-----------------------------------------------------------------------------
(* POST /approvals/{execution_id}/approve and /reject.                     *)

(* SELECT the approval.  A pending one is decided, or marked expired once  *)
(* its deadline has passed; a missing or resolved one is only reported.    *)
DecideRead(c, r, d) ==
    /\ pc[c] = "idle"
    /\ appr[r].status = "pending"
    /\ pc' = [pc EXCEPT ![c] = CASE appr[r].expiry = "due" -> "expire"
                                 [] d = "approved"         -> "approve"
                                 [] OTHER                  -> "reject"]
    /\ ctx' = [ctx EXCEPT ![c] = [NoSession EXCEPT !.run = r, !.seen = appr[r]]]
    /\ UNCHANGED <<row, appr, events, audit, scan, job>>

ApproveWrite(c) ==
    LET r == ctx[c].run IN
    /\ pc[c] = "approve"
    /\ InsertDecision(r, "approved")
    /\ appr' = [appr EXCEPT ![r] = [@ EXCEPT !.status = "approved",
                                            !.approved = ctx[c].seen.approved + 1]]
    /\ row' = [row EXCEPT ![r] = [@ EXCEPT !.status = "RUN", !.reason = "none",
                                          !.started = TRUE]]
    /\ Emit(r, "approved")
    /\ Done(c)
    /\ UNCHANGED <<scan, job>>

RejectWrite(c) ==
    LET r == ctx[c].run IN
    /\ pc[c] = "reject"
    /\ InsertDecision(r, "rejected")
    /\ appr' = [appr EXCEPT ![r] = [@ EXCEPT !.status = "rejected",
                                            !.rejected = ctx[c].seen.rejected + 1]]
    /\ row' = [row EXCEPT ![r] = [@ EXCEPT !.status = "HALTED", !.reason = "approval_rejected",
                                          !.ended = TRUE]]
    /\ Emit(r, "rejected")
    /\ Done(c)
    /\ UNCHANGED <<scan, job>>

(* _mark_expired: the run is blocked whatever its status is by now.        *)
MarkExpired(c) ==
    LET r == ctx[c].run IN
    /\ pc[c] = "expire"
    /\ appr' = [appr EXCEPT ![r] = [@ EXCEPT !.status = "expired"]]
    /\ row' = [row EXCEPT ![r] = [@ EXCEPT !.status = "BLOCKED", !.reason = "approval_expired",
                                          !.ended = TRUE]]
    /\ Done(c)
    /\ UNCHANGED <<events, audit, scan, job>>

(* A decision is emitted before its commit, which then fails.  Its INSERT  *)
(* was flushed when the run was loaded, so a second decision was refused   *)
(* before it was emitted.                                                  *)
DecisionTaken(c) == IF pc[c] = "approve" THEN "approved" ELSE "rejected"
CommitFailsUnflushed(c) ==
    /\ pc[c] \in {"approve", "reject"}
    /\ Emit(ctx[c].run, DecisionTaken(c))
    /\ Done(c)
    /\ UNCHANGED <<row, appr, events, scan, job>>
CommitFails(c) ==
    /\ pc[c] \in {"approve", "reject"}
    /\ Undecided(ctx[c].run)
    /\ Emit(ctx[c].run, DecisionTaken(c))
    /\ Done(c)
    /\ UNCHANGED <<row, appr, events, scan, job>>

(* A request ends with its transaction rolled back: the process stops, the *)
(* write lock times out, an INSERT violates a UNIQUE constraint, or an     *)
(* expiry does not commit.                                                 *)
RequestDies(c) ==
    /\ pc[c] # "idle"
    /\ Done(c)
    /\ UNCHANGED <<row, appr, events, audit, scan, job>>

-----------------------------------------------------------------------------
(* Background jobs and the internal service.                               *)

DueOfAnyStatus == {r \in Run : appr[r].expiry = "due"}
DueApprovals == {r \in Run : appr[r].status = "pending" /\ appr[r].expiry = "due"}

(* expire_pending_approvals_once: SELECT ... LIMIT, in no stated order.    *)
ExpirerScan ==
    /\ scan = {}
    /\ DueApprovals # {}
    /\ \E S \in SUBSET DueApprovals :
        /\ Cardinality(S) = Limit \/ (S = DueApprovals /\ Cardinality(S) < Limit)
        /\ scan' = S
    /\ UNCHANGED <<row, appr, events, audit, pc, ctx, job>>

ExpirerWrite ==
    /\ scan # {}
    /\ appr' = [r \in Run |-> IF r \in scan THEN [appr[r] EXCEPT !.status = "expired"]
                                            ELSE appr[r]]
    /\ row' = [r \in Run |->
                 IF /\ r \in scan
                    /\ row[r].status = "BLOCKED"
                    /\ row[r].reason \in {"none", "approval_pending"}
                 THEN [row[r] EXCEPT !.reason = "approval_expired"]
                 ELSE row[r]]
    /\ scan' = {}
    /\ UNCHANGED <<events, audit, pc, ctx, job>>

(* expiry_loop swallows any exception: the pass is rolled back.            *)
ExpirerFails ==
    /\ scan # {}
    /\ scan' = {}
    /\ UNCHANGED <<row, appr, events, audit, pc, ctx, job>>

JobRead(w, r) ==
    /\ job[w] = Null
    /\ row[r].status = "RUN"
    /\ job' = [job EXCEPT ![w] = r]
    /\ UNCHANGED <<row, appr, events, audit, pc, ctx, scan>>

JobWrite(w) ==
    /\ job[w] # Null
    /\ row' = [row EXCEPT ![job[w]] = [@ EXCEPT !.status = "HALTED", !.ended = TRUE]]
    /\ job' = [job EXCEPT ![w] = Null]
    /\ UNCHANGED <<appr, events, audit, pc, ctx, scan>>

JobDies(w) ==
    /\ job[w] # Null
    /\ job' = [job EXCEPT ![w] = Null]
    /\ UNCHANGED <<row, appr, events, audit, pc, ctx, scan>>

(* create_execution_run inserts a run with no approval and no fingerprint. *)
ServiceCreate(k, p) ==
    /\ \E r \in Run : InsertRow(r, NewRun(k, p, "created", "none", FALSE))
    /\ UNCHANGED <<appr, events, audit, pc, ctx, scan, job>>

(* Time: an approval's expires_at passes.                                  *)
DeadlinePasses(r) ==
    /\ appr[r].expiry = "future"
    /\ appr' = [appr EXCEPT ![r] = [@ EXCEPT !.expiry = "due"]]
    /\ UNCHANGED <<row, events, audit, pc, ctx, scan, job>>

-----------------------------------------------------------------------------
RequestStep(c) ==
    \/ RunInsert(c) \/ RunInsertRefused(c) \/ RunReread(c) \/ RunCreated(c)
    \/ EnsureApproval(c) \/ AddApproval(c) \/ BackfillExpiry(c)
    \/ ApproveWrite(c) \/ RejectWrite(c) \/ MarkExpired(c)

Next ==
    \/ \E c \in Client :
        \/ \E k \in Key, p \in Payload : RunLookup(c, k, p)
        \/ \E r \in Run, d \in Decision : DecideRead(c, r, d)
        \/ RequestStep(c)
        \/ CommitFails(c)
        \/ RequestDies(c)
    \/ \E w \in Worker :
        \/ \E r \in Run : JobRead(w, r)
        \/ JobWrite(w)
        \/ JobDies(w)
    \/ ExpirerScan \/ ExpirerWrite \/ ExpirerFails
    \/ \E k \in Key, p \in Payload : ServiceCreate(k, p)
    \/ \E r \in Run : DeadlinePasses(r)

Spec == Init /\ [][Next]_vars

(* A deployment that runs expiry_loop: it wakes every interval, a pass     *)
(* that keeps being tried is not rolled back for ever, and time goes on.   *)
ExpirerFairness ==
    /\ WF_vars(ExpirerScan) /\ SF_vars(ExpirerWrite)
    /\ \A r \in Run : WF_vars(DeadlinePasses(r))
FairSpec == Spec /\ ExpirerFairness

-----------------------------------------------------------------------------
TypeOK ==
    /\ row \in [Run -> RunRow]
    /\ appr \in [Run -> ApprRow]
    /\ events \in [Run -> Tally]
    /\ audit \in [Run -> AuditLine]
    /\ pc \in [Client -> PC]
    /\ ctx \in [Client -> Session]
    /\ scan \subseteq Run
    /\ job \in [Worker -> Run \cup {Null}]

(* An idempotency key of a project names at most one run: the pre-check,   *)
(* the INSERT and the internal service race for it.                        *)
OneRunPerKey ==
    \A r, s \in Run : Exists(r) /\ Exists(s) /\ row[r].key = row[s].key => r = s

(* No run is executing, and none was ever started, unless exactly one      *)
(* decision event is persisted for it and that event approves it: no race  *)
(* of approve, reject, the expirer, the worker or a retry gets past this.  *)
RunImpliesApproved ==
    \A r \in Run : row[r].status = "RUN" \/ row[r].started =>
        events[r].approved = 1 /\ events[r].rejected = 0

(* A decision, once persisted, leaves the approval resolved and its        *)
(* counters equal to the events, though the count is written from a row    *)
(* read before the lock was taken.                                         *)
LedgerMatchesApproval ==
    \A r \in Run :
        /\ events[r].approved = appr[r].approved
        /\ events[r].rejected = appr[r].rejected
        /\ ~Undecided(r) => appr[r].status \in {"approved", "rejected", "expired"}

(* While an approval is pending its run is BLOCKED on it and has no trace  *)
(* of execution: the gate is closed by default.                            *)
PendingMeansBlocked ==
    \A r \in Run : appr[r].status = "pending" =>
        /\ row[r].status = "BLOCKED" /\ row[r].reason = "approval_pending"
        /\ ~row[r].started /\ ~row[r].ended /\ Undecided(r)

(* The last decision that the audit stream announces of a decided run is   *)
(* the one that was persisted, unless an audit_error stands in its place:  *)
(* none is persisted in silence, and one that is refused, or taken on a    *)
(* stale reading, is not announced after it.                               *)
AnnouncedDecisionStands ==
    \A r \in Run, d \in Decision : events[r][d] > 0 => audit[r] \in {d, "audit_error"}

(* A resolved approval never becomes pending again: neither a repeated     *)
(* POST /run, nor two of them ensuring the approval at once, reopens it.   *)
ResolvedNeverReopened ==
    [][\A r \in Run : appr[r].status \in {"approved", "rejected", "expired"} =>
            appr'[r].status \in {"approved", "rejected", "expired"}]_vars

(* With expiry_loop running, an overdue pending approval is resolved: the  *)
(* batch limit starves none, and a pass that failed is made up for.        *)
OverdueIsResolved ==
    \A r \in Run : (appr[r].status = "pending" /\ appr[r].expiry = "due")
                        ~> appr[r].status # "pending"

(* One run's authorisation as RunAuthorization promises it, computed from  *)
(* the decision events and the run's status.                               *)
AuthorizationOf(tally, status) ==
    CASE tally.rejected # 0                        -> "refused"
      [] tally.rejected = 0 /\ tally.approved = 0 -> "shut"
      [] OTHER -> IF status = "RUN" THEN "open" ELSE "spent"
Authorization(r) == AuthorizationOf(events[r], row[r].status)

Auth == INSTANCE RunAuthorization WITH gate <- [r \in Run |-> Authorization(r)]

(* The whole protocol, with its races and failures, implements the one-way *)
(* authorisation of a run: opened at most once, never after a refusal.     *)
ImplementsAuthorization == Auth!Spec

-----------------------------------------------------------------------------
(* Statements of the repository that the code does not meet.               *)

(* "execution run blocked (always fixed)" once the approval has expired:   *)
(* a run blocked by expiry does not start afterwards.                      *)
ExpiredNeverRuns ==
    [][\A r \in Run : row[r].reason = "approval_expired" => row'[r].status # "RUN"]_vars
=============================================================================
