------------------------ MODULE ApprovalGate_proofs ------------------------
(***************************************************************************)
(* What holds of the approval gate for every number of runs, requests and  *)
(* workers: no run is authorised without its one approving decision, the   *)
(* gate is closed by default, and the protocol implements RunAuthorization.*)
(***************************************************************************)
EXTENDS ApprovalGate, TLAPS

-----------------------------------------------------------------------------
(* Type correctness.                                                       *)

(* Every update a handler makes to a row of execution_runs yields a row.   *)
LEMMA RowUpdates ==
    ASSUME NEW x \in RunRow
    PROVE  /\ [x EXCEPT !.status = "RUN", !.reason = "none", !.started = TRUE] \in RunRow
           /\ [x EXCEPT !.status = "HALTED", !.reason = "approval_rejected",
                        !.ended = TRUE] \in RunRow
           /\ [x EXCEPT !.status = "BLOCKED", !.reason = "approval_expired",
                        !.ended = TRUE] \in RunRow
           /\ [x EXCEPT !.status = "HALTED", !.ended = TRUE] \in RunRow
           /\ [x EXCEPT !.reason = "approval_expired"] \in RunRow
BY DEF RunRow, RunStatus, Reason

(* Every update a handler makes to a row of approvals yields a row.        *)
LEMMA ApprUpdates ==
    ASSUME NEW a \in ApprRow, NEW n \in Nat
    PROVE  /\ [a EXCEPT !.status = "approved", !.approved = n] \in ApprRow
           /\ [a EXCEPT !.status = "rejected", !.rejected = n] \in ApprRow
           /\ [a EXCEPT !.status = "expired"] \in ApprRow
           /\ [a EXCEPT !.expiry = "future"] \in ApprRow
           /\ [a EXCEPT !.expiry = "due"] \in ApprRow
BY DEF ApprRow, ApprStatus

(* One more decision event is a tally again.                               *)
LEMMA TallyUpdates ==
    ASSUME NEW t \in Tally, NEW d \in Decision
    PROVE  Counted(t, d) \in Tally
BY DEF Tally, Decision, Counted

(* The rows that the INSERTs write, and the absent ones, are rows.         *)
LEMMA NewRows ==
    /\ \A k \in Key, p \in Payload :
          /\ NewRun(k, p, "BLOCKED", "approval_pending", TRUE) \in RunRow
          /\ NewRun(k, p, "created", "none", FALSE) \in RunRow
    /\ AbsentRun \in RunRow
    /\ NoAppr \in ApprRow
    /\ PendingAppr("null") \in ApprRow
    /\ PendingAppr("future") \in ApprRow
BY DEF NewRun, RunRow, RunStatus, Reason, AbsentRun, NoAppr, PendingAppr, ApprRow, ApprStatus

(* A request at rest, and one that has read something, is a session.       *)
LEMMA IdleSession == NoSession \in Session
BY NewRows DEF NoSession, Session

LEMMA OpenSessions ==
    /\ \A k \in Key, p \in Payload, r \in Run :
          [NoSession EXCEPT !.key = k, !.payload = p, !.run = r] \in Session
    /\ \A k \in Key, p \in Payload : [NoSession EXCEPT !.key = k, !.payload = p] \in Session
    /\ \A r \in Run, a \in ApprRow : [NoSession EXCEPT !.run = r, !.seen = a] \in Session
    /\ \A x \in Session, r \in Run : [x EXCEPT !.run = r] \in Session
BY NewRows DEF NoSession, Session

LEMMA DoneType ==
    ASSUME TypeOK, NEW c \in Client, Done(c)
    PROVE  pc' \in [Client -> PC] /\ ctx' \in [Client -> Session]
BY IdleSession DEF TypeOK, Done, PC

LEMMA GotoType ==
    ASSUME TypeOK, NEW c \in Client, NEW label \in PC, Goto(c, label)
    PROVE  pc' \in [Client -> PC] /\ ctx' \in [Client -> Session]
BY DEF TypeOK, Goto

LEMMA DedupType ==
    ASSUME TypeOK, NEW c \in Client, NEW k \in Key, NEW p \in Payload, Dedup(c, k, p)
    PROVE  pc' \in [Client -> PC] /\ ctx' \in [Client -> Session]
<1>1. PICK r \in Run : IF Conflict(r, p) THEN Done(c)
                       ELSE /\ pc' = [pc EXCEPT ![c] = "ensure"]
                            /\ ctx' = [ctx EXCEPT ![c] =
                                 [NoSession EXCEPT !.key = k, !.payload = p, !.run = r]]
  BY DEF Dedup, RunsOf
<1>2. CASE Conflict(r, p)
  BY <1>1, <1>2, DoneType
<1>3. CASE ~Conflict(r, p)
  <2>1. [NoSession EXCEPT !.key = k, !.payload = p, !.run = r] \in Session
    BY OpenSessions
  <2>2. QED
    BY <1>1, <1>3, <2>1 DEF TypeOK, PC
<1>4. QED
  BY <1>2, <1>3

LEMMA EmitType ==
    ASSUME TypeOK, NEW r, NEW d \in Decision, Emit(r, d)
    PROVE  audit' \in [Run -> AuditLine]
BY DEF TypeOK, AuditLine, Emit, EmitFails

(* No step leaves the types: one step of the proof per action.             *)
LEMMA TypeStep == TypeOK /\ [Next]_vars => TypeOK'
<1> SUFFICES ASSUME TypeOK, [Next]_vars PROVE TypeOK'
  OBVIOUS
<1>1. ASSUME NEW c \in Client, NEW k \in Key, NEW p \in Payload, RunLookup(c, k, p)
      PROVE  TypeOK'
  <2>1. CASE Dedup(c, k, p)
    BY <1>1, <2>1, DedupType DEF TypeOK, RunLookup
  <2>2. CASE /\ RunsOf(k) = {}
             /\ pc' = [pc EXCEPT ![c] = "insert"]
             /\ ctx' = [ctx EXCEPT ![c] = [NoSession EXCEPT !.key = k, !.payload = p]]
    <3>1. [NoSession EXCEPT !.key = k, !.payload = p] \in Session
      BY OpenSessions
    <3>2. QED
      BY <1>1, <2>2, <3>1 DEF TypeOK, RunLookup, PC
  <2>3. QED
    BY <1>1, <2>1, <2>2 DEF RunLookup
<1>2. ASSUME NEW c \in Client, NEW r \in Run, NEW d \in Decision, DecideRead(c, r, d)
      PROVE  TypeOK'
  <2>1. [NoSession EXCEPT !.run = r, !.seen = appr[r]] \in Session
    BY OpenSessions DEF TypeOK
  <2>2. ctx' \in [Client -> Session]
    BY <1>2, <2>1 DEF TypeOK, DecideRead
  <2>3. pc' \in [Client -> PC]
    BY <1>2 DEF TypeOK, DecideRead, PC
  <2>4. QED
    BY <1>2, <2>2, <2>3 DEF TypeOK, DecideRead
<1>3. ASSUME NEW c \in Client, RunInsert(c) PROVE TypeOK'
  <2>1. PICK r \in Run :
           /\ row' = [row EXCEPT ![r] = NewRun(ctx[c].key, ctx[c].payload,
                                               "BLOCKED", "approval_pending", TRUE)]
           /\ appr' = [appr EXCEPT ![r] = PendingAppr("future")]
           /\ pc' = [pc EXCEPT ![c] = "created"]
           /\ ctx' = [ctx EXCEPT ![c] = [@ EXCEPT !.run = r]]
    BY <1>3 DEF RunInsert, InsertRow
  <2>2. NewRun(ctx[c].key, ctx[c].payload, "BLOCKED", "approval_pending", TRUE) \in RunRow
    BY DEF TypeOK, Session, NewRun, RunRow, RunStatus, Reason
  <2>3. PendingAppr("future") \in ApprRow
    BY NewRows
  <2>4. [ctx[c] EXCEPT !.run = r] \in Session
    BY OpenSessions DEF TypeOK
  <2>5. QED
    BY <1>3, <2>1, <2>2, <2>3, <2>4 DEF TypeOK, RunInsert, PC, InsertRow
<1>4. ASSUME NEW c \in Client, RunInsertRefused(c) PROVE TypeOK'
  BY <1>4, GotoType DEF TypeOK, RunInsertRefused, PC
<1>5. ASSUME NEW c \in Client, RunReread(c) PROVE TypeOK'
  <2>1. CASE Done(c)
    BY <1>5, <2>1, DoneType DEF TypeOK, RunReread
  <2>2. CASE Dedup(c, ctx[c].key, ctx[c].payload)
    <3>1. PICK r \in RunsOf(ctx[c].key) :
             IF Conflict(r, ctx[c].payload) THEN Done(c)
             ELSE /\ pc' = [pc EXCEPT ![c] = "ensure"]
                  /\ ctx' = [ctx EXCEPT ![c] = [NoSession EXCEPT
                        !.key = ctx[c].key, !.payload = ctx[c].payload, !.run = r]]
      BY <2>2 DEF Dedup
    <3>2. CASE Conflict(r, ctx[c].payload)
      BY <1>5, <3>1, <3>2, DoneType DEF TypeOK, RunReread
    <3>3. CASE ~Conflict(r, ctx[c].payload)
      <4>1. [NoSession EXCEPT !.key = ctx[c].key, !.payload = ctx[c].payload,
                              !.run = r] \in Session
        BY IdleSession DEF TypeOK, Session, RunsOf
      <4>2. QED
        BY <1>5, <3>1, <3>3, <4>1 DEF TypeOK, RunReread, PC
    <3>4. QED
      BY <3>2, <3>3
  <2>3. QED
    BY <1>5, <2>1, <2>2 DEF RunReread
<1>6. ASSUME NEW c \in Client, RunCreated(c) PROVE TypeOK'
  BY <1>6, DoneType DEF TypeOK, RunCreated
<1>7. ASSUME NEW c \in Client, EnsureApproval(c) PROVE TypeOK'
  <2>1. Goto(c, "addApproval") \/ Goto(c, "backfill") \/ Done(c)
    BY <1>7 DEF EnsureApproval
  <2>2. pc' \in [Client -> PC] /\ ctx' \in [Client -> Session]
    BY <2>1, GotoType, DoneType DEF PC
  <2>3. QED
    BY <1>7, <2>2 DEF TypeOK, EnsureApproval
<1>8. ASSUME NEW c \in Client, AddApproval(c) PROVE TypeOK'
  <2>1. appr' \in [Run -> ApprRow]
    BY <1>8, NewRows DEF TypeOK, AddApproval
  <2>2. QED
    BY <1>8, <2>1, DoneType DEF TypeOK, AddApproval
<1>9. ASSUME NEW c \in Client, BackfillExpiry(c) PROVE TypeOK'
  <2>1. appr' \in [Run -> ApprRow]
    BY <1>9, ApprUpdates DEF TypeOK, BackfillExpiry
  <2>2. QED
    BY <1>9, <2>1, DoneType DEF TypeOK, BackfillExpiry
<1>10. ASSUME NEW c \in Client, ApproveWrite(c) PROVE TypeOK'
  <2>1. row' \in [Run -> RunRow]
    BY <1>10, RowUpdates DEF TypeOK, ApproveWrite, InsertDecision
  <2>2. ctx[c].seen.approved + 1 \in Nat
    BY DEF TypeOK, Session, ApprRow
  <2>3. appr' \in [Run -> ApprRow]
    BY <1>10, <2>2, ApprUpdates DEF TypeOK, ApproveWrite, InsertDecision
  <2>4. events' \in [Run -> Tally]
    BY <1>10, TallyUpdates DEF TypeOK, ApproveWrite, Decision, InsertDecision
  <2>5. audit' \in [Run -> AuditLine]
    BY <1>10, EmitType DEF TypeOK, ApproveWrite, Decision
  <2>6. QED
    BY <1>10, <2>1, <2>3, <2>4, <2>5, DoneType DEF TypeOK, ApproveWrite, InsertDecision
<1>11. ASSUME NEW c \in Client, RejectWrite(c) PROVE TypeOK'
  <2>1. row' \in [Run -> RunRow]
    BY <1>11, RowUpdates DEF TypeOK, RejectWrite, InsertDecision
  <2>2. ctx[c].seen.rejected + 1 \in Nat
    BY DEF TypeOK, Session, ApprRow
  <2>3. appr' \in [Run -> ApprRow]
    BY <1>11, <2>2, ApprUpdates DEF TypeOK, RejectWrite, InsertDecision
  <2>4. events' \in [Run -> Tally]
    BY <1>11, TallyUpdates DEF TypeOK, RejectWrite, Decision, InsertDecision
  <2>5. audit' \in [Run -> AuditLine]
    BY <1>11, EmitType DEF TypeOK, RejectWrite, Decision
  <2>6. QED
    BY <1>11, <2>1, <2>3, <2>4, <2>5, DoneType DEF TypeOK, RejectWrite, InsertDecision
<1>12. ASSUME NEW c \in Client, MarkExpired(c) PROVE TypeOK'
  <2>1. row' \in [Run -> RunRow]
    BY <1>12, RowUpdates DEF TypeOK, MarkExpired
  <2>2. appr' \in [Run -> ApprRow]
    BY <1>12, ApprUpdates DEF TypeOK, MarkExpired
  <2>3. QED
    BY <1>12, <2>1, <2>2, DoneType DEF TypeOK, MarkExpired
<1>13. ASSUME NEW c \in Client, CommitFails(c) PROVE TypeOK'
  <2>1. audit' \in [Run -> AuditLine]
    BY <1>13, EmitType DEF TypeOK, CommitFails, DecisionTaken, Decision
  <2>2. QED
    BY <1>13, <2>1, DoneType DEF TypeOK, CommitFails
<1>14. ASSUME NEW c \in Client, RequestDies(c) PROVE TypeOK'
  BY <1>14, DoneType DEF TypeOK, RequestDies
<1>15. ASSUME NEW w \in Worker, NEW r \in Run, JobRead(w, r) PROVE TypeOK'
  BY <1>15 DEF TypeOK, JobRead
<1>16. ASSUME NEW w \in Worker, JobWrite(w) PROVE TypeOK'
  <2>1. row' \in [Run -> RunRow]
    BY <1>16, RowUpdates DEF TypeOK, JobWrite
  <2>2. QED
    BY <1>16, <2>1 DEF TypeOK, JobWrite
<1>17. ASSUME NEW w \in Worker, JobDies(w) PROVE TypeOK'
  BY <1>17 DEF TypeOK, JobDies
<1>18. CASE ExpirerScan
  BY <1>18 DEF TypeOK, ExpirerScan, DueApprovals
<1>19. CASE ExpirerWrite
  <2>1. \A r \in Run : row'[r] \in RunRow
    BY <1>19, RowUpdates DEF TypeOK, ExpirerWrite
  <2>2. \A r \in Run : appr'[r] \in ApprRow
    BY <1>19, ApprUpdates DEF TypeOK, ExpirerWrite
  <2>3. row' = [r \in Run |-> row'[r]] /\ appr' = [r \in Run |-> appr'[r]]
    BY <1>19 DEF ExpirerWrite
  <2>4. QED
    BY <1>19, <2>1, <2>2, <2>3 DEF TypeOK, ExpirerWrite
<1>20. CASE ExpirerFails
  BY <1>20 DEF TypeOK, ExpirerFails
<1>21. ASSUME NEW k \in Key, NEW p \in Payload, ServiceCreate(k, p) PROVE TypeOK'
  <2>1. PICK r \in Run : row' = [row EXCEPT ![r] = NewRun(k, p, "created", "none", FALSE)]
    BY <1>21 DEF ServiceCreate, InsertRow
  <2>2. NewRun(k, p, "created", "none", FALSE) \in RunRow
    BY NewRows
  <2>3. row' \in [Run -> RunRow]
    BY <2>1, <2>2 DEF TypeOK
  <2>4. QED
    BY <1>21, <2>3 DEF TypeOK, ServiceCreate
<1>22. ASSUME NEW r \in Run, DeadlinePasses(r) PROVE TypeOK'
  <2>1. appr' \in [Run -> ApprRow]
    BY <1>22, ApprUpdates DEF TypeOK, DeadlinePasses
  <2>2. QED
    BY <1>22, <2>1 DEF TypeOK, DeadlinePasses
<1>23. CASE UNCHANGED vars
  BY <1>23 DEF TypeOK, vars
<1>24. QED
  BY <1>1, <1>2, <1>3, <1>4, <1>5, <1>6, <1>7, <1>8, <1>9, <1>10, <1>11, <1>12, <1>13,
     <1>14, <1>15, <1>16, <1>17, <1>18, <1>19, <1>20, <1>21, <1>22, <1>23
     DEF Next, RequestStep

LEMMA TypeInit == Init => TypeOK
<1> SUFFICES ASSUME Init PROVE TypeOK
  OBVIOUS
<1>1. row \in [Run -> RunRow]
  <2>1. \A x \in LegacyRuns : x \in RunRow
    <3> SUFFICES ASSUME NEW x \in LegacyRuns PROVE x \in RunRow
      OBVIOUS
    <3>1. PICK k \in Key, p \in Payload \ BadScope :
             x = NewRun(k, p, "BLOCKED", "approval_pending", TRUE)
      BY DEF LegacyRuns
    <3>2. QED
      BY <3>1, NewRows
  <2>2. QED
    BY <2>1, NewRows DEF Init
<1>2. appr \in [Run -> ApprRow]
  BY NewRows DEF Init
<1>3. ctx \in [Client -> Session]
  BY IdleSession DEF Init
<1>4. QED
  BY <1>1, <1>2, <1>3 DEF Init, TypeOK, PC, Tally, Decision, AuditLine

(* The tables, the requests and the jobs keep their types in every         *)
(* reachable state, for any number of each.                                *)
THEOREM TypeCorrect == Spec => []TypeOK
BY TypeInit, TypeStep, PTL DEF Spec

-----------------------------------------------------------------------------
(* The inductive invariant.                                                *)

(* The rows of a run that does not exist, and of one whose approval is     *)
(* still missing: a fingerprinted run waits for it, blocked.               *)
RowInv ==
    \A r \in Run :
        /\ ~Exists(r) => row[r] = AbsentRun /\ appr[r] = NoAppr
        /\ row[r].stamped /\ appr[r].status = "none" =>
              /\ row[r].status = "BLOCKED" /\ row[r].reason = "approval_pending"
              /\ ~row[r].started /\ ~row[r].ended

(* What a request may rely on from its own reads, however old they are:    *)
(* rows are never deleted, a fingerprint is never withdrawn, and the       *)
(* approval it is about to decide was undecided when it read it.           *)
SessionInv ==
    \A c \in Client :
        /\ pc[c] \in {"insert", "reread"} => ctx[c].key \in Key /\ ctx[c].payload \in Payload
        /\ pc[c] \notin {"idle", "insert", "reread"} => ctx[c].run \in Run
        /\ pc[c] \in {"ensure", "addApproval"} => row[ctx[c].run].stamped
        /\ pc[c] \in {"backfill", "approve", "reject", "expire"} =>
              appr[ctx[c].run].status # "none"
        /\ pc[c] \in {"approve", "reject"} =>
              ctx[c].seen.approved = 0 /\ ctx[c].seen.rejected = 0

OneDecision == \A r \in Run : events[r].approved + events[r].rejected <= 1

(* A job in flight works on an approved run, the expirer on real approvals.*)
JobInv  == \A w \in Worker : job[w] # Null => events[job[w]].approved = 1
ScanInv == \A r \in scan : appr[r].status # "none"

IInv ==
    /\ TypeOK
    /\ RowInv
    /\ SessionInv
    /\ OneDecision
    /\ JobInv
    /\ ScanInv
    /\ RunImpliesApproved
    /\ LedgerMatchesApproval
    /\ PendingMeansBlocked
    /\ AnnouncedDecisionStands
    /\ OneRunPerKey

-----------------------------------------------------------------------------
(* Frames: what a step preserves because of the variables it leaves alone. *)

(* No step deletes a run or an approval, or withdraws a fingerprint.       *)
TablesKept ==
    \A r \in Run : /\ row[r].stamped => row'[r].stamped
                   /\ appr[r].status # "none" => appr'[r].status # "none"

(* The other requests lose nothing they rely on when one ends.             *)
LEMMA SessionEnds ==
    ASSUME TypeOK, TypeOK', SessionInv, NEW c \in Client, Done(c), TablesKept
    PROVE  SessionInv'
BY DEF TypeOK, Session, PC, RunRow, ApprRow, SessionInv, Done, TablesKept

(* Nor when a job, the internal service or the clock writes.               *)
LEMMA SessionsUntouched ==
    ASSUME TypeOK, TypeOK', SessionInv, UNCHANGED <<pc, ctx>>, TablesKept
    PROVE  SessionInv'
BY DEF TypeOK, Session, PC, RunRow, ApprRow, SessionInv, TablesKept

(* A dedup hit carries on with a fingerprinted run.                        *)
LEMMA SessionDedups ==
    ASSUME TypeOK, TypeOK', SessionInv, NEW c \in Client,
           NEW k \in Key, NEW p \in Payload, Dedup(c, k, p), UNCHANGED <<row, appr>>
    PROVE  SessionInv'
<1>1. PICK r \in RunsOf(k) :
         IF Conflict(r, p) THEN Done(c)
         ELSE /\ pc' = [pc EXCEPT ![c] = "ensure"]
              /\ ctx' = [ctx EXCEPT ![c] =
                           [NoSession EXCEPT !.key = k, !.payload = p, !.run = r]]
  BY DEF Dedup
<1>2. CASE Conflict(r, p)
  BY <1>1, <1>2, SessionEnds DEF TablesKept
<1>3. CASE ~Conflict(r, p)
  <2>1. r \in Run /\ row[r].stamped
    BY <1>3 DEF RunsOf, Conflict
  <2>2. /\ pc' = [pc EXCEPT ![c] = "ensure"]
        /\ ctx' = [ctx EXCEPT ![c] = [NoSession EXCEPT !.key = k, !.payload = p, !.run = r]]
    BY <1>1, <1>3
  <2>3. pc'[c] = "ensure" /\ ctx'[c].run = r
    BY <2>2 DEF TypeOK, NoSession
  <2>4. \A d \in Client : d # c => pc'[d] = pc[d] /\ ctx'[d] = ctx[d]
    BY <2>2 DEF TypeOK
  <2>5. QED
    BY <2>1, <2>3, <2>4 DEF SessionInv
<1>4. QED
  BY <1>2, <1>3

(* A step that only moves a request, or writes an audit line about a run   *)
(* that is not decided.                                                    *)
LEMMA RequestFrame ==
    ASSUME IInv, TypeOK', UNCHANGED <<row, appr, events, scan, job>>,
           \A r \in Run : audit'[r] = audit[r] \/ Undecided(r), SessionInv'
    PROVE  IInv'
<1>1. AnnouncedDecisionStands'
  BY DEF IInv, TypeOK, Tally, Decision, AnnouncedDecisionStands, Undecided
<1>2. QED
  BY <1>1 DEF IInv, RowInv, OneDecision, JobInv, ScanInv, RunImpliesApproved,
     LedgerMatchesApproval, PendingMeansBlocked, OneRunPerKey, Exists, Undecided

(* A step that only moves the expirer or a worker.                         *)
LEMMA JobFrame ==
    ASSUME IInv, TypeOK', UNCHANGED <<row, appr, events, audit, pc, ctx>>, JobInv', ScanInv'
    PROVE  IInv'
BY DEF IInv, RowInv, SessionInv, OneDecision, RunImpliesApproved, LedgerMatchesApproval,
   PendingMeansBlocked, AnnouncedDecisionStands, OneRunPerKey, Exists, Undecided
(* A step that creates no run and changes no key cannot duplicate one.     *)
LEMMA KeysKept ==
    ASSUME OneRunPerKey,
           \A r \in Run : Exists(r)' => Exists(r) /\ row'[r].key = row[r].key
    PROVE  OneRunPerKey'
BY DEF OneRunPerKey

(* A request that found an approval found it on an existing run.           *)
LEMMA DecidedRunExists ==
    ASSUME IInv, NEW c \in Client, pc[c] \in {"backfill", "approve", "reject", "expire"}
    PROVE  /\ ctx[c].run \in Run /\ Exists(ctx[c].run)
           /\ appr[ctx[c].run].status # "none"
BY DEF IInv, SessionInv, RowInv, NoAppr

-----------------------------------------------------------------------------
(* What each writing step preserves.                                       *)

(* A decision is written over whatever the row and approval have become.   *)
LEMMA ApproveWriteInv ==
    ASSUME IInv, TypeOK', NEW c \in Client, ApproveWrite(c)
    PROVE  IInv'
<1>1. RowInv'
  BY DecidedRunExists DEF IInv, TypeOK, RunRow, ApprRow, RowInv, Exists, ApproveWrite,
     InsertDecision
<1>2. SessionInv'
  BY SessionEnds DEF IInv, TypeOK, RunRow, ApprRow, ApproveWrite, TablesKept, InsertDecision
<1>3. OneDecision'
  BY DEF IInv, TypeOK, Tally, Decision, OneDecision, Undecided, Counted, ApproveWrite,
     InsertDecision
<1>4. JobInv'
  BY DEF IInv, TypeOK, Tally, Decision, JobInv, Undecided, Counted, ApproveWrite,
     InsertDecision
<1>5. ScanInv'
  BY DEF IInv, TypeOK, RunRow, ApprRow, ScanInv, ApproveWrite, InsertDecision
<1>6. RunImpliesApproved'
  BY DEF IInv, TypeOK, RunRow, ApprRow, Tally, Decision, RunImpliesApproved, Undecided,
     Counted, ApproveWrite, InsertDecision
<1>7. LedgerMatchesApproval'
  BY DEF IInv, TypeOK, RunRow, ApprRow, Session, Tally, Decision, SessionInv,
     LedgerMatchesApproval, Undecided, Counted, ApproveWrite, InsertDecision
<1>8. PendingMeansBlocked'
  BY DEF IInv, TypeOK, RunRow, ApprRow, Tally, Decision, PendingMeansBlocked, Undecided,
     Counted, ApproveWrite, InsertDecision
<1>9. AnnouncedDecisionStands'
  <2>1. \A r \in Run \ {ctx[c].run} : audit'[r] = audit[r] /\ events'[r] = events[r]
    BY DEF IInv, TypeOK, ApproveWrite, InsertDecision, Emit, EmitFails
  <2>2. audit'[ctx[c].run] \in {"approved", "audit_error"}
    BY DecidedRunExists DEF IInv, TypeOK, ApproveWrite, Emit, EmitFails
  <2>3. events'[ctx[c].run].rejected = 0
    BY DecidedRunExists DEF IInv, TypeOK, Tally, Decision, Undecided, Counted, ApproveWrite,
       InsertDecision
  <2>4. QED
    BY <2>1, <2>2, <2>3 DEF IInv, Decision, AnnouncedDecisionStands
<1>10. OneRunPerKey'
  BY KeysKept, DecidedRunExists DEF IInv, TypeOK, RunRow, Exists, ApproveWrite, InsertDecision
<1>11. QED
  BY <1>1, <1>2, <1>3, <1>4, <1>5, <1>6, <1>7, <1>8, <1>9, <1>10 DEF IInv

(* A decision is written over whatever the row and approval have become.   *)
LEMMA RejectWriteInv ==
    ASSUME IInv, TypeOK', NEW c \in Client, RejectWrite(c)
    PROVE  IInv'
<1>1. RowInv'
  BY DecidedRunExists DEF IInv, TypeOK, RunRow, ApprRow, RowInv, Exists, RejectWrite,
     InsertDecision
<1>2. SessionInv'
  BY SessionEnds DEF IInv, TypeOK, RunRow, ApprRow, RejectWrite, TablesKept, InsertDecision
<1>3. OneDecision'
  BY DEF IInv, TypeOK, Tally, Decision, OneDecision, Undecided, Counted, RejectWrite,
     InsertDecision
<1>4. JobInv'
  BY DEF IInv, TypeOK, Tally, Decision, JobInv, Undecided, Counted, RejectWrite,
     InsertDecision
<1>5. ScanInv'
  BY DEF IInv, TypeOK, RunRow, ApprRow, ScanInv, RejectWrite, InsertDecision
<1>6. RunImpliesApproved'
  BY DEF IInv, TypeOK, RunRow, ApprRow, Tally, Decision, RunImpliesApproved, Undecided,
     Counted, RejectWrite, InsertDecision
<1>7. LedgerMatchesApproval'
  BY DEF IInv, TypeOK, RunRow, ApprRow, Session, Tally, Decision, SessionInv,
     LedgerMatchesApproval, Undecided, Counted, RejectWrite, InsertDecision
<1>8. PendingMeansBlocked'
  BY DEF IInv, TypeOK, RunRow, ApprRow, Tally, Decision, PendingMeansBlocked, Undecided,
     Counted, RejectWrite, InsertDecision
<1>9. AnnouncedDecisionStands'
  <2>1. \A r \in Run \ {ctx[c].run} : audit'[r] = audit[r] /\ events'[r] = events[r]
    BY DEF IInv, TypeOK, RejectWrite, InsertDecision, Emit, EmitFails
  <2>2. audit'[ctx[c].run] \in {"rejected", "audit_error"}
    BY DecidedRunExists DEF IInv, TypeOK, RejectWrite, Emit, EmitFails
  <2>3. events'[ctx[c].run].approved = 0
    BY DecidedRunExists DEF IInv, TypeOK, Tally, Decision, Undecided, Counted, RejectWrite,
       InsertDecision
  <2>4. QED
    BY <2>1, <2>2, <2>3 DEF IInv, Decision, AnnouncedDecisionStands
<1>10. OneRunPerKey'
  BY KeysKept, DecidedRunExists DEF IInv, TypeOK, RunRow, Exists, RejectWrite, InsertDecision
<1>11. QED
  BY <1>1, <1>2, <1>3, <1>4, <1>5, <1>6, <1>7, <1>8, <1>9, <1>10 DEF IInv

(* Expiry by a request never starts a run and leaves the ledger alone.     *)
LEMMA MarkExpiredInv ==
    ASSUME IInv, TypeOK', NEW c \in Client, MarkExpired(c)
    PROVE  IInv'
<1>1. RowInv'
  BY DecidedRunExists DEF IInv, TypeOK, RunRow, ApprRow, RowInv, Exists, MarkExpired
<1>2. SessionInv'
  BY SessionEnds DEF IInv, TypeOK, RunRow, ApprRow, MarkExpired, TablesKept
<1>3. OneDecision' /\ JobInv'
  BY DEF IInv, OneDecision, JobInv, MarkExpired
<1>4. ScanInv'
  BY DEF IInv, TypeOK, RunRow, ApprRow, ScanInv, MarkExpired
<1>5. RunImpliesApproved'
  BY DEF IInv, TypeOK, RunRow, ApprRow, RunImpliesApproved, MarkExpired
<1>6. LedgerMatchesApproval'
  BY DEF IInv, TypeOK, RunRow, ApprRow, LedgerMatchesApproval, Undecided, MarkExpired
<1>7. PendingMeansBlocked'
  BY DEF IInv, TypeOK, RunRow, ApprRow, PendingMeansBlocked, Undecided, MarkExpired
<1>8. AnnouncedDecisionStands'
  BY DEF IInv, TypeOK, AnnouncedDecisionStands, MarkExpired
<1>9. OneRunPerKey'
  BY KeysKept, DecidedRunExists DEF IInv, TypeOK, RunRow, Exists, MarkExpired
<1>10. QED
  BY <1>1, <1>2, <1>3, <1>4, <1>5, <1>6, <1>7, <1>8, <1>9 DEF IInv

(* A backfilled deadline touches nothing else of the approval.             *)
LEMMA BackfillExpiryInv ==
    ASSUME IInv, TypeOK', NEW c \in Client, BackfillExpiry(c)
    PROVE  IInv'
<1>1. RowInv'
  BY DecidedRunExists DEF IInv, TypeOK, RunRow, ApprRow, RowInv, Exists, BackfillExpiry
<1>2. SessionInv'
  BY SessionEnds DEF IInv, TypeOK, RunRow, ApprRow, BackfillExpiry, TablesKept
<1>3. OneDecision' /\ JobInv' /\ RunImpliesApproved' /\ AnnouncedDecisionStands' /\ OneRunPerKey'
  BY DEF IInv, OneDecision, JobInv, RunImpliesApproved, AnnouncedDecisionStands, OneRunPerKey,
     Exists, BackfillExpiry
<1>4. ScanInv'
  BY DEF IInv, TypeOK, RunRow, ApprRow, ScanInv, BackfillExpiry
<1>5. LedgerMatchesApproval'
  BY DEF IInv, TypeOK, RunRow, ApprRow, LedgerMatchesApproval, Undecided, BackfillExpiry
<1>6. PendingMeansBlocked'
  BY DEF IInv, TypeOK, RunRow, ApprRow, PendingMeansBlocked, Undecided, BackfillExpiry
<1>7. QED
  BY <1>1, <1>2, <1>3, <1>4, <1>5, <1>6 DEF IInv

(* The missing approval is added to a run that waited for it, blocked.     *)
LEMMA AddApprovalInv ==
    ASSUME IInv, TypeOK', NEW c \in Client, AddApproval(c)
    PROVE  IInv'
<1>1. RowInv'
  BY DEF IInv, TypeOK, RunRow, ApprRow, SessionInv, RowInv, Exists, PendingAppr, NoAppr,
     AddApproval
<1>2. SessionInv'
  BY SessionEnds DEF IInv, TypeOK, RunRow, ApprRow, AddApproval, PendingAppr, NoAppr,
     TablesKept
<1>3. OneDecision' /\ JobInv' /\ RunImpliesApproved' /\ AnnouncedDecisionStands' /\ OneRunPerKey'
  BY DEF IInv, OneDecision, JobInv, RunImpliesApproved, AnnouncedDecisionStands, OneRunPerKey,
     Exists, AddApproval
<1>4. ScanInv'
  BY DEF IInv, TypeOK, RunRow, ApprRow, ScanInv, PendingAppr, NoAppr, AddApproval
<1>5. LedgerMatchesApproval'
  BY DEF IInv, TypeOK, RunRow, ApprRow, Tally, Decision, LedgerMatchesApproval, Undecided,
     PendingAppr, NoAppr, AddApproval
<1>6. PendingMeansBlocked'
  <2> SUFFICES ASSUME NEW r \in Run, appr'[r].status = "pending"
               PROVE  /\ row[r].status = "BLOCKED" /\ row[r].reason = "approval_pending"
                      /\ ~row[r].started /\ ~row[r].ended /\ Undecided(r)
    BY DEF PendingMeansBlocked, Undecided, AddApproval
  <2>1. CASE r = ctx[c].run
    <3>1. row[r].stamped /\ appr[r].status = "none"
      BY <2>1 DEF IInv, SessionInv, AddApproval
    <3>2. QED
      BY <3>1 DEF IInv, TypeOK, Tally, Decision, RowInv, LedgerMatchesApproval, Undecided
  <2>2. CASE r # ctx[c].run
    BY <2>2 DEF IInv, TypeOK, PendingMeansBlocked, AddApproval
  <2>3. QED
    BY <2>1, <2>2
<1>7. QED
  BY <1>1, <1>2, <1>3, <1>4, <1>5, <1>6 DEF IInv

(* A new run takes a free key, blocked, with a pending approval.           *)
LEMMA RunInsertInv ==
    ASSUME IInv, TypeOK', NEW c \in Client, RunInsert(c)
    PROVE  IInv'
<1>1. RowInv'
  BY DEF IInv, TypeOK, RunRow, ApprRow, RowInv, Exists, NewRun, PendingAppr, NoAppr, RunInsert,
     InsertRow
<1>2. SessionInv'
  BY DEF IInv, TypeOK, RunRow, ApprRow, Session, PC, SessionInv, RowInv, Exists, AbsentRun,
     NewRun, PendingAppr, NoAppr, RunInsert, InsertRow
<1>3. OneDecision' /\ JobInv' /\ AnnouncedDecisionStands'
  BY DEF IInv, OneDecision, JobInv, AnnouncedDecisionStands, RunInsert, InsertRow
<1>4. ScanInv'
  BY DEF IInv, TypeOK, RunRow, ApprRow, ScanInv, PendingAppr, NoAppr, RunInsert, InsertRow
<1>5. RunImpliesApproved'
  BY DEF IInv, TypeOK, RunRow, ApprRow, RunImpliesApproved, NewRun, RunInsert, InsertRow
<1>6. LedgerMatchesApproval'
  BY DEF IInv, TypeOK, RunRow, ApprRow, Tally, Decision, RowInv, LedgerMatchesApproval,
     Undecided, Exists, PendingAppr, NoAppr, RunInsert, InsertRow
<1>7. PendingMeansBlocked'
  BY DEF IInv, TypeOK, RunRow, ApprRow, Tally, Decision, RowInv, LedgerMatchesApproval,
     PendingMeansBlocked, Undecided, Exists, NewRun, PendingAppr, NoAppr, RunInsert, InsertRow
<1>8. OneRunPerKey'
  BY DEF IInv, TypeOK, RunRow, ApprRow, SessionInv, OneRunPerKey, Exists, RunsOf, NewRun,
     RunInsert, InsertRow
<1>9. QED
  BY <1>1, <1>2, <1>3, <1>4, <1>5, <1>6, <1>7, <1>8 DEF IInv

(* A worker halts only a run that was approved.                            *)
LEMMA JobWriteInv ==
    ASSUME IInv, TypeOK', NEW w \in Worker, JobWrite(w)
    PROVE  IInv'
<1> DEFINE done == job[w]
<1>0. done \in Run /\ appr[done].status # "none" /\ Exists(done)
  <2>1. done \in Run /\ events[done].approved = 1
    BY DEF IInv, TypeOK, JobInv, JobWrite
  <2>2. events[done].rejected \in Nat
    BY <2>1 DEF IInv, TypeOK, Tally, Decision
  <2>3. ~Undecided(done)
    BY <2>1, <2>2 DEF Undecided
  <2>4. appr[done].status # "none"
    BY <2>1, <2>3 DEF IInv, LedgerMatchesApproval
  <2>5. Exists(done)
    BY <2>1, <2>4 DEF IInv, RowInv, NoAppr
  <2>6. QED
    BY <2>1, <2>4, <2>5
<1>1. RowInv'
  BY <1>0 DEF IInv, TypeOK, RunRow, RowInv, Exists, JobWrite
<1>2. SessionInv'
  BY SessionsUntouched DEF IInv, TypeOK, RunRow, ApprRow, JobWrite, TablesKept
<1>3. OneDecision' /\ ScanInv' /\ LedgerMatchesApproval' /\ AnnouncedDecisionStands'
  BY DEF IInv, OneDecision, ScanInv, LedgerMatchesApproval, AnnouncedDecisionStands, Undecided,
     JobWrite
<1>4. JobInv'
  BY DEF IInv, TypeOK, JobInv, JobWrite
<1>5. RunImpliesApproved'
  BY DEF IInv, TypeOK, RunRow, ApprRow, RunImpliesApproved, JobWrite
<1>6. PendingMeansBlocked'
  BY DEF IInv, TypeOK, RunRow, ApprRow, Tally, Decision, JobInv, PendingMeansBlocked,
     Undecided, JobWrite
<1>7. OneRunPerKey'
  BY <1>0, KeysKept DEF IInv, TypeOK, RunRow, Exists, JobWrite
<1>8. QED
  BY <1>1, <1>2, <1>3, <1>4, <1>5, <1>6, <1>7 DEF IInv

(* The expirer may overwrite a decided approval, never the ledger or a run in RUN.*)
LEMMA ExpirerWriteInv ==
    ASSUME IInv, TypeOK', ExpirerWrite
    PROVE  IInv'
<1>1. RowInv'
  <2> SUFFICES ASSUME NEW r \in Run
               PROVE  /\ ~Exists(r)' => row'[r] = AbsentRun /\ appr'[r] = NoAppr
                      /\ row'[r].stamped /\ appr'[r].status = "none" =>
                            /\ row'[r].status = "BLOCKED" /\ row'[r].reason = "approval_pending"
                            /\ ~row'[r].started /\ ~row'[r].ended
    BY DEF RowInv
  <2>1. CASE r \notin scan
    BY <2>1 DEF IInv, RowInv, Exists, ExpirerWrite
  <2>2. CASE r \in scan
    <3>1. Exists(r)
      BY <2>2 DEF IInv, ScanInv, RowInv, NoAppr
    <3>2. row'[r].status = row[r].status /\ appr'[r].status = "expired"
      BY <2>2 DEF IInv, TypeOK, RunRow, ApprRow, ExpirerWrite
    <3>3. QED
      BY <3>1, <3>2 DEF Exists
  <2>3. QED
    BY <2>1, <2>2
<1>2. SessionInv'
  BY SessionsUntouched DEF IInv, TypeOK, RunRow, ApprRow, ExpirerWrite, TablesKept
<1>3. OneDecision' /\ JobInv' /\ AnnouncedDecisionStands'
  BY DEF IInv, OneDecision, JobInv, AnnouncedDecisionStands, ExpirerWrite
<1>4. ScanInv'
  BY DEF IInv, ScanInv, ExpirerWrite
<1>5. RunImpliesApproved'
  BY DEF IInv, TypeOK, RunRow, ApprRow, RunImpliesApproved, ExpirerWrite
<1>6. LedgerMatchesApproval'
  BY DEF IInv, TypeOK, RunRow, ApprRow, LedgerMatchesApproval, Undecided, ExpirerWrite
<1>7. PendingMeansBlocked'
  BY DEF IInv, TypeOK, RunRow, ApprRow, PendingMeansBlocked, Undecided, ExpirerWrite
<1>8. OneRunPerKey'
  BY DEF IInv, TypeOK, RunRow, ApprRow, OneRunPerKey, Exists, ExpirerWrite
<1>9. QED
  BY <1>1, <1>2, <1>3, <1>4, <1>5, <1>6, <1>7, <1>8 DEF IInv

(* The internal service adds an unapproved run that nothing authorises.    *)
LEMMA ServiceCreateInv ==
    ASSUME IInv, TypeOK', NEW k \in Key, NEW p \in Payload, ServiceCreate(k, p)
    PROVE  IInv'
<1>1. RowInv'
  BY DEF IInv, TypeOK, RunRow, ApprRow, RowInv, Exists, NewRun, ServiceCreate, InsertRow
<1>2. SessionInv'
  BY SessionsUntouched DEF IInv, TypeOK, RunRow, ApprRow, RowInv, AbsentRun, NewRun,
     ServiceCreate, TablesKept, InsertRow
<1>3. OneDecision' /\ JobInv' /\ ScanInv' /\ LedgerMatchesApproval' /\ AnnouncedDecisionStands'
  BY DEF IInv, OneDecision, JobInv, ScanInv, LedgerMatchesApproval, AnnouncedDecisionStands,
     Undecided, ServiceCreate, InsertRow
<1>4. RunImpliesApproved'
  BY DEF IInv, TypeOK, RunRow, ApprRow, RunImpliesApproved, NewRun, ServiceCreate, InsertRow
<1>5. PendingMeansBlocked'
  BY DEF IInv, TypeOK, RunRow, ApprRow, RowInv, PendingMeansBlocked, Exists, NoAppr, Undecided,
     NewRun, ServiceCreate, InsertRow
<1>6. OneRunPerKey'
  BY DEF IInv, TypeOK, RunRow, ApprRow, OneRunPerKey, Exists, RunsOf, NewRun, ServiceCreate,
     InsertRow
<1>7. QED
  BY <1>1, <1>2, <1>3, <1>4, <1>5, <1>6 DEF IInv

(* The passage of time changes a deadline only.                            *)
LEMMA DeadlinePassesInv ==
    ASSUME IInv, TypeOK', NEW r \in Run, DeadlinePasses(r)
    PROVE  IInv'
<1>1. RowInv'
  BY DEF IInv, TypeOK, RunRow, ApprRow, RowInv, Exists, NoAppr, DeadlinePasses
<1>2. SessionInv'
  BY SessionsUntouched DEF IInv, TypeOK, RunRow, ApprRow, DeadlinePasses, TablesKept
<1>3. OneDecision' /\ JobInv' /\ RunImpliesApproved' /\ AnnouncedDecisionStands' /\ OneRunPerKey'
  BY DEF IInv, OneDecision, JobInv, RunImpliesApproved, AnnouncedDecisionStands, OneRunPerKey,
     Exists, DeadlinePasses
<1>4. ScanInv'
  BY DEF IInv, TypeOK, RunRow, ApprRow, ScanInv, DeadlinePasses
<1>5. LedgerMatchesApproval'
  BY DEF IInv, TypeOK, RunRow, ApprRow, LedgerMatchesApproval, Undecided, DeadlinePasses
<1>6. PendingMeansBlocked'
  BY DEF IInv, TypeOK, RunRow, ApprRow, PendingMeansBlocked, Undecided, DeadlinePasses
<1>7. QED
  BY <1>1, <1>2, <1>3, <1>4, <1>5, <1>6 DEF IInv

-----------------------------------------------------------------------------
(* What the steps that write no row preserve.                              *)

LEMMA RequestMoves ==
    ASSUME IInv, TypeOK', NEW c \in Client,
           \/ \E k \in Key, p \in Payload : RunLookup(c, k, p)
           \/ \E r \in Run, d \in Decision : DecideRead(c, r, d)
           \/ RunInsertRefused(c) \/ RunReread(c) \/ RunCreated(c) \/ EnsureApproval(c)
           \/ CommitFails(c) \/ RequestDies(c)
    PROVE  IInv'
<1>1. ASSUME NEW k \in Key, NEW p \in Payload, RunLookup(c, k, p) PROVE IInv'
  <2>1. CASE Dedup(c, k, p)
    BY <1>1, <2>1, SessionDedups, RequestFrame DEF IInv, RunLookup
  <2>2. CASE /\ RunsOf(k) = {}
             /\ pc' = [pc EXCEPT ![c] = "insert"]
             /\ ctx' = [ctx EXCEPT ![c] = [NoSession EXCEPT !.key = k, !.payload = p]]
    <3>1. pc'[c] = "insert" /\ ctx'[c].key = k /\ ctx'[c].payload = p
      BY <2>2 DEF IInv, TypeOK, NoSession
    <3>2. \A d \in Client : d # c => pc'[d] = pc[d] /\ ctx'[d] = ctx[d]
      BY <1>1, <2>2 DEF IInv, TypeOK, RunLookup
    <3>3. row' = row /\ appr' = appr
      BY <1>1 DEF RunLookup
    <3>4. SessionInv'
      BY <3>1, <3>2, <3>3 DEF IInv, SessionInv
    <3>5. QED
      BY <1>1, <3>4, RequestFrame DEF RunLookup
  <2>3. QED
    BY <1>1, <2>1, <2>2 DEF RunLookup
<1>2. ASSUME NEW r \in Run, NEW d \in Decision, DecideRead(c, r, d) PROVE IInv'
  <2>1. appr[r].approved = 0 /\ appr[r].rejected = 0
    <3>1. Undecided(r)
      BY <1>2 DEF IInv, PendingMeansBlocked, DecideRead
    <3>2. events[r].approved \in Nat /\ events[r].rejected \in Nat
      BY DEF IInv, TypeOK, Tally, Decision
    <3>3. QED
      BY <3>1, <3>2 DEF IInv, LedgerMatchesApproval, Undecided
  <2>2. SessionInv'
    BY <1>2, <2>1 DEF IInv, TypeOK, SessionInv, DecideRead, NoSession
  <2>3. QED
    BY <1>2, <2>2, RequestFrame DEF DecideRead
<1>3. CASE RunInsertRefused(c)
  <2>1. SessionInv'
    BY <1>3 DEF IInv, TypeOK, SessionInv, RunInsertRefused, Goto
  <2>2. QED
    BY <1>3, <2>1, RequestFrame DEF RunInsertRefused
<1>4. CASE RunReread(c)
  <2>1. ctx[c].key \in Key /\ ctx[c].payload \in Payload
    BY <1>4 DEF IInv, SessionInv, RunReread
  <2>2. SessionInv'
    BY <1>4, <2>1, SessionDedups, SessionEnds DEF IInv, RunReread, TablesKept
  <2>3. QED
    BY <1>4, <2>2, RequestFrame DEF RunReread
<1>5. CASE RunCreated(c)
  BY <1>5, SessionEnds, RequestFrame DEF IInv, RunCreated, TablesKept
<1>6. CASE EnsureApproval(c)
  <2>1. CASE Done(c)
    BY <1>6, <2>1, SessionEnds, RequestFrame DEF IInv, EnsureApproval, TablesKept
  <2>2. CASE Goto(c, "addApproval") \/ (appr[ctx[c].run].status # "none" /\ Goto(c, "backfill"))
    <3>1. SessionInv'
      BY <1>6, <2>2 DEF IInv, TypeOK, SessionInv, EnsureApproval, Goto
    <3>2. QED
      BY <1>6, <3>1, RequestFrame DEF EnsureApproval
  <2>3. QED
    BY <1>6, <2>1, <2>2 DEF EnsureApproval
<1>7. CASE CommitFails(c)
  <2>1. SessionInv'
    BY <1>7, SessionEnds DEF IInv, CommitFails, TablesKept
  <2>2. \A r \in Run : audit'[r] = audit[r] \/ Undecided(r)
    BY <1>7 DEF IInv, TypeOK, CommitFails, Emit, EmitFails
  <2>3. QED
    BY <1>7, <2>1, <2>2, RequestFrame DEF CommitFails
<1>8. CASE RequestDies(c)
  BY <1>8, SessionEnds, RequestFrame DEF IInv, RequestDies, TablesKept
<1>9. QED
  BY <1>1, <1>2, <1>3, <1>4, <1>5, <1>6, <1>7, <1>8

LEMMA JobMoves ==
    ASSUME IInv, TypeOK',
           \/ \E w \in Worker : JobDies(w) \/ \E r \in Run : JobRead(w, r)
           \/ ExpirerScan \/ ExpirerFails
    PROVE  IInv'
<1>1. ASSUME NEW w \in Worker, NEW r \in Run, JobRead(w, r) PROVE IInv'
  <2>1. events[r].approved = 1
    BY <1>1 DEF IInv, RunImpliesApproved, JobRead
  <2>2. JobInv' /\ ScanInv'
    BY <1>1, <2>1 DEF IInv, TypeOK, JobInv, ScanInv, JobRead
  <2>3. QED
    BY <1>1, <2>2, JobFrame DEF JobRead
<1>2. ASSUME NEW w \in Worker, JobDies(w) PROVE IInv'
  <2>1. JobInv' /\ ScanInv'
    BY <1>2 DEF IInv, TypeOK, JobInv, ScanInv, JobDies
  <2>2. QED
    BY <1>2, <2>1, JobFrame DEF JobDies
<1>3. CASE ExpirerScan
  <2>1. JobInv' /\ ScanInv'
    BY <1>3 DEF IInv, JobInv, ScanInv, ExpirerScan, DueApprovals
  <2>2. QED
    BY <1>3, <2>1, JobFrame DEF ExpirerScan
<1>4. CASE ExpirerFails
  <2>1. JobInv' /\ ScanInv'
    BY <1>4 DEF IInv, JobInv, ScanInv, ExpirerFails
  <2>2. QED
    BY <1>4, <2>1, JobFrame DEF ExpirerFails
<1>5. QED
  BY <1>1, <1>2, <1>3, <1>4

LEMMA InvInit == Init => IInv
<1> SUFFICES ASSUME Init PROVE IInv
  OBVIOUS
<1>1. TypeOK
  BY TypeInit
<1>2. \A r \in Run : row[r] = AbsentRun
                     \/ \E k \in Key, p \in Payload \ BadScope :
                            row[r] = NewRun(k, p, "BLOCKED", "approval_pending", TRUE)
  <2>1. \A x \in LegacyRuns : \E k \in Key, p \in Payload \ BadScope :
            x = NewRun(k, p, "BLOCKED", "approval_pending", TRUE)
    BY DEF LegacyRuns
  <2>2. \A r \in Run : row[r] = AbsentRun \/ row[r] \in LegacyRuns
    BY DEF Init
  <2>3. QED
    BY <2>1, <2>2
<1>3. \A r \in Run : /\ row[r].status \in {"absent", "BLOCKED"}
                     /\ row[r].status = "absent" => row[r] = AbsentRun
                     /\ row[r].status = "BLOCKED" => row[r].reason = "approval_pending"
                     /\ ~row[r].started /\ ~row[r].ended
                     /\ row[r].stamped => row[r].status = "BLOCKED"
  <2> SUFFICES ASSUME NEW r \in Run
               PROVE  /\ row[r].status \in {"absent", "BLOCKED"}
                      /\ row[r].status = "absent" => row[r] = AbsentRun
                      /\ row[r].status = "BLOCKED" => row[r].reason = "approval_pending"
                      /\ ~row[r].started /\ ~row[r].ended
                      /\ row[r].stamped => row[r].status = "BLOCKED"
    OBVIOUS
  <2>1. CASE row[r] = AbsentRun
    BY <2>1 DEF AbsentRun
  <2>2. CASE row[r] # AbsentRun
    <3>1. PICK k \in Key, p \in Payload \ BadScope :
             row[r] = NewRun(k, p, "BLOCKED", "approval_pending", TRUE)
      BY <1>2, <2>2
    <3>2. QED
      BY <3>1 DEF NewRun
  <2>3. QED
    BY <2>1, <2>2
<1>4. \A r \in Run : /\ appr[r] \in {NoAppr, PendingAppr("null")}
                     /\ appr[r].approved = 0 /\ appr[r].rejected = 0
                     /\ appr[r].status = "pending" => row[r].status = "BLOCKED"
                     /\ appr[r].status \in {"none", "pending"}
  <2>1. \A r \in Run : appr[r] \in {NoAppr, PendingAppr("null")}
    BY DEF Init
  <2>2. \A r \in Run : appr[r].status = "pending" => Exists(r)
    BY DEF Init, NoAppr
  <2>3. /\ NoAppr.status = "none" /\ NoAppr.approved = 0 /\ NoAppr.rejected = 0
        /\ PendingAppr("null").status = "pending"
        /\ PendingAppr("null").approved = 0 /\ PendingAppr("null").rejected = 0
    BY DEF NoAppr, PendingAppr
  <2>4. QED
    BY <1>3, <2>1, <2>2, <2>3 DEF Exists
<1>5. \A r \in Run : events[r].approved = 0 /\ events[r].rejected = 0
  BY DEF Init, Decision
<1>6. RowInv
  BY <1>3 DEF Init, RowInv, Exists
<1>7. SessionInv /\ JobInv /\ ScanInv
  BY DEF Init, SessionInv, JobInv, ScanInv
<1>8. OneDecision /\ LedgerMatchesApproval /\ AnnouncedDecisionStands
  BY <1>4, <1>5 DEF OneDecision, LedgerMatchesApproval, AnnouncedDecisionStands, Undecided, Decision
<1>9. RunImpliesApproved /\ PendingMeansBlocked
  BY <1>3, <1>4, <1>5 DEF RunImpliesApproved, PendingMeansBlocked, Undecided
<1>10. OneRunPerKey
  BY DEF Init, OneRunPerKey
<1>11. QED
  BY <1>1, <1>6, <1>7, <1>8, <1>9, <1>10 DEF IInv

LEMMA InvStep == IInv /\ [Next]_vars => IInv'
<1> SUFFICES ASSUME IInv, [Next]_vars PROVE IInv'
  OBVIOUS
<1>1. TypeOK'
  BY TypeStep DEF IInv
<1>2. ASSUME NEW c \in Client, RequestStep(c) PROVE IInv'
  BY <1>1, <1>2, RequestMoves, RunInsertInv, AddApprovalInv, BackfillExpiryInv,
     ApproveWriteInv, RejectWriteInv, MarkExpiredInv DEF RequestStep
<1>3. CASE UNCHANGED vars
  BY <1>3 DEF vars, IInv, TypeOK, RowInv, SessionInv, OneDecision, JobInv, ScanInv,
     RunImpliesApproved, LedgerMatchesApproval, PendingMeansBlocked, AnnouncedDecisionStands,
     OneRunPerKey, Exists, Undecided
<1>4. QED
  BY <1>1, <1>2, <1>3, RequestMoves, JobMoves, JobWriteInv, ExpirerWriteInv,
     ServiceCreateInv, DeadlinePassesInv DEF Next

LEMMA InvCorrect == Spec => []IInv
BY InvInit, InvStep, PTL DEF Spec

-----------------------------------------------------------------------------
(* The properties.                                                         *)

(* An execution run is started only by its one, approving, decision event, *)
(* whatever approve, reject, the expirer, workers and retries race for.    *)
THEOREM RunNeedsApproval == Spec => []RunImpliesApproved
BY InvCorrect, PTL DEF IInv

(* An approval's counters and status agree with its decision events.       *)
THEOREM LedgerCorrect == Spec => []LedgerMatchesApproval
BY InvCorrect, PTL DEF IInv

(* The gate is closed by default: a pending approval's run is BLOCKED.     *)
THEOREM ClosedByDefault == Spec => []PendingMeansBlocked
BY InvCorrect, PTL DEF IInv

(* The last decision announced of a decided run is the persisted one, or   *)
(* an audit_error stands in its place.                                     *)
THEOREM AnnouncementsStand == Spec => []AnnouncedDecisionStands
BY InvCorrect, PTL DEF IInv

(* Racing POST /execution/run requests never create two runs for a key.    *)
THEOREM KeyIsUnique == Spec => []OneRunPerKey
BY InvCorrect, PTL DEF IInv

(* No step reopens a resolved approval: an INSERT finds no approval in its *)
(* place, and every other write resolves or keeps the status.              *)
LEMMA StepNeverReopens ==
    ASSUME IInv, Next, NEW r \in Run, appr[r].status \in {"approved", "rejected", "expired"}
    PROVE  appr'[r].status \in {"approved", "rejected", "expired"}
<1>1. appr[r] \in ApprRow
  BY DEF IInv, TypeOK
<1>2. ASSUME NEW c \in Client, RunInsert(c) PROVE appr'[r] = appr[r]
  BY <1>2 DEF IInv, TypeOK, RowInv, NoAppr, RunInsert, InsertRow
<1>3. ASSUME NEW c \in Client, AddApproval(c) PROVE appr'[r] = appr[r]
  BY <1>3 DEF IInv, TypeOK, AddApproval
<1>4. ASSUME NEW c \in Client, BackfillExpiry(c) PROVE appr'[r].status = appr[r].status
  BY <1>4 DEF IInv, TypeOK, ApprRow, BackfillExpiry
<1>5. ASSUME NEW c \in Client, ApproveWrite(c) \/ RejectWrite(c) \/ MarkExpired(c)
      PROVE  appr'[r].status \in {"approved", "rejected", "expired"}
  <2>1. CASE r = ctx[c].run
    <3>1. CASE ApproveWrite(c)
      BY <1>1, <2>1, <3>1 DEF IInv, TypeOK, ApprRow, ApproveWrite, InsertDecision
    <3>2. CASE RejectWrite(c)
      BY <1>1, <2>1, <3>2 DEF IInv, TypeOK, ApprRow, RejectWrite, InsertDecision
    <3>3. CASE MarkExpired(c)
      BY <1>1, <2>1, <3>3 DEF IInv, TypeOK, ApprRow, MarkExpired
    <3>4. QED
      BY <1>5, <3>1, <3>2, <3>3
  <2>2. CASE r # ctx[c].run
    BY <1>5, <2>2 DEF IInv, TypeOK, ApproveWrite, RejectWrite, MarkExpired, InsertDecision
  <2>3. QED
    BY <2>1, <2>2
<1>6. CASE ExpirerWrite
  BY <1>1, <1>6 DEF ApprRow, ExpirerWrite
<1>7. ASSUME NEW s \in Run, DeadlinePasses(s) PROVE appr'[r].status = appr[r].status
  BY <1>7 DEF IInv, TypeOK, ApprRow, DeadlinePasses
<1>8. QED
  BY <1>2, <1>3, <1>4, <1>5, <1>6, <1>7 DEF Next, RequestStep, RunLookup, DecideRead,
     RunInsertRefused, RunReread, RunCreated, EnsureApproval, CommitFails, RequestDies,
     JobRead, JobWrite, JobDies, ExpirerScan, ExpirerFails, ServiceCreate, InsertRow

(* A decided or expired approval stays resolved, through every retry of    *)
(* POST /execution/run and every race to ensure an approval.               *)
THEOREM NeverReopened == Spec => ResolvedNeverReopened
<1>1. IInv /\ [Next]_vars =>
        [\A r \in Run : appr[r].status \in {"approved", "rejected", "expired"} =>
            appr'[r].status \in {"approved", "rejected", "expired"}]_vars
  BY StepNeverReopens
<1>2. QED
  BY <1>1, InvCorrect, PTL DEF Spec, ResolvedNeverReopened

-----------------------------------------------------------------------------
(* The protocol implements RunAuthorization.                               *)

Gate == [r \in Run |-> Authorization(r)]

LEMMA AuthorizationValues ==
    ASSUME NEW tally, NEW status
    PROVE  /\ tally.rejected # 0 => AuthorizationOf(tally, status) = "refused"
           /\ tally.rejected = 0 /\ tally.approved = 0 =>
                 AuthorizationOf(tally, status) = "shut"
           /\ tally.rejected = 0 /\ tally.approved # 0 /\ status = "RUN" =>
                 AuthorizationOf(tally, status) = "open"
           /\ tally.rejected = 0 /\ tally.approved # 0 /\ status # "RUN" =>
                 AuthorizationOf(tally, status) = "spent"
BY Zenon DEF AuthorizationOf

(* A run the step does not write, and whose decisions it leaves alone,     *)
(* keeps its authorisation.                                                *)
LEMMA SameAuthorization ==
    ASSUME NEW r \in Run, events'[r] = events[r],
           row'[r].status = "RUN" <=> row[r].status = "RUN"
    PROVE  Authorization(r)' = Authorization(r)
BY AuthorizationValues DEF Authorization

(* A step that writes one run moves that run's gate only.                  *)
LEMMA OneGateMoves ==
    ASSUME NEW r \in Run,
           \A s \in Run \ {r} : Authorization(s)' = Authorization(s)
    PROVE  Gate' = [Gate EXCEPT ![r] = Authorization(r)']
BY DEF Gate

(* Approval opens a shut gate, for the uniqueness of the decision leaves   *)
(* no room for an earlier one.                                             *)
LEMMA ApproveOpens ==
    ASSUME IInv, NEW c \in Client, NEW r \in Run, r = ctx[c].run, ApproveWrite(c)
    PROVE  Auth!Authorize(r)
<1>1. events[r].approved = 0 /\ events[r].rejected = 0
  BY DEF IInv, TypeOK, Tally, Decision, Undecided, ApproveWrite, InsertDecision
<1>2. Authorization(r) = "shut"
  BY <1>1, AuthorizationValues DEF Authorization
<1>3. events'[r].approved = 1 /\ events'[r].rejected = 0 /\ row'[r].status = "RUN"
  BY <1>1 DEF IInv, TypeOK, Tally, Decision, RunRow, Counted, ApproveWrite, InsertDecision
<1>4. Authorization(r)' = "open"
  BY <1>3, AuthorizationValues DEF Authorization
<1>5. \A s \in Run \ {r} : Authorization(s)' = Authorization(s)
  BY SameAuthorization DEF IInv, TypeOK, ApproveWrite, InsertDecision
<1>6. QED
  BY <1>2, <1>4, <1>5, OneGateMoves DEF Gate, Auth!Authorize

(* Rejection refuses a shut gate.                                          *)
LEMMA RejectRefuses ==
    ASSUME IInv, NEW c \in Client, NEW r \in Run, r = ctx[c].run, RejectWrite(c)
    PROVE  Auth!Refuse(r)
<1>1. events[r].approved = 0 /\ events[r].rejected = 0
  BY DEF IInv, TypeOK, Tally, Decision, Undecided, RejectWrite, InsertDecision
<1>2. Authorization(r) = "shut"
  BY <1>1, AuthorizationValues DEF Authorization
<1>3. events'[r].rejected = 1
  BY <1>1 DEF IInv, TypeOK, Tally, Decision, Counted, RejectWrite, InsertDecision
<1>4. Authorization(r)' = "refused"
  BY <1>3, AuthorizationValues DEF Authorization
<1>5. \A s \in Run \ {r} : Authorization(s)' = Authorization(s)
  BY SameAuthorization DEF IInv, TypeOK, RejectWrite, InsertDecision
<1>6. QED
  BY <1>2, <1>4, <1>5, OneGateMoves DEF Gate, Auth!Refuse

(* Taking a run out of RUN withdraws an open gate, or changes nothing.     *)
LEMMA StopWithdraws ==
    ASSUME IInv, NEW r \in Run, UNCHANGED events, row'[r].status # "RUN",
           \A s \in Run \ {r} : row'[s] = row[s]
    PROVE  Auth!Withdraw(r) \/ UNCHANGED Gate
<1>1. \A s \in Run \ {r} : Authorization(s)' = Authorization(s)
  BY SameAuthorization
<1>2. events[r].approved \in Nat /\ events[r].rejected \in Nat
  BY DEF IInv, TypeOK, Tally, Decision
<1>3. CASE Authorization(r) = "open"
  <2>1. Authorization(r)' = "spent"
    BY <1>2, <1>3, AuthorizationValues DEF Authorization
  <2>2. QED
    BY <1>1, <1>3, <2>1, OneGateMoves DEF Gate, Auth!Withdraw
<1>4. CASE Authorization(r) # "open"
  <2>1. Authorization(r)' = Authorization(r)
    BY <1>2, <1>4, AuthorizationValues DEF Authorization
  <2>2. QED
    BY <1>1, <2>1 DEF Gate
<1>5. QED
  BY <1>3, <1>4

(* No other step touches any run's authorisation.                          *)
LEMMA GateUntouched ==
    ASSUME IInv, UNCHANGED events,
           \A r \in Run : row'[r].status = "RUN" <=> row[r].status = "RUN"
    PROVE  UNCHANGED Gate
BY SameAuthorization DEF Gate

LEMMA StepImplements == IInv /\ [Next]_vars => [Auth!Next]_Gate
<1> SUFFICES ASSUME IInv, [Next]_vars PROVE [Auth!Next]_Gate
  OBVIOUS
<1>1. ASSUME NEW c \in Client, ApproveWrite(c) PROVE Auth!Next
  <2>1. ctx[c].run \in Run
    BY <1>1 DEF IInv, SessionInv, ApproveWrite, InsertDecision
  <2>2. QED
    BY <1>1, <2>1, ApproveOpens DEF Auth!Next
<1>2. ASSUME NEW c \in Client, RejectWrite(c) PROVE Auth!Next
  <2>1. ctx[c].run \in Run
    BY <1>2 DEF IInv, SessionInv, RejectWrite, InsertDecision
  <2>2. QED
    BY <1>2, <2>1, RejectRefuses DEF Auth!Next
<1>3. ASSUME NEW c \in Client, MarkExpired(c) PROVE [Auth!Next]_Gate
  <2>1. ctx[c].run \in Run
    BY <1>3 DEF IInv, SessionInv, MarkExpired
  <2>2. row'[ctx[c].run].status # "RUN" /\ \A s \in Run \ {ctx[c].run} : row'[s] = row[s]
    BY <1>3, <2>1 DEF IInv, TypeOK, RunRow, MarkExpired
  <2>3. QED
    BY <1>3, <2>1, <2>2, StopWithdraws DEF MarkExpired, Auth!Next
<1>4. ASSUME NEW w \in Worker, JobWrite(w) PROVE [Auth!Next]_Gate
  <2>1. job[w] \in Run
    BY <1>4 DEF IInv, TypeOK, JobWrite
  <2>2. row'[job[w]].status # "RUN" /\ \A s \in Run \ {job[w]} : row'[s] = row[s]
    BY <1>4, <2>1 DEF IInv, TypeOK, RunRow, JobWrite
  <2>3. QED
    BY <1>4, <2>1, <2>2, StopWithdraws DEF JobWrite, Auth!Next
<1>5. CASE ExpirerWrite
  <2>1. \A r \in Run : row'[r].status = row[r].status
    BY <1>5 DEF IInv, TypeOK, RunRow, ExpirerWrite
  <2>2. QED
    BY <1>5, <2>1, GateUntouched DEF ExpirerWrite
<1>6. ASSUME NEW c \in Client, RunInsert(c) PROVE UNCHANGED Gate
  <2>1. \A r \in Run : row'[r].status = "RUN" <=> row[r].status = "RUN"
    BY <1>6 DEF IInv, TypeOK, Exists, NewRun, RunInsert, InsertRow
  <2>2. QED
    BY <1>6, <2>1, GateUntouched DEF RunInsert, InsertRow
<1>7. ASSUME NEW k \in Key, NEW p \in Payload, ServiceCreate(k, p) PROVE UNCHANGED Gate
  <2>1. \A r \in Run : row'[r].status = "RUN" <=> row[r].status = "RUN"
    BY <1>7 DEF IInv, TypeOK, Exists, NewRun, ServiceCreate, InsertRow
  <2>2. QED
    BY <1>7, <2>1, GateUntouched DEF ServiceCreate, InsertRow
<1>8. CASE UNCHANGED <<row, events>>
  BY <1>8, GateUntouched
<1>9. QED
  BY <1>1, <1>2, <1>3, <1>4, <1>5, <1>6, <1>7, <1>8 DEF vars, Next, RequestStep, RunLookup,
     DecideRead, RunInsertRefused, RunReread, RunCreated, EnsureApproval, AddApproval,
     BackfillExpiry, CommitFails, RequestDies, JobRead, JobDies, ExpirerScan, ExpirerFails,
     DeadlinePasses

(* Every behaviour of the gate, read as the authorisation of each run, is  *)
(* one of RunAuthorization: opened at most once, never after a refusal.    *)
THEOREM Implements == Spec => ImplementsAuthorization
<1>1. Init => Auth!Init
  <2> SUFFICES ASSUME Init PROVE Auth!Init
    OBVIOUS
  <2>1. \A r \in Run : events[r].approved = 0 /\ events[r].rejected = 0
    BY DEF Init, Decision
  <2>2. \A r \in Run : Authorization(r) = "shut"
    BY <2>1, AuthorizationValues DEF Authorization
  <2>3. QED
    BY <2>2 DEF Auth!Init
<1>2. IInv /\ [Next]_vars => [Auth!Next]_Gate
  BY StepImplements
<1>3. QED
  BY <1>1, <1>2, InvCorrect, PTL DEF Spec, ImplementsAuthorization, Auth!Spec, Gate
=============================================================================
