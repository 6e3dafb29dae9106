----------------------------- MODULE DpaService -----------------------------
(***************************************************************************)
(* The decision records (DPA) of core/judgment over the file repository,   *)
(* and the constitutional transition of core/engine that applies a record  *)
(* and then runs the engine.                                               *)
(*                                                                         *)
(* Every operation of DpaService loads the record's latest line, checks    *)
(* and changes that copy, and appends it as a new line.  There is no lock  *)
(* and no version check between the two, and callers are concurrent.  One  *)
(* append is one write: a step.  A refused operation changes nothing and   *)
(* has no action.                                                          *)
(***************************************************************************)
CONSTANTS
    Dpa,       \* record ids
    Option,    \* options the composer gives a record
    Blocked,   \* those it marks blocked
    Approval,  \* approvals the judgment port may answer with
    Client,    \* concurrent callers
    Null       \* no value

ASSUME DpaAssumption == Blocked \subseteq Option /\ Null \notin Dpa \cup Option \cup Approval

DecisionStatus == {"absent", "DPA_CREATED", "HUMAN_REVIEWING", "APPROVED", "APPLIED", "ABORTED"}
Terminal == {"APPLIED", "ABORTED"}

\* option: what human_decision_json selects; approved_at and approved_by are set with it.
Record == [status: DecisionStatus, option: Option \cup {Null}]
Absent == [status |-> "absent", option |-> Null]

\* approval # Null: the call is constitutional_transition's.
Call == [dpa: Dpa \cup {Null}, seen: Record, new: Record, approval: Approval \cup {Null}]
NoCall == [dpa |-> Null, seen |-> Absent, new |-> Absent, approval |-> Null]

VARIABLES
    record,  \* the last line of each record: what get returns
    file,    \* every line of it
    pc,      \* what a caller does next: "idle", "save", "gate", "apply", "engine"
    call,    \* what a caller has loaded and made of it
    ran      \* (record, approval) pairs for which the engine has run

vars == <<record, file, pc, call, ran>>

Init ==
    /\ record = [d \in Dpa |-> Absent]
    /\ file = [d \in Dpa |-> {}]
    /\ pc = [c \in Client |-> "idle"]
    /\ call = [c \in Client |-> NoCall]
    /\ ran = {}

-----------------------------------------------------------------------------
(* An operator that nothing uses, placed just before the one it is named   *)
(* after, is that operator's faulty form for the mutation checks.          *)

Reviewable(s) == s.status \in {"DPA_CREATED", "HUMAN_REVIEWING"}
Applicable(s) == s.status = "APPROVED" /\ s.option # Null
AbortableAlways(s) == s.status # "absent"
Abortable(s) == s.status \notin {"absent", "APPLIED"}

(* What an operation on d has loaded, and the line it goes on to append.   *)
ToSave(c, d, new, approval) ==
    /\ pc' = [pc EXCEPT ![c] = "save"]
    /\ call' = [call EXCEPT ![c] = [dpa |-> d, seen |-> record[d], new |-> new,
                                    approval |-> approval]]
    /\ UNCHANGED <<record, file, ran>>

Done(c) == pc' = [pc EXCEPT ![c] = "idle"] /\ call' = [call EXCEPT ![c] = NoCall]

(* DpaService: the loading and checking half of each operation.            *)

CreateDpa(c, d) ==
    /\ pc[c] = "idle"
    /\ record[d] = Absent
    /\ ToSave(c, d, [Absent EXCEPT !.status = "DPA_CREATED"], Null)

StartReview(c, d) ==
    /\ pc[c] = "idle"
    /\ Reviewable(record[d])
    /\ ToSave(c, d, [record[d] EXCEPT !.status = "HUMAN_REVIEWING"], Null)

SubmitHumanDecision(c, d, o) ==
    /\ pc[c] = "idle"
    /\ Reviewable(record[d])
    /\ o \notin Blocked
    /\ ToSave(c, d, [status |-> "APPROVED", option |-> o], Null)

Apply(c, d) ==
    /\ pc[c] = "idle"
    /\ Applicable(record[d])
    /\ ToSave(c, d, [record[d] EXCEPT !.status = "APPLIED"], Null)

(* An aborted record is saved again as it is.                              *)
Abort(c, d) ==
    /\ pc[c] = "idle"
    /\ Abortable(record[d])
    /\ ToSave(c, d, [record[d] EXCEPT !.status = "ABORTED"], Null)

(* FileBackedDpaRepository.save.                                           *)
SaveOverwrites(c) ==
    LET d == call[c].dpa IN
    /\ pc[c] = "save"
    /\ record' = [record EXCEPT ![d] = call[c].new]
    /\ file' = [file EXCEPT ![d] = {call[c].new}]
    /\ IF call[c].approval = Null
       THEN Done(c)
       ELSE pc' = [pc EXCEPT ![c] = "engine"] /\ UNCHANGED call
    /\ UNCHANGED ran
Save(c) ==
    LET d == call[c].dpa IN
    /\ pc[c] = "save"
    /\ record' = [record EXCEPT ![d] = call[c].new]
    /\ file' = [file EXCEPT ![d] = @ \cup {call[c].new}]
    /\ IF call[c].approval = Null
       THEN Done(c)
       ELSE pc' = [pc EXCEPT ![c] = "engine"] /\ UNCHANGED call
    /\ UNCHANGED ran

-----------------------------------------------------------------------------
(* constitutional_transition, with DpaService as its apply port.           *)

(* The judgment port (external) answers with an immutable approval that    *)
(* names its authority and an option and is not a REJECT: any other answer *)
(* ends the call.                                                          *)
Transition(c, d, a) ==
    /\ pc[c] = "idle"
    /\ pc' = [pc EXCEPT ![c] = "gate"]
    /\ call' = [call EXCEPT ![c] = [NoCall EXCEPT !.dpa = d, !.approval = a]]
    /\ UNCHANGED <<record, file, ran>>

(* get_dpa.  An applied record goes straight to the engine; for any other  *)
(* run_execution first validates the envelope, which may be refused.       *)
GateSkipsApply(c) ==
    /\ pc[c] = "gate"
    /\ record[call[c].dpa].status # "absent"
    /\ pc' = [pc EXCEPT ![c] = IF record[call[c].dpa].status \in {"APPROVED", "APPLIED"}
                               THEN "engine" ELSE "apply"]
    /\ UNCHANGED <<record, file, call, ran>>
Gate(c) ==
    /\ pc[c] = "gate"
    /\ record[call[c].dpa].status # "absent"
    /\ pc' = [pc EXCEPT ![c] = IF record[call[c].dpa].status = "APPLIED"
                               THEN "engine" ELSE "apply"]
    /\ UNCHANGED <<record, file, call, ran>>

(* run_execution calls DpaService.apply, which loads the record again; the *)
(* option that the approval names is not compared with the decided one.    *)
GateApply(c) ==
    LET d == call[c].dpa IN
    /\ pc[c] = "apply"
    /\ Applicable(record[d])
    /\ ToSave(c, d, [record[d] EXCEPT !.status = "APPLIED"], call[c].approval)

RunEngine(c) ==
    /\ pc[c] = "engine"
    /\ ran' = ran \cup {<<call[c].dpa, call[c].approval>>}
    /\ Done(c)
    /\ UNCHANGED <<record, file>>

(* A call ends early: the process stops, the gate refuses (no such record, *)
(* a bad envelope, an apply that is not allowed), or the engine raises.    *)
CallEnds(c) ==
    /\ pc[c] # "idle"
    /\ Done(c)
    /\ UNCHANGED <<record, file, ran>>

-----------------------------------------------------------------------------
Operation(c, d) ==
    \/ CreateDpa(c, d) \/ StartReview(c, d) \/ Apply(c, d) \/ Abort(c, d)
    \/ \E o \in Option : SubmitHumanDecision(c, d, o)
    \/ \E a \in Approval : Transition(c, d, a)

Step(c) == Save(c) \/ Gate(c) \/ GateApply(c) \/ RunEngine(c) \/ CallEnds(c)

Next == \E c \in Client : Step(c) \/ \E d \in Dpa : Operation(c, d)

Spec == Init /\ [][Next]_vars

-----------------------------------------------------------------------------
(* A line says APPROVED or APPLIED only with an open option, and an option *)
(* only from then on.                                                      *)
Lines == {s \in Record : /\ s.status # "absent"
                         /\ s.status \in {"APPROVED", "APPLIED"} => s.option \in Option \ Blocked
                         /\ Reviewable(s) => s.option = Null}

TypeOK ==
    /\ record \in [Dpa -> Lines \cup {Absent}]
    /\ file \in [Dpa -> SUBSET Lines]
    /\ \A d \in Dpa : record[d] # Absent => record[d] \in file[d]
    /\ pc \in [Client -> {"idle", "save", "gate", "apply", "engine"}]
    /\ call \in [Client -> Call]
    /\ ran \subseteq Dpa \X Approval

(* The engine has run only for a record whose file shows an open option    *)
(* first approved by a human, then applied, whatever stale lines other     *)
(* callers appended before, between and after.                             *)
RanOnlyApplied ==
    \A e \in ran : \E o \in Option \ Blocked :
        {[status |-> "APPROVED", option |-> o], [status |-> "APPLIED", option |-> o]}
            \subseteq file[e[1]]

(* A terminal record changes its status or its option only by the save of  *)
(* a caller whose loaded line was no longer the last one: operations that  *)
(* do not overlap never reopen an applied or aborted record.               *)
TerminalLostOnlyToRace ==
    [][\A d \in Dpa : record[d].status \in Terminal /\ record'[d] # record[d] =>
            \E c \in Client : /\ pc[c] = "save" /\ call[c].dpa = d
                              /\ call[c].seen # record[d]]_vars

(* The records implement the audit trail they are kept for.                *)
Trail == INSTANCE DecisionTrail WITH trail <- file
ImplementsTrail == Trail!Spec

-----------------------------------------------------------------------------
(* A statement of the repository that the code does not meet.              *)

(* "Each approval_id may be executed at most once".                        *)
ApprovalRunsOnce ==
    [][\A c \in Client : RunEngine(c) => \A e \in ran : e[2] # call[c].approval]_vars
=============================================================================
