---------------------------- MODULE LocalReplay ----------------------------
(***************************************************************************)
(* The replay of the local sentinel pipeline.  replay_sentinel_pipeline    *)
(* asks a language model for a dry run (dry_run_loop), copies it into the  *)
(* gate's input (make_normalized_input), lets the policy decide (gate_cli) *)
(* and appends the snapshot, the dry run and the decision to the audit log *)
(* (append_sentinel_to_audit).  Each stage is a process that leaves its    *)
(* result in one file with a fixed name, which every replay shares.        *)
(*                                                                         *)
(* The language model is outside the repository: it answers anything.      *)
(***************************************************************************)
EXTENDS Naturals, Sequences

CONSTANTS
    Replay,      \* replays of the pipeline
    ModelAnswer, \* what the model may say: [confidence |-> .., risk |-> ..]
    Null, Torn

INSTANCE HashChain

VARIABLES
    file,        \* dry_run_validated, normalized_input and gate_decision.json
    log,         \* the records of the audit file
    cut,         \* its last line has no newline
    at,          \* the stage each replay is in
    phase,       \* where in the stage it is
    hand,        \* what the process of that stage holds
    attempts,    \* how often the dry run in work was repaired
    made,        \* history: the dry run that each replay's model ended with
    overlapped   \* history: a replay began while another ran

replayVars == <<file, log, cut, at, phase, hand, attempts, made, overlapped>>

Init ==
    /\ file = [f \in {"dry", "norm", "gate"} |-> Null]
    /\ log = <<>> /\ cut = FALSE
    /\ at = [r \in Replay |-> "new"] /\ phase = [r \in Replay |-> "read"]
    /\ hand = [r \in Replay |-> Null] /\ attempts = [r \in Replay |-> 0]
    /\ made = [r \in Replay |-> Null] /\ overlapped = FALSE

Go(r, stage, ph, x) ==
    /\ at' = [at EXCEPT ![r] = stage]
    /\ phase' = [phase EXCEPT ![r] = ph]
    /\ hand' = [hand EXCEPT ![r] = x]
End(r) == Go(r, "done", "read", Null)

Begin(r) ==
    /\ at[r] = "new"
    /\ overlapped' = (overlapped \/ \E s \in Replay : at[s] \notin {"new", "done"})
    /\ Go(r, "dry", "read", Null)
    /\ UNCHANGED <<file, log, cut, attempts, made>>

-----------------------------------------------------------------------------
(* dry_run_loop.  An answer without a JSON object ends the replay; one     *)
(* that does not validate is sent back for repair, twice at most.  Not a   *)
(* number is neither below 0 nor above 1.                                  *)
MaxRepairs == 2
ValidDryRun(d) == d.confidence # "outside" /\ d.risk \in {"LOW", "MEDIUM", "HIGH"}
Answered(r) ==
    /\ at[r] = "dry" /\ phase[r] = "read"
    /\ \E d \in ModelAnswer :
        /\ ValidDryRun(d)
        /\ Go(r, "dry", "open", d)
        /\ made' = [made EXCEPT ![r] = d]
    /\ attempts' = [attempts EXCEPT ![r] = 0]
    /\ UNCHANGED <<file, log, cut, overlapped>>
Repaired(r) ==
    /\ at[r] = "dry" /\ phase[r] = "read" /\ attempts[r] < MaxRepairs
    /\ \E d \in ModelAnswer : ~ValidDryRun(d)
    /\ attempts' = [attempts EXCEPT ![r] = @ + 1]
    /\ UNCHANGED <<file, log, cut, at, phase, hand, made, overlapped>>

-----------------------------------------------------------------------------
(* gate_v1.yaml.  Its first rule asks for funding and open interest, which *)
(* a normalized dry run never has.  A confidence that is not a number is   *)
(* within the range and not below the minimum.                             *)
Decide(d) ==
    [decision |-> IF d.risk = "HIGH" \/ d.confidence = "low" THEN "REJECT" ELSE "APPROVE"]

Source(stage) == IF stage = "norm" THEN "dry" ELSE "norm"
After(stage) == IF stage = "dry" THEN "norm" ELSE IF stage = "norm" THEN "gate" ELSE "audit"
Whole(f) == file[f] \notin {Null, Torn}
Empty == [confidence |-> "none", risk |-> "none"]

(* A file that is missing or does not parse ends the stage and the replay, *)
(* without a write.                                                        *)
ReadOrDefault(r) ==
    /\ at[r] \in {"norm", "gate"} /\ phase[r] = "read"
    /\ LET d == IF Whole(Source(at[r])) THEN file[Source(at[r])] ELSE Empty IN
        Go(r, at[r], "open", IF at[r] = "gate" THEN Decide(d) ELSE d)
    /\ UNCHANGED <<file, log, cut, attempts, made, overlapped>>
Read(r) ==
    /\ at[r] \in {"norm", "gate"} /\ phase[r] = "read" /\ Whole(Source(at[r]))
    /\ LET d == file[Source(at[r])] IN
        Go(r, at[r], "open", IF at[r] = "gate" THEN Decide(d) ELSE d)
    /\ UNCHANGED <<file, log, cut, attempts, made, overlapped>>
(* write_text truncates the file and then writes it.                       *)
Open(r) ==
    /\ phase[r] = "open"
    /\ file' = [file EXCEPT ![at[r]] = Torn]
    /\ Go(r, at[r], "write", hand[r])
    /\ UNCHANGED <<log, cut, attempts, made, overlapped>>
Write(r) ==
    /\ phase[r] = "write"
    /\ file' = [file EXCEPT ![at[r]] = hand[r]]
    /\ Go(r, After(at[r]), "read", Null)
    /\ UNCHANGED <<log, cut, attempts, made, overlapped>>
(* A stage fails, or is stopped, at any moment, and the replay with it: a  *)
(* return code other than 0 ends it.                                       *)
Stop(r) ==
    /\ at[r] \notin {"new", "done", "audit"}
    /\ End(r) /\ attempts' = [attempts EXCEPT ![r] = 0]
    /\ UNCHANGED <<file, log, cut, made, overlapped>>

-----------------------------------------------------------------------------
(* append_sentinel_to_audit reads its files and appends three records, one *)
(* after the other; append_audit reads the last hash, and then writes.     *)
Kinds == <<"snapshot", "dry", "gate">>

ReadAll(r) ==
    /\ at[r] = "audit" /\ phase[r] = "read" /\ Whole("dry") /\ Whole("gate")
    /\ Go(r, "audit", "last", [n |-> 1, prev |-> Genesis, snapshot |-> Null,
                               dry |-> file["dry"], gate |-> file["gate"]])
    /\ UNCHANGED <<file, log, cut, attempts, made, overlapped>>
AppendRead(r) ==
    /\ at[r] = "audit" /\ phase[r] = "last" /\ Readable(log)
    /\ Go(r, "audit", "append", [hand[r] EXCEPT !.prev = LastHash(log)])
    /\ UNCHANGED <<file, log, cut, attempts, made, overlapped>>
Record(r) ==
    LET kind == Kinds[hand[r].n] IN
    [prev |-> hand[r].prev,
     payload |-> [run |-> r, kind |-> kind, content |-> hand[r][kind]]]
(* Text that follows a line without a newline becomes part of that line.   *)
Extended(line) == IF cut THEN [log EXCEPT ![Len(log)] = Torn] ELSE Append(log, line)
AppendWrite(r) ==
    /\ at[r] = "audit" /\ phase[r] = "append"
    /\ log' = Extended(Record(r)) /\ cut' = FALSE
    /\ IF hand[r].n = 3 THEN End(r) ELSE Go(r, "audit", "last", [hand[r] EXCEPT !.n = @ + 1])
    /\ UNCHANGED <<file, attempts, made, overlapped>>
(* The last stage stops, perhaps with a part of its line written: all of   *)
(* it but the newline, or less.                                            *)
StopAudit(r) ==
    /\ at[r] = "audit"
    /\ \/ UNCHANGED <<log, cut>>
       \/ /\ phase[r] = "append" /\ cut' = TRUE
          /\ \E line \in {Record(r), Torn} : log' = Extended(line)
    /\ End(r)
    /\ UNCHANGED <<file, attempts, made, overlapped>>

-----------------------------------------------------------------------------
Next == \E r \in Replay :
    \/ Begin(r) \/ Answered(r) \/ Repaired(r)
    \/ Read(r) \/ Open(r) \/ Write(r) \/ Stop(r)
    \/ ReadAll(r) \/ AppendRead(r) \/ AppendWrite(r) \/ StopAudit(r)

Spec == Init /\ [][Next]_replayVars

-----------------------------------------------------------------------------
(* Properties.                                                             *)

Records == {i \in 1..Len(log) : log[i] # Torn}
Entry(i) == log[i].payload

(* A dry run in the log is one that some replay's model gave and that      *)
(* validated, and a decision is the policy's about one of those.           *)
AuditedWasProduced ==
    LET given == {made[r] : r \in Replay} \ {Null} IN
    \A i \in Records :
        /\ Entry(i).kind = "dry" => Entry(i).content \in given
        /\ Entry(i).kind = "gate" => \E d \in given : Entry(i).content = Decide(d)

(* A decision in the log is the policy's about the dry run that the same   *)
(* replay's model gave, which is the record before it; and unless the last *)
(* line is torn, the links verify (verify_audit_hash_chain, for which a    *)
(* content hash that differs is only a warning).                           *)
AuditedIsOwn ==
    /\ \A i \in Records : Entry(i).kind = "gate" =>
        /\ Entry(i).content = Decide(made[Entry(i).run])
        /\ i > 1 /\ Entry(i - 1).run = Entry(i).run
        /\ Entry(i - 1).content = made[Entry(i).run]
    /\ Len(log) \in Records => Linked(log)

(* Replays that overlap share the files and may audit each other's         *)
(* results, but only results that were produced; replays that do not       *)
(* overlap, stopped anywhere and leaving stale or truncated files to the   *)
(* next, audit their own.                                                  *)
ReplaysAuditResults == AuditedWasProduced /\ (~overlapped => AuditedIsOwn)
=============================================================================
