--------------------------- MODULE Reviews_proofs ---------------------------
(***************************************************************************)
(* Proofs about the components that MCReviews joins: the review of patches *)
(* that are proposed automatically (ProposalReview), and the governed      *)
(* learning cycle (LearningCycle).  PolicyStore's are in its own module.   *)
(*                                                                         *)
(* A behaviour of the joined specification is one of every component, for  *)
(* the others' steps leave its state alone.                                *)
(***************************************************************************)
EXTENDS MCReviews, FiniteSetTheorems, SequenceTheorems, TLAPS

(* What runs in MCReviews is the components.                               *)
LEMMA ReviewsRunReview == Reviews => Review!Spec
<1>1. ReviewsInit => Review!Init
  BY DEF ReviewsInit
<1>2. [ReviewsNext]_<<component, vars, reviewState, learningState>> => [Review!Next]_Review!vars
  BY DEF ReviewsNext, reviewState, Review!vars, Review!producer, Review!review, Review!legacy,
     Review!store, Review!bridges
<1>3. QED
  BY <1>1, <1>2, PTL DEF Reviews, Review!Spec

LEMMA ReviewsRunLearning == Reviews => Learning!Cycle
<1>1. ReviewsInit => Learning!Init
  BY DEF ReviewsInit
<1>2. [ReviewsNext]_<<component, vars, reviewState, learningState>>
      => [Learning!Next]_Learning!cycle
  BY DEF ReviewsNext, learningState, Learning!cycle, Learning!learner, Learning!emitter,
     Learning!target
<1>3. QED
  BY <1>1, <1>2, PTL DEF Reviews, Learning!Cycle

-----------------------------------------------------------------------------
(* The review of automatic proposals.                                      *)

Stage == {"artifact", "receipt", "enqueue", "done"}
Judge == Reviewer \cup {BridgeReviewer}
Line  == [id: AutoProposal, base: Review!Policy]
Task  == [kind: {"proposals", "approvals"}, todo: SUBSET AutoProposal, base: Review!Policy,
          known: SUBSET AutoProposal]

ReviewTypes ==
    /\ stage \in [AutoProposal -> Stage]
    /\ artifacts \in SUBSET AutoProposal /\ receiptsOf \in SUBSET AutoProposal
    /\ queue \in Seq(AutoProposal) /\ status \in [AutoProposal -> Review!Status] /\ torn \in BOOLEAN
    /\ listed \in Seq(Line)
    /\ approvers \in [AutoProposal -> SUBSET Judge] /\ bridged \in [AutoProposal -> Nat]
    /\ policy \in Review!Policy
    /\ bridge \in [Runner -> {Null} \cup Task]
    /\ runs \in Nat /\ bridgesOverlapped \in BOOLEAN /\ barred \in SUBSET AutoProposal

-----------------------------------------------------------------------------
(* Operators.                                                              *)

LEMMA PatchedType == \A pol \in Review!Policy : Review!PatchedBy(pol) \in Review!Policy
BY DEF Review!PatchedBy, Review!Policy

(* A patch changes a policy just if the policy is not tuned yet.           *)
LEMMA PatchChanges == \A pol \in Review!Policy : Review!PatchedBy(pol) = pol <=> pol.tuned
BY DEF Review!PatchedBy, Review!Policy

(* What a bridge selects is queued and approved.                           *)
LEMMA SelectedApproved ==
    \A p \in Review!Selected : p \in AutoProposal /\ Review!Queued(p) /\ status[p] = "APPROVED"
BY DEF Review!Selected, Review!Newest, Review!Merged

(* Appending a line lists its proposal and no other.                       *)
LEMMA AppendLists ==
    ASSUME NEW lines \in Seq(Line), NEW line \in Line, NEW p
    PROVE  (\E i \in 1..Len(Append(lines, line)) : Append(lines, line)[i].id = p)
             <=> (p = line.id \/ \E i \in 1..Len(lines) : lines[i].id = p)
<1>1. Len(Append(lines, line)) = Len(lines) + 1 /\ Len(lines) \in Nat
  OBVIOUS
<1>2. \A i \in 1..Len(lines) : Append(lines, line)[i] = lines[i]
  OBVIOUS
<1>3. Append(lines, line)[Len(lines) + 1] = line
  OBVIOUS
<1>4. QED
  BY <1>1, <1>2, <1>3

(* A bridge that passes an item keeps its kind and its policy.             *)
LEMMA AdvanceTask ==
    ASSUME bridge \in [Runner -> {Null} \cup Task], NEW b \in Runner, bridge[b] \in Task,
           NEW p, NEW known \in SUBSET AutoProposal, Review!Advance(b, p, known)
    PROVE  /\ bridge' \in [Runner -> {Null} \cup Task] /\ bridge'[b] \in Task
           /\ bridge'[b].kind = bridge[b].kind /\ bridge'[b].base = bridge[b].base
           /\ bridge'[b].todo = bridge[b].todo \ {p} /\ bridge'[b].known = known
           /\ \A c \in Runner \ {b} : bridge'[c] = bridge[c]
<1> DEFINE task == [bridge[b] EXCEPT !.todo = @ \ {p}, !.known = known]
<1>1. /\ task \in Task /\ task.kind = bridge[b].kind /\ task.base = bridge[b].base
      /\ task.todo = bridge[b].todo \ {p} /\ task.known = known
  BY DEF Task
<1>2. bridge' = [bridge EXCEPT ![b] = task]
  BY DEF Review!Advance
<1> HIDE DEF task
<1>3. QED
  BY <1>1, <1>2

-----------------------------------------------------------------------------
(* Type correctness.                                                       *)

THEOREM ReviewTyped == Review!Spec => []ReviewTypes
<1>1. Review!Init => ReviewTypes
  <2> SUFFICES ASSUME Review!Init PROVE ReviewTypes
    OBVIOUS
  <2>1. queue \in Seq(AutoProposal) /\ listed \in Seq(Line)
    BY DEF Review!Init
  <2>2. stage \in [AutoProposal -> Stage] /\ status \in [AutoProposal -> Review!Status]
    BY DEF Review!Init, Stage, Review!Status
  <2>3. approvers \in [AutoProposal -> SUBSET Judge] /\ bridged \in [AutoProposal -> Nat]
    BY DEF Review!Init
  <2>4. policy \in Review!Policy /\ bridge \in [Runner -> {Null} \cup Task]
    BY DEF Review!Init
  <2>5. QED
    BY <2>1, <2>2, <2>3, <2>4 DEF Review!Init, ReviewTypes
<1>2. ReviewTypes /\ [Review!Next]_Review!vars => ReviewTypes'
  <2> SUFFICES ASSUME ReviewTypes, [Review!Next]_Review!vars PROVE ReviewTypes'
    OBVIOUS
  <2> USE DEF ReviewTypes, Review!producer, Review!review, Review!legacy, Review!store,
              Review!bridges
  <2>1. ASSUME NEW p \in AutoProposal, Review!WriteArtifact(p) \/ Review!WriteReceipt(p)
        PROVE  ReviewTypes'
    BY <2>1 DEF Review!WriteArtifact, Review!WriteReceipt, Stage
  <2>2. ASSUME NEW p \in AutoProposal, Review!Enqueue(p) PROVE ReviewTypes'
    <3>1. Append(queue, p) \in Seq(AutoProposal)
      OBVIOUS
    <3>2. queue' \in Seq(AutoProposal) /\ stage' \in [AutoProposal -> Stage]
      BY <2>2, <3>1 DEF Review!Enqueue, Stage
    <3>3. QED
      BY <2>2, <3>2 DEF Review!Enqueue
  <2>3. ASSUME NEW p \in AutoProposal, Review!ProposeStops(p) PROVE ReviewTypes'
    BY <2>3 DEF Review!ProposeStops, Stage
  <2>4. ASSUME NEW p \in AutoProposal, NEW d \in Review!Status, Review!Decide(p, d)
        PROVE  ReviewTypes'
    BY <2>4 DEF Review!Decide, Review!MarkStatus
  <2>5. ASSUME NEW p \in AutoProposal, NEW c \in Reviewer, Review!Approve(c, p) PROVE ReviewTypes'
    BY <2>5 DEF Review!Approve, Judge
  <2>6. ASSUME NEW p \in AutoProposal, NEW c \in Reviewer, NEW s \in Strategies,
               Review!Apply(c, p, s)
        PROVE  ReviewTypes'
    BY <2>6, PatchedType DEF Review!Apply
  <2>7. ASSUME NEW b \in Runner, NEW kind \in {"proposals", "approvals"}, Review!Start(b, kind)
        PROVE  ReviewTypes'
    <3>1. Review!Selected \in SUBSET AutoProposal
      BY SelectedApproved
    <3>2. bridge' \in [Runner -> {Null} \cup Task]
      BY <2>7, <3>1 DEF Review!Start, Review!Known, Task
    <3>3. QED
      BY <2>7, <3>2 DEF Review!Start, Review!Known
  <2>8. ASSUME NEW b \in Runner, NEW p \in AutoProposal, Review!BridgeProposal(b, p)
        PROVE  ReviewTypes'
    <3>1. bridge[b] \in Task
      BY <2>8 DEF Review!BridgeProposal, Review!Converted, Review!AtItem
    <3>2. bridge' \in [Runner -> {Null} \cup Task]
      BY <2>8, <3>1, AdvanceTask DEF Review!BridgeProposal, Review!Converted, Task
    <3>3. [id |-> p, base |-> bridge[b].base] \in Line
      BY <3>1 DEF Line, Task
    <3>4. listed' \in Seq(Line)
      <4>1. Append(listed, [id |-> p, base |-> bridge[b].base]) \in Seq(Line)
        BY <3>3
      <4>2. QED
        BY <2>8, <4>1 DEF Review!BridgeProposal, Review!Converted
    <3>5. QED
      BY <2>8, <3>2, <3>4 DEF Review!BridgeProposal, Review!Converted
  <2>9. ASSUME NEW b \in Runner, NEW p \in AutoProposal, Review!BridgeApproval(b, p)
        PROVE  ReviewTypes'
    <3>1. bridge[b] \in Task
      BY <2>9 DEF Review!BridgeApproval, Review!AtItem
    <3>2. bridge' \in [Runner -> {Null} \cup Task]
      BY <2>9, <3>1, AdvanceTask DEF Review!BridgeApproval, Task
    <3>3. approvers' \in [AutoProposal -> SUBSET Judge] /\ bridged' \in [AutoProposal -> Nat]
      <4>1. approvers[p] \cup {BridgeReviewer} \in SUBSET Judge /\ bridged[p] + 1 \in Nat
        BY DEF Judge
      <4>2. QED
        BY <2>9, <4>1 DEF Review!BridgeApproval
    <3>4. QED
      BY <2>9, <3>2, <3>3 DEF Review!BridgeApproval
  <2>10. ASSUME NEW b \in Runner, Review!BridgeEnds(b) PROVE ReviewTypes'
    BY <2>10 DEF Review!BridgeEnds
  <2>11. CASE Review!ConverterResets
    BY <2>11 DEF Review!ConverterResets
  <2>12. CASE Review!OtherApply
    BY <2>12 DEF Review!OtherApply
  <2>13. CASE UNCHANGED Review!vars
    BY <2>13 DEF Review!vars
  <2>14. QED
    BY <2>1, <2>2, <2>3, <2>4, <2>5, <2>6, <2>7, <2>8, <2>9, <2>10, <2>11, <2>12,
       <2>13 DEF Review!Next
<1>3. QED
  BY <1>1, <1>2, PTL DEF Review!Spec

-----------------------------------------------------------------------------
(* What is listed was reviewed.                                            *)

Documented(p) == p \in artifacts /\ p \in receiptsOf

(* What has its artifact and receipt, and what no rejection bars: all that *)
(* is queued or in hand is on its way to be listed.                        *)
ReviewInv ==
    /\ \A p \in AutoProposal :
        /\ stage[p] = "receipt" => p \in artifacts
        /\ stage[p] = "enqueue" => Documented(p)
        /\ Review!Queued(p) => Documented(p)
        /\ Review!InHand(p) => Documented(p) /\ p \notin barred
        /\ Review!Listed(p) => Documented(p) /\ p \notin barred
        /\ p \in barred => status[p] # "APPROVED"

(* A proposal that review_patch can apply has its artifact and its receipt *)
(* and was not rejected before every copy of it was made or begun,         *)
(* wherever jobs and bridges stop.                                         *)
THEOREM Reviewed == Reviews => []ReviewedBeforeListed
<1>1. Review!Init => ReviewInv
  BY DEF Review!Init, ReviewInv, Review!Queued, Review!InHand, Review!Listed
<1>2. ReviewTypes /\ ReviewTypes' /\ ReviewInv /\ [Review!Next]_Review!vars => ReviewInv'
  <2> SUFFICES ASSUME ReviewTypes, ReviewTypes', ReviewInv, [Review!Next]_Review!vars
               PROVE  ReviewInv'
    OBVIOUS
  <2> USE DEF ReviewInv, Documented, Review!producer, Review!review, Review!legacy,
              Review!store, Review!bridges
  <2>1. ASSUME NEW p \in AutoProposal, Review!WriteArtifact(p) \/ Review!WriteReceipt(p)
        PROVE  ReviewInv'
    <3>1. \A q \in AutoProposal : /\ Review!Queued(q)' <=> Review!Queued(q)
                                  /\ Review!InHand(q)' <=> Review!InHand(q)
                                  /\ Review!Listed(q)' <=> Review!Listed(q)
      BY <2>1 DEF Review!WriteArtifact, Review!WriteReceipt, Review!Queued, Review!InHand,
         Review!Listed
    <3>2. QED
      BY <2>1, <3>1 DEF Review!WriteArtifact, Review!WriteReceipt, ReviewTypes
  <2>2. ASSUME NEW p \in AutoProposal, Review!Enqueue(p) PROVE ReviewInv'
    <3>1. \A q \in AutoProposal : /\ Review!Queued(q)' => Review!Queued(q) \/ q = p
                                  /\ Review!InHand(q)' <=> Review!InHand(q)
                                  /\ Review!Listed(q)' <=> Review!Listed(q)
      BY <2>2 DEF Review!Enqueue, Review!Queued, Review!InHand, Review!Listed, ReviewTypes
    <3>2. QED
      BY <2>2, <3>1 DEF Review!Enqueue, ReviewTypes
  <2>3. ASSUME NEW p \in AutoProposal, Review!ProposeStops(p) PROVE ReviewInv'
    <3>1. \A q \in AutoProposal : /\ Review!Queued(q)' <=> Review!Queued(q)
                                  /\ Review!InHand(q)' <=> Review!InHand(q)
                                  /\ Review!Listed(q)' <=> Review!Listed(q)
      BY <2>3 DEF Review!ProposeStops, Review!Queued, Review!InHand, Review!Listed
    <3>2. QED
      BY <2>3, <3>1 DEF Review!ProposeStops, ReviewTypes
  <2>4. ASSUME NEW p \in AutoProposal, NEW d \in Review!Status, Review!Decide(p, d) PROVE ReviewInv'
    <3>1. \A q \in AutoProposal : /\ Review!Queued(q)' <=> Review!Queued(q)
                                  /\ Review!InHand(q)' <=> Review!InHand(q)
                                  /\ Review!Listed(q)' <=> Review!Listed(q)
      BY <2>4 DEF Review!Decide, Review!MarkStatus, Review!Queued, Review!InHand, Review!Listed
    <3>2. QED
      BY <2>4, <3>1 DEF Review!Decide, Review!MarkStatus, ReviewTypes
  <2>5. ASSUME NEW b \in Runner, NEW kind \in {"proposals", "approvals"}, Review!Start(b, kind)
        PROVE  ReviewInv'
    <3>1. \A q \in AutoProposal : /\ Review!Queued(q)' <=> Review!Queued(q)
                                  /\ Review!Listed(q)' <=> Review!Listed(q)
                                  /\ Review!InHand(q)' => Review!InHand(q) \/ q \in Review!Selected
      BY <2>5 DEF Review!Start, Review!Known, Review!Queued, Review!InHand, Review!Listed,
         ReviewTypes
    <3>2. QED
      BY <2>5, <3>1, SelectedApproved DEF Review!Start, Review!Known
  <2>6. ASSUME NEW b \in Runner, NEW p \in AutoProposal, Review!BridgeProposal(b, p)
        PROVE  ReviewInv'
    <3>1. bridge[b] \in Task /\ Review!InHand(p)
      BY <2>6 DEF Review!BridgeProposal, Review!Converted, Review!AtItem, Review!InHand, ReviewTypes
    <3>2. bridge'[b].todo \subseteq bridge[b].todo /\ \A c \in Runner \ {b} : bridge'[c] = bridge[c]
      <4>1. /\ bridge \in [Runner -> {Null} \cup Task]
            /\ bridge[b].known \in SUBSET AutoProposal
            /\ bridge[b].known \cup {p} \in SUBSET AutoProposal
        BY <3>1 DEF ReviewTypes, Task
      <4>2. \E known \in SUBSET AutoProposal : Review!Advance(b, p, known)
        BY <2>6, <4>1 DEF Review!BridgeProposal, Review!Converted
      <4>3. QED
        BY <3>1, <4>1, <4>2, AdvanceTask
    <3>3. \A q \in AutoProposal : Review!InHand(q)' => Review!InHand(q)
      BY <2>6, <3>1, <3>2 DEF Review!InHand, Review!BridgeProposal, Review!Converted, Review!AtItem
    <3>4. \A q \in AutoProposal : Review!Listed(q)' => Review!Listed(q) \/ q = p
      <4>1. CASE listed' = listed
        BY <4>1 DEF Review!Listed
      <4>2. CASE listed' = Append(listed, [id |-> p, base |-> bridge[b].base])
        <5>1. [id |-> p, base |-> bridge[b].base] \in Line
          BY <3>1 DEF Line, Task
        <5>2. listed \in Seq(Line)
          BY DEF ReviewTypes
        <5> DEFINE line == [id |-> p, base |-> bridge[b].base]
        <5>3. line.id = p /\ listed' = Append(listed, line)
          BY <4>2
        <5> HIDE DEF line
        <5>4. line \in Line
          BY <5>1 DEF line
        <5>5. SUFFICES ASSUME NEW q \in AutoProposal
                       PROVE  Review!Listed(q)' => Review!Listed(q) \/ q = p
          OBVIOUS
        <5>6. QED
          BY <5>2, <5>3, <5>4, AppendLists DEF Review!Listed
      <4>3. QED
        BY <2>6, <4>1, <4>2 DEF Review!BridgeProposal, Review!Converted
    <3>5. \A q \in AutoProposal : Review!Queued(q)' <=> Review!Queued(q)
      BY <2>6 DEF Review!BridgeProposal, Review!Converted, Review!Queued
    <3>6. QED
      BY <2>6, <3>1, <3>3, <3>4, <3>5 DEF Review!BridgeProposal, Review!Converted
  <2>7. ASSUME NEW b \in Runner, NEW p \in AutoProposal, Review!BridgeApproval(b, p)
        PROVE  ReviewInv'
    <3>1. bridge[b] \in Task
      BY <2>7 DEF Review!BridgeApproval, Review!AtItem, ReviewTypes
    <3>2. bridge'[b].todo \subseteq bridge[b].todo /\ \A c \in Runner \ {b} : bridge'[c] = bridge[c]
      <4>1. /\ bridge \in [Runner -> {Null} \cup Task]
            /\ bridge[b].known \in SUBSET AutoProposal
            /\ bridge[b].known \cup {p} \in SUBSET AutoProposal
        BY <3>1 DEF ReviewTypes, Task
      <4>2. \E known \in SUBSET AutoProposal : Review!Advance(b, p, known)
        BY <2>7, <4>1 DEF Review!BridgeApproval
      <4>3. QED
        BY <3>1, <4>1, <4>2, AdvanceTask
    <3>3. \A q \in AutoProposal : Review!InHand(q)' => Review!InHand(q)
      BY <2>7, <3>2 DEF Review!InHand, Review!BridgeApproval, Review!AtItem
    <3>4. \A q \in AutoProposal : /\ Review!Queued(q)' <=> Review!Queued(q)
                                  /\ Review!Listed(q)' <=> Review!Listed(q)
      BY <2>7 DEF Review!BridgeApproval, Review!Queued, Review!Listed
    <3>5. QED
      BY <2>7, <3>3, <3>4 DEF Review!BridgeApproval
  <2>8. ASSUME NEW b \in Runner, Review!BridgeEnds(b) PROVE ReviewInv'
    <3>1. \A q \in AutoProposal : /\ Review!Queued(q)' <=> Review!Queued(q)
                                  /\ Review!Listed(q)' <=> Review!Listed(q)
                                  /\ Review!InHand(q)' => Review!InHand(q)
      BY <2>8 DEF Review!BridgeEnds, Review!Queued, Review!InHand, Review!Listed, ReviewTypes
    <3>2. QED
      BY <2>8, <3>1 DEF Review!BridgeEnds
  <2>9. CASE Review!ConverterResets
    <3>1. \A q \in AutoProposal : /\ Review!Queued(q)' <=> Review!Queued(q)
                                  /\ ~Review!Listed(q)'
                                  /\ Review!InHand(q)' <=> Review!InHand(q)
      BY <2>9 DEF Review!ConverterResets, Review!Queued, Review!InHand, Review!Listed
    <3>2. QED
      BY <2>9, <3>1 DEF Review!ConverterResets
  <2>10. ASSUME \/ \E p \in AutoProposal, c \in Reviewer :
                      Review!Approve(c, p) \/ \E s \in Strategies : Review!Apply(c, p, s)
                \/ Review!OtherApply \/ UNCHANGED Review!vars
         PROVE  ReviewInv'
    <3>1. /\ UNCHANGED <<stage, artifacts, receiptsOf, queue, status, listed, bridge, barred>>
      BY <2>10 DEF Review!Approve, Review!Apply, Review!OtherApply, Review!vars
    <3>2. QED
      BY <3>1 DEF Review!Queued, Review!InHand, Review!Listed
  <2>11. QED
    BY <2>1, <2>2, <2>3, <2>4, <2>5, <2>6, <2>7, <2>8, <2>9, <2>10 DEF Review!Next
<1>3. ReviewInv => ReviewedBeforeListed
  BY DEF ReviewedBeforeListed, ReviewInv, Documented, Review!ReviewedBeforeListed
<1>4. QED
  BY <1>1, <1>2, <1>3, ReviewTyped, ReviewsRunReview, PTL DEF Review!Spec

-----------------------------------------------------------------------------
(* Strategy "reject" applies only what changes something.                  *)

(* No line was written for a policy that already had the value.            *)
ChangeInv ==
    /\ \A i \in 1..Len(listed) : ~listed[i].base.tuned
    /\ Review!RejectAlwaysChanges

(* Under strategy "reject" an application changes the policy.              *)
THEOREM RejectChanges == Review!Spec => []Review!RejectAlwaysChanges
<1>1. Review!Init => ChangeInv
  BY DEF Review!Init, ChangeInv, Review!RejectAlwaysChanges
<1>2. ReviewTypes /\ ReviewTypes' /\ ChangeInv /\ [Review!Next]_Review!vars => ChangeInv'
  <2> SUFFICES ASSUME ReviewTypes, ReviewTypes', ChangeInv, [Review!Next]_Review!vars
               PROVE  ChangeInv'
    OBVIOUS
  <2> USE DEF ChangeInv, Review!producer, Review!review, Review!legacy, Review!store, Review!bridges
  <2>1. ASSUME NEW b \in Runner, NEW p \in AutoProposal, Review!BridgeProposal(b, p)
        PROVE  ChangeInv'
    <3>1. bridge[b] \in Task
      BY <2>1 DEF Review!BridgeProposal, Review!Converted, Review!AtItem, ReviewTypes
    <3>2. CASE Review!Skipped(b, p)
      BY <2>1, <3>2 DEF Review!BridgeProposal, Review!Converted, Review!RejectAlwaysChanges
    <3>3. CASE ~Review!Skipped(b, p)
      <4>1. ~bridge[b].base.tuned /\ bridge[b].base \in Review!Policy
        BY <3>1, <3>3, PatchChanges DEF Review!Skipped, Task, Review!Policy
      <4>2. listed' = Append(listed, [id |-> p, base |-> bridge[b].base])
        BY <2>1, <3>3 DEF Review!BridgeProposal, Review!Converted
      <4>3. \A i \in 1..Len(listed') : ~listed'[i].base.tuned
        <5> DEFINE line == [id |-> p, base |-> bridge[b].base]
        <5>1. ~line.base.tuned /\ listed \in Seq(Line)
          BY <4>1 DEF ReviewTypes
        <5> HIDE DEF line
        <5>2. \A i \in 1..Len(Append(listed, line)) :
                \/ i \in 1..Len(listed) /\ Append(listed, line)[i] = listed[i]
                \/ Append(listed, line)[i] = line
          BY <5>1
        <5>3. QED
          BY <4>2, <5>1, <5>2 DEF line
      <4>4. QED
        BY <2>1, <4>3 DEF Review!BridgeProposal, Review!Converted, Review!RejectAlwaysChanges
    <3>4. QED
      BY <3>2, <3>3
  <2>2. ASSUME NEW p \in AutoProposal, NEW c \in Reviewer, NEW s \in Strategies,
               Review!Apply(c, p, s)
        PROVE  ChangeInv'
    <3>1. s = "reject" => ~policy.tuned
      BY <2>2 DEF Review!Apply
    <3>2. s = "reject" => policy # Review!PatchedBy(policy)
      BY <3>1, PatchChanges DEF ReviewTypes
    <3>3. Review!RejectAlwaysChanges'
      BY <2>2, <3>2 DEF Review!Apply, Review!RejectAlwaysChanges
    <3>4. QED
      BY <2>2, <3>3 DEF Review!Apply
  <2>3. CASE Review!ConverterResets
    BY <2>3 DEF Review!ConverterResets, Review!RejectAlwaysChanges
  <2>4. ASSUME listed' = listed, last' = last PROVE ChangeInv'
    BY <2>4 DEF Review!RejectAlwaysChanges
  <2>5. QED
    BY <2>1, <2>2, <2>3, <2>4 DEF Review!Next, Review!vars, Review!WriteArtifact,
       Review!WriteReceipt, Review!Enqueue, Review!ProposeStops,
       Review!Decide, Review!MarkStatus, Review!Approve, Review!Start, Review!BridgeApproval,
       Review!BridgeEnds, Review!OtherApply
<1>3. ChangeInv => Review!RejectAlwaysChanges
  BY DEF ChangeInv
<1>4. QED
  BY <1>1, <1>2, <1>3, ReviewTyped, PTL DEF Review!Spec

-----------------------------------------------------------------------------
(* Serial bridges write once.                                              *)

(* One bridge at most is at work; it knows what the file that it writes    *)
(* holds, and the files hold nothing twice.                                *)
OnceInv ==
    ~bridgesOverlapped =>
        /\ \A b, c \in Runner : bridge[b] # Null /\ bridge[c] # Null => b = c
        /\ \A b \in Runner, p \in AutoProposal : bridge[b] # Null =>
            /\ bridge[b].kind = "proposals" /\ Review!Listed(p) => p \in bridge[b].known
            /\ bridge[b].kind = "approvals" /\ bridged[p] > 0 => p \in bridge[b].known
        /\ \A i, j \in 1..Len(listed) : listed[i].id = listed[j].id => i = j
        /\ \A p \in AutoProposal : bridged[p] <= 1

(* Bridges that do not overlap, nor run under the converter, copy a        *)
(* proposal and its approval once, wherever they are stopped.              *)
THEOREM SerialBridges == Reviews => []SerialBridgesWriteOnce
<1>1. Review!Init => OnceInv
  BY DEF Review!Init, OnceInv
<1>2. ReviewTypes /\ ReviewTypes' /\ OnceInv /\ [Review!Next]_Review!vars => OnceInv'
  <2> SUFFICES ASSUME ReviewTypes, ReviewTypes', OnceInv, [Review!Next]_Review!vars, ~bridgesOverlapped'
               PROVE  OnceInv'
    BY DEF OnceInv
  <2> USE DEF Review!producer, Review!review, Review!legacy, Review!store, Review!bridges
  <2>1. ASSUME NEW b \in Runner, NEW p \in AutoProposal, Review!BridgeProposal(b, p) PROVE OnceInv'
    <3>1. /\ bridge[b] \in Task /\ bridge[b] # Null /\ ~bridgesOverlapped
          /\ bridge[b].kind = "proposals" /\ bridged' = bridged
      BY <2>1 DEF Review!BridgeProposal, Review!Converted, Review!AtItem, ReviewTypes
    <3> DEFINE line == [id |-> p, base |-> bridge[b].base]
    <3>2. line \in Line /\ line.id = p /\ listed \in Seq(Line)
      BY <3>1 DEF Line, Task, ReviewTypes
    <3>3. /\ bridge \in [Runner -> {Null} \cup Task]
          /\ bridge[b].known \in SUBSET AutoProposal
          /\ bridge[b].known \cup {p} \in SUBSET AutoProposal
      BY <3>1 DEF ReviewTypes, Task
    <3>4. \/ listed' = listed /\ Review!Advance(b, p, bridge[b].known)
          \/ /\ p \notin bridge[b].known /\ listed' = Append(listed, line)
             /\ Review!Advance(b, p, bridge[b].known \cup {p})
      BY <2>1 DEF Review!BridgeProposal, Review!Converted, Review!Skipped
    <3>5. /\ bridge'[b].kind = "proposals"
          /\ \A c \in Runner \ {b} : bridge'[c] = bridge[c]
          /\ \/ listed' = listed /\ bridge'[b].known = bridge[b].known
             \/ /\ p \notin bridge[b].known /\ listed' = Append(listed, line)
                /\ bridge'[b].known = bridge[b].known \cup {p}
      BY <3>1, <3>3, <3>4, AdvanceTask
    <3>6. \A c \in Runner : bridge[c] # Null => c = b
      BY <3>1 DEF OnceInv
    <3>7. \A c \in Runner : bridge'[c] # Null => c = b
      BY <3>5, <3>6
    <3> HIDE DEF line
    <3>8. CASE listed' = listed /\ bridge'[b].known = bridge[b].known
      BY <3>1, <3>5, <3>7, <3>8 DEF OnceInv, Review!Listed
    <3>9. CASE /\ p \notin bridge[b].known /\ listed' = Append(listed, line)
               /\ bridge'[b].known = bridge[b].known \cup {p}
      <4>1. \A q \in AutoProposal : Review!Listed(q)' => Review!Listed(q) \/ q = p
        BY <3>2, <3>9, AppendLists DEF Review!Listed
      <4>2. ~Review!Listed(p)
        BY <3>1, <3>9 DEF OnceInv
      <4>3. \A i \in 1..Len(listed) : listed[i].id # p
        BY <4>2 DEF Review!Listed
      <4>4. /\ Len(listed') = Len(listed) + 1 /\ Len(listed) \in Nat
            /\ listed'[Len(listed) + 1].id = p
            /\ \A i \in 1..Len(listed) : listed'[i] = listed[i]
        BY <3>2, <3>9
      <4>5. \A i, j \in 1..Len(listed') : listed'[i].id = listed'[j].id => i = j
        <5> SUFFICES ASSUME NEW i \in 1..Len(listed'), NEW j \in 1..Len(listed'),
                            listed'[i].id = listed'[j].id
                     PROVE  i = j
          OBVIOUS
        <5>1. \A k \in 1..Len(listed') : k \in 1..Len(listed) \/ k = Len(listed) + 1
          BY <4>4
        <5>2. CASE i \in 1..Len(listed) /\ j \in 1..Len(listed)
          BY <5>2, <4>4, <3>1 DEF OnceInv
        <5>3. QED
          BY <5>1, <5>2, <4>3, <4>4
      <4>6. QED
        BY <3>1, <3>5, <3>7, <3>9, <4>1, <4>5 DEF OnceInv
    <3>10. QED
      BY <3>5, <3>8, <3>9
  <2>2. ASSUME NEW b \in Runner, NEW p \in AutoProposal, Review!BridgeApproval(b, p) PROVE OnceInv'
    <3>1. /\ bridge[b] \in Task /\ bridge[b] # Null /\ ~bridgesOverlapped
          /\ bridge[b].kind = "approvals" /\ listed' = listed
      BY <2>2 DEF Review!BridgeApproval, Review!AtItem, ReviewTypes
    <3>2. /\ bridge \in [Runner -> {Null} \cup Task] /\ bridged \in [AutoProposal -> Nat]
          /\ bridge[b].known \cup {p} \in SUBSET AutoProposal
      BY <3>1 DEF ReviewTypes, Task
    <3>3. Review!Advance(b, p, bridge[b].known \cup {p})
      BY <2>2 DEF Review!BridgeApproval
    <3>4. /\ bridge'[b].kind = "approvals" /\ bridge'[b].known = bridge[b].known \cup {p}
          /\ \A c \in Runner \ {b} : bridge'[c] = bridge[c]
      BY <3>1, <3>2, <3>3, AdvanceTask
    <3>5. \A c \in Runner : bridge'[c] # Null => c = b
      BY <3>1, <3>4 DEF OnceInv
    <3>6. p \notin bridge[b].known => bridged[p] = 0
      BY <3>1, <3>2 DEF OnceInv
    <3>7. \A q \in AutoProposal : bridged'[q] <= 1 /\ (bridged'[q] > 0 => bridged[q] > 0 \/ q = p)
      BY <2>2, <3>1, <3>2, <3>6 DEF Review!BridgeApproval, OnceInv
    <3>8. QED
      BY <3>1, <3>4, <3>5, <3>7 DEF OnceInv, Review!Listed
  <2>3. ASSUME NEW b \in Runner, NEW kind \in {"proposals", "approvals"}, Review!Start(b, kind)
        PROVE  OnceInv'
    <3>1. ~bridgesOverlapped /\ \A c \in Runner : bridge[c] = Null
      BY <2>3 DEF Review!Start, Review!Known
    <3>2. /\ \A c \in Runner : bridge'[c] # Null => c = b
          /\ bridge'[b].kind = kind
          /\ kind = "proposals" => bridge'[b].known = {p \in AutoProposal : Review!Listed(p)}
          /\ kind = "approvals" => bridge'[b].known = {p \in AutoProposal : bridged[p] > 0}
      BY <2>3, <3>1 DEF Review!Start, Review!Known, ReviewTypes
    <3>3. listed' = listed /\ bridged' = bridged
      BY <2>3 DEF Review!Start, Review!Known
    <3>4. QED
      BY <3>1, <3>2, <3>3 DEF OnceInv, Review!Listed
  <2>4. ASSUME NEW b \in Runner, Review!BridgeEnds(b) PROVE OnceInv'
    <3>1. /\ ~bridgesOverlapped /\ listed' = listed /\ bridged' = bridged
          /\ \A c \in Runner : bridge'[c] # Null => bridge'[c] = bridge[c]
      BY <2>4 DEF Review!BridgeEnds, ReviewTypes
    <3>2. QED
      BY <3>1 DEF OnceInv, Review!Listed
  <2>5. CASE Review!ConverterResets
    <3>1. /\ ~bridgesOverlapped /\ listed' = <<>> /\ bridged' = bridged
          /\ \A c \in Runner : bridge'[c] = Null
      BY <2>5 DEF Review!ConverterResets
    <3>2. QED
      BY <3>1 DEF OnceInv, Review!Listed
  <2>6. ASSUME UNCHANGED <<listed, bridged, bridge, bridgesOverlapped>> PROVE OnceInv'
    BY <2>6 DEF OnceInv, Review!Listed
  <2>7. QED
    BY <2>1, <2>2, <2>3, <2>4, <2>5, <2>6 DEF Review!Next, Review!vars, Review!WriteArtifact,
       Review!WriteReceipt, Review!Enqueue,
       Review!ProposeStops, Review!Decide, Review!MarkStatus, Review!Approve, Review!Apply,
       Review!OtherApply
<1>3. OnceInv => SerialBridgesWriteOnce
  BY DEF SerialBridgesWriteOnce, OnceInv, Review!SerialBridgesWriteOnce
<1>4. QED
  BY <1>1, <1>2, <1>3, ReviewTyped, ReviewsRunReview, PTL DEF Review!Spec

-----------------------------------------------------------------------------
(* The learning cycle.                                                     *)

(* The module is instantiated, and with it the operators that it takes     *)
(* from FiniteSets.                                                        *)
LEMMA CardinalityIs == \A S : Learning!Cardinality(S) = Cardinality(S)
BY DEF Learning!Cardinality, Cardinality, Learning!IsFiniteSet, IsFiniteSet

Draft == [base: Hash, to: Hash, radius: Radius, touches: SUBSET Touch, observed: Nat,
          window: Seq(Direction), marked: BOOLEAN]
Admission == [key: Key, at: Nat, proposal: Draft]
TimeStamp == [at: Nat, before: Nat]

LearnerTypes ==
    /\ observations \in Seq(Direction) /\ now \in Nat
    /\ learned \in Draft \cup {Null} /\ drafts \in Nat
EmitterTypes ==
    /\ stamps \in [Key -> SUBSET TimeStamp]
    /\ \A k \in Key : IsFiniteSet(stamps[k])
    /\ admitted \in Seq(Admission)
EvaluatorTypes ==
    /\ evaluating \in [Evaluator -> [proposal: Draft, before: Hash] \cup {Null}]
    /\ current \in Hash /\ replaced \in Seq(Hash) /\ raced \in BOOLEAN
CycleTyped == LearnerTypes /\ EmitterTypes /\ EvaluatorTypes

LEMMA Constants ==
    /\ WindowEvents \in Nat \ {0} /\ Confirmations \in Nat \ {0}
    /\ MinSamples \in Nat /\ Epsilon \in Nat /\ Period \in Nat /\ LimitX \in Nat
    /\ Radius \subseteq {"local", "service", "system", "external"}
BY LearningHasItsTypes DEF Learning!CycleTypes

(* The window is the latest observations, WindowEvents of them at most.    *)
LEMMA WindowType ==
    ASSUME observations \in Seq(Direction)
    PROVE  /\ Learning!SelectWindow \in Seq(Direction)
           /\ Len(Learning!SelectWindow) \in Nat
           /\ Len(Learning!SelectWindow) <= WindowEvents
<1>1. CASE Len(observations) <= WindowEvents
  BY <1>1 DEF Learning!SelectWindow
<1>2. CASE ~(Len(observations) <= WindowEvents)
  <2> DEFINE n == Len(observations) - WindowEvents + 1
  <2>1. n \in 1..Len(observations) /\ Len(observations) \in Nat
    BY <1>2, Constants
  <2>2. Learning!SelectWindow = SubSeq(observations, n, Len(observations))
    BY <1>2 DEF Learning!SelectWindow
  <2>3. \A i \in n..Len(observations) : observations[i] \in Direction
    BY <2>1
  <2>4. QED
    BY <2>1, <2>2, <2>3, SubSeqProperties, Constants
<1>3. QED
  BY <1>1, <1>2

LEMMA DraftType ==
    ASSUME CycleTyped, NEW b \in Hash, NEW t \in Hash, NEW r \in Radius,
           NEW touches \in SUBSET Touch, Learning!Build(b, t, r, touches)
    PROVE  /\ learned' \in Draft
           /\ learned'.window = Learning!SelectWindow
<1> DEFINE p == [base |-> b, to |-> t, radius |-> r, touches |-> touches,
                 observed |-> Len(Learning!SelectWindow), window |-> Learning!SelectWindow,
                 marked |-> FALSE]
<1>1. p \in Draft
  BY WindowType DEF CycleTyped, LearnerTypes, Draft
<1>2. PICK marked \in BOOLEAN : learned' = [p EXCEPT !.marked = marked]
  BY DEF Learning!Build
<1>3. [p EXCEPT !.marked = marked] \in Draft
      /\ [p EXCEPT !.marked = marked].window = Learning!SelectWindow
  BY <1>1 DEF Draft
<1>4. QED
  BY <1>2, <1>3

LEMMA EditType ==
    ASSUME CycleTyped, NEW r \in Radius, NEW touches \in SUBSET Touch, NEW marked \in BOOLEAN,
           Learning!Edit(r, touches, marked)
    PROVE  learned' \in Draft /\ learned'.window = learned.window
<1>1. learned \in Draft
  BY DEF Learning!Edit, CycleTyped, LearnerTypes
<1>2. learned' = [learned EXCEPT !.radius = r, !.touches = touches, !.marked = marked]
  BY DEF Learning!Edit
<1>3. QED
  BY <1>1, <1>2 DEF Draft

(* What an emission appends to the queue, if it is let in.                 *)
Admits(k) == [key |-> k, at |-> now, proposal |-> learned]

LEMMA EmitEffect ==
    ASSUME CycleTyped, NEW k \in Key, Learning!Emit(k)
    PROVE  /\ learned \in Draft /\ Learning!HumanGate(learned) = {}
           /\ Admits(k) \in Admission
           /\ \/ admitted' = admitted
              \/ Learning!Allowed(k) /\ admitted' = Append(admitted, Admits(k))
           /\ stamps' = [stamps EXCEPT ![k] = Learning!Recent(k) \cup
                            (IF Learning!Allowed(k) THEN {Learning!Stamp(k)} ELSE {})]
           /\ UNCHANGED <<observations, now, learned, drafts, evaluating, current, replaced,
                          change, raced>>
<1>1. learned \in Draft
  BY DEF Learning!Emit, CycleTyped, LearnerTypes
<1>2. Admits(k) \in Admission
  BY <1>1 DEF Admits, Admission, CycleTyped, LearnerTypes
<1>3. QED
  BY <1>1, <1>2 DEF Learning!Emit, Learning!Record, Learning!learner, Learning!target, Admits

LEMMA StampsFinite ==
    ASSUME NEW k \in Key, IsFiniteSet(stamps[k])
    PROVE  IsFiniteSet(Learning!Recent(k)) /\ Cardinality(Learning!Recent(k)) \in Nat
<1>1. Learning!Recent(k) \in SUBSET stamps[k]
  BY DEF Learning!Recent
<1>2. QED
  BY <1>1, FS_Subset, FS_CardinalityType

(* Every step but the emission leaves queue and stamps alone.              *)
LEMMA OtherSteps ==
    ASSUME [Learning!Next]_Learning!cycle, ~\E k \in Key : Learning!Emit(k)
    PROVE  UNCHANGED <<stamps, admitted>>
BY DEF Learning!Next, Learning!cycle, Learning!learner, Learning!emitter, Learning!target,
   Learning!Observe, Learning!Tick, Learning!Build, Learning!Edit, Learning!Discard,
   Learning!ReadPolicy, Learning!Evaluate

LEMMA CycleTypesHold == Learning!Cycle => []CycleTyped
<1>1. Learning!Init => CycleTyped
  <2> SUFFICES ASSUME Learning!Init PROVE CycleTyped
    OBVIOUS
  <2>1. \A k \in Key : stamps[k] = {}
    BY DEF Learning!Init
  <2>2. \A S : <<>> \in Seq(S)
    OBVIOUS
  <2>3. evaluating \in [Evaluator -> [proposal: Draft, before: Hash] \cup {Null}]
    BY DEF Learning!Init
  <2>4. EmitterTypes
    BY <2>1, <2>2, FS_EmptySet DEF Learning!Init, EmitterTypes
  <2>5. LearnerTypes /\ EvaluatorTypes
    BY <2>2, <2>3 DEF Learning!Init, LearnerTypes, EvaluatorTypes
  <2>6. QED
    BY <2>4, <2>5 DEF CycleTyped
<1>2. CycleTyped /\ [Learning!Next]_Learning!cycle => CycleTyped'
  <2> SUFFICES ASSUME CycleTyped, [Learning!Next]_Learning!cycle PROVE CycleTyped'
    OBVIOUS
  <2> USE DEF Learning!learner, Learning!emitter, Learning!target, CycleTyped, LearnerTypes,
              EmitterTypes, EvaluatorTypes
  <2>1. ASSUME NEW d \in Direction, Learning!Observe(d) PROVE CycleTyped'
    BY <2>1 DEF Learning!Observe
  <2>2. CASE Learning!Tick
    BY <2>2 DEF Learning!Tick
  <2>3. ASSUME NEW b \in Hash, NEW t \in Hash, NEW r \in Radius, NEW touches \in SUBSET Touch,
               Learning!Build(b, t, r, touches)
        PROVE  CycleTyped'
    <3>1. learned' \in Draft
      BY <2>3, DraftType
    <3>2. QED
      BY <2>3, <3>1 DEF Learning!Build
  <2>4. ASSUME NEW r \in Radius, NEW touches \in SUBSET Touch, NEW marked \in BOOLEAN,
               Learning!Edit(r, touches, marked)
        PROVE  CycleTyped'
    <3>1. learned' \in Draft
      BY <2>4, EditType
    <3>2. QED
      BY <2>4, <3>1 DEF Learning!Edit
  <2>5. CASE Learning!Discard
    BY <2>5 DEF Learning!Discard
  <2>6. ASSUME NEW k \in Key, Learning!Emit(k) PROVE CycleTyped'
    <3> HIDE DEF CycleTyped
    <3>0. Admits(k) \in Admission /\ admitted' \in {admitted, Append(admitted, Admits(k))}
      BY <2>6, EmitEffect
    <3>1. admitted' \in Seq(Admission)
      BY <3>0, AppendProperties DEF CycleTyped
    <3> USE DEF CycleTyped
    <3>2. IsFiniteSet(Learning!Recent(k)) /\ Learning!Stamp(k) \in TimeStamp
      BY StampsFinite, CardinalityIs DEF Learning!Stamp, TimeStamp
    <3> DEFINE new == Learning!Recent(k) \cup
                        (IF Learning!Allowed(k) THEN {Learning!Stamp(k)} ELSE {})
    <3>3. new \in SUBSET TimeStamp
      BY <3>2 DEF Learning!Recent
    <3>4. IsFiniteSet(new)
      <4>1. IsFiniteSet(Learning!Recent(k) \cup {Learning!Stamp(k)})
        BY <3>2, FS_AddElement
      <4>2. QED
        BY <3>2, <4>1
    <3>5. stamps' = [stamps EXCEPT ![k] = new]
      BY <2>6, EmitEffect
    <3> HIDE DEF new
    <3>6. stamps' \in [Key -> SUBSET TimeStamp] /\ \A l \in Key : IsFiniteSet(stamps'[l])
      BY <3>3, <3>4, <3>5
    <3>7. UNCHANGED <<observations, now, learned, drafts, evaluating, current, replaced,
                      change, raced>>
      BY <2>6, EmitEffect
    <3>8. QED
      BY <3>1, <3>6, <3>7
  <2>7. ASSUME NEW e \in Evaluator, NEW i \in 1..Len(admitted), Learning!ReadPolicy(e, i)
        PROVE  CycleTyped'
    <3>1. admitted[i].proposal \in Draft
      <4>1. admitted[i] \in Admission
        BY <2>7, ElementOfSeq
      <4>2. QED
        BY <4>1 DEF Admission
    <3>2. evaluating' \in [Evaluator -> [proposal: Draft, before: Hash] \cup {Null}]
      BY <2>7, <3>1 DEF Learning!ReadPolicy
    <3>3. raced' \in BOOLEAN
      BY <2>7 DEF Learning!ReadPolicy
    <3>4. QED
      BY <2>7, <3>2, <3>3 DEF Learning!ReadPolicy
  <2>8. ASSUME NEW e \in Evaluator, Learning!Evaluate(e) PROVE CycleTyped'
    <3>1. evaluating[e] \in [proposal: Draft, before: Hash]
      BY <2>8 DEF Learning!Evaluate
    <3>1a. evaluating[e].proposal \in Draft
      BY <3>1
    <3>2. current' \in Hash /\ replaced' \in Seq(Hash)
      <4> PICK p \in Draft : p = evaluating[e].proposal
        BY <3>1a
      <4>1. p.to \in Hash /\ p.base \in Hash
        BY DEF Draft
      <4>2. \/ current' = current /\ replaced' = replaced
            \/ /\ current' = evaluating[e].proposal.to
               /\ replaced' = Append(replaced, evaluating[e].proposal.base)
        BY <2>8 DEF Learning!Evaluate
      <4>3. CASE current' = current /\ replaced' = replaced
        BY <4>3
      <4>4. CASE current' = p.to /\ replaced' = Append(replaced, p.base)
        BY <4>1, <4>4, AppendProperties
      <4>5. QED
        BY <4>2, <4>3, <4>4
    <3>3. evaluating' \in [Evaluator -> [proposal: Draft, before: Hash] \cup {Null}]
      BY <2>8 DEF Learning!Evaluate
    <3>4. QED
      BY <2>8, <3>2, <3>3 DEF Learning!Evaluate
  <2>9. CASE UNCHANGED Learning!cycle
    BY <2>9 DEF Learning!cycle
  <2>10. QED
    BY <2>1, <2>2, <2>3, <2>4, <2>5, <2>6, <2>7, <2>8, <2>9 DEF Learning!Next
<1>3. QED
  BY <1>1, <1>2, PTL DEF Learning!Cycle

-----------------------------------------------------------------------------
(* Evaluated one at a time.                                                *)

(* The evaluator at work has read the policy of the moment, and what was   *)
(* replaced is not replaced again.                                         *)
OneAtATime ==
    ~raced =>
        /\ \A e, f \in Evaluator : evaluating[e] # Null /\ evaluating[f] # Null => e = f
        /\ \A e \in Evaluator : evaluating[e] # Null => evaluating[e].before = current
        /\ change # Null => change.before = change.proposal.base
        /\ \A i, j \in 1..Len(replaced) : replaced[i] = replaced[j] => i = j

(* Evaluators that take turns change only the policy that a proposal was   *)
(* made for, and none twice, though proposals stay in the queue and the    *)
(* policy may return to what it was.                                       *)
THEOREM ChangesKeepBaseline == Reviews => []SerialChangesKeepBaseline
<1>1. Learning!Init => OneAtATime
  BY DEF Learning!Init, OneAtATime
<1>2. CycleTyped /\ OneAtATime /\ [Learning!Next]_Learning!cycle => OneAtATime'
  <2> SUFFICES ASSUME CycleTyped, OneAtATime, [Learning!Next]_Learning!cycle, ~raced'
               PROVE  OneAtATime'
    BY DEF OneAtATime
  <2>1. CASE UNCHANGED <<evaluating, current, replaced, change, raced>>
    BY <2>1 DEF OneAtATime
  <2>2. ASSUME NEW e \in Evaluator, NEW i \in 1..Len(admitted), Learning!ReadPolicy(e, i)
        PROVE  OneAtATime'
    <3>1. \A f \in Evaluator : evaluating[f] = Null
      BY <2>2 DEF Learning!ReadPolicy
    <3>2. \A f \in Evaluator : f # e => evaluating'[f] = Null
      BY <2>2, <3>1 DEF Learning!ReadPolicy, CycleTyped, EvaluatorTypes
    <3>3. evaluating'[e].before = current /\ UNCHANGED <<current, replaced, change>> /\ ~raced
      BY <2>2 DEF Learning!ReadPolicy, CycleTyped, EvaluatorTypes
    <3>4. QED
      BY <3>2, <3>3 DEF OneAtATime
  <2>3. ASSUME NEW e \in Evaluator, Learning!Evaluate(e) PROVE OneAtATime'
    <3>1. ~raced /\ evaluating[e] # Null /\ evaluating' = [evaluating EXCEPT ![e] = Null]
      BY <2>3 DEF Learning!Evaluate
    <3>2. \A f \in Evaluator : evaluating'[f] = Null
      BY <3>1 DEF OneAtATime, CycleTyped, EvaluatorTypes
    <3>3. CASE UNCHANGED <<current, replaced, change>>
      BY <3>1, <3>2, <3>3 DEF OneAtATime
    <3>4. CASE ~UNCHANGED <<current, replaced, change>>
      <4> DEFINE p == evaluating[e].proposal
      <4>1. /\ ~Learning!Refuses(e) /\ replaced' = Append(replaced, p.base)
            /\ change' = [before |-> current, proposal |-> p]
        BY <2>3, <3>4 DEF Learning!Evaluate
      <4>2. p.base = evaluating[e].before /\ evaluating[e].before = current
        BY <3>1, <4>1 DEF Learning!Refuses, Learning!Mismatch, OneAtATime
      <4>3. change'.before = change'.proposal.base
        BY <4>1, <4>2
      <4>4. p.base \in Hash
        BY <3>1 DEF CycleTyped, EvaluatorTypes, Draft
      <4>5. \A j \in 1..Len(replaced) : replaced[j] # p.base
        BY <4>1 DEF Learning!Refuses, Learning!Duplicate, Learning!Applied
      <4>6. \A i, j \in 1..Len(replaced') : replaced'[i] = replaced'[j] => i = j
        <5> PICK b \in Hash : b = p.base
          BY <4>4
        <5>1. \A j \in 1..Len(replaced) : replaced[j] # b
          BY <4>5
        <5>2. replaced \in Seq(Hash) /\ replaced' = Append(replaced, b)
          BY <4>1 DEF CycleTyped, EvaluatorTypes
        <5>3. \A i, j \in 1..Len(replaced) : replaced[i] = replaced[j] => i = j
          BY <3>1 DEF OneAtATime
        <5>4. QED
          BY <5>1, <5>2, <5>3
      <4>7. QED
        BY <3>2, <4>3, <4>6 DEF OneAtATime
    <3>5. QED
      BY <3>3, <3>4
  <2>4. QED
    BY <2>1, <2>2, <2>3 DEF Learning!Next, Learning!cycle, Learning!target, Learning!Observe,
       Learning!Tick, Learning!Build, Learning!Edit, Learning!Discard, Learning!Emit
<1>3. OneAtATime => SerialChangesKeepBaseline
  BY DEF OneAtATime, SerialChangesKeepBaseline, Learning!SerialChangesKeepBaseline
<1>4. QED
  BY <1>1, <1>2, <1>3, CycleTypesHold, ReviewsRunLearning, PTL DEF Learning!Cycle

-----------------------------------------------------------------------------
(* What is queued is harmless and earned.                                  *)

Occurrences(window, d) == {i \in 1..Len(window) : window[i] = d}

LEMMA OccurrencesFinite ==
    ASSUME NEW window \in Seq(Direction), NEW d
    PROVE  /\ IsFiniteSet(Occurrences(window, d))
           /\ Learning!Count(window, d) = Cardinality(Occurrences(window, d))
           /\ Learning!Count(window, d) \in Nat
<1>1. IsFiniteSet(1..Len(window))
  BY FS_Interval
<1>2. Occurrences(window, d) \in SUBSET (1..Len(window))
  BY DEF Occurrences
<1>3. IsFiniteSet(Occurrences(window, d))
  BY <1>1, <1>2, FS_Subset
<1>4. Learning!Count(window, d) = Cardinality(Occurrences(window, d))
  BY CardinalityIs DEF Learning!Count, Occurrences
<1>5. QED
  BY <1>3, <1>4, FS_CardinalityType

Earned(window) ==
    /\ Len(window) >= MinSamples
    /\ Epsilon * WindowEvents < 100 * Confirmations =>
         \A d \in Direction :
             d # window[Len(window)] =>
                 Learning!Count(window, d) < Learning!Count(window, window[Len(window)])

(* A stable window ends with Confirmations equal observations; fewer than  *)
(* that many dissent, so what they all are is the majority and outnumbers  *)
(* every other direction.                                                  *)
LEMMA StableIsEarned ==
    ASSUME NEW window \in Seq(Direction), Len(window) <= WindowEvents,
           Learning!SampleSufficient(window), Learning!Stable(window)
    PROVE  Earned(window)
<1> DEFINE n == Len(window)
           latest == window[n]
           major == CHOOSE d \in Direction : \A c \in Direction :
                        Learning!Count(window, c) <= Learning!Count(window, d)
           Dissent == {i \in 1..n : window[i] # major}
<1>1. n \in Nat /\ n >= Confirmations /\ n \in 1..n
  BY Constants DEF Learning!Stable
<1>2. \A i \in (n - Confirmations + 1)..n : window[i] = latest
  <2> DEFINE L == Learning!LastOnes(window)
  <2>0. \A i \in 1..Confirmations : L[i] = L[1]
    BY DEF Learning!Stable
  <2>1. \A i \in 1..Confirmations : L[i] = window[n - Confirmations + i]
    <3>1. \A i \in (n - Confirmations + 1)..n : window[i] \in Direction
      BY <1>1, Constants
    <3>2. QED
      BY <1>1, <3>1, Constants, SubSeqProperties DEF Learning!LastOnes
  <2>2. \A i \in 1..Confirmations :
            window[n - Confirmations + i] = window[n - Confirmations + 1]
    <3> HIDE DEF L, n
    <3>1. 1 \in 1..Confirmations
      BY Constants
    <3>2. QED
      BY <2>0, <2>1, <3>1
  <2>3. latest = window[n - Confirmations + 1]
    BY <1>1, <2>2, Constants
  <2>4. \A i \in (n - Confirmations + 1)..n :
            i - (n - Confirmations) \in 1..Confirmations
            /\ n - Confirmations + (i - (n - Confirmations)) = i
    BY <1>1, Constants
  <2>5. QED
    BY <2>2, <2>3, <2>4
<1>3. Confirmations <= Learning!Count(window, latest)
  <2>1. ((n - Confirmations + 1)..n) \in SUBSET Occurrences(window, latest)
    BY <1>1, <1>2, Constants DEF Occurrences
  <2>2. Cardinality((n - Confirmations + 1)..n) = Confirmations
    BY <1>1, Constants, FS_Interval
  <2>3. IsFiniteSet(Occurrences(window, latest))
        /\ Learning!Count(window, latest) = Cardinality(Occurrences(window, latest))
    BY OccurrencesFinite
  <2> DEFINE Ending == (n - Confirmations + 1)..n
  <2> HIDE DEF Ending, latest
  <2>4. Cardinality(Ending) <= Cardinality(Occurrences(window, latest))
    BY <2>1, <2>3, FS_Subset DEF Ending
  <2>5. QED
    BY <2>2, <2>3, <2>4 DEF Ending
<1>4. IsFiniteSet(Dissent) /\ Learning!Disagreement(window) = Cardinality(Dissent)
      /\ Cardinality(Dissent) \in Nat
  <2>1. Dissent \in SUBSET (1..n) /\ IsFiniteSet(1..n)
    BY <1>1, FS_Interval
  <2>2. IsFiniteSet(Dissent)
    BY <2>1, FS_Subset
  <2>3. Learning!Disagreement(window) = Cardinality(Dissent)
    BY CardinalityIs DEF Learning!Disagreement
  <2>4. QED
    BY <2>2, <2>3, FS_CardinalityType
<1> HIDE DEF major
<1>5. ASSUME Epsilon * WindowEvents < 100 * Confirmations
      PROVE  Cardinality(Dissent) < Confirmations
  <2>1. 100 * Cardinality(Dissent) <= Epsilon * n
    BY <1>4 DEF Learning!Stable
  <2> HIDE DEF Dissent
  <2>2. Epsilon * n <= Epsilon * WindowEvents
    <3>1. \A a, b, c \in Nat : b <= c => a * b <= a * c
      OBVIOUS
    <3>2. QED
      BY <1>1, <3>1, Constants
  <2>3. PICK x \in Nat : x = Epsilon * n
    BY <1>1, Constants
  <2>4. PICK y \in Nat : y = Epsilon * WindowEvents
    BY Constants
  <2>5. QED
    BY <1>4, <1>5, <2>1, <2>2, <2>3, <2>4, Constants
<1>6. ASSUME Epsilon * WindowEvents < 100 * Confirmations, NEW d \in Direction, d # latest
      PROVE  Learning!Count(window, d) < Learning!Count(window, latest)
  <2>1. latest = major
    <3> SUFFICES ASSUME latest # major PROVE FALSE
      OBVIOUS
    <3>1. Occurrences(window, latest) \in SUBSET Dissent
      BY DEF Occurrences
    <3>2. Learning!Count(window, latest) <= Cardinality(Dissent)
      BY <1>4, <3>1, OccurrencesFinite, FS_Subset
    <3>3. QED
      BY <1>3, <1>4, <1>5, <1>6, <3>2, OccurrencesFinite, Constants
  <2>2. Occurrences(window, d) \in SUBSET Dissent
    BY <1>6, <2>1 DEF Occurrences
  <2>3. Learning!Count(window, d) <= Cardinality(Dissent)
    BY <1>4, <2>2, OccurrencesFinite, FS_Subset
  <2>4. Learning!Count(window, d) \in Nat /\ Learning!Count(window, latest) \in Nat
    BY OccurrencesFinite
  <2>5. QED
    BY <1>3, <1>4, <1>5, <1>6, <2>3, <2>4, Constants
<1>7. n >= MinSamples
  BY DEF Learning!SampleSufficient
<1>8. QED
  BY <1>6, <1>7 DEF Earned

Harmless(p) == p.radius \in {"local", "service"} /\ p.touches = {} /\ Earned(p.window)

(* The draft at hand is earned already: an edit leaves its window alone.   *)
HarmlessAndEarned ==
    /\ learned # Null => Earned(learned.window)
    /\ \A i \in 1..Len(admitted) : Harmless(admitted[i].proposal)

(* What needs no person has a small radius and touches nothing.            *)
LEMMA UngatedIsHarmless ==
    ASSUME NEW p \in Draft, Learning!HumanGate(p) = {}, Earned(p.window)
    PROVE  Harmless(p)
<1>1. p.radius \in Radius /\ p.touches = {} /\ p.radius \notin {"system", "external"}
  BY DEF Learning!HumanGate, Draft
<1>2. QED
  BY <1>1, Constants DEF Harmless

(* What is in the approval queue needs no person and has its evidence,     *)
(* whatever was done to the proposal between its building and its emission. *)
THEOREM QueuedIsEarned == Reviews => []QueuedIsHarmlessAndEarned
<1>1. Learning!Init => HarmlessAndEarned
  BY DEF Learning!Init, HarmlessAndEarned
<1>2. CycleTyped /\ HarmlessAndEarned /\ [Learning!Next]_Learning!cycle => HarmlessAndEarned'
  <2> SUFFICES ASSUME CycleTyped, HarmlessAndEarned, [Learning!Next]_Learning!cycle
               PROVE  HarmlessAndEarned'
    OBVIOUS
  <2>1. ASSUME NEW b \in Hash, NEW t \in Hash, NEW r \in Radius, NEW touches \in SUBSET Touch,
               Learning!Build(b, t, r, touches)
        PROVE  HarmlessAndEarned'
    <3> PICK window \in Seq(Direction) :
            window = Learning!SelectWindow /\ Len(window) <= WindowEvents
      BY WindowType DEF CycleTyped, LearnerTypes
    <3>1. Learning!SampleSufficient(window) /\ Learning!Stable(window)
      BY <2>1 DEF Learning!Build
    <3>2. Earned(window)
      BY <3>1, StableIsEarned
    <3>3. learned'.window = window
      BY <2>1, DraftType
    <3>4. admitted' = admitted
      BY <2>1 DEF Learning!Build, Learning!emitter
    <3>5. QED
      BY <3>2, <3>3, <3>4 DEF HarmlessAndEarned
  <2>2. ASSUME NEW r \in Radius, NEW touches \in SUBSET Touch, NEW marked \in BOOLEAN,
               Learning!Edit(r, touches, marked)
        PROVE  HarmlessAndEarned'
    <3>1. learned # Null /\ learned'.window = learned.window /\ admitted' = admitted
      BY <2>2, EditType DEF Learning!Edit, Learning!emitter
    <3>2. QED
      BY <3>1 DEF HarmlessAndEarned
  <2>3. ASSUME NEW k \in Key, Learning!Emit(k) PROVE HarmlessAndEarned'
    <3>1. /\ learned \in Draft /\ Learning!HumanGate(learned) = {} /\ learned # Null
          /\ learned' = learned
      BY <2>3, EmitEffect DEF Learning!Emit
    <3>2. Harmless(learned)
      BY <3>1, UngatedIsHarmless DEF HarmlessAndEarned
    <3>3. Admits(k) \in Admission /\ admitted' \in {admitted, Append(admitted, Admits(k))}
      BY <2>3, EmitEffect
    <3>4. CASE admitted' = admitted
      BY <3>1, <3>4 DEF HarmlessAndEarned
    <3>5. CASE admitted' = Append(admitted, Admits(k))
      <4> PICK a \in Admission : a = Admits(k)
        BY <3>3
      <4>1. a.proposal = learned
        BY DEF Admits
      <4>2. admitted \in Seq(Admission)
        BY DEF CycleTyped, EmitterTypes
      <4>3. /\ Len(admitted') = Len(admitted) + 1
            /\ \A i \in 1..Len(admitted) : admitted'[i] = admitted[i]
            /\ admitted'[Len(admitted) + 1] = a
        BY <3>5, <4>2, AppendProperties
      <4>4. \A i \in 1..Len(admitted') : Harmless(admitted'[i].proposal)
        BY <3>2, <4>1, <4>2, <4>3 DEF HarmlessAndEarned
      <4>5. QED
        BY <3>1, <4>4 DEF HarmlessAndEarned, Harmless
    <3>6. QED
      BY <3>3, <3>4, <3>5
  <2>4. CASE Learning!Discard
    BY <2>4 DEF Learning!Discard, Learning!emitter, HarmlessAndEarned
  <2>5. CASE UNCHANGED <<learned, admitted>>
    BY <2>5 DEF HarmlessAndEarned
  <2>6. QED
    BY <2>1, <2>2, <2>3, <2>4, <2>5 DEF Learning!Next, Learning!cycle, Learning!learner,
       Learning!emitter, Learning!Observe, Learning!Tick, Learning!ReadPolicy, Learning!Evaluate
<1>3. HarmlessAndEarned => QueuedIsHarmlessAndEarned
  BY DEF HarmlessAndEarned, Harmless, Earned, QueuedIsHarmlessAndEarned,
     Learning!QueuedIsHarmlessAndEarned
<1>4. QED
  BY <1>1, <1>2, <1>3, CycleTypesHold, ReviewsRunLearning, PTL DEF Learning!Cycle

-----------------------------------------------------------------------------
(* The ration.                                                             *)

AdmittedSince(k, t) == {j \in 1..Len(admitted) : admitted[j].key = k /\ admitted[j].at >= t}
StampsSince(k, t) == {s \in stamps[k] : s.at >= t}
Burst(i) == {j \in i..Len(admitted) :
                admitted[j].key = admitted[i].key /\ admitted[j].at <= admitted[i].at + Period}

(* Times never lie ahead, the queue is in their order, and the stamps of   *)
(* an instant count what was there before them.                            *)
InOrder ==
    /\ \A k \in Key : \A s \in stamps[k] :
         s.at <= now /\ (s.at = now => s.before < Cardinality(Learning!Recent(k)))
    /\ \A i \in 1..Len(admitted) : admitted[i].at <= now
    /\ \A i, j \in 1..Len(admitted) : i <= j => admitted[i].at <= admitted[j].at

(* As long as stamps are remembered there is one for each admission.       *)
Stamped ==
    \A k \in Key, t \in Nat : t + Period >= now =>
        Cardinality(AdmittedSince(k, t)) <= Cardinality(StampsSince(k, t))

Rationed == \A i \in 1..Len(admitted) : Cardinality(Burst(i)) <= LimitX

LEMMA SinceFinite ==
    ASSUME CycleTyped, NEW k \in Key, NEW t
    PROVE  /\ IsFiniteSet(AdmittedSince(k, t)) /\ Cardinality(AdmittedSince(k, t)) \in Nat
           /\ IsFiniteSet(StampsSince(k, t)) /\ Cardinality(StampsSince(k, t)) \in Nat
           /\ Cardinality(StampsSince(k, t)) <= Cardinality(stamps[k])
           /\ IsFiniteSet(stamps[k]) /\ Cardinality(stamps[k]) \in Nat
<1>1. IsFiniteSet(1..Len(admitted)) /\ IsFiniteSet(stamps[k])
  BY FS_Interval DEF CycleTyped, EmitterTypes
<1>2. AdmittedSince(k, t) \in SUBSET (1..Len(admitted)) /\ StampsSince(k, t) \in SUBSET stamps[k]
  BY DEF AdmittedSince, StampsSince
<1>3. QED
  BY <1>1, <1>2, FS_Subset, FS_CardinalityType

(* The effect of an emission on the stamps and, when it is let in, on the  *)
(* queue, seen from the times that are still remembered.                   *)
LEMMA EmitStamps ==
    ASSUME CycleTyped, InOrder, NEW k \in Key, Learning!Emit(k)
    PROVE  /\ Learning!Recent(k) \subseteq stamps'[k]
           /\ Learning!Stamp(k) \notin Learning!Recent(k)
           /\ IF Learning!Allowed(k)
              THEN /\ stamps'[k] = Learning!Recent(k) \cup {Learning!Stamp(k)}
                   /\ Cardinality(stamps'[k]) = Cardinality(Learning!Recent(k)) + 1
                   /\ Cardinality(stamps'[k]) <= LimitX
              ELSE stamps'[k] = Learning!Recent(k)
           /\ \A l \in Key : l # k => stamps'[l] = stamps[l]
<1>1. stamps' = [stamps EXCEPT ![k] = Learning!Recent(k) \cup
                    (IF Learning!Allowed(k) THEN {Learning!Stamp(k)} ELSE {})]
  BY EmitEffect
<1>2. stamps'[k] = Learning!Recent(k) \cup
                    (IF Learning!Allowed(k) THEN {Learning!Stamp(k)} ELSE {})
  BY <1>1 DEF CycleTyped, EmitterTypes
<1>3. \A l \in Key : l # k => stamps'[l] = stamps[l]
  BY <1>1 DEF CycleTyped, EmitterTypes
<1>4. IsFiniteSet(Learning!Recent(k)) /\ Cardinality(Learning!Recent(k)) \in Nat
  BY StampsFinite DEF CycleTyped, EmitterTypes
<1>5. Learning!Stamp(k) \notin Learning!Recent(k)
  <2>1. \A s \in Learning!Recent(k) : s.at = now => s.before < Cardinality(Learning!Recent(k))
    BY DEF InOrder, Learning!Recent
  <2>2. Learning!Stamp(k).at = now /\ Learning!Stamp(k).before = Cardinality(Learning!Recent(k))
    BY CardinalityIs DEF Learning!Stamp
  <2>3. QED
    BY <1>4, <2>1, <2>2
<1>6. Cardinality(Learning!Recent(k) \cup {Learning!Stamp(k)}) = Cardinality(Learning!Recent(k)) + 1
  BY <1>4, <1>5, FS_AddElement
<1>7. Learning!Allowed(k) => Cardinality(Learning!Recent(k)) < LimitX
  BY CardinalityIs DEF Learning!Allowed
<1>8. CASE Learning!Allowed(k)
  <2>1. stamps'[k] = Learning!Recent(k) \cup {Learning!Stamp(k)}
    BY <1>2, <1>8
  <2>2. Cardinality(stamps'[k]) = Cardinality(Learning!Recent(k)) + 1
    BY <1>6, <2>1
  <2>3. Cardinality(stamps'[k]) <= LimitX
    BY <1>4, <1>7, <1>8, <2>2, Constants
  <2>4. QED
    BY <1>3, <1>5, <1>8, <2>1, <2>2, <2>3
<1>9. CASE ~Learning!Allowed(k)
  <2>1. stamps'[k] = Learning!Recent(k)
    BY <1>2, <1>9
  <2>2. QED
    BY <1>3, <1>5, <1>9, <2>1
<1>10. QED
  BY <1>8, <1>9

LEMMA EmitQueue ==
    ASSUME CycleTyped, NEW k \in Key, Learning!Emit(k), admitted' # admitted
    PROVE  /\ Learning!Allowed(k)
           /\ Len(admitted') = Len(admitted) + 1 /\ Len(admitted) \in Nat
           /\ \A i \in 1..Len(admitted) : admitted'[i] = admitted[i]
           /\ admitted'[Len(admitted) + 1].key = k
           /\ admitted'[Len(admitted) + 1].at = now
<1>1. PICK a \in Admission : a = Admits(k)
  BY EmitEffect
<1>2. Learning!Allowed(k) /\ admitted' = Append(admitted, a)
  BY <1>1, EmitEffect
<1>3. a.key = k /\ a.at = now
  BY <1>1 DEF Admits
<1>4. admitted \in Seq(Admission)
  BY DEF CycleTyped, EmitterTypes
<1>5. QED
  BY <1>2, <1>3, <1>4, AppendProperties

LEMMA OrderKept ==
    ASSUME CycleTyped, CycleTyped', InOrder, [Learning!Next]_Learning!cycle
    PROVE  InOrder'
<1>1. ASSUME NEW k \in Key, Learning!Emit(k) PROVE InOrder'
  <2>1. now' = now
    BY <1>1, EmitEffect
  <2>2. ASSUME NEW l \in Key, NEW s \in stamps'[l]
        PROVE  s.at <= now /\ (s.at = now => s.before < Cardinality(Learning!Recent(l)'))
    <3>1. CASE l # k
      <4>1. Learning!Recent(l)' = Learning!Recent(l) /\ s \in stamps[l]
        BY <1>1, <2>1, <2>2, <3>1, EmitStamps DEF Learning!Recent
      <4>2. QED
        BY <4>1 DEF InOrder
    <3>2. CASE l = k /\ Learning!Allowed(k)
      <4>1. /\ stamps'[k] = Learning!Recent(k) \cup {Learning!Stamp(k)}
            /\ Cardinality(stamps'[k]) = Cardinality(Learning!Recent(k)) + 1
        BY <1>1, <3>2, EmitStamps
      <4>2. Learning!Stamp(k).at = now
            /\ Learning!Stamp(k).before = Cardinality(Learning!Recent(k))
        BY CardinalityIs DEF Learning!Stamp
      <4>3. \A x \in stamps'[k] : x.at + Period >= now
        BY <4>1, <4>2, Constants DEF Learning!Recent, CycleTyped, LearnerTypes
      <4>4. Learning!Recent(k)' = stamps'[k]
        BY <2>1, <4>3 DEF Learning!Recent
      <4>5. Cardinality(Learning!Recent(k)) \in Nat
        BY StampsFinite DEF CycleTyped, EmitterTypes
      <4>6. CASE s = Learning!Stamp(k)
        BY <3>2, <4>1, <4>2, <4>4, <4>5, <4>6 DEF CycleTyped, LearnerTypes
      <4>7. CASE s \in Learning!Recent(k)
        <5>1. s \in stamps[k]
          BY <4>7 DEF Learning!Recent
        <5>2. s.at <= now /\ (s.at = now => s.before < Cardinality(Learning!Recent(k)))
          BY <5>1 DEF InOrder
        <5>3. s.before \in Nat
          BY <5>1 DEF CycleTyped, EmitterTypes, TimeStamp
        <5>4. QED
          BY <3>2, <4>1, <4>4, <4>5, <5>2, <5>3
      <4>8. QED
        BY <2>2, <3>2, <4>1, <4>6, <4>7
    <3>3. CASE l = k /\ ~Learning!Allowed(k)
      <4>1. stamps'[k] = Learning!Recent(k)
        BY <1>1, <3>3, EmitStamps
      <4>2. Learning!Recent(k)' = Learning!Recent(k) /\ s \in stamps[k]
        BY <2>1, <2>2, <3>3, <4>1 DEF Learning!Recent
      <4>3. QED
        BY <3>3, <4>2 DEF InOrder
    <3>4. QED
      BY <3>1, <3>2, <3>3
  <2>3. CASE admitted' = admitted
    BY <2>1, <2>2, <2>3 DEF InOrder
  <2>4. CASE admitted' # admitted
    <3>1. /\ Len(admitted') = Len(admitted) + 1 /\ Len(admitted) \in Nat
          /\ \A i \in 1..Len(admitted) : admitted'[i] = admitted[i]
          /\ admitted'[Len(admitted) + 1].at = now
      BY <1>1, <2>4, EmitQueue
    <3>2. \A i \in 1..Len(admitted') : i \in 1..Len(admitted) \/ i = Len(admitted) + 1
      BY <3>1
    <3>3. \A i \in 1..Len(admitted) : admitted[i].at <= now
      BY DEF InOrder
    <3>4. now <= now
      BY DEF CycleTyped, LearnerTypes
    <3>5. \A i \in 1..Len(admitted') : admitted'[i].at <= now
      BY <3>1, <3>2, <3>3, <3>4
    <3>6. ASSUME NEW i \in 1..Len(admitted'), NEW j \in 1..Len(admitted'), i <= j
          PROVE  admitted'[i].at <= admitted'[j].at
      <4>1. CASE j = Len(admitted) + 1
        BY <3>1, <3>5, <3>6, <4>1
      <4>2. CASE j \in 1..Len(admitted)
        <5>1. i \in 1..Len(admitted)
          BY <3>1, <3>6, <4>2
        <5>2. QED
          BY <3>1, <3>6, <4>2, <5>1 DEF InOrder
      <4>3. QED
        BY <3>2, <4>1, <4>2
    <3>7. QED
      BY <2>1, <2>2, <3>5, <3>6 DEF InOrder
  <2>5. QED
    BY <2>3, <2>4
<1>2. CASE Learning!Tick
  <2>1. now' = now + 1 /\ UNCHANGED <<stamps, admitted>>
    BY <1>2 DEF Learning!Tick, Learning!emitter
  <2>2. now \in Nat
    BY DEF CycleTyped, LearnerTypes
  <2>3. \A k \in Key : \A s \in stamps[k] : s.at \in Nat /\ s.at <= now
    BY DEF InOrder, CycleTyped, EmitterTypes, TimeStamp
  <2>4. \A i \in 1..Len(admitted) : admitted[i].at \in Nat /\ admitted[i].at <= now
    <3>1. \A i \in 1..Len(admitted) : admitted[i] \in Admission
      BY ElementOfSeq DEF CycleTyped, EmitterTypes
    <3>2. QED
      BY <3>1 DEF InOrder, Admission
  <2>5. QED
    BY <2>1, <2>2, <2>3, <2>4 DEF InOrder
<1>3. CASE UNCHANGED <<now, stamps, admitted>>
  BY <1>3 DEF InOrder, Learning!Recent
<1>4. QED
  BY <1>1, <1>2, <1>3 DEF Learning!Next, Learning!cycle, Learning!learner, Learning!emitter,
     Learning!target, Learning!Observe, Learning!Build, Learning!Edit, Learning!Discard,
     Learning!ReadPolicy, Learning!Evaluate

LEMMA StampsKeepUp ==
    ASSUME CycleTyped, CycleTyped', InOrder, Stamped, [Learning!Next]_Learning!cycle
    PROVE  Stamped'
<1>1. ASSUME NEW k \in Key, Learning!Emit(k) PROVE Stamped'
  <2>1. now' = now /\ now \in Nat
    BY <1>1, EmitEffect DEF CycleTyped, LearnerTypes
  <2> SUFFICES ASSUME NEW l \in Key, NEW t \in Nat, t + Period >= now
               PROVE  Cardinality(AdmittedSince(l, t)') <= Cardinality(StampsSince(l, t)')
    BY <2>1 DEF Stamped
  <2>2. Cardinality(AdmittedSince(l, t)) <= Cardinality(StampsSince(l, t))
    BY DEF Stamped
  <2>3. /\ Cardinality(StampsSince(l, t)) \in Nat /\ Cardinality(AdmittedSince(l, t)) \in Nat
        /\ IsFiniteSet(StampsSince(l, t)') /\ Cardinality(StampsSince(l, t)') \in Nat
        /\ IsFiniteSet(AdmittedSince(l, t)) /\ IsFiniteSet(StampsSince(l, t))
    <3>1. IsFiniteSet(StampsSince(l, t)') /\ Cardinality(StampsSince(l, t)') \in Nat
      <4>1. IsFiniteSet(stamps'[l]) /\ StampsSince(l, t)' \in SUBSET stamps'[l]
        BY DEF CycleTyped, EmitterTypes, StampsSince
      <4>2. QED
        BY <4>1, FS_Subset, FS_CardinalityType
    <3>2. QED
      BY <3>1, SinceFinite
  <2>4. StampsSince(l, t) \in SUBSET (StampsSince(l, t)')
    <3>1. CASE l # k
      BY <1>1, <3>1, EmitStamps DEF StampsSince
    <3>2. CASE l = k
      <4>1. \A s \in StampsSince(k, t) : s \in Learning!Recent(k)
        <5>1. \A s \in stamps[k] : s.at \in Nat
          BY DEF CycleTyped, EmitterTypes, TimeStamp
        <5>2. QED
          BY <2>1, <5>1, Constants DEF StampsSince, Learning!Recent
      <4>2. Learning!Recent(k) \subseteq stamps'[k]
        BY <1>1, EmitStamps
      <4>3. QED
        BY <3>2, <4>1, <4>2 DEF StampsSince
    <3>3. QED
      BY <3>1, <3>2
  <2>5. Cardinality(StampsSince(l, t)) <= Cardinality(StampsSince(l, t)')
    BY <2>3, <2>4, FS_Subset
  <2>6. CASE AdmittedSince(l, t)' = AdmittedSince(l, t)
    BY <2>2, <2>3, <2>5, <2>6
  <2>7. CASE AdmittedSince(l, t)' # AdmittedSince(l, t)
    <3> DEFINE new == Len(admitted) + 1
    <3>1. admitted' # admitted
      BY <2>7 DEF AdmittedSince
    <3>2. /\ Learning!Allowed(k) /\ Len(admitted') = new /\ Len(admitted) \in Nat
          /\ \A i \in 1..Len(admitted) : admitted'[i] = admitted[i]
          /\ admitted'[new].key = k /\ admitted'[new].at = now
      BY <1>1, <3>1, EmitQueue
    <3>3. AdmittedSince(l, t)' = AdmittedSince(l, t) \cup
              {j \in {new} : admitted'[j].key = l /\ admitted'[j].at >= t}
      BY <3>2 DEF AdmittedSince
    <3>4. l = k /\ now >= t /\ AdmittedSince(l, t)' = AdmittedSince(l, t) \cup {new}
      BY <2>7, <3>2, <3>3
    <3>5. new \notin AdmittedSince(l, t)
      BY <3>2 DEF AdmittedSince
    <3>6. Cardinality(AdmittedSince(l, t)') = Cardinality(AdmittedSince(l, t)) + 1
      BY <2>3, <3>4, <3>5, FS_AddElement
    <3>7. Learning!Stamp(k).at = now
      BY DEF Learning!Stamp
    <3>8. Learning!Stamp(k) \in StampsSince(l, t)'
      BY <1>1, <3>2, <3>4, <3>7, EmitStamps DEF StampsSince
    <3>9. Learning!Stamp(k) \notin StampsSince(l, t)
      <4>1. Learning!Stamp(k) \notin stamps[k]
        <5>1. Learning!Stamp(k) \notin Learning!Recent(k)
          BY <1>1, EmitStamps
        <5>2. now + Period >= now
          BY <2>1, Constants
        <5>3. QED
          BY <3>7, <5>1, <5>2 DEF Learning!Recent
      <4>2. QED
        BY <3>4, <4>1 DEF StampsSince
    <3>10. Cardinality(StampsSince(l, t)) + 1 <= Cardinality(StampsSince(l, t)')
      <4> DEFINE Both == StampsSince(l, t) \cup {Learning!Stamp(k)}
      <4>1. Cardinality(Both) = Cardinality(StampsSince(l, t)) + 1
        BY <2>3, <3>9, FS_AddElement
      <4>2. Both \in SUBSET (StampsSince(l, t)')
        BY <2>4, <3>8
      <4>3. Cardinality(Both) <= Cardinality(StampsSince(l, t)')
        BY <2>3, <4>2, FS_Subset
      <4>4. QED
        BY <4>1, <4>3
    <3>11. QED
      BY <2>2, <2>3, <3>6, <3>10
  <2>8. QED
    BY <2>6, <2>7
<1>2. CASE Learning!Tick
  <2>1. now' = now + 1 /\ now \in Nat /\ UNCHANGED <<stamps, admitted>>
    BY <1>2 DEF Learning!Tick, Learning!emitter, CycleTyped, LearnerTypes
  <2>2. \A t \in Nat : t + Period >= now + 1 => t + Period >= now
    BY <2>1, Constants
  <2>3. QED
    BY <2>1, <2>2 DEF Stamped, AdmittedSince, StampsSince
<1>3. CASE UNCHANGED <<now, stamps, admitted>>
  BY <1>3 DEF Stamped, AdmittedSince, StampsSince
<1>4. QED
  BY <1>1, <1>2, <1>3 DEF Learning!Next, Learning!cycle, Learning!learner, Learning!emitter,
     Learning!target, Learning!Observe, Learning!Build, Learning!Edit, Learning!Discard,
     Learning!ReadPolicy, Learning!Evaluate

(* An admission can only lengthen the bursts that it falls into, and they  *)
(* began less than a period ago.                                           *)
LEMMA BurstsKept ==
    ASSUME CycleTyped, CycleTyped', InOrder, InOrder', Stamped', Rationed,
           [Learning!Next]_Learning!cycle
    PROVE  Rationed'
<1>1. CASE admitted' = admitted
  BY <1>1 DEF Rationed, Burst
<1>2. CASE admitted' # admitted
  <2>1. PICK k \in Key : Learning!Emit(k)
    BY <1>2, OtherSteps
  <2> DEFINE new == Len(admitted) + 1
  <2>2. /\ Learning!Allowed(k) /\ Len(admitted') = new /\ Len(admitted) \in Nat
        /\ \A i \in 1..Len(admitted) : admitted'[i] = admitted[i]
        /\ admitted'[new].key = k /\ admitted'[new].at = now
    BY <1>2, <2>1, EmitQueue
  <2>3. now' = now /\ now \in Nat
    BY <2>1, EmitEffect DEF CycleTyped, LearnerTypes
  <2>4. \A j \in 1..Len(admitted') : admitted'[j].at \in Nat
    <3>1. \A j \in 1..Len(admitted') : admitted'[j] \in Admission
      BY ElementOfSeq DEF CycleTyped, EmitterTypes
    <3>2. QED
      BY <3>1 DEF Admission
  <2> SUFFICES ASSUME NEW i \in 1..Len(admitted')
               PROVE  Cardinality(Burst(i)') <= LimitX
    BY DEF Rationed
  <2>5. CASE new \in Burst(i)'
    <3>1. admitted'[i].key = k /\ admitted'[i].at + Period >= now
      BY <2>2, <2>5 DEF Burst
    <3> PICK t \in Nat : t = admitted'[i].at
      BY <2>4
    <3>2. Burst(i)' \in SUBSET (AdmittedSince(k, t)')
      <4> SUFFICES ASSUME NEW j \in Burst(i)'
                   PROVE  j \in AdmittedSince(k, t)'
        OBVIOUS
      <4>1. j \in 1..Len(admitted') /\ i <= j /\ admitted'[j].key = k
        BY <2>2, <3>1 DEF Burst
      <4>2. t <= admitted'[j].at
        BY <4>1 DEF InOrder
      <4>3. QED
        BY <2>4, <4>1, <4>2 DEF AdmittedSince
    <3>3. IsFiniteSet(AdmittedSince(k, t)') /\ Cardinality(AdmittedSince(k, t)') \in Nat
      <4>1. AdmittedSince(k, t)' \in SUBSET (1..Len(admitted')) /\ IsFiniteSet(1..Len(admitted'))
        BY <2>2, FS_Interval DEF AdmittedSince
      <4>2. QED
        BY <4>1, FS_Subset, FS_CardinalityType
    <3>4. Cardinality(AdmittedSince(k, t)') <= Cardinality(StampsSince(k, t)')
      BY <2>3, <3>1 DEF Stamped
    <3>5. IsFiniteSet(stamps'[k]) /\ StampsSince(k, t)' \in SUBSET stamps'[k]
      BY DEF CycleTyped, EmitterTypes, StampsSince
    <3>6. Cardinality(StampsSince(k, t)') <= Cardinality(stamps'[k])
      BY <3>5, FS_Subset
    <3>7. /\ Cardinality(StampsSince(k, t)') \in Nat /\ Cardinality(stamps'[k]) \in Nat
          /\ Cardinality(Burst(i)') \in Nat
      BY <3>2, <3>3, <3>5, FS_Subset, FS_CardinalityType
    <3>8. Cardinality(Burst(i)') <= Cardinality(AdmittedSince(k, t)')
      BY <3>2, <3>3, FS_Subset
    <3>9. QED
      BY <2>1, <2>2, <3>3, <3>4, <3>6, <3>7, <3>8, EmitStamps, Constants
  <2>6. CASE new \notin Burst(i)'
    <3>1. i # new
      BY <2>2, <2>3, <2>4, <2>6, Constants DEF Burst
    <3>2. i \in 1..Len(admitted)
      BY <2>2, <3>1
    <3>3. Burst(i)' = Burst(i)
      BY <2>2, <2>6, <3>2 DEF Burst
    <3>4. QED
      BY <3>2, <3>3 DEF Rationed
  <2>7. QED
    BY <2>5, <2>6
<1>3. QED
  BY <1>1, <1>2

(* No period sees more emissions of a key than its limit, wherever the     *)
(* period begins, and whatever was refused or lost between them.           *)
THEOREM RationKept == Reviews => []RationHolds
<1>1. Learning!Init => InOrder /\ Stamped /\ Rationed
  <2> SUFFICES ASSUME Learning!Init PROVE InOrder /\ Stamped /\ Rationed
    OBVIOUS
  <2>1. Len(admitted) = 0 /\ \A k \in Key : stamps[k] = {}
    BY DEF Learning!Init
  <2>2. \A k \in Key : \A t : AdmittedSince(k, t) = {} /\ StampsSince(k, t) = {}
    BY <2>1 DEF AdmittedSince, StampsSince
  <2>3. Cardinality({}) = 0
    BY FS_EmptySet
  <2>4. Stamped
    BY <2>2, <2>3 DEF Stamped
  <2>5. QED
    BY <2>1, <2>4 DEF InOrder, Rationed
<1>2. /\ CycleTyped /\ CycleTyped' /\ InOrder /\ Stamped /\ Rationed
      /\ [Learning!Next]_Learning!cycle
      => (InOrder /\ Stamped /\ Rationed)'
  BY OrderKept, StampsKeepUp, BurstsKept
<1>3. Rationed => RationHolds
  BY CardinalityIs DEF Rationed, Burst, RationHolds, Learning!RationHolds
<1>4. QED
  BY <1>1, <1>2, <1>3, CycleTypesHold, ReviewsRunLearning, PTL DEF Learning!Cycle
=============================================================================
