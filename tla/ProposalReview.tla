--------------------------- MODULE ProposalReview ---------------------------
(***************************************************************************)
(* Auto-proposed policy patches: the job that proposes one and queues it   *)
(* for review, the append-only approval queue, the two bridges that copy   *)
(* what is approved into the files that review_patch applies from, and the *)
(* application itself (jobs, infra/storage/approval_queue_repo, cli).      *)
(*                                                                         *)
(* A job or a bridge may be stopped at any point.  A bridge works from     *)
(* what it read at its start.  How apply reads and writes the policy       *)
(* store is in PolicyStore: here it is one step.  Every auto proposal is   *)
(* the same patch, one threshold set to one value, so a policy is whether  *)
(* it has that value, and the rest of it.                                  *)
(***************************************************************************)
EXTENDS Naturals, Sequences, FiniteSets

CONSTANTS
    Proposal,      \* the auto proposals, by id
    Rest,          \* what a policy may say besides
    Person,
    BridgeReviewer,\* the reviewer that bridge_queue_approvals_to_legacy names
    Runner,        \* bridges that run at once
    Limit,         \* --limit: the newest approved items that a bridge looks at
    MinApprovals,
    Strategy,      \* those that apply is called with
    MaxRuns,       \* bridge runs
    Null

ReviewAssumption ==
    /\ BridgeReviewer \in Person /\ Limit \in Nat \ {0}
    /\ MinApprovals \in Nat /\ MaxRuns \in Nat
    /\ Strategy \subseteq {"reject", "force", "rebase"}

Status == {"PENDING", "APPROVED", "REJECTED"}
Policy == [tuned: BOOLEAN, rest: Rest]
VARIABLES
    stage,      \* what the job that proposes each proposal has still to write
    artifacts, receipts,  \* the proposals that have one; receipts that say QUEUED
    queue,      \* the proposals enqueued, oldest first
    status,     \* each one's merged view: that of its latest update
    torn,       \* approval_queue.jsonl ends in part of a line
    proposals,  \* proposals.jsonl: each line's id and the policy whose hash it has
    approvers,  \* by proposal, who has a PENDING line in approvals.jsonl
    bridged,    \* by proposal, how many of those a bridge has written
    policy,     \* the latest version
    applied,    \* the latest application: what its receipt says
    bridge,     \* what each runner has left to look at, and what it read at its start
    runs,
    barred,     \* history: rejected before any copy of it was made or begun
    overlapped  \* history: two bridges ran at once, or one while the converter did

producer == <<stage, artifacts, receipts>>
review   == <<queue, status, torn>>
legacy   == <<proposals, approvers, bridged>>
store    == <<policy, applied>>
bridges  == <<bridge, runs, overlapped>>
vars     == <<producer, review, legacy, store, bridges, barred>>

Init ==
    /\ stage = [p \in Proposal |-> "artifact"] /\ artifacts = {} /\ receipts = {}
    /\ queue = <<>> /\ status = [p \in Proposal |-> "PENDING"] /\ torn = FALSE
    /\ proposals = <<>> /\ approvers = [p \in Proposal |-> {}]
    /\ bridged = [p \in Proposal |-> 0]
    /\ policy \in {x \in Policy : ~x.tuned} /\ applied = Null
    /\ bridge = [b \in Runner |-> Null] /\ runs = 0 /\ overlapped = FALSE
    /\ barred = {}

-----------------------------------------------------------------------------
(* An operator that nothing uses, placed just before the one it is named   *)
(* after, is that operator's faulty form for the mutation checks.          *)

Queued(p) == \E i \in 1..Len(queue) : queue[i] = p
Listed(p) == \E i \in 1..Len(proposals) : proposals[i].id = p
\* A bridge that will still copy it.
InHand(p) == \E b \in Runner : bridge[b] # Null /\ p \in bridge[b].todo

(* run_policy_patch_proposals: three files, one after the other.           *)
WriteArtifact(p) ==
    /\ stage[p] = "artifact"
    /\ artifacts' = artifacts \cup {p}
    /\ stage' = [stage EXCEPT ![p] = "receipt"]
    /\ UNCHANGED <<receipts, review, legacy, store, bridges, barred>>
WriteReceipt(p) ==
    /\ stage[p] = "receipt"
    /\ receipts' = receipts \cup {p}
    /\ stage' = [stage EXCEPT ![p] = "enqueue"]
    /\ UNCHANGED <<artifacts, review, legacy, store, bridges, barred>>

(* A line that is appended to part of another is unreadable with it.       *)
Enqueue(p) ==
    /\ stage[p] = "enqueue"
    /\ queue' = IF torn THEN queue ELSE Append(queue, p)
    /\ torn' = FALSE
    /\ stage' = [stage EXCEPT ![p] = "done"]
    /\ UNCHANGED <<artifacts, receipts, status, legacy, store, bridges, barred>>

(* The job dies, in the last case with part of its line in the queue.      *)
ProposeStops(p) ==
    /\ stage[p] # "done"
    /\ torn' \in IF stage[p] = "enqueue" THEN {torn, TRUE} ELSE {torn}
    /\ stage' = [stage EXCEPT ![p] = "done"]
    /\ UNCHANGED <<artifacts, receipts, queue, status, legacy, store, bridges, barred>>

-----------------------------------------------------------------------------
(* mark_status appends an update, whatever the latest one says.            *)
MarkStatus(p, decision) ==
    /\ torn' = FALSE
    /\ status' = IF torn THEN status ELSE [status EXCEPT ![p] = decision]

(* cmd_queue_decide: any decision after any other.                         *)
Decide(p, decision) ==
    /\ Queued(p)
    /\ MarkStatus(p, decision)
    /\ barred' = IF torn THEN barred
                 ELSE IF decision = "APPROVED" THEN barred \ {p}
                 ELSE IF Listed(p) \/ InHand(p) THEN barred
                 ELSE barred \cup {p}
    /\ UNCHANGED <<producer, queue, legacy, store, bridges>>

-----------------------------------------------------------------------------
(* Both bridges merge the queue, keep the approved items, and of these the *)
(* newest Limit.                                                           *)
Merged == [p \in {q \in Proposal : Queued(q)} |-> status[p]]
Newer(q, p) ==
    \E i, j \in 1..Len(queue) : i < j /\ queue[i] = p /\ queue[j] = q
Newest(items) == {p \in items : Cardinality({q \in items : Newer(q, p)}) < Limit}
SelectedAny == Newest(DOMAIN Merged)
Selected == Newest({p \in DOMAIN Merged : Merged[p] = "APPROVED"})
Known(kind) ==
    {p \in Proposal : IF kind = "proposals" THEN Listed(p) ELSE bridged[p] > 0}

Start(b, kind) ==
    /\ bridge[b] = Null /\ runs < MaxRuns
    /\ bridge' = [bridge EXCEPT ![b] =
                    [kind |-> kind, todo |-> Selected, base |-> policy, known |-> Known(kind)]]
    /\ runs' = runs + 1
    /\ overlapped' = (overlapped \/ \E c \in Runner : bridge[c] # Null)
    /\ UNCHANGED <<producer, review, legacy, store, barred>>

(* Newest first.                                                           *)
AtItem(b, kind, p) ==
    /\ bridge[b] # Null /\ bridge[b].kind = kind
    /\ p \in bridge[b].todo /\ \A q \in bridge[b].todo : ~Newer(q, p)
Advance(b, p, known) ==
    LET task == [bridge[b] EXCEPT !.todo = @ \ {p}, !.known = known]
    IN  bridge' = [bridge EXCEPT ![b] = task]

(* The proposals bridge passes over a patch that would change nothing in   *)
(* the policy it read, then one whose id it has; the rest it appends, with *)
(* that policy's hash.                                                     *)
PatchedBy(pol) == [pol EXCEPT !.tuned = TRUE]
Converted(b, p) == [id |-> p, base |-> bridge[b].base]
Skipped(b, p) == PatchedBy(bridge[b].base) = bridge[b].base \/ p \in bridge[b].known

BridgeProposalAnew(b, p) ==
    /\ AtItem(b, "proposals", p)
    /\ proposals' = IF PatchedBy(bridge[b].base) = bridge[b].base THEN proposals
                    ELSE Append(proposals, Converted(b, p))
    /\ Advance(b, p, bridge[b].known)
    /\ UNCHANGED <<producer, review, approvers, bridged, store, runs, overlapped, barred>>
BridgeProposal(b, p) ==
    /\ AtItem(b, "proposals", p)
    /\ IF Skipped(b, p)
         THEN proposals' = proposals /\ Advance(b, p, bridge[b].known)
         ELSE /\ proposals' = Append(proposals, Converted(b, p))
              /\ Advance(b, p, bridge[b].known \cup {p})
    /\ UNCHANGED <<producer, review, approvers, bridged, store, runs, overlapped, barred>>

(* The approvals bridge appends a PENDING line in its reviewer's name.  A  *)
(* CONSUMED line that --consume-on-write adds takes nothing from it.       *)
BridgeApproval(b, p) ==
    /\ AtItem(b, "approvals", p)
    /\ IF p \in bridge[b].known
         THEN UNCHANGED <<approvers, bridged>>
         ELSE /\ approvers' = [approvers EXCEPT ![p] = @ \cup {BridgeReviewer}]
              /\ bridged' = [bridged EXCEPT ![p] = @ + 1]
    /\ Advance(b, p, bridge[b].known \cup {p})
    /\ UNCHANGED <<producer, review, proposals, store, runs, overlapped, barred>>

(* A bridge ends, or is stopped.                                           *)
BridgeEnds(b) ==
    /\ bridge[b] # Null
    /\ bridge' = [bridge EXCEPT ![b] = Null]
    /\ UNCHANGED <<producer, review, legacy, store, runs, overlapped, barred>>

-----------------------------------------------------------------------------
(* convert_policy_patch_proposals deletes the file to write its own lines. *)
ConverterResets ==
    /\ proposals # <<>>
    /\ proposals' = <<>>
    /\ overlapped' = (overlapped \/ \E b \in Runner : bridge[b] # Null)
    /\ UNCHANGED <<producer, review, approvers, bridged, store, bridge, runs, barred>>

(* cmd_approve, for a proposal that find_proposal finds.                   *)
Approve(c, p) ==
    /\ Listed(p)
    /\ approvers' = [approvers EXCEPT ![p] = @ \cup {c}]
    /\ UNCHANGED <<producer, review, proposals, bridged, store, bridges, barred>>

(* cmd_apply: find_proposal returns the first line of the proposal.        *)
FirstLine(i, p) == proposals[i].id = p /\ \A j \in 1..(i - 1) : proposals[j].id # p
Apply(c, p, strategy) ==
    /\ MinApprovals < 2 \/ c \notin approvers[p]
    /\ Cardinality(approvers[p]) >= MinApprovals
    /\ \E i \in 1..Len(proposals) :
        FirstLine(i, p) /\ (strategy = "reject" => proposals[i].base = policy)
    /\ policy' = PatchedBy(policy)
    /\ applied' = [before |-> policy, after |-> PatchedBy(policy), strategy |-> strategy]
    /\ UNCHANGED <<producer, review, legacy, bridges, barred>>

(* Another proposal is applied.                                            *)
OtherApply ==
    /\ policy' \in Policy \ {policy}
    /\ UNCHANGED <<producer, review, legacy, applied, bridges, barred>>

-----------------------------------------------------------------------------
Next ==
    \/ \E p \in Proposal :
        \/ WriteArtifact(p) \/ WriteReceipt(p) \/ Enqueue(p) \/ ProposeStops(p)
        \/ \E d \in Status : Decide(p, d)
        \/ \E c \in Person : Approve(c, p) \/ \E s \in Strategy : Apply(c, p, s)
    \/ \E b \in Runner :
        \/ Start(b, "proposals") \/ Start(b, "approvals")
        \/ \E p \in Proposal : BridgeProposal(b, p) \/ BridgeApproval(b, p)
        \/ BridgeEnds(b)
    \/ ConverterResets \/ OtherApply

Spec == Init /\ [][Next]_vars

-----------------------------------------------------------------------------
(* Properties.                                                             *)

(* A proposal that review_patch can apply, in whatever order jobs stopped, *)
(* bridges ran and decisions changed, has its artifact and its receipt,    *)
(* and was not rejected before every copy of it was made or begun: such a  *)
(* rejection holds until the proposal is approved again.                   *)
ReviewedBeforeListed ==
    \A p \in Proposal : Listed(p) => p \in artifacts \cap receipts /\ p \notin barred

(* Bridges that run one at a time, and not under the converter, copy a     *)
(* proposal once into a file and an approval once, however often they run, *)
(* are stopped in the middle and run again.                                *)
SerialBridgesWriteOnce ==
    ~overlapped =>
        /\ \A i, j \in 1..Len(proposals) : proposals[i].id = proposals[j].id => i = j
        /\ \A p \in Proposal : bridged[p] <= 1

(* Under strategy "reject" an application always changes the policy, as a  *)
(* bridge leaves out what would not and the policy must be the one that it *)
(* judged by: not so if approvals, which are never used up, authorised the *)
(* same change of an unchanged policy twice.                               *)
RejectAlwaysChanges ==
    applied # Null => (applied.strategy = "reject" => applied.before # applied.after)
=============================================================================
