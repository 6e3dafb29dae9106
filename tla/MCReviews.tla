----------------------------- MODULE MCReviews -----------------------------
(***************************************************************************)
(* Small instances for TLC of the ways to a new policy: the store that     *)
(* approved patches are applied to, the review of the patches that are     *)
(* proposed automatically, and the governed learning cycle.  They share no *)
(* state here, so that a behaviour is one of them.                         *)
EXTENDS PolicyStore, TLC

CONSTANTS p1, childcare,
    AutoProposal, Rest, Reviewer, BridgeReviewer, Runner, Limit, Strategies, MaxRuns,
    Key, Hash, Direction, Radius, Touch, WindowEvents, MinSamples, Confirmations, Epsilon,
    Period, LimitX, Evaluator, MaxObservations, MaxTime, MaxDrafts

VARIABLES
    component,
    stage, artifacts, receiptsOf, queue, status, torn, listed, approvers, bridged,
    policy, last, bridge, runs, barred, bridgesOverlapped,
    observations, now, learned, drafts, stamps, admitted, evaluating, current, replaced,
    change, raced

Review == INSTANCE ProposalReview WITH
    Proposal <- AutoProposal, Person <- Reviewer, Strategy <- Strategies,
    receipts <- receiptsOf, proposals <- listed, applied <- last,
    overlapped <- bridgesOverlapped

Learning == INSTANCE LearningCycle WITH
    draft <- learned, queue <- admitted, policy <- current

ASSUME ReviewHasItsType == Review!ReviewAssumption
ASSUME LearningHasItsTypes == Learning!CycleTypes

reviewState ==
    <<stage, artifacts, receiptsOf, queue, status, torn, listed, approvers, bridged,
      policy, last, bridge, runs, barred, bridgesOverlapped>>

learningState ==
    <<observations, now, learned, drafts, stamps, admitted, evaluating, current, replaced,
      change, raced>>

ReviewsInit ==
    /\ component \in {"store", "review", "learning"}
    /\ Init /\ Review!Init /\ Learning!Init

ReviewsNext ==
    /\ UNCHANGED component
    /\ \/ component = "store" /\ Next /\ UNCHANGED <<reviewState, learningState>>
       \/ component = "review" /\ Review!Next /\ UNCHANGED <<vars, learningState>>
       \/ component = "learning" /\ Learning!Next /\ UNCHANGED <<vars, reviewState>>

Reviews == ReviewsInit /\ [][ReviewsNext]_<<component, vars, reviewState, learningState>>

-----------------------------------------------------------------------------
(* ProposalReview's: what can be applied was reviewed and is documented.   *)
ReviewedBeforeListed == component = "review" => Review!ReviewedBeforeListed
(* ProposalReview's: bridges that run one at a time copy once.             *)
SerialBridgesWriteOnce == component = "review" => Review!SerialBridgesWriteOnce
(* LearningCycle's: no period sees more emissions of a key than allowed.   *)
RationHolds == Learning!RationHolds
(* LearningCycle's: what is queued needs no person and has its evidence.   *)
QueuedIsHarmlessAndEarned == Learning!QueuedIsHarmlessAndEarned
(* LearningCycle's: a change replaces what it was made for, and once.      *)
SerialChangesKeepBaseline == Learning!SerialChangesKeepBaseline

-----------------------------------------------------------------------------
MCChannelOf == p1 :> childcare
MCDelta == p1 :> 1
Symmetry == Permutations(Person) \cup Permutations(AutoProposal) \cup Permutations(Runner)
=============================================================================
