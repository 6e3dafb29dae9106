---------------------------- MODULE LearningCycle ----------------------------
(***************************************************************************)
(* From observations to policy changes (core/learning_os, core/governance):*)
(* a learner looks at its latest observations, builds a proposal when they *)
(* suffice and agree, and hands it to the emitter, which lets it into the  *)
(* approval queue; an evaluator takes proposals from the queue and changes *)
(* the policy.                                                             *)
(*                                                                         *)
(* Queue, policy and patches are injected by the callers: a patch is the   *)
(* policy it leads to.  A proposal can be edited between building and      *)
(* emitting, and a write to the queue can fail.                            *)
(***************************************************************************)
EXTENDS Naturals, Sequences, FiniteSets

CONSTANTS
    Key,           \* what emissions are rationed by
    Hash,          \* policies, by their hash
    Direction,     \* of an observation: "up", "down" or "neutral"
    Radius,        \* the values of blast_radius
    Touch,         \* what a proposal's text may mention: "rollback", "risk", "governance"
    WindowEvents,  \* n_events_window
    MinSamples,    \* n_min
    Confirmations, \* k_confirmations
    Epsilon,       \* epsilon_max, in hundredths
    Period, LimitX,\* at most LimitX emissions of a key in Period
    Evaluator,
    MaxObservations, MaxTime, MaxDrafts,  \* bounds of the model
    Null

CycleTypes ==
    /\ Direction \subseteq {"up", "down", "neutral"}
    /\ Radius \subseteq {"local", "service", "system", "external"}
    /\ Touch \subseteq {"rollback", "risk", "governance"}
    /\ {WindowEvents, Confirmations} \subseteq Nat \ {0}
    /\ {MinSamples, Epsilon, Period, LimitX, MaxObservations, MaxTime, MaxDrafts} \subseteq Nat

VARIABLES
    observations, now,
    draft,    \* the learner's proposal, not emitted yet
    drafts,   \* how many were built
    stamps,   \* by key, the limiter's times, each with how many there were before it
    queue,    \* what was written to the approval queue: the proposal, its key and its time
    evaluating,\* by evaluator, its proposal and the policy it read
    policy,
    replaced, \* the policies that a proposal was applied to, in order
    change,   \* the latest application
    raced     \* history: two evaluators were at work at once

learner == <<observations, draft, drafts>>
emitter == <<stamps, queue>>
target  == <<evaluating, policy, replaced, change, raced>>
cycle   == <<learner, now, emitter, target>>

Init ==
    /\ observations = <<>> /\ now = 0 /\ draft = Null /\ drafts = 0
    /\ stamps = [k \in Key |-> {}] /\ queue = <<>>
    /\ evaluating = [e \in Evaluator |-> Null]
    /\ policy \in Hash /\ replaced = <<>> /\ change = Null /\ raced = FALSE

-----------------------------------------------------------------------------
(* An operator that nothing uses, placed just before the one it is named   *)
(* after, is that operator's faulty form for the mutation checks.          *)

Observe(d) ==
    /\ Len(observations) < MaxObservations
    /\ observations' = Append(observations, d)
    /\ UNCHANGED <<now, draft, drafts, emitter, target>>

Tick ==
    /\ now < MaxTime
    /\ now' = now + 1
    /\ UNCHANGED <<learner, emitter, target>>

-----------------------------------------------------------------------------
(* The learner.                                                            *)

SelectWindow ==
    IF Len(observations) <= WindowEvents THEN observations
    ELSE SubSeq(observations, Len(observations) - WindowEvents + 1, Len(observations))

SampleSufficient(window) == Len(window) >= MinSamples

Count(window, d) == Cardinality({i \in 1..Len(window) : window[i] = d})
(* Of directions that occur equally often any may be called the majority.  *)
Disagreement(window) ==
    Cardinality({i \in 1..Len(window) :
        window[i] # CHOOSE d \in Direction : \A c \in Direction : Count(window, c) <= Count(window, d)})

LastOnes(window) == SubSeq(window, Len(window) - Confirmations + 1, Len(window))
Stable(window) ==
    /\ window # <<>> /\ Len(window) >= Confirmations
    /\ LastOnes(window)[1] # "neutral"
    /\ \A i \in 1..Confirmations : LastOnes(window)[i] = LastOnes(window)[1]
    /\ 100 * Disagreement(window) <= Epsilon * Len(window)

(* evaluate_human_gate: what a person must agree to.                       *)
HumanGateAsMarked(p) == IF p.marked THEN {"marked"} ELSE {}
HumanGate(p) ==
    (IF p.radius \in {"system", "external"} THEN {"blast_radius"} ELSE {})
    \cup (IF p.radius = "external" THEN {"external_effect"} ELSE {})
    \cup p.touches

(* build_policy_proposal, by a learner that makes the eligibility checks   *)
(* that are left to it.  The gate is marked by what the proposal says now. *)
Build(base, to, radius, touches) ==
    /\ draft = Null /\ drafts < MaxDrafts
    /\ SampleSufficient(SelectWindow) /\ Stable(SelectWindow)
    /\ LET p == [base |-> base, to |-> to, radius |-> radius, touches |-> touches,
                 observed |-> Len(SelectWindow), window |-> SelectWindow, marked |-> FALSE]
       IN  draft' = [p EXCEPT !.marked = HumanGate(p) # {}]
    /\ drafts' = drafts + 1
    /\ UNCHANGED <<observations, now, emitter, target>>

(* Nothing keeps a built proposal from being edited, its mark included.    *)
Edit(radius, touches, marked) ==
    /\ draft # Null
    /\ draft' = [draft EXCEPT !.radius = radius, !.touches = touches, !.marked = marked]
    /\ UNCHANGED <<observations, drafts, now, emitter, target>>

Discard ==
    /\ draft # Null
    /\ draft' = Null
    /\ UNCHANGED <<observations, drafts, now, emitter, target>>

-----------------------------------------------------------------------------
(* The emitter.                                                            *)

(* validate_proposal_prequeue: the numbers, and the mark of a gated one.   *)
Valid(p) ==
    /\ p.observed >= MinSamples
    /\ HumanGate(p) # {} => p.marked

(* check_and_record: stamps older than the period are forgotten.           *)
ForgetfulRecent(k) == {s \in stamps[k] : s.at + Period > now}
Recent(k) == {s \in stamps[k] : s.at + Period >= now}
Allowed(k) == Cardinality(Recent(k)) < LimitX
Stamp(k) == [at |-> now, before |-> Cardinality(Recent(k))]
Record(k) ==
    stamps' = [stamps EXCEPT ![k] =
                  Recent(k) \cup (IF Allowed(k) THEN {Stamp(k)} ELSE {})]

(* A gated proposal is refused before anything is recorded; one that the   *)
(* validator refuses raises; a write that fails has used its place.        *)
Emit(k) ==
    /\ draft # Null /\ HumanGate(draft) = {} /\ Valid(draft)
    /\ Record(k)
    /\ \/ Allowed(k) /\ queue' = Append(queue, [key |-> k, at |-> now, proposal |-> draft])
       \/ queue' = queue
    /\ UNCHANGED <<learner, now, target>>

-----------------------------------------------------------------------------
(* The evaluator: the current policy is read first; noop, duplicate and    *)
(* mismatch are judged in this order, and then the patch is tried.         *)

Applied(h) == \E i \in 1..Len(replaced) : replaced[i] = h

ReadPolicy(e, i) ==
    /\ evaluating[e] = Null
    /\ evaluating' = [evaluating EXCEPT ![e] = [proposal |-> queue[i].proposal, before |-> policy]]
    /\ raced' = (raced \/ \E f \in Evaluator : evaluating[f] # Null)
    /\ UNCHANGED <<learner, now, emitter, policy, replaced, change>>

Noop(e)      == evaluating[e].proposal.to = policy
Duplicate(e) == Applied(evaluating[e].proposal.base)
Mismatch(e)  == evaluating[e].proposal.base # evaluating[e].before

(* The result of an evaluation, and of a patch that is not applied.        *)
RefusesMismatch(e) == Noop(e) \/ Mismatch(e)
Refuses(e)         == Noop(e) \/ Duplicate(e) \/ Mismatch(e)

Evaluate(e) ==
    /\ evaluating[e] # Null
    /\ LET p == evaluating[e].proposal
       IN  \/ UNCHANGED <<policy, replaced, change>>
           \/ /\ ~Refuses(e)
              /\ policy' = p.to /\ replaced' = Append(replaced, p.base)
              /\ change' = [before |-> policy, proposal |-> p]
    /\ evaluating' = [evaluating EXCEPT ![e] = Null]
    /\ UNCHANGED <<learner, now, emitter, raced>>

-----------------------------------------------------------------------------
Next ==
    \/ \E d \in Direction : Observe(d)
    \/ Tick
    \/ \E b, t \in Hash, r \in Radius, touches \in SUBSET Touch : Build(b, t, r, touches)
    \/ \E r \in Radius, touches \in SUBSET Touch, marked \in BOOLEAN : Edit(r, touches, marked)
    \/ Discard
    \/ \E k \in Key : Emit(k)
    \/ \E e \in Evaluator : (\E i \in 1..Len(queue) : ReadPolicy(e, i)) \/ Evaluate(e)

Cycle == Init /\ [][Next]_cycle

-----------------------------------------------------------------------------
(* Properties.                                                             *)

(* In no Period, wherever it begins, more than LimitX proposals of one key *)
(* reach the approval queue, though stamps are forgotten and refusals and  *)
(* failed writes lie between them.                                         *)
RationHolds ==
    \A i \in 1..Len(queue) :
        Cardinality({j \in i..Len(queue) :
            queue[j].key = queue[i].key /\ queue[j].at <= queue[i].at + Period}) <= LimitX

(* Whatever was done to a proposal after it was built, what is in the      *)
(* queue reaches no further than a service and touches nothing that a      *)
(* person must judge; and where Epsilon leaves less than Confirmations to  *)
(* dissent, it rests on enough observations most of which agree with the   *)
(* last one.                                                               *)
QueuedIsHarmlessAndEarned ==
    \A i \in 1..Len(queue) :
        LET p == queue[i].proposal IN
        /\ p.radius \in {"local", "service"} /\ p.touches = {}
        /\ Len(p.window) >= MinSamples
        /\ Epsilon * WindowEvents < 100 * Confirmations =>
             \A d \in Direction :
                 d # p.window[Len(p.window)] => Count(p.window, d) < Count(p.window, p.window[Len(p.window)])

(* Evaluated one at a time, a proposal changes the policy that it was made *)
(* for and no other, and no policy is replaced twice: the same proposal    *)
(* stays in the queue, and the policy may return to what it was made for.  *)
SerialChangesKeepBaseline ==
    ~raced =>
        /\ change # Null => change.before = change.proposal.base
        /\ \A i, j \in 1..Len(replaced) : replaced[i] = replaced[j] => i = j
=============================================================================
