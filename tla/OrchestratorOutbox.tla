------------------------- MODULE OrchestratorOutbox -------------------------
(***************************************************************************)
(* What becomes of a forwarded plan: its inbox file is routed to a         *)
(* decision (core/orchestrator/write_decision, recommendation_router), the *)
(* decision is split into one outbox file per delivery (outbox), and       *)
(* tools/audit_append_* seal any of these files on an audit chain.         *)
(*                                                                         *)
(* All paths are named after the plan, so that a plan that is forwarded    *)
(* again overwrites what the last one left, file by file.  A file is       *)
(* written to a .tmp and renamed: one step.  A file's content is the       *)
(* forwarding it stems from, which is what routing_capsule_sha256 tells    *)
(* (decision_sha256 does not: it covers neither time nor inbox).           *)
(***************************************************************************)
EXTENDS HashChain

CONSTANTS
    Plan,
    ChannelOf,    \* each plan's channel
    Worker,       \* commands at once
    MaxForwards,  \* forwardings of one plan
    MaxSeals,
    Null

VARIABLES
    inbox,      \* the forwarding that each plan's inbox file is of; 0: no file
    decision,   \* the same of its decision
    outbox,     \* the same of each delivery file of it
    seals,      \* the audit chain
    work,       \* what each worker has in hand
    delivered,  \* history: the decision of the last split that came to its end
    crossed     \* history: two commands at once

orchestrator == <<inbox, decision, outbox, seals, work, delivered, crossed>>

(* RecommendationRouter: the log always, and people of three channels.  An *)
(* inbox file carries no severity, so that the alarm target of fnb for a   *)
(* high one is never chosen.                                               *)
Deliveries(ch) ==
    CASE ch = "childcare" -> <<"log", "console">>
      [] ch = "fnb"       -> <<"log", "slack">>
      [] ch = "trading"   -> <<"log", "console">>
      [] OTHER            -> <<"log">>
Indices(p) == 1..Len(Deliveries(ChannelOf[p]))

Init ==
    /\ inbox = [p \in Plan |-> 0] /\ decision = [p \in Plan |-> 0]
    /\ outbox = [p \in Plan |-> [i \in Indices(p) |-> 0]]
    /\ seals = <<>>
    /\ work = [w \in Worker |-> Null]
    /\ delivered = [p \in Plan |-> 0]
    /\ crossed = FALSE

-----------------------------------------------------------------------------
(* An operator that nothing uses, placed just before the one it is named   *)
(* after, is that operator's faulty form for the mutation checks.          *)

Begin(w, task) ==
    /\ work[w] = Null
    /\ work' = [work EXCEPT ![w] = task]
    /\ crossed' = (crossed \/ \E v \in Worker \ {w} : work[v] # Null)
End(w) == work' = [work EXCEPT ![w] = Null]
Does(w, what) == work[w] # Null /\ work[w].does = what

(* write_inbox_payload, once more or for the first time.                   *)
Forward(p) ==
    /\ inbox[p] < MaxForwards
    /\ inbox' = [inbox EXCEPT ![p] = @ + 1]
    /\ UNCHANGED <<decision, outbox, seals, work, delivered, crossed>>

(* write_orch_decision reads the inbox file, and writes the decision.      *)
Route(w, p) ==
    /\ inbox[p] # 0
    /\ Begin(w, [does |-> "route", plan |-> p, of |-> inbox[p]])
    /\ UNCHANGED <<inbox, decision, outbox, seals, delivered>>
WriteDecision(w) ==
    /\ Does(w, "route") /\ End(w)
    /\ decision' = [decision EXCEPT ![work[w].plan] = work[w].of]
    /\ UNCHANGED <<inbox, outbox, seals, delivered, crossed>>

(* split_outbox_from_decision reads the decision once, and writes one file *)
(* per delivery in the router's order.                                     *)
Split(w, p) ==
    /\ decision[p] # 0
    /\ Begin(w, [does |-> "split", plan |-> p, of |-> decision[p], next |-> 1])
    /\ UNCHANGED <<inbox, decision, outbox, seals, delivered>>
LastFirst(w) == Len(Deliveries(ChannelOf[work[w].plan])) + 1 - work[w].next
InOrder(w) == work[w].next
WriteDelivery(w) ==
    /\ Does(w, "split")
    /\ LET p == work[w].plan IN
       /\ outbox' = [outbox EXCEPT ![p][InOrder(w)] = work[w].of]
       /\ IF work[w].next = Len(Deliveries(ChannelOf[p]))
          THEN End(w) /\ delivered' = [delivered EXCEPT ![p] = work[w].of]
          ELSE work' = [work EXCEPT ![w].next = @ + 1] /\ delivered' = delivered
    /\ UNCHANGED <<inbox, decision, seals, crossed>>

(* What may be sealed: files that are there.  The payload is the file, or  *)
(* its digest; an outbox file is sealed as an item, or as an alert that    *)
(* was emitted.                                                            *)
InboxFile(p) == [kind |-> "inbox", plan |-> p, index |-> 0, of |-> inbox[p]]
DecisionFile(p) == [kind |-> "decision", plan |-> p, index |-> 0, of |-> decision[p]]
ItemFile(p, i) == [kind |-> "item", plan |-> p, index |-> i, of |-> outbox[p][i]]
Sealable ==
    UNION {{InboxFile(p), DecisionFile(p)} \cup {ItemFile(p, i) : i \in Indices(p)} : p \in Plan}

(* The tool reads the file, then the last line's hash, and appends.        *)
ReadFile(w, file) ==
    /\ file.of # 0 /\ Len(seals) < MaxSeals
    /\ Begin(w, [does |-> "hash", payload |-> file])
    /\ UNCHANGED <<inbox, decision, outbox, seals, delivered>>
ReadHash(w) ==
    /\ Does(w, "hash") /\ Readable(seals)
    /\ work' = [work EXCEPT ![w] =
                  [does |-> "append", row |-> [prev |-> LastHash(seals), payload |-> @.payload]]]
    /\ UNCHANGED <<inbox, decision, outbox, seals, delivered, crossed>>
AppendRow(w) ==
    /\ Does(w, "append") /\ Len(seals) < MaxSeals /\ End(w)
    /\ seals' = Append(seals, work[w].row)
    /\ UNCHANGED <<inbox, decision, outbox, delivered, crossed>>

(* A command fails or is stopped, perhaps with part of its row written.    *)
Stop(w) ==
    /\ work[w] # Null /\ End(w)
    /\ seals' \in {seals} \cup IF Does(w, "append") /\ Len(seals) < MaxSeals
                               THEN {Append(seals, Torn)} ELSE {}
    /\ UNCHANGED <<inbox, decision, outbox, delivered, crossed>>

Next ==
    \/ \E p \in Plan : Forward(p)
    \/ \E w \in Worker :
        \/ \E p \in Plan : Route(w, p) \/ Split(w, p)
        \/ WriteDecision(w) \/ WriteDelivery(w)
        \/ \E file \in Sealable : ReadFile(w, file)
        \/ ReadHash(w) \/ AppendRow(w) \/ Stop(w)

Spec == Init /\ [][Next]_orchestrator

-----------------------------------------------------------------------------
(* Properties.                                                             *)

(* Commands that do not overlap, wherever they are stopped and however     *)
(* often a plan is forwarded: no file is of a later forwarding than what   *)
(* it was made from; a split that came to its end has left nothing older   *)
(* behind it, and one that was stopped has renewed the first deliveries;   *)
(* the chain links as far as it parses, and what is sealed of a file never *)
(* goes back.                                                              *)
FilesInOrder(p) ==
    /\ decision[p] <= inbox[p]
    /\ \A i \in Indices(p) :
        /\ delivered[p] <= outbox[p][i] /\ outbox[p][i] <= decision[p]
        /\ \A j \in Indices(p) : i < j => outbox[p][j] <= outbox[p][i]
SameFile(a, b) == a.kind = b.kind /\ a.plan = b.plan /\ a.index = b.index
SealsInOrder ==
    \A j \in 1..Len(seals) : seals[j] # Torn =>
        /\ LinkedAt(seals, j)
        /\ \A i \in 1..(j - 1) :
            SameFile(seals[i].payload, seals[j].payload) =>
                seals[i].payload.of <= seals[j].payload.of
SerialFilesMoveOn == ~crossed => SealsInOrder /\ \A p \in Plan : FilesInOrder(p)
=============================================================================
