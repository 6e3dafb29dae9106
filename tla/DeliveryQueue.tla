--------------------------- MODULE DeliveryQueue ---------------------------
(***************************************************************************)
(* Gate 2 and the delivery queue of core/C_action: a policy receipt        *)
(* becomes a plan, an index row, a pack and a queue item; consume_pending  *)
(* turns queue items into processed artifacts; build_orch_inbox hands      *)
(* those to the orchestrator's inbox.                                      *)
(*                                                                         *)
(* All of it is files, written by separate command-line processes with no  *)
(* lock between them, any of which may be killed between two writes.  A    *)
(* file is named after its plan.  It is written to a .tmp and renamed: one *)
(* step here.  (Two processes on one .tmp: the second rename fails and its *)
(* process raises, which is that process dying after its write.)           *)
(***************************************************************************)
EXTENDS Naturals, Sequences, SequencesExt

CONSTANTS
    Plan,         \* plan ids (uuid4)
    Receipt,      \* receipts of applied policy patches
    ExecReceipt,  \* those whose channel is in EXECUTION_CHANNELS
    SceneReceipt, \* those whose evidence names the scene of the bundle
    Request,      \* execution authorisation files
    Deliverer,    \* concurrent "review_patch deliver" commands
    Consumer,     \* concurrent "consume_queue" commands
    Forwarder,    \* concurrent "build_orch_inbox" commands
    Limit,        \* files one consumer or forwarder command takes
    TailLimit,    \* plans a scene bundle remembers
    Null          \* no value

ASSUME QueueAssumption ==
    /\ ExecReceipt \subseteq Receipt /\ SceneReceipt \subseteq Receipt
    /\ Limit \in Nat \ {0}
    /\ TailLimit \in Nat \ {0}
    /\ Null \notin Plan \cup Receipt \cup Request

VARIABLES
    request,    \* authorisation files: "absent", or "live" or "removed" with a judgment_ref
    attached,   \* meta.execution_request_path of each receipt
    maker,      \* the attachment make_execution_request has still to write
    plan,       \* plan files: the receipt each was built from
    indexed,    \* plans with a row in the delivery index
    packed,     \* plans with a delivery pack
    named,      \* meta.execution_request_path of each plan's queue item
    pending,    \* queue items by mtime
    processed,  \* processed artifacts by mtime
    forwarded,  \* those whose delivery_status says forwarded_to_orchestrator
    inbox,      \* plans with an inbox payload
    bundle,     \* plans_tail of the scene bundle
    deliver,    \* what each deliverer does next, and with what
    consume,    \* likewise
    forward     \* likewise

files == <<request, attached, maker, plan, indexed, packed, named, pending,
           processed, forwarded, inbox, bundle>>
vars == <<files, deliver, consume, forward>>

DeliverStep == {"idle", "plan", "index", "pack", "route", "queue", "scene", "bundle"}
Delivery == [step: DeliverStep, receipt: Receipt \cup {Null}, plan: Plan \cup {Null},
             request: Request \cup {Null}, tail: Seq(Plan)]
Batch(steps) == [step: steps, batch: Seq(Plan)]

IdleDelivery == [step |-> "idle", receipt |-> Null, plan |-> Null, request |-> Null,
                 tail |-> <<>>]
IdleBatch == [step |-> "idle", batch |-> <<>>]

-----------------------------------------------------------------------------
(* An operator that nothing uses, placed just before the one it is named   *)
(* after, is that operator's faulty form for the mutation checks.          *)

(* ExecutionAuthorizationRequest as a file: what make_execution_request    *)
(* writes passes assert_execution_request_valid; an operator removes it.   *)
AuthorizationFile == [status: {"absent", "live", "removed"}, ref: Receipt \cup {Null}]
Live(x) == x # Null /\ request[x].status = "live"

(* _extract_channel: meta.channel, or the receipt's own in old receipts.   *)
ExecutionChannel(r) == r \in ExecReceipt

(* enforce_execution_gate_for_queue_item: an item of an execution channel  *)
(* names a request whose file is there and valid.  make_execution_request  *)
(* writes no other kind; judgment_ref is not looked at.                    *)
AuthorizedByName(r, x) == ExecutionChannel(r) => x # Null
Authorized(r, x) == ExecutionChannel(r) => Live(x)

(* The gate of plan-build time also wants the request made for this receipt. *)
AuthorizedForReceipt(r) ==
    ExecutionChannel(r) => Live(attached[r]) /\ request[attached[r]].ref = r

FirstOf(files_, n) == SubSeq(files_, 1, IF Len(files_) < n THEN Len(files_) ELSE n)
LastOf(s, n) == SubSeq(s, IF Len(s) < n THEN 1 ELSE Len(s) - n + 1, Len(s))
Touch(s, p) == Append(RemoveFirst(s, p), p)     \* a rewritten file has the latest mtime

Init ==
    /\ request = [x \in Request |-> [status |-> "absent", ref |-> Null]]
    /\ attached = [r \in Receipt |-> Null]
    /\ maker = Null
    /\ plan = [p \in Plan |-> Null]
    /\ indexed = {} /\ packed = {}
    /\ named = [p \in Plan |-> Null]
    /\ pending = <<>> /\ processed = <<>>
    /\ forwarded = {} /\ inbox = {}
    /\ bundle = <<>>
    /\ deliver = [d \in Deliverer |-> IdleDelivery]
    /\ consume = [c \in Consumer |-> IdleBatch]
    /\ forward = [f \in Forwarder |-> IdleBatch]

-----------------------------------------------------------------------------
(* cli/make_execution_request: writes the request, then attaches it.       *)

MakeRequest(x, ref, r) ==
    /\ maker = Null
    /\ request[x].status = "absent"
    /\ request' = [request EXCEPT ![x] = [status |-> "live", ref |-> ref]]
    /\ maker' = [request |-> x, receipt |-> r]
    /\ UNCHANGED <<attached, plan, indexed, packed, named, pending, processed,
                   forwarded, inbox, bundle, deliver, consume, forward>>

AttachRequest ==
    /\ maker # Null
    /\ attached' = [attached EXCEPT ![maker.receipt] = maker.request]
    /\ maker' = Null
    /\ UNCHANGED <<request, plan, indexed, packed, named, pending, processed,
                   forwarded, inbox, bundle, deliver, consume, forward>>

(* Killed before it attaches, or run without --attach-to-receipt.          *)
MakerStops ==
    /\ maker # Null
    /\ maker' = Null
    /\ UNCHANGED <<request, attached, plan, indexed, packed, named, pending, processed,
                   forwarded, inbox, bundle, deliver, consume, forward>>

(* External: an operator takes an authorisation back by removing its file. *)
RemoveRequest(x) ==
    /\ request[x].status = "live"
    /\ request' = [request EXCEPT ![x].status = "removed"]
    /\ UNCHANGED <<attached, maker, plan, indexed, packed, named, pending, processed,
                   forwarded, inbox, bundle, deliver, consume, forward>>

-----------------------------------------------------------------------------
(* plan_pack_queue_bundle_from_receipt.                                    *)

Turn(d, step) == deliver' = [deliver EXCEPT ![d].step = step]

(* build_delivery_plan_from_receipt, with the gate of plan-build time.     *)
Build(d, r, p) ==
    /\ deliver[d].step = "idle"
    /\ plan[p] = Null
    /\ \A e \in Deliverer : deliver[e].plan # p
    /\ AuthorizedForReceipt(r)
    /\ deliver' = [deliver EXCEPT ![d] = [IdleDelivery EXCEPT
                        !.step = "plan", !.receipt = r, !.plan = p]]
    /\ UNCHANGED <<files, consume, forward>>

SavePlanUnindexed(d) ==
    /\ deliver[d].step = "plan"
    /\ plan' = [plan EXCEPT ![deliver[d].plan] = deliver[d].receipt]
    /\ Turn(d, "pack")
    /\ UNCHANGED <<request, attached, maker, indexed, packed, named, pending, processed,
                   forwarded, inbox, bundle, consume, forward>>
SavePlan(d) ==
    /\ deliver[d].step = "plan"
    /\ plan' = [plan EXCEPT ![deliver[d].plan] = deliver[d].receipt]
    /\ Turn(d, "index")
    /\ UNCHANGED <<request, attached, maker, indexed, packed, named, pending, processed,
                   forwarded, inbox, bundle, consume, forward>>

AppendIndex(d) ==
    /\ deliver[d].step = "index"
    /\ indexed' = indexed \cup {deliver[d].plan}
    /\ Turn(d, "pack")
    /\ UNCHANGED <<request, attached, maker, plan, packed, named, pending, processed,
                   forwarded, inbox, bundle, consume, forward>>

SavePack(d) ==
    /\ deliver[d].step = "pack"
    /\ packed' = packed \cup {deliver[d].plan}
    /\ Turn(d, "route")
    /\ UNCHANGED <<request, attached, maker, plan, indexed, named, pending, processed,
                   forwarded, inbox, bundle, consume, forward>>

(* route_to_queue reads the receipt again and enforces the queue-time gate *)
(* on the request it names now.                                            *)
RouteCheck(d) ==
    LET r == deliver[d].receipt IN
    /\ deliver[d].step = "route"
    /\ Authorized(r, attached[r])
    /\ deliver' = [deliver EXCEPT ![d].step = "queue", ![d].request = attached[r]]
    /\ UNCHANGED <<files, consume, forward>>

RouteWriteUnnamed(d) ==
    /\ deliver[d].step = "queue"
    /\ pending' = Touch(pending, deliver[d].plan)
    /\ deliver' = [deliver EXCEPT ![d] = IdleDelivery]
    /\ UNCHANGED <<request, attached, maker, plan, indexed, packed, named, processed,
                   forwarded, inbox, bundle, consume, forward>>
RouteWrite(d) ==
    LET p == deliver[d].plan IN
    /\ deliver[d].step = "queue"
    /\ named' = [named EXCEPT ![p] = deliver[d].request]
    /\ pending' = Touch(pending, p)
    /\ IF deliver[d].receipt \in SceneReceipt
       THEN Turn(d, "scene")
       ELSE deliver' = [deliver EXCEPT ![d] = IdleDelivery]
    /\ UNCHANGED <<request, attached, maker, plan, indexed, packed, processed,
                   forwarded, inbox, bundle, consume, forward>>

(* write_scene_bundles: reads the bundle, appends, keeps the last entries. *)
BundleRead(d) ==
    /\ deliver[d].step = "scene"
    /\ deliver' = [deliver EXCEPT ![d].step = "bundle", ![d].tail = bundle]
    /\ UNCHANGED <<files, consume, forward>>

BundleWrite(d) ==
    /\ deliver[d].step = "bundle"
    /\ bundle' = LastOf(Append(deliver[d].tail, deliver[d].plan), TailLimit)
    /\ deliver' = [deliver EXCEPT ![d] = IdleDelivery]
    /\ UNCHANGED <<request, attached, maker, plan, indexed, packed, named, pending,
                   processed, forwarded, inbox, consume, forward>>

(* The gate refuses at queue time, or the process is killed: what it wrote *)
(* so far stays.                                                           *)
DelivererStops(d) ==
    /\ deliver[d].step # "idle"
    /\ deliver' = [deliver EXCEPT ![d] = IdleDelivery]
    /\ UNCHANGED <<files, consume, forward>>

-----------------------------------------------------------------------------
(* consume_pending.                                                        *)

At(work, w, step) == work[w].step = step /\ work[w].batch # <<>>
NextInBatch(work, w, first) ==
    [work EXCEPT ![w] = IF Len(@.batch) = 1 THEN IdleBatch
                        ELSE [step |-> first, batch |-> Tail(@.batch)]]

(* Lists the queue items, oldest first, up to the limit.                   *)
ConsumeNewest(c) ==
    /\ consume[c].step = "idle"
    /\ pending # <<>>
    /\ consume' = [consume EXCEPT ![c] = [step |-> "check", batch |-> FirstOf(Reverse(pending), Limit)]]
    /\ UNCHANGED <<files, deliver, forward>>
ConsumeScan(c) ==
    /\ consume[c].step = "idle"
    /\ pending # <<>>
    /\ consume' = [consume EXCEPT ![c] = [step |-> "check", batch |-> FirstOf(pending, Limit)]]
    /\ UNCHANGED <<files, deliver, forward>>

Consumable(p) == Contains(pending, p) /\ Authorized(plan[p], named[p])

(* consume_one loads the queue item and enforces the gate again.           *)
ConsumeClaims(c) ==
    /\ At(consume, c, "check")
    /\ Consumable(Head(consume[c].batch))
    /\ pending' = RemoveFirst(pending, Head(consume[c].batch))
    /\ consume' = [consume EXCEPT ![c].step = "write"]
    /\ UNCHANGED <<request, attached, maker, plan, indexed, packed, named, processed,
                   forwarded, inbox, bundle, deliver, forward>>
ConsumeCheck(c) ==
    /\ At(consume, c, "check")
    /\ Consumable(Head(consume[c].batch))
    /\ consume' = [consume EXCEPT ![c].step = "write"]
    /\ UNCHANGED <<files, deliver, forward>>

(* The item is gone, or refused: the exception ends the whole batch.       *)
ConsumeRaises(c) ==
    /\ At(consume, c, "check")
    /\ ~Consumable(Head(consume[c].batch))
    /\ consume' = [consume EXCEPT ![c] = IdleBatch]
    /\ UNCHANGED <<files, deliver, forward>>

(* The processed artifact is written afresh, whatever is there.            *)
ConsumeWrite(c) ==
    LET p == Head(consume[c].batch) IN
    /\ At(consume, c, "write")
    /\ processed' = Touch(processed, p)
    /\ forwarded' = forwarded \ {p}
    /\ consume' = [consume EXCEPT ![c].step = "remove"]
    /\ UNCHANGED <<request, attached, maker, plan, indexed, packed, named, pending,
                   inbox, bundle, deliver, forward>>

ConsumeRemove(c) ==
    /\ At(consume, c, "remove")
    /\ pending' = RemoveFirst(pending, Head(consume[c].batch))
    /\ consume' = NextInBatch(consume, c, "check")
    /\ UNCHANGED <<request, attached, maker, plan, indexed, packed, named, processed,
                   forwarded, inbox, bundle, deliver, forward>>

(* The removal is best effort: its exception is swallowed.                 *)
ConsumeKeeps(c) ==
    /\ At(consume, c, "remove")
    /\ consume' = NextInBatch(consume, c, "check")
    /\ UNCHANGED <<files, deliver, forward>>

ConsumerStops(c) ==
    /\ consume[c].step # "idle"
    /\ consume' = [consume EXCEPT ![c] = IdleBatch]
    /\ UNCHANGED <<files, deliver, forward>>

-----------------------------------------------------------------------------
(* build_orch_inbox.                                                       *)

ForwardScan(f) ==
    /\ forward[f].step = "idle"
    /\ processed # <<>>
    /\ forward' = [forward EXCEPT ![f] = [step |-> "inbox", batch |-> FirstOf(processed, Limit)]]
    /\ UNCHANGED <<files, deliver, consume>>

ForwardInbox(f) ==
    /\ At(forward, f, "inbox")
    /\ inbox' = inbox \cup {Head(forward[f].batch)}
    /\ forward' = [forward EXCEPT ![f].step = "mark"]
    /\ UNCHANGED <<request, attached, maker, plan, indexed, packed, named, pending,
                   processed, forwarded, bundle, deliver, consume>>

(* Re-reads the processed artifact and writes it back, marked.             *)
ForwardMarkInPlace(f) ==
    /\ At(forward, f, "mark")
    /\ forwarded' = forwarded \cup {Head(forward[f].batch)}
    /\ forward' = NextInBatch(forward, f, "inbox")
    /\ UNCHANGED <<request, attached, maker, plan, indexed, packed, named, pending,
                   processed, inbox, bundle, deliver, consume>>
ForwardMark(f) ==
    LET p == Head(forward[f].batch) IN
    /\ At(forward, f, "mark")
    /\ processed' = Touch(processed, p)
    /\ forwarded' = forwarded \cup {p}
    /\ forward' = NextInBatch(forward, f, "inbox")
    /\ UNCHANGED <<request, attached, maker, plan, indexed, packed, named, pending,
                   inbox, bundle, deliver, consume>>

(* The mark is best effort.                                                *)
ForwardUnmarked(f) ==
    /\ At(forward, f, "mark")
    /\ forward' = NextInBatch(forward, f, "inbox")
    /\ UNCHANGED <<files, deliver, consume>>

ForwarderStops(f) ==
    /\ forward[f].step # "idle"
    /\ forward' = [forward EXCEPT ![f] = IdleBatch]
    /\ UNCHANGED <<files, deliver, consume>>

-----------------------------------------------------------------------------
Deliver(d) ==
    \/ \E r \in Receipt, p \in Plan : Build(d, r, p)
    \/ SavePlan(d) \/ AppendIndex(d) \/ SavePack(d)
    \/ RouteCheck(d) \/ RouteWrite(d)
    \/ BundleRead(d) \/ BundleWrite(d)
    \/ DelivererStops(d)

Consume(c) ==
    \/ ConsumeScan(c) \/ ConsumeCheck(c) \/ ConsumeRaises(c)
    \/ ConsumeWrite(c) \/ ConsumeRemove(c) \/ ConsumeKeeps(c)
    \/ ConsumerStops(c)

Forward(f) ==
    \/ ForwardScan(f) \/ ForwardInbox(f) \/ ForwardMark(f)
    \/ ForwardUnmarked(f) \/ ForwarderStops(f)

Next ==
    \/ \E x \in Request, ref, r \in Receipt : MakeRequest(x, ref, r)
    \/ AttachRequest \/ MakerStops
    \/ \E x \in Request : RemoveRequest(x)
    \/ \E d \in Deliverer : Deliver(d)
    \/ \E c \in Consumer : Consume(c)
    \/ \E f \in Forwarder : Forward(f)

Spec == Init /\ [][Next]_vars

(* The two commands are run again and again, each step of them is not      *)
(* killed or failed every time it is reached.                              *)
RerunFairness ==
    /\ \A c \in Consumer :
        /\ WF_vars(ConsumeScan(c)) /\ WF_vars(ConsumeRaises(c))
        /\ SF_vars(ConsumeCheck(c)) /\ SF_vars(ConsumeWrite(c)) /\ SF_vars(ConsumeRemove(c))
    /\ \A f \in Forwarder :
        /\ WF_vars(ForwardScan(f))
        /\ SF_vars(ForwardInbox(f)) /\ SF_vars(ForwardMark(f))
FairSpec == Spec /\ RerunFairness

-----------------------------------------------------------------------------
Pending == ToSet(pending)
Processed == ToSet(processed)
Queued == Pending \cup Processed

TypeOK ==
    /\ request \in [Request -> AuthorizationFile]
    /\ attached \in [Receipt -> Request \cup {Null}]
    /\ maker \in [request: Request, receipt: Receipt] \cup {Null}
    /\ plan \in [Plan -> Receipt \cup {Null}]
    /\ indexed \subseteq Plan /\ packed \subseteq Plan
    /\ named \in [Plan -> Request \cup {Null}]
    /\ pending \in Seq(Plan) /\ IsInjective(pending)
    /\ processed \in Seq(Plan) /\ IsInjective(processed)
    /\ forwarded \subseteq Plan /\ inbox \subseteq Plan
    /\ bundle \in Seq(Plan) /\ Len(bundle) <= TailLimit
    /\ deliver \in [Deliverer -> Delivery]
    /\ consume \in [Consumer -> Batch({"idle", "check", "write", "remove"})]
    /\ forward \in [Forwarder -> Batch({"idle", "inbox", "mark"})]

(* Nothing that a later stage holds lacks what an earlier stage should     *)
(* have left, wherever a process was killed: the inbox comes from the      *)
(* processed artifacts, those and the bundle from plans that were indexed, *)
(* packed and queued.                                                      *)
Traceable ==
    /\ forwarded \subseteq inbox
    /\ inbox \subseteq Processed
    /\ ToSet(bundle) \subseteq Queued
    /\ Queued \subseteq indexed \cap packed
    /\ \A p \in indexed \cup packed : plan[p] # Null

(* No plan of an execution channel is queued, processed or handed over     *)
(* unless its queue item names an authorisation that was really given.     *)
GateHeld ==
    \A p \in Queued : plan[p] \in ExecReceipt =>
        named[p] # Null /\ request[named[p]].status # "absent"

(* An authorisation taken back in time holds: an execution plan that no    *)
(* consumer has checked yet is not processed after its request is removed, *)
(* whatever batches and deliveries were under way by then.                 *)
Revoked(p) == p \in Queued /\ plan[p] \in ExecReceipt /\ ~Live(named[p])
Claimed(p) == \E c \in Consumer : At(consume, c, "write") /\ Head(consume[c].batch) = p
RevokedStaysUnprocessed ==
    [][\A p \in Plan : Revoked(p) /\ ~Claimed(p) /\ p \notin Processed =>
            ~Claimed(p)' /\ p \notin Processed']_vars

(* A queued plan is processed in the end, unless it or one queued before   *)
(* it has lost its authorisation: that one ends every batch before it.     *)
Blocked(p) == \E i, j \in DOMAIN pending : i <= j /\ pending[j] = p /\ Revoked(pending[i])
QueuedIsProcessed ==
    \A p \in Plan : p \in Pending ~> p \in Processed \/ Blocked(p)

(* A processed plan reaches the inbox in the end: the limit starves none,  *)
(* though processed artifacts are never removed.                           *)
ProcessedIsForwarded ==
    \A p \in Plan : p \in Processed ~> p \in inbox

(* The stages of a plan, as PlanDelivery promises them, read off the files.*)
Stage(p) ==
    CASE p \in inbox      -> 4
      [] p \in Processed \ inbox -> 3
      [] p \in Pending \ (Processed \cup inbox) -> 2
      [] OTHER -> IF plan[p] # Null THEN 1 ELSE 0
Stages == INSTANCE PlanDelivery WITH stage <- [p \in Plan |-> Stage(p)]

(* The files of crashing and concurrent commands implement the one-way     *)
(* stages: no plan is lost, skipped ahead or taken back.                   *)
ImplementsStages == Stages!Spec
=============================================================================
