----------------------- MODULE DeliveryQueue_proofs -----------------------
(***************************************************************************)
(* What holds of the delivery queue for every number of plans, receipts,   *)
(* authorisation files and commands at work, and every limit: nothing is   *)
(* queued, processed or handed over that lacks what came before or an      *)
(* authorisation, whichever commands are killed between two writes; and    *)
(* each plan moves through its stages one way.                             *)
(***************************************************************************)
EXTENDS DeliveryQueue, SequenceTheorems, TLAPS

-----------------------------------------------------------------------------
(* Operators.                                                              *)

(* An element of a queue is at one position of it.                         *)
LEMMA PositionIn ==
    ASSUME NEW S, NEW s \in Seq(S), NEW e
    PROVE  e \in ToSet(s) <=> \E i \in 1..Len(s) : s[i] = e
BY DEF ToSet

LEMMA SetOfSeq ==
    ASSUME NEW S, NEW s \in Seq(S)
    PROVE  ToSet(s) \subseteq S
BY DEF ToSet

(* Leaving out the element at one position.                                *)
LEMMA RemoveAtProperties ==
    ASSUME NEW S, NEW s \in Seq(S), NEW k \in 1..Len(s)
    PROVE  /\ RemoveAt(s, k) \in Seq(S)
           /\ Len(RemoveAt(s, k)) = Len(s) - 1
           /\ \A i \in 1..(Len(s) - 1) :
                RemoveAt(s, k)[i] = IF i < k THEN s[i] ELSE s[i + 1]
<1>1. Len(s) \in Nat /\ \A i \in 1..Len(s) : s[i] \in S
  OBVIOUS
<1> DEFINE a == SubSeq(s, 1, k - 1)
           b == SubSeq(s, k + 1, Len(s))
<1>2. /\ a \in Seq(S) /\ Len(a) = k - 1
      /\ \A i \in 1..(k - 1) : a[i] = s[i]
  BY <1>1, SubSeqProperties
<1>3. /\ b \in Seq(S) /\ Len(b) = Len(s) - k
      /\ \A i \in 1..(Len(s) - k) : b[i] = s[k + i]
  BY <1>1, SubSeqProperties
<1> HIDE DEF a, b
<1>4. /\ a \o b \in Seq(S) /\ Len(a \o b) = Len(s) - 1
      /\ \A i \in 1..(Len(s) - 1) : (a \o b)[i] = IF i <= k - 1 THEN a[i] ELSE b[i - (k - 1)]
  <2>1. a \o b \in Seq(S) /\ Len(a \o b) = Len(a) + Len(b)
    BY <1>2, <1>3, ConcatProperties
  <2>2. \A i \in 1..(Len(a) + Len(b)) :
            (a \o b)[i] = IF i <= Len(a) THEN a[i] ELSE b[i - Len(a)]
    BY <1>2, <1>3, ConcatProperties
  <2>3. Len(a) + Len(b) = Len(s) - 1
    BY <1>1, <1>2, <1>3
  <2>4. QED
    BY <1>2, <2>1, <2>2, <2>3
<1>5. ASSUME NEW i \in 1..(Len(s) - 1)
      PROVE  (a \o b)[i] = IF i < k THEN s[i] ELSE s[i + 1]
  <2>1. CASE i < k
    BY <2>1, <1>1, <1>2, <1>4
  <2>2. CASE i >= k
    <3>1. (a \o b)[i] = b[i - (k - 1)]
      BY <2>2, <1>1, <1>4
    <3>2. i - (k - 1) \in 1..(Len(s) - k) /\ k + (i - (k - 1)) = i + 1
      BY <2>2, <1>1
    <3>3. QED
      BY <2>2, <3>1, <3>2, <1>3
  <2>3. i < k \/ i >= k
    BY <1>1
  <2>4. QED
    BY <2>1, <2>2, <2>3
<1>6. RemoveAt(s, k) = a \o b
  BY DEF RemoveAt, a, b
<1>7. QED
  BY <1>4, <1>5, <1>6

(* A file that is removed is at its place in the listing and no other.     *)
LEMMA RemoveFirstProperties ==
    ASSUME NEW S, NEW s \in Seq(S), IsInjective(s), NEW e
    PROVE  /\ RemoveFirst(s, e) \in Seq(S)
           /\ IsInjective(RemoveFirst(s, e))
           /\ ToSet(RemoveFirst(s, e)) = ToSet(s) \ {e}
<1>1. CASE ~ \E i \in 1..Len(s) : s[i] = e
  BY <1>1, PositionIn DEF RemoveFirst
<1>2. CASE \E i \in 1..Len(s) : s[i] = e
  <2>1. PICK k \in 1..Len(s) : s[k] = e
    BY <1>2
  <2>2. {i \in 1..Len(s) : s[i] = e} = {k}
    BY <2>1 DEF IsInjective
  <2>3. Min({k}) = k
    BY DEF Min
  <2>4. SelectInSeq(s, LAMBDA v : v = e) = k
    BY <2>2, <2>3 DEF SelectInSeq
  <2>5. RemoveFirst(s, e) = RemoveAt(s, k)
    BY <2>4, <1>2 DEF RemoveFirst
  <2> DEFINE t == RemoveAt(s, k)
  <2>6. /\ t \in Seq(S) /\ Len(t) = Len(s) - 1 /\ Len(s) \in Nat
        /\ \A i \in 1..Len(t) : t[i] = IF i < k THEN s[i] ELSE s[i + 1]
    BY RemoveAtProperties
  <2> HIDE DEF t
  <2>7. DOMAIN t = 1..(Len(s) - 1) /\ DOMAIN s = 1..Len(s)
    BY <2>6
  <2>8. IsInjective(t)
    <3>1. SUFFICES ASSUME NEW i \in 1..(Len(s) - 1), NEW j \in 1..(Len(s) - 1), t[i] = t[j]
                   PROVE  i = j
      BY <2>7 DEF IsInjective
    <3>2. \A x, y \in 1..Len(s) : s[x] = s[y] => x = y
      BY <2>7 DEF IsInjective
    <3>3. QED
      BY <3>1, <3>2, <2>6
  <2>9. ToSet(t) \subseteq ToSet(s) \ {e}
    <3>1. SUFFICES ASSUME NEW i \in 1..(Len(s) - 1) PROVE t[i] \in ToSet(s) /\ t[i] # e
      BY <2>7 DEF ToSet
    <3>2. PICK x \in 1..Len(s) : x # k /\ t[i] = s[x]
      BY <2>6
    <3>3. QED
      BY <3>2, <2>1, <2>7, PositionIn DEF IsInjective
  <2>10. ASSUME NEW x \in ToSet(s), x # e PROVE x \in ToSet(t)
    <3>1. PICK i \in 1..Len(s) : s[i] = x
      BY PositionIn
    <3>2. PICK j \in 1..(Len(s) - 1) : t[j] = x
      <4>1. CASE i < k
        BY <3>1, <4>1, <2>6
      <4>2. CASE i > k
        <5>1. i - 1 \in 1..(Len(s) - 1) /\ ~(i - 1 < k) /\ (i - 1) + 1 = i
          BY <4>2, <2>6
        <5>2. QED
          BY <3>1, <5>1, <2>6
      <4>3. i # k
        BY <3>1, <2>1, <2>10
      <4>4. QED
        BY <4>1, <4>2, <4>3
    <3>3. QED
      BY <3>2, <2>6, PositionIn
  <2>11. QED
    BY <2>5, <2>6, <2>8, <2>9, <2>10 DEF t
<1>3. QED
  BY <1>1, <1>2

LEMMA AppendNew ==
    ASSUME NEW S, NEW s \in Seq(S), NEW e \in S, IsInjective(s), e \notin ToSet(s)
    PROVE  /\ Append(s, e) \in Seq(S)
           /\ IsInjective(Append(s, e))
           /\ ToSet(Append(s, e)) = ToSet(s) \cup {e}
BY DEF ToSet, IsInjective

(* A file that is written is in the listing once, as the latest.           *)
LEMMA TouchProperties ==
    ASSUME NEW S, NEW s \in Seq(S), IsInjective(s), NEW e \in S
    PROVE  /\ Touch(s, e) \in Seq(S)
           /\ IsInjective(Touch(s, e))
           /\ ToSet(Touch(s, e)) = ToSet(s) \cup {e}
BY RemoveFirstProperties, AppendNew DEF Touch

LEMMA FirstOfProperties ==
    ASSUME NEW S, NEW s \in Seq(S), NEW n \in Nat
    PROVE  /\ FirstOf(s, n) \in Seq(S)
           /\ ToSet(FirstOf(s, n)) \subseteq ToSet(s)
BY DEF FirstOf, ToSet

LEMMA LastOfProperties ==
    ASSUME NEW S, NEW s \in Seq(S), NEW n \in Nat
    PROVE  /\ LastOf(s, n) \in Seq(S)
           /\ Len(LastOf(s, n)) <= n
           /\ ToSet(LastOf(s, n)) \subseteq ToSet(s)
<1> DEFINE m == IF Len(s) < n THEN 1 ELSE Len(s) - n + 1
<1>1. m \in 1..(Len(s) + 1) /\ Len(s) - m + 1 <= n /\ Len(s) \in Nat
  OBVIOUS
<1>2. /\ LastOf(s, n) = SubSeq(s, m, Len(s))
      /\ \A i \in m..Len(s) : s[i] \in S
  BY <1>1 DEF LastOf
<1> HIDE DEF m
<1>3. /\ LastOf(s, n) \in Seq(S)
      /\ Len(LastOf(s, n)) = IF m <= Len(s) THEN Len(s) - m + 1 ELSE 0
      /\ \A i \in 1..(Len(s) - m + 1) : LastOf(s, n)[i] = s[m + i - 1]
  BY <1>1, <1>2, SubSeqProperties
<1>4. ASSUME NEW x \in ToSet(LastOf(s, n)) PROVE x \in ToSet(s)
  <2>1. PICK i \in 1..Len(LastOf(s, n)) : LastOf(s, n)[i] = x
    BY <1>3, PositionIn
  <2>2. m \in Nat /\ i \in Nat /\ i \in 1..(Len(s) - m + 1)
    BY <1>1, <1>3, <2>1
  <2>3. x = s[m + i - 1]
    BY <1>3, <2>1, <2>2
  <2>4. m + i - 1 \in 1..Len(s)
    BY <1>1, <2>2
  <2>5. QED
    BY <2>3, <2>4, PositionIn
<1>5. QED
  BY <1>1, <1>3, <1>4

LEMMA HeadOfBatch ==
    ASSUME NEW S, NEW s \in Seq(S), s # <<>>
    PROVE  /\ Head(s) \in ToSet(s) /\ Head(s) \in S
           /\ Tail(s) \in Seq(S) /\ ToSet(Tail(s)) \subseteq ToSet(s)
BY DEF ToSet

-----------------------------------------------------------------------------
(* Type correctness.                                                       *)

(* A delivery at work is of a receipt, under a plan id.                    *)
Working ==
    \A d \in Deliverer :
        deliver[d].step # "idle" => deliver[d].receipt \in Receipt /\ deliver[d].plan \in Plan

TypeInv == TypeOK /\ Working

(* What a step of a deliverer leaves of its own and the others' work.      *)
LEMMA TurnType ==
    ASSUME TypeInv, NEW d \in Deliverer, NEW step \in DeliverStep, Turn(d, step),
           deliver[d].step # "idle"
    PROVE  deliver' \in [Deliverer -> Delivery] /\ Working'
BY DEF TypeInv, TypeOK, Working, Turn, Delivery

LEMMA IdleType ==
    ASSUME TypeInv, NEW d \in Deliverer, deliver' = [deliver EXCEPT ![d] = IdleDelivery]
    PROVE  deliver' \in [Deliverer -> Delivery] /\ Working'
<1>1. IdleDelivery \in Delivery
  BY DEF IdleDelivery, Delivery, DeliverStep
<1>2. QED
  BY <1>1 DEF TypeInv, TypeOK, Working, IdleDelivery

(* A batch that goes on, or ends, is a batch.                              *)
LEMMA NextInBatchType ==
    ASSUME NEW W, NEW steps, "idle" \in steps, NEW work \in [W -> Batch(steps)], NEW w \in W,
           NEW step, At(work, w, step), NEW first \in steps
    PROVE  NextInBatch(work, w, first) \in [W -> Batch(steps)]
<1>1. work[w].batch \in Seq(Plan) /\ work[w].batch # <<>>
  BY DEF Batch, At
<1>2. Tail(work[w].batch) \in Seq(Plan)
  BY <1>1
<1>3. IdleBatch \in Batch(steps) /\ [step |-> first, batch |-> Tail(work[w].batch)] \in Batch(steps)
  BY <1>2, EmptySeq DEF IdleBatch, Batch
<1>4. QED
  BY <1>3 DEF NextInBatch

LEMMA InitType == Init => TypeInv
<1> SUFFICES ASSUME Init PROVE TypeInv
  OBVIOUS
<1>1. <<>> \in Seq(Plan) /\ Len(<<>>) = 0 /\ IsInjective(<<>>)
  BY EmptySeq DEF IsInjective
<1>2. IdleDelivery \in Delivery /\ IdleDelivery.step = "idle"
  BY DEF IdleDelivery, Delivery, DeliverStep
<1>3. \A steps : "idle" \in steps => IdleBatch \in Batch(steps)
  BY <1>1 DEF IdleBatch, Batch
<1>4. consume \in [Consumer -> Batch({"idle", "check", "write", "remove"})]
  BY <1>3 DEF Init
<1>5. forward \in [Forwarder -> Batch({"idle", "inbox", "mark"})]
  BY <1>3 DEF Init
<1>6. request \in [Request -> AuthorizationFile]
  BY DEF Init, AuthorizationFile
<1>7. deliver \in [Deliverer -> Delivery] /\ Working
  BY <1>2 DEF Init, Working
<1>8. Len(bundle) <= TailLimit
  BY <1>1, QueueAssumption DEF Init
<1>9. QED
  BY <1>1, <1>4, <1>5, <1>6, <1>7, <1>8 DEF Init, TypeInv, TypeOK

LEMMA TypeInductive == TypeInv /\ [Next]_vars => TypeInv'
<1> SUFFICES ASSUME TypeInv, [Next]_vars PROVE TypeInv'
  OBVIOUS
<1> USE DEF TypeInv
<1>1. ASSUME NEW x \in Request, NEW ref \in Receipt, NEW r \in Receipt, MakeRequest(x, ref, r)
      PROVE  TypeInv'
  BY <1>1 DEF TypeOK, Working, MakeRequest, AuthorizationFile
<1>2. CASE AttachRequest
  BY <1>2 DEF TypeOK, Working, AttachRequest
<1>3. CASE MakerStops
  BY <1>3 DEF TypeOK, Working, MakerStops
<1>4. ASSUME NEW x \in Request, RemoveRequest(x) PROVE TypeInv'
  BY <1>4 DEF TypeOK, Working, RemoveRequest, AuthorizationFile
<1>5. ASSUME NEW d \in Deliverer, Deliver(d) PROVE TypeInv'
  <2> USE DEF files
  <2>1. ASSUME NEW r \in Receipt, NEW p \in Plan, Build(d, r, p) PROVE TypeInv'
    <3>1. [IdleDelivery EXCEPT !.step = "plan", !.receipt = r, !.plan = p] \in Delivery
      BY EmptySeq DEF IdleDelivery, Delivery, DeliverStep
    <3>2. QED
      BY <2>1, <3>1 DEF Build, TypeOK, Working, IdleDelivery
  <2>2. CASE SavePlan(d)
    <3>1. deliver' \in [Deliverer -> Delivery] /\ Working'
      BY <2>2, TurnType DEF SavePlan, DeliverStep
    <3>2. QED
      BY <2>2, <3>1 DEF SavePlan, TypeOK, Working
  <2>3. CASE AppendIndex(d)
    <3>1. deliver' \in [Deliverer -> Delivery] /\ Working'
      BY <2>3, TurnType DEF AppendIndex, DeliverStep
    <3>2. QED
      BY <2>3, <3>1 DEF AppendIndex, TypeOK, Working
  <2>4. CASE SavePack(d)
    <3>1. deliver' \in [Deliverer -> Delivery] /\ Working'
      BY <2>4, TurnType DEF SavePack, DeliverStep
    <3>2. QED
      BY <2>4, <3>1 DEF SavePack, TypeOK, Working
  <2>5. CASE RouteCheck(d)
    <3>1. attached[deliver[d].receipt] \in Request \cup {Null}
      BY <2>5 DEF RouteCheck, TypeOK, Working
    <3>2. PICK x : x = [deliver[d] EXCEPT !.step = "queue",
                                          !.request = attached[deliver[d].receipt]]
      OBVIOUS
    <3>3. deliver[d] \in Delivery /\ deliver[d].step = "route"
      BY <2>5 DEF RouteCheck, TypeOK
    <3>4. x \in Delivery /\ x.receipt = deliver[d].receipt /\ x.plan = deliver[d].plan
      BY <3>1, <3>2, <3>3 DEF Delivery, DeliverStep
    <3>5. deliver' = [deliver EXCEPT ![d] = x]
      BY <2>5, <3>2 DEF RouteCheck
    <3>6. deliver' \in [Deliverer -> Delivery] /\ Working'
      BY <3>3, <3>4, <3>5 DEF TypeOK, Working
    <3>7. QED
      BY <2>5, <3>6 DEF RouteCheck, TypeOK
  <2>6. CASE RouteWrite(d)
    <3>1. deliver[d].plan \in Plan /\ deliver[d].request \in Request \cup {Null}
      BY <2>6 DEF RouteWrite, TypeOK, Working, Delivery
    <3>2. deliver' \in [Deliverer -> Delivery] /\ Working'
      BY <2>6, TurnType, IdleType DEF RouteWrite, DeliverStep
    <3>3. pending' \in Seq(Plan) /\ IsInjective(pending')
      BY <2>6, <3>1, TouchProperties DEF RouteWrite, TypeOK
    <3>4. named' \in [Plan -> Request \cup {Null}]
      BY <2>6, <3>1 DEF RouteWrite, TypeOK
    <3>5. QED
      BY <2>6, <3>2, <3>3, <3>4 DEF RouteWrite, TypeOK
  <2>7. CASE BundleRead(d)
    <3>1. deliver' \in [Deliverer -> Delivery] /\ Working'
      BY <2>7 DEF BundleRead, TypeOK, Working, Delivery, DeliverStep
    <3>2. QED
      BY <2>7, <3>1 DEF BundleRead, TypeOK
  <2>8. CASE BundleWrite(d)
    <3>1. deliver[d].plan \in Plan /\ deliver[d].tail \in Seq(Plan)
      BY <2>8 DEF BundleWrite, TypeOK, Working, Delivery
    <3>2. Append(deliver[d].tail, deliver[d].plan) \in Seq(Plan)
      BY <3>1
    <3>3. bundle' \in Seq(Plan) /\ Len(bundle') <= TailLimit
      BY <2>8, <3>2, LastOfProperties, QueueAssumption DEF BundleWrite
    <3>4. deliver' \in [Deliverer -> Delivery] /\ Working'
      BY <2>8, IdleType DEF BundleWrite
    <3>5. QED
      BY <2>8, <3>3, <3>4 DEF BundleWrite, TypeOK
  <2>9. CASE DelivererStops(d)
    <3>1. deliver' \in [Deliverer -> Delivery] /\ Working'
      BY <2>9, IdleType DEF DelivererStops
    <3>2. QED
      BY <2>9, <3>1 DEF DelivererStops, TypeOK
  <2>10. QED
    BY <1>5, <2>1, <2>2, <2>3, <2>4, <2>5, <2>6, <2>7, <2>8, <2>9 DEF Deliver
<1>6. ASSUME NEW c \in Consumer, Consume(c) PROVE TypeInv'
  <2> USE DEF files
  <2> DEFINE Steps == {"idle", "check", "write", "remove"}
  <2>a. consume \in [Consumer -> Batch(Steps)]
    BY DEF TypeOK
  <2>b. IdleBatch \in Batch(Steps)
    BY EmptySeq DEF IdleBatch, Batch
  <2>1. CASE ConsumeScan(c)
    <3>1. FirstOf(pending, Limit) \in Seq(Plan)
      BY FirstOfProperties, QueueAssumption DEF TypeOK
    <3>2. consume' \in [Consumer -> Batch(Steps)]
      BY <2>1, <2>a, <3>1 DEF ConsumeScan, Batch
    <3>3. QED
      BY <2>1, <3>2 DEF ConsumeScan, TypeOK, Working
  <2>2. CASE ConsumeCheck(c)
    <3>1. consume' \in [Consumer -> Batch(Steps)]
      BY <2>2, <2>a DEF ConsumeCheck, Batch
    <3>2. QED
      BY <2>2, <3>1 DEF ConsumeCheck, TypeOK, Working
  <2>3. CASE ConsumeRaises(c)
    <3>1. consume' \in [Consumer -> Batch(Steps)]
      BY <2>3, <2>a, <2>b DEF ConsumeRaises
    <3>2. QED
      BY <2>3, <3>1 DEF ConsumeRaises, TypeOK, Working
  <2>4. CASE ConsumeWrite(c)
    <3>1. Head(consume[c].batch) \in Plan
      BY <2>4, <2>a, HeadOfBatch DEF ConsumeWrite, At, Batch
    <3>2. processed' \in Seq(Plan) /\ IsInjective(processed')
      BY <2>4, <3>1, TouchProperties DEF ConsumeWrite, TypeOK
    <3>3. consume' \in [Consumer -> Batch(Steps)]
      BY <2>4, <2>a DEF ConsumeWrite, Batch
    <3>4. QED
      BY <2>4, <3>2, <3>3 DEF ConsumeWrite, TypeOK, Working
  <2>5. CASE ConsumeRemove(c)
    <3>1. pending' \in Seq(Plan) /\ IsInjective(pending')
      BY <2>5, RemoveFirstProperties DEF ConsumeRemove, TypeOK
    <3>2. consume' \in [Consumer -> Batch(Steps)]
      BY <2>5, <2>a, NextInBatchType DEF ConsumeRemove
    <3>3. QED
      BY <2>5, <3>1, <3>2 DEF ConsumeRemove, TypeOK, Working
  <2>6. CASE ConsumeKeeps(c)
    <3>1. consume' \in [Consumer -> Batch(Steps)]
      BY <2>6, <2>a, NextInBatchType DEF ConsumeKeeps
    <3>2. QED
      BY <2>6, <3>1 DEF ConsumeKeeps, TypeOK, Working
  <2>7. CASE ConsumerStops(c)
    <3>1. consume' \in [Consumer -> Batch(Steps)]
      BY <2>7, <2>a, <2>b DEF ConsumerStops
    <3>2. QED
      BY <2>7, <3>1 DEF ConsumerStops, TypeOK, Working
  <2>8. QED
    BY <1>6, <2>1, <2>2, <2>3, <2>4, <2>5, <2>6, <2>7 DEF Consume
<1>7. ASSUME NEW f \in Forwarder, Forward(f) PROVE TypeInv'
  <2> USE DEF files
  <2> DEFINE Steps == {"idle", "inbox", "mark"}
  <2>a. forward \in [Forwarder -> Batch(Steps)]
    BY DEF TypeOK
  <2>b. IdleBatch \in Batch(Steps)
    BY EmptySeq DEF IdleBatch, Batch
  <2>c. ASSUME NEW step, At(forward, f, step) PROVE Head(forward[f].batch) \in Plan
    BY <2>a, <2>c, HeadOfBatch DEF At, Batch
  <2>1. CASE ForwardScan(f)
    <3>1. FirstOf(processed, Limit) \in Seq(Plan)
      BY FirstOfProperties, QueueAssumption DEF TypeOK
    <3>2. forward' \in [Forwarder -> Batch(Steps)]
      BY <2>1, <2>a, <3>1 DEF ForwardScan, Batch
    <3>3. QED
      BY <2>1, <3>2 DEF ForwardScan, TypeOK, Working
  <2>2. CASE ForwardInbox(f)
    <3>1. forward' \in [Forwarder -> Batch(Steps)]
      BY <2>2, <2>a DEF ForwardInbox, Batch
    <3>2. QED
      BY <2>2, <2>c, <3>1 DEF ForwardInbox, TypeOK, Working
  <2>3. CASE ForwardMark(f)
    <3>1. Head(forward[f].batch) \in Plan
      BY <2>3, <2>c DEF ForwardMark
    <3>2. processed' \in Seq(Plan) /\ IsInjective(processed')
      BY <2>3, <3>1, TouchProperties DEF ForwardMark, TypeOK
    <3>3. forward' \in [Forwarder -> Batch(Steps)]
      BY <2>3, <2>a, NextInBatchType DEF ForwardMark
    <3>4. QED
      BY <2>3, <3>1, <3>2, <3>3 DEF ForwardMark, TypeOK, Working
  <2>4. CASE ForwardUnmarked(f)
    <3>1. forward' \in [Forwarder -> Batch(Steps)]
      BY <2>4, <2>a, NextInBatchType DEF ForwardUnmarked
    <3>2. QED
      BY <2>4, <3>1 DEF ForwardUnmarked, TypeOK, Working
  <2>5. CASE ForwarderStops(f)
    <3>1. forward' \in [Forwarder -> Batch(Steps)]
      BY <2>5, <2>a, <2>b DEF ForwarderStops
    <3>2. QED
      BY <2>5, <3>1 DEF ForwarderStops, TypeOK, Working
  <2>6. QED
    BY <1>7, <2>1, <2>2, <2>3, <2>4, <2>5 DEF Forward
<1>8. CASE UNCHANGED vars
  BY <1>8 DEF vars, files, TypeOK, Working
<1>9. QED
  BY <1>1, <1>2, <1>3, <1>4, <1>5, <1>6, <1>7, <1>8 DEF Next

(* Every reachable state of the queue has its type.                        *)
THEOREM Typed == Spec => []TypeOK
<1>1. TypeInv => TypeOK
  BY DEF TypeInv
<1>2. QED
  BY <1>1, InitType, TypeInductive, PTL DEF Spec

-----------------------------------------------------------------------------
(* The inductive invariant.                                                *)

Given(x) == x # Null /\ request[x].status # "absent"
Building == {"plan", "index", "pack", "route", "queue"}

(* A delivery at work has its plan id for itself, and has left on disk     *)
(* what the steps before this one write: nothing is queued of a plan that  *)
(* is still being built, and what the bundle will name has been queued.    *)
Delivering(d) ==
    LET p == deliver[d].plan
        r == deliver[d].receipt
        at == deliver[d].step
    IN  /\ at # "idle" => \A e \in Deliverer \ {d} : deliver[e].plan # p
        /\ at \in Building => p \notin Queued
        /\ at = "plan" => plan[p] = Null
        /\ at \notin {"idle", "plan"} => plan[p] = r
        /\ at \in {"pack", "route", "queue"} => p \in indexed
        /\ at \in {"route", "queue"} => p \in packed
        /\ at = "queue" /\ r \in ExecReceipt => Given(deliver[d].request)
        /\ at \in {"scene", "bundle"} => p \in Queued
        /\ at = "bundle" => ToSet(deliver[d].tail) \subseteq Queued

(* A batch names what was queued, also if it is gone from the queue by now;*)
(* a queue item is removed only once its artifact is there.                *)
Consuming(c) ==
    /\ ToSet(consume[c].batch) \subseteq Queued
    /\ At(consume, c, "remove") => Head(consume[c].batch) \in Processed

(* What is marked as forwarded is in the inbox.                            *)
Forwarding(f) ==
    /\ ToSet(forward[f].batch) \subseteq Processed
    /\ At(forward, f, "mark") => Head(forward[f].batch) \in inbox

WorkInv ==
    /\ \A d \in Deliverer : Delivering(d)
    /\ \A c \in Consumer : Consuming(c)
    /\ \A f \in Forwarder : Forwarding(f)

IInv == TypeInv /\ Traceable /\ GateHeld /\ WorkInv

-----------------------------------------------------------------------------
(* What the steps do to the files.                                         *)

Grows ==
    /\ Queued \subseteq Queued' /\ Processed \subseteq Processed'
    /\ indexed \subseteq indexed' /\ packed \subseteq packed' /\ inbox \subseteq inbox'
    /\ \A x \in Request : Given(x) => Given(x)'
    /\ \A p \in Plan : plan[p] # Null => plan'[p] = plan[p]

LEMMA RouteWriteEffect ==
    ASSUME TypeInv, NEW d \in Deliverer, RouteWrite(d)
    PROVE  /\ deliver[d].plan \in Plan
           /\ Pending' = Pending \cup {deliver[d].plan} /\ Processed' = Processed
           /\ Queued' = Queued \cup {deliver[d].plan}
<1>1. deliver[d].plan \in Plan
  BY DEF RouteWrite, TypeInv, Working
<1>2. ToSet(pending') = ToSet(pending) \cup {deliver[d].plan}
  BY <1>1, TouchProperties DEF RouteWrite, TypeInv, TypeOK
<1>3. QED
  BY <1>1, <1>2 DEF RouteWrite, Pending, Processed, Queued

LEMMA ConsumerHead ==
    ASSUME TypeInv, NEW c \in Consumer, consume[c].batch # <<>>
    PROVE  /\ Head(consume[c].batch) \in Plan
           /\ Head(consume[c].batch) \in ToSet(consume[c].batch)
           /\ ToSet(Tail(consume[c].batch)) \subseteq ToSet(consume[c].batch)
<1>1. consume[c].batch \in Seq(Plan)
  BY DEF TypeInv, TypeOK, Batch
<1>2. QED
  BY <1>1, HeadOfBatch

LEMMA ForwarderHead ==
    ASSUME TypeInv, NEW f \in Forwarder, forward[f].batch # <<>>
    PROVE  /\ Head(forward[f].batch) \in Plan
           /\ Head(forward[f].batch) \in ToSet(forward[f].batch)
           /\ ToSet(Tail(forward[f].batch)) \subseteq ToSet(forward[f].batch)
<1>1. forward[f].batch \in Seq(Plan)
  BY DEF TypeInv, TypeOK, Batch
<1>2. QED
  BY <1>1, HeadOfBatch

LEMMA ConsumeWriteEffect ==
    ASSUME TypeInv, NEW c \in Consumer, ConsumeWrite(c)
    PROVE  /\ Pending' = Pending
           /\ Processed' = Processed \cup {Head(consume[c].batch)}
<1>1. Head(consume[c].batch) \in Plan
  BY ConsumerHead DEF ConsumeWrite, At
<1>2. QED
  BY <1>1, TouchProperties DEF ConsumeWrite, Pending, Processed, TypeInv, TypeOK

LEMMA ConsumeRemoveEffect ==
    ASSUME TypeInv, NEW c \in Consumer, ConsumeRemove(c)
    PROVE  /\ Pending' = Pending \ {Head(consume[c].batch)}
           /\ Processed' = Processed
BY RemoveFirstProperties DEF ConsumeRemove, Pending, Processed, TypeInv, TypeOK

LEMMA ForwardMarkEffect ==
    ASSUME TypeInv, NEW f \in Forwarder, ForwardMark(f)
    PROVE  /\ Pending' = Pending
           /\ Processed' = Processed \cup {Head(forward[f].batch)}
<1>1. Head(forward[f].batch) \in Plan
  BY ForwarderHead DEF ForwardMark, At
<1>2. QED
  BY <1>1, TouchProperties DEF ForwardMark, Pending, Processed, TypeInv, TypeOK

(* What the files keep when a step leaves the queues alone.                *)
LEMMA QueuesKept ==
    ASSUME UNCHANGED <<pending, processed>>
    PROVE  Pending' = Pending /\ Processed' = Processed /\ Queued' = Queued
BY DEF Pending, Processed, Queued

(* A deliverer's step leaves the other deliveries as they are, as far as   *)
(* they look at the files, since it touches its own plan only.             *)
LEMMA OthersDeliver ==
    ASSUME IInv, Grows, NEW d \in Deliverer,
           \A e \in Deliverer \ {d} : deliver'[e] = deliver[e],
           deliver'[d].plan \in {deliver[d].plan, Null},
           \A p \in Plan \ {deliver[d].plan} : plan'[p] = plan[p] /\ (p \in Queued' => p \in Queued),
           deliver[d].step # "idle"
    PROVE  \A e \in Deliverer \ {d} : Delivering(e)'
<1> SUFFICES ASSUME NEW e \in Deliverer \ {d} PROVE Delivering(e)'
  OBVIOUS
<1>1. Delivering(e) /\ deliver'[e] = deliver[e] /\ deliver[d].plan \in Plan
  BY DEF IInv, WorkInv, TypeInv, Working
<1>2. CASE deliver[e].step = "idle"
  BY <1>1, <1>2 DEF Delivering, Building
<1>3. CASE deliver[e].step # "idle"
  <2>1. deliver[e].plan \in Plan /\ deliver[e].plan # deliver[d].plan
    BY <1>1, <1>3 DEF IInv, TypeInv, Working, Delivering
  <2>2. \A o \in Deliverer \ {e} : deliver'[o].plan # deliver[e].plan
    <3>1. Null \notin Plan
      BY QueueAssumption
    <3>2. QED
      BY <1>1, <1>3, <2>1, <3>1 DEF Delivering
  <2>3. deliver[e].request # Null => deliver[e].request \in Request
    BY DEF IInv, TypeInv, TypeOK, Delivery
  <2>4. Given(deliver[e].request) => Given(deliver[e].request)'
    BY <1>1, <2>3 DEF Grows, Given
  <2>5. QED
    BY <1>1, <2>1, <2>2, <2>4 DEF Delivering, Grows
<1>4. QED
  BY <1>2, <1>3

(* A step of others leaves every delivery as it is.                        *)
LEMMA AllDeliver ==
    ASSUME IInv, Grows, deliver' = deliver, plan' = plan, Queued' = Queued
    PROVE  \A e \in Deliverer : Delivering(e)'
<1> SUFFICES ASSUME NEW e \in Deliverer PROVE Delivering(e)'
  OBVIOUS
<1>1. Delivering(e)
  BY DEF IInv, WorkInv
<1>2. Given(deliver[e].request) => Given(deliver[e].request)'
  BY DEF IInv, TypeInv, TypeOK, Delivery, Grows, Given
<1>3. QED
  BY <1>1, <1>2 DEF Delivering, Grows

(* Batches that a step leaves alone stay sound as the files grow.          *)
LEMMA ConsumersKeep ==
    ASSUME IInv, Grows, NEW C \in SUBSET Consumer, \A c \in C : consume'[c] = consume[c]
    PROVE  \A c \in C : Consuming(c)'
BY DEF IInv, WorkInv, Consuming, At, Grows

LEMMA ForwardersKeep ==
    ASSUME IInv, Grows, NEW F \in SUBSET Forwarder, \A f \in F : forward'[f] = forward[f]
    PROVE  \A f \in F : Forwarding(f)'
BY DEF IInv, WorkInv, Forwarding, At, Grows

(* The gate's verdict on what is queued is not undone.                     *)
LEMMA GateKeeps ==
    ASSUME IInv, Grows, named' = named, Queued' = Queued
    PROVE  GateHeld'
<1> SUFFICES ASSUME NEW p \in Queued, plan'[p] \in ExecReceipt
             PROVE  named[p] # Null /\ request'[named[p]].status # "absent"
  BY DEF GateHeld
<1>1. p \in Plan /\ plan'[p] = plan[p]
  BY DEF IInv, Traceable, TypeInv, TypeOK, Grows
<1>2. Given(named[p]) /\ named[p] \in Request
  BY <1>1 DEF IInv, GateHeld, Given, TypeInv, TypeOK
<1>3. QED
  BY <1>2 DEF Grows, Given

-----------------------------------------------------------------------------
(* Each command keeps the invariant.                                       *)

LEMMA InitInv == Init => IInv
<1> SUFFICES ASSUME Init PROVE IInv
  OBVIOUS
<1>1. TypeInv
  BY InitType
<1>2. ToSet(<<>>) = {}
  BY DEF ToSet
<1>3. Queued = {} /\ Processed = {}
  BY <1>2 DEF Init, Queued, Pending, Processed
<1>4. Traceable /\ GateHeld
  BY <1>2, <1>3 DEF Init, Traceable, GateHeld
<1>5. \A d \in Deliverer : deliver[d].step = "idle"
  BY DEF Init, IdleDelivery
<1>6. \A d \in Deliverer : Delivering(d)
  BY <1>5 DEF Delivering, Building
<1>7. \A c \in Consumer : Consuming(c)
  BY <1>2 DEF Init, Consuming, At, IdleBatch
<1>8. \A f \in Forwarder : Forwarding(f)
  BY <1>2 DEF Init, Forwarding, At, IdleBatch
<1>9. QED
  BY <1>1, <1>4, <1>6, <1>7, <1>8 DEF IInv, WorkInv

(* The steps that touch neither plans nor queues nor the work under way.   *)
LEMMA MakerInv ==
    ASSUME IInv, TypeInv',
           \/ \E x \in Request, ref, r \in Receipt : MakeRequest(x, ref, r)
           \/ AttachRequest \/ MakerStops
           \/ \E x \in Request : RemoveRequest(x)
           \/ UNCHANGED vars
    PROVE  IInv'
<1>1. /\ UNCHANGED <<plan, indexed, packed, named, pending, processed, forwarded, inbox, bundle>>
      /\ UNCHANGED <<deliver, consume, forward>>
  BY DEF MakeRequest, AttachRequest, MakerStops, RemoveRequest, vars, files
<1>2. Pending' = Pending /\ Processed' = Processed /\ Queued' = Queued
  BY <1>1, QueuesKept
<1>3. \A x \in Request : Given(x) => Given(x)'
  BY DEF IInv, TypeInv, TypeOK, MakeRequest, AttachRequest, MakerStops, RemoveRequest, vars,
         files, Given, AuthorizationFile
<1>4. Grows
  BY <1>1, <1>2, <1>3 DEF Grows
<1>5. GateHeld'
  BY <1>1, <1>2, <1>4, GateKeeps
<1>6. Traceable'
  BY <1>1, <1>2 DEF IInv, Traceable
<1>7. WorkInv'
  BY <1>1, <1>2, <1>4, AllDeliver, ConsumersKeep, ForwardersKeep DEF WorkInv
<1>8. QED
  BY <1>5, <1>6, <1>7 DEF IInv

(* What a deliverer at work looks at is its own.                           *)
LEMMA OwnDelivery ==
    ASSUME IInv, NEW d \in Deliverer, deliver[d].step # "idle"
    PROVE  /\ deliver[d].plan \in Plan /\ deliver[d].receipt \in Receipt
           /\ deliver[d] \in Delivery /\ Delivering(d)
           /\ \A e \in Deliverer \ {d} : deliver[e].plan # deliver[d].plan
           /\ deliver[d].plan # Null /\ deliver[d].receipt # Null
BY QueueAssumption DEF IInv, WorkInv, TypeInv, TypeOK, Working, Delivering

LEMMA BuildInv ==
    ASSUME IInv, TypeInv', NEW d \in Deliverer, NEW r \in Receipt, NEW p \in Plan, Build(d, r, p)
    PROVE  IInv'
<1>1. UNCHANGED files /\ UNCHANGED <<consume, forward>>
  BY DEF Build
<1>2. Pending' = Pending /\ Processed' = Processed /\ Queued' = Queued
  BY <1>1, QueuesKept DEF files
<1>3. Grows
  BY <1>1, <1>2 DEF Grows, files, Given
<1>4. GateHeld' /\ Traceable'
  BY <1>1, <1>2, <1>3, GateKeeps DEF IInv, Traceable, files
<1>5. p \notin Queued
  BY DEF Build, IInv, Traceable
<1>6. /\ deliver'[d].step = "plan" /\ deliver'[d].plan = p
      /\ \A e \in Deliverer \ {d} : deliver'[e] = deliver[e] /\ deliver[e].plan # p
  BY DEF Build, IInv, TypeInv, TypeOK, IdleDelivery
<1>7. Delivering(d)'
  BY <1>1, <1>2, <1>5, <1>6 DEF Delivering, Build, files
<1>8. ASSUME NEW e \in Deliverer \ {d} PROVE Delivering(e)'
  <2>1. Delivering(e)
    BY DEF IInv, WorkInv
  <2>2. QED
    BY <1>1, <1>2, <1>6, <2>1 DEF Delivering, Given, files
<1>9. \A e \in Deliverer : Delivering(e)'
  BY <1>7, <1>8
<1>10. QED
  BY <1>1, <1>3, <1>4, <1>9, ConsumersKeep, ForwardersKeep DEF IInv, WorkInv

LEMMA SavePlanInv ==
    ASSUME IInv, TypeInv', NEW d \in Deliverer, SavePlan(d)
    PROVE  IInv'
<1> DEFINE p == deliver[d].plan
<1>1. /\ deliver[d].step = "plan" /\ deliver[d].step # "idle"
      /\ UNCHANGED <<request, attached, maker, indexed, packed, named, pending, processed,
                     forwarded, inbox, bundle, consume, forward>>
  BY DEF SavePlan
<1>2. p \in Plan /\ p \notin Queued /\ plan[p] = Null /\ deliver[d].receipt # Null
  BY <1>1, OwnDelivery DEF Delivering, Building
<1>3. Pending' = Pending /\ Processed' = Processed /\ Queued' = Queued
  BY <1>1, QueuesKept
<1>4. plan'[p] = deliver[d].receipt /\ \A q \in Plan \ {p} : plan'[q] = plan[q]
  BY <1>2 DEF SavePlan, IInv, TypeInv, TypeOK
<1>5. Grows
  BY <1>1, <1>2, <1>3, <1>4 DEF Grows, Given
<1>6. GateHeld'
  BY <1>1, <1>3, <1>5, GateKeeps
<1>7. Traceable'
  BY <1>1, <1>2, <1>3, <1>4 DEF IInv, Traceable, TypeInv, TypeOK
<1>8. /\ deliver'[d].step = "index" /\ deliver'[d].plan = p
      /\ deliver'[d].receipt = deliver[d].receipt
      /\ \A e \in Deliverer \ {d} : deliver'[e] = deliver[e]
  BY DEF SavePlan, Turn, IInv, TypeInv, TypeOK, Delivery
<1>9. Delivering(d)'
  BY <1>1, <1>2, <1>3, <1>4, <1>8, OwnDelivery DEF Delivering
<1>10. \A e \in Deliverer : Delivering(e)'
  BY <1>1, <1>3, <1>4, <1>5, <1>8, <1>9, OthersDeliver
<1>11. QED
  BY <1>1, <1>5, <1>6, <1>7, <1>10, ConsumersKeep, ForwardersKeep DEF IInv, WorkInv

(* Indexing and packing.                                                   *)
LEMMA RecordInv ==
    ASSUME IInv, TypeInv', NEW d \in Deliverer, AppendIndex(d) \/ SavePack(d)
    PROVE  IInv'
<1> DEFINE p == deliver[d].plan
<1>1. /\ deliver[d].step \in {"index", "pack"} /\ deliver[d].step # "idle"
      /\ UNCHANGED <<request, attached, maker, plan, named, pending, processed,
                     forwarded, inbox, bundle, consume, forward>>
  BY DEF AppendIndex, SavePack
<1>2. p \in Plan /\ p \notin Queued /\ plan[p] = deliver[d].receipt /\ plan[p] # Null
  BY <1>1, OwnDelivery DEF Delivering, Building
<1>3. Pending' = Pending /\ Processed' = Processed /\ Queued' = Queued
  BY <1>1, QueuesKept
<1>4. /\ indexed \subseteq indexed' /\ indexed' \subseteq indexed \cup {p}
      /\ packed \subseteq packed' /\ packed' \subseteq packed \cup {p}
  BY DEF AppendIndex, SavePack
<1>5. Grows
  BY <1>1, <1>3, <1>4 DEF Grows, Given
<1>6. GateHeld'
  BY <1>1, <1>3, <1>5, GateKeeps
<1>7. Traceable'
  BY <1>1, <1>2, <1>3, <1>4 DEF IInv, Traceable
<1>8. /\ deliver'[d].plan = p /\ deliver'[d].receipt = deliver[d].receipt
      /\ \A e \in Deliverer \ {d} : deliver'[e] = deliver[e]
      /\ \/ deliver'[d].step = "pack" /\ p \in indexed'
         \/ deliver'[d].step = "route" /\ p \in indexed' /\ p \in packed'
  <2>1. CASE AppendIndex(d)
    BY <2>1 DEF AppendIndex, Turn, IInv, TypeInv, TypeOK, Delivery
  <2>2. CASE SavePack(d)
    <3>1. p \in indexed
      BY <2>2, OwnDelivery DEF SavePack, Delivering
    <3>2. QED
      BY <2>2, <3>1 DEF SavePack, Turn, IInv, TypeInv, TypeOK, Delivery
  <2>3. QED
    BY <2>1, <2>2
<1>9. Delivering(d)'
  BY <1>1, <1>2, <1>3, <1>8, OwnDelivery DEF Delivering
<1>10. \A e \in Deliverer : Delivering(e)'
  BY <1>1, <1>3, <1>5, <1>8, <1>9, OthersDeliver
<1>11. QED
  BY <1>1, <1>5, <1>6, <1>7, <1>10, ConsumersKeep, ForwardersKeep DEF IInv, WorkInv

(* The gate of queue time, and reading the bundle: nothing is written.     *)
LEMMA LookInv ==
    ASSUME IInv, TypeInv', NEW d \in Deliverer, RouteCheck(d) \/ BundleRead(d)
    PROVE  IInv'
<1> DEFINE p == deliver[d].plan
<1>1. UNCHANGED files /\ UNCHANGED <<consume, forward>> /\ deliver[d].step # "idle"
  BY DEF RouteCheck, BundleRead
<1>2. Pending' = Pending /\ Processed' = Processed /\ Queued' = Queued
  BY <1>1, QueuesKept DEF files
<1>3. Grows
  BY <1>1, <1>2 DEF Grows, files, Given
<1>4. GateHeld' /\ Traceable'
  BY <1>1, <1>2, <1>3, GateKeeps DEF IInv, Traceable, files
<1>5. /\ deliver'[d].plan = p /\ deliver'[d].receipt = deliver[d].receipt
      /\ \A e \in Deliverer \ {d} : deliver'[e] = deliver[e]
  BY DEF RouteCheck, BundleRead, IInv, TypeInv, TypeOK, Delivery
<1>6. Delivering(d)'
  <2>1. CASE RouteCheck(d)
    <3>1. /\ deliver[d].step = "route" /\ deliver'[d].step = "queue"
          /\ deliver'[d].request = attached[deliver[d].receipt]
      BY <2>1 DEF RouteCheck, IInv, TypeInv, TypeOK, Delivery
    <3>2. deliver[d].receipt \in ExecReceipt => Given(attached[deliver[d].receipt])
      BY <2>1 DEF RouteCheck, Authorized, ExecutionChannel, Live, Given
    <3>3. QED
      BY <1>1, <1>2, <1>5, <3>1, <3>2, OwnDelivery DEF Delivering, Building, Given, files
  <2>2. CASE BundleRead(d)
    <3>1. /\ deliver[d].step = "scene" /\ deliver'[d].step = "bundle"
          /\ deliver'[d].tail = bundle /\ ToSet(bundle) \subseteq Queued
      BY <2>2 DEF BundleRead, IInv, Traceable, TypeInv, TypeOK, Delivery
    <3>2. QED
      BY <1>1, <1>2, <1>5, <3>1, OwnDelivery DEF Delivering, Building, files
  <2>3. QED
    BY <2>1, <2>2
<1>7. \A e \in Deliverer : Delivering(e)'
  BY <1>1, <1>2, <1>3, <1>5, <1>6, OthersDeliver DEF files
<1>8. QED
  BY <1>1, <1>3, <1>4, <1>7, ConsumersKeep, ForwardersKeep DEF IInv, WorkInv

LEMMA RouteWriteInv ==
    ASSUME IInv, TypeInv', NEW d \in Deliverer, RouteWrite(d)
    PROVE  IInv'
<1> DEFINE p == deliver[d].plan
<1>1. /\ deliver[d].step = "queue" /\ deliver[d].step # "idle"
      /\ UNCHANGED <<request, attached, maker, plan, indexed, packed, processed,
                     forwarded, inbox, bundle, consume, forward>>
  BY DEF RouteWrite
<1>2. /\ p \in Plan /\ p \notin Queued /\ plan[p] = deliver[d].receipt
      /\ p \in indexed /\ p \in packed
      /\ plan[p] \in ExecReceipt => Given(deliver[d].request)
  BY <1>1, OwnDelivery DEF Delivering, Building
<1>3. Processed' = Processed /\ Queued' = Queued \cup {p}
  BY RouteWriteEffect DEF IInv
<1>4. Grows
  BY <1>1, <1>3 DEF Grows, Given
<1>5. named'[p] = deliver[d].request /\ \A q \in Plan \ {p} : named'[q] = named[q]
  BY <1>2 DEF RouteWrite, IInv, TypeInv, TypeOK
<1>6. GateHeld'
  <2>1. SUFFICES ASSUME NEW q \in Queued', plan[q] \in ExecReceipt
                 PROVE  named'[q] # Null /\ request[named'[q]].status # "absent"
    BY <1>1 DEF GateHeld
  <2>2. CASE q = p
    BY <1>2, <1>5, <2>1, <2>2 DEF Given
  <2>3. CASE q # p
    <3>1. q \in Queued /\ q \in Plan
      BY <1>3, <2>3 DEF IInv, Traceable, TypeInv, TypeOK
    <3>2. QED
      BY <1>5, <2>1, <2>3, <3>1 DEF IInv, GateHeld
  <2>4. QED
    BY <2>2, <2>3
<1>7. Traceable'
  BY <1>1, <1>2, <1>3 DEF IInv, Traceable
<1>8. /\ \A e \in Deliverer \ {d} : deliver'[e] = deliver[e]
      /\ deliver'[d].plan \in {p, Null}
      /\ \/ deliver'[d].step = "idle"
         \/ deliver'[d].step = "scene" /\ deliver'[d].plan = p
            /\ deliver'[d].receipt = deliver[d].receipt
  BY DEF RouteWrite, Turn, IInv, TypeInv, TypeOK, Delivery, IdleDelivery
<1>9. Delivering(d)'
  BY <1>1, <1>2, <1>3, <1>8, OwnDelivery DEF Delivering, Building
<1>10. \A e \in Deliverer : Delivering(e)'
  BY <1>1, <1>3, <1>4, <1>8, <1>9, OthersDeliver
<1>11. QED
  BY <1>1, <1>4, <1>6, <1>7, <1>10, ConsumersKeep, ForwardersKeep DEF IInv, WorkInv

(* A delivery ends: after the bundle is written, or stopped.               *)
LEMMA DeliveryEnds ==
    ASSUME IInv, TypeInv', NEW d \in Deliverer, BundleWrite(d) \/ DelivererStops(d)
    PROVE  IInv'
<1> DEFINE p == deliver[d].plan
<1>1. /\ deliver[d].step # "idle" /\ deliver' = [deliver EXCEPT ![d] = IdleDelivery]
      /\ UNCHANGED <<request, attached, maker, plan, indexed, packed, named, pending,
                     processed, forwarded, inbox, consume, forward>>
  BY DEF BundleWrite, DelivererStops, files
<1>2. Pending' = Pending /\ Processed' = Processed /\ Queued' = Queued
  BY <1>1, QueuesKept
<1>3. Grows
  BY <1>1, <1>2 DEF Grows, Given
<1>4. GateHeld'
  BY <1>1, <1>2, <1>3, GateKeeps
<1>5. ToSet(bundle') \subseteq Queued
  <2>1. CASE BundleWrite(d)
    <3>1. /\ deliver[d].tail \in Seq(Plan) /\ ToSet(deliver[d].tail) \subseteq Queued
          /\ p \in Plan /\ p \in Queued
      BY <2>1, OwnDelivery DEF BundleWrite, Delivering, Delivery
    <3> DEFINE t == Append(deliver[d].tail, p)
    <3>2. t \in Seq(Plan) /\ ToSet(t) \subseteq ToSet(deliver[d].tail) \cup {p}
      BY <3>1 DEF ToSet
    <3>3. ToSet(LastOf(t, TailLimit)) \subseteq ToSet(t)
      BY <3>2, LastOfProperties, QueueAssumption
    <3>4. QED
      BY <2>1, <3>1, <3>2, <3>3 DEF BundleWrite
  <2>2. CASE DelivererStops(d)
    BY <2>2 DEF DelivererStops, files, IInv, Traceable
  <2>3. QED
    BY <2>1, <2>2
<1>6. Traceable'
  BY <1>1, <1>2, <1>5 DEF IInv, Traceable
<1>7. /\ deliver'[d].step = "idle" /\ deliver'[d].plan = Null
      /\ \A e \in Deliverer \ {d} : deliver'[e] = deliver[e]
  BY <1>1 DEF IInv, TypeInv, TypeOK, IdleDelivery
<1>8. Delivering(d)'
  BY <1>7 DEF Delivering, Building
<1>9. \A e \in Deliverer : Delivering(e)'
  BY <1>1, <1>2, <1>3, <1>7, <1>8, OthersDeliver
<1>10. QED
  BY <1>1, <1>3, <1>4, <1>6, <1>9, ConsumersKeep, ForwardersKeep DEF IInv, WorkInv

(* A consumer's step that writes no file: it lists, checks, gives up, goes *)
(* on to the next item or stops.                                           *)
LEMMA ConsumerLooks ==
    ASSUME IInv, TypeInv', NEW c \in Consumer,
           ConsumeScan(c) \/ ConsumeCheck(c) \/ ConsumeRaises(c) \/ ConsumeKeeps(c) \/ ConsumerStops(c)
    PROVE  IInv'
<1>1. UNCHANGED files /\ UNCHANGED <<deliver, forward>>
  BY DEF ConsumeScan, ConsumeCheck, ConsumeRaises, ConsumeKeeps, ConsumerStops
<1>2. Pending' = Pending /\ Processed' = Processed /\ Queued' = Queued
  BY <1>1, QueuesKept DEF files
<1>3. Grows
  BY <1>1, <1>2 DEF Grows, files, Given
<1>4. GateHeld' /\ Traceable'
  BY <1>1, <1>2, <1>3, GateKeeps DEF IInv, Traceable, files
<1>5. \A b \in Consumer \ {c} : consume'[b] = consume[b]
  BY DEF ConsumeScan, ConsumeCheck, ConsumeRaises, ConsumeKeeps, ConsumerStops, NextInBatch,
         IInv, TypeInv, TypeOK
<1>6. consume'[c].step # "remove" /\ ToSet(consume'[c].batch) \subseteq Queued
  <2>1. ToSet(consume[c].batch) \subseteq Queued /\ ToSet(<<>>) = {}
    BY DEF IInv, WorkInv, Consuming, ToSet
  <2>2. CASE ConsumeScan(c)
    <3>1. ToSet(FirstOf(pending, Limit)) \subseteq Queued
      BY FirstOfProperties, QueueAssumption DEF IInv, TypeInv, TypeOK, Queued, Pending
    <3>2. QED
      BY <2>2, <3>1 DEF ConsumeScan, IInv, TypeInv, TypeOK
  <2>3. CASE ConsumeCheck(c)
    BY <2>1, <2>3 DEF ConsumeCheck, IInv, TypeInv, TypeOK, Batch
  <2>4. CASE ConsumeRaises(c) \/ ConsumerStops(c)
    BY <2>1, <2>4 DEF ConsumeRaises, ConsumerStops, IInv, TypeInv, TypeOK, IdleBatch
  <2>5. CASE ConsumeKeeps(c)
    <3>1. ToSet(Tail(consume[c].batch)) \subseteq ToSet(consume[c].batch)
      BY <2>5, ConsumerHead DEF ConsumeKeeps, At, IInv
    <3>2. consume'[c].step \in {"idle", "check"}
          /\ consume'[c].batch \in {<<>>, Tail(consume[c].batch)}
      BY <2>5 DEF ConsumeKeeps, NextInBatch, IInv, TypeInv, TypeOK, IdleBatch
    <3>3. QED
      BY <2>1, <3>1, <3>2
  <2>6. QED
    BY <2>2, <2>3, <2>4, <2>5
<1>7. Consuming(c)'
  BY <1>2, <1>6 DEF Consuming, At
<1>8. \A b \in Consumer : Consuming(b)'
  BY <1>3, <1>5, <1>7, ConsumersKeep
<1>9. QED
  BY <1>1, <1>2, <1>3, <1>4, <1>8, AllDeliver, ForwardersKeep DEF IInv, WorkInv, files

LEMMA ConsumeWriteInv ==
    ASSUME IInv, TypeInv', NEW c \in Consumer, ConsumeWrite(c)
    PROVE  IInv'
<1> DEFINE p == Head(consume[c].batch)
<1>1. UNCHANGED <<request, attached, maker, plan, indexed, packed, named, pending,
                  inbox, bundle, deliver, forward>>
  BY DEF ConsumeWrite
<1>2. p \in Plan /\ p \in Queued
  BY ConsumerHead DEF ConsumeWrite, At, IInv, WorkInv, Consuming
<1>3. Processed' = Processed \cup {p} /\ Queued' = Queued
  BY <1>2, ConsumeWriteEffect DEF IInv, Queued
<1>4. Grows
  BY <1>1, <1>3 DEF Grows, Given
<1>5. GateHeld'
  BY <1>1, <1>3, <1>4, GateKeeps
<1>6. Traceable'
  BY <1>1, <1>3 DEF IInv, Traceable, ConsumeWrite
<1>7. consume'[c].batch = consume[c].batch /\ \A b \in Consumer \ {c} : consume'[b] = consume[b]
  BY DEF ConsumeWrite, IInv, TypeInv, TypeOK, Batch
<1>8. Consuming(c)'
  BY <1>3, <1>7 DEF IInv, WorkInv, Consuming, At
<1>9. \A b \in Consumer : Consuming(b)'
  BY <1>4, <1>7, <1>8, ConsumersKeep
<1>10. QED
  BY <1>1, <1>3, <1>4, <1>5, <1>6, <1>9, AllDeliver, ForwardersKeep DEF IInv, WorkInv

LEMMA ConsumeRemoveInv ==
    ASSUME IInv, TypeInv', NEW c \in Consumer, ConsumeRemove(c)
    PROVE  IInv'
<1> DEFINE p == Head(consume[c].batch)
<1>1. UNCHANGED <<request, attached, maker, plan, indexed, packed, named, processed,
                  forwarded, inbox, bundle, deliver, forward>>
  BY DEF ConsumeRemove
<1>2. p \in Processed
  BY DEF ConsumeRemove, IInv, WorkInv, Consuming
<1>3. Processed' = Processed /\ Queued' = Queued
  BY <1>2, ConsumeRemoveEffect DEF IInv, Queued
<1>4. Grows
  BY <1>1, <1>3 DEF Grows, Given
<1>5. GateHeld'
  BY <1>1, <1>3, <1>4, GateKeeps
<1>6. Traceable'
  BY <1>1, <1>3 DEF IInv, Traceable
<1>7. /\ consume'[c].step \in {"idle", "check"}
      /\ consume'[c].batch \in {<<>>, Tail(consume[c].batch)}
      /\ \A b \in Consumer \ {c} : consume'[b] = consume[b]
  BY DEF ConsumeRemove, NextInBatch, IInv, TypeInv, TypeOK, IdleBatch
<1>8. ToSet(Tail(consume[c].batch)) \subseteq Queued
  BY ConsumerHead DEF ConsumeRemove, At, IInv, WorkInv, Consuming
<1>9. Consuming(c)'
  <2>1. ToSet(<<>>) = {}
    BY DEF ToSet
  <2>2. QED
    BY <1>3, <1>7, <1>8, <2>1 DEF Consuming, At
<1>10. \A b \in Consumer : Consuming(b)'
  BY <1>4, <1>7, <1>9, ConsumersKeep
<1>11. QED
  BY <1>1, <1>3, <1>4, <1>5, <1>6, <1>10, AllDeliver, ForwardersKeep DEF IInv, WorkInv

(* A forwarder's step that writes no file.                                 *)
LEMMA ForwarderLooks ==
    ASSUME IInv, TypeInv', NEW f \in Forwarder,
           ForwardScan(f) \/ ForwardUnmarked(f) \/ ForwarderStops(f)
    PROVE  IInv'
<1>1. UNCHANGED files /\ UNCHANGED <<deliver, consume>>
  BY DEF ForwardScan, ForwardUnmarked, ForwarderStops
<1>2. Pending' = Pending /\ Processed' = Processed /\ Queued' = Queued
  BY <1>1, QueuesKept DEF files
<1>3. Grows
  BY <1>1, <1>2 DEF Grows, files, Given
<1>4. GateHeld' /\ Traceable'
  BY <1>1, <1>2, <1>3, GateKeeps DEF IInv, Traceable, files
<1>5. \A g \in Forwarder \ {f} : forward'[g] = forward[g]
  BY DEF ForwardScan, ForwardUnmarked, ForwarderStops, NextInBatch, IInv, TypeInv, TypeOK
<1>6. forward'[f].step # "mark" /\ ToSet(forward'[f].batch) \subseteq Processed
  <2>1. ToSet(forward[f].batch) \subseteq Processed /\ ToSet(<<>>) = {}
    BY DEF IInv, WorkInv, Forwarding, ToSet
  <2>2. CASE ForwardScan(f)
    <3>1. ToSet(FirstOf(processed, Limit)) \subseteq Processed
      BY FirstOfProperties, QueueAssumption DEF IInv, TypeInv, TypeOK, Processed
    <3>2. QED
      BY <2>2, <3>1 DEF ForwardScan, IInv, TypeInv, TypeOK
  <2>3. CASE ForwarderStops(f)
    BY <2>1, <2>3 DEF ForwarderStops, IInv, TypeInv, TypeOK, IdleBatch
  <2>4. CASE ForwardUnmarked(f)
    <3>1. ToSet(Tail(forward[f].batch)) \subseteq ToSet(forward[f].batch)
      BY <2>4, ForwarderHead DEF ForwardUnmarked, At, IInv
    <3>2. forward'[f].step \in {"idle", "inbox"}
          /\ forward'[f].batch \in {<<>>, Tail(forward[f].batch)}
      BY <2>4 DEF ForwardUnmarked, NextInBatch, IInv, TypeInv, TypeOK, IdleBatch
    <3>3. QED
      BY <2>1, <3>1, <3>2
  <2>5. QED
    BY <2>2, <2>3, <2>4
<1>7. Forwarding(f)'
  BY <1>2, <1>6 DEF Forwarding, At
<1>8. \A g \in Forwarder : Forwarding(g)'
  BY <1>3, <1>5, <1>7, ForwardersKeep
<1>9. QED
  BY <1>1, <1>2, <1>3, <1>4, <1>8, AllDeliver, ConsumersKeep DEF IInv, WorkInv, files

LEMMA ForwardInboxInv ==
    ASSUME IInv, TypeInv', NEW f \in Forwarder, ForwardInbox(f)
    PROVE  IInv'
<1> DEFINE p == Head(forward[f].batch)
<1>1. UNCHANGED <<request, attached, maker, plan, indexed, packed, named, pending,
                  processed, forwarded, bundle, deliver, consume>>
  BY DEF ForwardInbox
<1>2. p \in Plan /\ p \in Processed
  BY ForwarderHead DEF ForwardInbox, At, IInv, WorkInv, Forwarding
<1>3. Pending' = Pending /\ Processed' = Processed /\ Queued' = Queued
  BY <1>1, QueuesKept
<1>4. inbox' = inbox \cup {p}
  BY DEF ForwardInbox
<1>5. Grows
  BY <1>1, <1>3, <1>4 DEF Grows, Given
<1>6. GateHeld'
  BY <1>1, <1>3, <1>5, GateKeeps
<1>7. Traceable'
  BY <1>1, <1>2, <1>3, <1>4 DEF IInv, Traceable
<1>8. forward'[f].batch = forward[f].batch /\ \A g \in Forwarder \ {f} : forward'[g] = forward[g]
  BY DEF ForwardInbox, IInv, TypeInv, TypeOK, Batch
<1>9. Forwarding(f)'
  BY <1>3, <1>4, <1>8 DEF IInv, WorkInv, Forwarding, At
<1>10. \A g \in Forwarder : Forwarding(g)'
  BY <1>5, <1>8, <1>9, ForwardersKeep
<1>11. QED
  BY <1>1, <1>3, <1>5, <1>6, <1>7, <1>10, AllDeliver, ConsumersKeep DEF IInv, WorkInv

LEMMA ForwardMarkInv ==
    ASSUME IInv, TypeInv', NEW f \in Forwarder, ForwardMark(f)
    PROVE  IInv'
<1> DEFINE p == Head(forward[f].batch)
<1>1. UNCHANGED <<request, attached, maker, plan, indexed, packed, named, pending,
                  inbox, bundle, deliver, consume>>
  BY DEF ForwardMark
<1>2. p \in Plan /\ p \in Processed /\ p \in inbox
  BY ForwarderHead DEF ForwardMark, At, IInv, WorkInv, Forwarding
<1>3. Processed' = Processed /\ Queued' = Queued
  BY <1>2, ForwardMarkEffect DEF IInv, Queued
<1>4. forwarded' = forwarded \cup {p}
  BY DEF ForwardMark
<1>5. Grows
  BY <1>1, <1>3 DEF Grows, Given
<1>6. GateHeld'
  BY <1>1, <1>3, <1>5, GateKeeps
<1>7. Traceable'
  BY <1>1, <1>2, <1>3, <1>4 DEF IInv, Traceable
<1>8. /\ forward'[f].step \in {"idle", "inbox"}
      /\ forward'[f].batch \in {<<>>, Tail(forward[f].batch)}
      /\ \A g \in Forwarder \ {f} : forward'[g] = forward[g]
  BY DEF ForwardMark, NextInBatch, IInv, TypeInv, TypeOK, IdleBatch
<1>9. ToSet(Tail(forward[f].batch)) \subseteq Processed
  BY ForwarderHead DEF ForwardMark, At, IInv, WorkInv, Forwarding
<1>10. Forwarding(f)'
  <2>1. ToSet(<<>>) = {}
    BY DEF ToSet
  <2>2. QED
    BY <1>3, <1>8, <1>9, <2>1 DEF Forwarding, At
<1>11. \A g \in Forwarder : Forwarding(g)'
  BY <1>5, <1>8, <1>10, ForwardersKeep
<1>12. QED
  BY <1>1, <1>3, <1>5, <1>6, <1>7, <1>11, AllDeliver, ConsumersKeep DEF IInv, WorkInv

LEMMA Inductive == IInv /\ [Next]_vars => IInv'
<1> SUFFICES ASSUME IInv, [Next]_vars PROVE IInv'
  OBVIOUS
<1>1. TypeInv'
  BY TypeInductive DEF IInv
<1>2. ASSUME NEW d \in Deliverer, Deliver(d) PROVE IInv'
  BY <1>1, <1>2, BuildInv, SavePlanInv, RecordInv, LookInv, RouteWriteInv, DeliveryEnds DEF Deliver
<1>3. ASSUME NEW c \in Consumer, Consume(c) PROVE IInv'
  BY <1>1, <1>3, ConsumerLooks, ConsumeWriteInv, ConsumeRemoveInv DEF Consume
<1>4. ASSUME NEW f \in Forwarder, Forward(f) PROVE IInv'
  BY <1>1, <1>4, ForwarderLooks, ForwardInboxInv, ForwardMarkInv DEF Forward
<1>5. QED
  BY <1>1, <1>2, <1>3, <1>4, MakerInv DEF Next

LEMMA InvCorrect == Spec => []IInv
BY InitInv, Inductive, PTL DEF Spec

-----------------------------------------------------------------------------
(* Theorems.                                                               *)

(* Wherever commands are killed, and however many run at once, no stage    *)
(* holds a plan of which an earlier stage's file is missing.               *)
THEOREM Traced == Spec => []Traceable
<1>1. IInv => Traceable
  BY DEF IInv
<1>2. QED
  BY <1>1, InvCorrect, PTL

(* No plan of an execution channel gets into the queue, or any further,    *)
(* but under the name of an authorisation that was really given.           *)
THEOREM Gated == Spec => []GateHeld
<1>1. IInv => GateHeld
  BY DEF IInv
<1>2. QED
  BY <1>1, InvCorrect, PTL

(* Taking an authorisation back stops every plan under it that no consumer *)
(* has checked by then, whatever is listed in batches already.             *)
THEOREM RevocationHolds == Spec => RevokedStaysUnprocessed
<1>1. ASSUME IInv, [Next]_vars, NEW p \in Plan, Revoked(p), ~Claimed(p), p \notin Processed
      PROVE  ~Claimed(p)' /\ p \notin Processed'
  <2>1. \A c \in Consumer : ~(At(consume, c, "write") /\ Head(consume[c].batch) = p)
    BY <1>1 DEF Claimed
  <2>2. ~Authorized(plan[p], named[p])
    BY <1>1 DEF Revoked, Authorized, ExecutionChannel
  <2>3. CASE UNCHANGED <<processed, consume>>
    BY <1>1, <2>1, <2>3, Zenon DEF Claimed, At, Processed
  <2>4. ASSUME NEW c \in Consumer, Consume(c)
        PROVE  ~Claimed(p)' /\ p \notin Processed'
    <3>1. \A b \in Consumer \ {c} : consume'[b] = consume[b]
      BY <1>1, <2>4 DEF Consume, ConsumeScan, ConsumeCheck, ConsumeRaises, ConsumeWrite,
         ConsumeRemove, ConsumeKeeps, ConsumerStops, NextInBatch, IInv, TypeInv, TypeOK
    <3>2. ~(At(consume', c, "write") /\ Head(consume'[c].batch) = p)
      <4>1. CASE ConsumeCheck(c)
        <5>1. Head(consume[c].batch) # p
          BY <4>1, <2>2 DEF ConsumeCheck, Consumable
        <5>2. consume'[c].batch = consume[c].batch
          BY <1>1, <4>1 DEF ConsumeCheck, IInv, TypeInv, TypeOK, Batch
        <5>3. QED
          BY <5>1, <5>2
      <4>2. CASE ~ConsumeCheck(c)
        <5>1. consume'[c].step # "write"
          BY <1>1, <2>4, <4>2 DEF Consume, ConsumeScan, ConsumeRaises, ConsumeWrite,
             ConsumeRemove, ConsumeKeeps, ConsumerStops, NextInBatch, IInv, TypeInv, TypeOK,
             IdleBatch, Batch
        <5>2. QED
          BY <5>1 DEF At
      <4>3. QED
        BY <4>1, <4>2
    <3>3. p \notin Processed'
      <4>1. CASE ConsumeWrite(c)
        BY <1>1, <2>1, <4>1, ConsumeWriteEffect DEF ConsumeWrite, IInv
      <4>2. CASE ~ConsumeWrite(c)
        <5>1. processed' = processed
          BY <2>4, <4>2 DEF Consume, ConsumeScan, ConsumeCheck, ConsumeRaises, ConsumeRemove,
             ConsumeKeeps, ConsumerStops, files
        <5>2. QED
          BY <1>1, <5>1 DEF Processed
      <4>3. QED
        BY <4>1, <4>2
    <3>4. QED
      BY <2>1, <3>1, <3>2, <3>3 DEF Claimed, At
  <2>5. ASSUME NEW f \in Forwarder, Forward(f)
        PROVE  ~Claimed(p)' /\ p \notin Processed'
    <3>1. consume' = consume
      BY <2>5 DEF Forward, ForwardScan, ForwardInbox, ForwardMark, ForwardUnmarked, ForwarderStops
    <3>2. p \notin Processed'
      <4>1. CASE ForwardMark(f)
        <5>1. Head(forward[f].batch) \in Processed
          BY <1>1, <4>1, ForwarderHead DEF ForwardMark, At, IInv, WorkInv, Forwarding
        <5>2. QED
          BY <1>1, <4>1, <5>1, ForwardMarkEffect DEF IInv
      <4>2. CASE ~ForwardMark(f)
        <5>1. processed' = processed
          BY <2>5, <4>2 DEF Forward, ForwardScan, ForwardInbox, ForwardUnmarked, ForwarderStops, files
        <5>2. QED
          BY <1>1, <5>1 DEF Processed
      <4>3. QED
        BY <4>1, <4>2
    <3>3. QED
      BY <2>1, <3>1, <3>2 DEF Claimed, At
  <2>6. CASE \/ \E x \in Request, ref, r \in Receipt : MakeRequest(x, ref, r)
             \/ AttachRequest \/ MakerStops
             \/ \E x \in Request : RemoveRequest(x)
             \/ \E d \in Deliverer : Deliver(d)
             \/ UNCHANGED vars
    <3>1. UNCHANGED <<processed, consume>>
      BY <2>6 DEF MakeRequest, AttachRequest, MakerStops, RemoveRequest, Deliver, Build, SavePlan,
         AppendIndex, SavePack, RouteCheck, RouteWrite, BundleRead, BundleWrite, DelivererStops,
         vars, files
    <3>2. QED
      BY <2>3, <3>1
  <2>7. QED
    BY <1>1, <2>4, <2>5, <2>6 DEF Next
<1>2. IInv /\ [Next]_vars =>
        \A p \in Plan : Revoked(p) /\ ~Claimed(p) /\ p \notin Processed =>
            ~Claimed(p)' /\ p \notin Processed'
  BY <1>1
<1>3. QED
  BY <1>2, InvCorrect, PTL DEF Spec, RevokedStaysUnprocessed

-----------------------------------------------------------------------------
(* The files implement the one-way stages of PlanDelivery.                 *)

Bar == [p \in Plan |-> Stage(p)]

(* With what is traceable, a stage can be read off four facts of a plan.   *)
StageOf(p) ==
    IF p \in inbox THEN 4
    ELSE IF p \in Processed THEN 3
    ELSE IF p \in Queued THEN 2
    ELSE IF plan[p] # Null THEN 1 ELSE 0

LEMMA StageValue ==
    ASSUME IInv, IInv', NEW p \in Plan
    PROVE  Stage(p) = StageOf(p) /\ Stage(p)' = StageOf(p)'
<1>1. Stage(p) = StageOf(p)
  BY DEF Stage, StageOf, IInv, Traceable, Queued
<1>2. Stage(p)' = StageOf(p)'
  BY DEF Stage, StageOf, IInv, Traceable, Queued
<1>3. QED
  BY <1>1, <1>2

LEMMA StagesKept ==
    ASSUME IInv, IInv', plan' = plan, inbox' = inbox, Processed' = Processed, Queued' = Queued
    PROVE  UNCHANGED Bar
<1>1. ASSUME NEW p \in Plan PROVE Stage(p)' = Stage(p)
  <2>1. StageOf(p)' = StageOf(p)
    BY DEF StageOf
  <2>2. QED
    BY <2>1, StageValue
<1>2. QED
  BY <1>1 DEF Bar

(* One plan goes on by one stage.                                          *)
LEMMA StageAdvances ==
    ASSUME IInv, IInv', NEW p \in Plan,
           StageOf(p) \in 0..3, StageOf(p)' = StageOf(p) + 1,
           \A q \in Plan \ {p} : StageOf(q)' = StageOf(q)
    PROVE  Stages!Next
<1>1. /\ Stage(p) \in 0..3 /\ Stage(p)' = Stage(p) + 1
      /\ \A q \in Plan \ {p} : Stage(q)' = Stage(q)
  BY StageValue
<1> DEFINE B == Bar
           C == Bar'
<1>2. /\ B = [q \in Plan |-> Stage(q)] /\ C = [q \in Plan |-> Stage(q)']
  BY DEF Bar
<1>3. B[p] < 4 /\ C = [B EXCEPT ![p] = B[p] + 1]
  <2> HIDE DEF B, C
  <2>1. \A q \in Plan : C[q] = [B EXCEPT ![p] = B[p] + 1][q]
    BY <1>1, <1>2
  <2>2. QED
    BY <1>1, <1>2, <2>1
<1>4. Stages!Advance(p)
  BY <1>3 DEF Stages!Advance, Bar
<1>5. QED
  BY <1>4 DEF Stages!Next

LEMMA DeliverAdvances ==
    ASSUME IInv, IInv', NEW d \in Deliverer, Deliver(d)
    PROVE  [Stages!Next]_Bar
<1>1. CASE SavePlan(d)
  <2>0. deliver[d].plan \in Plan
    BY <1>1, OwnDelivery DEF SavePlan, Delivering, Building
  <2> PICK p \in Plan : p = deliver[d].plan
    BY <2>0
  <2>1. p \notin Queued /\ plan[p] = Null /\ deliver[d].receipt # Null
    BY <1>1, OwnDelivery DEF SavePlan, Delivering, Building
  <2>2. inbox' = inbox /\ Processed' = Processed /\ Queued' = Queued
    BY <1>1, QueuesKept DEF SavePlan
  <2>3. plan'[p] # Null /\ \A q \in Plan \ {p} : plan'[q] = plan[q]
    BY <1>1, <2>1 DEF SavePlan, IInv, TypeInv, TypeOK
  <2>4. p \notin inbox /\ p \notin Processed
    BY <2>1 DEF IInv, Traceable, Queued
  <2>5. StageOf(p) = 0 /\ StageOf(p)' = 1 /\ \A q \in Plan \ {p} : StageOf(q)' = StageOf(q)
    BY <2>1, <2>2, <2>3, <2>4 DEF StageOf
  <2>6. QED
    BY <2>1, <2>5, StageAdvances
<1>2. CASE RouteWrite(d)
  <2>0. deliver[d].plan \in Plan
    BY <1>2, OwnDelivery DEF RouteWrite, Delivering, Building
  <2> PICK p \in Plan : p = deliver[d].plan
    BY <2>0
  <2>1. p \notin Queued /\ plan[p] # Null
    BY <1>2, OwnDelivery DEF RouteWrite, Delivering, Building
  <2>2. /\ inbox' = inbox /\ plan' = plan
        /\ Processed' = Processed /\ Queued' = Queued \cup {p}
    BY <1>2, RouteWriteEffect DEF RouteWrite, IInv
  <2>3. p \notin inbox /\ p \notin Processed
    BY <2>1 DEF IInv, Traceable, Queued
  <2>4. StageOf(p) = 1 /\ StageOf(p)' = 2 /\ \A q \in Plan \ {p} : StageOf(q)' = StageOf(q)
    BY <2>1, <2>2, <2>3 DEF StageOf
  <2>5. QED
    BY <2>1, <2>4, StageAdvances
<1>3. CASE ~SavePlan(d) /\ ~RouteWrite(d)
  <2>1. UNCHANGED <<plan, inbox, pending, processed>>
    BY <1>3 DEF Deliver, Build, AppendIndex, SavePack, RouteCheck, BundleRead, BundleWrite,
       DelivererStops, files
  <2>2. QED
    BY <2>1, QueuesKept, StagesKept
<1>4. QED
  BY <1>1, <1>2, <1>3

LEMMA ConsumeAdvances ==
    ASSUME IInv, IInv', NEW c \in Consumer, Consume(c)
    PROVE  [Stages!Next]_Bar
<1>1. CASE ConsumeWrite(c)
  <2>0. Head(consume[c].batch) \in Plan
    BY <1>1, ConsumerHead DEF ConsumeWrite, At, IInv, WorkInv, Consuming
  <2> PICK p \in Plan : p = Head(consume[c].batch)
    BY <2>0
  <2>1. p \in Queued
    BY <1>1, ConsumerHead DEF ConsumeWrite, At, IInv, WorkInv, Consuming
  <2>2. /\ inbox' = inbox /\ plan' = plan
        /\ Processed' = Processed \cup {p} /\ Queued' = Queued
    BY <1>1, <2>1, ConsumeWriteEffect DEF ConsumeWrite, IInv, Queued
  <2>3. CASE p \in Processed
    BY <2>2, <2>3, StagesKept
  <2>4. CASE p \notin Processed
    <3>1. p \notin inbox
      BY <2>4 DEF IInv, Traceable
    <3>2. StageOf(p) = 2 /\ StageOf(p)' = 3 /\ \A q \in Plan \ {p} : StageOf(q)' = StageOf(q)
      BY <2>1, <2>2, <2>4, <3>1 DEF StageOf
    <3>3. QED
      BY <2>1, <3>2, StageAdvances
  <2>5. QED
    BY <2>3, <2>4
<1>2. CASE ConsumeRemove(c)
  <2>1. Head(consume[c].batch) \in Processed
    BY <1>2 DEF ConsumeRemove, IInv, WorkInv, Consuming
  <2>2. inbox' = inbox /\ plan' = plan /\ Processed' = Processed /\ Queued' = Queued
    BY <1>2, <2>1, ConsumeRemoveEffect DEF ConsumeRemove, IInv, Queued
  <2>3. QED
    BY <2>2, StagesKept
<1>3. CASE ~ConsumeWrite(c) /\ ~ConsumeRemove(c)
  <2>1. UNCHANGED <<plan, inbox, pending, processed>>
    BY <1>3 DEF Consume, ConsumeScan, ConsumeCheck, ConsumeRaises, ConsumeKeeps, ConsumerStops,
       files
  <2>2. QED
    BY <2>1, QueuesKept, StagesKept
<1>4. QED
  BY <1>1, <1>2, <1>3

LEMMA ForwardAdvances ==
    ASSUME IInv, IInv', NEW f \in Forwarder, Forward(f)
    PROVE  [Stages!Next]_Bar
<1>1. CASE ForwardInbox(f)
  <2>0. Head(forward[f].batch) \in Plan
    BY <1>1, ForwarderHead DEF ForwardInbox, At, IInv, WorkInv, Forwarding
  <2> PICK p \in Plan : p = Head(forward[f].batch)
    BY <2>0
  <2>1. p \in Processed
    BY <1>1, ForwarderHead DEF ForwardInbox, At, IInv, WorkInv, Forwarding
  <2>2. /\ inbox' = inbox \cup {p} /\ plan' = plan
        /\ Processed' = Processed /\ Queued' = Queued
    BY <1>1, QueuesKept DEF ForwardInbox
  <2>3. CASE p \in inbox
    <3>1. inbox' = inbox
      BY <2>2, <2>3
    <3>2. QED
      BY <2>2, <3>1, StagesKept
  <2>4. CASE p \notin inbox
    <3>1. StageOf(p) = 3 /\ StageOf(p)' = 4 /\ \A q \in Plan \ {p} : StageOf(q)' = StageOf(q)
      BY <2>1, <2>2, <2>4 DEF StageOf
    <3>2. QED
      BY <2>1, <3>1, StageAdvances
  <2>5. QED
    BY <2>3, <2>4
<1>2. CASE ForwardMark(f)
  <2>1. Head(forward[f].batch) \in Processed
    BY <1>2, ForwarderHead DEF ForwardMark, At, IInv, WorkInv, Forwarding
  <2>2. inbox' = inbox /\ plan' = plan /\ Processed' = Processed /\ Queued' = Queued
    BY <1>2, <2>1, ForwardMarkEffect DEF ForwardMark, IInv, Queued
  <2>3. QED
    BY <2>2, StagesKept
<1>3. CASE ~ForwardInbox(f) /\ ~ForwardMark(f)
  <2>1. UNCHANGED <<plan, inbox, pending, processed>>
    BY <1>3 DEF Forward, ForwardScan, ForwardUnmarked, ForwarderStops, files
  <2>2. QED
    BY <2>1, QueuesKept, StagesKept
<1>4. QED
  BY <1>1, <1>2, <1>3

LEMMA StepAdvances == IInv /\ IInv' /\ [Next]_vars => [Stages!Next]_Bar
<1> SUFFICES ASSUME IInv, IInv', [Next]_vars PROVE [Stages!Next]_Bar
  OBVIOUS
<1>1. CASE \/ \E x \in Request, ref, r \in Receipt : MakeRequest(x, ref, r)
           \/ AttachRequest \/ MakerStops
           \/ \E x \in Request : RemoveRequest(x)
           \/ UNCHANGED vars
  <2>1. UNCHANGED <<plan, inbox, pending, processed>>
    BY <1>1 DEF MakeRequest, AttachRequest, MakerStops, RemoveRequest, vars, files
  <2>2. QED
    BY <2>1, QueuesKept, StagesKept
<1>2. QED
  BY <1>1, DeliverAdvances, ConsumeAdvances, ForwardAdvances DEF Next

(* However commands overlap, fail and die, a plan moves from one stage to  *)
(* the next and never back: the files implement PlanDelivery.              *)
THEOREM ImplementsDelivery == Spec => ImplementsStages
<1>1. Init => Stages!Init
  <2>1. SUFFICES ASSUME Init PROVE \A p \in Plan : Stage(p) = 0
    BY DEF Stages!Init
  <2>2. ToSet(<<>>) = {}
    BY DEF ToSet
  <2>3. QED
    BY <2>1, <2>2 DEF Init, Stage, Pending, Processed
<1>2. IInv /\ IInv' /\ [Next]_vars => [Stages!Next]_Bar
  BY StepAdvances
<1>3. QED
  BY <1>1, <1>2, InvCorrect, PTL DEF Spec, ImplementsStages, Stages!Spec, Bar
=============================================================================
