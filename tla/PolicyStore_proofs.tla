------------------------ MODULE PolicyStore_proofs ------------------------
(***************************************************************************)
(* What holds of the policy store for every number of people, proposals    *)
(* and versions, whatever overlaps: only channels that an approved         *)
(* proposal is about are ever changed, and under strategy "reject" by one  *)
(* step of the policy that was patched.                                    *)
(***************************************************************************)
EXTENDS PolicyStore, FiniteSetTheorems, TLAPS

-----------------------------------------------------------------------------
(* Operators.                                                              *)

LEMMA ClampType == ASSUME NEW x \in Int PROVE Clamp(x) \in 0..Top
BY PolicyAssumption DEF Clamp

LEMMA VersionType ==
    /\ 1 \in Version
    /\ \A v \in Listed : v \in Version /\ v + 1 \in Version
BY PolicyAssumption DEF Version, Listed

LEMMA InitialTypes == Initial \in Policy /\ NoSession \in Session
BY PolicyAssumption, VersionType DEF Initial, Policy, NoSession, Session

(* The latest version is a policy.                                         *)
LEMMA LatestType ==
    ASSUME TypeOK, NEW v \in Listed, IsLatest(v)
    PROVE  file[v] \in Policy
BY VersionType DEF TypeOK, IsLatest, Content

(* A patch of a policy is a policy.                                        *)
LEMMA PatchedType ==
    ASSUME TypeOK, NEW x \in Session, x.proposal \in Proposal, proposals[x.proposal] # Null
    PROVE  Patched(x) \in Policy
<1>1. proposals[x.proposal].level \in 0..Top
  BY DEF TypeOK, Converted
<1>2. x.old \in [Channel -> 0..Top]
  BY DEF Session, Policy
<1>3. QED
  BY <1>1, <1>2 DEF Patched, Policy

(* Approvals are only ever added, so a quorum is never lost.               *)
LEMMA QuorumGrows ==
    ASSUME TypeOK, TypeOK', approvals \subseteq approvals', NEW p \in Proposal, HasQuorum(p)
    PROVE  HasQuorum(p)'
<1>1. IsFiniteSet(Person)
  BY PolicyAssumption
<1>2. ApproversOf(p) \in SUBSET ApproversOf(p)' /\ ApproversOf(p)' \in SUBSET Person
  BY DEF ApproversOf
<1>3. IsFiniteSet(ApproversOf(p)')
  BY <1>1, <1>2, FS_Subset
<1>4. IsFiniteSet(ApproversOf(p)) /\ Cardinality(ApproversOf(p)) <= Cardinality(ApproversOf(p)')
  BY <1>2, <1>3, FS_Subset
<1>5. Cardinality(ApproversOf(p)) \in Nat /\ Cardinality(ApproversOf(p)') \in Nat
  BY <1>3, <1>4, FS_CardinalityType
<1>6. QED
  BY <1>4, <1>5, PolicyAssumption DEF HasQuorum

-----------------------------------------------------------------------------
(* Type correctness.                                                       *)

(* A command at work is about a proposal that had enough approvers, and it *)
(* records the receipt that it has written.                                *)
SessionInv ==
    \A c \in Person :
        /\ pc[c] # "idle" => ctx[c].proposal \in Proposal /\ HasQuorum(ctx[c].proposal)
        /\ pc[c] = "record" => ReceiptOf(ctx[c]) \in receipts

LEMMA DoneType ==
    ASSUME TypeOK, NEW c \in Person, Done(c)
    PROVE  pc' \in [Person -> PC] /\ ctx' \in [Person -> Session]
BY InitialTypes DEF TypeOK, Done, Goto, PC

LEMMA GotoType ==
    ASSUME TypeOK, NEW c \in Person, NEW label \in PC, Goto(c, label)
    PROVE  pc' \in [Person -> PC]
BY DEF TypeOK, Goto

(* What a command writes into its receipt is a receipt.                    *)
LEMMA ReceiptType ==
    ASSUME NEW x \in Session, x.proposal \in Proposal
    PROVE  ReceiptOf(x) \in Receipt
BY DEF Session, Receipt, ReceiptOf

LEMMA TypeInit == Init => TypeOK
<1> SUFFICES ASSUME Init PROVE TypeOK
  OBVIOUS
<1>1. file \in [Version -> Content] /\ tmp \in [Version -> Content]
  BY InitialTypes DEF Init, Content
<1>2. proposals \in [Proposal -> Converted \cup {Null}]
  BY DEF Init
<1>3. pc \in [Person -> PC] /\ ctx \in [Person -> Session]
  BY InitialTypes DEF Init, PC
<1>4. QED
  BY <1>1, <1>2, <1>3 DEF Init, TypeOK

LEMMA TypeStep == TypeOK /\ SessionInv /\ [Next]_vars => TypeOK'
<1> SUFFICES ASSUME TypeOK, SessionInv, [Next]_vars PROVE TypeOK'
  OBVIOUS
<1>1. CASE ConvertStart
  BY <1>1 DEF TypeOK, ConvertStart, store, trail
<1>2. ASSUME NEW p \in Proposal, ConvertRead(p) PROVE TypeOK'
  <2>1. PICK v \in Listed :
           /\ IsLatest(v)
           /\ draft' = [id |-> p, base |-> file[v],
                        level |-> Clamp(file[v][ChannelOf[p]] + Delta[p])]
    BY <1>2 DEF ConvertRead
  <2>2. file[v] \in Policy
    BY <2>1, LatestType
  <2>3. file[v][ChannelOf[p]] + Delta[p] \in Int
    BY <2>2, PolicyAssumption DEF Policy
  <2>4. Clamp(file[v][ChannelOf[p]] + Delta[p]) \in 0..Top
    BY <2>3, ClampType
  <2>5. draft' \in [id: Proposal, base: Policy, level: 0..Top]
    BY <2>1, <2>2, <2>4
  <2>6. QED
    BY <1>2, <2>5 DEF TypeOK, ConvertRead, store, trail
<1>3. CASE ConvertAppend
  <2>1. draft.id \in Proposal /\ [base |-> draft.base, level |-> draft.level] \in Converted
    BY <1>3 DEF TypeOK, ConvertAppend, Converted
  <2>2. proposals' \in [Proposal -> Converted \cup {Null}]
    BY <1>3, <2>1 DEF TypeOK, ConvertAppend
  <2>3. QED
    BY <1>3, <2>2 DEF TypeOK, ConvertAppend, store, trail
<1>4. CASE ConvertStops
  BY <1>4 DEF TypeOK, ConvertStops, store, trail
<1>5. ASSUME NEW c \in Person, NEW p \in Proposal, Approve(c, p) PROVE TypeOK'
  BY <1>5 DEF TypeOK, Approve, store, job, trail
<1>6. ASSUME NEW c \in Person, NEW p \in Proposal, ApplyCheck(c, p) PROVE TypeOK'
  <2>1. pc' \in [Person -> PC]
    BY <1>6, GotoType DEF ApplyCheck, PC
  <2>2. [ctx[c] EXCEPT !.proposal = p] \in Session
    BY DEF TypeOK, Session
  <2>3. ctx' \in [Person -> Session]
    BY <1>6, <2>2 DEF TypeOK, ApplyCheck
  <2>4. QED
    BY <1>6, <2>1, <2>3 DEF TypeOK, ApplyCheck, store, job, trail
<1>7. ASSUME NEW c \in Person, ApplyLatest(c) PROVE TypeOK'
  <2>1. PICK v \in Listed :
           IsLatest(v) /\ ctx' = [ctx EXCEPT ![c].before = v, ![c].old = file[v]]
    BY <1>7 DEF ApplyLatest
  <2>2. [ctx[c] EXCEPT !.before = v, !.old = file[v]] \in Session
    BY <2>1, LatestType, VersionType DEF TypeOK, Session
  <2>3. ctx' \in [Person -> Session]
    BY <2>1, <2>2 DEF TypeOK
  <2>4. pc' \in [Person -> PC]
    BY <1>7, GotoType DEF ApplyLatest, PC
  <2>5. QED
    BY <1>7, <2>3, <2>4 DEF TypeOK, ApplyLatest, store, job, trail
<1>8. ASSUME NEW c \in Person, ApplyFind(c) PROVE TypeOK'
  <2>1. ctx[c] \in Session /\ ctx[c].proposal \in Proposal /\ proposals[ctx[c].proposal] # Null
    BY <1>8 DEF TypeOK, SessionInv, ApplyFind, Found
  <2>2. Patched(ctx[c]) \in Policy
    BY <2>1, PatchedType
  <2>3. [ctx[c] EXCEPT !.new = Patched(ctx[c]), !.after = ctx[c].before] \in Session
    BY <2>1, <2>2 DEF Session
  <2>4. ctx' \in [Person -> Session]
    BY <1>8, <2>3 DEF TypeOK, ApplyFind, Found
  <2>5. pc' \in [Person -> PC]
    BY <1>8 DEF TypeOK, ApplyFind, Found, Goto, PC
  <2>6. QED
    BY <1>8, <2>4, <2>5 DEF TypeOK, ApplyFind, Found, store, job, trail
<1>9. ASSUME NEW c \in Person, SaveVersion(c) PROVE TypeOK'
  <2>1. PICK v \in Listed : ctx' = [ctx EXCEPT ![c].after = v + 1]
    BY <1>9 DEF SaveVersion
  <2>2. [ctx[c] EXCEPT !.after = v + 1] \in Session
    BY VersionType DEF TypeOK, Session
  <2>3. ctx' \in [Person -> Session]
    BY <2>1, <2>2 DEF TypeOK
  <2>4. pc' \in [Person -> PC]
    BY <1>9, GotoType DEF SaveVersion, PC
  <2>5. QED
    BY <1>9, <2>3, <2>4 DEF TypeOK, SaveVersion, store, job, trail
<1>10. ASSUME NEW c \in Person, SaveOpen(c) PROVE TypeOK'
  <2>1. pc' \in [Person -> PC]
    BY <1>10, GotoType DEF SaveOpen, PC
  <2>2. tmp' \in [Version -> Content]
    BY <1>10 DEF TypeOK, SaveOpen, Content, Unreadable
  <2>3. QED
    BY <1>10, <2>1, <2>2 DEF TypeOK, SaveOpen, job, trail
<1>11. ASSUME NEW c \in Person, SaveWrite(c) PROVE TypeOK'
  <2>1. pc' \in [Person -> PC]
    BY <1>11, GotoType DEF SaveWrite, PC
  <2>2. \A old : Over(old, ctx[c].new) \subseteq Content
    BY DEF TypeOK, Session, Over, Content, Unreadable
  <2>3. file' \in [Version -> Content] /\ tmp' \in [Version -> Content]
    BY <1>11, <2>2 DEF TypeOK, SaveWrite, store
  <2>4. QED
    BY <1>11, <2>1, <2>3 DEF TypeOK, SaveWrite, job, trail
<1>12. ASSUME NEW c \in Person, SaveReplace(c) PROVE TypeOK'
  <2>1. \A d \in Person : pc'[d] \in PC
    BY <1>12 DEF TypeOK, SaveReplace, PC
  <2>2. pc' \in [Person -> PC]
    BY <1>12, <2>1 DEF SaveReplace
  <2>3. ctx[c].after \in Version
    BY DEF TypeOK, Session
  <2>4. file' \in [Version -> Content] /\ tmp' \in [Version -> Content]
    BY <1>12, <2>3 DEF TypeOK, SaveReplace, Content
  <2>5. QED
    BY <1>12, <2>2, <2>4 DEF TypeOK, SaveReplace, job, trail
<1>13. ASSUME NEW c \in Person, WriteReceipt(c) PROVE TypeOK'
  <2>1. ReceiptOf(ctx[c]) \in Receipt
    BY <1>13, ReceiptType DEF TypeOK, SessionInv, WriteReceipt
  <2>2. pc' \in [Person -> PC]
    BY <1>13, GotoType DEF WriteReceipt, PC
  <2>3. QED
    BY <1>13, <2>1, <2>2 DEF TypeOK, WriteReceipt, store, job
<1>14. ASSUME NEW c \in Person, WriteApplied(c) PROVE TypeOK'
  <2>1. ReceiptOf(ctx[c]) \in receipts
    BY <1>14 DEF SessionInv, WriteApplied
  <2>2. QED
    BY <1>14, <2>1, DoneType DEF TypeOK, WriteApplied, store, job
<1>15. ASSUME NEW c \in Person, CommandStops(c) PROVE TypeOK'
  BY <1>15, DoneType DEF TypeOK, CommandStops, store, job, trail
<1>16. CASE UNCHANGED vars
  BY <1>16 DEF TypeOK, vars, store, job, trail
<1>17. QED
  BY <1>1, <1>2, <1>3, <1>4, <1>5, <1>6, <1>7, <1>8, <1>9, <1>10, <1>11, <1>12, <1>13, <1>14,
     <1>15, <1>16 DEF Next

LEMMA SessionInit == Init => SessionInv
BY DEF Init, SessionInv

(* A command that keeps its proposal keeps its quorum, whoever approves.   *)
LEMMA SessionKept ==
    ASSUME TypeOK, TypeOK', SessionInv, approvals \subseteq approvals',
           receipts \subseteq receipts',
           \A d \in Person :
               \/ pc'[d] = "idle"
               \/ /\ pc[d] # "idle" /\ ctx'[d].proposal = ctx[d].proposal
                  /\ pc'[d] # "record" \/ ReceiptOf(ctx[d])' \in receipts'
    PROVE  SessionInv'
<1> SUFFICES ASSUME NEW d \in Person
             PROVE  /\ pc'[d] # "idle" =>
                          ctx'[d].proposal \in Proposal /\ HasQuorum(ctx[d].proposal)'
                    /\ pc'[d] = "record" => ReceiptOf(ctx[d])' \in receipts'
  BY DEF SessionInv
<1>1. CASE pc'[d] = "idle"
  BY <1>1
<1>2. CASE pc'[d] # "idle"
  <2>1. ctx[d].proposal \in Proposal /\ HasQuorum(ctx[d].proposal)
    BY <1>2 DEF SessionInv
  <2>2. HasQuorum(ctx[d].proposal)'
    <3>1. \A p \in Proposal : HasQuorum(p) => HasQuorum(p)'
      BY QuorumGrows
    <3>2. ctx'[d].proposal = ctx[d].proposal
      BY <1>2
    <3>3. QED
      BY <2>1, <3>1, <3>2 DEF HasQuorum, ApproversOf
  <2>3. QED
    BY <1>2, <2>1, <2>2
<1>3. QED
  BY <1>1, <1>2

LEMMA SessionStep == TypeOK /\ TypeOK' /\ SessionInv /\ [Next]_vars => SessionInv'
<1> SUFFICES ASSUME TypeOK, TypeOK', SessionInv, [Next]_vars PROVE SessionInv'
  OBVIOUS
<1> USE DEF SessionInv
<1>1. CASE UNCHANGED <<pc, ctx>> /\ approvals \subseteq approvals' /\ receipts \subseteq receipts'
  BY <1>1, SessionKept DEF ReceiptOf
<1>2. CASE ConvertStart \/ ConvertAppend \/ ConvertStops \/ UNCHANGED vars
  BY <1>1, <1>2 DEF ConvertStart, ConvertAppend, ConvertStops, vars, trail
<1>3. ASSUME NEW p \in Proposal, ConvertRead(p) PROVE SessionInv'
  BY <1>1, <1>3 DEF ConvertRead, trail
<1>4. ASSUME NEW c \in Person, NEW p \in Proposal, Approve(c, p) PROVE SessionInv'
  BY <1>1, <1>4 DEF Approve, trail
<1>5. ASSUME NEW c \in Person, NEW p \in Proposal, ApplyCheck(c, p) PROVE SessionInv'
  <2>1. approvals' = approvals /\ receipts' = receipts
    BY <1>5 DEF ApplyCheck, trail
  <2>2. pc'[c] = "latest" /\ ctx'[c].proposal = p
    BY <1>5 DEF TypeOK, Session, ApplyCheck, Goto
  <2>3. HasQuorum(p)'
    BY <1>5, <2>1 DEF ApplyCheck, HasQuorum, ApproversOf
  <2>4. \A d \in Person : d # c => pc'[d] = pc[d] /\ ctx'[d] = ctx[d]
    BY <1>5 DEF TypeOK, ApplyCheck, Goto
  <2>5. QED
    BY <2>1, <2>2, <2>3, <2>4 DEF HasQuorum, ApproversOf, ReceiptOf
<1>6. ASSUME NEW c \in Person,
             ApplyLatest(c) \/ ApplyFind(c) \/ SaveVersion(c) \/ SaveOpen(c) \/ SaveWrite(c)
      PROVE  SessionInv'
  <2>1. approvals' = approvals /\ receipts' = receipts
    BY <1>6 DEF ApplyLatest, ApplyFind, Found, SaveVersion, SaveOpen, SaveWrite, trail
  <2>2. pc[c] # "idle" /\ pc'[c] # "record" /\ ctx'[c].proposal = ctx[c].proposal
    <3>1. pc[c] # "idle" /\ pc'[c] # "record"
      BY <1>6 DEF TypeOK, ApplyLatest, ApplyFind, Found, SaveVersion, SaveOpen, SaveWrite, Goto
    <3>2. CASE ApplyLatest(c)
      BY <3>1, <3>2 DEF TypeOK, Session, ApplyLatest
    <3>3. CASE ApplyFind(c)
      BY <3>1, <3>3 DEF TypeOK, Session, ApplyFind, Found
    <3>4. CASE SaveVersion(c)
      BY <3>1, <3>4 DEF TypeOK, Session, SaveVersion
    <3>5. CASE SaveOpen(c) \/ SaveWrite(c)
      BY <3>1, <3>5 DEF SaveOpen, SaveWrite
    <3>6. QED
      BY <1>6, <3>2, <3>3, <3>4, <3>5
  <2>3. \A d \in Person : d # c => pc'[d] = pc[d] /\ ctx'[d] = ctx[d]
    BY <1>6 DEF TypeOK, ApplyLatest, ApplyFind, Found, SaveVersion, SaveOpen, SaveWrite, Goto
  <2>4. QED
    BY <2>1, <2>2, <2>3, SessionKept DEF ReceiptOf
<1>7. ASSUME NEW c \in Person, SaveReplace(c) PROVE SessionInv'
  <2>1. approvals' = approvals /\ receipts' = receipts /\ ctx' = ctx
    BY <1>7 DEF SaveReplace, trail
  <2>2. \A d \in Person : pc'[d] # "idle" => pc[d] # "idle"
    BY <1>7 DEF TypeOK, SaveReplace
  <2>3. \A d \in Person : pc'[d] = "record" => pc[d] = "record"
    BY <1>7 DEF TypeOK, SaveReplace
  <2>4. QED
    BY <2>1, <2>2, <2>3, SessionKept DEF ReceiptOf
<1>8. ASSUME NEW c \in Person, WriteReceipt(c) PROVE SessionInv'
  <2>1. approvals' = approvals /\ ctx' = ctx /\ receipts' = receipts \cup {ReceiptOf(ctx[c])}
    BY <1>8 DEF WriteReceipt
  <2>2. pc[c] # "idle" /\ \A d \in Person : d # c => pc'[d] = pc[d]
    BY <1>8 DEF TypeOK, WriteReceipt, Goto
  <2>3. QED
    BY <2>1, <2>2, SessionKept DEF ReceiptOf
<1>9. ASSUME NEW c \in Person, WriteApplied(c) \/ CommandStops(c) PROVE SessionInv'
  <2>1. approvals' = approvals /\ receipts' = receipts
    BY <1>9 DEF WriteApplied, CommandStops, trail
  <2>2. pc'[c] = "idle" /\ \A d \in Person : d # c => pc'[d] = pc[d] /\ ctx'[d] = ctx[d]
    BY <1>9 DEF TypeOK, WriteApplied, CommandStops, Done, Goto
  <2>3. QED
    BY <2>1, <2>2, SessionKept DEF ReceiptOf
<1>10. QED
  BY <1>2, <1>3, <1>4, <1>5, <1>6, <1>7, <1>8, <1>9 DEF Next

LEMMA Typed == Spec => [](TypeOK /\ SessionInv)
BY TypeInit, TypeStep, SessionInit, SessionStep, PTL DEF Spec

(* Files, tables and commands keep their types in every reachable state,   *)
(* for any number of people, proposals, channels and versions.             *)
THEOREM TypeCorrect == Spec => []TypeOK
BY Typed, PTL

-----------------------------------------------------------------------------
(* Only approved channels change.                                          *)

Closed(ch) == \A p \in Proposal : ChannelOf[p] = ch => ~HasQuorum(p)

(* What is on disk and what the commands have in memory.                   *)
ClosedInv ==
    \A ch \in Channel : Closed(ch) =>
        /\ \A v \in Version :
              /\ file[v] \in Policy => file[v][ch] = InitialLevel
              /\ tmp[v] \in Policy => tmp[v][ch] = InitialLevel
        /\ \A c \in Person : ctx[c].old[ch] = InitialLevel /\ ctx[c].new[ch] = InitialLevel

(* A step needs to be looked at only for the channels closed before it.    *)
LEMMA ClosedShrinks ==
    ASSUME TypeOK, TypeOK', [Next]_vars, NEW ch \in Channel, Closed(ch)'
    PROVE  Closed(ch)
<1>1. approvals \subseteq approvals'
  BY DEF Next, vars, store, job, trail, ConvertStart, ConvertRead, ConvertAppend, ConvertStops,
     Approve, ApplyCheck, ApplyLatest, ApplyFind, Found, SaveVersion, SaveOpen, SaveWrite,
     SaveReplace, WriteReceipt, WriteApplied, CommandStops
<1>2. \A p \in Proposal : HasQuorum(p) => HasQuorum(p)'
  BY <1>1, QuorumGrows
<1>3. QED
  BY <1>2 DEF Closed

LEMMA ClosedInit == Init => ClosedInv
<1> SUFFICES ASSUME Init PROVE ClosedInv
  OBVIOUS
<1>1. \A v \in Version : file[v] \in Policy => file[v] = Initial
  BY ContentAssumption DEF Init
<1>2. \A v \in Version : tmp[v] \notin Policy
  BY ContentAssumption DEF Init
<1>3. \A c \in Person : ctx[c].old = Initial /\ ctx[c].new = Initial
  BY DEF Init, NoSession
<1>4. QED
  BY <1>1, <1>2, <1>3 DEF ClosedInv, Initial

LEMMA ClosedStep == TypeOK /\ TypeOK' /\ SessionInv /\ ClosedInv /\ [Next]_vars => ClosedInv'
<1> SUFFICES ASSUME TypeOK, TypeOK', SessionInv, ClosedInv, [Next]_vars,
                    NEW ch \in Channel, Closed(ch)'
             PROVE  /\ \A v \in Version :
                          /\ file'[v] \in Policy => file'[v][ch] = InitialLevel
                          /\ tmp'[v] \in Policy => tmp'[v][ch] = InitialLevel
                    /\ \A c \in Person : ctx'[c].old[ch] = InitialLevel
                                          /\ ctx'[c].new[ch] = InitialLevel
  BY DEF ClosedInv
<1> DEFINE Disk == \A v \in Version :
                      /\ file[v] \in Policy => file[v][ch] = InitialLevel
                      /\ tmp[v] \in Policy => tmp[v][ch] = InitialLevel
           Memory == \A c \in Person : ctx[c].old[ch] = InitialLevel
                                          /\ ctx[c].new[ch] = InitialLevel
<1>1. Closed(ch)
  BY ClosedShrinks
<1>2. Disk /\ Memory
  BY <1>1 DEF ClosedInv
<1> SUFFICES Disk' /\ Memory'
  OBVIOUS
<1>3. CASE UNCHANGED <<file, tmp, ctx>>
  BY <1>2, <1>3
<1>4. ASSUME NEW c \in Person, Done(c), UNCHANGED <<file, tmp>> PROVE Disk' /\ Memory'
  BY <1>2, <1>4 DEF TypeOK, Done, NoSession, Initial
<1>5. CASE ConvertStart \/ ConvertAppend \/ ConvertStops \/ UNCHANGED vars
  BY <1>3, <1>5 DEF ConvertStart, ConvertAppend, ConvertStops, vars, store
<1>6. ASSUME NEW p \in Proposal, ConvertRead(p) PROVE Disk' /\ Memory'
  BY <1>3, <1>6 DEF ConvertRead, store
<1>7. ASSUME NEW c \in Person, NEW p \in Proposal, Approve(c, p) PROVE Disk' /\ Memory'
  BY <1>3, <1>7 DEF Approve, store
<1>8. ASSUME NEW c \in Person, NEW p \in Proposal, ApplyCheck(c, p) PROVE Disk' /\ Memory'
  BY <1>2, <1>8 DEF TypeOK, Session, ApplyCheck, store
<1>9. ASSUME NEW c \in Person, ApplyLatest(c) PROVE Disk' /\ Memory'
  <2>1. PICK v \in Listed :
           IsLatest(v) /\ ctx' = [ctx EXCEPT ![c].before = v, ![c].old = file[v]]
    BY <1>9 DEF ApplyLatest
  <2>2. file[v][ch] = InitialLevel
    BY <1>2, <2>1, LatestType, VersionType
  <2>3. Memory'
    BY <1>2, <2>1, <2>2 DEF TypeOK, Session
  <2>4. QED
    BY <1>2, <1>9, <2>3 DEF ApplyLatest, store
<1>10. ASSUME NEW c \in Person, ApplyFind(c) PROVE Disk' /\ Memory'
  <2>1. ctx[c].proposal \in Proposal /\ HasQuorum(ctx[c].proposal)
    BY <1>10 DEF SessionInv, ApplyFind, Found
  <2>2. ChannelOf[ctx[c].proposal] # ch
    BY <1>1, <2>1 DEF Closed
  <2>3. ctx[c].old \in [Channel -> 0..Top]
    BY DEF TypeOK, Session, Policy
  <2>4. Patched(ctx[c])[ch] = InitialLevel
    BY <1>2, <2>2, <2>3 DEF Patched
  <2>5. ctx' = [ctx EXCEPT ![c].new = Patched(ctx[c]), ![c].after = ctx[c].before]
    BY <1>10 DEF ApplyFind, Found
  <2>6. Memory'
    BY <1>2, <2>4, <2>5 DEF TypeOK, Session
  <2>7. QED
    BY <1>2, <1>10, <2>6 DEF ApplyFind, Found, store
<1>11. ASSUME NEW c \in Person, SaveVersion(c) PROVE Disk' /\ Memory'
  <2>1. PICK v \in Listed : ctx' = [ctx EXCEPT ![c].after = v + 1]
    BY <1>11 DEF SaveVersion
  <2>2. Memory'
    BY <1>2, <2>1 DEF TypeOK, Session
  <2>3. QED
    BY <1>2, <1>11, <2>2 DEF SaveVersion, store
<1>12. ASSUME NEW c \in Person, SaveOpen(c) PROVE Disk' /\ Memory'
  <2>1. Empty \notin Policy
    BY ContentAssumption
  <2>2. QED
    BY <1>2, <1>12, <2>1 DEF TypeOK, SaveOpen
<1>13. ASSUME NEW c \in Person, SaveWrite(c) PROVE Disk' /\ Memory'
  <2>1. \A old, x : x \in Over(old, ctx[c].new) /\ x \in Policy => x = ctx[c].new
    BY ContentAssumption DEF Over
  <2>2. Disk'
    BY <1>2, <1>13, <2>1 DEF TypeOK, SaveWrite, store
  <2>3. QED
    BY <1>2, <1>13, <2>2 DEF SaveWrite
<1>14. ASSUME NEW c \in Person, SaveReplace(c) PROVE Disk' /\ Memory'
  <2>1. ctx[c].after \in Version /\ Null \notin Policy
    BY ContentAssumption DEF TypeOK, Session
  <2>2. Disk'
    BY <1>2, <1>14, <2>1 DEF TypeOK, SaveReplace
  <2>3. QED
    BY <1>2, <1>14, <2>2 DEF SaveReplace
<1>15. ASSUME NEW c \in Person, WriteReceipt(c) PROVE Disk' /\ Memory'
  BY <1>3, <1>15 DEF WriteReceipt, store
<1>16. ASSUME NEW c \in Person, WriteApplied(c) \/ CommandStops(c) PROVE Disk' /\ Memory'
  BY <1>4, <1>16 DEF WriteApplied, CommandStops, store
<1>17. QED
  BY <1>5, <1>6, <1>7, <1>8, <1>9, <1>10, <1>11, <1>12, <1>13, <1>14, <1>15, <1>16 DEF Next

LEMMA ClosedFiles == ClosedInv => UnapprovedUntouched
BY DEF ClosedInv, Closed, UnapprovedUntouched

(* No race, crash or overwriting changes the level of a channel without an *)
(* approved proposal about it, in any version that any reader could see.   *)
THEOREM OnlyApprovedChange == Spec => []UnapprovedUntouched
<1>1. Spec => []ClosedInv
  BY ClosedInit, ClosedStep, Typed, PTL DEF Spec
<1>2. QED
  BY <1>1, ClosedFiles, PTL

-----------------------------------------------------------------------------
(* Under strategy "reject" a patch is one step of what it was applied to.  *)

Step(p, from) == Clamp(from[ChannelOf[p]] + Delta[p])
Stepped(p, from) == [from EXCEPT ![ChannelOf[p]] = Step(p, from)]

(* A proposal's level is a step from its own base, and a command that has  *)
(* compared that base with the policy it read has made one step from it.   *)
StepInv ==
    /\ draft # Null => draft.level = Step(draft.id, draft.base)
    /\ \A p \in Proposal :
          proposals[p] # Null => proposals[p].level = Step(p, proposals[p].base)
    /\ \A c \in Person : pc[c] \notin {"idle", "latest", "find"} =>
          ctx[c].new = Stepped(ctx[c].proposal, ctx[c].old)
    /\ \A r \in receipts : r.new = Stepped(r.proposal, r.old)

LEMMA StepInit == Init => StepInv
BY DEF Init, StepInv

LEMMA StepStep ==
    ASSUME Strategy = {"reject"}, TypeOK, TypeOK', SessionInv, StepInv, [Next]_vars
    PROVE  StepInv'
<1> USE DEF Step
<1>1. CASE UNCHANGED <<proposals, draft, receipts, ctx>> /\
           \A d \in Person : pc[d] \in {"idle", "latest", "find"} =>
                                 pc'[d] \in {"idle", "latest", "find"}
  BY <1>1 DEF StepInv, Stepped
<1>2. ASSUME NEW c \in Person, UNCHANGED <<proposals, draft, receipts>>,
             \A d \in Person : d # c => pc'[d] = pc[d] /\ ctx'[d] = ctx[d],
             pc'[c] \notin {"idle", "latest", "find"} =>
                 ctx'[c].new = Stepped(ctx'[c].proposal, ctx'[c].old)
      PROVE  StepInv'
  BY <1>2 DEF StepInv, Stepped
<1>3. CASE ConvertStart
  BY <1>3 DEF ConvertStart, StepInv, Stepped, trail
<1>4. ASSUME NEW p \in Proposal, ConvertRead(p) PROVE StepInv'
  BY <1>4 DEF ConvertRead, StepInv, Stepped, trail
<1>5. CASE ConvertAppend
  <2>1. draft # Null /\ draft.id \in Proposal
    BY <1>5 DEF ConvertAppend, TypeOK
  <2>2. proposals' = [proposals EXCEPT ![draft.id] =
                        [base |-> draft.base, level |-> draft.level]]
    BY <1>5 DEF ConvertAppend
  <2>3. \A p \in Proposal : proposals'[p] # Null =>
            proposals'[p].level = Step(p, proposals'[p].base)
    BY <2>1, <2>2 DEF TypeOK, StepInv
  <2>4. QED
    BY <1>5, <2>3 DEF ConvertAppend, StepInv, Stepped, trail
<1>6. CASE ConvertStops
  BY <1>6 DEF ConvertStops, StepInv, Stepped, trail
<1>7. ASSUME NEW c \in Person, NEW p \in Proposal, Approve(c, p) PROVE StepInv'
  BY <1>1, <1>7 DEF Approve, job, trail
<1>8. ASSUME NEW c \in Person, NEW p \in Proposal, ApplyCheck(c, p) PROVE StepInv'
  <2>1. \A d \in Person : d # c => pc'[d] = pc[d] /\ ctx'[d] = ctx[d]
    BY <1>8 DEF TypeOK, ApplyCheck, Goto
  <2>2. pc'[c] = "latest"
    BY <1>8 DEF TypeOK, ApplyCheck, Goto
  <2>3. QED
    BY <1>2, <1>8, <2>1, <2>2 DEF ApplyCheck, job, trail
<1>9. ASSUME NEW c \in Person, ApplyLatest(c) PROVE StepInv'
  <2>1. \A d \in Person : d # c => pc'[d] = pc[d] /\ ctx'[d] = ctx[d]
    BY <1>9 DEF TypeOK, ApplyLatest, Goto
  <2>2. pc'[c] = "find"
    BY <1>9 DEF TypeOK, ApplyLatest, Goto
  <2>3. QED
    BY <1>2, <1>9, <2>1, <2>2 DEF ApplyLatest, job, trail
<1>10. ASSUME NEW c \in Person, ApplyFind(c) PROVE StepInv'
  <2>1. ctx[c].proposal \in Proposal /\ proposals[ctx[c].proposal] # Null
    BY <1>10 DEF SessionInv, ApplyFind, Found
  <2>2. proposals[ctx[c].proposal].base = ctx[c].old
    BY <1>10 DEF ApplyFind
  <2>3. Patched(ctx[c]) = Stepped(ctx[c].proposal, ctx[c].old)
    BY <2>1, <2>2 DEF StepInv, Patched, Stepped
  <2>4. ctx' = [ctx EXCEPT ![c].new = Patched(ctx[c]), ![c].after = ctx[c].before]
    BY <1>10 DEF ApplyFind, Found
  <2>5. /\ ctx'[c].new = Patched(ctx[c])
        /\ ctx'[c].old = ctx[c].old /\ ctx'[c].proposal = ctx[c].proposal
    BY <2>4 DEF TypeOK, Session
  <2>6. \A d \in Person : d # c => pc'[d] = pc[d] /\ ctx'[d] = ctx[d]
    BY <1>10, <2>4 DEF TypeOK, ApplyFind, Found, Goto
  <2>7. QED
    BY <1>2, <1>10, <2>3, <2>5, <2>6 DEF ApplyFind, Found, job, trail
<1>11. ASSUME NEW c \in Person, SaveVersion(c) PROVE StepInv'
  <2>1. \A d \in Person : d # c => pc'[d] = pc[d] /\ ctx'[d] = ctx[d]
    BY <1>11 DEF TypeOK, SaveVersion, Goto
  <2>2. PICK v \in Listed : ctx' = [ctx EXCEPT ![c].after = v + 1]
    BY <1>11 DEF SaveVersion
  <2>3. /\ ctx'[c].new = ctx[c].new
        /\ ctx'[c].old = ctx[c].old /\ ctx'[c].proposal = ctx[c].proposal
    BY <2>2 DEF TypeOK, Session
  <2>4. ctx[c].new = Stepped(ctx[c].proposal, ctx[c].old)
    BY <1>11 DEF SaveVersion, StepInv
  <2>5. QED
    BY <1>2, <1>11, <2>1, <2>3, <2>4 DEF SaveVersion, job, trail
<1>12. ASSUME NEW c \in Person, SaveOpen(c) \/ SaveWrite(c) PROVE StepInv'
  BY <1>1, <1>12 DEF TypeOK, SaveOpen, SaveWrite, Goto, job, trail
<1>13. ASSUME NEW c \in Person, SaveReplace(c) PROVE StepInv'
  BY <1>1, <1>13 DEF TypeOK, SaveReplace, job, trail
<1>14. ASSUME NEW c \in Person, WriteReceipt(c) PROVE StepInv'
  <2>1. ctx[c].new = Stepped(ctx[c].proposal, ctx[c].old)
    BY <1>14 DEF WriteReceipt, StepInv
  <2>2. \A r \in receipts' : r.new = Stepped(r.proposal, r.old)
    BY <1>14, <2>1 DEF WriteReceipt, StepInv, ReceiptOf
  <2>3. \A d \in Person : pc'[d] \notin {"idle", "latest", "find"} =>
            ctx[d].new = Stepped(ctx[d].proposal, ctx[d].old)
    BY <1>14, <2>1 DEF TypeOK, WriteReceipt, StepInv, Goto
  <2>4. QED
    BY <1>14, <2>2, <2>3 DEF WriteReceipt, StepInv, Stepped, job
<1>15. ASSUME NEW c \in Person, WriteApplied(c) \/ CommandStops(c) PROVE StepInv'
  <2>1. \A d \in Person : d # c => pc'[d] = pc[d] /\ ctx'[d] = ctx[d]
    BY <1>15 DEF TypeOK, WriteApplied, CommandStops, Done, Goto
  <2>2. pc'[c] = "idle"
    BY <1>15 DEF TypeOK, WriteApplied, CommandStops, Done, Goto
  <2>3. QED
    BY <1>2, <1>15, <2>1, <2>2 DEF WriteApplied, CommandStops, job, trail
<1>16. CASE UNCHANGED vars
  BY <1>1, <1>16 DEF vars, job, trail
<1>17. QED
  BY <1>3, <1>4, <1>5, <1>6, <1>7, <1>8, <1>9, <1>10, <1>11, <1>12, <1>13, <1>14, <1>15, <1>16
  DEF Next

LEMMA StepReceipts == ASSUME StepInv PROVE RejectMovesOneStep
BY DEF StepInv, RejectMovesOneStep, Stepped, Step

(* Stale proposals are refused whenever the converter rewrites the file:   *)
(* a receipt under strategy "reject" is one step of the policy it names.   *)
THEOREM RejectIsOneStep == Spec => []RejectMovesOneStep
<1>1. CASE Strategy # {"reject"}
  <2>1. RejectMovesOneStep
    BY <1>1 DEF RejectMovesOneStep
  <2>2. QED
    BY <2>1, PTL
<1>2. CASE Strategy = {"reject"}
  <2>1. TypeOK /\ TypeOK' /\ SessionInv /\ StepInv /\ [Next]_vars => StepInv'
    BY <1>2, StepStep
  <2>2. Spec => []StepInv
    BY <2>1, StepInit, Typed, PTL DEF Spec
  <2>3. QED
    BY <2>2, StepReceipts, PTL
<1>3. QED
  BY <1>1, <1>2

-----------------------------------------------------------------------------
(* As long as commands do not overlap.                                     *)

LEMMA OneLatest ==
    ASSUME NEW v \in Listed, NEW w \in Listed, IsLatest(v), IsLatest(w)
    PROVE  v = w
<1>1. ASSUME NEW x \in Listed, NEW y \in Listed, IsLatest(x), file[y] # Null PROVE y <= x
  BY <1>1, PolicyAssumption DEF IsLatest, Listed
<1>2. v <= w /\ w <= v
  BY <1>1 DEF IsLatest
<1>3. QED
  BY <1>2 DEF Listed

(* What a receipt, or the command about to write it, says of the files.    *)
Accurate(r) ==
    /\ r.before \in Listed
    /\ r.after \in {r.before, r.before + 1}
    /\ file[r.before] = r.old
    /\ r.after <= MaxVersion => file[r.after] = r.new

(* A command between its reading of the latest version and its publishing  *)
(* of the next one: nobody else has published meanwhile, and its .tmp      *)
(* holds what it has put there.                                            *)
Publishing(c) ==
    LET x == ctx[c] IN
    /\ x.before \in Listed /\ IsLatest(x.before) /\ file[x.before] = x.old
    /\ pc[c] \notin {"late", "lost"}
    /\ pc[c] # "find" =>
          \A ch \in Channel : ch # ChannelOf[x.proposal] => x.new[ch] = x.old[ch]
    /\ pc[c] \in {"open", "write", "replace"} => x.after = x.before + 1
    /\ pc[c] = "write" => tmp[x.after] = Empty
    /\ pc[c] = "replace" => tmp[x.after] = x.new

SerialInv ==
    ~overlapped =>
        /\ \A c, d \in Person : pc[c] \in Saving /\ pc[d] \in Saving => c = d
        /\ \A c \in Person : pc[c] \in Saving => Publishing(c)
        /\ \A c \in Person : pc[c] \in {"receipt", "record"} => Accurate(ctx[c])
        /\ \A r \in receipts : Accurate(r)

LEMMA SerialInit == Init => SerialInv
BY DEF Init, SerialInv, Saving

(* A step of one command that changes no file but perhaps the .tmp of a    *)
(* command that is saving keeps what holds of everybody else.              *)
LEMMA SerialKept ==
    ASSUME TypeOK, TypeOK', SerialInv, file' = file, NEW c \in Person,
           ~overlapped' => ~overlapped,
           \A d \in Person : d # c => pc'[d] = pc[d] /\ ctx'[d] = ctx[d],
           tmp' = tmp \/ pc[c] \in Saving,
           ~overlapped' /\ pc'[c] \in Saving =>
               /\ Publishing(c)'
               /\ pc[c] \in Saving \/ \A d \in Person : d # c => pc[d] \notin Saving,
           ~overlapped' /\ pc'[c] \in {"receipt", "record"} => Accurate(ctx[c])',
           ~overlapped' => \A r \in receipts' : Accurate(r)
    PROVE  SerialInv'
<1> SUFFICES ASSUME ~overlapped'
             PROVE  /\ \A d, e \in Person : pc'[d] \in Saving /\ pc'[e] \in Saving => d = e
                    /\ \A d \in Person : pc'[d] \in Saving => Publishing(d)'
                    /\ \A d \in Person : pc'[d] \in {"receipt", "record"} => Accurate(ctx[d])'
                    /\ \A r \in receipts' : Accurate(r)'
  BY DEF SerialInv
<1>1. \A r : Accurate(r) => Accurate(r)'
  BY DEF Accurate
<1>2. \A d, e \in Person : pc'[d] \in Saving /\ pc'[e] \in Saving => d = e
  BY DEF SerialInv
<1>3. ASSUME NEW d \in Person, d # c, pc'[d] \in Saving PROVE Publishing(d)'
  <2>1. pc[d] \in Saving /\ Publishing(d)
    BY <1>3 DEF SerialInv
  <2>2. pc[c] \notin Saving
    BY <1>3, <2>1 DEF SerialInv
  <2>3. tmp' = tmp /\ pc'[d] = pc[d] /\ ctx'[d] = ctx[d]
    BY <1>3, <2>2
  <2>4. QED
    BY <2>1, <2>3 DEF Publishing, IsLatest
<1>4. ASSUME NEW d \in Person, d # c, pc'[d] \in {"receipt", "record"} PROVE Accurate(ctx[d])'
  BY <1>4 DEF SerialInv, Accurate
<1>5. QED
  BY <1>1, <1>2, <1>3, <1>4

(* Nobody but c is saving, so that nobody has c's .tmp renamed under him.  *)
LEMMA ReplaceEffect ==
    ASSUME TypeOK, SerialInv, ~overlapped, NEW c \in Person, SaveReplace(c)
    PROVE  /\ pc' = [pc EXCEPT ![c] = "receipt"]
           /\ file' = [file EXCEPT ![ctx[c].before + 1] = ctx[c].new]
           /\ Publishing(c) /\ ctx[c].after = ctx[c].before + 1
           /\ pc[c] = "replace" /\ \A d \in Person : d # c => pc[d] \notin Saving
<1>1. pc[c] = "replace" /\ pc[c] \in Saving
  BY DEF SaveReplace, Saving
<1>2. \A d \in Person : d # c => pc[d] \notin Saving
  BY <1>1 DEF SerialInv
<1>3. \A d \in Person : d # c => pc[d] \notin {"write", "late"}
  BY <1>2 DEF Saving
<1>4. \A d \in Person : pc'[d] = IF d = c THEN "receipt" ELSE pc[d]
  BY <1>3 DEF SaveReplace
<1>5. pc' = [pc EXCEPT ![c] = "receipt"]
  BY <1>4 DEF TypeOK, SaveReplace
<1>6. Publishing(c)
  BY <1>1 DEF SerialInv
<1>7. QED
  BY <1>1, <1>2, <1>5, <1>6 DEF Publishing, SaveReplace

LEMMA SerialStep == TypeOK /\ TypeOK' /\ SessionInv /\ SerialInv /\ [Next]_vars => SerialInv'
<1> SUFFICES ASSUME TypeOK, TypeOK', SessionInv, SerialInv, [Next]_vars PROVE SerialInv'
  OBVIOUS
<1>1. CASE UNCHANGED <<file, tmp, pc, ctx, receipts, overlapped>>
  BY <1>1 DEF SerialInv, Publishing, Accurate, IsLatest
<1>2. CASE ConvertStart \/ ConvertAppend \/ ConvertStops \/ UNCHANGED vars
  BY <1>1, <1>2 DEF ConvertStart, ConvertAppend, ConvertStops, vars, store, trail
<1>3. ASSUME NEW p \in Proposal, ConvertRead(p) PROVE SerialInv'
  BY <1>1, <1>3 DEF ConvertRead, store, trail
<1>4. ASSUME NEW c \in Person, NEW p \in Proposal, Approve(c, p) PROVE SerialInv'
  BY <1>1, <1>4 DEF Approve, store, trail
<1>5. ASSUME NEW c \in Person, NEW p \in Proposal, ApplyCheck(c, p) PROVE SerialInv'
  <2>1. /\ \A d \in Person : d # c => pc'[d] = pc[d] /\ ctx'[d] = ctx[d]
        /\ pc'[c] = "latest"
    BY <1>5 DEF TypeOK, ApplyCheck, Goto
  <2>2. UNCHANGED <<file, tmp, receipts, overlapped>>
    BY <1>5 DEF ApplyCheck, store, trail
  <2>3. QED
    BY <2>1, <2>2, SerialKept DEF SerialInv, Saving
<1>6. ASSUME NEW c \in Person, ApplyLatest(c) PROVE SerialInv'
  <2>1. PICK v \in Listed :
           IsLatest(v) /\ ctx' = [ctx EXCEPT ![c].before = v, ![c].old = file[v]]
    BY <1>6 DEF ApplyLatest
  <2>2. /\ \A d \in Person : d # c => pc'[d] = pc[d] /\ ctx'[d] = ctx[d]
        /\ pc'[c] = "find" /\ ctx'[c].before = v /\ ctx'[c].old = file[v]
    BY <1>6, <2>1 DEF TypeOK, Session, ApplyLatest, Goto
  <2>3. UNCHANGED <<file, tmp, receipts>>
    BY <1>6 DEF ApplyLatest, store, trail
  <2>4. /\ ~overlapped' => ~overlapped
        /\ ~overlapped' => \A d \in Person : d # c => pc[d] \notin Saving
    BY <1>6 DEF ApplyLatest
  <2>5. Publishing(c)'
    BY <2>1, <2>2, <2>3 DEF Publishing, IsLatest
  <2>6. QED
    BY <2>2, <2>3, <2>4, <2>5, SerialKept DEF SerialInv
<1>7. ASSUME NEW c \in Person, ApplyFind(c) PROVE SerialInv'
  <2> DEFINE new == Patched(ctx[c])
  <2>1. ctx[c] \in Session /\ ctx[c].proposal \in Proposal /\ proposals[ctx[c].proposal] # Null
    BY <1>7 DEF TypeOK, SessionInv, ApplyFind, Found
  <2>2. \A ch \in Channel : ch # ChannelOf[ctx[c].proposal] => new[ch] = ctx[c].old[ch]
    BY <2>1 DEF Patched, Session, Policy
  <2>3. pc[c] = "find" /\ UNCHANGED <<file, tmp, receipts, overlapped>>
    BY <1>7 DEF ApplyFind, Found, store, trail
  <2>4. /\ ctx'[c].new = new /\ ctx'[c].old = ctx[c].old /\ ctx'[c].before = ctx[c].before
        /\ ctx'[c].after = ctx[c].before /\ ctx'[c].proposal = ctx[c].proposal
        /\ \A d \in Person : d # c => pc'[d] = pc[d] /\ ctx'[d] = ctx[d]
        /\ pc'[c] = IF new = ctx[c].old THEN "receipt" ELSE "version"
    BY <1>7, <2>1 DEF TypeOK, Session, ApplyFind, Found, Goto
  <2>5. ~overlapped => Publishing(c)
    BY <2>3 DEF SerialInv, Saving
  <2>6. ~overlapped' /\ pc'[c] \in Saving => Publishing(c)' /\ pc[c] \in Saving
    BY <2>2, <2>3, <2>4, <2>5 DEF Publishing, IsLatest, Saving
  <2>7. ~overlapped' /\ pc'[c] \in {"receipt", "record"} => Accurate(ctx[c])'
    BY <2>3, <2>4, <2>5 DEF Publishing, Accurate, Saving
  <2>8. QED
    BY <2>3, <2>4, <2>6, <2>7, SerialKept DEF SerialInv
<1>8. ASSUME NEW c \in Person, SaveVersion(c) PROVE SerialInv'
  <2>1. PICK v \in Listed : IsLatest(v) /\ ctx' = [ctx EXCEPT ![c].after = v + 1]
    BY <1>8 DEF SaveVersion
  <2>2. pc[c] = "version" /\ UNCHANGED <<file, tmp, receipts, overlapped>>
    BY <1>8 DEF SaveVersion, store, trail
  <2>3. /\ ctx'[c].new = ctx[c].new /\ ctx'[c].old = ctx[c].old
        /\ ctx'[c].before = ctx[c].before /\ ctx'[c].after = v + 1
        /\ ctx'[c].proposal = ctx[c].proposal
        /\ \A d \in Person : d # c => pc'[d] = pc[d] /\ ctx'[d] = ctx[d]
        /\ pc'[c] = "open"
    BY <1>8, <2>1 DEF TypeOK, Session, SaveVersion, Goto
  <2>4. ~overlapped => Publishing(c) /\ ctx[c].before = v
    <3>1. ~overlapped => Publishing(c)
      BY <2>2 DEF SerialInv, Saving
    <3>2. QED
      BY <2>1, <3>1, OneLatest DEF Publishing
  <2>5. ~overlapped' /\ pc'[c] \in Saving => Publishing(c)' /\ pc[c] \in Saving
    BY <2>2, <2>3, <2>4 DEF Publishing, IsLatest, Saving
  <2>6. QED
    BY <2>2, <2>3, <2>5, SerialKept DEF SerialInv
<1>9. ASSUME NEW c \in Person, SaveOpen(c) PROVE SerialInv'
  <2>1. pc[c] = "open" /\ UNCHANGED <<file, ctx, receipts, overlapped>>
    BY <1>9 DEF SaveOpen, trail
  <2>2. /\ \A d \in Person : d # c => pc'[d] = pc[d]
        /\ pc'[c] = "write" /\ tmp'[ctx[c].after] = Empty
    BY <1>9 DEF TypeOK, Session, SaveOpen, Goto
  <2>3. ~overlapped => Publishing(c)
    BY <2>1 DEF SerialInv, Saving
  <2>4. ~overlapped' /\ pc'[c] \in Saving => Publishing(c)' /\ pc[c] \in Saving
    BY <2>1, <2>2, <2>3 DEF Publishing, IsLatest, Saving
  <2>5. QED
    BY <2>1, <2>2, <2>4, SerialKept DEF SerialInv, Saving
<1>10. ASSUME NEW c \in Person, SaveWrite(c) PROVE SerialInv'
  <2>1. UNCHANGED <<ctx, receipts, overlapped>> /\ pc[c] \in {"write", "late", "lost"}
    BY <1>10 DEF SaveWrite, trail
  <2>2. (\A d \in Person : d # c => pc'[d] = pc[d]) /\ pc'[c] = "replace"
    BY <1>10 DEF TypeOK, SaveWrite, Goto
  <2>3. CASE ~overlapped
    <3>1. Publishing(c) /\ pc[c] = "write" /\ pc[c] \in Saving
      BY <2>1, <2>3 DEF SerialInv, Saving, Publishing
    <3>2. tmp[ctx[c].after] = Empty
      BY <3>1 DEF Publishing
    <3>3. file' = file /\ tmp'[ctx[c].after] = ctx[c].new
      BY <1>10, <3>1, <3>2 DEF TypeOK, Session, SaveWrite, Over
    <3>4. Publishing(c)'
      BY <2>1, <2>2, <3>1, <3>3 DEF Publishing, IsLatest
    <3>5. QED
      BY <2>1, <2>2, <3>1, <3>3, <3>4, SerialKept DEF SerialInv
  <2>4. QED
    BY <2>1, <2>3 DEF SerialInv
<1>11. ASSUME NEW c \in Person, SaveReplace(c) PROVE SerialInv'
  <2>1. overlapped' = overlapped /\ ctx' = ctx /\ receipts' = receipts
    BY <1>11 DEF SaveReplace, trail
  <2>2. CASE ~overlapped
    <3>1. /\ pc' = [pc EXCEPT ![c] = "receipt"]
          /\ file' = [file EXCEPT ![ctx[c].before + 1] = ctx[c].new]
          /\ Publishing(c) /\ ctx[c].after = ctx[c].before + 1
          /\ \A d \in Person : d # c => pc[d] \notin Saving
      BY <1>11, <2>2, ReplaceEffect
    <3>2. ctx[c].before \in Listed /\ ctx[c].before + 1 \in Version
      BY <3>1, VersionType DEF Publishing
    <3>3. ctx[c].before + 1 <= MaxVersion => file[ctx[c].before + 1] = Null
      BY <3>1, <3>2, PolicyAssumption DEF Publishing, IsLatest, Listed
    <3>4. \A r : r.old \in Policy /\ r.new \in Policy /\ Accurate(r) => Accurate(r)'
      <4> SUFFICES ASSUME NEW r, r.old \in Policy, r.new \in Policy, Accurate(r)
                   PROVE  Accurate(r)'
        OBVIOUS
      <4>1. Null \notin Policy
        BY ContentAssumption
      <4>2. r.before # ctx[c].before + 1
        BY <3>2, <3>3, <4>1, PolicyAssumption DEF Accurate, Listed
      <4>3. r.after <= MaxVersion => r.after # ctx[c].before + 1
        BY <3>3, <4>1 DEF Accurate
      <4>4. r.before \in Version /\ r.after \in Version
        BY VersionType DEF Accurate
      <4>5. QED
        BY <3>1, <4>2, <4>3, <4>4 DEF Accurate, TypeOK
    <3>5. Accurate(ctx[c])'
      <4>1. ctx[c].before # ctx[c].before + 1
        BY <3>2, PolicyAssumption DEF Listed
      <4>2. ctx[c].before \in Version
        BY <3>2, VersionType
      <4>3. QED
        BY <2>1, <3>1, <3>2, <4>1, <4>2 DEF Accurate, Publishing, TypeOK
    <3>6. \A d \in Person : d # c => pc'[d] = pc[d] /\ pc'[c] = "receipt"
      BY <3>1 DEF TypeOK
    <3>7. pc'[c] \notin Saving
      BY <3>1 DEF TypeOK, Saving
    <3>8. \A d \in Person : pc'[d] \notin Saving
      BY <3>1, <3>6, <3>7
    <3>9. \A d \in Person : pc'[d] \in {"receipt", "record"} => Accurate(ctx[d])'
      <4> SUFFICES ASSUME NEW d \in Person, d # c, pc'[d] \in {"receipt", "record"}
                   PROVE  Accurate(ctx[d])'
        BY <3>5
      <4>1. Accurate(ctx[d])
        BY <2>2, <3>6 DEF SerialInv
      <4>2. ctx[d].old \in Policy /\ ctx[d].new \in Policy
        BY DEF TypeOK, Session
      <4>3. QED
        BY <2>1, <3>1, <3>4, <4>1, <4>2 DEF Accurate
    <3>10. \A r \in receipts' : Accurate(r)'
      <4>1. \A r \in receipts : r.old \in Policy /\ r.new \in Policy
        BY DEF TypeOK, Receipt
      <4>2. QED
        BY <2>1, <2>2, <3>4, <4>1 DEF SerialInv
    <3>11. QED
      BY <2>1, <2>2, <3>8, <3>9, <3>10 DEF SerialInv
  <2>3. QED
    BY <2>1, <2>2 DEF SerialInv
<1>12. ASSUME NEW c \in Person, WriteReceipt(c) PROVE SerialInv'
  <2>1. /\ pc[c] = "receipt" /\ UNCHANGED <<file, tmp, ctx, overlapped>>
        /\ receipts' = receipts \cup {ReceiptOf(ctx[c])}
    BY <1>12 DEF WriteReceipt, store
  <2>2. (\A d \in Person : d # c => pc'[d] = pc[d]) /\ pc'[c] = "record"
    BY <1>12 DEF TypeOK, WriteReceipt, Goto
  <2>3. ~overlapped => Accurate(ctx[c])
    BY <2>1 DEF SerialInv
  <2>4. ~overlapped => \A r \in receipts' : Accurate(r)
    BY <2>1, <2>3 DEF SerialInv, Accurate, ReceiptOf
  <2>5. ~overlapped' => Accurate(ctx[c])'
    BY <2>1, <2>3 DEF Accurate
  <2>6. QED
    BY <2>1, <2>2, <2>4, <2>5, SerialKept DEF Saving
<1>13. ASSUME NEW c \in Person, WriteApplied(c) \/ CommandStops(c) PROVE SerialInv'
  <2>1. UNCHANGED <<file, tmp, receipts, overlapped>>
    BY <1>13 DEF WriteApplied, CommandStops, store, trail
  <2>2. (\A d \in Person : d # c => pc'[d] = pc[d] /\ ctx'[d] = ctx[d]) /\ pc'[c] = "idle"
    BY <1>13 DEF TypeOK, WriteApplied, CommandStops, Done, Goto
  <2>3. QED
    BY <2>1, <2>2, SerialKept DEF SerialInv, Saving
<1>14. QED
  BY <1>2, <1>3, <1>4, <1>5, <1>6, <1>7, <1>8, <1>9, <1>10, <1>11, <1>12, <1>13 DEF Next

LEMMA SerialCorrect == Spec => []SerialInv
BY SerialInit, SerialStep, Typed, PTL DEF Spec

(* Commands that never overlap, wherever each is stopped, leave receipts   *)
(* that tell what is in the files they name.                               *)
THEOREM ReceiptsAccurate == Spec => []SerialReceiptsAccurate
<1>1. TypeOK /\ SerialInv => SerialReceiptsAccurate
  BY DEF TypeOK, SerialInv, SerialReceiptsAccurate, Accurate
<1>2. QED
  BY <1>1, SerialCorrect, Typed, PTL

-----------------------------------------------------------------------------
(* The published versions as PolicyLog.                                    *)

History == [v \in 1..MaxVersion |-> file[v]]

(* One more approval opens one more channel at most.                       *)
LEMMA ApproveOpens ==
    ASSUME TypeOK, TypeOK', NEW c \in Person, NEW p \in Proposal, Approve(c, p)
    PROVE  Log!Step
<1>1. \A q \in Proposal : q # p => (HasQuorum(q)' <=> HasQuorum(q))
  <2>1. \A q \in Proposal : q # p => ApproversOf(q)' = ApproversOf(q)
    BY DEF Approve, ApproversOf
  <2>2. QED
    BY <2>1 DEF HasQuorum
<1>2. HasQuorum(p) => HasQuorum(p)'
  BY QuorumGrows DEF Approve
<1>3. UNCHANGED History
  BY DEF Approve, store, History
<1>4. CASE Tuned' = Tuned
  BY <1>3, <1>4 DEF Log!Step, Log!log, History
<1>5. CASE Tuned' # Tuned
  <2>1. HasQuorum(p)' /\ ~HasQuorum(p)
    BY <1>1, <1>2, <1>5 DEF Tuned
  <2>2. ChannelOf[p] \in Channel
    BY PolicyAssumption
  <2>3. Tuned' = Tuned \cup {ChannelOf[p]}
    BY <1>1, <2>1, <2>2 DEF Tuned
  <2>4. QED
    BY <1>3, <2>2, <2>3 DEF Log!Step, Log!Next, Log!Approve, History
<1>6. QED
  BY <1>4, <1>5

(* Publishing the next version is a step of the log.                       *)
LEMMA ReplacePublishes ==
    ASSUME TypeOK, TypeOK', SessionInv, SerialInv, ~overlapped, NEW c \in Person, SaveReplace(c)
    PROVE  Log!Step
<1>0. ctx[c].proposal \in Proposal
  BY DEF SessionInv, SaveReplace
<1> PICK ch \in Channel : ch = ChannelOf[ctx[c].proposal]
  BY <1>0, PolicyAssumption
<1>1. PICK v \in Listed : v = ctx[c].before
  BY ReplaceEffect DEF Publishing
<1>2. /\ file' = [file EXCEPT ![v + 1] = ctx[c].new]
      /\ Publishing(c) /\ pc[c] = "replace"
  BY <1>1, ReplaceEffect
<1>3. PICK new \in Policy : new = ctx[c].new
  BY DEF TypeOK, Session
<1>4. ch \in Tuned
  BY <1>0, <1>2 DEF SessionInv, Tuned
<1>5. Tuned' = Tuned
  BY DEF SaveReplace, Tuned, HasQuorum, ApproversOf
<1>6. CASE v + 1 <= MaxVersion
  <2>1. v + 1 \in 2..MaxVersion /\ v \in 1..MaxVersion /\ (v + 1) - 1 = v
    BY <1>6, PolicyAssumption DEF Listed
  <2>2. History[v + 1] = Null /\ History[v] # Null
    BY <1>1, <1>2, <2>1, PolicyAssumption DEF Publishing, IsLatest, History
  <2>3. \A other \in Channel \ {ch} : new[other] = History[v][other]
    BY <1>1, <1>2, <1>3, <2>1 DEF Publishing, History
  <2>4. History' = [History EXCEPT ![v + 1] = new]
    <3> DEFINE H == History
               K == History'
    <3>1. H = [w \in 1..MaxVersion |-> file[w]] /\ K = [w \in 1..MaxVersion |-> file'[w]]
      BY DEF History
    <3>2. \A w \in Version : file'[w] = IF w = v + 1 THEN new ELSE file[w]
      BY <1>2, <1>3 DEF TypeOK
    <3>3. \A w \in 1..MaxVersion : w \in Version
      BY PolicyAssumption DEF Version
    <3> HIDE DEF H, K
    <3>4. K = [H EXCEPT ![v + 1] = new]
      BY <2>1, <3>1, <3>2, <3>3
    <3>5. QED
      BY <3>4 DEF H, K
  <2>5. \E u \in 2..MaxVersion, open \in Tuned, next \in Policy :
           /\ History[u] = Null /\ History[u - 1] # Null
           /\ \A other \in Channel \ {open} : next[other] = History[u - 1][other]
           /\ History' = [History EXCEPT ![u] = next]
    <3>1. /\ History[v + 1] = Null /\ History[(v + 1) - 1] # Null
          /\ \A other \in Channel \ {ch} : new[other] = History[(v + 1) - 1][other]
          /\ History' = [History EXCEPT ![v + 1] = new]
      BY <2>1, <2>2, <2>3, <2>4
    <3>2. QED
      BY <1>4, <2>1, <3>1
  <2>6. Log!Publish
    BY <1>5, <2>5 DEF Log!Publish, History
  <2>7. QED
    BY <2>6 DEF Log!Step, Log!Next
<1>7. CASE ~(v + 1 <= MaxVersion)
  <2>1. \A w \in 1..MaxVersion : file'[w] = file[w]
    BY <1>2, <1>7, PolicyAssumption DEF TypeOK, Version
  <2>2. History' = History
    BY <2>1 DEF History
  <2>3. QED
    BY <1>5, <2>2 DEF Log!Step, Log!log, History
<1>8. QED
  BY <1>6, <1>7

(* What changes neither the files nor the approvals stutters in the log.   *)
LEMMA LogStutters ==
    ASSUME file' = file, approvals' = approvals
    PROVE  Log!Step
<1>1. History' = History /\ Tuned' = Tuned
  BY DEF History, Tuned, HasQuorum, ApproversOf
<1>2. QED
  BY <1>1 DEF Log!Step, Log!log, History

LEMMA LogStep ==
    ASSUME TypeOK, TypeOK', SessionInv, SerialInv, [Next]_vars, ~overlapped'
    PROVE  Log!Step
<1>1. CASE ConvertStart \/ ConvertAppend \/ ConvertStops \/ UNCHANGED vars
  BY <1>1, LogStutters DEF ConvertStart, ConvertAppend, ConvertStops, vars, store
<1>2. ASSUME NEW p \in Proposal, ConvertRead(p) PROVE Log!Step
  BY <1>2, LogStutters DEF ConvertRead, store
<1>3. ASSUME NEW c \in Person, NEW p \in Proposal, Approve(c, p) PROVE Log!Step
  BY <1>3, ApproveOpens
<1>4. ASSUME NEW c \in Person, NEW p \in Proposal, ApplyCheck(c, p) PROVE Log!Step
  BY <1>4, LogStutters DEF ApplyCheck, store
<1>5. ASSUME NEW c \in Person,
             \/ ApplyLatest(c) \/ ApplyFind(c) \/ SaveVersion(c) \/ SaveOpen(c)
             \/ WriteReceipt(c) \/ WriteApplied(c) \/ CommandStops(c)
      PROVE  Log!Step
  BY <1>5, LogStutters DEF ApplyLatest, ApplyFind, Found, SaveVersion, SaveOpen, WriteReceipt,
     WriteApplied, CommandStops, store
<1>6. ASSUME NEW c \in Person, SaveWrite(c) PROVE Log!Step
  <2>1. ~overlapped
    BY <1>6 DEF SaveWrite
  <2>2. pc[c] # "late"
    BY <2>1 DEF SerialInv, Saving, Publishing
  <2>3. QED
    BY <1>6, <2>2, LogStutters DEF SaveWrite, store
<1>7. ASSUME NEW c \in Person, SaveReplace(c) PROVE Log!Step
  BY <1>7, ReplacePublishes DEF SaveReplace
<1>8. QED
  BY <1>1, <1>2, <1>3, <1>4, <1>5, <1>6, <1>7 DEF Next

(* As long as commands do not overlap, the version files implement         *)
(* PolicyLog: what was published stays, and the next version differs from  *)
(* the last only in a channel with an approved proposal.                   *)
THEOREM StoreIsALog == Spec => SerialStoreIsALog
<1>1. TypeOK /\ TypeOK' /\ SessionInv /\ SerialInv /\ [Next]_vars
          => [~overlapped' => Log!Step]_vars
  BY LogStep
<1>2. QED
  BY <1>1, SerialCorrect, Typed, PTL DEF Spec, SerialStoreIsALog
=============================================================================
