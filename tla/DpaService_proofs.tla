------------------------- MODULE DpaService_proofs -------------------------
(***************************************************************************)
(* What holds of the decision records for every number of records, options *)
(* and callers: each line is justified by an earlier one, the engine runs  *)
(* only for applied records, and only a race reopens a terminal record.    *)
(***************************************************************************)
EXTENDS DpaService, TLAPS

(* What a caller at label, with call k, may rely on in the file F of its   *)
(* record: what it loaded is still there, and what it goes on to append is *)
(* one of the changes that DpaService makes to what it loaded.             *)
Loaded(F, seen, new) ==
    /\ seen = Absent \/ seen \in F
    /\ \/ seen = Absent /\ new = [status |-> "DPA_CREATED", option |-> Null]
       \/ Reviewable(seen) /\ new = [seen EXCEPT !.status = "HUMAN_REVIEWING"]
       \/ Reviewable(seen) /\ \E o \in Option \ Blocked : new = [status |-> "APPROVED", option |-> o]
       \/ Applicable(seen) /\ new = [seen EXCEPT !.status = "APPLIED"]
       \/ Abortable(seen) /\ new = [seen EXCEPT !.status = "ABORTED"]

Executable(F) ==
    \E o \in Option \ Blocked :
        {[status |-> "APPROVED", option |-> o], [status |-> "APPLIED", option |-> o]} \subseteq F

Sound(label, k, F) ==
    /\ label # "idle" => k.dpa \in Dpa
    /\ label \in {"gate", "apply", "engine"} => k.approval \in Approval
    /\ label = "save" => Loaded(F, k.seen, k.new)
    /\ label = "save" /\ k.approval # Null =>
            Applicable(k.seen) /\ k.new = [k.seen EXCEPT !.status = "APPLIED"]
    /\ label = "engine" => Executable(F)

(* The inductive invariant: a file justifies each of its own lines, and    *)
(* every caller is sound.                                                  *)
FilesJustified == \A d \in Dpa : file[d] \subseteq Trail!Justified(file[d])
CallsSound == \A c \in Client : Sound(pc[c], call[c], file[call[c].dpa])
IInv == TypeOK /\ FilesJustified /\ CallsSound /\ RanOnlyApplied

-----------------------------------------------------------------------------
(* Lines and files.                                                        *)


(* Justified, read as a condition on a line.                               *)
LEMMA JustifiedLine ==
    ASSUME NEW F, NEW s
    PROVE  s \in Trail!Justified(F) <=>
            \/ s = Trail!Created
            \/ Trail!Created \in F /\ (s = Trail!Reviewing \/ s = Trail!Aborted(Null))
            \/ Trail!Created \in F /\ \E o \in Option \ Blocked : s = Trail!Approved(o)
            \/ \E o \in Option : Trail!Approved(o) \in F /\ s = Trail!Applied(o)
            \/ \E o \in Option : Trail!Approved(o) \in F /\ s = Trail!Aborted(o)
BY Zenon DEF Trail!Justified

LEMMA JustifiedGrows ==
    ASSUME NEW F, NEW G, F \subseteq G
    PROVE  Trail!Justified(F) \subseteq Trail!Justified(G)
BY JustifiedLine

USE DEF Trail!Created, Trail!Reviewing, Trail!Approved, Trail!Applied, Trail!Aborted

(* A line is the record of its two fields.                                 *)
LEMMA LineFields ==
    ASSUME NEW s \in Record
    PROVE  s = [status |-> s.status, option |-> s.option]
BY DEF Record

LEMMA AbsentIsNoLine == Absent \in Record /\ Absent \notin Lines
BY DEF Absent, Record, DecisionStatus, Lines

(* What a justified line says of the lines before it.                      *)
LEMMA JustifiedFields ==
    ASSUME NEW F, NEW s \in Trail!Justified(F)
    PROVE  /\ s.status = "HUMAN_REVIEWING" => [status |-> "DPA_CREATED", option |-> Null] \in F
           /\ s.status = "APPLIED" =>
                \E o \in Option : [status |-> "APPROVED", option |-> o] \in F /\ s.option = o
<1>0. \/ s = Trail!Created
      \/ Trail!Created \in F /\ (s = Trail!Reviewing \/ s = Trail!Aborted(Null))
      \/ Trail!Created \in F /\ \E o \in Option \ Blocked : s = Trail!Approved(o)
      \/ \E o \in Option : Trail!Approved(o) \in F /\ s = Trail!Applied(o)
      \/ \E o \in Option : Trail!Approved(o) \in F /\ s = Trail!Aborted(o)
  BY JustifiedLine
<1>1. CASE s = Trail!Created
  BY <1>1
<1>2. CASE Trail!Created \in F /\ (s = Trail!Reviewing \/ s = Trail!Aborted(Null))
  BY <1>2
<1>3. CASE Trail!Created \in F /\ \E o \in Option \ Blocked : s = Trail!Approved(o)
  BY <1>3
<1>4. CASE \E o \in Option : Trail!Approved(o) \in F /\ s = Trail!Applied(o)
  BY <1>4
<1>5. CASE \E o \in Option : Trail!Approved(o) \in F /\ s = Trail!Aborted(o)
  BY <1>5
<1>6. QED
  BY <1>0, <1>1, <1>2, <1>3, <1>4, <1>5, Zenon

(* An open record of a justified file was created there, without option.   *)
LEMMA ReviewableCreated ==
    ASSUME NEW F \in SUBSET Lines, F \subseteq Trail!Justified(F),
           NEW s \in F, Reviewable(s)
    PROVE  /\ s.option = Null
           /\ [status |-> "DPA_CREATED", option |-> Null] \in F
<1>1. s \in Record /\ s.option = Null
  BY DEF Lines
<1>2. s = [status |-> s.status, option |-> Null]
  BY <1>1, LineFields
<1>3. s \in Trail!Justified(F)
  OBVIOUS
<1>4. QED
  BY <1>1, <1>2, <1>3, JustifiedFields DEF Reviewable

(* An applied line of a justified file names an option approved there.     *)
LEMMA AppliedExecutable ==
    ASSUME NEW F \in SUBSET Lines, F \subseteq Trail!Justified(F),
           NEW s \in F, s.status = "APPLIED"
    PROVE  Executable(F)
<1>1. s \in Record /\ s.option \in Option \ Blocked
  BY DEF Lines
<1>2. s = [status |-> "APPLIED", option |-> s.option]
  BY <1>1, LineFields
<1>3. s \in Trail!Justified(F)
  OBVIOUS
<1>4. [status |-> "APPROVED", option |-> s.option] \in F
  BY <1>3, JustifiedFields
<1>5. QED
  BY <1>1, <1>2, <1>4 DEF Executable

(* What a sound caller appends is a line, and one that the file justifies. *)
LEMMA LoadedIsJustified ==
    ASSUME NEW F \in SUBSET Lines, F \subseteq Trail!Justified(F),
           NEW seen, NEW new, Loaded(F, seen, new)
    PROVE  new \in Lines /\ new \in Trail!Justified(F)
<1>a. seen # Absent => seen \in F /\ seen \in Record /\ seen \in Lines /\ seen \in Trail!Justified(F)
  BY DEF Loaded, Lines
<1>b. seen # Absent => seen = [status |-> seen.status, option |-> seen.option]
  BY <1>a, LineFields
<1>1. CASE seen = Absent /\ new = [status |-> "DPA_CREATED", option |-> Null]
  BY <1>1, JustifiedLine DEF Lines, Record, DecisionStatus, Reviewable
<1>2. CASE Reviewable(seen) /\ new = [seen EXCEPT !.status = "HUMAN_REVIEWING"]
  <2>1. seen # Absent
    BY <1>2 DEF Reviewable, Absent
  <2>2. /\ seen.option = Null
        /\ [status |-> "DPA_CREATED", option |-> Null] \in F
    BY <1>2, <1>a, <2>1, ReviewableCreated
  <2>3. new = [status |-> "HUMAN_REVIEWING", option |-> Null]
    BY <1>2, <1>a, <2>1, <2>2 DEF Record
  <2>4. QED
    BY <2>2, <2>3, JustifiedLine DEF Lines, Record, DecisionStatus, Reviewable
<1>3. CASE Reviewable(seen) /\ \E o \in Option \ Blocked : new = [status |-> "APPROVED", option |-> o]
  <2>1. seen # Absent
    BY <1>3 DEF Reviewable, Absent
  <2>2. [status |-> "DPA_CREATED", option |-> Null] \in F
    BY <1>3, <1>a, <2>1, ReviewableCreated
  <2>3. QED
    BY <1>3, <2>2, JustifiedLine DEF Lines, Record, DecisionStatus, Reviewable
<1>4. CASE Applicable(seen) /\ new = [seen EXCEPT !.status = "APPLIED"]
  <2>1. seen # Absent
    BY <1>4 DEF Applicable, Absent
  <2>2. seen.option \in Option \ Blocked
    BY <1>4, <1>a, <2>1 DEF Applicable, Lines
  <2>3. [status |-> "APPROVED", option |-> seen.option] \in F
    BY <1>4, <1>a, <1>b, <2>1 DEF Applicable
  <2>4. new = [status |-> "APPLIED", option |-> seen.option]
    BY <1>4, <1>a, <2>1 DEF Record
  <2>5. QED
    BY <2>2, <2>3, <2>4, JustifiedLine DEF Lines, Record, DecisionStatus, Reviewable
<1>5. CASE Abortable(seen) /\ new = [seen EXCEPT !.status = "ABORTED"]
  <2>1. seen # Absent /\ seen.status \in DecisionStatus \ {"absent", "APPLIED"}
    BY <1>5, <1>a DEF Abortable, Absent, Record
  <2>2. new = [status |-> "ABORTED", option |-> seen.option]
    BY <1>5, <1>a, <2>1 DEF Record
  <2>3. new \in Lines
    BY <2>1, <2>2, <1>a DEF Lines, Record, DecisionStatus, Reviewable
  <2>4. CASE Reviewable(seen)
    <3>1. seen.option = Null /\ [status |-> "DPA_CREATED", option |-> Null] \in F
      BY <2>4, <1>a, <2>1, ReviewableCreated
    <3>2. QED
      BY <2>2, <2>3, <3>1, JustifiedLine
  <2>5. CASE seen.status = "APPROVED"
    <3>1. seen.option \in Option /\ [status |-> "APPROVED", option |-> seen.option] \in F
      BY <2>5, <1>a, <1>b, <2>1 DEF Lines
    <3>2. QED
      BY <2>2, <2>3, <3>1, JustifiedLine
  <2>6. CASE seen.status = "ABORTED"
    BY <2>2, <2>3, <2>6, <1>a, <1>b, <2>1
  <2>7. QED
    BY <2>1, <2>4, <2>5, <2>6 DEF DecisionStatus, Reviewable
<1>6. QED
  BY <1>1, <1>2, <1>3, <1>4, <1>5 DEF Loaded

(* A caller stays sound while its file grows.                              *)
LEMMA SoundGrows ==
    ASSUME NEW label, NEW k, NEW F, NEW G, F \subseteq G, Sound(label, k, F)
    PROVE  Sound(label, k, G)
<1>1. Loaded(F, k.seen, k.new) => Loaded(G, k.seen, k.new)
  BY DEF Loaded
<1>2. Executable(F) => Executable(G)
  BY DEF Executable
<1>3. QED
  BY <1>1, <1>2 DEF Sound

LEMMA IdleIsSound == \A F : Sound("idle", NoCall, F)
BY DEF Sound

-----------------------------------------------------------------------------
(* The calls.                                                              *)

LEMMA NoCallType == NoCall \in Call /\ Absent \in Record
BY AbsentIsNoLine DEF NoCall, Call

(* The loading half of an operation: the files stay, the caller is sound.  *)
LEMMA ToSaveKeeps ==
    ASSUME IInv, NEW c \in Client, NEW d \in Dpa, NEW new,
           NEW approval \in Approval \cup {Null},
           ToSave(c, d, new, approval),
           Loaded(file[d] , record[d], new),
           approval # Null => /\ Applicable(record[d])
                              /\ new = [record[d] EXCEPT !.status = "APPLIED"]
    PROVE  IInv'
<1>1. new \in Lines /\ record[d] \in Record
  <2>1. file[d] \in SUBSET Lines /\ file[d] \subseteq Trail!Justified(file[d])
    BY DEF IInv, TypeOK, FilesJustified
  <2>2. new \in Lines
    BY <2>1, LoadedIsJustified
  <2>3. QED
    BY <2>2, NoCallType DEF IInv, TypeOK, Lines
<1>2. [dpa |-> d, seen |-> record[d], new |-> new, approval |-> approval] \in Call
  BY <1>1 DEF Call, Lines
<1>3. TypeOK'
  BY <1>2 DEF IInv, TypeOK, ToSave
<1>4. CallsSound'
  <2>1. SUFFICES ASSUME NEW e \in Client
                 PROVE  Sound(pc'[e], call'[e], file[call'[e].dpa])
    BY DEF CallsSound, ToSave
  <2>2. CASE e = c
    <3>1. pc'[e] = "save" /\ call'[e] = [dpa |-> d, seen |-> record[d], new |-> new,
                                         approval |-> approval]
      BY <2>2 DEF IInv, TypeOK, ToSave
    <3>2. QED
      BY <3>1 DEF Sound
  <2>3. CASE e # c
    <3>1. pc'[e] = pc[e] /\ call'[e] = call[e]
      BY <2>3 DEF IInv, TypeOK, ToSave
    <3>2. QED
      BY <3>1 DEF IInv, CallsSound
  <2>4. QED
    BY <2>2, <2>3
<1>5. FilesJustified' /\ RanOnlyApplied'
  BY DEF IInv, FilesJustified, RanOnlyApplied, ToSave
<1>6. QED
  BY <1>3, <1>4, <1>5 DEF IInv

(* A caller that moves on without touching the files leaves the rest sound.*)
LEMMA CallerMoves ==
    ASSUME IInv, NEW c \in Client, UNCHANGED file, NEW label, NEW k,
           pc' = [pc EXCEPT ![c] = label], call' = [call EXCEPT ![c] = k],
           Sound(label, k, file[k.dpa])
    PROVE  CallsSound'
<1>1. SUFFICES ASSUME NEW e \in Client
               PROVE  Sound(pc'[e], call'[e], file[call'[e].dpa])
  BY DEF CallsSound
<1>2. CASE e = c
  <2>1. pc'[e] = label /\ call'[e] = k
    BY <1>2 DEF IInv, TypeOK
  <2>2. QED
    BY <2>1
<1>3. CASE e # c
  <2>1. pc'[e] = pc[e] /\ call'[e] = call[e]
    BY <1>3 DEF IInv, TypeOK
  <2>2. QED
    BY <2>1 DEF IInv, CallsSound
<1>4. QED
  BY <1>2, <1>3

(* The appending half.                                                     *)
LEMMA SaveKeeps ==
    ASSUME IInv, NEW c \in Client, Save(c)
    PROVE  IInv'
<1> DEFINE d == call[c].dpa
           new == call[c].new
           F == file[d]
<1>1. /\ d \in Dpa /\ Loaded(F, call[c].seen, new)
      /\ call[c].approval # Null =>
            Applicable(call[c].seen) /\ new = [call[c].seen EXCEPT !.status = "APPLIED"]
  BY DEF IInv, CallsSound, Sound, Save
<1>2. F \in SUBSET Lines /\ F \subseteq Trail!Justified(F)
  BY <1>1 DEF IInv, TypeOK, FilesJustified
<1>3. new \in Lines /\ new \in Trail!Justified(F)
  BY <1>1, <1>2, LoadedIsJustified
<1>4. /\ file' = [file EXCEPT ![d] = F \cup {new}]
      /\ record' = [record EXCEPT ![d] = new]
      /\ ran' = ran
  BY DEF Save
<1>5. /\ file'[d] = F \cup {new}
      /\ \A x \in Dpa : x # d => file'[x] = file[x]
  BY <1>1, <1>4 DEF IInv, TypeOK
<1>6. \A x \in Dpa : file[x] \subseteq file'[x]
  BY <1>5
<1>7. \/ call[c].approval = Null /\ Done(c)
      \/ call[c].approval # Null /\ pc' = [pc EXCEPT ![c] = "engine"] /\ call' = call
  BY DEF Save
<1>8. TypeOK'
  <2>1. /\ record' \in [Dpa -> Lines \cup {Absent}]
        /\ file' \in [Dpa -> SUBSET Lines]
    BY <1>1, <1>2, <1>3, <1>4 DEF IInv, TypeOK
  <2>2. \A x \in Dpa : record'[x] # Absent => record'[x] \in file'[x]
    BY <1>1, <1>4, <1>5 DEF IInv, TypeOK
  <2>3. /\ pc' \in [Client -> {"idle", "save", "gate", "apply", "engine"}]
        /\ call' \in [Client -> Call]
    BY <1>7, NoCallType DEF IInv, TypeOK, Done
  <2>4. QED
    BY <1>4, <2>1, <2>2, <2>3 DEF IInv, TypeOK
<1>9. FilesJustified'
  <2>1. SUFFICES ASSUME NEW x \in Dpa PROVE file'[x] \subseteq Trail!Justified(file'[x])
    BY DEF FilesJustified
  <2>2. CASE x = d
    <3>1. Trail!Justified(F) \subseteq Trail!Justified(F \cup {new})
      BY JustifiedGrows
    <3>2. QED
      BY <1>2, <1>3, <1>5, <2>2, <3>1
  <2>3. CASE x # d
    BY <1>5, <2>3 DEF IInv, FilesJustified
  <2>4. QED
    BY <2>2, <2>3
<1>10. CallsSound'
  <2>1. SUFFICES ASSUME NEW e \in Client
                 PROVE  Sound(pc'[e], call'[e], file'[call'[e].dpa])
    BY DEF CallsSound
  <2>2. CASE e = c /\ call[c].approval = Null
    <3>1. pc'[e] = "idle" /\ call'[e] = NoCall
      BY <1>7, <2>2 DEF IInv, TypeOK, Done
    <3>2. QED
      BY <3>1, IdleIsSound
  <2>3. CASE e = c /\ call[c].approval # Null
    <3>1. pc'[e] = "engine" /\ call'[e] = call[c]
      BY <1>7, <2>3 DEF IInv, TypeOK
    <3>2. call[c].approval \in Approval
      BY <2>3 DEF IInv, TypeOK, Call
    <3>3. new.status = "APPLIED"
      <4>1. call[c].seen \in Record
        BY DEF IInv, TypeOK, Call
      <4>2. QED
        BY <1>1, <2>3, <4>1 DEF Record
    <3>4. Executable(F \cup {new})
      <4>1. Trail!Justified(F) \subseteq Trail!Justified(F \cup {new})
        BY JustifiedGrows
      <4>2. F \cup {new} \in SUBSET Lines /\ F \cup {new} \subseteq Trail!Justified(F \cup {new})
        BY <1>2, <1>3, <4>1
      <4>3. QED
        BY <3>3, <4>2, AppliedExecutable
    <3>5. QED
      BY <1>1, <1>5, <3>1, <3>2, <3>4 DEF Sound
  <2>4. CASE e # c
    <3>1. pc'[e] = pc[e] /\ call'[e] = call[e]
      BY <1>7, <2>4 DEF IInv, TypeOK, Done
    <3>2. Sound(pc[e], call[e], file[call[e].dpa])
      BY DEF IInv, CallsSound
    <3>3. CASE pc[e] = "idle"
      BY <3>1, <3>3 DEF Sound
    <3>4. CASE pc[e] # "idle"
      <4>1. file[call[e].dpa] \subseteq file'[call[e].dpa]
        BY <1>6, <3>2, <3>4 DEF Sound
      <4>2. QED
        BY <3>1, <3>2, <4>1, SoundGrows
    <3>5. QED
      BY <3>3, <3>4
  <2>5. QED
    BY <2>2, <2>3, <2>4
<1>11. RanOnlyApplied'
  <2>1. \A x \in ran : x[1] \in Dpa
    BY DEF IInv, TypeOK
  <2>2. QED
    BY <1>4, <1>6, <2>1 DEF IInv, RanOnlyApplied
<1>12. QED
  BY <1>8, <1>9, <1>10, <1>11 DEF IInv

-----------------------------------------------------------------------------
(* Every step.                                                             *)

LEMMA InitHolds == Init => IInv
<1>1. SUFFICES ASSUME Init PROVE IInv
  OBVIOUS
<1>2. TypeOK
  BY <1>1, NoCallType DEF Init, TypeOK
<1>3. FilesJustified /\ CallsSound /\ RanOnlyApplied
  BY <1>1, IdleIsSound DEF Init, FilesJustified, CallsSound, RanOnlyApplied
<1>4. QED
  BY <1>2, <1>3 DEF IInv

(* The operations of DpaService load what they then change.                *)
LEMMA OperationKeeps ==
    ASSUME IInv, NEW c \in Client, NEW d \in Dpa, Operation(c, d)
    PROVE  IInv'
<1>0. /\ record[d] = Absent \/ record[d] \in file[d]
      /\ Absent.status = "absent"
  BY DEF IInv, TypeOK, Absent
<1>1. CASE CreateDpa(c, d)
  <2>1. Loaded(file[d], record[d], [Absent EXCEPT !.status = "DPA_CREATED"])
    BY <1>1 DEF CreateDpa, Loaded, Absent
  <2>2. QED
    BY <1>1, <2>1, ToSaveKeeps DEF CreateDpa
<1>2. CASE StartReview(c, d)
  BY <1>0, <1>2, ToSaveKeeps DEF StartReview, Loaded
<1>3. CASE Apply(c, d)
  BY <1>0, <1>3, ToSaveKeeps DEF Apply, Loaded
<1>4. CASE Abort(c, d)
  BY <1>0, <1>4, ToSaveKeeps DEF Abort, Loaded
<1>5. CASE \E o \in Option : SubmitHumanDecision(c, d, o)
  <2>1. PICK o \in Option : SubmitHumanDecision(c, d, o)
    BY <1>5
  <2>2. Loaded(file[d], record[d], [status |-> "APPROVED", option |-> o])
    BY <1>0, <2>1 DEF SubmitHumanDecision, Loaded
  <2>3. QED
    BY <2>1, <2>2, ToSaveKeeps DEF SubmitHumanDecision
<1>6. CASE \E a \in Approval : Transition(c, d, a)
  <2>1. PICK a \in Approval : Transition(c, d, a)
    BY <1>6
  <2>2. DEFINE k == [NoCall EXCEPT !.dpa = d, !.approval = a]
  <2>3. k \in Call /\ k.dpa = d /\ k.approval = a
    BY NoCallType DEF NoCall, Call
  <2>4. Sound("gate", k, file[k.dpa])
    BY <2>3 DEF Sound
  <2>5. CallsSound'
    BY <2>1, <2>4, CallerMoves DEF Transition
  <2>6. TypeOK'
    BY <2>1, <2>3 DEF IInv, TypeOK, Transition
  <2>7. QED
    BY <2>1, <2>5, <2>6 DEF IInv, FilesJustified, RanOnlyApplied, Transition
<1>7. QED
  BY <1>1, <1>2, <1>3, <1>4, <1>5, <1>6 DEF Operation

LEMMA GateKeeps ==
    ASSUME IInv, NEW c \in Client, Gate(c)
    PROVE  IInv'
<1> DEFINE d == call[c].dpa
           label == IF record[d].status = "APPLIED" THEN "engine" ELSE "apply"
<1>1. d \in Dpa /\ call[c].approval \in Approval
  BY DEF IInv, CallsSound, Sound, Gate
<1>2. label = "engine" => Executable(file[d])
  <2>1. SUFFICES ASSUME record[d].status = "APPLIED" PROVE Executable(file[d])
    OBVIOUS
  <2>2. record[d] \in file[d]
    BY <1>1, <2>1 DEF IInv, TypeOK, Absent
  <2>3. file[d] \in SUBSET Lines /\ file[d] \subseteq Trail!Justified(file[d])
    BY <1>1 DEF IInv, TypeOK, FilesJustified
  <2>4. QED
    BY <2>1, <2>2, <2>3, AppliedExecutable
<1>3. Sound(label, call[c], file[d])
  BY <1>1, <1>2 DEF Sound
<1>4. call' = [call EXCEPT ![c] = call[c]]
  BY DEF IInv, TypeOK, Gate
<1>5. CallsSound'
  BY <1>3, <1>4, CallerMoves DEF Gate
<1>6. TypeOK'
  BY DEF IInv, TypeOK, Gate
<1>7. QED
  BY <1>5, <1>6 DEF IInv, FilesJustified, RanOnlyApplied, Gate

LEMMA EndKeeps ==
    ASSUME IInv, NEW c \in Client, Done(c), UNCHANGED <<record, file>>,
           ran' = ran \/ (pc[c] = "engine" /\ ran' = ran \cup {<<call[c].dpa, call[c].approval>>})
    PROVE  IInv'
<1>1. CallsSound'
  BY IdleIsSound, CallerMoves DEF Done
<1>2. pc[c] = "engine" =>
        /\ call[c].dpa \in Dpa /\ call[c].approval \in Approval
        /\ Executable(file[call[c].dpa])
  BY DEF IInv, CallsSound, Sound
<1>3. TypeOK'
  BY <1>2, NoCallType DEF IInv, TypeOK, Done
<1>4. RanOnlyApplied'
  <2>1. SUFFICES ASSUME NEW e \in ran' PROVE Executable(file[e[1]])
    BY DEF RanOnlyApplied, Executable
  <2>2. CASE e \in ran
    BY <2>2 DEF IInv, RanOnlyApplied, Executable
  <2>3. CASE pc[c] = "engine" /\ e = <<call[c].dpa, call[c].approval>>
    BY <1>2, <2>3
  <2>4. QED
    BY <2>2, <2>3
<1>5. QED
  BY <1>1, <1>3, <1>4 DEF IInv, FilesJustified

LEMMA StepKeeps ==
    ASSUME IInv, NEW c \in Client, Step(c)
    PROVE  IInv'
<1>1. CASE Save(c)
  BY <1>1, SaveKeeps
<1>2. CASE Gate(c)
  BY <1>2, GateKeeps
<1>3. CASE GateApply(c)
  <2>1. call[c].dpa \in Dpa /\ call[c].approval \in Approval
    BY <1>3 DEF IInv, CallsSound, Sound, GateApply
  <2>2. record[call[c].dpa] \in file[call[c].dpa]
    BY <1>3, <2>1 DEF IInv, TypeOK, GateApply, Applicable, Absent
  <2>3. QED
    BY <1>3, <2>1, <2>2, ToSaveKeeps DEF GateApply, Loaded
<1>4. CASE RunEngine(c)
  BY <1>4, EndKeeps DEF RunEngine
<1>5. CASE CallEnds(c)
  BY <1>5, EndKeeps DEF CallEnds
<1>6. QED
  BY <1>1, <1>2, <1>3, <1>4, <1>5 DEF Step

LEMMA NextKeeps == IInv /\ [Next]_vars => IInv'
<1>1. ASSUME IInv, UNCHANGED vars PROVE IInv'
  <2>1. TypeOK'
    BY <1>1 DEF IInv, TypeOK, vars
  <2>2. FilesJustified' /\ CallsSound' /\ RanOnlyApplied'
    BY <1>1 DEF IInv, FilesJustified, CallsSound, RanOnlyApplied, vars
  <2>3. QED
    BY <2>1, <2>2 DEF IInv
<1>2. QED
  BY <1>1, OperationKeeps, StepKeeps DEF Next

THEOREM Inductive == Spec => []IInv
BY InitHolds, NextKeeps, PTL DEF Spec

-----------------------------------------------------------------------------
(* The results.                                                            *)

(* Records, files and calls have their types, and a line names an option   *)
(* exactly from its approval on.                                           *)
THEOREM TypeCorrect == Spec => []TypeOK
<1>1. IInv => TypeOK
  BY DEF IInv
<1>2. QED
  BY <1>1, Inductive, PTL

(* The engine has run only for records whose file shows an open option     *)
(* approved and applied: constitutional_transition has no bypass.          *)
THEOREM NoBypass == Spec => []RanOnlyApplied
<1>1. IInv => RanOnlyApplied
  BY DEF IInv
<1>2. QED
  BY <1>1, Inductive, PTL

(* One caller's step changes the record only by a save.                    *)
LEMMA OnlySaveWrites ==
    ASSUME NEW c \in Client, Step(c) \/ \E d \in Dpa : Operation(c, d)
    PROVE  Save(c) \/ UNCHANGED <<record, file>>
BY Zenon DEF Step, Operation, Gate, GateApply, RunEngine, CallEnds, CreateDpa, StartReview,
             SubmitHumanDecision, Apply, Abort, Transition, ToSave

(* Only the save of a stale copy changes a terminal record: operations     *)
(* that do not overlap never reopen an applied or aborted record.          *)
THEOREM OnlyRacesReopen == Spec => TerminalLostOnlyToRace
<1>1. ASSUME IInv, [Next]_vars, NEW d \in Dpa,
             record[d].status \in Terminal, record'[d] # record[d]
      PROVE  \E c \in Client : /\ pc[c] = "save" /\ call[c].dpa = d
                               /\ call[c].seen # record[d]
  <2>1. PICK c \in Client : Step(c) \/ \E x \in Dpa : Operation(c, x)
    BY <1>1 DEF Next, vars
  <2>2. Save(c)
    BY <1>1, <2>1, OnlySaveWrites
  <2>3. pc[c] = "save" /\ call[c].dpa = d /\ record'[d] = call[c].new
    BY <1>1, <2>2 DEF Save, IInv, TypeOK
  <2>4. Loaded(file[d], call[c].seen, call[c].new)
    BY <1>1, <2>3 DEF IInv, CallsSound, Sound
  <2>5. ASSUME call[c].seen = record[d] PROVE FALSE
    <3>1. record[d] \in Record /\ record[d] # Absent
      BY <1>1, NoCallType DEF IInv, TypeOK, Lines, Terminal, Absent
    <3>2. ~Reviewable(record[d]) /\ ~Applicable(record[d])
      BY <1>1 DEF Reviewable, Applicable, Terminal
    <3>3. record[d].status = "ABORTED" /\ call[c].new = [record[d] EXCEPT !.status = "ABORTED"]
      BY <1>1, <2>4, <2>5, <3>1, <3>2 DEF Loaded, Abortable, Terminal
    <3>4. call[c].new = record[d]
      BY <3>1, <3>3 DEF Record
    <3>5. QED
      BY <1>1, <2>3, <3>4
  <2>6. QED
    BY <2>3, <2>5
<1>2. IInv /\ [Next]_vars =>
        [\A d \in Dpa : record[d].status \in Terminal /\ record'[d] # record[d] =>
            \E c \in Client : /\ pc[c] = "save" /\ call[c].dpa = d
                              /\ call[c].seen # record[d]]_vars
  BY <1>1
<1>3. QED
  BY <1>2, Inductive, PTL DEF Spec, TerminalLostOnlyToRace

(* The concurrent service implements DecisionTrail: whatever the races,    *)
(* each line in a file is justified by the lines before it.                *)
THEOREM ImplementsTheTrail == Spec => ImplementsTrail
<1>1. Init => Trail!Init
  BY DEF Init, Trail!Init
<1>2. ASSUME IInv, NEW c \in Client, Save(c)
      PROVE  [Trail!Next]_<<file, ran>>
  <2>1. call[c].dpa \in Dpa /\ Loaded(file[call[c].dpa], call[c].seen, call[c].new)
    BY <1>2 DEF IInv, CallsSound, Sound, Save
  <2>2. call[c].new \in Trail!Justified(file[call[c].dpa])
    BY <1>2, <2>1, LoadedIsJustified DEF IInv, TypeOK, FilesJustified
  <2>3. Trail!Write(call[c].dpa)
    BY <1>2, <2>2 DEF Save, Trail!Write
  <2>4. QED
    BY <2>1, <2>3 DEF Trail!Next
<1>3. ASSUME IInv, NEW c \in Client, RunEngine(c)
      PROVE  [Trail!Next]_<<file, ran>>
  <2>1. /\ call[c].dpa \in Dpa /\ call[c].approval \in Approval
        /\ Executable(file[call[c].dpa])
    BY <1>3 DEF IInv, CallsSound, Sound, RunEngine
  <2>2. Trail!Execute(call[c].dpa)
    BY <1>3, <2>1 DEF RunEngine, Executable, Trail!Execute
  <2>3. QED
    BY <2>1, <2>2 DEF Trail!Next
<1>4. IInv /\ [Next]_vars => [Trail!Next]_<<file, ran>>
  <2>1. SUFFICES ASSUME IInv, Next, ~UNCHANGED <<file, ran>>
                 PROVE  [Trail!Next]_<<file, ran>>
    BY DEF vars
  <2>2. PICK c \in Client : Step(c) \/ \E d \in Dpa : Operation(c, d)
    BY <2>1 DEF Next
  <2>3. Save(c) \/ RunEngine(c)
    BY <2>1, <2>2, Zenon DEF Step, Operation, Gate, GateApply, CallEnds, CreateDpa, StartReview,
             SubmitHumanDecision, Apply, Abort, Transition, ToSave
  <2>4. QED
    BY <1>2, <1>3, <2>1, <2>3
<1>5. QED
  BY <1>1, <1>4, Inductive, PTL DEF Spec, ImplementsTrail, Trail!Spec
=============================================================================
