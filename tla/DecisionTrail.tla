--------------------------- MODULE DecisionTrail ---------------------------
(***************************************************************************)
(* What the decision records promise an auditor, whoever wrote them and in *)
(* whatever order: each line of a record's file is justified by an earlier *)
(* line, nothing is ever deleted, and the engine ran only for a record     *)
(* whose file says that an approved option was applied.                    *)
(***************************************************************************)
CONSTANTS Dpa, Option, Blocked, Approval, Null

VARIABLES trail, ran

Created     == [status |-> "DPA_CREATED", option |-> Null]
Reviewing   == [status |-> "HUMAN_REVIEWING", option |-> Null]
Approved(o) == [status |-> "APPROVED", option |-> o]
Applied(o)  == [status |-> "APPLIED", option |-> o]
Aborted(o)  == [status |-> "ABORTED", option |-> o]

Init == trail = [d \in Dpa |-> {}] /\ ran = {}

(* The lines that a file with lines F may get next.                        *)
Justified(F) ==
    {Created}
    \cup (IF Created \in F THEN {Reviewing, Aborted(Null)} ELSE {})
    \cup (IF Created \in F THEN {Approved(o) : o \in Option \ Blocked} ELSE {})
    \cup {Applied(o) : o \in {p \in Option : Approved(p) \in F}}
    \cup {Aborted(o) : o \in {p \in Option : Approved(p) \in F}}

Write(d) ==
    \E line \in Justified(trail[d]) :
        trail' = [trail EXCEPT ![d] = @ \cup {line}] /\ UNCHANGED ran

Execute(d) ==
    /\ \E o \in Option : Applied(o) \in trail[d]
    /\ \E a \in Approval : ran' = ran \cup {<<d, a>>}
    /\ UNCHANGED trail

Next == \E d \in Dpa : Write(d) \/ Execute(d)

Spec == Init /\ [][Next]_<<trail, ran>>
=============================================================================
