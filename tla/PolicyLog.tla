----------------------------- MODULE PolicyLog -----------------------------
(***************************************************************************)
(* What the policy store promises its readers: the published versions are  *)
(* a log.  A version is published right after the last one, it differs     *)
(* from that one only in a channel that an approved proposal is about, and *)
(* no published version ever changes.                                      *)
(***************************************************************************)
EXTENDS Naturals

CONSTANTS MaxVersion, Policy, Channel, Initial, Absent

VARIABLES history, open   \* the versions; the channels an approved proposal is about

Init == history = [v \in 1..MaxVersion |-> IF v = 1 THEN Initial ELSE Absent] /\ open = {}

Approve == \E ch \in Channel : open' = open \cup {ch} /\ UNCHANGED history

Publish ==
    /\ \E v \in 2..MaxVersion, ch \in open, new \in Policy :
          /\ history[v] = Absent /\ history[v - 1] # Absent
          /\ \A other \in Channel \ {ch} : new[other] = history[v - 1][other]
          /\ history' = [history EXCEPT ![v] = new]
    /\ UNCHANGED open

Next == Approve \/ Publish
log  == <<history, open>>
Step == [Next]_log
Spec == Init /\ [][Next]_log
=============================================================================
