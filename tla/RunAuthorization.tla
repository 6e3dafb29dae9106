-------------------------- MODULE RunAuthorization --------------------------
(***************************************************************************)
(* What the approval gate promises about each execution run, whatever its  *)
(* tables and handlers do: the run is authorised at most once, by an       *)
(* approval; a refusal is for ever; an authorisation that was used or      *)
(* withdrawn does not come back.                                           *)
(***************************************************************************)
CONSTANT Run

VARIABLE gate

Gate == {"shut", "open", "spent", "refused"}

Init == gate = [r \in Run |-> "shut"]

Authorize(r) == gate[r] = "shut" /\ gate' = [gate EXCEPT ![r] = "open"]
Refuse(r)    == gate[r] = "shut" /\ gate' = [gate EXCEPT ![r] = "refused"]
Withdraw(r)  == gate[r] = "open" /\ gate' = [gate EXCEPT ![r] = "spent"]

Next == \E r \in Run : Authorize(r) \/ Refuse(r) \/ Withdraw(r)

Spec == Init /\ [][Next]_gate
=============================================================================
