----------------------------- MODULE HashChain -----------------------------
(***************************************************************************)
(* Hash-chained JSONL files.  A row carries the hash of the row before it; *)
(* a hash is the sequence of the payloads from the genesis up to the row   *)
(* it is of, which keeps what the properties need of SHA-256: equal hashes *)
(* are hashes of equal histories.  Torn is a line that does not parse.     *)
(***************************************************************************)
EXTENDS Sequences, Naturals

CONSTANT Torn

Genesis == <<>>
Digest(row) == Append(row.prev, row.payload)

(* What the next row must carry, where the last line parses.               *)
LastHash(rows) == IF rows = <<>> THEN Genesis ELSE Digest(rows[Len(rows)])
Readable(rows) == rows # <<>> => rows[Len(rows)] # Torn

(* What every verifier of such a file recomputes.                          *)
LinkedAt(rows, i) ==
    /\ rows[i] # Torn
    /\ rows[i].prev = IF i = 1 THEN Genesis ELSE Digest(rows[i - 1])
Linked(rows) == \A i \in 1..Len(rows) : LinkedAt(rows, i)
=============================================================================
