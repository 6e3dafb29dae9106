--------------------------- MODULE CoreEventChain ---------------------------
(***************************************************************************)
(* The chain of core events: core/hasher derives an event's id and its     *)
(* chain hash, core/validator judges one event, and core/chain_walker      *)
(* walks a list of them.  The producers are outside the repository; they   *)
(* are modelled as the walker and its tests take them, several for the     *)
(* same subject and snapshot.  Between a producer and the walker events    *)
(* may be lost, repeated, reordered, damaged or mixed with another's.      *)
(*                                                                         *)
(* An id is the tuple that was hashed; a chain hash is the sequence of the *)
(* ids hashed into it, since an id covers the hash of the payload and the  *)
(* schema hash is fixed.                                                   *)
(***************************************************************************)
EXTENDS Naturals, Sequences, SequencesExt

CONSTANTS
    Producer,      \* who writes events
    Writing,       \* which snapshot each producer may write for
    Hashing,       \* which of its events a producer may give a chain hash
    Payload,
    MaxEvents,     \* bound on the events of a producer, and of the walked list
    Malformed, Altered, Incomplete, \* damaged events
    Null

VARIABLES
    of,            \* the snapshot each producer writes for
    hashing,       \* the events it gives a chain hash: a function to BOOLEAN
    history,       \* the events each producer wrote, in order
    received       \* the list that the walker is given

eventVars == <<of, hashing, history, received>>

Init ==
    /\ of \in Writing /\ hashing \in [Producer -> Hashing]
    /\ history = [p \in Producer |-> <<>>]
    /\ received = <<>>

-----------------------------------------------------------------------------
(* An id covers type, subject, snapshot, sequence number, references and   *)
(* payload, but neither the times nor the predecessor.                     *)
EventId(snapshot, seq, payload) == <<snapshot, seq, payload>>
(* prev_chain_hash is left out of the first hash.                          *)
ChainHashAlone(prev, id) == <<id>>
ChainHash(prev, id) == IF prev = Null THEN <<id>> ELSE Append(prev, id)

(* The last chain hash among the events, as the walker carries it past     *)
(* events without one.                                                     *)
Hashed(events) == {i \in DOMAIN events : events[i].chain_hash # Null}
LastChainHash(events) ==
    IF Hashed(events) = {} THEN Null ELSE events[Max(Hashed(events))].chain_hash

Snapshots == {w[p] : w \in Writing, p \in Producer}
Ids == Snapshots \X Nat \X Payload
CoreEvent ==
    [id: Ids, snapshot: Snapshots, sequence_no: Nat, prev_event_id: Ids \cup {Null},
     chain_hash: Seq(Ids) \cup {Null}]

Event(events, snapshot, payload, withHash) ==
    LET id == EventId(snapshot, Len(events) + 1, payload) IN
    [id |-> id, snapshot |-> snapshot, sequence_no |-> Len(events) + 1,
     prev_event_id |-> IF events = <<>> THEN Null ELSE Last(events).id,
     chain_hash |-> IF withHash THEN ChainHash(LastChainHash(events), id) ELSE Null]

Produce(p) ==
    /\ Len(history[p]) < MaxEvents
    /\ \E payload \in Payload :
        LET events == history[p] IN
        history' = [history EXCEPT ![p] =
            Append(events, Event(events, of[p], payload, hashing[p][Len(events) + 1]))]
    /\ UNCHANGED <<of, hashing, received>>

(* Any event may come next, once all are written, or one that someone has  *)
(* damaged: an envelope that lacks a field or has one of a wrong type, a   *)
(* change in what an id or a payload hash covers, or a payload that lacks  *)
(* a key which its type asks for.                                          *)
Damage == {Malformed, Altered, Incomplete}
Receive ==
    /\ \A p \in Producer : Len(history[p]) = MaxEvents
    /\ Len(received) < MaxEvents
    /\ \E e \in (UNION {Range(history[p]) : p \in Producer}) \cup Damage :
        received' = Append(received, e)
    /\ UNCHANGED <<of, hashing, history>>

-----------------------------------------------------------------------------
(* validate_core_event_fail_closed.                                        *)
WellFormed(e) == e # Malformed
Intact(e) == e # Altered
PayloadShaped(e) == e # Incomplete
Valid(e) == WellFormed(e) /\ Intact(e) /\ PayloadShaped(e)

(* walk_and_verify_chain.  ok: no result was False.  An event that does    *)
(* not validate, or of another snapshot than the first one's, is reported  *)
(* and skipped; what is wrong with any other event is reported, and the    *)
(* walk goes on from that event.                                           *)
Start == [snapshot |-> Null, expected |-> 1, prev |-> Null, chain |-> Null, ok |-> TRUE]
Skip(w) == [w EXCEPT !.ok = FALSE]
Correct(w, e) ==
    /\ e.sequence_no = w.expected
    /\ e.prev_event_id = w.prev
    /\ e.chain_hash # Null => e.chain_hash = ChainHash(w.chain, e.id)
Step(w, e) ==
    IF ~Valid(e) \/ w.snapshot \notin {Null, e.snapshot} THEN Skip(w)
    ELSE [snapshot |-> e.snapshot, expected |-> w.expected + 1, prev |-> e.id,
          chain |-> IF e.chain_hash = Null THEN w.chain ELSE e.chain_hash,
          ok |-> w.ok /\ Correct(w, e)]
(* The walker's variables after each of the events.                        *)
Walk(events) ==
    LET walk[n \in 0..Len(events)] ==
            IF n = 0 THEN Start ELSE Step(walk[n - 1], events[n])
    IN walk
Clean(events) == events # <<>> /\ Walk(events)[Len(events)].ok

-----------------------------------------------------------------------------
Next == Receive \/ \E p \in Producer : Produce(p)

Spec == Init /\ [][Next]_eventVars

-----------------------------------------------------------------------------
(* Properties.                                                             *)

(* What a producer wrote walks clean, with chain hashes on any of its      *)
(* events or on none.                                                      *)
HistoriesWalkClean ==
    \A p \in Producer : history[p] # <<>> => Clean(history[p])

(* A list walks clean only if it is the beginning of what one producer     *)
(* wrote, with nothing lost, repeated, moved or taken from another: when   *)
(* every event carries a chain hash, whatever was mixed; and when they all *)
(* come from one producer, even without.  Ids alone do not tell a list     *)
(* mixed from two producers, because an id does not cover its predecessor. *)
CleanWalkIsAHistory ==
    Clean(received) =>
        \/ \E p \in Producer : IsPrefix(received, history[p])
        \/ /\ \E i \in DOMAIN received : received[i].chain_hash = Null
           /\ \A p \in Producer : ~(Range(received) \subseteq Range(history[p]))

(* The walk accepts every list that was written, and of the lists that     *)
(* were received only such.                                                *)
WalkTellsHistories == HistoriesWalkClean /\ CleanWalkIsAHistory
=============================================================================
