------------------------ MODULE AuditChains_proofs ------------------------
(***************************************************************************)
(* The components with an audit file of their own, for any number of       *)
(* commands, people, files and rows.                                       *)
(*                                                                         *)
(* The override log: what serial commands leave is a chain, a log that was *)
(* once written wrongly answers nobody, and a verified block is lifted     *)
(* only by someone else's approval or by one appended since.               *)
(*                                                                         *)
(* The judgment trail: its verifier finds exactly the damage, an event has *)
(* its snapshot, and a report joins what was recorded.                     *)
(*                                                                         *)
(* The observer logs: what is accepted was appended serially and whole.    *)
(*                                                                         *)
(* The core events: of the lists that reach the walker, only histories     *)
(* walk clean.                                                             *)
(*                                                                         *)
(* The orchestrator: commands that do not overlap never let a file or a    *)
(* seal fall behind what it was made from.                                 *)
(***************************************************************************)
EXTENDS MCAuditChains, Integers, SequenceTheorems, WellFoundedInduction, TLAPS

Question == [symbol: Symbol, now: Time, verified: Nat]

TypeOK ==
    /\ log \in Seq(Row \cup {Torn}) /\ cut \in BOOLEAN
    /\ pending \in [Command -> Row \cup {Null}]
    /\ asked \in Question \cup {Null}
    /\ overlapped \in BOOLEAN /\ broken \in BOOLEAN
    /\ cut => log # <<>>

-----------------------------------------------------------------------------
(* Operators.                                                              *)

(* A set of naturals has a least element.                                  *)
LEMMA LeastBy ==
    ASSUME NEW R, IsWellFoundedOn(R, Nat), \A x, y \in Nat : y < x => <<y, x>> \in R,
           NEW S \in SUBSET Nat, S # {}
    PROVE  \E x \in S : \A y \in S : ~(y < x)
<1>1. PICK x \in S : \A y \in S : ~(<<y, x>> \in R)
  BY WFMin
<1>2. \A y \in S : x \in Nat /\ y \in Nat
  OBVIOUS
<1>3. \A y \in S : ~(y < x)
  BY <1>1, <1>2
<1>4. QED
  BY <1>3

LEMMA Least == ASSUME NEW S \in SUBSET Nat, S # {} PROVE \E x \in S : \A y \in S : ~(y < x)
<1>1. \A x, y \in Nat : y < x => <<y, x>> \in OpToRel(<, Nat)
  BY DEF OpToRel
<1>2. QED
  BY <1>1, NatLessThanWellFounded, LeastBy

(* A bounded set of naturals has a greatest element.                       *)
LEMMA Greatest ==
    ASSUME NEW n \in Nat, NEW S \in SUBSET (0..n), S # {}
    PROVE  \E x \in S : \A y \in S : ~(x < y)
<1> DEFINE M == {n - x : x \in S}
<1>1. M \in SUBSET Nat /\ M # {}
  <2>1. \A x \in S : x \in 0..n /\ n - x \in Nat
    OBVIOUS
  <2>2. PICK x \in S : TRUE
    OBVIOUS
  <2>3. n - x \in M
    OBVIOUS
  <2>4. QED
    BY <2>1, <2>3
<1>2. PICK m \in M : \A k \in M : ~(k < m)
  BY <1>1, Least
<1>3. PICK x \in S : m = n - x
  BY <1>2
<1>4. ASSUME NEW y \in S, x < y PROVE FALSE
  <2>1. n - y \in M
    OBVIOUS
  <2>2. x \in 0..n /\ y \in 0..n
    OBVIOUS
  <2>3. ~(n - y < n - x)
    BY <1>2, <1>3, <2>1
  <2>4. QED
    BY <1>4, <2>2, <2>3
<1>5. QED
  BY <1>4

(* What is added to the log, whole or in part, is one line at its end, or  *)
(* the end of its last line.                                               *)
LEMMA ExtendedType ==
    ASSUME TypeOK, NEW line \in Row \cup {Torn}
    PROVE  /\ Extended(line) \in Seq(Row \cup {Torn}) /\ Extended(line) # <<>>
           /\ Len(Extended(line)) >= Len(log)
           /\ cut => /\ Len(Extended(line)) = Len(log)
                     /\ \A i \in 1..(Len(log) - 1) : Extended(line)[i] = log[i]
                     /\ Extended(line)[Len(log)] = Torn
           /\ ~cut => /\ Len(Extended(line)) = Len(log) + 1
                      /\ \A i \in 1..Len(log) : Extended(line)[i] = log[i]
                      /\ Extended(line)[Len(log) + 1] = line
<1>1. CASE cut
  <2>1. Len(log) \in 1..Len(log)
    BY <1>1 DEF TypeOK
  <2>2. QED
    BY <1>1, <2>1 DEF Extended, TypeOK
<1>2. CASE ~cut
  BY <1>2 DEF Extended, TypeOK
<1>3. QED
  BY <1>1, <1>2 DEF TypeOK

LEMMA LastHashType ==
    ASSUME TypeOK, Readable(log)
    PROVE  LastHash(log) \in Seq(Event)
<1>1. CASE log = <<>>
  BY <1>1 DEF LastHash, Genesis
<1>2. CASE log # <<>>
  <2>1. log[Len(log)] \in Row
    BY <1>2 DEF Readable, TypeOK
  <2>2. QED
    BY <1>2, <2>1 DEF LastHash, Digest, Row
<1>3. QED
  BY <1>1, <1>2

(* The row that follows a readable line links to it, any other does not.   *)
LEMMA NextLinks ==
    ASSUME TypeOK, ~cut, Readable(log), NEW line \in Row
    PROVE  LinkedAt(Extended(line), Len(log) + 1) <=> line.prev = LastHash(log)
<1> DEFINE n == Len(log)
<1>1. n \in Nat /\ Extended(line)[n + 1] = line /\ line # Torn
  BY ExtendedType, TornAssumption DEF TypeOK
<1>2. CASE n = 0
  <2>1. log = <<>>
    BY <1>2 DEF TypeOK
  <2>2. QED
    BY <1>1, <1>2, <2>1 DEF LinkedAt, LastHash
<1>3. CASE n # 0
  <2>1. log # <<>> /\ (n + 1) - 1 = n /\ n + 1 # 1 /\ n \in 1..n
    BY <1>1, <1>3
  <2>2. Extended(line)[n] = log[n]
    BY <2>1, ExtendedType
  <2>3. QED
    BY <1>1, <2>1, <2>2 DEF LinkedAt, LastHash
<1>4. QED
  BY <1>2, <1>3

(* A line before the last keeps its link, or its lack of one.              *)
LEMMA LinkStays ==
    ASSUME TypeOK, NEW line \in Row \cup {Torn}, NEW i \in 1..Len(log), i # Len(log) \/ ~cut
    PROVE  LinkedAt(Extended(line), i) <=> LinkedAt(log, i)
<1>1. i \in Nat /\ Extended(line)[i] = log[i]
  BY ExtendedType DEF TypeOK
<1>2. i # 1 => Extended(line)[i - 1] = log[i - 1]
  <2>1. i # 1 => i - 1 \in 1..(Len(log) - 1) /\ i - 1 \in 1..Len(log)
    BY DEF TypeOK
  <2>2. QED
    BY <2>1, ExtendedType
<1>3. QED
  BY <1>1, <1>2 DEF LinkedAt

-----------------------------------------------------------------------------
(* Type correctness.                                                       *)

THEOREM Typed == Spec => []TypeOK
<1>1. Init => TypeOK
  <2> SUFFICES ASSUME Init PROVE TypeOK
    OBVIOUS
  <2>1. log \in Seq(Row \cup {Torn})
    BY DEF Init
  <2>2. pending \in [Command -> Row \cup {Null}]
    BY DEF Init
  <2>3. QED
    BY <2>1, <2>2 DEF Init, TypeOK
<1>2. TypeOK /\ [Next]_vars => TypeOK'
  <2> SUFFICES ASSUME TypeOK, [Next]_vars PROVE TypeOK'
    OBVIOUS
  <2> USE DEF file
  <2>1. ASSUME NEW c \in Command, NEW e \in Input, AppendRead(c, e) PROVE TypeOK'
    <3>1. [prev |-> LastHash(log), payload |-> e] \in Row
      BY <2>1, LastHashType, InputAssumption DEF AppendRead, Row
    <3>2. QED
      BY <2>1, <3>1 DEF AppendRead, TypeOK
  <2>2. ASSUME NEW c \in Command, AppendWrite(c) PROVE TypeOK'
    <3>1. pending[c] \in Row
      BY <2>2 DEF AppendWrite, TypeOK
    <3>2. log' \in Seq(Row \cup {Torn})
      BY <2>2, <3>1, ExtendedType DEF AppendWrite
    <3>3. QED
      BY <2>2, <3>2 DEF AppendWrite, TypeOK, Readable
  <2>3. ASSUME NEW c \in Command, AppendTorn(c) PROVE TypeOK'
    <3>1. pending[c] \in Row
      BY <2>3 DEF AppendTorn, TypeOK
    <3>2. log' \in Seq(Row \cup {Torn}) /\ log' # <<>>
      BY <2>3, <3>1, ExtendedType DEF AppendTorn
    <3>3. QED
      BY <2>3, <3>2 DEF AppendTorn, TypeOK, Readable
  <2>4. ASSUME NEW c \in Command, AppendStops(c) PROVE TypeOK'
    BY <2>4 DEF AppendStops, TypeOK
  <2>5. ASSUME NEW s \in Symbol, NEW now \in Time, GuardVerify(s, now) PROVE TypeOK'
    <3>1. [symbol |-> s, now |-> now, verified |-> Len(log)] \in Question
      BY DEF TypeOK, Question
    <3>2. QED
      BY <2>5, <3>1 DEF GuardVerify, TypeOK
  <2>6. CASE GuardLoad
    BY <2>6 DEF GuardLoad, TypeOK
  <2>7. CASE UNCHANGED vars
    BY <2>7 DEF vars, TypeOK
  <2>8. QED
    BY <2>1, <2>2, <2>3, <2>4, <2>5, <2>6, <2>7 DEF Next, Run
<1>3. QED
  BY <1>1, <1>2, PTL DEF Spec

-----------------------------------------------------------------------------
(* Serial commands.                                                        *)

(* A line that parses follows the line before it; the last may be torn.    *)
ChainTo(rows) == \A i \in 1..Len(rows) : LinkedAt(rows, i) \/ (i = Len(rows) /\ rows[i] = Torn)

(* What is written after the line it was read after, whole or in part,     *)
(* leaves a chain.                                                         *)
LEMMA ExtendedChain ==
    ASSUME TypeOK, ChainTo(log), Readable(log), NEW line \in Row \cup {Torn},
           line = Torn \/ (line \in Row /\ line.prev = LastHash(log))
    PROVE  ChainTo(Extended(line))
<1>0. Len(log) \in Nat
  BY DEF TypeOK
<1>1. \A i \in 1..Len(log) : LinkedAt(log, i)
  <2>1. ASSUME NEW i \in 1..Len(log) PROVE log # <<>>
    BY DEF TypeOK
  <2>2. QED
    BY <2>1 DEF ChainTo, Readable
<1>2. CASE cut
  <2>1. \A i \in 1..Len(log) : i # Len(log) => LinkedAt(Extended(line), i)
    BY <1>1, LinkStays
  <2>2. Len(Extended(line)) = Len(log) /\ Extended(line)[Len(log)] = Torn
    BY <1>2, ExtendedType
  <2>3. QED
    BY <2>1, <2>2 DEF ChainTo
<1>3. CASE ~cut
  <2>1. \A i \in 1..Len(log) : LinkedAt(Extended(line), i)
    BY <1>1, <1>3, LinkStays
  <2>2. Len(Extended(line)) = Len(log) + 1 /\ Extended(line)[Len(log) + 1] = line
    BY <1>3, ExtendedType
  <2>3. line # Torn => LinkedAt(Extended(line), Len(log) + 1)
    BY <1>3, NextLinks
  <2>4. \A i \in 1..(Len(log) + 1) : i \in 1..Len(log) \/ i = Len(log) + 1
    BY <1>0
  <2>5. QED
    BY <2>1, <2>2, <2>3, <2>4 DEF ChainTo
<1>4. QED
  BY <1>2, <1>3

(* Until two commands have overlapped, one row is pending at most, and it  *)
(* follows the last line of the file.                                      *)
SerialInv ==
    ~overlapped =>
        /\ \A c, d \in Command : pending[c] # Null /\ pending[d] # Null => c = d
        /\ \A c \in Command : pending[c] # Null => Readable(log) /\ pending[c].prev = LastHash(log)
        /\ ChainTo(log)

(* Commands that do not overlap, wherever they stop, leave a chain.        *)
THEOREM SerialLinks == Spec => []SerialAppendsLink
<1>1. Init => SerialInv
  BY DEF Init, SerialInv, ChainTo
<1>2. TypeOK /\ SerialInv /\ [Next]_vars => SerialInv'
  <2> SUFFICES ASSUME TypeOK, SerialInv, [Next]_vars, ~overlapped' PROVE SerialInv'
    BY DEF SerialInv
  <2> USE DEF file
  <2>1. ASSUME NEW c \in Command, NEW e \in Input, AppendRead(c, e) PROVE SerialInv'
    <3>1. ~overlapped /\ \A d \in Command : d # c => pending'[d] = Null
      BY <2>1 DEF AppendRead, TypeOK
    <3>2. pending'[c].prev = LastHash(log) /\ Readable(log) /\ log' = log
      BY <2>1 DEF AppendRead, TypeOK
    <3>3. QED
      BY <3>1, <3>2 DEF SerialInv, ChainTo, Readable, LastHash
  <2>2. ASSUME NEW c \in Command, pending[c] # Null, ~overlapped,
               pending' = [pending EXCEPT ![c] = Null],
               NEW line \in {Torn, pending[c]}, log' = Extended(line)
        PROVE  SerialInv'
    <3>1. \A d \in Command : pending'[d] = Null
      BY <2>2 DEF SerialInv, TypeOK
    <3>2. pending[c] \in Row /\ ChainTo(log) /\ Readable(log) /\ pending[c].prev = LastHash(log)
      BY <2>2 DEF SerialInv, TypeOK
    <3>3. ChainTo(Extended(line))
      BY <3>2, ExtendedChain
    <3>4. ChainTo(log')
      BY <2>2, <3>3
    <3>5. QED
      BY <3>1, <3>4 DEF SerialInv, ChainTo, LinkedAt
  <2>3. ASSUME NEW c \in Command, AppendWrite(c) PROVE SerialInv'
    BY <2>2, <2>3 DEF AppendWrite
  <2>4. ASSUME NEW c \in Command, AppendTorn(c) PROVE SerialInv'
    BY <2>2, <2>4 DEF AppendTorn
  <2>5. ASSUME NEW c \in Command, AppendStops(c) PROVE SerialInv'
    <3>1. /\ log' = log /\ ~overlapped
          /\ \A d \in Command : pending'[d] # Null => pending'[d] = pending[d]
      BY <2>5 DEF AppendStops, TypeOK
    <3>2. QED
      BY <3>1 DEF SerialInv, ChainTo, LinkedAt, Readable, LastHash
  <2>6. ASSUME UNCHANGED <<log, pending, overlapped>> PROVE SerialInv'
    BY <2>6 DEF SerialInv, ChainTo, LinkedAt, Readable, LastHash
  <2>7. QED
    BY <2>1, <2>3, <2>4, <2>5, <2>6 DEF Next, Run, GuardVerify, GuardLoad, vars
<1>3. SerialInv => SerialAppendsLink
  BY DEF SerialInv, SerialAppendsLink, ChainTo
<1>4. QED
  BY <1>1, <1>2, <1>3, Typed, PTL DEF Spec

-----------------------------------------------------------------------------
(* A log that was written wrongly.                                         *)

BrokenInv == broken => \E i \in 1..Len(log) : ~LinkedAt(log, i)

(* A line that does not follow the one before it is never repaired.        *)
LEMMA FlawStays ==
    ASSUME TypeOK, NEW line \in Row \cup {Torn}, NEW i \in 1..Len(log), ~LinkedAt(log, i)
    PROVE  \E j \in 1..Len(Extended(line)) : ~LinkedAt(Extended(line), j)
<1>0. Len(log) \in Nat /\ Len(Extended(line)) \in Nat /\ Len(Extended(line)) >= Len(log)
  BY ExtendedType DEF TypeOK
<1>1. ~LinkedAt(Extended(line), i)
  <2>1. CASE i # Len(log) \/ ~cut
    BY <2>1, LinkStays
  <2>2. CASE i = Len(log) /\ cut
    BY <2>2, ExtendedType DEF LinkedAt
  <2>3. QED
    BY <2>1, <2>2
<1>2. i \in 1..Len(Extended(line))
  BY <1>0
<1>3. QED
  BY <1>1, <1>2

(* A write that ends a line, lands on an unreadable one, or follows another *)
(* line than it was read after, leaves a line that does not follow.        *)
LEMMA FlawAppears ==
    ASSUME TypeOK, NEW added \in Row, NEW line \in {Torn, added},
           cut \/ ~Readable(log) \/ added.prev # LastHash(log)
               \/ ~Readable(Extended(line))
    PROVE  \E j \in 1..Len(Extended(line)) : ~LinkedAt(Extended(line), j)
<1> DEFINE n == Len(log)
<1>0. n \in Nat /\ line \in Row \cup {Torn}
  BY DEF TypeOK
<1>1. CASE cut
  <2>1. n \in 1..n /\ Len(Extended(line)) = n /\ Extended(line)[n] = Torn
    BY <1>0, <1>1, ExtendedType DEF TypeOK
  <2>2. QED
    BY <2>1 DEF LinkedAt
<1>2. CASE ~cut /\ ~Readable(log)
  <2>1. n \in 1..n /\ ~LinkedAt(log, n)
    BY <1>2 DEF Readable, LinkedAt, TypeOK
  <2>2. QED
    BY <1>0, <2>1, FlawStays
<1>3. CASE ~cut /\ Readable(log)
  <2>1. Len(Extended(line)) = n + 1 /\ Extended(line)[n + 1] = line /\ n + 1 \in 1..(n + 1)
    BY <1>0, <1>3, ExtendedType
  <2>2. CASE line = Torn
    BY <2>1, <2>2 DEF LinkedAt
  <2>3. CASE line # Torn
    <3>1. line = added /\ Readable(Extended(line))
      BY <2>1, <2>3 DEF Readable
    <3>2. ~LinkedAt(Extended(line), n + 1)
      BY <1>3, <3>1, NextLinks
    <3>3. QED
      BY <2>1, <3>2
  <2>4. QED
    BY <2>2, <2>3
<1>4. QED
  BY <1>1, <1>2, <1>3

(* From the first row that follows another line than it was read after, or *)
(* that is there in part only, no verification starts an answer.           *)
THEOREM BrokenAnswersNobody == Spec => BrokenLogAnswersNobody
<1>1. Init => BrokenInv
  BY DEF Init, BrokenInv
<1>2. TypeOK /\ BrokenInv /\ [Next]_vars => BrokenInv'
  <2> SUFFICES ASSUME TypeOK, BrokenInv, [Next]_vars, broken' PROVE BrokenInv'
    BY DEF BrokenInv
  <2> USE DEF file
  <2>1. ASSUME NEW c \in Command, pending[c] # Null, NEW line \in {Torn, pending[c]},
               log' = Extended(line),
               broken \/ cut \/ ~Readable(log) \/ ~Readable(Extended(line))
                   \/ pending[c].prev # LastHash(log)
        PROVE  BrokenInv'
    <3>1. pending[c] \in Row
      BY <2>1 DEF TypeOK
    <3>2. \E j \in 1..Len(Extended(line)) : ~LinkedAt(Extended(line), j)
      <4>1. CASE broken
        BY <3>1, <4>1, FlawStays DEF BrokenInv
      <4>2. CASE ~broken
        BY <2>1, <3>1, <4>2, FlawAppears
      <4>3. QED
        BY <4>1, <4>2
    <3>3. QED
      BY <2>1, <3>2 DEF BrokenInv, LinkedAt
  <2>2. ASSUME NEW c \in Command, AppendWrite(c) PROVE BrokenInv'
    BY <2>1, <2>2 DEF AppendWrite
  <2>3. ASSUME NEW c \in Command, AppendTorn(c) PROVE BrokenInv'
    <3>1. PICK line \in {Torn, pending[c]} : log' = Extended(line)
      BY <2>3 DEF AppendTorn
    <3>2. broken \/ cut \/ ~Readable(log) \/ ~Readable(Extended(line))
              \/ pending[c].prev # LastHash(log)
      BY <2>3, <3>1 DEF AppendTorn, Readable
    <3>3. QED
      BY <2>1, <2>3, <3>1, <3>2 DEF AppendTorn
  <2>4. ASSUME UNCHANGED <<log, broken>> PROVE BrokenInv'
    BY <2>4 DEF BrokenInv, LinkedAt
  <2>5. QED
    BY <2>2, <2>3, <2>4 DEF Next, Run, AppendRead, AppendStops, GuardVerify, GuardLoad, vars
<1>3. BrokenInv /\ [Next]_vars => [broken /\ asked = Null => asked' = Null]_vars
  <2> SUFFICES ASSUME BrokenInv, [Next]_vars, broken, asked = Null PROVE asked' = Null
    OBVIOUS
  <2>1. ~Verified(log)
    BY DEF BrokenInv, Verified, Linked
  <2>2. QED
    BY <2>1 DEF Next, Run, AppendRead, AppendWrite, AppendTorn, AppendStops, GuardVerify,
                GuardLoad, vars
<1>4. QED
  BY <1>1, <1>2, <1>3, Typed, PTL DEF Spec, BrokenLogAnswersNobody

-----------------------------------------------------------------------------
(* What lifts a block.                                                     *)

(* The lines that the guard verified keep their second person.             *)
VerifiedInv ==
    asked # Null =>
        /\ asked.verified \in 0..Len(log)
        /\ \A i \in 1..asked.verified :
            log[i] # Torn /\ log[i].payload.type = "approved"
            => log[i].payload.request.subject # log[i].payload.subject

LEMMA Stamped == ASSUME NEW added \in Row PROVE added.payload.ts \in Nat
  BY InputAssumption DEF Row, Event, Time

(* Of the lines in force for a symbol one is last, and every other comes   *)
(* before it.                                                              *)
LEMMA LastInForce ==
    ASSUME TypeOK, \A i \in 1..Len(log) : log[i] # Torn,
           NEW s, NEW now, \E i \in 1..Len(log) : InForce(log, i, s, now)
    PROVE  \E j \in 1..Len(log) :
               /\ InForce(log, j, s, now)
               /\ \A k \in 1..Len(log) :
                    InForce(log, k, s, now) => ~Before(log, j, k) /\ (k = j \/ Before(log, k, j))
<1> DEFINE F == {i \in 1..Len(log) : InForce(log, i, s, now)}
           ts(i) == log[i].payload.ts
           T == {ts(i) : i \in F}
<1>1. Len(log) \in Nat /\ \A i \in 1..Len(log) : ts(i) \in Nat /\ ts(i) \in 0..MaxTime
  <2>1. \A i \in 1..Len(log) : log[i] \in Row
    BY DEF TypeOK
  <2>2. \A added \in Row : added.payload.ts \in 0..MaxTime
    BY DEF Row, Event, Time
  <2>3. QED
    BY <2>1, <2>2, Stamped DEF TypeOK
<1>2. PICK t \in T : \A u \in T : ~(t < u)
  <2>1. T \in SUBSET (0..MaxTime) /\ T # {} /\ MaxTime \in Nat
    BY <1>1, InputAssumption
  <2>2. QED
    BY <2>1, Greatest
<1> DEFINE L == {i \in F : ts(i) = t}
<1>3. PICK j \in L : \A k \in L : ~(j < k)
  <2>1. L \in SUBSET (0..Len(log)) /\ L # {}
    BY <1>1, <1>2
  <2>2. QED
    BY <1>1, <2>1, Greatest
<1>4. ASSUME NEW k \in F PROVE ~Before(log, j, k) /\ (k = j \/ Before(log, k, j))
  <2>1. /\ ts(k) \in T /\ ts(j) = t /\ ~(t < ts(k))
        /\ ts(k) \in Nat /\ t \in Nat /\ k \in Nat /\ j \in Nat
    BY <1>1, <1>2, <1>3
  <2>2. ts(k) = t => ~(j < k)
    BY <1>3
  <2>3. QED
    BY <2>1, <2>2 DEF Before
<1>5. j \in 1..Len(log) /\ InForce(log, j, s, now)
  BY <1>3
<1>6. QED
  BY <1>4, <1>5

(* A verified block is lifted only by a later approval: by someone who did *)
(* not ask for it, or appended since the verification.                     *)
THEOREM SecondPerson == Spec => BlockNeedsSecondPerson
<1>1. Init => VerifiedInv
  BY DEF Init, VerifiedInv
<1>2. TypeOK /\ VerifiedInv /\ [Next]_vars => VerifiedInv'
  <2> SUFFICES ASSUME TypeOK, VerifiedInv, [Next]_vars PROVE VerifiedInv'
    OBVIOUS
  <2> USE DEF file
  <2>1. ASSUME NEW line \in Row \cup {Torn}, log' = Extended(line), UNCHANGED asked
        PROVE  VerifiedInv'
    <3>1. ASSUME NEW i \in 1..Len(log) PROVE log'[i] = log[i] \/ log'[i] = Torn
      <4>1. i = Len(log) \/ i \in 1..(Len(log) - 1)
        BY DEF TypeOK
      <4>2. QED
        BY <2>1, <4>1, ExtendedType DEF TypeOK
    <3>2. Len(log) \in Nat /\ Len(log') \in Nat /\ Len(log') >= Len(log)
      BY <2>1, ExtendedType DEF TypeOK
    <3>3. QED
      BY <2>1, <3>1, <3>2 DEF VerifiedInv
  <2>2. ASSUME NEW c \in Command, AppendWrite(c) PROVE VerifiedInv'
    <3>1. pending[c] \in Row
      BY <2>2 DEF AppendWrite, TypeOK
    <3>2. QED
      BY <2>1, <2>2, <3>1 DEF AppendWrite
  <2>3. ASSUME NEW c \in Command, AppendTorn(c) PROVE VerifiedInv'
    <3>1. pending[c] \in Row
      BY <2>3 DEF AppendTorn, TypeOK
    <3>2. QED
      BY <2>1, <2>3, <3>1 DEF AppendTorn
  <2>4. ASSUME NEW s \in Symbol, NEW now \in Time, GuardVerify(s, now) PROVE VerifiedInv'
    <3>1. CASE Verified(log)
      <4>1. asked' = [symbol |-> s, now |-> now, verified |-> Len(log)] /\ log' = log
        BY <2>4, <3>1 DEF GuardVerify
      <4>2. \A i \in 1..Len(log) :
              log[i].payload.type = "approved" =>
                  log[i].payload.request.subject # log[i].payload.subject
        BY <3>1 DEF Verified, Referenced, JudgedBy
      <4>3. QED
        BY <4>1, <4>2 DEF VerifiedInv, TypeOK
    <3>2. CASE ~Verified(log)
      BY <2>4, <3>2 DEF GuardVerify, VerifiedInv
    <3>3. QED
      BY <3>1, <3>2
  <2>5. CASE GuardLoad
    BY <2>5 DEF GuardLoad, VerifiedInv
  <2>6. ASSUME UNCHANGED <<log, asked>> PROVE VerifiedInv'
    BY <2>6 DEF VerifiedInv
  <2>7. QED
    BY <2>2, <2>3, <2>4, <2>5, <2>6 DEF Next, Run, AppendRead, AppendStops, vars
<1>3. ASSUME TypeOK, VerifiedInv, [Next]_vars, asked # Null, asked' = Null, verdict' = "allow",
             NEW i \in 1..asked.verified, InForce(log, i, asked.symbol, asked.now),
             ActionOf(log, i) = "block_execution"
      PROVE  \E j \in 1..Len(log) : Lifts(j, i)
  <2>1. verdict' = Answer(log, asked.symbol, asked.now)
    BY <1>3 DEF Next, Run, AppendRead, AppendWrite, AppendTorn, AppendStops, GuardVerify,
                GuardLoad, vars, file
  <2>2. Loads(log, asked.now) /\ ~Denied(log, asked.symbol, asked.now)
    BY <1>3, <2>1 DEF Answer
  <2>3. i \in 1..Len(log) /\ \A k \in 1..Len(log) : log[k] # Torn
    BY <1>3, <2>2 DEF VerifiedInv, Loads, TypeOK
  <2>4. PICK j \in 1..Len(log) :
            /\ InForce(log, j, asked.symbol, asked.now)
            /\ \A k \in 1..Len(log) : InForce(log, k, asked.symbol, asked.now)
                    => ~Before(log, j, k) /\ (k = j \/ Before(log, k, j))
    BY <1>3, <2>3, LastInForce
  <2>5. ActionOf(log, j) # "block_execution"
    BY <2>2, <2>4 DEF Denied
  <2>6. Before(log, i, j)
    BY <1>3, <2>3, <2>4, <2>5
  <2>7. j <= asked.verified => log[j].payload.request.subject # log[j].payload.subject
    <3>1. j \in Nat /\ (j <= asked.verified => j \in 1..asked.verified)
      BY <1>3 DEF VerifiedInv, TypeOK
    <3>2. QED
      BY <1>3, <2>3, <2>4, <3>1 DEF VerifiedInv, InForce
  <2>8. QED
    BY <2>4, <2>5, <2>6, <2>7 DEF Lifts
<1>4. TypeOK /\ VerifiedInv /\ [Next]_vars =>
        [asked # Null /\ asked' = Null /\ verdict' = "allow" =>
            \A i \in 1..asked.verified :
                /\ InForce(log, i, asked.symbol, asked.now)
                /\ ActionOf(log, i) = "block_execution"
                => \E j \in 1..Len(log) : Lifts(j, i)]_vars
  BY <1>3
<1>5. QED
  BY <1>1, <1>2, <1>4, Typed, PTL DEF Spec, BlockNeedsSecondPerson

-----------------------------------------------------------------------------
(* The components side by side: each keeps to its own specification.       *)

(* What is proved of the override log alone holds beside the others.       *)
LEMMA OverridesAlone == Chains => Spec
<1>1. ChainsInit => Init
  BY DEF ChainsInit
<1>2. [ChainsNext]_<<component, vars, trailState, eventState, logState, orchestratorState>>
      => [Next]_vars
  BY DEF ChainsNext
<1>3. QED
  BY <1>1, <1>2, PTL DEF Chains, Spec

(* The same of the judgment trail.                                         *)
LEMMA TrailAlone == Chains => Trail!Spec
<1>1. ChainsInit => Trail!Init
  BY DEF ChainsInit
<1>2. [ChainsNext]_<<component, vars, trailState, eventState, logState, orchestratorState>>
      => [Trail!Next]_(Trail!trailVars)
  BY DEF ChainsNext, trailState, Trail!trailVars, Trail!consumers, Trail!results
<1>3. QED
  BY <1>1, <1>2, PTL DEF Chains, Trail!Spec

-----------------------------------------------------------------------------
(* The judgment trail's types.                                             *)

TrailTyped ==
    /\ trail \in Seq(Trail!Line \cup {Torn}) /\ trailCut \in BOOLEAN /\ spoiled \in BOOLEAN
    /\ trailCut => trail # <<>>
    /\ DOMAIN row = Judgment /\ DOMAIN snap = Judgment
    /\ step \in [Judgment -> {"new", "read", "captured", "done"}]
    /\ \A j \in Judgment : step[j] \in {"read", "captured"} =>
        /\ row[j] \in Trail!Draft /\ Trail!Accepted(j)
        /\ row[j].payload = [id |-> j, card |-> Trail!Card(Trail!Received(j))]

TrailHash(i) == IF i = 1 THEN Trail!Genesis ELSE trail[i - 1].hash
Flawed(i) == trail[i] = Torn \/ trail[i].prev # TrailHash(i)
(* The file is flawed exactly when a write has spoiled it.                 *)
TrailJudged ==
    /\ \A i \in 1..Len(trail) : trail[i] # Torn => trail[i].hash = Trail!Preimage(trail[i])
    /\ (\E i \in 1..Len(trail) : Flawed(i)) => spoiled
    /\ spoiled => \E i \in 1..Len(trail) : Flawed(i)

Captured(j) == \E b \in Bundle : snap[j] = Trail!Snapshot(b)
(* An event is of a consumer that accepted its intent, captured a snapshot *)
(* and is done.                                                            *)
TrailRests ==
    /\ \A j \in Judgment : step[j] = "captured" => Captured(j)
    /\ \A i \in 1..Len(trail) : trail[i] # Torn =>
        /\ step[trail[i].payload.id] = "done" /\ Trail!Accepted(trail[i].payload.id)
        /\ trail[i].payload.card = Trail!Card(Trail!Received(trail[i].payload.id))
        /\ Captured(trail[i].payload.id)
    /\ \A i, k \in 1..Len(trail) :
        trail[i] # Torn /\ trail[k] # Torn /\ trail[i].payload.id = trail[k].payload.id => i = k

TrailInv == TrailTyped /\ TrailJudged /\ TrailRests

(* What a consumer accepts says one of three sides, in a dry run.          *)
LEMMA AcceptedIntents ==
    ASSUME NEW j \in Judgment, Trail!Accepted(j)
    PROVE  /\ Trail!Received(j).mode = "DRY_RUN"
           /\ Trail!Received(j).side \in {"LONG", "SHORT", "FLAT"}
           /\ Trail!Card(Trail!Received(j)) \in
                [status: {"ACCEPTED", "BLOCKED"}, side: {"LONG", "SHORT", "FLAT"}]
           /\ [id |-> j, card |-> Trail!Card(Trail!Received(j))] \in Trail!Entry
<1>1. PICK intent : intent = Trail!Received(j)
  OBVIOUS
<1>2. intent.mode = "DRY_RUN" /\ intent.side \in {"LONG", "SHORT", "FLAT"}
  BY <1>1 DEF Trail!Accepted, Trail!ConsumerAccepts, Trail!ReadsWell, Trail!Side
<1>3. PICK card : card = Trail!Card(intent)
  OBVIOUS
<1>4. card \in [status: {"ACCEPTED", "BLOCKED"}, side: {"LONG", "SHORT", "FLAT"}]
  BY <1>2, <1>3 DEF Trail!Card
<1>5. QED
  BY <1>1, <1>2, <1>3, <1>4 DEF Trail!Entry

(* What the last line's hash is, where it parses.                          *)
LEMMA TrailHashType ==
    ASSUME TrailTyped, Trail!Readable
    PROVE  Trail!LastHash \in Seq(Seq(Trail!Entry))
<1>1. CASE trail = <<>>
  <2>1. <<>> \in Seq(Seq(Trail!Entry))
    BY EmptySeq
  <2>2. QED
    BY <1>1, <2>1 DEF Trail!LastHash, Trail!Genesis
<1>2. CASE trail # <<>>
  <2>1. trail[Len(trail)] \in Trail!Line
    BY <1>2, EmptySeq, LenProperties DEF TrailTyped, Trail!Readable
  <2>2. QED
    BY <1>2, <2>1 DEF Trail!LastHash, Trail!Line
<1>3. QED
  BY <1>1, <1>2

(* A signed row is a line, with the hash of what it was built from.        *)
LEMMA SignedLine ==
    ASSUME NEW r \in Trail!Draft, NEW sig \in {"signed", "unsigned"}
    PROVE  /\ Trail!Signed(r, sig) \in Trail!Line /\ Trail!Signed(r, sig) # Torn
           /\ Trail!Signed(r, sig).prev = r.prev /\ Trail!Signed(r, sig).payload = r.payload
           /\ Trail!Signed(r, sig).hash = Trail!Preimage(Trail!Signed(r, sig))
<1>1. r.prev \in Seq(Seq(Trail!Entry)) /\ r.payload \in Trail!Entry
  BY DEF Trail!Draft
<1>2. <<r.payload>> \in Seq(Trail!Entry)
  BY <1>1
<1>3. PICK h : h = Trail!Preimage(r)
  OBVIOUS
<1>4. h \in Seq(Seq(Trail!Entry))
  BY <1>1, <1>2, <1>3, AppendProperties DEF Trail!Preimage
<1>5. PICK line : line = Trail!Signed(r, sig)
  OBVIOUS
<1>6. line = [prev |-> r.prev, payload |-> r.payload, hash |-> h, signature |-> sig]
  BY <1>3, <1>5 DEF Trail!Signed
<1>7. line \in Trail!Line /\ line.prev = r.prev /\ line.payload = r.payload /\ line.hash = h
  BY <1>1, <1>4, <1>6 DEF Trail!Line
<1>8. Trail!Preimage(line) = h
  BY <1>3, <1>7 DEF Trail!Preimage
<1>9. QED
  BY <1>5, <1>7, <1>8, TrailAssumption

(* Where text is appended: a line more, or the last line spoiled.          *)
LEMMA TrailExtended ==
    ASSUME TrailTyped, NEW line \in Trail!Line \cup {Torn}, trail' = Trail!Extended(line)
    PROVE  /\ trail' \in Seq(Trail!Line \cup {Torn}) /\ trail' # <<>>
           /\ \E n \in Nat :
                /\ n = Len(trail)
                /\ ~trailCut => /\ Len(trail') = n + 1 /\ trail'[n + 1] = line
                                /\ \A i \in 1..n : trail'[i] = trail[i]
                /\ trailCut  => /\ n \in 1..n /\ Len(trail') = n /\ trail'[n] = Torn
                                /\ \A i \in 1..n : i # n => trail'[i] = trail[i]
<1>1. PICK n \in Nat : n = Len(trail)
  BY LenProperties DEF TrailTyped
<1>2. trail \in Seq(Trail!Line \cup {Torn})
  BY DEF TrailTyped
<1>3. CASE ~trailCut
  <2>1. trail' = Append(trail, line)
    BY <1>3 DEF Trail!Extended
  <2>2. /\ trail' \in Seq(Trail!Line \cup {Torn}) /\ Len(trail') = n + 1
        /\ trail'[n + 1] = line /\ \A i \in 1..n : trail'[i] = trail[i]
    BY <1>1, <1>2, <2>1, AppendProperties
  <2>3. trail' # <<>>
    BY <2>2, EmptySeq
  <2>4. QED
    BY <1>1, <1>3, <2>2, <2>3
<1>4. CASE trailCut
  <2>1. n # 0
    BY <1>1, <1>2, <1>4, EmptySeq DEF TrailTyped
  <2>2. trail' = [trail EXCEPT ![n] = Torn]
    BY <1>1, <1>4 DEF Trail!Extended
  <2>3. n \in 1..n
    BY <2>1
  <2>4. trail' \in Seq(Trail!Line \cup {Torn}) /\ Len(trail') = n
    BY <1>1, <1>2, <2>2, <2>3, ExceptSeq
  <2>5. trail'[n] = Torn /\ \A i \in 1..n : i # n => trail'[i] = trail[i]
    BY <1>1, <1>2, <2>2, <2>3, ExceptSeq
  <2>6. trail' # <<>>
    BY <2>1, <2>4, EmptySeq
  <2>7. QED
    BY <1>1, <1>4, <2>3, <2>4, <2>5, <2>6
<1>5. QED
  BY <1>3, <1>4

(* A write leaves the file flawed exactly if it spoils it or it was.       *)
LEMMA WriteJudged ==
    ASSUME TrailTyped, TrailJudged, NEW line \in Trail!Line \cup {Torn},
           trail' = Trail!Extended(line),
           line # Torn => line.hash = Trail!Preimage(line),
           spoiled \/ line = Torn => spoiled',
           line # Torn => spoiled' = (spoiled \/ trailCut \/ ~Trail!Readable
                                      \/ line.prev # Trail!LastHash)
    PROVE  TrailJudged'
<1>1. PICK n \in Nat :
          /\ n = Len(trail)
          /\ ~trailCut => /\ Len(trail') = n + 1 /\ trail'[n + 1] = line
                          /\ \A i \in 1..n : trail'[i] = trail[i]
          /\ trailCut  => /\ n \in 1..n /\ Len(trail') = n /\ trail'[n] = Torn
                          /\ \A i \in 1..n : i # n => trail'[i] = trail[i]
  BY TrailExtended
<1>2. CASE trailCut
  <2>1. spoiled'
    BY <1>2
  <2>2. n \in 1..Len(trail') /\ Flawed(n)'
    BY <1>1, <1>2 DEF Flawed
  <2>3. \A i \in 1..n : trail'[i] # Torn => trail'[i] = trail[i]
    BY <1>1, <1>2
  <2>4. \A i \in 1..n : trail[i] # Torn => trail[i].hash = Trail!Preimage(trail[i])
    BY <1>1 DEF TrailJudged
  <2>5. \A i \in 1..n : trail'[i] # Torn => trail'[i].hash = Trail!Preimage(trail'[i])
    BY <2>3, <2>4 DEF Trail!Preimage
  <2>6. Len(trail') = n
    BY <1>1, <1>2
  <2>7. QED
    BY <2>1, <2>2, <2>5, <2>6 DEF TrailJudged, Trail!Preimage
<1>3. CASE ~trailCut
  <2>1. /\ Len(trail') = n + 1 /\ trail'[n + 1] = line
        /\ \A i \in 1..n : trail'[i] = trail[i]
    BY <1>1, <1>3
  <2>2. \A i \in 1..n : trail[i] # Torn => trail[i].hash = Trail!Preimage(trail[i])
    BY <1>1 DEF TrailJudged
  <2>3. ASSUME NEW i \in 1..(n + 1), trail'[i] # Torn
        PROVE  trail'[i].hash = Trail!Preimage(trail'[i])
    <3>1. CASE i = n + 1
      BY <2>1, <2>3, <3>1 DEF Trail!Preimage
    <3>2. CASE i # n + 1
      <4>1. i \in 1..n
        BY <3>2
      <4>2. trail'[i] = trail[i]
        BY <2>1, <4>1
      <4>3. QED
        BY <2>2, <2>3, <4>1, <4>2 DEF Trail!Preimage
    <3>3. QED
      BY <3>1, <3>2
  <2>4. \A i \in 1..n : Flawed(i) => Flawed(i)'
    <3>1. SUFFICES ASSUME NEW i \in 1..n, Flawed(i) PROVE Flawed(i)'
      OBVIOUS
    <3>2. trail'[i] = trail[i]
      BY <2>1
    <3>3. i # 1 => i - 1 \in 1..n
      OBVIOUS
    <3>4. i # 1 => trail'[i - 1] = trail[i - 1]
      BY <2>1, <3>3
    <3>5. QED
      BY <3>1, <3>2, <3>4 DEF Flawed, TrailHash
  <2>5. \A i \in 1..n : Flawed(i)' => Flawed(i)
    <3>1. SUFFICES ASSUME NEW i \in 1..n, Flawed(i)' PROVE Flawed(i)
      OBVIOUS
    <3>2. trail'[i] = trail[i]
      BY <2>1
    <3>3. i # 1 => i - 1 \in 1..n
      OBVIOUS
    <3>4. i # 1 => trail'[i - 1] = trail[i - 1]
      BY <2>1, <3>3
    <3>5. QED
      BY <3>1, <3>2, <3>4 DEF Flawed, TrailHash
  <2>6. n # 0 => trail # <<>> /\ n \in 1..n /\ trail'[n] = trail[n]
    <3>1. n # 0 => n \in 1..n
      OBVIOUS
    <3>2. n # 0 => trail # <<>>
      BY <1>1, EmptySeq
    <3>3. QED
      BY <2>1, <3>1, <3>2
  <2>7. n = 0 => trail = <<>>
    BY <1>1, EmptySeq DEF TrailTyped
  <2>8. TrailHash(n + 1)' = Trail!LastHash
    <3>1. CASE n = 0
      BY <2>7, <3>1 DEF TrailHash, Trail!LastHash
    <3>2. CASE n # 0
      <4>1. n + 1 # 1 /\ (n + 1) - 1 = n
        BY <3>2
      <4>2. TrailHash(n + 1)' = trail'[n].hash
        BY <4>1 DEF TrailHash
      <4>3. QED
        BY <1>1, <2>6, <3>2, <4>2 DEF Trail!LastHash
    <3>3. QED
      BY <3>1, <3>2
  <2>9. Flawed(n + 1)' <=> line = Torn \/ line.prev # Trail!LastHash
    BY <2>1, <2>8 DEF Flawed
  <2>10. ~Trail!Readable => \E i \in 1..n : Flawed(i)
    BY <1>1, <2>6, <2>7 DEF Trail!Readable, Flawed
  <2>11. (\E i \in 1..n : Flawed(i)) <=> spoiled
    BY <1>1 DEF TrailJudged
  <2>12. (\E i \in 1..(n + 1) : Flawed(i)') => spoiled'
    <3>1. SUFFICES ASSUME NEW i \in 1..(n + 1), Flawed(i)' PROVE spoiled'
      OBVIOUS
    <3>2. CASE i = n + 1
      BY <2>9, <3>1, <3>2
    <3>3. CASE i # n + 1
      <4>1. i \in 1..n
        BY <3>3
      <4>2. QED
        BY <2>5, <2>11, <3>1, <4>1
    <3>4. QED
      BY <3>2, <3>3
  <2>13. spoiled' => \E i \in 1..(n + 1) : Flawed(i)'
    <3>1. n + 1 \in 1..(n + 1) /\ \A i \in 1..n : i \in 1..(n + 1)
      OBVIOUS
    <3>2. (\E i \in 1..n : Flawed(i)) => \E i \in 1..(n + 1) : Flawed(i)'
      BY <2>4, <3>1
    <3>3. CASE line = Torn
      BY <2>9, <3>1, <3>3
    <3>4. CASE line # Torn
      BY <1>3, <2>9, <2>10, <2>11, <3>1, <3>2, <3>4
    <3>5. QED
      BY <3>3, <3>4
  <2>14. QED
    BY <2>1, <2>3, <2>12, <2>13 DEF TrailJudged, Trail!Preimage
<1>4. QED
  BY <1>2, <1>3

(* A consumer that writes, whole or in part, is done: its event is its     *)
(* only one, and rests on the snapshot it captured.                        *)
LEMMA WriteRests ==
    ASSUME TrailTyped, TrailRests, NEW j \in Judgment, step[j] = "captured",
           step' = [step EXCEPT ![j] = "done"], UNCHANGED <<given, snap>>,
           NEW line \in Trail!Line \cup {Torn}, trail' = Trail!Extended(line),
           line # Torn => line.payload = row[j].payload
    PROVE  TrailRests'
<1>1. PICK n \in Nat :
          /\ n = Len(trail)
          /\ ~trailCut => /\ Len(trail') = n + 1 /\ trail'[n + 1] = line
                          /\ \A i \in 1..n : trail'[i] = trail[i]
          /\ trailCut  => /\ n \in 1..n /\ Len(trail') = n /\ trail'[n] = Torn
                          /\ \A i \in 1..n : i # n => trail'[i] = trail[i]
  BY TrailExtended
<1>2. /\ \A k : Captured(k)' <=> Captured(k)
      /\ \A k : Trail!Received(k)' = Trail!Received(k)
      /\ \A k : Trail!Accepted(k)' <=> Trail!Accepted(k)
  BY DEF Captured, Trail!Received, Trail!Accepted
<1>3. \A k \in Judgment : step'[k] = IF k = j THEN "done" ELSE step[k]
  BY DEF TrailTyped
<1>4. Captured(j) /\ Trail!Accepted(j)
      /\ row[j].payload = [id |-> j, card |-> Trail!Card(Trail!Received(j))]
  BY DEF TrailRests, TrailTyped
<1>5. \A k \in 1..n : trail[k] # Torn => trail[k].payload.id \in Judgment
                                        /\ trail[k].payload.id # j
  <2>1. SUFFICES ASSUME NEW k \in 1..n, trail[k] # Torn
                 PROVE  trail[k].payload.id \in Judgment /\ trail[k].payload.id # j
    OBVIOUS
  <2>2. trail[k] \in Trail!Line
    BY <1>1, <2>1 DEF TrailTyped
  <2>3. trail[k].payload \in Trail!Entry
    BY <2>2 DEF Trail!Line
  <2>4. trail[k].payload.id \in Judgment
    BY <2>3 DEF Trail!Entry
  <2>5. step[trail[k].payload.id] = "done"
    BY <1>1, <2>1 DEF TrailRests
  <2>6. QED
    BY <2>4, <2>5
\* A line of the new file is an old one or the new one.
<1>6. \A k \in 1..Len(trail') : trail'[k] # Torn =>
          \/ k \in 1..n /\ trail'[k] = trail[k]
          \/ k = n + 1 /\ ~trailCut /\ trail'[k] = line
  <2>1. CASE trailCut
    BY <1>1, <2>1
  <2>2. CASE ~trailCut
    <3>1. \A k \in 1..(n + 1) : k \in 1..n \/ k = n + 1
      OBVIOUS
    <3>2. QED
      BY <1>1, <2>2, <3>1
  <2>3. QED
    BY <2>1, <2>2
<1>7. ASSUME NEW k \in 1..Len(trail'), trail'[k] # Torn
      PROVE  \E e : /\ e = trail'[k].payload /\ step'[e.id] = "done" /\ Trail!Accepted(e.id)
                    /\ e.card = Trail!Card(Trail!Received(e.id)) /\ Captured(e.id)
                    /\ e.id = j <=> k = n + 1
  <2>1. CASE k \in 1..n /\ trail'[k] = trail[k]
    <3>1. PICK e : e = trail[k].payload /\ e = trail'[k].payload
      BY <2>1
    <3>2. e.id \in Judgment /\ e.id # j
      BY <1>5, <1>7, <2>1, <3>1
    <3>3. /\ step[e.id] = "done" /\ Trail!Accepted(e.id)
          /\ e.card = Trail!Card(Trail!Received(e.id)) /\ Captured(e.id)
      BY <1>1, <1>7, <2>1, <3>1 DEF TrailRests
    <3>4. step'[e.id] = "done"
      BY <1>3, <3>2, <3>3
    <3>5. k # n + 1
      BY <2>1
    <3>6. QED
      BY <3>1, <3>2, <3>3, <3>4, <3>5
  <2>2. CASE k = n + 1 /\ trail'[k] = line
    <3>1. PICK e : e = row[j].payload /\ e = trail'[k].payload
      BY <1>7, <2>2
    <3>2. e.id = j /\ e.card = Trail!Card(Trail!Received(j))
      BY <1>4, <3>1
    <3>3. step'[e.id] = "done"
      BY <1>3, <3>2
    <3>4. QED
      BY <1>4, <2>2, <3>1, <3>2, <3>3
  <2>3. QED
    BY <1>6, <1>7, <2>1, <2>2
<1>8. \A k \in Judgment : step'[k] = "captured" => Captured(k)'
  BY <1>2, <1>3 DEF TrailRests
<1>9. ASSUME NEW k \in 1..Len(trail'), trail'[k] # Torn
      PROVE  /\ (step[trail[k].payload.id] = "done")'
             /\ Trail!Accepted(trail[k].payload.id)'
             /\ (trail[k].payload.card = Trail!Card(Trail!Received(trail[k].payload.id)))'
             /\ Captured(trail[k].payload.id)'
  <2>1. PICK e : /\ e = trail'[k].payload /\ step'[e.id] = "done" /\ Trail!Accepted(e.id)
                 /\ e.card = Trail!Card(Trail!Received(e.id)) /\ Captured(e.id)
    BY <1>7, <1>9
  <2>2. Trail!Accepted(e.id)' /\ Captured(e.id)' /\ Trail!Received(e.id)' = Trail!Received(e.id)
    BY <1>2, <2>1
  <2>3. QED
    BY <2>1, <2>2 DEF Captured, Trail!Accepted, Trail!Received
<1>10. ASSUME NEW i \in 1..Len(trail'), NEW k \in 1..Len(trail'), trail'[i] # Torn,
              trail'[k] # Torn, trail'[i].payload.id = trail'[k].payload.id
       PROVE  i = k
  <2>1. i = n + 1 <=> k = n + 1
    BY <1>7, <1>10
  <2>2. CASE i = n + 1
    BY <2>1, <2>2
  <2>3. CASE i # n + 1
    <3>1. /\ i \in 1..n /\ trail'[i] = trail[i] /\ k \in 1..n /\ trail'[k] = trail[k]
      BY <1>6, <1>10, <2>1, <2>3
    <3>2. QED
      BY <1>1, <1>10, <3>1 DEF TrailRests
  <2>4. QED
    BY <2>2, <2>3
<1>11. QED
  BY <1>8, <1>9, <1>10 DEF TrailRests

(* Where no line and no snapshot is written and nobody is done who was not.*)
LEMMA TrailStays ==
    ASSUME TrailInv, UNCHANGED <<given, trail, spoiled>>, TrailTyped',
           \A j \in Judgment : step[j] = "done" => step'[j] = "done" /\ snap'[j] = snap[j],
           \A j \in Judgment : step'[j] = "captured" => Captured(j)'
    PROVE  TrailInv'
<1>1. TrailJudged'
  <2>1. \A i : Flawed(i)' <=> Flawed(i)
    BY DEF Flawed, TrailHash
  <2>2. QED
    BY <2>1 DEF TrailInv, TrailJudged, Trail!Preimage
<1>2. ASSUME NEW i \in 1..Len(trail), trail[i] # Torn
      PROVE  /\ (step[trail[i].payload.id] = "done")'
             /\ Trail!Accepted(trail[i].payload.id)'
             /\ (trail[i].payload.card = Trail!Card(Trail!Received(trail[i].payload.id)))'
             /\ Captured(trail[i].payload.id)'
  <2>1. PICK e : e = trail[i].payload
    OBVIOUS
  <2>2. trail[i] \in Trail!Line
    BY <1>2 DEF TrailInv, TrailTyped
  <2>3. e \in Trail!Entry
    BY <2>1, <2>2 DEF Trail!Line
  <2>4. e.id \in Judgment
    BY <2>3 DEF Trail!Entry
  <2>5. /\ step[e.id] = "done" /\ Trail!Accepted(e.id) /\ Captured(e.id)
        /\ e.card = Trail!Card(Trail!Received(e.id))
    BY <1>2, <2>1 DEF TrailInv, TrailRests
  <2>6. step'[e.id] = "done" /\ snap'[e.id] = snap[e.id]
    BY <2>4, <2>5
  <2>7. /\ Captured(e.id)' /\ Trail!Accepted(e.id)'
        /\ e.card = Trail!Card(Trail!Received(e.id)')
    BY <2>5, <2>6 DEF Captured, Trail!Accepted, Trail!Received
  <2>8. e = trail'[i].payload
    BY <2>1
  <2>9. QED
    BY <2>6, <2>7, <2>8 DEF Captured, Trail!Accepted, Trail!Received
<1>3. TrailRests'
  BY <1>2 DEF TrailInv, TrailRests
<1>4. QED
  BY <1>1, <1>3 DEF TrailInv

LEMMA RefuseSound ==
    ASSUME TrailInv, NEW j \in Judgment, Trail!Refuse(j)
    PROVE  TrailInv'
<1>1. /\ step' = [step EXCEPT ![j] = "done"] /\ step[j] = "new"
      /\ UNCHANGED <<given, snap, trail, trailCut, row, spoiled>>
  BY DEF Trail!Refuse, Trail!Turn
<1>2. \A k \in Judgment : step'[k] = IF k = j THEN "done" ELSE step[k]
  BY <1>1 DEF TrailInv, TrailTyped
<1>3. TrailTyped'
  BY <1>1, <1>2 DEF TrailInv, TrailTyped, Trail!Accepted, Trail!Received
<1>4. \A k \in Judgment : step'[k] = "captured" => Captured(k)'
  BY <1>1, <1>2 DEF TrailInv, TrailRests, Captured
<1>5. QED
  BY <1>1, <1>2, <1>3, <1>4, TrailStays

LEMMA ReadLastSound ==
    ASSUME TrailInv, NEW j \in Judgment, Trail!ReadLast(j)
    PROVE  TrailInv'
<1>1. /\ step[j] = "new" /\ Trail!Accepted(j) /\ Trail!Readable
      /\ step' = [step EXCEPT ![j] = "read"]
      /\ UNCHANGED <<given, snap, trail, trailCut, spoiled>>
  BY DEF Trail!ReadLast, Trail!Turn
<1>2. PICK e : e = [id |-> j, card |-> Trail!Card(Trail!Received(j))]
  OBVIOUS
<1>3. e \in Trail!Entry
  BY <1>1, <1>2, AcceptedIntents
<1>4. PICK h : h = Trail!LastHash
  OBVIOUS
<1>5. h \in Seq(Seq(Trail!Entry))
  BY <1>1, <1>4, TrailHashType DEF TrailInv
<1>6. PICK draft_ : draft_ = [prev |-> h, payload |-> e]
  OBVIOUS
<1>7. draft_ \in Trail!Draft /\ draft_.payload = e
  BY <1>3, <1>5, <1>6 DEF Trail!Draft
<1>8. row' = [row EXCEPT ![j] = draft_]
  BY <1>2, <1>4, <1>6 DEF Trail!ReadLast
<1>9. \A k \in Judgment :
        /\ step'[k] = IF k = j THEN "read" ELSE step[k]
        /\ row'[k] = IF k = j THEN draft_ ELSE row[k]
  BY <1>1, <1>8 DEF TrailInv, TrailTyped
<1>10. \A k : Trail!Accepted(k)' <=> Trail!Accepted(k)
  BY <1>1 DEF Trail!Accepted, Trail!Received
<1>11. \A k \in Judgment : step'[k] \in {"read", "captured"} =>
          /\ row'[k] \in Trail!Draft /\ Trail!Accepted(k)
          /\ row'[k].payload = [id |-> k, card |-> Trail!Card(Trail!Received(k))]
  BY <1>1, <1>2, <1>7, <1>9 DEF TrailInv, TrailTyped
<1>12. TrailTyped'
  <2>1. /\ trail' \in Seq(Trail!Line \cup {Torn}) /\ trailCut' \in BOOLEAN
        /\ spoiled' \in BOOLEAN
        /\ trailCut' => trail' # <<>>
    BY <1>1 DEF TrailInv, TrailTyped
  <2>2. DOMAIN row' = Judgment /\ DOMAIN snap' = Judgment
        /\ step' \in [Judgment -> {"new", "read", "captured", "done"}]
    BY <1>1, <1>8 DEF TrailInv, TrailTyped
  <2>3. \A k : Trail!Received(k)' = Trail!Received(k)
    BY <1>1 DEF Trail!Received
  <2>4. \A k \in Judgment : step'[k] \in {"read", "captured"} =>
          /\ row'[k] \in Trail!Draft /\ Trail!Accepted(k)'
          /\ row'[k].payload = [id |-> k, card |-> Trail!Card(Trail!Received(k)')]
    BY <1>10, <1>11, <2>3
  <2>5. QED
    BY <2>1, <2>2, <2>4 DEF TrailTyped
<1>13. \A k \in Judgment : step'[k] = "captured" => Captured(k)'
  BY <1>1, <1>9 DEF TrailInv, TrailRests, Captured
<1>14. \A k \in Judgment : step[k] = "done" => step'[k] = "done" /\ snap'[k] = snap[k]
  BY <1>1, <1>9
<1>15. QED
  BY <1>1, <1>12, <1>13, <1>14, TrailStays

LEMMA CaptureSound ==
    ASSUME TrailInv, NEW j \in Judgment, Trail!Capture(j)
    PROVE  TrailInv'
<1>1. /\ step[j] = "read" /\ step' = [step EXCEPT ![j] = "captured"]
      /\ UNCHANGED <<given, trail, trailCut, row, spoiled>>
  BY DEF Trail!Capture
<1>2. PICK b \in Bundle : snap' = [snap EXCEPT ![j] = Trail!Snapshot(b)]
  BY DEF Trail!Capture
<1>3. /\ \A k \in Judgment : step'[k] = IF k = j THEN "captured" ELSE step[k]
      /\ \A k \in Judgment : snap'[k] = IF k = j THEN Trail!Snapshot(b) ELSE snap[k]
  BY <1>1, <1>2 DEF TrailInv, TrailTyped
<1>4. TrailTyped'
  BY <1>1, <1>2, <1>3 DEF TrailInv, TrailTyped, Trail!Accepted, Trail!Received
<1>5. \A k \in Judgment : step'[k] = "captured" => Captured(k)'
  BY <1>3 DEF TrailInv, TrailRests, Captured
<1>6. \A k \in Judgment : step[k] = "done" => step'[k] = "done" /\ snap'[k] = snap[k]
  BY <1>1, <1>3
<1>7. QED
  BY <1>1, <1>4, <1>5, <1>6, TrailStays

(* A consumer that is done, whatever it left of the file.                  *)
LEMMA DoneTyped ==
    ASSUME TrailInv, NEW j \in Judgment, step' = [step EXCEPT ![j] = "done"],
           row' = [row EXCEPT ![j] = Null], UNCHANGED <<given, snap>>,
           trail' \in Seq(Trail!Line \cup {Torn}), trailCut' \in BOOLEAN,
           spoiled' \in BOOLEAN, trailCut' => trail' # <<>>
    PROVE  TrailTyped'
<1>1. \A k \in Judgment :
        /\ step'[k] = IF k = j THEN "done" ELSE step[k]
        /\ row'[k] = IF k = j THEN Null ELSE row[k]
  BY DEF TrailInv, TrailTyped
<1>2. \A k \in Judgment : step'[k] \in {"read", "captured"} =>
          /\ row'[k] \in Trail!Draft /\ Trail!Accepted(k)
          /\ row'[k].payload = [id |-> k, card |-> Trail!Card(Trail!Received(k))]
  BY <1>1 DEF TrailInv, TrailTyped
<1>3. /\ \A k : Trail!Received(k)' = Trail!Received(k)
      /\ \A k : Trail!Accepted(k)' <=> Trail!Accepted(k)
  BY DEF Trail!Received, Trail!Accepted
<1>4. DOMAIN row' = Judgment /\ DOMAIN snap' = Judgment
      /\ step' \in [Judgment -> {"new", "read", "captured", "done"}]
  BY DEF TrailInv, TrailTyped
<1>5. QED
  BY <1>2, <1>3, <1>4 DEF TrailTyped

LEMMA AppendEventSound ==
    ASSUME TrailInv, NEW j \in Judgment, Trail!AppendEvent(j)
    PROVE  TrailInv'
<1>1. /\ step[j] = "captured" /\ step' = [step EXCEPT ![j] = "done"]
      /\ row' = [row EXCEPT ![j] = Null] /\ UNCHANGED <<given, snap>>
      /\ trailCut' = FALSE /\ spoiled' = (spoiled \/ Trail!Damages(j))
  BY DEF Trail!AppendEvent
<1>2. PICK config \in Trail!Config :
          trail' = Trail!Extended(Trail!Signed(row[j], Trail!SignatureBy(config)))
  BY DEF Trail!AppendEvent
<1>3. Trail!SignatureBy(config) \in {"signed", "unsigned"}
  BY DEF Trail!SignatureBy
<1>4. row[j] \in Trail!Draft
  BY <1>1 DEF TrailInv, TrailTyped
<1>5. PICK line : line = Trail!Signed(row[j], Trail!SignatureBy(config))
  OBVIOUS
<1>6. /\ line \in Trail!Line /\ line # Torn /\ line.prev = row[j].prev
      /\ line.payload = row[j].payload /\ line.hash = Trail!Preimage(line)
  BY <1>3, <1>4, <1>5, SignedLine
<1>7. trail' = Trail!Extended(line)
  BY <1>2, <1>5
<1>8. trail' \in Seq(Trail!Line \cup {Torn}) /\ trail' # <<>>
  BY <1>6, <1>7, TrailExtended DEF TrailInv
<1>9. spoiled' \in BOOLEAN
  BY <1>1 DEF TrailInv, TrailTyped
<1>10. TrailTyped'
  BY <1>1, <1>8, <1>9, DoneTyped
<1>11. TrailRests'
  BY <1>1, <1>6, <1>7, WriteRests DEF TrailInv
<1>12. spoiled' = (spoiled \/ trailCut \/ ~Trail!Readable \/ line.prev # Trail!LastHash)
  BY <1>1, <1>6 DEF Trail!Damages
<1>13. TrailJudged'
  BY <1>6, <1>7, <1>12, WriteJudged DEF TrailInv
<1>14. QED
  BY <1>10, <1>11, <1>13 DEF TrailInv

LEMMA TrailStopSound ==
    ASSUME TrailInv, NEW j \in Judgment, Trail!Stop(j)
    PROVE  TrailInv'
<1>1. /\ step' = [step EXCEPT ![j] = "done"] /\ row' = [row EXCEPT ![j] = Null]
      /\ UNCHANGED <<given, snap>>
  BY DEF Trail!Stop
<1>2. CASE UNCHANGED <<trail, trailCut, spoiled>>
  <2>1. TrailTyped'
    BY <1>1, <1>2, DoneTyped DEF TrailInv, TrailTyped
  <2>2. \A k \in Judgment : step'[k] = IF k = j THEN "done" ELSE step[k]
    BY <1>1 DEF TrailInv, TrailTyped
  <2>3. \A k \in Judgment : step'[k] = "captured" => Captured(k)'
    BY <1>1, <2>2 DEF TrailInv, TrailRests, Captured
  <2>4. QED
    BY <1>1, <1>2, <2>1, <2>2, <2>3, TrailStays
<1>3. CASE ~UNCHANGED <<trail, trailCut, spoiled>>
  <2>1. step[j] = "captured"
    BY <1>3 DEF Trail!Stop
  <2>2. PICK line \in {Trail!Signed(row[j], "unsigned"), Torn} :
            /\ trail' = Trail!Extended(line) /\ trailCut' = TRUE
            /\ spoiled' = (spoiled \/ line = Torn \/ Trail!Damages(j))
    BY <1>3 DEF Trail!Stop
  <2>3. row[j] \in Trail!Draft
    BY <2>1 DEF TrailInv, TrailTyped
  <2>4. /\ line \in Trail!Line \cup {Torn}
        /\ line # Torn => /\ line.prev = row[j].prev /\ line.payload = row[j].payload
                          /\ line.hash = Trail!Preimage(line)
    <3>1. CASE line = Torn
      BY <3>1
    <3>2. CASE line = Trail!Signed(row[j], "unsigned")
      BY <2>3, <3>2, SignedLine
    <3>3. QED
      BY <2>2, <3>1, <3>2
  <2>5. trail' \in Seq(Trail!Line \cup {Torn}) /\ trail' # <<>>
    BY <2>2, <2>4, TrailExtended DEF TrailInv
  <2>6. spoiled' \in BOOLEAN /\ trailCut' \in BOOLEAN
    BY <2>2 DEF TrailInv, TrailTyped
  <2>7. TrailTyped'
    BY <1>1, <2>5, <2>6, DoneTyped
  <2>8. TrailRests'
    BY <1>1, <2>1, <2>2, <2>4, WriteRests DEF TrailInv
  <2>9. /\ spoiled \/ line = Torn => spoiled'
        /\ line # Torn => spoiled' = (spoiled \/ trailCut \/ ~Trail!Readable
                                      \/ line.prev # Trail!LastHash)
    BY <2>2, <2>4 DEF Trail!Damages
  <2>10. TrailJudged'
    BY <2>2, <2>4, <2>9, WriteJudged DEF TrailInv
  <2>11. QED
    BY <2>7, <2>8, <2>10 DEF TrailInv
<1>4. QED
  BY <1>2, <1>3

LEMMA TrailUnmoved ==
    ASSUME TrailInv, UNCHANGED <<given, snap, trail, trailCut, row, step, spoiled>>
    PROVE  TrailInv'
<1>1. TrailTyped'
  BY DEF TrailInv, TrailTyped, Trail!Accepted, Trail!Received
<1>2. \A k \in Judgment : step'[k] = "captured" => Captured(k)'
  BY DEF TrailInv, TrailRests, Captured
<1>3. QED
  BY <1>1, <1>2, TrailStays

LEMMA TrailSound == Trail!Spec => []TrailInv
<1>1. Trail!Init => TrailInv
  <2> SUFFICES ASSUME Trail!Init PROVE TrailInv
    OBVIOUS
  <2>2. trail = <<>> /\ trail \in Seq(Trail!Line \cup {Torn}) /\ Len(trail) = 0
    BY EmptySeq DEF Trail!Init
  <2>3. TrailTyped
    BY <2>2 DEF Trail!Init, TrailTyped
  <2>4. TrailJudged /\ TrailRests
    BY <2>2 DEF Trail!Init, TrailJudged, TrailRests
  <2>5. QED
    BY <2>3, <2>4 DEF TrailInv
<1>2. TrailInv /\ [Trail!Next]_(Trail!trailVars) => TrailInv'
  <2> SUFFICES ASSUME TrailInv, [Trail!Next]_(Trail!trailVars) PROVE TrailInv'
    OBVIOUS
  <2>1. ASSUME NEW j \in Judgment, Trail!Refuse(j) PROVE TrailInv'
    BY <2>1, RefuseSound
  <2>2. ASSUME NEW j \in Judgment, Trail!ReadLast(j) PROVE TrailInv'
    BY <2>2, ReadLastSound
  <2>3. ASSUME NEW j \in Judgment, Trail!Capture(j) PROVE TrailInv'
    BY <2>3, CaptureSound
  <2>4. ASSUME NEW j \in Judgment, Trail!AppendEvent(j) PROVE TrailInv'
    BY <2>4, AppendEventSound
  <2>5. ASSUME NEW j \in Judgment, Trail!Stop(j) PROVE TrailInv'
    BY <2>5, TrailStopSound
  <2>6. CASE UNCHANGED Trail!consumers
    BY <2>6, TrailUnmoved DEF Trail!consumers
  <2>7. \/ \E j \in Judgment : Trail!Refuse(j) \/ Trail!ReadLast(j) \/ Trail!Capture(j)
                               \/ Trail!AppendEvent(j) \/ Trail!Stop(j)
        \/ UNCHANGED Trail!consumers
    BY DEF Trail!Next, Trail!Truncate, Trail!Record, Trail!BeginReport, Trail!Join,
           Trail!EndReport, Trail!trailVars
  <2>8. QED
    BY <2>1, <2>2, <2>3, <2>4, <2>5, <2>6, <2>7
<1>3. QED
  BY <1>1, <1>2, PTL DEF Trail!Spec

(* VerifierFindsDamage: however many consumers overlap or stop, whatever   *)
(* is signed, the verifier accepts the file exactly if every row was       *)
(* written whole and right after the row that it was built on.             *)
THEOREM FindsDamage == Chains => []VerifierFindsDamage
<1>1. TrailInv => VerifierFindsDamage
  BY DEF TrailInv, TrailJudged, Flawed, TrailHash, VerifierFindsDamage,
     Trail!VerifierFindsDamage, Trail!Accepts
<1>2. QED
  BY <1>1, TrailSound, TrailAlone, PTL

(* Numbers are filled in only where all the evidence is there.             *)
LEMMA NumbersNeedEvidence ==
    ASSUME NEW b \in Bundle, NEW s, s = Trail!Snapshot(b)
    PROVE  (\E tf \in Trail!Timeframes(s.of) : s.numbers[tf] # {}) \/ s.derivatives # {} =>
                /\ Trail!Derivatives \subseteq s.derivatives
                /\ \A tf \in Trail!Timeframes(s.of) :
                    /\ s.of.candles[tf] \in {"short", "fair", "good"}
                    /\ "price" \in s.numbers[tf]
                    /\ tf = Trail!BaseTf(s.of) => {"ema20", "rsi14"} \subseteq s.numbers[tf]
<1>1. s.of = b /\ s.numbers = Trail!Filled(b) /\ s.derivatives = Trail!DerivativesFilled(b)
  BY DEF Trail!Snapshot
<1>2. CASE ~Trail!EvidenceOk(b)
  <2>1. \A tf \in Trail!Timeframes(b) : s.numbers[tf] = {}
    BY <1>1, <1>2 DEF Trail!Filled
  <2>2. s.derivatives = {}
    BY <1>1, <1>2 DEF Trail!DerivativesFilled
  <2>3. QED
    BY <1>1, <2>1, <2>2
<1>3. CASE Trail!EvidenceOk(b)
  <2>1. Trail!RawErrors(b) = {}
    <3>1. ASSUME NEW e \in Trail!RawErrors(b) PROVE FALSE
      <4>1. [error |-> e, severity |-> "error"] \in Trail!ProofErrors(b)
        BY <3>1 DEF Trail!ProofErrors
      <4>2. QED
        BY <1>3, <4>1 DEF Trail!EvidenceOk
    <3>2. QED
      BY <3>1
  <2>2. Trail!Derivatives \subseteq b.derivatives
    BY <2>1 DEF Trail!RawErrors, Trail!Unparsed
  <2>3. Trail!Derivatives \subseteq s.derivatives
    BY <1>1, <1>3, <2>2 DEF Trail!DerivativesFilled
  <2>4. ASSUME NEW tf \in Trail!Timeframes(b)
        PROVE  /\ b.candles[tf] \in {"short", "fair", "good"} /\ "price" \in s.numbers[tf]
               /\ tf = Trail!BaseTf(b) => {"ema20", "rsi14"} \subseteq s.numbers[tf]
    <3>1. b.candles[tf] \in {"error", "malformed", "old", "short", "fair", "good"}
      BY <2>4, TrailAssumption DEF Trail!Timeframes, Trail!Fetched
    <3>2. /\ Trail!Pruned(b)[tf] # "none"
          /\ Trail!Pruned(b)[tf] = IF Trail!Candles(b)[tf] = "old" THEN "none"
                                   ELSE Trail!Candles(b)[tf]
      BY <1>3, <2>4 DEF Trail!EvidenceOk, Trail!Pruned
    <3>3. Trail!Candles(b)[tf] = IF b.candles[tf] = "error" THEN "none"
                                 ELSE Trail!ParsedRows(b.candles[tf])
      BY <2>4 DEF Trail!Candles
    <3>4. b.candles[tf] \in {"short", "fair", "good"}
      BY <3>1, <3>2, <3>3 DEF Trail!ParsedRows
    <3>5. s.numbers[tf] = Trail!Price(Trail!Pruned(b)[tf]) \cup Trail!Indicators(b)[tf]
                          \cup Trail!Vwap(Trail!Pruned(b)[tf])
      BY <1>1, <1>3, <2>4 DEF Trail!Filled
    <3>6. "price" \in s.numbers[tf]
      BY <3>2, <3>5 DEF Trail!Price
    <3>7. Trail!Indicators(b)[tf] = Trail!Ema(Trail!Pruned(b)[tf])
      BY <2>4 DEF Trail!Indicators
    <3>8. tf = Trail!BaseTf(b) => Trail!Indicators(b)[tf] # {}
      BY <1>3 DEF Trail!EvidenceOk
    <3>9. tf = Trail!BaseTf(b) => Trail!Indicators(b)[tf] = {"ema20", "rsi14"}
      BY <3>7, <3>8 DEF Trail!Ema
    <3>10. QED
      BY <3>4, <3>5, <3>6, <3>9
  <2>5. QED
    BY <1>1, <2>3, <2>4
<1>4. QED
  BY <1>2, <1>3

(* EventsHaveTheirSnapshot: for any judgments, intents and answers of the  *)
(* exchange, an event is of an accepted dry run, and its snapshot is there *)
(* and holds numbers only with all the evidence.                           *)
THEOREM HaveSnapshot == Chains => []EventsHaveTheirSnapshot
<1>1. ASSUME TrailInv PROVE EventsHaveTheirSnapshot
  <2>1. ASSUME NEW i \in 1..Len(trail), trail[i] # Torn, NEW j, j = trail[i].payload.id,
               NEW s, s = snap[j]
        PROVE  /\ Trail!Received(j).mode = "DRY_RUN"
               /\ trail[i].payload.card.status = "ACCEPTED" =>
                    Trail!Received(j).side \in {"LONG", "SHORT"}
               /\ s # Null
               /\ (\E tf \in Trail!Timeframes(s.of) : s.numbers[tf] # {}) \/ s.derivatives # {} =>
                    /\ Trail!Derivatives \subseteq s.derivatives
                    /\ \A tf \in Trail!Timeframes(s.of) :
                        /\ s.of.candles[tf] \in {"short", "fair", "good"}
                        /\ "price" \in s.numbers[tf]
                        /\ tf = Trail!BaseTf(s.of) =>
                            {"ema20", "rsi14"} \subseteq s.numbers[tf]
    <3>1. trail[i] \in Trail!Line
      BY <1>1, <2>1 DEF TrailInv, TrailTyped
    <3>2. trail[i].payload \in Trail!Entry
      BY <3>1 DEF Trail!Line
    <3>3. j \in Judgment
      BY <2>1, <3>2 DEF Trail!Entry
    <3>4. /\ Trail!Accepted(j) /\ trail[i].payload.card = Trail!Card(Trail!Received(j))
          /\ Captured(j)
      BY <1>1, <2>1 DEF TrailInv, TrailRests
    <3>5. /\ Trail!Received(j).mode = "DRY_RUN"
          /\ Trail!Received(j).side \in {"LONG", "SHORT", "FLAT"}
      BY <3>3, <3>4, AcceptedIntents
    <3>6. Trail!Received(j).side = "FLAT" => trail[i].payload.card.status = "BLOCKED"
      BY <3>4 DEF Trail!Card
    <3>7. PICK b \in Bundle : s = Trail!Snapshot(b)
      BY <2>1, <3>4 DEF Captured
    <3>8. s # Null
      BY <3>7, TrailAssumption
    <3>9. QED
      BY <3>5, <3>6, <3>7, <3>8, NumbersNeedEvidence
  <2>2. QED
    BY <2>1 DEF EventsHaveTheirSnapshot, Trail!EventsHaveTheirSnapshot
<1>2. QED
  BY <1>1, TrailSound, TrailAlone, PTL

-----------------------------------------------------------------------------
(* The report of outcomes.                                                 *)

ReportInv ==
    /\ outcome \in [Judgment -> Label \cup {Null, Torn}]
    /\ before \subseteq Judgment /\ \A j \in before : outcome[j] # Null
    /\ \A j \in Judgment : outcome[j] \notin {Null, Torn} => <<j, outcome[j]>> \in recorded
    /\ report # Null =>
        /\ report \in [events: Seq(Judgment), joined: Seq(Label \cup {Null})]
        /\ Len(report.joined) <= Len(report.events)
        /\ \A i \in 1..Len(report.joined) :
            IF report.joined[i] = Null THEN report.events[i] \notin before
            ELSE <<report.events[i], report.joined[i]>> \in recorded
        /\ \A i, k \in 1..Len(report.events) :
            report.events[i] = report.events[k] => i = k

LEMMA TruncateSound ==
    ASSUME ReportInv, NEW j \in Judgment, Trail!Truncate(j)
    PROVE  ReportInv'
<1>1. /\ outcome' = [outcome EXCEPT ![j] = Torn] /\ UNCHANGED <<report, recorded, before>>
  BY DEF Trail!Truncate
<1>2. \A k \in Judgment : outcome'[k] = IF k = j THEN Torn ELSE outcome[k]
  BY <1>1 DEF ReportInv
<1>3. outcome' \in [Judgment -> Label \cup {Null, Torn}]
  BY <1>1 DEF ReportInv
<1>4. \A k \in before : outcome'[k] # Null
  BY <1>2, TrailAssumption DEF ReportInv
<1>5. \A k \in Judgment : outcome'[k] \notin {Null, Torn} => <<k, outcome'[k]>> \in recorded
  BY <1>2 DEF ReportInv
<1>6. QED
  BY <1>1, <1>3, <1>4, <1>5 DEF ReportInv

LEMMA RecordSound ==
    ASSUME ReportInv, NEW j \in Judgment, Trail!Record(j)
    PROVE  ReportInv'
<1>1. PICK l \in Label : /\ outcome' = [outcome EXCEPT ![j] = l]
                         /\ recorded' = recorded \cup {<<j, l>>}
  BY DEF Trail!Record
<1>2. UNCHANGED <<report, before>>
  BY DEF Trail!Record
<1>3. \A k \in Judgment : outcome'[k] = IF k = j THEN l ELSE outcome[k]
  BY <1>1 DEF ReportInv
<1>4. outcome' \in [Judgment -> Label \cup {Null, Torn}]
  BY <1>1 DEF ReportInv
<1>5. \A k \in before : outcome'[k] # Null
  BY <1>3, TrailAssumption DEF ReportInv
<1>6. \A k \in Judgment : outcome'[k] \notin {Null, Torn} => <<k, outcome'[k]>> \in recorded'
  BY <1>1, <1>3 DEF ReportInv
<1>7. recorded \subseteq recorded'
  BY <1>1
<1>8. QED
  BY <1>2, <1>4, <1>5, <1>6, <1>7 DEF ReportInv

LEMMA BeginReportSound ==
    ASSUME TrailInv, ReportInv, Trail!BeginReport
    PROVE  ReportInv'
<1>1. /\ \A i \in 1..Len(trail) : trail[i] # Torn
      /\ before' = {j \in Judgment : outcome[j] # Null}
      /\ UNCHANGED <<outcome, recorded>>
  BY DEF Trail!BeginReport
<1>2. PICK events : events = [i \in 1..Len(trail) |-> trail[i].payload.id]
  OBVIOUS
<1>3. PICK n \in Nat : n = Len(trail)
  BY LenProperties DEF TrailInv, TrailTyped
<1>4. \A i \in 1..n : trail[i].payload.id \in Judgment
  <2>1. SUFFICES ASSUME NEW i \in 1..n PROVE trail[i].payload.id \in Judgment
    OBVIOUS
  <2>2. trail[i] \in Trail!Line
    BY <1>1, <1>3, <2>1 DEF TrailInv, TrailTyped
  <2>3. trail[i].payload \in Trail!Entry
    BY <2>2 DEF Trail!Line
  <2>4. QED
    BY <2>3 DEF Trail!Entry
<1>5. events \in [1..n -> Judgment]
  BY <1>2, <1>3, <1>4
<1>6. events \in Seq(Judgment) /\ Len(events) = n
  BY <1>5
<1>7. \A i, k \in 1..n : events[i] = events[k] => i = k
  BY <1>1, <1>2, <1>3 DEF TrailInv, TrailRests
<1>8. report' = [events |-> events, joined |-> <<>>]
  BY <1>2 DEF Trail!BeginReport
<1>9. <<>> \in Seq(Label \cup {Null}) /\ Len(<<>>) = 0
  BY EmptySeq
<1>10. PICK none : none = <<>>
  OBVIOUS
<1>11. /\ report' \in [events: Seq(Judgment), joined: Seq(Label \cup {Null})]
       /\ report'.events = events /\ report'.joined = none /\ Len(none) = 0
  BY <1>6, <1>8, <1>9, <1>10
<1>12. before' \subseteq Judgment /\ \A j \in before' : outcome'[j] # Null
  BY <1>1
<1>13. Len(report'.joined) <= Len(report'.events)
  BY <1>6, <1>11
<1>14. ~ \E i \in 1..Len(report'.joined) : TRUE
  BY <1>11
<1>15. \A i, k \in 1..Len(report'.events) : report'.events[i] = report'.events[k] => i = k
  BY <1>6, <1>7, <1>11
<1>16. QED
  BY <1>1, <1>11, <1>12, <1>13, <1>14, <1>15 DEF ReportInv

LEMMA JoinSound ==
    ASSUME ReportInv, Trail!Join
    PROVE  ReportInv'
<1>1. /\ report # Null /\ Len(report.joined) < Len(report.events)
      /\ UNCHANGED <<outcome, recorded, before>>
  BY DEF Trail!Join, Trail!Unread
<1>2. PICK events, joined : events = report.events /\ joined = report.joined
  OBVIOUS
<1>3. /\ events \in Seq(Judgment) /\ joined \in Seq(Label \cup {Null})
      /\ report = [events |-> events, joined |-> joined]
  BY <1>1, <1>2 DEF ReportInv
<1>4. PICK n \in Nat : n = Len(joined)
  BY <1>3, LenProperties
<1>5. Len(events) \in Nat /\ n + 1 \in 1..Len(events)
  BY <1>1, <1>2, <1>3, <1>4, LenProperties
<1>6. PICK j, o : j = events[n + 1] /\ o = outcome[j]
  OBVIOUS
<1>7. j \in Judgment
  BY <1>3, <1>5, <1>6
<1>8. o \in Label \cup {Null} /\ o # Torn
  <2>1. o # Torn
    BY <1>2, <1>4, <1>6 DEF Trail!Join, Trail!OutcomeParses, Trail!NextId
  <2>2. QED
    BY <1>6, <1>7, <2>1 DEF ReportInv
<1>9. PICK more : more = Append(joined, o)
  OBVIOUS
<1>10. /\ more \in Seq(Label \cup {Null}) /\ Len(more) = n + 1 /\ more[n + 1] = o
       /\ \A i \in 1..n : more[i] = joined[i]
  BY <1>3, <1>4, <1>8, <1>9, AppendProperties
<1>11. report' = [events |-> events, joined |-> more]
  BY <1>2, <1>3, <1>4, <1>6, <1>9 DEF Trail!Join, Trail!NextId
<1>12. /\ report' \in [events: Seq(Judgment), joined: Seq(Label \cup {Null})]
       /\ report'.events = events /\ report'.joined = more
  BY <1>3, <1>10, <1>11
<1>13. IF o = Null THEN j \notin before ELSE <<j, o>> \in recorded
  BY <1>6, <1>7, <1>8 DEF ReportInv
<1>14. ASSUME NEW i \in 1..(n + 1)
       PROVE  IF more[i] = Null THEN events[i] \notin before
              ELSE <<events[i], more[i]>> \in recorded
  <2>1. CASE i = n + 1
    BY <1>6, <1>10, <1>13, <2>1
  <2>2. CASE i # n + 1
    <3>1. i \in 1..n
      BY <2>2
    <3>2. more[i] = joined[i]
      BY <1>10, <3>1
    <3>3. QED
      BY <1>1, <1>2, <1>4, <3>1, <3>2 DEF ReportInv
  <2>3. QED
    BY <2>1, <2>2
<1>15. Len(report'.joined) <= Len(report'.events)
  BY <1>5, <1>10, <1>12
<1>16. \A i \in 1..Len(report'.joined) :
            IF report'.joined[i] = Null THEN report'.events[i] \notin before'
            ELSE <<report'.events[i], report'.joined[i]>> \in recorded'
  BY <1>1, <1>10, <1>12, <1>14
<1>17. \A i, k \in 1..Len(report'.events) : report'.events[i] = report'.events[k] => i = k
  BY <1>1, <1>2, <1>12 DEF ReportInv
<1>18. QED
  BY <1>1, <1>12, <1>15, <1>16, <1>17 DEF ReportInv

LEMMA ReportSound == Trail!Spec => []ReportInv
<1>1. Trail!Init => ReportInv
  BY DEF Trail!Init, ReportInv
<1>2. TrailInv /\ ReportInv /\ [Trail!Next]_(Trail!trailVars) => ReportInv'
  <2> SUFFICES ASSUME TrailInv, ReportInv, [Trail!Next]_(Trail!trailVars) PROVE ReportInv'
    OBVIOUS
  <2>1. ASSUME NEW j \in Judgment, Trail!Truncate(j) PROVE ReportInv'
    BY <2>1, TruncateSound
  <2>2. ASSUME NEW j \in Judgment, Trail!Record(j) PROVE ReportInv'
    BY <2>2, RecordSound
  <2>3. CASE Trail!BeginReport
    BY <2>3, BeginReportSound
  <2>4. CASE Trail!Join
    BY <2>4, JoinSound
  <2>5. CASE Trail!EndReport
    BY <2>5 DEF Trail!EndReport, ReportInv
  <2>6. CASE UNCHANGED Trail!results
    BY <2>6 DEF Trail!results, ReportInv
  <2>7. \/ \E j \in Judgment : Trail!Truncate(j) \/ Trail!Record(j)
        \/ Trail!BeginReport \/ Trail!Join \/ Trail!EndReport \/ UNCHANGED Trail!results
    BY DEF Trail!Next, Trail!Refuse, Trail!ReadLast, Trail!Capture, Trail!AppendEvent,
           Trail!Stop, Trail!trailVars
  <2>8. QED
    BY <2>1, <2>2, <2>3, <2>4, <2>5, <2>6, <2>7
<1>3. QED
  BY <1>1, <1>2, TrailSound, PTL DEF Trail!Spec

(* ReportJoinsRecorded: for any judgments, labels and lengths, a report    *)
(* that runs beside people who rewrite outcomes counts each event once,    *)
(* with an outcome that was recorded for it, and misses none that had one  *)
(* when the report began.                                                  *)
THEOREM JoinsRecorded == Chains => []ReportJoinsRecorded
<1>1. ASSUME ReportInv PROVE ReportJoinsRecorded
  <2>1. SUFFICES ASSUME report # Null
                 PROVE  /\ \A i \in DOMAIN report.joined :
                            IF report.joined[i] = Null THEN report.events[i] \notin before
                            ELSE <<report.events[i], report.joined[i]>> \in recorded
                        /\ \A i, k \in DOMAIN report.events :
                            report.events[i] = report.events[k] => i = k
    BY DEF ReportJoinsRecorded, Trail!ReportJoinsRecorded
  <2>2. report.events \in Seq(Judgment) /\ report.joined \in Seq(Label \cup {Null})
    BY <1>1, <2>1 DEF ReportInv
  <2>3. /\ DOMAIN report.joined = 1..Len(report.joined)
        /\ DOMAIN report.events = 1..Len(report.events)
    BY <2>2, LenProperties
  <2>4. QED
    BY <1>1, <2>1, <2>3 DEF ReportInv
<1>2. QED
  BY <1>1, ReportSound, TrailAlone, PTL

-----------------------------------------------------------------------------
(* The observer logs.                                                      *)

(* A line as its appender drafts it: an intent's carries the hash that the *)
(* verifier recomputes, and goes on only after a line that is short.       *)
Drafted(l) ==
    /\ l \in Observer!Written
    /\ kind = "intents" =>
        /\ l.hash = Observer!Hash(l.prev, l.body, {"hash"})
        /\ l.prev # Observer!Genesis => l.prev[Len(l.prev)].body.intent \notin Large
LogTyped ==
    /\ kind \in Observer!Kind
    /\ lines \in Seq(Observer!Written \cup {Torn})
    /\ tail \in BOOLEAN /\ marred \in BOOLEAN
    /\ tail => lines # <<>>
    /\ made \in Seq(Observer!Body)
    /\ DOMAIN draft = Appender
    /\ \A a \in Appender : draft[a] # Null =>
        /\ Drafted(draft[a])
        /\ lines = <<>> => draft[a].prev = Observer!Genesis

Broken(i) == lines[i] = Torn \/ (i # 1 /\ lines[i].prev # lines[i - 1].hash)
(* The log is broken exactly when a write has marred it; otherwise it is   *)
(* what was made.                                                          *)
LogJudged ==
    /\ \A i \in 1..Len(lines) : lines[i] # Torn => Drafted(lines[i])
    /\ lines # <<>> /\ lines[1] # Torn => lines[1].prev = Observer!Genesis
    /\ (\E i \in 1..Len(lines) : Broken(i)) => marred
    /\ marred => \E i \in 1..Len(lines) : Broken(i)
    /\ ~marred => Len(made) = Len(lines) /\ \A i \in 1..Len(lines) : made[i] = lines[i].body
LogInv == LogTyped /\ LogJudged

LEMMA LogExtended ==
    ASSUME LogTyped, NEW line \in Observer!Written \cup {Torn}, lines' = Observer!Extended(line)
    PROVE  /\ lines' \in Seq(Observer!Written \cup {Torn}) /\ lines' # <<>>
           /\ \E n \in Nat :
                /\ n = Len(lines)
                /\ ~tail => /\ Len(lines') = n + 1 /\ lines'[n + 1] = line
                            /\ \A i \in 1..n : lines'[i] = lines[i]
                /\ tail  => /\ n \in 1..n /\ Len(lines') = n /\ lines'[n] = Torn
                            /\ \A i \in 1..n : i # n => lines'[i] = lines[i]
<1>1. PICK n \in Nat : n = Len(lines)
  BY LenProperties DEF LogTyped
<1>2. lines \in Seq(Observer!Written \cup {Torn})
  BY DEF LogTyped
<1>3. CASE ~tail
  <2>1. lines' = Append(lines, line)
    BY <1>3 DEF Observer!Extended
  <2>2. /\ lines' \in Seq(Observer!Written \cup {Torn}) /\ Len(lines') = n + 1
        /\ lines'[n + 1] = line /\ \A i \in 1..n : lines'[i] = lines[i]
    BY <1>1, <1>2, <2>1, AppendProperties
  <2>3. lines' # <<>>
    BY <2>2, EmptySeq
  <2>4. QED
    BY <1>1, <1>3, <2>2, <2>3
<1>4. CASE tail
  <2>1. n # 0
    BY <1>1, <1>2, <1>4, EmptySeq DEF LogTyped
  <2>2. lines' = [lines EXCEPT ![n] = Torn]
    BY <1>1, <1>4 DEF Observer!Extended
  <2>3. n \in 1..n
    BY <2>1
  <2>4. lines' \in Seq(Observer!Written \cup {Torn}) /\ Len(lines') = n
    BY <1>1, <1>2, <2>2, <2>3, ExceptSeq
  <2>5. lines'[n] = Torn /\ \A i \in 1..n : i # n => lines'[i] = lines[i]
    BY <1>1, <1>2, <2>2, <2>3, ExceptSeq
  <2>6. lines' # <<>>
    BY <2>1, <2>4, EmptySeq
  <2>7. QED
    BY <1>1, <1>4, <2>3, <2>4, <2>5, <2>6
<1>5. QED
  BY <1>3, <1>4

(* A drafted line never carries the hash of a line that was too large to   *)
(* be read back.                                                           *)
LEMMA LargeNotFollowed ==
    ASSUME LogInv, NEW line, Drafted(line), lines # <<>>, lines[Len(lines)] # Torn,
           ~Observer!ReadBack
    PROVE  line.prev # lines[Len(lines)].hash
<1>1. PICK last : last = lines[Len(lines)]
  OBVIOUS
<1>2. kind = "intents" /\ last.body.intent \in Large
  BY <1>1 DEF Observer!ReadBack, Observer!Last
<1>3. Len(lines) \in 1..Len(lines)
  BY EmptySeq, LenProperties DEF LogInv, LogTyped
<1>4. Drafted(last) /\ last.hash = Observer!Hash(last.prev, last.body, {"hash"})
  BY <1>1, <1>2, <1>3 DEF LogInv, LogJudged, Drafted
<1>5. last \in Observer!Written
  BY <1>4 DEF Drafted
<1>6. last.prev \in Observer!Hashes /\ last.body \in Observer!Body
  BY <1>5 DEF Observer!Written
<1>7. PICK item : item = [body |-> last.body, besides |-> {"hash"}]
  OBVIOUS
<1>8. item \in [body: Observer!Body, besides: {{}, {"hash"}}] /\ item.body = last.body
  BY <1>6, <1>7
<1>9. /\ last.hash = Append(last.prev, item)
  BY <1>4, <1>7 DEF Observer!Hash
<1>10. /\ Len(last.hash) = Len(last.prev) + 1 /\ last.hash[Len(last.prev) + 1] = item
       /\ Len(last.prev) \in Nat
  BY <1>6, <1>8, <1>9, AppendProperties, LenProperties DEF Observer!Hashes
<1>11. last.hash # Observer!Genesis
  BY <1>10, EmptySeq DEF Observer!Genesis
<1>12. last.hash[Len(last.hash)].body.intent \in Large
  BY <1>2, <1>8, <1>10
<1>13. QED
  BY <1>1, <1>2, <1>11, <1>12 DEF Drafted

(* What an appender drafts from the log as it is.                          *)
LEMMA DraftIsSound ==
    ASSUME LogInv, Observer!Appendable, NEW body \in Observer!Bodies,
           NEW line \in Observer!LinesOf(Observer!LastHash, body)
    PROVE  Drafted(line) /\ (lines = <<>> => line.prev = Observer!Genesis)
<1>1. body \in Observer!Body
  BY DEF Observer!Bodies, Observer!Derived, Observer!Named, Observer!Body
<1>2. PICK h : h = Observer!LastHash
  OBVIOUS
<1>3. ASSUME Observer!ReadBack
      PROVE  /\ h \in Observer!Hashes /\ lines # <<>>
             /\ kind = "intents" => h[Len(h)].body.intent \notin Large
  <2>1. PICK last : last = lines[Len(lines)]
    OBVIOUS
  <2>2. /\ lines # <<>> /\ last # Torn
        /\ kind = "intents" => last.body.intent \notin Large
    BY <1>3, <2>1 DEF Observer!ReadBack, Observer!Last
  <2>3. Len(lines) \in 1..Len(lines)
    BY <2>2, EmptySeq, LenProperties DEF LogInv, LogTyped
  <2>4. Drafted(last)
    BY <2>1, <2>2, <2>3 DEF LogInv, LogJudged
  <2>5. last \in Observer!Written
    BY <2>4 DEF Drafted
  <2>6. /\ last.prev \in Observer!Hashes /\ last.body \in Observer!Body
        /\ last.hash \in Observer!Hashes
    BY <2>5 DEF Observer!Written
  <2>7. h = last.hash
    BY <1>2, <1>3, <2>1 DEF Observer!LastHash, Observer!Last
  <2>8. kind = "intents" => h[Len(h)].body.intent \notin Large
    <3>1. SUFFICES ASSUME kind = "intents" PROVE h[Len(h)].body.intent \notin Large
      OBVIOUS
    <3>2. PICK item : item = [body |-> last.body, besides |-> {"hash"}]
      OBVIOUS
    <3>3. item \in [body: Observer!Body, besides: {{}, {"hash"}}] /\ item.body = last.body
      BY <2>6, <3>2
    <3>4. h = Append(last.prev, item)
      BY <2>4, <2>7, <3>1, <3>2 DEF Drafted, Observer!Hash
    <3>5. Len(h) = Len(last.prev) + 1 /\ h[Len(last.prev) + 1] = item
      BY <2>6, <3>3, <3>4, AppendProperties DEF Observer!Hashes
    <3>6. QED
      BY <2>2, <3>1, <3>3, <3>5
  <2>9. QED
    BY <2>2, <2>6, <2>7, <2>8
<1>4. ~Observer!ReadBack => h = Observer!Genesis /\ h \in Observer!Hashes
  BY <1>2, EmptySeq DEF Observer!LastHash, Observer!Genesis, Observer!Hashes
<1>5. /\ h \in Observer!Hashes
      /\ lines = <<>> => h = Observer!Genesis
      /\ kind = "intents" /\ h # Observer!Genesis => h[Len(h)].body.intent \notin Large
  BY <1>3, <1>4
<1>6. PICK b \in {{}, {"hash"}}, meta \in {{}, {"signature_meta"}} :
          /\ line = Observer!Line(h, body, b, meta)
          /\ kind = "intents" => b = {"hash"}
  BY <1>2 DEF Observer!LinesOf, Observer!IntentLine, Observer!OrderLine,
     Observer!EventLine, Observer!FixtureLine
<1>7. PICK item : item = [body |-> body, besides |-> b]
  OBVIOUS
<1>8. item \in [body: Observer!Body, besides: {{}, {"hash"}}]
  BY <1>1, <1>7
<1>9. PICK hash : hash = Append(h, item)
  OBVIOUS
<1>10. hash \in Observer!Hashes
  BY <1>5, <1>8, <1>9, AppendProperties DEF Observer!Hashes
<1>11. line = [prev |-> h, body |-> body, meta |-> meta, hash |-> hash]
  BY <1>6, <1>7, <1>9 DEF Observer!Line, Observer!Hash
<1>12. line \in Observer!Written /\ line.prev = h /\ line.hash = hash /\ line.body = body
  BY <1>1, <1>5, <1>10, <1>11 DEF Observer!Written
<1>13. kind = "intents" => line.hash = Observer!Hash(line.prev, line.body, {"hash"})
  BY <1>6, <1>7, <1>9, <1>12 DEF Observer!Hash
<1>14. QED
  BY <1>5, <1>12, <1>13 DEF Drafted

LEMMA WriteMarks ==
    ASSUME LogInv, NEW line \in Observer!Written \cup {Torn},
           lines' = Observer!Extended(line), UNCHANGED kind,
           line # Torn => /\ Drafted(line)
                          /\ lines = <<>> => line.prev = Observer!Genesis
                          /\ made' = Append(made, line.body)
                          /\ marred' = (marred \/ ~Observer!Follows(line)),
           line = Torn => marred'
    PROVE  LogJudged'
<1>1. PICK n \in Nat :
          /\ n = Len(lines)
          /\ ~tail => /\ Len(lines') = n + 1 /\ lines'[n + 1] = line
                      /\ \A i \in 1..n : lines'[i] = lines[i]
          /\ tail  => /\ n \in 1..n /\ Len(lines') = n /\ lines'[n] = Torn
                      /\ \A i \in 1..n : i # n => lines'[i] = lines[i]
  BY LogExtended DEF LogInv
<1>2. \A l : Drafted(l)' <=> Drafted(l)
  BY DEF Drafted
<1>3. lines' # <<>>
  BY LogExtended DEF LogInv
<1>4. n # 0 => lines # <<>> /\ n \in 1..n
  BY <1>1, EmptySeq
<1>5. n = 0 => lines = <<>>
  BY <1>1, EmptySeq DEF LogInv, LogTyped
<1>6. CASE tail
  <2>1. marred'
    <3>1. CASE line = Torn
      BY <3>1
    <3>2. CASE line # Torn
      BY <1>6, <3>2 DEF Observer!Follows
    <3>3. QED
      BY <3>1, <3>2
  <2>2. n \in 1..Len(lines') /\ Broken(n)'
    BY <1>1, <1>6 DEF Broken
  <2>3. \A i \in 1..n : lines'[i] # Torn => lines'[i] = lines[i]
    BY <1>1, <1>6
  <2>4. Len(lines') = n
    BY <1>1, <1>6
  <2>5. \A i \in 1..Len(lines') : lines'[i] # Torn => Drafted(lines[i])'
    <3>1. SUFFICES ASSUME NEW i \in 1..n, lines'[i] # Torn PROVE Drafted(lines[i])'
      BY <2>4
    <3>2. PICK l : l = lines[i] /\ l = lines'[i]
      BY <2>3, <3>1
    <3>3. Drafted(l)'
      BY <1>1, <1>2, <3>1, <3>2 DEF LogInv, LogJudged
    <3>4. QED
      BY <3>2, <3>3 DEF Drafted
  <2>6. lines'[1] # Torn => lines'[1].prev = Observer!Genesis
    <3>1. lines # <<>> /\ 1 \in 1..n
      BY <1>1, <1>4, <1>6
    <3>2. lines'[1] # Torn => lines'[1] = lines[1]
      BY <2>3, <3>1
    <3>3. QED
      BY <3>1, <3>2 DEF LogInv, LogJudged
  <2>7. QED
    BY <2>1, <2>2, <2>5, <2>6 DEF LogJudged
<1>7. CASE ~tail
  <2>1. /\ Len(lines') = n + 1 /\ lines'[n + 1] = line
        /\ \A i \in 1..n : lines'[i] = lines[i]
    BY <1>1, <1>7
  <2>2. ASSUME NEW i \in 1..(n + 1), lines'[i] # Torn
        PROVE  Drafted(lines[i])'
    <3>1. CASE i = n + 1
      <4>1. PICK l : l = line /\ l = lines'[i]
        BY <2>1, <3>1
      <4>2. Drafted(l)'
        BY <1>2, <2>2, <4>1
      <4>3. QED
        BY <4>1, <4>2 DEF Drafted
    <3>2. CASE i # n + 1
      <4>1. i \in 1..n
        BY <3>2
      <4>2. PICK l : l = lines[i] /\ l = lines'[i]
        BY <2>1, <4>1
      <4>3. Drafted(l)'
        BY <1>1, <1>2, <2>2, <4>1, <4>2 DEF LogInv, LogJudged
      <4>4. QED
        BY <4>2, <4>3 DEF Drafted
    <3>3. QED
      BY <3>1, <3>2
  <2>3. lines'[1] # Torn => lines'[1].prev = Observer!Genesis
    <3>1. CASE n = 0
      BY <1>5, <2>1, <3>1
    <3>2. CASE n # 0
      <4>1. lines # <<>> /\ 1 \in 1..n
        BY <1>4, <3>2
      <4>2. QED
        BY <2>1, <4>1 DEF LogInv, LogJudged
    <3>3. QED
      BY <3>1, <3>2
  <2>4. \A i \in 1..n : Broken(i)' <=> Broken(i)
    <3>1. SUFFICES ASSUME NEW i \in 1..n PROVE Broken(i)' <=> Broken(i)
      OBVIOUS
    <3>2. lines'[i] = lines[i]
      BY <2>1
    <3>3. i # 1 => i - 1 \in 1..n
      OBVIOUS
    <3>4. i # 1 => lines'[i - 1] = lines[i - 1]
      BY <2>1, <3>3
    <3>5. QED
      BY <3>2, <3>4 DEF Broken
  <2>5. Broken(n + 1)' <=> line = Torn \/ (n # 0 /\ line.prev # lines[n].hash)
    <3>1. CASE n = 0
      BY <2>1, <3>1 DEF Broken
    <3>2. CASE n # 0
      <4>1. n + 1 # 1 /\ (n + 1) - 1 = n
        BY <3>2
      <4>2. lines'[n] = lines[n]
        BY <1>4, <2>1, <3>2
      <4>3. QED
        BY <2>1, <3>2, <4>1, <4>2 DEF Broken
    <3>3. QED
      BY <3>1, <3>2
  <2>6. (\E i \in 1..n : Broken(i)) <=> marred
    BY <1>1 DEF LogInv, LogTyped, LogJudged
  <2>7. n # 0 /\ lines[n] = Torn => marred
    BY <1>4, <2>6 DEF Broken
  <2>8. line # Torn /\ n # 0 /\ lines[n] # Torn /\ ~Observer!ReadBack => line.prev # lines[n].hash
    BY <1>1, <1>4, LargeNotFollowed
  <2>9. line # Torn => marred' = (marred \/ Broken(n + 1)')
    <3>1. SUFFICES ASSUME line # Torn PROVE marred' = (marred \/ Broken(n + 1)')
      OBVIOUS
    <3>2. n = 0 => Observer!Follows(line) /\ ~Broken(n + 1)'
      BY <1>5, <1>7, <2>5, <3>1 DEF Observer!Follows
    <3>3. n # 0 => (Observer!Follows(line) <=> Observer!ReadBack /\ line.prev = lines[n].hash)
      BY <1>1, <1>4, <1>7 DEF Observer!Follows, Observer!Last
    <3>4. n # 0 /\ Observer!ReadBack => lines[n] # Torn
      BY <1>1 DEF Observer!ReadBack, Observer!Last
    <3>5. marred \/ ~Observer!Follows(line) <=> marred \/ Broken(n + 1)'
      BY <2>5, <2>7, <2>8, <3>1, <3>2, <3>3, <3>4
    <3>6. marred \in BOOLEAN
      BY DEF LogInv, LogTyped
    <3>7. QED
      BY <3>1, <3>5, <3>6
  <2>10. marred' <=> marred \/ Broken(n + 1)'
    <3>1. CASE line = Torn
      BY <2>5, <3>1
    <3>2. CASE line # Torn
      BY <2>9, <3>2
    <3>3. QED
      BY <3>1, <3>2
  <2>11. \A i \in 1..(n + 1) : i \in 1..n \/ i = n + 1
    OBVIOUS
  <2>12. (\E i \in 1..(n + 1) : Broken(i)') => marred'
    BY <2>4, <2>6, <2>10, <2>11
  <2>13. marred' => \E i \in 1..(n + 1) : Broken(i)'
    <3>1. n + 1 \in 1..(n + 1) /\ \A i \in 1..n : i \in 1..(n + 1)
      OBVIOUS
    <3>2. QED
      BY <2>4, <2>6, <2>10, <3>1
  <2>14. ASSUME ~marred'
         PROVE  Len(made') = n + 1 /\ \A i \in 1..(n + 1) : made'[i] = lines'[i].body
    <3>1. line # Torn /\ ~marred
      BY <2>10, <2>14
    <3>2. /\ made \in Seq(Observer!Body) /\ Len(made) = n
          /\ \A i \in 1..n : made[i] = lines[i].body
      BY <1>1, <3>1 DEF LogInv, LogTyped, LogJudged
    <3>3. line.body \in Observer!Body
      BY <3>1 DEF Observer!Written
    <3>4. /\ Len(made') = n + 1 /\ made'[n + 1] = line.body
          /\ \A i \in 1..n : made'[i] = made[i]
      BY <3>1, <3>2, <3>3, AppendProperties
    <3>5. QED
      BY <2>1, <2>11, <3>2, <3>4
  <2>15. QED
    BY <2>1, <2>2, <2>3, <2>12, <2>13, <2>14 DEF LogJudged
<1>8. QED
  BY <1>6, <1>7

(* An appender that writes or stops has nothing more in hand.              *)
LEMMA DraftDone ==
    ASSUME LogInv, NEW a \in Appender, draft' = [draft EXCEPT ![a] = Null],
           UNCHANGED kind, lines = <<>> \/ lines' # <<>>,
           lines' \in Seq(Observer!Written \cup {Torn}), tail' \in BOOLEAN,
           tail' => lines' # <<>>, marred' \in BOOLEAN, made' \in Seq(Observer!Body)
    PROVE  LogTyped'
<1>1. DOMAIN draft' = Appender /\ \A b \in Appender : draft'[b] = IF b = a THEN Null ELSE draft[b]
  BY DEF LogInv, LogTyped
<1>2. ASSUME NEW b \in Appender, draft'[b] # Null
      PROVE  /\ Drafted(draft[b])'
             /\ lines' = <<>> => draft'[b].prev = Observer!Genesis
  <2>1. PICK l : l = draft[b] /\ l = draft'[b]
    BY <1>1, <1>2
  <2>2. /\ Drafted(l)
        /\ lines' = <<>> => l.prev = Observer!Genesis
    BY <1>2, <2>1 DEF LogInv, LogTyped
  <2>3. Drafted(l)'
    BY <2>2 DEF Drafted
  <2>4. QED
    BY <2>1, <2>2, <2>3 DEF Drafted
<1>3. kind' \in Observer!Kind
  BY DEF LogInv, LogTyped
<1>4. QED
  BY <1>1, <1>2, <1>3 DEF LogTyped

LEMMA LogDraftSound ==
    ASSUME LogInv, NEW a \in Appender, NEW body \in Observer!Bodies, Observer!Draft(a, body)
    PROVE  LogInv'
<1>1. PICK line \in Observer!LinesOf(Observer!LastHash, body) : draft' = [draft EXCEPT ![a] = line]
  BY DEF Observer!Draft
<1>2. UNCHANGED <<kind, lines, tail, made, marred>> /\ Observer!Appendable
  BY DEF Observer!Draft, Observer!history
<1>3. /\ Drafted(line)
      /\ lines = <<>> => line.prev = Observer!Genesis
  BY <1>2, DraftIsSound
<1>4. DOMAIN draft' = Appender /\ \A b \in Appender : draft'[b] = IF b = a THEN line ELSE draft[b]
  BY <1>1 DEF LogInv, LogTyped
<1>5. ASSUME NEW b \in Appender, draft'[b] # Null
      PROVE  /\ Drafted(draft[b])'
             /\ lines' = <<>> => draft'[b].prev = Observer!Genesis
  <2>1. PICK l : l = draft'[b]
    OBVIOUS
  <2>2. /\ Drafted(l)
        /\ lines = <<>> => l.prev = Observer!Genesis
    BY <1>3, <1>4, <1>5, <2>1 DEF LogInv, LogTyped
  <2>3. QED
    BY <1>2, <2>1, <2>2 DEF Drafted
<1>6. LogTyped'
  BY <1>2, <1>4, <1>5 DEF LogInv, LogTyped
<1>7. LogJudged'
  BY <1>2 DEF LogInv, LogJudged, Broken, Drafted
<1>8. QED
  BY <1>6, <1>7 DEF LogInv

LEMMA LogWriteSound ==
    ASSUME LogInv, NEW a \in Appender, draft[a] # Null,
           draft' = [draft EXCEPT ![a] = Null], UNCHANGED kind,
           NEW line, lines' = Observer!Extended(line), tail' \in BOOLEAN,
           \/ /\ line = draft[a] /\ made' = Append(made, line.body)
              /\ marred' = (marred \/ ~Observer!Follows(line))
           \/ line = Torn /\ marred' = TRUE /\ made' = made
    PROVE  LogInv'
<1>1. /\ Drafted(draft[a])
      /\ lines = <<>> => draft[a].prev = Observer!Genesis
  BY DEF LogInv, LogTyped
<1>2. draft[a] \in Observer!Written /\ draft[a] # Torn /\ draft[a].body \in Observer!Body
  BY <1>1, LogAssumption DEF Drafted, Observer!Written
<1>3. line \in Observer!Written \cup {Torn}
  BY <1>2
<1>4. lines' \in Seq(Observer!Written \cup {Torn}) /\ lines' # <<>>
  BY <1>3, LogExtended DEF LogInv
<1>5. made' \in Seq(Observer!Body)
  BY <1>2, AppendProperties DEF LogInv, LogTyped
<1>6. marred' \in BOOLEAN
  BY DEF LogInv, LogTyped
<1>7. LogTyped'
  BY <1>4, <1>5, <1>6, DraftDone
<1>8. LogJudged'
  BY <1>1, <1>2, <1>3, WriteMarks
<1>9. QED
  BY <1>7, <1>8 DEF LogInv

LEMMA LogStep ==
    ASSUME LogInv, Observer!Next
    PROVE  LogInv'
<1>1. ASSUME NEW a \in Appender, NEW body \in Observer!Bodies, Observer!Draft(a, body)
      PROVE  LogInv'
  BY <1>1, LogDraftSound
<1>2. ASSUME NEW a \in Appender, Observer!Write(a) PROVE LogInv'
  <2>1. PICK line : line = draft[a]
    OBVIOUS
  <2>2. /\ draft[a] # Null /\ lines' = Observer!Extended(line) /\ tail' \in BOOLEAN
        /\ made' = Append(made, line.body) /\ marred' = (marred \/ ~Observer!Follows(line))
        /\ draft' = [draft EXCEPT ![a] = Null] /\ UNCHANGED kind
    BY <1>2, <2>1 DEF Observer!Write
  <2>3. QED
    BY <2>1, <2>2, LogWriteSound
<1>3. ASSUME NEW a \in Appender, Observer!Stop(a) PROVE LogInv'
  <2>1. draft[a] # Null /\ draft' = [draft EXCEPT ![a] = Null] /\ UNCHANGED kind
    BY <1>3 DEF Observer!Stop
  <2>2. CASE UNCHANGED <<lines, tail, made, marred>>
    <3>1. LogTyped'
      BY <2>1, <2>2, DraftDone DEF LogInv, LogTyped
    <3>2. LogJudged'
      BY <2>1, <2>2 DEF LogInv, LogJudged, Broken, Drafted
    <3>3. QED
      BY <3>1, <3>2 DEF LogInv
  <2>3. CASE /\ lines' = Observer!Extended(draft[a]) /\ tail' = TRUE
             /\ made' = Append(made, draft[a].body)
             /\ marred' = (marred \/ ~Observer!Follows(draft[a]))
    <3>1. PICK line : line = draft[a]
      OBVIOUS
    <3>2. QED
      BY <2>1, <2>3, <3>1, LogWriteSound
  <2>4. CASE /\ lines' = Observer!Extended(Torn) /\ tail' = TRUE
             /\ marred' = TRUE /\ made' = made
    BY <2>1, <2>4, LogWriteSound
  <2>5. QED
    BY <1>3, <2>2, <2>3, <2>4 DEF Observer!Stop, Observer!history
<1>4. QED
  BY <1>1, <1>2, <1>3 DEF Observer!Next

LEMMA LogStays == ASSUME LogInv, UNCHANGED logState PROVE LogInv'
<1>1. UNCHANGED <<kind, lines, tail, draft, made, marred>>
  BY DEF logState
<1>2. LogTyped'
  BY <1>1 DEF LogInv, LogTyped, Drafted
<1>3. LogJudged'
  BY <1>1 DEF LogInv, LogJudged, Broken, Drafted
<1>4. QED
  BY <1>2, <1>3 DEF LogInv

(* What a verifier or the gate accepts is not broken; what is not broken   *)
(* of intents the verifier accepts.                                        *)
LEMMA AcceptedUnbroken == ASSUME LogInv PROVE Observer!AcceptedLogsAreSerial
<1>1. PICK n \in Nat : n = Len(lines)
  BY LenProperties DEF LogInv, LogTyped
<1>2. Observer!Accepted => \A i \in 1..n : ~Broken(i)
  <2>1. \A i \in 1..n : i # 1 => i > 1
    OBVIOUS
  <2>2. Observer!GatePasses => \A i \in 1..n : ~Broken(i)
    BY <1>1, <2>1 DEF Observer!GatePasses, Observer!LinkedAt, Broken
  <2>3. Observer!Verified => \A i \in 1..n : ~Broken(i)
    BY <1>1 DEF Observer!Verified, Observer!LinkedAt, Broken
  <2>4. QED
    BY <2>2, <2>3 DEF Observer!Accepted
<1>3. Observer!Accepted => ~marred
  BY <1>1, <1>2 DEF LogInv, LogJudged
<1>4. ~marred => [i \in 1..Len(lines) |-> lines[i].body] = made
  <2>1. SUFFICES ASSUME ~marred PROVE [i \in 1..n |-> lines[i].body] = made
    BY <1>1
  <2>2. /\ made \in Seq(Observer!Body) /\ Len(made) = n
        /\ \A i \in 1..n : made[i] = lines[i].body
    BY <1>1, <2>1 DEF LogInv, LogTyped, LogJudged
  <2>3. made = [i \in 1..n |-> made[i]]
    BY <2>2, LenProperties
  <2>4. QED
    BY <2>2, <2>3
<1>5. kind = "intents" /\ lines # <<>> /\ ~marred => Observer!Verified
  <2>1. SUFFICES ASSUME kind = "intents", lines # <<>>, ~marred PROVE Observer!Verified
    OBVIOUS
  <2>2. \A i \in 1..n : ~Broken(i)
    BY <1>1, <2>1 DEF LogInv, LogJudged
  <2>3. ASSUME NEW i \in 1..n
        PROVE  lines[i] # Torn /\ Observer!LinkedAt(i) /\ Observer!Intact(i, {"hash"})
    <3>1. lines[i] # Torn /\ (i # 1 => lines[i].prev = lines[i - 1].hash)
      BY <2>2 DEF Broken
    <3>2. i = 1 => lines[i].prev = Observer!Genesis
      BY <1>1, <2>1, <3>1 DEF LogInv, LogJudged
    <3>3. Drafted(lines[i])
      BY <1>1, <3>1 DEF LogInv, LogJudged
    <3>4. Observer!Intact(i, {"hash"})
      BY <2>1, <3>3 DEF Drafted, Observer!Intact
    <3>5. QED
      BY <3>1, <3>2, <3>4 DEF Observer!LinkedAt
  <2>4. QED
    BY <1>1, <2>1, <2>3 DEF Observer!Verified
<1>6. kind = "intents" => (Observer!Accepted <=> Observer!Verified)
  BY DEF Observer!Accepted
<1>7. QED
  BY <1>3, <1>4, <1>5, <1>6 DEF Observer!AcceptedLogsAreSerial

(* AcceptedLogsAreSerial: for any appenders, intents and lengths, a log    *)
(* that its verifier or its gate accepts holds all that was appended, each *)
(* line written whole after the one it was drafted after; and whole,       *)
(* serial, short lines of intents are accepted.                            *)
THEOREM AcceptedAreSerial == Chains => []AcceptedLogsAreSerial
<1> DEFINE Inv == component = "observer" => LogInv
<1>1. ChainsInit => Inv
  <2> SUFFICES ASSUME ChainsInit, component = "observer" PROVE LogInv
    OBVIOUS
  <2>1. Observer!Init
    BY DEF ChainsInit
  <2>2. /\ <<>> \in Seq(Observer!Written \cup {Torn}) /\ <<>> \in Seq(Observer!Body)
        /\ Len(lines) = 0 /\ Len(made) = 0
    BY <2>1, EmptySeq DEF Observer!Init
  <2>3. LogTyped
    BY <2>1, <2>2 DEF Observer!Init, LogTyped
  <2>4. LogJudged
    BY <2>1, <2>2 DEF Observer!Init, LogJudged
  <2>5. QED
    BY <2>3, <2>4 DEF LogInv
<1>2. Inv /\ [ChainsNext]_<<component, vars, trailState, eventState, logState,
                            orchestratorState>> => Inv'
  <2> SUFFICES ASSUME Inv, component' = "observer",
                      [ChainsNext]_<<component, vars, trailState, eventState, logState,
                                     orchestratorState>>
               PROVE  LogInv'
    OBVIOUS
  <2>1. component = "observer" /\ LogInv
    BY DEF ChainsNext
  <2>2. Observer!Next \/ UNCHANGED logState
    BY DEF ChainsNext
  <2>3. QED
    BY <2>1, <2>2, LogStep, LogStays
<1>3. Inv => AcceptedLogsAreSerial
  BY AcceptedUnbroken DEF AcceptedLogsAreSerial
<1>4. QED
  BY <1>1, <1>2, <1>3, PTL DEF Chains

-----------------------------------------------------------------------------
(* The walker: what it keeps after each event of a list is one function,   *)
(* which a list that goes on extends.                                      *)

Walked(events, w) ==
    w = [n \in 0..Len(events) |->
            IF n = 0 THEN Events!Start ELSE Events!Step(w[n - 1], events[n])]
\* What it keeps in the end.
Walker(events) == Events!Walk(events)[Len(events)]

LEMMA WalkChosen == ASSUME NEW s, NEW w, Walked(s, w) PROVE Walked(s, Events!Walk(s))
BY Zenon DEF Events!Walk, Walked

LEMMA WalkIsOne ==
    ASSUME NEW s, Len(s) \in Nat, NEW v, NEW w, Walked(s, v), Walked(s, w)
    PROVE  v = w
<1> DEFINE D == {n \in 0..Len(s) : v[n] # w[n]}
<1>1. D = {}
  <2> SUFFICES ASSUME D # {} PROVE FALSE
    OBVIOUS
  <2>1. PICK n \in D : \A m \in D : ~(m < n)
    <3>1. D \in SUBSET Nat
      OBVIOUS
    <3>2. QED
      BY <3>1, Least
  <2>2. n \in 0..Len(s) /\ v[n] # w[n]
    OBVIOUS
  <2>3. n # 0
    BY <2>2 DEF Walked
  <2>4. n - 1 \in 0..Len(s) /\ n - 1 < n
    BY <2>2, <2>3
  <2>5. v[n - 1] = w[n - 1]
    BY <2>1, <2>4
  <2>6. v[n] = Events!Step(v[n - 1], s[n]) /\ w[n] = Events!Step(w[n - 1], s[n])
    BY <2>2, <2>3 DEF Walked
  <2>7. QED
    BY <2>2, <2>5, <2>6
<1>2. QED
  BY <1>1 DEF Walked

LEMMA WalkStarts == Walked(<<>>, Events!Walk(<<>>)) /\ Walker(<<>>) = Events!Start
<1>1. Len(<<>>) = 0
  OBVIOUS
<1>2. PICK w : w = [n \in 0..0 |-> Events!Start]
  OBVIOUS
<1>3. Walked(<<>>, w)
  BY <1>1, <1>2 DEF Walked
<1>4. Walked(<<>>, Events!Walk(<<>>))
  BY <1>3, WalkChosen
<1>5. QED
  BY <1>1, <1>4 DEF Walked, Walker

LEMMA WalkGoesOn ==
    ASSUME NEW S, NEW s \in Seq(S), NEW e \in S, Walked(s, Events!Walk(s))
    PROVE  /\ Walked(Append(s, e), Events!Walk(Append(s, e)))
           /\ Walker(Append(s, e)) = Events!Step(Walker(s), e)
<1>1. PICK t : t = Append(s, e)
  OBVIOUS
<1>2. PICK n \in Nat : n = Len(s)
  BY LenProperties
<1>3. Len(t) = n + 1 /\ t[n + 1] = e /\ \A i \in 1..n : t[i] = s[i]
  BY <1>1, <1>2, AppendProperties
<1>4. PICK w : w = Events!Walk(s)
  OBVIOUS
<1>5. PICK v : v = [k \in 0..(n + 1) |-> IF k = n + 1 THEN Events!Step(w[n], e) ELSE w[k]]
  OBVIOUS
<1>6. \A k \in 0..n : v[k] = w[k]
  BY <1>5
<1>7. v[n + 1] = Events!Step(v[n], t[n + 1])
  BY <1>3, <1>5, <1>6
<1>8. \A k \in 0..n : w[k] = IF k = 0 THEN Events!Start ELSE Events!Step(w[k - 1], s[k])
  BY <1>2, <1>4 DEF Walked
<1>9. ASSUME NEW k \in 0..(n + 1)
      PROVE  v[k] = IF k = 0 THEN Events!Start ELSE Events!Step(v[k - 1], t[k])
  <2>1. CASE k = n + 1
    BY <1>7, <2>1
  <2>2. CASE k \in 1..n
    <3>1. v[k] = w[k] /\ v[k - 1] = w[k - 1] /\ t[k] = s[k]
      BY <1>3, <1>6, <2>2
    <3>2. QED
      BY <1>8, <2>2, <3>1
  <2>3. CASE k = 0
    BY <1>6, <1>8, <2>3
  <2>4. QED
    BY <2>1, <2>2, <2>3
<1>10. Walked(t, v)
  <2>1. v = [k \in 0..(n + 1) |-> v[k]]
    BY <1>5
  <2>2. QED
    BY <1>3, <1>9, <2>1 DEF Walked
<1>11. Walked(t, Events!Walk(t))
  BY <1>10, WalkChosen
<1>12. Events!Walk(t) = v
  BY <1>3, <1>10, <1>11, WalkIsOne
<1>13. Walker(t) = Events!Step(Walker(s), e)
  BY <1>2, <1>3, <1>4, <1>6, <1>7, <1>12 DEF Walker
<1>14. QED
  BY <1>1, <1>11, <1>13
-----------------------------------------------------------------------------
(* The last chain hash of a list that goes on.                             *)

\* A written or a damaged event.
Listed == Events!CoreEvent \cup Events!Damage

LEMMA LastHashed ==
    ASSUME NEW s \in Seq(Events!CoreEvent)
    PROVE  /\ Events!Hashed(s) = {} => Events!LastChainHash(s) = Null
           /\ Events!Hashed(s) # {} =>
                /\ Events!Max(Events!Hashed(s)) \in Events!Hashed(s)
                /\ \A i \in Events!Hashed(s) : i <= Events!Max(Events!Hashed(s))
                /\ Events!LastChainHash(s) = s[Events!Max(Events!Hashed(s))].chain_hash
<1>1. PICK H : H = Events!Hashed(s)
  OBVIOUS
<1>2. H \in SUBSET (0..Len(s)) /\ Len(s) \in Nat
  <2>1. DOMAIN s = 1..Len(s) /\ Len(s) \in Nat
    BY LenProperties
  <2>2. QED
    BY <1>1, <2>1 DEF Events!Hashed
<1>3. ASSUME H # {} PROVE Events!Max(H) \in H /\ \A i \in H : i <= Events!Max(H)
  <2>1. PICK x \in H : \A y \in H : ~(x < y)
    BY <1>2, <1>3, Greatest
  <2>2. \A y \in H : x >= y
    BY <1>2, <2>1
  <2>3. Events!Max(H) \in H /\ \A y \in H : Events!Max(H) >= y
    BY <2>2 DEF Events!Max
  <2>4. QED
    BY <1>2, <2>3
<1>4. QED
  BY <1>1, <1>3 DEF Events!LastChainHash

LEMMA LastHashGoesOn ==
    ASSUME NEW s \in Seq(Events!CoreEvent), NEW e \in Events!CoreEvent
    PROVE  Events!LastChainHash(Append(s, e)) =
               IF e.chain_hash = Null THEN Events!LastChainHash(s) ELSE e.chain_hash
<1>1. PICK t : t = Append(s, e)
  OBVIOUS
<1>2. PICK n \in Nat : n = Len(s) /\ DOMAIN s = 1..n
  BY LenProperties
<1>3. /\ t \in Seq(Events!CoreEvent) /\ Len(t) = n + 1 /\ DOMAIN t = 1..(n + 1)
      /\ t[n + 1] = e /\ \A i \in 1..n : t[i] = s[i]
  <2>1. t \in Seq(Events!CoreEvent) /\ Len(t) = n + 1
    BY <1>1, <1>2, AppendProperties
  <2>2. t[n + 1] = e /\ \A i \in 1..n : t[i] = s[i]
    BY <1>1, <1>2, AppendProperties
  <2>3. DOMAIN t = 1..(n + 1)
    BY <2>1, LenProperties
  <2>4. QED
    BY <2>1, <2>2, <2>3
<1>4. PICK H : H = Events!Hashed(s)
  OBVIOUS
<1>5. H \subseteq 1..n
  BY <1>2, <1>4 DEF Events!Hashed
<1>6. Events!Hashed(t) = IF e.chain_hash = Null THEN H ELSE H \cup {n + 1}
  <2>1. \A i \in 1..n : i \in Events!Hashed(t) <=> i \in H
    BY <1>2, <1>3, <1>4 DEF Events!Hashed
  <2>2. n + 1 \in Events!Hashed(t) <=> e.chain_hash # Null
    BY <1>3 DEF Events!Hashed
  <2>3. Events!Hashed(t) \subseteq 1..(n + 1)
    BY <1>3 DEF Events!Hashed
  <2>4. CASE e.chain_hash = Null
    <3>1. H \subseteq Events!Hashed(t)
      BY <1>5, <2>1
    <3>2. \A i \in Events!Hashed(t) : i \in 1..n
      BY <2>2, <2>3, <2>4
    <3>3. Events!Hashed(t) \subseteq H
      BY <2>1, <3>2
    <3>4. QED
      BY <2>4, <3>1, <3>3
  <2>5. CASE e.chain_hash # Null
    <3>1. n + 1 \in Events!Hashed(t)
      BY <2>2, <2>5
    <3>2. H \subseteq Events!Hashed(t)
      BY <1>5, <2>1
    <3>3. Events!Hashed(t) \subseteq H \cup {n + 1}
      BY <2>1, <2>3
    <3>4. QED
      BY <2>5, <3>1, <3>2, <3>3
  <2>6. QED
    BY <2>4, <2>5
<1>7. CASE e.chain_hash # Null
  <2>1. Events!Hashed(t) = H \cup {n + 1}
    BY <1>6, <1>7
  <2>2. PICK m : m = Events!Max(Events!Hashed(t))
    OBVIOUS
  <2>3. m \in H \cup {n + 1} /\ n + 1 <= m /\ Events!LastChainHash(t) = t[m].chain_hash
    BY <1>3, <2>1, <2>2, LastHashed
  <2>4. m = n + 1
    BY <1>5, <2>3
  <2>5. QED
    BY <1>1, <1>3, <1>7, <2>3, <2>4
<1>8. CASE e.chain_hash = Null
  <2>1. Events!Hashed(t) = H
    BY <1>6, <1>8
  <2>2. CASE H = {}
    BY <1>1, <1>3, <1>4, <1>8, <2>1, <2>2, LastHashed
  <2>3. CASE H # {}
    <3>1. PICK m : m = Events!Max(H)
      OBVIOUS
    <3>2. m \in H /\ Events!LastChainHash(s) = s[m].chain_hash
      BY <1>4, <2>3, <3>1, LastHashed
    <3>3. Events!LastChainHash(t) = t[m].chain_hash
      BY <1>3, <2>1, <2>3, <3>1, LastHashed
    <3>4. t[m] = s[m]
      BY <1>3, <1>5, <3>2
    <3>5. QED
      BY <1>1, <1>8, <3>2, <3>3, <3>4
  <2>4. QED
    BY <2>2, <2>3
<1>9. QED
  BY <1>7, <1>8
-----------------------------------------------------------------------------
(* What producers write.                                                   *)

\* Each of the first n events has a hash, over the ids up to it.
Full(events, n) ==
    \A j \in 1..n :
        /\ events[j].chain_hash # Null /\ Len(events[j].chain_hash) = j
        /\ \A k \in 1..j : events[j].chain_hash[k] = events[k].id

(* A hash is of at most the events up to it, and where it is of all, each  *)
(* of them has one.                                                        *)
Placed(events, i) ==
    /\ events[i].sequence_no = i
    /\ \E x \in Payload : events[i].id = <<events[i].snapshot, i, x>>
    /\ events[i].prev_event_id = IF i = 1 THEN Null ELSE events[i - 1].id
    /\ events[i].chain_hash # Null =>
        /\ Len(events[i].chain_hash) <= i
        /\ Len(events[i].chain_hash) = i => Full(events, i)

Ends(p) ==
    [snapshot |-> IF history[p] = <<>> THEN Null ELSE of[p],
     expected |-> Len(history[p]) + 1,
     prev |-> IF history[p] = <<>> THEN Null ELSE history[p][Len(history[p])].id,
     chain |-> Events!LastChainHash(history[p]),
     ok |-> TRUE]

EventsTyped ==
    /\ of \in Writing /\ hashing \in [Producer -> Hashing]
    /\ DOMAIN history = Producer
    /\ \A p \in Producer :
        history[p] \in Seq(Events!CoreEvent) /\ Len(history[p]) <= MaxEvents
    /\ received \in Seq(Listed)
HistoriesInv ==
    \A p \in Producer :
        /\ \A i \in 1..Len(history[p]) : Placed(history[p], i)
        /\ Walked(history[p], Events!Walk(history[p])) /\ Walker(history[p]) = Ends(p)

LEMMA EventConstants ==
    /\ MaxEvents \in Nat
    /\ \A w \in Writing, p \in Producer : w[p] \in Events!Snapshots
    /\ \A f \in [Producer -> Hashing], p \in Producer, n \in 1..MaxEvents : f[p][n] \in BOOLEAN
    /\ Null \notin Events!Snapshots /\ Null \notin Seq(Events!Ids)
    /\ \A e \in Events!CoreEvent : Events!Valid(e)
    /\ \A e \in Listed : Events!Valid(e) => e \in Events!CoreEvent
<1>1. \A e \in Events!CoreEvent : Events!Valid(e)
  BY EventAssumption DEF Events!Valid, Events!WellFormed, Events!Intact, Events!PayloadShaped,
     Events!Damage
<1>2. \A e \in Listed : Events!Valid(e) => e \in Events!CoreEvent
  BY DEF Listed, Events!Valid, Events!WellFormed, Events!Intact, Events!PayloadShaped,
     Events!Damage
<1>3. \A w \in Writing, p \in Producer : w[p] \in Events!Snapshots
  BY EventAssumption
<1>4. \A f \in [Producer -> Hashing], p \in Producer, n \in 1..MaxEvents : f[p][n] \in BOOLEAN
  <2>1. \A f \in [Producer -> Hashing], p \in Producer : f[p] \in [1..MaxEvents -> BOOLEAN]
    BY EventAssumption
  <2>2. QED
    BY <2>1
<1>5. QED
  BY <1>1, <1>2, <1>3, <1>4, EventAssumption

(* The hash that the next event gets.                                      *)
LEMMA NextHash ==
    ASSUME NEW s \in Seq(Events!CoreEvent), NEW id \in Events!Ids,
           \A i \in 1..Len(s) : Placed(s, i)
    PROVE  /\ Events!ChainHash(Events!LastChainHash(s), id) \in Seq(Events!Ids)
           /\ Len(Events!ChainHash(Events!LastChainHash(s), id)) <= Len(s) + 1
           /\ Len(Events!ChainHash(Events!LastChainHash(s), id)) = Len(s) + 1 =>
                /\ Full(s, Len(s))
                /\ \A k \in 1..Len(s) :
                     Events!ChainHash(Events!LastChainHash(s), id)[k] = s[k].id
                /\ Events!ChainHash(Events!LastChainHash(s), id)[Len(s) + 1] = id
<1>1. PICK n \in Nat : n = Len(s) /\ DOMAIN s = 1..n
  BY LenProperties
<1>2. \A i \in 1..n : s[i] \in Events!CoreEvent
  BY <1>1, LenProperties
<1>3. PICK c : c = Events!ChainHash(Events!LastChainHash(s), id)
  OBVIOUS
<1>4. CASE Events!Hashed(s) = {}
  <2>1. c = <<id>>
    BY <1>3, <1>4, LastHashed DEF Events!ChainHash
  <2>2. c \in Seq(Events!Ids) /\ Len(c) = 1 /\ c[1] = id
    BY <2>1
  <2>3. 1 = n + 1 => n = 0
    OBVIOUS
  <2>4. n = 0 => Full(s, n)
    BY DEF Full
  <2>5. QED
    BY <1>1, <1>3, <2>2, <2>3, <2>4
<1>5. CASE Events!Hashed(s) # {}
  <2>1. PICK m : m = Events!Max(Events!Hashed(s))
    OBVIOUS
  <2>2. m \in Events!Hashed(s) /\ Events!LastChainHash(s) = s[m].chain_hash
    BY <1>5, <2>1, LastHashed
  <2>3. m \in 1..n /\ s[m].chain_hash # Null
    BY <1>1, <2>2 DEF Events!Hashed
  <2>4. PICK d : d = s[m].chain_hash
    OBVIOUS
  <2>5. d \in Seq(Events!Ids) /\ d # Null
    BY <1>2, <2>3, <2>4 DEF Events!CoreEvent
  <2>6. c = Append(d, id)
    BY <1>3, <2>2, <2>4, <2>5 DEF Events!ChainHash
  <2>7. /\ c \in Seq(Events!Ids) /\ Len(c) = Len(d) + 1 /\ Len(d) \in Nat
        /\ \A k \in 1..Len(d) : c[k] = d[k]
        /\ c[Len(d) + 1] = id
    BY <2>5, <2>6, AppendProperties, LenProperties
  <2>8. Len(d) <= m /\ (Len(d) = m => Full(s, m))
    BY <1>1, <2>3, <2>4 DEF Placed
  <2>9. Len(c) <= n + 1
    BY <2>3, <2>7, <2>8
  <2>10. ASSUME Len(c) = n + 1
         PROVE  Full(s, n) /\ (\A k \in 1..n : c[k] = s[k].id) /\ c[n + 1] = id
    <3>1. m = n /\ Len(d) = n
      BY <2>3, <2>7, <2>8, <2>10
    <3>2. Full(s, n)
      BY <2>8, <3>1
    <3>3. \A k \in 1..n : d[k] = s[k].id
      BY <2>3, <2>4, <3>1, <3>2 DEF Full
    <3>4. QED
      BY <2>7, <3>1, <3>2, <3>3
  <2>11. QED
    BY <1>1, <1>3, <2>7, <2>9, <2>10
<1>6. QED
  BY <1>4, <1>5
(* What holds of an event does not change when more are written after it.  *)
LEMMA PlacedStays ==
    ASSUME NEW s, NEW t, NEW n \in Nat, \A i \in 1..n : t[i] = s[i],
           NEW i \in 1..n, Placed(s, i)
    PROVE  Placed(t, i)
<1>1. t[i] = s[i] /\ (i # 1 => t[i - 1] = s[i - 1])
  OBVIOUS
<1>2. Full(s, i) => Full(t, i)
  <2>1. \A j \in 1..i : t[j] = s[j]
    OBVIOUS
  <2>2. \A j \in 1..i : \A k \in 1..j : t[k] = s[k]
    OBVIOUS
  <2>3. QED
    BY <2>1, <2>2 DEF Full
<1>3. QED
  BY <1>1, <1>2 DEF Placed

(* A list stays full when the next event has a hash over all the ids.      *)
LEMMA FullGoesOn ==
    ASSUME NEW s, NEW t, NEW n \in Nat, Full(s, n), \A i \in 1..n : t[i] = s[i],
           t[n + 1].chain_hash # Null, Len(t[n + 1].chain_hash) = n + 1,
           \A k \in 1..(n + 1) : t[n + 1].chain_hash[k] = t[k].id
    PROVE  Full(t, n + 1)
<1>1. ASSUME NEW j \in 1..n
      PROVE  /\ t[j].chain_hash # Null /\ Len(t[j].chain_hash) = j
             /\ \A k \in 1..j : t[j].chain_hash[k] = t[k].id
  <2>1. t[j] = s[j] /\ \A k \in 1..j : t[k] = s[k]
    OBVIOUS
  <2>2. QED
    BY <2>1 DEF Full
<1>2. QED
  BY <1>1 DEF Full

LEMMA ProduceSound ==
    ASSUME EventsTyped, HistoriesInv, NEW p \in Producer, Events!Produce(p)
    PROVE  /\ EventsTyped' /\ HistoriesInv' /\ UNCHANGED received
           /\ \A q \in Producer :
                /\ Len(history[q]) <= Len(history'[q])
                /\ \A i \in 1..Len(history[q]) : history'[q][i] = history[q][i]
<1>1. PICK s : s = history[p]
  OBVIOUS
<1>2. PICK n \in Nat : n = Len(s)
  BY <1>1, LenProperties DEF EventsTyped
<1>3. s \in Seq(Events!CoreEvent) /\ n + 1 \in 1..MaxEvents
  BY <1>1, <1>2, EventConstants DEF EventsTyped, Events!Produce
<1>4. PICK x \in Payload :
        history' = [history EXCEPT ![p] =
                      Append(s, Events!Event(s, of[p], x, hashing[p][n + 1]))]
  BY <1>1, <1>2 DEF Events!Produce
<1>5. UNCHANGED <<of, hashing, received>>
  BY DEF Events!Produce
<1>6. PICK e : e = Events!Event(s, of[p], x, hashing[p][n + 1])
  OBVIOUS
<1>7. PICK id : id = <<of[p], n + 1, x>>
  OBVIOUS
<1>8. PICK c : c = Events!ChainHash(Events!LastChainHash(s), id)
  OBVIOUS
<1>9. e = [id |-> id, snapshot |-> of[p], sequence_no |-> n + 1,
           prev_event_id |-> IF s = <<>> THEN Null ELSE s[n].id,
           chain_hash |-> IF hashing[p][n + 1] THEN c ELSE Null]
  BY <1>2, <1>6, <1>7, <1>8 DEF Events!Event, Events!EventId, Events!Last
<1>10. of[p] \in Events!Snapshots /\ hashing[p][n + 1] \in BOOLEAN
  BY <1>3, EventConstants DEF EventsTyped
<1>11. id \in Events!Ids
  BY <1>7, <1>10 DEF Events!Ids
<1>12. \A i \in 1..n : Placed(s, i)
  BY <1>1, <1>2 DEF HistoriesInv
<1>13. /\ c \in Seq(Events!Ids) /\ Len(c) <= n + 1
       /\ Len(c) = n + 1 =>
            Full(s, n) /\ (\A k \in 1..n : c[k] = s[k].id) /\ c[n + 1] = id
  BY <1>2, <1>3, <1>8, <1>11, <1>12, NextHash
<1>14. c # Null
  BY <1>13, EventConstants
<1>15. s = <<>> <=> n = 0
  BY <1>2, <1>3, EmptySeq
<1>16. n # 0 => s[n] \in Events!CoreEvent
  BY <1>2, <1>3, LenProperties
<1>17. e \in Events!CoreEvent
  <2>1. s # <<>> => s[n].id \in Events!Ids
    BY <1>15, <1>16 DEF Events!CoreEvent
  <2>2. QED
    BY <1>9, <1>10, <1>11, <1>13, <2>1 DEF Events!CoreEvent
<1>18. PICK t : t = Append(s, e)
  OBVIOUS
<1>19. /\ t \in Seq(Events!CoreEvent) /\ Len(t) = n + 1 /\ t # <<>>
       /\ t[n + 1] = e /\ \A i \in 1..n : t[i] = s[i]
  BY <1>2, <1>3, <1>17, <1>18, AppendProperties
<1>20. history' = [history EXCEPT ![p] = t]
  BY <1>4, <1>6, <1>18
<1>21. history'[p] = t /\ \A q \in Producer \ {p} : history'[q] = history[q]
  BY <1>20 DEF EventsTyped
<1>22. EventsTyped'
  <2>1. DOMAIN history' = Producer
    BY <1>20 DEF EventsTyped
  <2>2. \A q \in Producer :
          history'[q] \in Seq(Events!CoreEvent) /\ Len(history'[q]) <= MaxEvents
    <3> SUFFICES ASSUME NEW q \in Producer
                 PROVE  history'[q] \in Seq(Events!CoreEvent) /\ Len(history'[q]) <= MaxEvents
      OBVIOUS
    <3>1. CASE q = p
      BY <1>3, <1>19, <1>21, <3>1, EventConstants
    <3>2. CASE q # p
      <4>1. history'[q] = history[q]
        BY <1>21, <3>2
      <4>2. history[q] \in Seq(Events!CoreEvent) /\ Len(history[q]) <= MaxEvents
        BY DEF EventsTyped
      <4>3. QED
        BY <4>1, <4>2
    <3>3. QED
      BY <3>1, <3>2
  <2>3. QED
    BY <1>5, <2>1, <2>2 DEF EventsTyped
<1>23. Placed(t, n + 1)
  <2>1. Full(s, n) /\ c[n + 1] = id /\ Len(c) = n + 1
        /\ (\A k \in 1..n : c[k] = s[k].id) /\ e.chain_hash = c => Full(t, n + 1)
    <3> SUFFICES ASSUME Full(s, n), c[n + 1] = id, Len(c) = n + 1,
                        \A k \in 1..n : c[k] = s[k].id, e.chain_hash = c
                 PROVE  Full(t, n + 1)
      OBVIOUS
    <3>1. \A k \in 1..(n + 1) : c[k] = t[k].id
      <4>1. e.id = id
        BY <1>9
      <4>2. ASSUME NEW k \in 1..(n + 1) PROVE c[k] = t[k].id
        <5>1. CASE k \in 1..n
          BY <1>19, <5>1
        <5>2. CASE k = n + 1
          BY <1>19, <4>1, <5>2
        <5>3. QED
          BY <5>1, <5>2
      <4>3. QED
        BY <4>2
    <3>2. t[n + 1].chain_hash = c
      BY <1>19
    <3>3. QED
      BY <1>14, <1>19, <3>1, <3>2, FullGoesOn
  <2>2. e.chain_hash # Null => e.chain_hash = c
    BY <1>9, <1>10
  <2>3. e.sequence_no = n + 1 /\ e.id = <<e.snapshot, n + 1, x>>
    BY <1>7, <1>9
  <2>4. e.prev_event_id = IF n + 1 = 1 THEN Null ELSE t[(n + 1) - 1].id
    <3>1. CASE n = 0
      BY <1>9, <1>15, <3>1
    <3>2. CASE n # 0
      <4>1. (n + 1) - 1 = n /\ t[n] = s[n] /\ n + 1 # 1
        BY <1>19, <3>2
      <4>2. e.prev_event_id = s[n].id
        BY <1>9, <1>15, <3>2
      <4>3. QED
        BY <4>1, <4>2
    <3>3. QED
      BY <3>1, <3>2
  <2>5. e.chain_hash # Null =>
          /\ Len(e.chain_hash) <= n + 1
          /\ Len(e.chain_hash) = n + 1 => Full(t, n + 1)
    BY <1>13, <2>1, <2>2
  <2>6. QED
    BY <1>19, <2>3, <2>4, <2>5 DEF Placed
<1>24. \A i \in 1..(n + 1) : Placed(t, i)
  <2>1. \A i \in 1..n : Placed(t, i)
    BY <1>12, <1>19, PlacedStays
  <2>2. QED
    BY <1>23, <2>1
<1>25. Walked(t, Events!Walk(t)) /\ Walker(t) = Events!Step(Walker(s), e)
  BY <1>1, <1>3, <1>17, <1>18, WalkGoesOn DEF HistoriesInv
<1>26. Walker(s) = Ends(p)
  BY <1>1 DEF HistoriesInv
<1>27. Walker(t) = [snapshot |-> of[p], expected |-> n + 2, prev |-> id,
                    chain |-> Events!LastChainHash(t), ok |-> TRUE]
  <2>1. PICK w : w = Ends(p)
    OBVIOUS
  <2>2. /\ w.snapshot \in {Null, of[p]} /\ w.expected = n + 1 /\ w.ok = TRUE
        /\ w.prev = e.prev_event_id /\ w.chain = Events!LastChainHash(s)
    BY <1>1, <1>2, <1>9, <2>1 DEF Ends
  <2>3. Events!Valid(e) /\ e.snapshot = of[p] /\ e.id = id /\ e.sequence_no = n + 1
    BY <1>9, <1>17, EventConstants
  <2>4. e.chain_hash # Null => e.chain_hash = Events!ChainHash(w.chain, e.id)
    BY <1>8, <1>9, <2>2, <2>3
  <2>5. Events!Correct(w, e)
    BY <2>2, <2>3, <2>4 DEF Events!Correct
  <2>6. Events!LastChainHash(t) = IF e.chain_hash = Null THEN w.chain ELSE e.chain_hash
    BY <1>3, <1>17, <1>18, <2>2, LastHashGoesOn
  <2>7. Events!Step(w, e) =
          [snapshot |-> of[p], expected |-> (n + 1) + 1, prev |-> id,
           chain |-> Events!LastChainHash(t), ok |-> TRUE]
    BY <2>2, <2>3, <2>5, <2>6 DEF Events!Step
  <2>8. QED
    BY <1>25, <1>26, <2>1, <2>7
<1>28. Walker(t) = Ends(p)'
  <2>1. Ends(p)' = [snapshot |-> IF t = <<>> THEN Null ELSE of[p], expected |-> Len(t) + 1,
                    prev |-> IF t = <<>> THEN Null ELSE t[Len(t)].id,
                    chain |-> Events!LastChainHash(t), ok |-> TRUE]
    BY <1>5, <1>21 DEF Ends, Events!LastChainHash, Events!Hashed
  <2>2. Len(t) + 1 = n + 2 /\ t[Len(t)].id = id
    BY <1>9, <1>19
  <2>3. QED
    BY <1>19, <1>27, <2>1, <2>2
<1>29. ASSUME NEW q \in Producer
      PROVE  /\ \A i \in 1..Len(history'[q]) : Placed(history'[q], i)
             /\ Walked(history'[q], Events!Walk(history'[q])) /\ Walker(history'[q]) = Ends(q)'
  <2>1. CASE q = p
    BY <1>19, <1>21, <1>24, <1>25, <1>28, <2>1
  <2>2. CASE q # p
    <3>1. PICK h : h = history[q] /\ h = history'[q]
      BY <1>21, <2>2
    <3>2. /\ \A i \in 1..Len(h) : Placed(h, i)
          /\ Walked(h, Events!Walk(h)) /\ Walker(h) = Ends(q)
      BY <3>1 DEF HistoriesInv
    <3>3. Ends(q)' = Ends(q)
      <4>1. Ends(q) = [snapshot |-> IF h = <<>> THEN Null ELSE of[q], expected |-> Len(h) + 1,
                       prev |-> IF h = <<>> THEN Null ELSE h[Len(h)].id,
                       chain |-> Events!LastChainHash(h), ok |-> TRUE]
        BY <3>1 DEF Ends
      <4>2. Ends(q)' = [snapshot |-> IF h = <<>> THEN Null ELSE of[q], expected |-> Len(h) + 1,
                        prev |-> IF h = <<>> THEN Null ELSE h[Len(h)].id,
                        chain |-> Events!LastChainHash(h), ok |-> TRUE]
        BY <1>5, <3>1 DEF Ends, Events!LastChainHash, Events!Hashed
      <4>3. QED
        BY <4>1, <4>2
    <3>4. QED
      BY <3>1, <3>2, <3>3
  <2>3. QED
    BY <2>1, <2>2
<1>30. HistoriesInv'
  BY <1>29 DEF HistoriesInv, Placed, Full, Walked, Walker, Events!Walk, Events!Step, Events!Start
<1>31. ASSUME NEW q \in Producer
       PROVE  /\ Len(history[q]) <= Len(history'[q])
              /\ \A i \in 1..Len(history[q]) : history'[q][i] = history[q][i]
  <2>1. CASE q = p
    BY <1>1, <1>2, <1>19, <1>21, <2>1
  <2>2. CASE q # p
    BY <1>21, <2>2, LenProperties DEF EventsTyped
  <2>3. QED
    BY <2>1, <2>2
<1>32. QED
  BY <1>5, <1>22, <1>30, <1>31
-----------------------------------------------------------------------------
(* What the walker finds good.                                             *)

WalkState ==
    [snapshot: Events!Snapshots \cup {Null}, expected: Nat, prev: Events!Ids \cup {Null},
     chain: Seq(Events!Ids) \cup {Null}, ok: BOOLEAN]

(* Each event is one that some producer wrote in its place, and names the  *)
(* one before it; where all have a hash, each is over the ids up to it.    *)
Unbroken(s, w) ==
    /\ w.expected = Len(s) + 1
    /\ w.prev = IF s = <<>> THEN Null ELSE s[Len(s)].id
    /\ \A i \in 1..Len(s) :
        /\ \E p \in Producer : i <= Len(history[p]) /\ s[i] = history[p][i]
        /\ s[i].prev_event_id = IF i = 1 THEN Null ELSE s[i - 1].id
    /\ (\A i \in 1..Len(s) : s[i].chain_hash # Null) =>
        /\ w.chain = IF s = <<>> THEN Null ELSE s[Len(s)].chain_hash
        /\ Full(s, Len(s))

ReceivedInv ==
    /\ Walked(received, Events!Walk(received)) /\ Walker(received) \in WalkState
    /\ Walker(received).ok => Unbroken(received, Walker(received))

\* One step of the walker, from a good state with a good result.
LEMMA StepGoodForm ==
    ASSUME NEW w \in WalkState, NEW e \in Listed, Events!Step(w, e).ok
    PROVE  /\ e \in Events!CoreEvent /\ w.ok /\ Events!Correct(w, e)
           /\ Events!Step(w, e) =
                [snapshot |-> e.snapshot, expected |-> w.expected + 1, prev |-> e.id,
                 chain |-> IF e.chain_hash = Null THEN w.chain ELSE e.chain_hash,
                 ok |-> TRUE]
<1>1. ~Events!Skip(w).ok
  BY DEF WalkState, Events!Skip
<1>2. Events!Valid(e) /\ w.snapshot \in {Null, e.snapshot}
  BY <1>1 DEF Events!Step
<1>3. Events!Step(w, e) =
        [snapshot |-> e.snapshot, expected |-> w.expected + 1, prev |-> e.id,
         chain |-> IF e.chain_hash = Null THEN w.chain ELSE e.chain_hash,
         ok |-> w.ok /\ Events!Correct(w, e)]
  BY <1>2 DEF Events!Step
<1>4. PICK k : k = (w.ok /\ Events!Correct(w, e))
  OBVIOUS
<1>5. k
  BY <1>3, <1>4
<1>6. k = TRUE
  BY <1>4, <1>5
<1>7. QED
  BY <1>2, <1>3, <1>4, <1>6, EventConstants

LEMMA StepTyped ==
    ASSUME NEW w \in WalkState, NEW e \in Listed
    PROVE  Events!Step(w, e) \in WalkState
<1>1. CASE ~Events!Valid(e) \/ w.snapshot \notin {Null, e.snapshot}
  BY <1>1 DEF Events!Step, Events!Skip, WalkState
<1>2. CASE Events!Valid(e) /\ w.snapshot \in {Null, e.snapshot}
  <2>1. e \in Events!CoreEvent
    BY <1>2, EventConstants
  <2>2. PICK k : k = (w.ok /\ Events!Correct(w, e))
    OBVIOUS
  <2>3. k \in BOOLEAN
    BY <2>2
  <2>4. Events!Step(w, e) =
          [snapshot |-> e.snapshot, expected |-> w.expected + 1, prev |-> e.id,
           chain |-> IF e.chain_hash = Null THEN w.chain ELSE e.chain_hash, ok |-> k]
    BY <1>2, <2>2 DEF Events!Step
  <2>5. QED
    BY <2>1, <2>3, <2>4 DEF WalkState, Events!CoreEvent
<1>3. QED
  BY <1>1, <1>2

LEMMA StepUnbroken ==
    ASSUME EventsTyped, HistoriesInv, NEW s \in Seq(Listed), NEW w \in WalkState,
           w.ok => Unbroken(s, w),
           NEW e \in Listed, e \in Events!Damage \/ \E p \in Producer : e \in Events!Range(history[p]),
           Events!Step(w, e).ok
    PROVE  Unbroken(Append(s, e), Events!Step(w, e))
<1>1. PICK t : t = Append(s, e)
  OBVIOUS
<1>2. PICK n \in Nat : n = Len(s)
  BY LenProperties
<1>3. /\ Len(t) = n + 1 /\ t # <<>> /\ t[n + 1] = e
      /\ \A i \in 1..n : t[i] = s[i]
  BY <1>1, <1>2, AppendProperties
<1>4. PICK v : v = Events!Step(w, e)
  OBVIOUS
<1>5. /\ e \in Events!CoreEvent /\ w.ok /\ Events!Correct(w, e)
      /\ v = [snapshot |-> e.snapshot, expected |-> w.expected + 1, prev |-> e.id,
              chain |-> IF e.chain_hash = Null THEN w.chain ELSE e.chain_hash, ok |-> TRUE]
  BY <1>4, StepGoodForm
<1>6. Unbroken(s, w)
  BY <1>5
<1>7. e.sequence_no = n + 1
  BY <1>2, <1>5, <1>6 DEF Unbroken, Events!Correct
<1>8. PICK q \in Producer : n + 1 <= Len(history[q]) /\ e = history[q][n + 1]
  <2>1. PICK q \in Producer : e \in Events!Range(history[q])
    BY <1>5, EventConstants, EventAssumption
  <2>2. PICK j \in DOMAIN history[q] : e = history[q][j]
    BY <2>1 DEF Events!Range
  <2>3. DOMAIN history[q] = 1..Len(history[q]) /\ Len(history[q]) \in Nat
    BY LenProperties DEF EventsTyped
  <2>4. e.sequence_no = j
    BY <2>2, <2>3 DEF HistoriesInv, Placed
  <2>5. QED
    BY <1>7, <2>2, <2>3, <2>4
<1>9. s = <<>> <=> n = 0
  BY <1>2, EmptySeq
<1>10. ASSUME NEW i \in 1..(n + 1)
       PROVE  /\ \E p \in Producer : i <= Len(history[p]) /\ t[i] = history[p][i]
              /\ t[i].prev_event_id = IF i = 1 THEN Null ELSE t[i - 1].id
  <2>1. CASE i \in 1..n
    <3>1. t[i] = s[i] /\ (i # 1 => t[i - 1] = s[i - 1])
      BY <1>3, <2>1
    <3>2. QED
      BY <1>2, <1>6, <2>1, <3>1 DEF Unbroken
  <2>2. CASE i = n + 1
    <3>1. t[i] = e /\ (n # 0 => t[n] = s[n])
      BY <1>3, <2>2
    <3>2. \E p \in Producer : i <= Len(history[p]) /\ t[i] = history[p][i]
      BY <1>8, <2>2, <3>1
    <3>3. e.prev_event_id = IF n = 0 THEN Null ELSE s[n].id
      BY <1>2, <1>5, <1>6, <1>9 DEF Unbroken, Events!Correct
    <3>4. (i = 1 <=> n = 0) /\ i - 1 = n
      BY <2>2
    <3>5. QED
      BY <3>1, <3>2, <3>3, <3>4
  <2>3. QED
    BY <2>1, <2>2
<1>11. ASSUME \A i \in 1..(n + 1) : t[i].chain_hash # Null
       PROVE  v.chain = e.chain_hash /\ Full(t, n + 1)
  <2>1. e.chain_hash # Null /\ \A i \in 1..n : s[i].chain_hash # Null
    <3>1. t[n + 1].chain_hash # Null
      BY <1>11
    <3>2. ASSUME NEW i \in 1..n PROVE s[i].chain_hash # Null
      BY <1>3, <1>11
    <3>3. QED
      BY <1>3, <3>1, <3>2
  <2>2. w.chain = (IF n = 0 THEN Null ELSE s[n].chain_hash) /\ Full(s, n)
    BY <1>2, <1>6, <1>9, <2>1 DEF Unbroken
  <2>3. PICK c : c = e.chain_hash
    OBVIOUS
  <2>4. c = Events!ChainHash(w.chain, e.id) /\ e.id \in Events!Ids
    BY <1>5, <2>1, <2>3 DEF Events!Correct, Events!CoreEvent
  <2>5. Len(c) = n + 1 /\ c[n + 1] = e.id /\ \A k \in 1..n : c[k] = s[k].id
    <3>1. CASE n = 0
      <4>1. c = <<e.id>>
        BY <2>2, <2>4, <3>1 DEF Events!ChainHash
      <4>2. QED
        BY <3>1, <4>1
    <3>2. CASE n # 0
      <4>1. PICK d : d = s[n].chain_hash
        OBVIOUS
      <4>2. PICK p \in Producer : n <= Len(history[p]) /\ s[n] = history[p][n]
        BY <1>2, <1>6, <3>2 DEF Unbroken
      <4>3. s[n] \in Events!CoreEvent
        BY <3>2, <4>2, LenProperties DEF EventsTyped
      <4>4. d \in Seq(Events!Ids) /\ d # Null
        BY <2>1, <3>2, <4>1, <4>3 DEF Events!CoreEvent
      <4>5. Len(d) = n /\ \A k \in 1..n : d[k] = s[k].id
        BY <2>2, <3>2, <4>1 DEF Full
      <4>6. c = Append(d, e.id)
        BY <2>2, <2>4, <3>2, <4>1, <4>4 DEF Events!ChainHash
      <4>7. QED
        BY <2>4, <4>4, <4>5, <4>6, AppendProperties
    <3>3. QED
      BY <3>1, <3>2
  <2>6. t[n + 1].chain_hash = c
    BY <1>3, <2>3
  <2>7. ASSUME NEW k \in 1..(n + 1) PROVE c[k] = t[k].id
    <3>1. CASE k \in 1..n
      BY <1>3, <2>5, <3>1
    <3>2. CASE k = n + 1
      BY <1>3, <2>5, <3>2
    <3>3. QED
      BY <3>1, <3>2
  <2>8. Full(t, n + 1)
    BY <1>3, <2>1, <2>2, <2>3, <2>5, <2>6, <2>7, FullGoesOn
  <2>9. QED
    BY <1>5, <2>1, <2>8
<1>12. v.expected = (n + 1) + 1 /\ v.prev = t[n + 1].id
  BY <1>2, <1>3, <1>5, <1>6 DEF Unbroken
<1>13. Unbroken(t, v)
  BY <1>3, <1>10, <1>11, <1>12 DEF Unbroken
<1>14. QED
  BY <1>1, <1>4, <1>13

LEMMA HistoriesStay ==
    ASSUME HistoriesInv, UNCHANGED <<of, history>>
    PROVE  HistoriesInv'
<1>1. ASSUME NEW q \in Producer
      PROVE  /\ \A i \in 1..Len(history'[q]) : Placed(history'[q], i)
             /\ Walked(history'[q], Events!Walk(history'[q])) /\ Walker(history'[q]) = Ends(q)'
  <2>1. Ends(q)' = Ends(q)
    BY DEF Ends, Events!LastChainHash, Events!Hashed
  <2>2. QED
    BY <2>1 DEF HistoriesInv
<1>2. QED
  BY <1>1 DEF HistoriesInv, Placed, Full, Walked, Walker, Events!Walk, Events!Step, Events!Start

LEMMA ReceiveSound ==
    ASSUME EventsTyped, HistoriesInv, ReceivedInv, Events!Receive
    PROVE  EventsTyped' /\ HistoriesInv' /\ ReceivedInv'
<1>1. UNCHANGED <<of, hashing, history>>
  BY DEF Events!Receive
<1>2. PICK e : /\ e \in Events!Damage \/ \E p \in Producer : e \in Events!Range(history[p])
               /\ received' = Append(received, e)
  <2>1. PICK Written : Written = {Events!Range(history[p]) : p \in Producer}
    OBVIOUS
  <2>2. PICK x \in (UNION Written) \cup Events!Damage : received' = Append(received, x)
    BY <2>1 DEF Events!Receive
  <2>3. ASSUME x \in UNION Written PROVE \E p \in Producer : x \in Events!Range(history[p])
    <3>1. PICK R \in Written : x \in R
      BY <2>3
    <3>2. QED
      BY <2>1, <3>1
  <2>4. x \in UNION Written \/ x \in Events!Damage
    OBVIOUS
  <2>5. QED
    BY <2>2, <2>3, <2>4
<1>3. e \in Listed
  <2>1. ASSUME NEW p \in Producer, e \in Events!Range(history[p]) PROVE e \in Events!CoreEvent
    BY <2>1, LenProperties DEF Events!Range, EventsTyped
  <2>2. QED
    BY <1>2, <2>1 DEF Listed
<1>4. received \in Seq(Listed)
  BY DEF EventsTyped
<1>5. PICK w : w = Walker(received)
  OBVIOUS
<1>6. w \in WalkState /\ (w.ok => Unbroken(received, w))
  BY <1>5 DEF ReceivedInv
<1>7. PICK t : t = Append(received, e) /\ t = received'
  BY <1>2
<1>8. Walked(t, Events!Walk(t)) /\ Walker(t) = Events!Step(w, e)
  BY <1>3, <1>4, <1>5, <1>7, WalkGoesOn DEF ReceivedInv
<1>9. Walker(t) \in WalkState
  BY <1>3, <1>6, <1>8, StepTyped
<1>10. Walker(t).ok => Unbroken(t, Walker(t))
  BY <1>2, <1>3, <1>4, <1>6, <1>7, <1>8, StepUnbroken
<1>11. EventsTyped'
  <2>1. received' \in Seq(Listed)
    BY <1>2, <1>3, <1>4, AppendProperties
  <2>2. QED
    BY <1>1, <2>1 DEF EventsTyped
<1>12. HistoriesInv'
  BY <1>1, HistoriesStay
<1>13. ReceivedInv'
  BY <1>1, <1>7, <1>8, <1>9, <1>10 DEF ReceivedInv, Unbroken
<1>14. QED
  BY <1>11, <1>12, <1>13

(* What was received stays where it was written.                           *)
LEMMA ReceivedStays ==
    ASSUME EventsTyped, ReceivedInv, UNCHANGED received,
           \A p \in Producer : /\ Len(history[p]) <= Len(history'[p])
                               /\ \A i \in 1..Len(history[p]) : history'[p][i] = history[p][i]
    PROVE  ReceivedInv'
<1>1. PICK r : r = received /\ r = received'
  OBVIOUS
<1>2. PICK w : w = Walker(r)
  OBVIOUS
<1>3. ASSUME Unbroken(r, w) PROVE Unbroken(r, w)'
  <2>1. ASSUME NEW i \in 1..Len(r)
        PROVE  \E p \in Producer : i <= Len(history'[p]) /\ r[i] = history'[p][i]
    <3>1. PICK p \in Producer : i <= Len(history[p]) /\ r[i] = history[p][i]
      BY <1>3 DEF Unbroken
    <3>2. Len(r) \in Nat /\ Len(history[p]) \in Nat
      BY <1>1, LenProperties DEF EventsTyped
    <3>3. QED
      BY <3>1, <3>2
  <2>2. QED
    BY <1>3, <2>1 DEF Unbroken, Full
<1>4. QED
  BY <1>1, <1>2, <1>3 DEF ReceivedInv
-----------------------------------------------------------------------------
(* What a clean walk tells.                                                *)

LEMMA HistoriesClean ==
    ASSUME HistoriesInv
    PROVE  Events!HistoriesWalkClean
<1>1. ASSUME NEW p \in Producer, history[p] # <<>> PROVE Events!Clean(history[p])
  <2>1. Walker(history[p]) = Ends(p)
    BY DEF HistoriesInv
  <2>2. Walker(history[p]).ok
    BY <2>1 DEF Ends
  <2>3. QED
    BY <1>1, <2>2 DEF Events!Clean, Walker
<1>2. QED
  BY <1>1 DEF Events!HistoriesWalkClean

LEMMA PrefixOf ==
    ASSUME NEW S, NEW s \in Seq(S), NEW h \in Seq(S), Len(s) <= Len(h),
           \A i \in 1..Len(s) : s[i] = h[i]
    PROVE  Events!IsPrefix(s, h)
<1>1. PICK n \in Nat : n = Len(s)
  BY LenProperties
<1>2. \A i \in 1..n : s[i] \in S /\ h[i] \in S
  BY <1>1, LenProperties
<1>3. /\ Len(SubSeq(s, 1, n)) = n /\ SubSeq(s, 1, n) \in Seq(S)
      /\ \A i \in 1..n : SubSeq(s, 1, n)[i] = s[i]
  BY <1>2, SubSeqProperties
<1>4. /\ Len(SubSeq(h, 1, n)) = n /\ SubSeq(h, 1, n) \in Seq(S)
      /\ \A i \in 1..n : SubSeq(h, 1, n)[i] = h[i]
  BY <1>2, SubSeqProperties
<1>5. SubSeq(s, 1, n) = SubSeq(h, 1, n)
  BY <1>1, <1>3, <1>4, SeqEqual
<1>6. QED
  BY <1>1, <1>5 DEF Events!IsPrefix

(* Events at the same place of two full lists with the same ids are equal. *)
LEMMA FullSame ==
    ASSUME NEW s, NEW h, NEW n \in Nat, NEW k \in 1..n, Full(s, n), Full(h, n),
           \A j \in 1..n : s[j].id = h[j].id,
           s[k] \in Events!CoreEvent, h[k] \in Events!CoreEvent,
           Placed(h, k), NEW g, g[k] = s[k], Placed(g, k),
           s[k].prev_event_id = IF k = 1 THEN Null ELSE s[k - 1].id
    PROVE  s[k] = h[k]
<1>1. PICK a, b : a = s[k] /\ b = h[k]
  OBVIOUS
<1>2. a.id = b.id /\ a.sequence_no = b.sequence_no
  BY <1>1 DEF Placed
<1>3. a.snapshot = b.snapshot
  <2>1. PICK x \in Payload : a.id = <<a.snapshot, k, x>>
    BY <1>1 DEF Placed
  <2>2. PICK y \in Payload : b.id = <<b.snapshot, k, y>>
    BY <1>1 DEF Placed
  <2>3. a.id[1] = a.snapshot /\ b.id[1] = b.snapshot
    BY <2>1, <2>2
  <2>4. QED
    BY <1>2, <2>3
<1>4. a.prev_event_id = b.prev_event_id
  BY <1>1 DEF Placed
<1>5. a.chain_hash = b.chain_hash
  <2>1. PICK c, d : c = a.chain_hash /\ d = b.chain_hash
    OBVIOUS
  <2>2. c # Null /\ Len(c) = k /\ \A j \in 1..k : c[j] = s[j].id
    BY <1>1, <2>1 DEF Full
  <2>3. d # Null /\ Len(d) = k /\ \A j \in 1..k : d[j] = h[j].id
    BY <1>1, <2>1 DEF Full
  <2>4. c \in Seq(Events!Ids) /\ d \in Seq(Events!Ids)
    BY <1>1, <2>1, <2>2, <2>3 DEF Events!CoreEvent
  <2>5. \A j \in 1..k : c[j] = d[j]
    BY <2>2, <2>3
  <2>6. c = d
    BY <2>2, <2>3, <2>4, <2>5, SeqEqual
  <2>7. QED
    BY <2>1, <2>6
<1>6. QED
  BY <1>1, <1>2, <1>3, <1>4, <1>5 DEF Events!CoreEvent

LEMMA CleanFound ==
    ASSUME EventsTyped, HistoriesInv, ReceivedInv
    PROVE  Events!CleanWalkIsAHistory
<1> SUFFICES ASSUME Events!Clean(received)
             PROVE  \/ \E p \in Producer : Events!IsPrefix(received, history[p])
                    \/ /\ \E i \in DOMAIN received : received[i].chain_hash = Null
                       /\ \A p \in Producer :
                            ~(Events!Range(received) \subseteq Events!Range(history[p]))
  BY DEF Events!CleanWalkIsAHistory
<1>1. PICK r : r = received
  OBVIOUS
<1>2. PICK n \in Nat : n = Len(r) /\ DOMAIN r = 1..n
  BY <1>1, LenProperties DEF EventsTyped
<1>3. n # 0 /\ Unbroken(r, Walker(r))
  BY <1>1, <1>2, EmptySeq DEF Events!Clean, ReceivedInv, Walker, EventsTyped
<1>4. ASSUME NEW i \in 1..n
      PROVE  \E p \in Producer :
                i <= Len(history[p]) /\ r[i] = history[p][i] /\ Placed(history[p], i)
  <2>1. PICK p \in Producer : i <= Len(history[p]) /\ r[i] = history[p][i]
    BY <1>2, <1>3 DEF Unbroken
  <2>2. Len(history[p]) \in Nat
    BY LenProperties DEF EventsTyped
  <2>3. Placed(history[p], i)
    BY <2>1, <2>2 DEF HistoriesInv
  <2>4. QED
    BY <2>1, <2>3
<1>5. \A i \in 1..n : r[i] \in Events!CoreEvent
  <2> SUFFICES ASSUME NEW i \in 1..n PROVE r[i] \in Events!CoreEvent
    OBVIOUS
  <2>1. PICK p \in Producer : i <= Len(history[p]) /\ r[i] = history[p][i]
    BY <1>4
  <2>2. QED
    BY <2>1, LenProperties DEF EventsTyped
<1>6. r \in Seq(Events!CoreEvent)
  BY <1>1, <1>2, <1>5, LenProperties DEF EventsTyped
<1>7. ASSUME NEW p \in Producer, Events!Range(r) \subseteq Events!Range(history[p])
      PROVE  Events!IsPrefix(r, history[p])
  <2>1. PICK h : h = history[p]
    OBVIOUS
  <2>2. h \in Seq(Events!CoreEvent) /\ Len(h) \in Nat /\ DOMAIN h = 1..Len(h)
    BY <2>1, LenProperties DEF EventsTyped
  <2>3. ASSUME NEW i \in 1..n PROVE i <= Len(h) /\ r[i] = h[i]
    <3>1. r[i] \in Events!Range(h)
      BY <1>2, <1>7, <2>1 DEF Events!Range
    <3>2. PICK j \in 1..Len(h) : r[i] = h[j]
      BY <2>2, <3>1 DEF Events!Range
    <3>3. r[i].sequence_no = j
      BY <2>1, <3>2 DEF HistoriesInv, Placed
    <3>4. r[i].sequence_no = i
      BY <1>4 DEF Placed
    <3>5. QED
      BY <2>2, <3>2, <3>3, <3>4
  <2>4. n <= Len(h)
    BY <1>3, <2>3
  <2>5. QED
    BY <1>2, <1>6, <2>1, <2>2, <2>3, <2>4, PrefixOf
<1>8. ASSUME \A i \in 1..n : r[i].chain_hash # Null
      PROVE  \E p \in Producer : Events!IsPrefix(r, history[p])
  <2>1. Full(r, n)
    BY <1>2, <1>3, <1>8 DEF Unbroken
  <2>2. PICK p \in Producer :
          n <= Len(history[p]) /\ r[n] = history[p][n] /\ Placed(history[p], n)
    BY <1>3, <1>4
  <2>3. PICK h : h = history[p]
    OBVIOUS
  <2>4. h \in Seq(Events!CoreEvent) /\ Len(h) \in Nat
    BY <2>3, LenProperties DEF EventsTyped
  <2>5. h[n].chain_hash # Null /\ Len(h[n].chain_hash) = n
    BY <1>3, <2>1, <2>2, <2>3 DEF Full
  <2>6. Full(h, n)
    BY <2>2, <2>3, <2>5 DEF Placed
  <2>7. ASSUME NEW k \in 1..n PROVE r[k].id = h[k].id
    <3>1. n \in 1..n
      BY <1>3
    <3>2. r[n].chain_hash[k] = r[k].id
      BY <2>1, <3>1 DEF Full
    <3>3. h[n].chain_hash[k] = h[k].id
      BY <2>6, <3>1 DEF Full
    <3>4. QED
      BY <2>2, <2>3, <3>2, <3>3
  <2>8. ASSUME NEW k \in 1..n PROVE r[k] = h[k]
    <3>1. PICK q \in Producer : r[k] = history[q][k] /\ Placed(history[q], k)
      BY <1>4
    <3>2. r[k].prev_event_id = IF k = 1 THEN Null ELSE r[k - 1].id
      BY <1>2, <1>3 DEF Unbroken
    <3>3. h[k] \in Events!CoreEvent /\ Placed(h, k)
      BY <2>2, <2>3, <2>4, LenProperties DEF HistoriesInv
    <3>4. QED
      BY <1>5, <2>1, <2>6, <2>7, <3>1, <3>2, <3>3, FullSame
  <2>9. QED
    BY <1>2, <1>6, <2>2, <2>3, <2>4, <2>8, PrefixOf
<1>9. CASE \E p \in Producer : Events!Range(r) \subseteq Events!Range(history[p])
  BY <1>1, <1>7, <1>9
<1>10. CASE \A i \in 1..n : r[i].chain_hash # Null
  BY <1>1, <1>8, <1>10
<1>11. CASE /\ \E i \in 1..n : r[i].chain_hash = Null
            /\ \A p \in Producer : ~(Events!Range(r) \subseteq Events!Range(history[p]))
  BY <1>1, <1>2, <1>11
<1>12. QED
  BY <1>9, <1>10, <1>11

(* WalkTellsHistories: for any producers, payloads, snapshots and lengths, *)
(* with chain hashes on any events, what a producer wrote walks clean, and *)
(* a list that walks clean is the beginning of what one producer wrote if  *)
(* all its events carry a chain hash or all come from one producer.        *)
THEOREM WalksTold == Chains => []WalkTellsHistories
<1> DEFINE Inv == component = "events" => EventsTyped /\ HistoriesInv /\ ReceivedInv
<1>1. ChainsInit => Inv
  <2> SUFFICES ASSUME ChainsInit, component = "events"
               PROVE  EventsTyped /\ HistoriesInv /\ ReceivedInv
    OBVIOUS
  <2>1. Events!Init
    BY DEF ChainsInit
  <2>2. /\ \A S : <<>> \in Seq(S)
        /\ Len(<<>>) = 0
    BY EmptySeq
  <2>3. \A p \in Producer : history[p] = <<>>
    BY <2>1 DEF Events!Init
  <2>4. EventsTyped
    BY <2>1, <2>2, EventConstants DEF Events!Init, EventsTyped
  <2>5. \A p \in Producer : Ends(p) = Events!Start
    <3>1. Events!LastChainHash(<<>>) = Null
      <4>1. Events!Hashed(<<>>) = {}
        BY DEF Events!Hashed
      <4>2. <<>> \in Seq(Events!CoreEvent)
        BY <2>2
      <4>3. QED
        BY <4>1, <4>2, LastHashed
    <3>2. ASSUME NEW p \in Producer PROVE Ends(p) = Events!Start
      <4>1. history[p] = <<>>
        BY <2>3
      <4>2. Events!LastChainHash(history[p]) = Null
        BY <3>1, <4>1
      <4>3. Len(history[p]) + 1 = 1
        BY <2>2, <4>1
      <4>4. QED
        BY <4>1, <4>2, <4>3 DEF Ends, Events!Start
    <3>3. QED
      BY <3>2
  <2>6. HistoriesInv
    BY <2>2, <2>3, <2>5, WalkStarts DEF HistoriesInv
  <2>7. Events!Start \in WalkState /\ Unbroken(<<>>, Events!Start)
    BY <2>2 DEF WalkState, Events!Start, Unbroken, Full
  <2>8. ReceivedInv
    BY <2>1, <2>7, WalkStarts DEF Events!Init, ReceivedInv
  <2>9. QED
    BY <2>4, <2>6, <2>8
<1>2. Inv /\ [ChainsNext]_<<component, vars, trailState, eventState, logState,
                            orchestratorState>> => Inv'
  <2> SUFFICES ASSUME Inv, component' = "events",
                      [ChainsNext]_<<component, vars, trailState, eventState, logState,
                                     orchestratorState>>
               PROVE  EventsTyped' /\ HistoriesInv' /\ ReceivedInv'
    OBVIOUS
  <2>1. component = "events" /\ EventsTyped /\ HistoriesInv /\ ReceivedInv
    BY DEF ChainsNext
  <2>2. Events!Next \/ UNCHANGED eventState
    BY DEF ChainsNext
  <2>3. CASE Events!Receive
    BY <2>1, <2>3, ReceiveSound
  <2>4. ASSUME NEW p \in Producer, Events!Produce(p)
        PROVE  EventsTyped' /\ HistoriesInv' /\ ReceivedInv'
    BY <2>1, <2>4, ProduceSound, ReceivedStays
  <2>5. CASE UNCHANGED eventState
    <3>1. UNCHANGED <<of, hashing, history, received>>
      BY <2>5 DEF eventState
    <3>2. EventsTyped'
      BY <2>1, <3>1 DEF EventsTyped
    <3>3. HistoriesInv'
      BY <2>1, <3>1, HistoriesStay
    <3>4. ReceivedInv'
      BY <2>1, <3>1, LenProperties, ReceivedStays DEF EventsTyped
    <3>5. QED
      BY <3>2, <3>3, <3>4
  <2>6. QED
    BY <2>2, <2>3, <2>4, <2>5 DEF Events!Next
<1>3. Inv => WalkTellsHistories
  BY HistoriesClean, CleanFound DEF WalkTellsHistories, Events!WalkTellsHistories
<1>4. QED
  BY <1>1, <1>2, <1>3, PTL DEF Chains

-----------------------------------------------------------------------------
(* The orchestrator's files and seals.                                     *)

File == [kind: {"inbox", "decision", "item"}, plan: Plan, index: Nat, of: Nat]
Seal == [prev: Seq(File), payload: File]
Task == [does: {"route"}, plan: Plan, of: Nat]
        \cup [does: {"split"}, plan: Plan, of: Nat, next: {1, 2}]
        \cup [does: {"hash"}, payload: File] \cup [does: {"append"}, row: Seal]

FilesTyped ==
    /\ inbox \in [Plan -> Nat] /\ decision \in [Plan -> Nat] /\ delivered \in [Plan -> Nat]
    /\ DOMAIN outbox = Plan
    /\ \A p \in Plan : outbox[p] \in [Orchestrator!Indices(p) -> Nat]
    /\ seals \in Seq(Seal \cup {Torn})
    /\ work \in [Worker -> Task \cup {Null}]

(* The forwarding that a file is of now.                                   *)
Version(f) ==
    IF f.kind = "inbox" THEN inbox[f.plan]
    ELSE IF f.kind = "decision" THEN decision[f.plan] ELSE outbox[f.plan][f.index]
(* What was read of a file that was there, and is of no later forwarding   *)
(* than the file is now.                                                   *)
Known(f) ==
    /\ f \in File /\ f.of <= Version(f)
    /\ f.kind = "item" => f.index \in Orchestrator!Indices(f.plan)
(* Nothing later than f was sealed of the same file.                       *)
Newest(f) ==
    \A i \in 1..Len(seals) : seals[i] # Torn /\ Orchestrator!SameFile(seals[i].payload, f) =>
        seals[i].payload.of <= f.of

SealsSound ==
    /\ \A i \in 1..Len(seals) : i < Len(seals) => seals[i] # Torn
    /\ \A i \in 1..Len(seals) : seals[i] # Torn => Known(seals[i].payload)
    /\ Orchestrator!SealsInOrder

TaskOf(w) ==
    /\ work[w].does = "route" =>
        decision[work[w].plan] <= work[w].of /\ work[w].of <= inbox[work[w].plan]
    /\ work[w].does = "split" =>
        /\ work[w].of = decision[work[w].plan]
        /\ work[w].next \in Orchestrator!Indices(work[w].plan)
        /\ \A i \in Orchestrator!Indices(work[w].plan) :
            i < work[w].next => outbox[work[w].plan][i] = work[w].of
    /\ work[w].does = "hash" => Known(work[w].payload) /\ Newest(work[w].payload)
    /\ work[w].does = "append" =>
        /\ Known(work[w].row.payload) /\ Newest(work[w].row.payload)
        /\ Orchestrator!Readable(seals) /\ work[w].row.prev = Orchestrator!LastHash(seals)

Busy == {w \in Worker : work[w] # Null}
OrchestratorInv ==
    /\ FilesTyped
    /\ \A v, w \in Busy : v = w
    /\ \A p \in Plan : Orchestrator!FilesInOrder(p)
    /\ SealsSound
    /\ \A w \in Busy : TaskOf(w)
SerialOrchestrator == ~crossed => OrchestratorInv

LEMMA IndicesAre == \A p \in Plan :
    Orchestrator!Indices(p) \in {1..1, 1..2}
    /\ \E n \in {1, 2} : n = Len(Orchestrator!Deliveries(ChannelOf[p]))
                         /\ Orchestrator!Indices(p) = 1..n
BY DEF Orchestrator!Indices, Orchestrator!Deliveries

(* Where no file goes back to an earlier forwarding and the chain stays,   *)
(* what is sealed or was read for it stays sound.                          *)
LEMMA KnownStays ==
    ASSUME FilesTyped, FilesTyped',
           \A p \in Plan :
               /\ inbox[p] <= inbox'[p] /\ decision[p] <= decision'[p]
               /\ \A i \in Orchestrator!Indices(p) : outbox[p][i] <= outbox'[p][i],
           NEW f, Known(f)
    PROVE  Known(f)'
<1>1. /\ f \in File /\ f.of \in Nat /\ f.plan \in Plan /\ f.kind \in {"inbox", "decision", "item"}
      /\ f.of <= Version(f)
      /\ f.kind = "item" => f.index \in Orchestrator!Indices(f.plan)
  BY DEF Known, File
<1>2. f.of <= Version(f)'
  <2>1. CASE f.kind = "inbox"
    <3>1. f.of <= inbox[f.plan] /\ inbox[f.plan] \in Nat /\ inbox'[f.plan] \in Nat
      BY <1>1, <2>1 DEF Version, FilesTyped
    <3>2. QED
      BY <1>1, <2>1, <3>1 DEF Version
  <2>2. CASE f.kind = "decision"
    <3>1. f.of <= decision[f.plan] /\ decision[f.plan] \in Nat /\ decision'[f.plan] \in Nat
      BY <1>1, <2>2 DEF Version, FilesTyped
    <3>2. QED
      BY <1>1, <2>2, <3>1 DEF Version
  <2>3. CASE f.kind = "item"
    <3>1. PICK i : i = f.index /\ i \in Orchestrator!Indices(f.plan)
      BY <1>1, <2>3
    <3>2. /\ f.of <= outbox[f.plan][i]
          /\ outbox[f.plan][i] \in Nat /\ outbox'[f.plan][i] \in Nat
      BY <1>1, <2>3, <3>1 DEF Version, FilesTyped
    <3>3. QED
      BY <1>1, <2>3, <3>1, <3>2 DEF Version
  <2>4. QED
    BY <1>1, <2>1, <2>2, <2>3
<1>3. QED
  BY <1>1, <1>2 DEF Known

LEMMA SealsStay ==
    ASSUME SealsSound, seals' = seals, \A f : Known(f) => Known(f)'
    PROVE  SealsSound'
<1>1. ASSUME NEW i \in 1..Len(seals), seals[i] # Torn PROVE Known(seals[i].payload)'
  <2>1. PICK f : f = seals[i].payload
    OBVIOUS
  <2>2. Known(f)'
    BY <1>1, <2>1 DEF SealsSound
  <2>3. f = seals'[i].payload
    BY <2>1
  <2>4. QED
    BY <2>2, <2>3 DEF Known, Version
<1>2. QED
  BY <1>1 DEF SealsSound, Orchestrator!SealsInOrder, Orchestrator!LinkedAt,
     Orchestrator!SameFile

(* The rows of the chain.                                                  *)
LEMMA SealHash ==
    ASSUME FilesTyped, Orchestrator!Readable(seals)
    PROVE  Orchestrator!LastHash(seals) \in Seq(File)
<1>1. CASE seals = <<>>
  <2>1. <<>> \in Seq(File)
    BY EmptySeq
  <2>2. QED
    BY <1>1, <2>1 DEF Orchestrator!LastHash, Orchestrator!Genesis
<1>2. CASE seals # <<>>
  <2>1. seals[Len(seals)] \in Seal
    BY <1>2, EmptySeq, LenProperties DEF FilesTyped, Orchestrator!Readable
  <2>2. Append(seals[Len(seals)].prev, seals[Len(seals)].payload) \in Seq(File)
    BY <2>1, AppendProperties DEF Seal
  <2>3. QED
    BY <1>2, <2>2 DEF Orchestrator!LastHash, Orchestrator!Digest
<1>3. QED
  BY <1>1, <1>2

(* A row goes on where the chain parses, or a part of one.                 *)
LEMMA SealsGrow ==
    ASSUME FilesTyped, FilesTyped', SealsSound, Orchestrator!Readable(seals),
           UNCHANGED <<inbox, decision, outbox>>,
           NEW added \in Seal \cup {Torn}, seals' = Append(seals, added),
           added # Torn => /\ Known(added.payload) /\ Newest(added.payload)
                         /\ added.prev = Orchestrator!LastHash(seals)
    PROVE  SealsSound'
<1>1. PICK n \in Nat : n = Len(seals)
  BY LenProperties DEF FilesTyped
<1>2. /\ Len(seals') = n + 1 /\ seals'[n + 1] = added
      /\ \A i \in 1..n : seals'[i] = seals[i]
  BY <1>1, AppendProperties DEF FilesTyped
<1> HIDE <1>1
<1>3. \A i \in 1..n : seals[i] # Torn
  <2>1. n # 0 => seals[n] # Torn
    BY <1>1, EmptySeq DEF FilesTyped, Orchestrator!Readable
  <2>2. QED
    BY <1>1, <2>1 DEF SealsSound
<1>4. \A f : Known(f) => Known(f)'
  BY DEF Known, Version
<1>5. ASSUME NEW i \in 1..(n + 1), seals'[i] # Torn
      PROVE  /\ Known(seals[i].payload)' /\ Orchestrator!LinkedAt(seals', i)
             /\ \A k \in 1..(i - 1) :
                  Orchestrator!SameFile(seals'[k].payload, seals'[i].payload) =>
                      seals'[k].payload.of <= seals'[i].payload.of
  <2>1. CASE i \in 1..n
    <3>1. \A k \in 1..i : seals'[k] = seals[k] /\ k \in 1..n
      BY <1>2, <2>1
    <3>0. seals'[i] = seals[i]
      BY <1>2, <2>1
    <3>2. PICK f : f = seals[i].payload /\ f = seals'[i].payload
      BY <3>0
    <3>3. Known(f)'
      BY <1>1, <1>3, <1>4, <2>1, <3>2 DEF SealsSound
    <3>4. Known(seals[i].payload)'
      BY <3>2, <3>3 DEF Known, Version
    <3>5. Orchestrator!LinkedAt(seals, i)
      BY <1>1, <1>3, <2>1 DEF SealsSound, Orchestrator!SealsInOrder
    <3>6. Orchestrator!LinkedAt(seals', i)
      <4>1. seals'[i] = seals[i]
        BY <3>0
      <4>2. CASE i = 1
        BY <3>5, <4>1, <4>2 DEF Orchestrator!LinkedAt
      <4>3. CASE i # 1
        <5>1. i - 1 \in 1..i
          BY <2>1, <4>3
        <5>2. seals'[i - 1] = seals[i - 1]
          BY <3>1, <5>1
        <5>3. QED
          BY <3>5, <4>1, <4>3, <5>2 DEF Orchestrator!LinkedAt
      <4>4. QED
        BY <4>2, <4>3
    <3>7. \A k \in 1..(i - 1) :
              Orchestrator!SameFile(seals[k].payload, seals[i].payload) =>
                  seals[k].payload.of <= seals[i].payload.of
      BY <1>1, <1>3, <2>1 DEF SealsSound, Orchestrator!SealsInOrder
    <3>8. ASSUME NEW k \in 1..(i - 1),
                 Orchestrator!SameFile(seals'[k].payload, seals'[i].payload)
          PROVE  seals'[k].payload.of <= seals'[i].payload.of
      <4>1. k \in 1..i
        BY <2>1
      <4>2. seals'[k] = seals[k]
        BY <3>1, <4>1
      <4>3. QED
        BY <3>0, <3>7, <3>8, <4>2
    <3>9. QED
      BY <3>4, <3>6, <3>8
  <2>2. CASE i = n + 1
    <3>1. added # Torn /\ seals'[i] = added
      BY <1>2, <1>5, <2>2
    <3>2. PICK f : f = added.payload /\ f = seals'[i].payload
      BY <3>1
    <3>3. Known(f)'
      BY <1>4, <3>1, <3>2
    <3>4. Known(seals[i].payload)'
      BY <3>2, <3>3 DEF Known, Version
    <3>5. Orchestrator!LinkedAt(seals', i)
      <4>1. CASE n = 0
        <5>1. seals = <<>>
          BY <1>1, <4>1, EmptySeq DEF FilesTyped
        <5>2. QED
          BY <2>2, <3>1, <4>1, <5>1 DEF Orchestrator!LinkedAt, Orchestrator!LastHash
      <4>2. CASE n # 0
        <5>1. seals # <<>> /\ i # 1 /\ seals'[i - 1] = seals[n]
          BY <1>1, <1>2, <2>2, <4>2, EmptySeq DEF FilesTyped
        <5>2. QED
          BY <1>1, <2>2, <3>1, <5>1 DEF Orchestrator!LinkedAt, Orchestrator!LastHash
      <4>3. QED
        BY <4>1, <4>2
    <3>6. ASSUME NEW k \in 1..(i - 1),
                 Orchestrator!SameFile(seals'[k].payload, seals'[i].payload)
          PROVE  seals'[k].payload.of <= seals'[i].payload.of
      <4>1. k \in 1..n /\ seals'[k] = seals[k] /\ seals[k] # Torn
        BY <1>2, <1>3, <2>2
      <4>2. QED
        BY <1>1, <3>1, <3>2, <3>6, <4>1 DEF Newest
    <3>7. QED
      BY <3>4, <3>5, <3>6
  <2>3. i \in 1..n \/ i = n + 1
    OBVIOUS
  <2>4. QED
    BY <2>1, <2>2, <2>3
<1>6. \A i \in 1..(n + 1) : i < n + 1 => seals'[i] # Torn
  BY <1>2, <1>3
<1>7. QED
  BY <1>2, <1>5, <1>6 DEF SealsSound, Orchestrator!SealsInOrder

(* Who works alone.                                                        *)
LEMMA AloneBegins ==
    ASSUME FilesTyped, NEW w \in Worker, NEW task,
           Orchestrator!Begin(w, task), ~crossed'
    PROVE  ~crossed /\ Busy' \subseteq {w} /\ work'[w] = task
BY DEF FilesTyped, Busy, Orchestrator!Begin

LEMMA AloneEnds ==
    ASSUME FilesTyped, \A v, w \in Busy : v = w, NEW w \in Worker,
           work[w] # Null, Orchestrator!End(w)
    PROVE  Busy' = {} /\ work' \in [Worker -> Task \cup {Null}]
BY DEF FilesTyped, Busy, Orchestrator!End

(* A step that leaves the chain and lets files only move on.               *)
LEMMA FilesMove ==
    ASSUME FilesTyped, FilesTyped', SealsSound, UNCHANGED seals,
           \A p \in Plan :
               /\ inbox[p] <= inbox'[p] /\ decision[p] <= decision'[p]
               /\ \A i \in Orchestrator!Indices(p) : outbox[p][i] <= outbox'[p][i]
    PROVE  /\ SealsSound' /\ \A f : Known(f) => Known(f)'
           /\ \A f : Newest(f) => Newest(f)'
<1>1. \A f : Known(f) => Known(f)'
  BY KnownStays
<1>2. \A f : Newest(f) => Newest(f)'
  BY DEF Newest
<1>3. QED
  BY <1>1, <1>2, SealsStay

(* A step that leaves all files: every version is the same.                *)
LEMMA FilesRest ==
    ASSUME FilesTyped, UNCHANGED <<inbox, decision, outbox>>
    PROVE  /\ \A f : Known(f) => Known(f)'
           /\ \A p \in Plan :
               /\ inbox[p] <= inbox'[p] /\ decision[p] <= decision'[p]
               /\ \A i \in Orchestrator!Indices(p) : outbox[p][i] <= outbox'[p][i]
<1>1. \A f : Known(f) => Known(f)'
  BY DEF Known, Version
<1>2. \A p \in Plan : inbox[p] \in Nat /\ decision[p] \in Nat
  BY DEF FilesTyped
<1>3. \A p \in Plan : \A i \in Orchestrator!Indices(p) : outbox[p][i] \in Nat
  BY DEF FilesTyped
<1>4. QED
  BY <1>1, <1>2, <1>3

LEMMA ForwardSound ==
    ASSUME OrchestratorInv, NEW p \in Plan, Orchestrator!Forward(p)
    PROVE  OrchestratorInv'
<1>1. FilesTyped
  BY DEF OrchestratorInv
<1>2. FilesTyped'
  BY DEF FilesTyped, OrchestratorInv, Orchestrator!Forward
<1>3. \A q \in Plan : inbox[q] \in Nat /\ inbox'[q] \in Nat /\ inbox[q] <= inbox'[q]
  BY <1>1 DEF FilesTyped, Orchestrator!Forward
<1>4. /\ SealsSound' /\ \A f : Known(f) => Known(f)'
      /\ \A f : Newest(f) => Newest(f)'
  <2>1. \A q \in Plan : decision[q] \in Nat
    BY <1>1 DEF FilesTyped
  <2>2. \A q \in Plan : \A i \in Orchestrator!Indices(q) : outbox[q][i] \in Nat
    BY <1>1 DEF FilesTyped
  <2>3. QED
    BY <1>1, <1>2, <1>3, <2>1, <2>2, FilesMove DEF OrchestratorInv, Orchestrator!Forward
<1>5. \A q \in Plan : Orchestrator!FilesInOrder(q)'
  <2>1. \A q \in Plan : decision[q] \in Nat /\ decision[q] <= inbox[q]
    BY <1>1 DEF FilesTyped, OrchestratorInv, Orchestrator!FilesInOrder
  <2>2. \A q \in Plan : decision[q] <= inbox'[q]
    BY <1>3, <2>1
  <2>3. QED
    BY <2>2 DEF OrchestratorInv, Orchestrator!FilesInOrder, Orchestrator!Forward
<1>6. Busy' = Busy
  BY DEF Busy, Orchestrator!Forward
<1>7. ASSUME NEW w \in Busy PROVE TaskOf(w)'
  <2>1. TaskOf(w) /\ work[w] \in Task /\ w \in Worker
    BY <1>1 DEF OrchestratorInv, Busy, FilesTyped
  <2>2. UNCHANGED <<decision, outbox, seals, work>>
    BY DEF Orchestrator!Forward
  <2>3. work[w].does = "route" =>
          decision[work[w].plan] <= work[w].of /\ work[w].of <= inbox'[work[w].plan]
    <3>1. SUFFICES ASSUME work[w].does = "route"
                   PROVE  decision[work[w].plan] <= work[w].of
                          /\ work[w].of <= inbox'[work[w].plan]
      OBVIOUS
    <3>2. work[w].plan \in Plan /\ work[w].of \in Nat
      BY <2>1, <3>1 DEF Task
    <3>3. QED
      BY <1>3, <2>1, <3>1, <3>2 DEF TaskOf
  <2>4. work[w].does = "hash" => Known(work[w].payload)' /\ Newest(work[w].payload)'
    <3>1. PICK f : f = work[w].payload
      OBVIOUS
    <3>2. f = work'[w].payload
      BY <2>2, <3>1
    <3>3. QED
      BY <1>4, <2>1, <3>1, <3>2 DEF TaskOf, Known, Version, Newest
  <2>5. work[w].does = "append" =>
          Known(work[w].row.payload)' /\ Newest(work[w].row.payload)'
    <3>1. PICK f : f = work[w].row.payload
      OBVIOUS
    <3>2. f = work'[w].row.payload
      BY <2>2, <3>1
    <3>3. QED
      BY <1>4, <2>1, <3>1, <3>2 DEF TaskOf, Known, Version, Newest
  <2>6. QED
    BY <2>1, <2>2, <2>3, <2>4, <2>5 DEF TaskOf
<1>8. QED
  BY <1>2, <1>4, <1>5, <1>6, <1>7 DEF OrchestratorInv

(* A step that ends the only command, and leaves files and chain sound.    *)
LEMMA EndSound ==
    ASSUME OrchestratorInv, NEW w \in Worker, work[w] # Null, Orchestrator!End(w),
           FilesTyped', SealsSound', \A p \in Plan : Orchestrator!FilesInOrder(p)'
    PROVE  OrchestratorInv'
<1>1. Busy' = {}
  BY AloneEnds DEF OrchestratorInv
<1>2. QED
  BY <1>1 DEF OrchestratorInv

(* A step that begins a command where none runs, and leaves the rest.      *)
LEMMA BeginSound ==
    ASSUME OrchestratorInv, NEW w \in Worker, NEW task \in Task,
           Orchestrator!Begin(w, task), ~crossed',
           UNCHANGED <<inbox, decision, outbox, seals, delivered>>,
           TaskOf(w)'
    PROVE  OrchestratorInv'
<1>1. Busy' \subseteq {w}
  BY AloneBegins DEF OrchestratorInv
<1>2. FilesTyped'
  BY DEF OrchestratorInv, FilesTyped, Orchestrator!Begin
<1>3. SealsSound'
  BY <1>2, FilesRest, FilesMove DEF OrchestratorInv
<1>4. \A p \in Plan : Orchestrator!FilesInOrder(p)'
  BY DEF OrchestratorInv, Orchestrator!FilesInOrder
<1>5. QED
  BY <1>1, <1>2, <1>3, <1>4 DEF OrchestratorInv

LEMMA RouteSound ==
    ASSUME OrchestratorInv, NEW w \in Worker, NEW p \in Plan, Orchestrator!Route(w, p), ~crossed'
    PROVE  OrchestratorInv'
<1>1. PICK task : task = [does |-> "route", plan |-> p, of |-> inbox[p]]
  OBVIOUS
<1>2. inbox[p] \in Nat /\ decision[p] <= inbox[p]
  BY DEF OrchestratorInv, FilesTyped, Orchestrator!FilesInOrder
<1>3. task \in Task
  BY <1>1, <1>2 DEF Task
<1>4. Orchestrator!Begin(w, task) /\ UNCHANGED <<inbox, decision, outbox, seals, delivered>>
  BY <1>1 DEF Orchestrator!Route
<1>5. work'[w] = task
  BY <1>4, AloneBegins DEF OrchestratorInv
<1>6. TaskOf(w)'
  <2>1. task.does = "route" /\ task.plan = p /\ task.of = inbox[p]
    BY <1>1
  <2>2. inbox[p] <= inbox[p]
    BY <1>2
  <2>3. QED
    BY <1>2, <1>4, <1>5, <2>1, <2>2 DEF TaskOf
<1>7. QED
  BY <1>3, <1>4, <1>6, BeginSound

LEMMA SplitSound ==
    ASSUME OrchestratorInv, NEW w \in Worker, NEW p \in Plan, Orchestrator!Split(w, p), ~crossed'
    PROVE  OrchestratorInv'
<1>1. PICK task : task = [does |-> "split", plan |-> p, of |-> decision[p], next |-> 1]
  OBVIOUS
<1>2. decision[p] \in Nat
  BY DEF OrchestratorInv, FilesTyped
<1>3. task \in Task
  BY <1>1, <1>2 DEF Task
<1>4. Orchestrator!Begin(w, task) /\ UNCHANGED <<inbox, decision, outbox, seals, delivered>>
  BY <1>1 DEF Orchestrator!Split
<1>5. work'[w] = task
  BY <1>4, AloneBegins DEF OrchestratorInv
<1>6. TaskOf(w)'
  <2>1. task.does = "split" /\ task.plan = p /\ task.of = decision[p] /\ task.next = 1
    BY <1>1
  <2>2. PICK n \in {1, 2} : Orchestrator!Indices(p) = 1..n
    BY IndicesAre
  <2>3. 1 \in Orchestrator!Indices(p) /\ \A i \in Orchestrator!Indices(p) : ~(i < 1)
    BY <2>2
  <2>4. QED
    BY <1>4, <1>5, <2>1, <2>3 DEF TaskOf
<1>7. QED
  BY <1>3, <1>4, <1>6, BeginSound

(* What is read is what the file is of now, and nothing of it was sealed   *)
(* of a later forwarding.                                                  *)
LEMMA ReadIsNewest ==
    ASSUME OrchestratorInv, NEW source \in Orchestrator!Sealable
    PROVE  source \in File /\ Known(source) /\ Newest(source)
<1>1. PICK p \in Plan :
          \/ source = Orchestrator!InboxFile(p) \/ source = Orchestrator!DecisionFile(p)
          \/ \E i \in Orchestrator!Indices(p) : source = Orchestrator!ItemFile(p, i)
  BY DEF Orchestrator!Sealable
<1>2. inbox[p] \in Nat /\ decision[p] \in Nat
  BY DEF OrchestratorInv, FilesTyped
<1>3. /\ source \in File /\ source.of = Version(source)
      /\ source.kind = "item" => source.index \in Orchestrator!Indices(source.plan)
  <2>1. CASE source = Orchestrator!InboxFile(p)
    BY <1>2, <2>1 DEF Orchestrator!InboxFile, File, Version
  <2>2. CASE source = Orchestrator!DecisionFile(p)
    BY <1>2, <2>2 DEF Orchestrator!DecisionFile, File, Version
  <2>3. CASE \E i \in Orchestrator!Indices(p) : source = Orchestrator!ItemFile(p, i)
    <3>1. PICK i \in Orchestrator!Indices(p) : source = Orchestrator!ItemFile(p, i)
      BY <2>3
    <3>2. outbox[p][i] \in Nat
      BY DEF OrchestratorInv, FilesTyped
    <3>3. i \in Nat
      BY IndicesAre
    <3>4. QED
      BY <3>1, <3>2, <3>3 DEF Orchestrator!ItemFile, File, Version
  <2>4. QED
    BY <1>1, <2>1, <2>2, <2>3
<1>4. \A f \in File : f.of \in Nat
  BY DEF File
<1>5. ASSUME NEW i \in 1..Len(seals), seals[i] # Torn,
             Orchestrator!SameFile(seals[i].payload, source)
      PROVE  seals[i].payload.of <= source.of
  <2>1. PICK f : f = seals[i].payload
    OBVIOUS
  <2>2. f.of <= Version(f)
    BY <1>5, <2>1 DEF OrchestratorInv, SealsSound, Known
  <2>3. Version(f) = Version(source)
    BY <1>5, <2>1 DEF Orchestrator!SameFile, Version
  <2>4. f.of <= source.of
    BY <1>3, <2>2, <2>3
  <2>5. QED
    BY <2>1, <2>4
<1>6. source.of \in Nat
  BY <1>3, <1>4
<1>7. source.of <= Version(source)
  BY <1>3, <1>6
<1>8. QED
  BY <1>3, <1>5, <1>7 DEF Known, Newest

LEMMA ReadFileSound ==
    ASSUME OrchestratorInv, NEW w \in Worker, NEW source \in Orchestrator!Sealable,
           Orchestrator!ReadFile(w, source), ~crossed'
    PROVE  OrchestratorInv'
<1>1. PICK task : task = [does |-> "hash", payload |-> source]
  OBVIOUS
<1>2. source \in File /\ Known(source) /\ Newest(source)
  BY ReadIsNewest
<1>3. task \in Task
  BY <1>1, <1>2 DEF Task
<1>4. Orchestrator!Begin(w, task) /\ UNCHANGED <<inbox, decision, outbox, seals, delivered>>
  BY <1>1 DEF Orchestrator!ReadFile
<1>5. work'[w] = task
  BY <1>4, AloneBegins DEF OrchestratorInv
<1>6. TaskOf(w)'
  <2>1. task.does = "hash" /\ task.payload = source
    BY <1>1
  <2>2. Known(source)'
    BY <1>2, <1>4, FilesRest DEF OrchestratorInv
  <2>3. Newest(source)'
    BY <1>2, <1>4 DEF Newest
  <2>4. QED
    BY <1>5, <2>1, <2>2, <2>3 DEF TaskOf, Known, Version, Newest
<1>7. QED
  BY <1>3, <1>4, <1>6, BeginSound

LEMMA ReadHashSound ==
    ASSUME OrchestratorInv, NEW w \in Worker, Orchestrator!ReadHash(w)
    PROVE  OrchestratorInv'
<1>1. /\ work[w] # Null /\ work[w].does = "hash" /\ Orchestrator!Readable(seals)
      /\ UNCHANGED <<inbox, decision, outbox, seals, delivered>>
  BY DEF Orchestrator!ReadHash, Orchestrator!Does
<1>2. w \in Busy /\ TaskOf(w) /\ work[w] \in Task /\ Busy \subseteq {w}
  BY <1>1 DEF OrchestratorInv, Busy, FilesTyped
<1>3. PICK f : f = work[w].payload
  OBVIOUS
<1>4. f \in File /\ Known(f) /\ Newest(f)
  BY <1>1, <1>2, <1>3 DEF TaskOf, Task
<1>5. PICK h : h = Orchestrator!LastHash(seals)
  OBVIOUS
<1>6. h \in Seq(File)
  BY <1>1, <1>5, SealHash DEF OrchestratorInv
<1>7. PICK line : line = [prev |-> h, payload |-> f]
  OBVIOUS
<1>8. line \in Seal /\ line.prev = h /\ line.payload = f
  BY <1>4, <1>6, <1>7 DEF Seal
<1>9. PICK task : task = [does |-> "append", row |-> line]
  OBVIOUS
<1>10. task \in Task /\ task.does = "append" /\ task.row = line
  BY <1>8, <1>9 DEF Task
<1>11. work' = [work EXCEPT ![w] = task]
  BY <1>3, <1>5, <1>7, <1>9 DEF Orchestrator!ReadHash
<1>12. work'[w] = task /\ Busy' \subseteq {w}
  BY <1>2, <1>11 DEF OrchestratorInv, FilesTyped, Busy
<1>13. FilesTyped'
  BY <1>1, <1>10, <1>11 DEF OrchestratorInv, FilesTyped
<1>14. SealsSound'
  BY <1>1, <1>13, FilesRest, FilesMove DEF OrchestratorInv
<1>15. \A p \in Plan : Orchestrator!FilesInOrder(p)'
  BY <1>1 DEF OrchestratorInv, Orchestrator!FilesInOrder
<1>16. TaskOf(w)'
  <2>1. Known(f)'
    BY <1>1, <1>4, FilesRest DEF OrchestratorInv
  <2>2. Newest(f)'
    BY <1>1, <1>4 DEF Newest
  <2>3. work'[w].does = "append" /\ work'[w].row.payload = f /\ work'[w].row.prev = h
    BY <1>8, <1>10, <1>12
  <2>4. Orchestrator!Readable(seals') /\ h = Orchestrator!LastHash(seals')
    BY <1>1, <1>5
  <2>5. QED
    BY <2>1, <2>2, <2>3, <2>4 DEF TaskOf, Known, Version, Newest
<1>17. QED
  BY <1>12, <1>13, <1>14, <1>15, <1>16 DEF OrchestratorInv

LEMMA AppendRowSound ==
    ASSUME OrchestratorInv, NEW w \in Worker, Orchestrator!AppendRow(w)
    PROVE  OrchestratorInv'
<1>1. /\ work[w] # Null /\ work[w].does = "append" /\ Orchestrator!End(w)
      /\ seals' = Append(seals, work[w].row)
      /\ UNCHANGED <<inbox, decision, outbox, delivered>>
  BY DEF Orchestrator!AppendRow, Orchestrator!Does
<1>2. w \in Busy /\ TaskOf(w) /\ work[w] \in Task
  BY <1>1 DEF OrchestratorInv, Busy, FilesTyped
<1>3. PICK line : line = work[w].row
  OBVIOUS
<1>4. /\ line \in Seal /\ Known(line.payload) /\ Newest(line.payload)
      /\ Orchestrator!Readable(seals) /\ line.prev = Orchestrator!LastHash(seals)
  BY <1>1, <1>2, <1>3 DEF TaskOf, Task
<1>5. seals' \in Seq(Seal \cup {Torn})
  BY <1>1, <1>3, <1>4, AppendProperties DEF OrchestratorInv, FilesTyped
<1>6. work' \in [Worker -> Task \cup {Null}]
  BY <1>1, AloneEnds DEF OrchestratorInv
<1>7. FilesTyped'
  BY <1>1, <1>5, <1>6 DEF OrchestratorInv, FilesTyped
<1>8. SealsSound'
  BY <1>1, <1>3, <1>4, <1>7, SealsGrow DEF OrchestratorInv
<1>9. \A p \in Plan : Orchestrator!FilesInOrder(p)'
  BY <1>1 DEF OrchestratorInv, Orchestrator!FilesInOrder
<1>10. QED
  BY <1>1, <1>7, <1>8, <1>9, EndSound

LEMMA StopSound ==
    ASSUME OrchestratorInv, NEW w \in Worker, Orchestrator!Stop(w)
    PROVE  OrchestratorInv'
<1>1. /\ work[w] # Null /\ Orchestrator!End(w)
      /\ UNCHANGED <<inbox, decision, outbox, delivered>>
  BY DEF Orchestrator!Stop
<1>2. work' \in [Worker -> Task \cup {Null}]
  BY <1>1, AloneEnds DEF OrchestratorInv
<1>3. \A p \in Plan : Orchestrator!FilesInOrder(p)'
  BY <1>1 DEF OrchestratorInv, Orchestrator!FilesInOrder
<1>4. CASE seals' = seals
  <2>1. FilesTyped'
    BY <1>1, <1>2, <1>4 DEF OrchestratorInv, FilesTyped
  <2>2. SealsSound'
    BY <1>1, <1>4, <2>1, FilesRest, FilesMove DEF OrchestratorInv
  <2>3. QED
    BY <1>1, <1>3, <2>1, <2>2, EndSound
<1>5. CASE seals' # seals
  <2>1. work[w].does = "append" /\ seals' = Append(seals, Torn)
    BY <1>5 DEF Orchestrator!Stop, Orchestrator!Does
  <2>2. seals' \in Seq(Seal \cup {Torn})
    BY <2>1, AppendProperties DEF OrchestratorInv, FilesTyped
  <2>3. FilesTyped'
    BY <1>1, <1>2, <2>2 DEF OrchestratorInv, FilesTyped
  <2>4. Orchestrator!Readable(seals)
    BY <1>1, <2>1 DEF OrchestratorInv, Busy, TaskOf
  <2>5. SealsSound'
    BY <1>1, <2>1, <2>3, <2>4, SealsGrow DEF OrchestratorInv
  <2>6. QED
    BY <1>1, <1>3, <2>3, <2>5, EndSound
<1>6. QED
  BY <1>4, <1>5

LEMMA WriteDecisionSound ==
    ASSUME OrchestratorInv, NEW w \in Worker, Orchestrator!WriteDecision(w)
    PROVE  OrchestratorInv'
<1>1. /\ work[w] # Null /\ work[w].does = "route" /\ Orchestrator!End(w)
      /\ UNCHANGED <<inbox, outbox, seals, delivered>>
  BY DEF Orchestrator!WriteDecision, Orchestrator!Does
<1>2. w \in Busy /\ TaskOf(w) /\ work[w] \in Task
  BY <1>1 DEF OrchestratorInv, Busy, FilesTyped
<1>3. PICK p, k : p = work[w].plan /\ k = work[w].of
  OBVIOUS
<1>4. p \in Plan /\ k \in Nat /\ decision[p] <= k /\ k <= inbox[p]
  BY <1>1, <1>2, <1>3 DEF TaskOf, Task
<1>5. decision' = [decision EXCEPT ![p] = k]
  BY <1>3 DEF Orchestrator!WriteDecision
<1>6. work' \in [Worker -> Task \cup {Null}]
  BY <1>1, AloneEnds DEF OrchestratorInv
<1>7. FilesTyped'
  BY <1>1, <1>4, <1>5, <1>6 DEF OrchestratorInv, FilesTyped
<1>8. \A q \in Plan :
        /\ decision[q] \in Nat /\ decision'[q] \in Nat /\ inbox[q] \in Nat
        /\ decision[q] <= decision'[q] /\ decision'[q] <= inbox[q] /\ inbox[q] <= inbox[q]
  BY <1>4, <1>5 DEF OrchestratorInv, FilesTyped, Orchestrator!FilesInOrder
<1>9. \A q \in Plan : \A i \in Orchestrator!Indices(q) : outbox[q][i] \in Nat
  BY DEF OrchestratorInv, FilesTyped
<1>10. SealsSound'
  BY <1>1, <1>7, <1>8, <1>9, FilesMove DEF OrchestratorInv
<1>11. ASSUME NEW q \in Plan PROVE Orchestrator!FilesInOrder(q)'
  <2>1. \A i \in Orchestrator!Indices(q) : outbox[q][i] <= decision'[q]
    BY <1>8, <1>9 DEF OrchestratorInv, Orchestrator!FilesInOrder
  <2>2. QED
    BY <1>1, <1>8, <2>1 DEF OrchestratorInv, Orchestrator!FilesInOrder
<1>12. QED
  BY <1>1, <1>7, <1>10, <1>11, EndSound

(* A split writes its next delivery, or the last one.                      *)
LEMMA WriteDeliverySound ==
    ASSUME OrchestratorInv, NEW w \in Worker, Orchestrator!WriteDelivery(w)
    PROVE  OrchestratorInv'
<1>1. /\ work[w] # Null /\ work[w].does = "split"
      /\ UNCHANGED <<inbox, decision, seals>>
  BY DEF Orchestrator!WriteDelivery, Orchestrator!Does
<1>2. w \in Busy /\ TaskOf(w) /\ work[w] \in Task /\ Busy \subseteq {w}
  BY <1>1 DEF OrchestratorInv, Busy, FilesTyped
<1>3. PICK p, k, m : p = work[w].plan /\ k = work[w].of /\ m = work[w].next
  OBVIOUS
<1>4. /\ p \in Plan /\ k \in Nat /\ k = decision[p] /\ m \in Orchestrator!Indices(p)
      /\ work[w] = [does |-> "split", plan |-> p, of |-> k, next |-> m]
      /\ \A i \in Orchestrator!Indices(p) : i < m => outbox[p][i] = k
  BY <1>1, <1>2, <1>3 DEF TaskOf, Task
<1>5. PICK n \in {1, 2} : /\ n = Len(Orchestrator!Deliveries(ChannelOf[p]))
                          /\ Orchestrator!Indices(p) = 1..n
  BY IndicesAre, <1>4
<1>6. outbox' = [outbox EXCEPT ![p][m] = k]
  BY <1>3 DEF Orchestrator!WriteDelivery, Orchestrator!InOrder
<1>7. /\ m = n => Orchestrator!End(w) /\ delivered' = [delivered EXCEPT ![p] = k]
      /\ m # n => work' = [work EXCEPT ![w].next = @ + 1] /\ delivered' = delivered
  BY <1>3, <1>5 DEF Orchestrator!WriteDelivery
<1>8. /\ DOMAIN outbox' = Plan
      /\ \A q \in Plan : q # p => outbox'[q] = outbox[q]
      /\ outbox'[p] = [outbox[p] EXCEPT ![m] = k]
  BY <1>4, <1>6 DEF OrchestratorInv, FilesTyped
<1>9. outbox[p] \in [Orchestrator!Indices(p) -> Nat]
  BY <1>4 DEF OrchestratorInv, FilesTyped
<1>10. /\ outbox'[p] \in [Orchestrator!Indices(p) -> Nat] /\ outbox'[p][m] = k
       /\ \A i \in Orchestrator!Indices(p) : i # m => outbox'[p][i] = outbox[p][i]
  BY <1>4, <1>8, <1>9
<1>11. /\ delivered' \in [Plan -> Nat]
       /\ \A q \in Plan : q # p => delivered'[q] = delivered[q]
       /\ delivered'[p] = IF m = n THEN k ELSE delivered[p]
  BY <1>4, <1>7 DEF OrchestratorInv, FilesTyped
<1>12. PICK task : task = [does |-> "split", plan |-> p, of |-> k, next |-> m + 1]
  OBVIOUS
<1>13. m # n => work' = [work EXCEPT ![w] = task]
  BY <1>4, <1>7, <1>12 DEF OrchestratorInv, FilesTyped
<1>14. m # n => m + 1 \in {1, 2} /\ m + 1 \in Orchestrator!Indices(p)
  <2>1. m \in 1..n
    BY <1>4, <1>5
  <2>2. m # n => m = 1 /\ n = 2
    BY <2>1
  <2>3. m # n => m + 1 \in {1, 2} /\ m + 1 \in 1..n
    BY <2>2
  <2>4. QED
    BY <1>5, <2>3
<1>15. m # n => task \in Task
  BY <1>4, <1>12, <1>14 DEF Task
<1>16. work' \in [Worker -> Task \cup {Null}]
  <2>1. CASE m = n
    BY <1>1, <1>7, <2>1, AloneEnds DEF OrchestratorInv
  <2>2. CASE m # n
    BY <1>13, <1>15, <2>2 DEF OrchestratorInv, FilesTyped
  <2>3. QED
    BY <2>1, <2>2
<1>17. FilesTyped'
  <2>1. \A q \in Plan : outbox'[q] \in [Orchestrator!Indices(q) -> Nat]
    BY <1>8, <1>10 DEF OrchestratorInv, FilesTyped
  <2>2. seals' \in Seq(Seal \cup {Torn})
    BY <1>1 DEF OrchestratorInv, FilesTyped
  <2>3. inbox' \in [Plan -> Nat] /\ decision' \in [Plan -> Nat]
    BY <1>1 DEF OrchestratorInv, FilesTyped
  <2>4. QED
    BY <1>8, <1>11, <1>16, <2>1, <2>2, <2>3 DEF FilesTyped
<1>18. Orchestrator!FilesInOrder(p)
  BY <1>4 DEF OrchestratorInv
<1>19. \A i \in Orchestrator!Indices(p) : outbox[p][i] <= k /\ outbox[p][i] \in Nat
  BY <1>4, <1>9, <1>18 DEF Orchestrator!FilesInOrder
<1>20. \A i \in Orchestrator!Indices(p) :
          outbox[p][i] <= outbox'[p][i] /\ outbox'[p][i] <= k
  BY <1>4, <1>10, <1>19
<1>21. SealsSound'
  <2>1. \A q \in Plan : inbox[q] <= inbox'[q] /\ decision[q] <= decision'[q]
    BY <1>1 DEF OrchestratorInv, FilesTyped
  <2>2. ASSUME NEW q \in Plan, q # p
        PROVE  \A i \in Orchestrator!Indices(q) : outbox[q][i] <= outbox'[q][i]
    BY <1>8, <2>2 DEF OrchestratorInv, FilesTyped
  <2>3. \A q \in Plan : \A i \in Orchestrator!Indices(q) : outbox[q][i] <= outbox'[q][i]
    BY <1>20, <2>2
  <2>4. QED
    BY <1>1, <1>17, <2>1, <2>3, FilesMove DEF OrchestratorInv
<1>22. ASSUME NEW q \in Plan PROVE Orchestrator!FilesInOrder(q)'
  <2>1. CASE q # p
    BY <1>1, <1>8, <1>11, <2>1 DEF OrchestratorInv, Orchestrator!FilesInOrder
  <2>2. CASE q = p
    <3>1. \A i \in Orchestrator!Indices(p) : outbox'[p][i] <= decision'[p]
      BY <1>1, <1>4, <1>20
    <3>2. ASSUME NEW i \in Orchestrator!Indices(p) PROVE delivered'[p] <= outbox'[p][i]
      <4>1. delivered[p] \in Nat /\ delivered[p] <= outbox[p][i]
        BY <1>4, <1>18 DEF OrchestratorInv, FilesTyped, Orchestrator!FilesInOrder
      <4>2. outbox[p][i] \in Nat /\ outbox'[p][i] \in Nat
        BY <1>9, <1>10
      <4>3. m # n => delivered'[p] <= outbox'[p][i]
        BY <1>11, <1>20, <4>1, <4>2
      <4>4. m = n => outbox'[p][i] = k
        <5>1. m = n /\ i # m => i < m
          BY <1>5
        <5>2. QED
          BY <1>4, <1>10, <5>1
      <4>5. m = n => delivered'[p] <= outbox'[p][i]
        BY <1>4, <1>11, <4>4
      <4>6. QED
        BY <4>3, <4>5
    <3>3. ASSUME NEW i \in Orchestrator!Indices(p), NEW j \in Orchestrator!Indices(p), i < j
          PROVE  outbox'[p][j] <= outbox'[p][i]
      <4>1. outbox[p][j] <= outbox[p][i]
        BY <1>18, <3>3 DEF Orchestrator!FilesInOrder
      <4>2. j = m => outbox'[p][i] = k
        BY <1>4, <1>5, <1>10, <3>3
      <4>3. outbox'[p][i] \in Nat /\ outbox'[p][j] \in Nat
        BY <1>10
      <4>4. CASE i = m
        BY <1>10, <1>20, <4>4
      <4>5. CASE j = m
        BY <1>4, <1>10, <4>2, <4>3, <4>5
      <4>6. CASE i # m /\ j # m
        BY <1>10, <4>1, <4>6
      <4>7. QED
        BY <4>4, <4>5, <4>6
    <3>4. decision'[p] <= inbox'[p]
      BY <1>1, <1>18 DEF Orchestrator!FilesInOrder
    <3>5. QED
      BY <2>2, <3>1, <3>2, <3>3, <3>4 DEF Orchestrator!FilesInOrder
  <2>3. QED
    BY <2>1, <2>2
<1>23. CASE m = n
  BY <1>1, <1>7, <1>17, <1>21, <1>22, <1>23, EndSound
<1>24. CASE m # n
  <2>1. Busy' \subseteq {w} /\ work'[w] = task
    BY <1>2, <1>13, <1>24 DEF Busy, OrchestratorInv, FilesTyped
  <2>2. task.does = "split" /\ task.plan = p /\ task.of = k /\ task.next = m + 1
    BY <1>12
  <2>3. k = decision'[p]
    BY <1>1, <1>4
  <2>4. \A i \in Orchestrator!Indices(p) : i < m + 1 => outbox'[p][i] = k
    <3>1. \A i \in Orchestrator!Indices(p) : i < m + 1 => i = m \/ i < m
      BY <1>4, <1>5
    <3>2. \A i \in Orchestrator!Indices(p) : i < m => i # m
      BY <1>4, <1>5
    <3>3. QED
      BY <1>4, <1>10, <3>1, <3>2
  <2>5. TaskOf(w)'
    BY <1>14, <1>24, <2>1, <2>2, <2>3, <2>4 DEF TaskOf
  <2>6. QED
    BY <1>17, <1>21, <1>22, <2>1, <2>5 DEF OrchestratorInv
<1>25. QED
  BY <1>23, <1>24

LEMMA OrchestratorStep ==
    ASSUME SerialOrchestrator, Orchestrator!Next
    PROVE  SerialOrchestrator'
<1> SUFFICES ASSUME ~crossed' PROVE OrchestratorInv'
  BY DEF SerialOrchestrator
<1>1. ASSUME NEW p \in Plan, Orchestrator!Forward(p)
      PROVE  OrchestratorInv'
  BY <1>1, ForwardSound DEF SerialOrchestrator, Orchestrator!Forward
<1>2. ASSUME NEW w \in Worker, NEW p \in Plan, Orchestrator!Route(w, p)
      PROVE  OrchestratorInv'
  BY <1>2, RouteSound DEF SerialOrchestrator, Orchestrator!Route, Orchestrator!Begin
<1>3. ASSUME NEW w \in Worker, NEW p \in Plan, Orchestrator!Split(w, p)
      PROVE  OrchestratorInv'
  BY <1>3, SplitSound DEF SerialOrchestrator, Orchestrator!Split, Orchestrator!Begin
<1>4. ASSUME NEW w \in Worker, Orchestrator!WriteDecision(w)
      PROVE  OrchestratorInv'
  BY <1>4, WriteDecisionSound DEF SerialOrchestrator, Orchestrator!WriteDecision
<1>5. ASSUME NEW w \in Worker, Orchestrator!WriteDelivery(w)
      PROVE  OrchestratorInv'
  BY <1>5, WriteDeliverySound DEF SerialOrchestrator, Orchestrator!WriteDelivery
<1>6. ASSUME NEW w \in Worker, NEW source \in Orchestrator!Sealable,
             Orchestrator!ReadFile(w, source)
      PROVE  OrchestratorInv'
  BY <1>6, ReadFileSound DEF SerialOrchestrator, Orchestrator!ReadFile, Orchestrator!Begin
<1>7. ASSUME NEW w \in Worker, Orchestrator!ReadHash(w)
      PROVE  OrchestratorInv'
  BY <1>7, ReadHashSound DEF SerialOrchestrator, Orchestrator!ReadHash
<1>8. ASSUME NEW w \in Worker, Orchestrator!AppendRow(w)
      PROVE  OrchestratorInv'
  BY <1>8, AppendRowSound DEF SerialOrchestrator, Orchestrator!AppendRow
<1>9. ASSUME NEW w \in Worker, Orchestrator!Stop(w)
      PROVE  OrchestratorInv'
  BY <1>9, StopSound DEF SerialOrchestrator, Orchestrator!Stop
<1>10. QED
  BY <1>1, <1>2, <1>3, <1>4, <1>5, <1>6, <1>7, <1>8, <1>9 DEF Orchestrator!Next

LEMMA OrchestratorStutters ==
    ASSUME SerialOrchestrator, UNCHANGED orchestratorState
    PROVE  SerialOrchestrator'
<1> SUFFICES ASSUME ~crossed' PROVE OrchestratorInv'
  BY DEF SerialOrchestrator
<1>1. UNCHANGED <<inbox, decision, outbox, seals, work, delivered, crossed>>
  BY DEF orchestratorState
<1>2. OrchestratorInv
  BY <1>1 DEF SerialOrchestrator
<1>3. FilesTyped'
  BY <1>1, <1>2 DEF OrchestratorInv, FilesTyped
<1>4. Busy' = Busy
  BY <1>1 DEF Busy
<1>5. \A p \in Plan : Orchestrator!FilesInOrder(p)'
  BY <1>1, <1>2 DEF OrchestratorInv, Orchestrator!FilesInOrder
<1>6. SealsSound'
  BY <1>1, <1>2, <1>3, FilesRest, FilesMove DEF OrchestratorInv
<1>7. ASSUME NEW w \in Busy PROVE TaskOf(w)'
  BY <1>1, <1>2 DEF OrchestratorInv, TaskOf, Known, Version, Newest
<1>8. QED
  BY <1>2, <1>3, <1>4, <1>5, <1>6, <1>7 DEF OrchestratorInv

LEMMA OrchestratorStarts ==
    ASSUME Orchestrator!Init
    PROVE  SerialOrchestrator
<1>1. FilesTyped
  <2>1. \A p \in Plan : outbox[p] \in [Orchestrator!Indices(p) -> Nat]
    BY DEF Orchestrator!Init
  <2>2. seals \in Seq(Seal \cup {Torn})
    BY EmptySeq DEF Orchestrator!Init
  <2>3. QED
    BY <2>1, <2>2 DEF FilesTyped, Orchestrator!Init
<1>2. Busy = {}
  BY DEF Busy, Orchestrator!Init
<1>3. \A p \in Plan : Orchestrator!FilesInOrder(p)
  BY DEF Orchestrator!Init, Orchestrator!FilesInOrder
<1>4. Len(seals) = 0
  BY EmptySeq DEF Orchestrator!Init
<1>5. SealsSound
  BY <1>4 DEF SealsSound, Orchestrator!SealsInOrder
<1>6. QED
  BY <1>1, <1>2, <1>3, <1>5 DEF SerialOrchestrator, OrchestratorInv

(* SerialFilesMoveOn: for any plans, channels, workers and bounds, commands*)
(* that do not overlap never leave a decision newer than its inbox file, a *)
(* delivery newer than its decision or older than the last whole split, or *)
(* a seal of a file followed by a seal of an earlier forwarding of it.     *)
THEOREM FilesMoveOn == Chains => []SerialFilesMoveOn
<1>1. ChainsInit => SerialOrchestrator
  BY OrchestratorStarts DEF ChainsInit
<1>2. SerialOrchestrator
      /\ [ChainsNext]_<<component, vars, trailState, eventState, logState, orchestratorState>>
      => SerialOrchestrator'
  BY OrchestratorStep, OrchestratorStutters DEF ChainsNext
<1>3. SerialOrchestrator => SerialFilesMoveOn
  BY DEF SerialOrchestrator, OrchestratorInv, SealsSound, SerialFilesMoveOn,
     Orchestrator!SerialFilesMoveOn
<1>4. QED
  BY <1>1, <1>2, <1>3, PTL DEF Chains
=============================================================================
