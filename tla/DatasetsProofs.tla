--------------------------- MODULE DatasetsProofs ---------------------------
(***************************************************************************)
(* What holds of the datasets, for every name, date, size and announcement *)
(* that the assumptions of Datasets allow: they fit the buffer and a host  *)
(* finds its way through them (WalkEnds), it is told the object            *)
(* (ObjectTold), what it announces is made (AnnouncedTaken) and a copy is  *)
(* what was copied (CopyKept).                                             *)
(*                                                                         *)
(* The invariant only says which dataset the buffer holds; the work is in  *)
(* what the conversions compute, which are loops.  A loop is Rounds of a   *)
(* function, so that what it computes is proved by induction over its      *)
(* rounds, and Rounds takes no operator: induction is applied to sets of   *)
(* numbers, by their least element.  From there on: numbers and strings as *)
(* bytes and back, the units of a name and its bytes again, texts that are *)
(* added to a dataset, the four datasets of the responder, what a host     *)
(* reads of them, and what send_object_info makes of a host's.             *)
(***************************************************************************)
EXTENDS Datasets, WellFoundedInduction, SequenceTheorems, TLAPS

-----------------------------------------------------------------------------
(***************************************************************************)
(* Induction over the natural numbers, and the rounds of a loop.           *)
(***************************************************************************)

\* Among some numbers there is a least one.
LEMMA Least ==
  ASSUME NEW I \in SUBSET Nat, I # {}
  PROVE  \E n \in I : \A i \in I : n <= i
<1> DEFINE less == {ss \in Nat \X Nat : ss[1] < ss[2]}
<1>1. IsWellFoundedOn(less, Nat)  BY NatLessThanWellFounded DEF OpToRel
<1>2. PICK n \in I : \A i \in I : ~(<<i, n>> \in less)
  <2> HIDE DEF less
  <2>1. QED BY <1>1, WFMin
<1>3. \A i \in I : n <= i
  <2>1. SUFFICES ASSUME NEW i \in I, ~(n <= i) PROVE FALSE  OBVIOUS
  <2>2. <<i, n>> \in less  BY <2>1
  <2>3. QED BY <1>2, <2>2
<1>4. QED BY <1>3

\* A set of numbers with 0, and with the next of each of its numbers, has them all:
\* the least number that it has not is not 0, and the one before it is in the set.
LEMMA Induction ==
  ASSUME NEW P, 0 \in P, \A n \in Nat : n \in P => n + 1 \in P
  PROVE  Nat \subseteq P
<1> DEFINE rest == Nat \ P
<1>1. SUFFICES ASSUME rest # {} PROVE FALSE  OBVIOUS
<1>2. PICK x \in rest : \A y \in rest : x <= y
  <2>1. rest \in SUBSET Nat  OBVIOUS
  <2> HIDE DEF rest
  <2>2. QED BY <1>1, <2>1, Least
<1>3. x \in Nat /\ x # 0 /\ x - 1 \in Nat  OBVIOUS
<1>4. x - 1 \in rest  BY <1>3
<1>5. QED BY <1>2, <1>3, <1>4

\* The states of a loop before its first round and after each of n.
Iterates(round, start, n, f) ==
  f = [k \in 0 .. n |-> IF k = 0 THEN start ELSE round[k][f[k - 1]]]

\* The state after a round follows from the one before it.
LEMMA IteratesAt ==
  ASSUME NEW round, NEW start, NEW n \in Nat, NEW f, Iterates(round, start, n, f)
  PROVE  f[0] = start /\ \A k \in 1 .. n : f[k] = round[k][f[k - 1]]
<1>1. DOMAIN f = 0 .. n /\ \A k \in 0 .. n : f[k] = IF k = 0 THEN start ELSE round[k][f[k - 1]]
  BY DEF Iterates
<1>2. QED BY <1>1

\* One more round.
LEMMA IteratesMore ==
  ASSUME NEW round, NEW start, NEW n \in Nat, NEW f, Iterates(round, start, n, f)
  PROVE  Iterates(round, start, n + 1,
                  [k \in 0 .. n + 1 |-> IF k \in 0 .. n THEN f[k] ELSE round[n + 1][f[n]]])
<1> DEFINE g == [k \in 0 .. n + 1 |-> IF k \in 0 .. n THEN f[k] ELSE round[n + 1][f[n]]]
<1>1. f[0] = start /\ \A k \in 1 .. n : f[k] = round[k][f[k - 1]]  BY IteratesAt
<1>2. ASSUME NEW k \in 0 .. n + 1
      PROVE  g[k] = IF k = 0 THEN start ELSE round[k][g[k - 1]]
  <2>1. CASE k = 0  BY <1>1, <2>1
  <2>2. CASE k \in 1 .. n
    <3>1. g[k] = f[k] /\ g[k - 1] = f[k - 1]  BY <2>2
    <3>2. QED BY <1>1, <2>2, <3>1
  <2>3. CASE k = n + 1
    <3>1. g[k] = round[n + 1][f[n]] /\ g[k - 1] = f[n]  BY <2>3
    <3>2. QED BY <2>3, <3>1
  <2>4. QED BY <1>2, <2>1, <2>2, <2>3
<1>3. g = [k \in 0 .. n + 1 |-> g[k]]  OBVIOUS
<1>4. g = [k \in 0 .. n + 1 |-> IF k = 0 THEN start ELSE round[k][g[k - 1]]]
  <2> HIDE DEF g
  <2>1. QED BY <1>2, <1>3
<1>5. QED BY <1>4 DEF Iterates

\* There are such states, and only one such function of them.
LEMMA IteratesOnce ==
  ASSUME NEW round, NEW start
  PROVE  \A n \in Nat : /\ \E f : Iterates(round, start, n, f)
                        /\ \A f, g : Iterates(round, start, n, f) /\ Iterates(round, start, n, g)
                                       => f = g
<1> DEFINE P == {n \in Nat : \E f : Iterates(round, start, n, f)}
<1>1. 0 \in P
  <2>1. Iterates(round, start, 0, [k \in 0 .. 0 |-> start])  BY DEF Iterates
  <2>2. QED BY <2>1
<1>2. \A n \in Nat : n \in P => n + 1 \in P
  <2>1. SUFFICES ASSUME NEW n \in Nat, n \in P PROVE n + 1 \in P  OBVIOUS
  <2>2. PICK f : Iterates(round, start, n, f)  BY <2>1
  <2>3. \E g : Iterates(round, start, n + 1, g)  BY <2>2, IteratesMore
  <2>4. QED BY <2>3
<1>3. Nat \subseteq P
  <2> HIDE DEF P
  <2>1. QED BY <1>1, <1>2, Induction
<1>4. ASSUME NEW n \in Nat, NEW f, NEW g,
             Iterates(round, start, n, f), Iterates(round, start, n, g)
      PROVE  f = g
  <2>1. /\ f[0] = start /\ \A k \in 1 .. n : f[k] = round[k][f[k - 1]]
        /\ g[0] = start /\ \A k \in 1 .. n : g[k] = round[k][g[k - 1]]
    <3>1. f[0] = start /\ \A k \in 1 .. n : f[k] = round[k][f[k - 1]]  BY <1>4, IteratesAt
    <3>2. g[0] = start /\ \A k \in 1 .. n : g[k] = round[k][g[k - 1]]  BY <1>4, IteratesAt
    <3>3. QED BY <3>1, <3>2
  <2> DEFINE Q == {k \in Nat : k <= n => f[k] = g[k]}
  <2>2. 0 \in Q  BY <2>1
  <2>3. \A k \in Nat : k \in Q => k + 1 \in Q
    <3>1. SUFFICES ASSUME NEW k \in Nat, k \in Q, k + 1 <= n PROVE f[k + 1] = g[k + 1]  OBVIOUS
    <3>2. k + 1 \in 1 .. n /\ (k + 1) - 1 = k /\ f[k] = g[k]  BY <3>1
    <3>3. f[k + 1] = round[k + 1][f[k]] /\ g[k + 1] = round[k + 1][g[k]]  BY <2>1, <3>2
    <3>4. QED BY <3>2, <3>3
  <2>4. Nat \subseteq Q
    <3> HIDE DEF Q
    <3>1. QED BY <2>2, <2>3, Induction
  <2>5. \A k \in 0 .. n : f[k] = g[k]  BY <2>4
  <2>6. f = [k \in 0 .. n |-> f[k]] /\ g = [k \in 0 .. n |-> g[k]]  BY <1>4 DEF Iterates
  <2>7. QED BY <2>5, <2>6
<1>5. QED BY <1>3, <1>4

\* What Rounds is: the start, and one more round after what was reached.
LEMMA RoundsAre ==
  ASSUME NEW round, NEW start
  PROVE  /\ Rounds(round, start, 0) = start
         /\ \A n \in Nat : Rounds(round, start, n + 1) = round[n + 1][Rounds(round, start, n)]
<1>1. ASSUME NEW n \in Nat
      PROVE  \E f : Iterates(round, start, n, f) /\ Rounds(round, start, n) = f[n]
  <2> DEFINE g == CHOOSE f : Iterates(round, start, n, f)
  <2>1. Rounds(round, start, n) = g[n]  BY DEF Rounds, Iterates
  <2>2. Iterates(round, start, n, g)
    <3>1. \E f : Iterates(round, start, n, f)  BY IteratesOnce
    <3>2. QED BY <3>1
  <2>3. QED BY <2>1, <2>2
<1>2. Rounds(round, start, 0) = start
  <2>1. PICK f : Iterates(round, start, 0, f) /\ Rounds(round, start, 0) = f[0]  BY <1>1
  <2>2. f[0] = start  BY <2>1 DEF Iterates
  <2>3. QED BY <2>1, <2>2
<1>3. ASSUME NEW n \in Nat
      PROVE  Rounds(round, start, n + 1) = round[n + 1][Rounds(round, start, n)]
  <2>1. PICK f : Iterates(round, start, n, f) /\ Rounds(round, start, n) = f[n]  BY <1>1
  <2>2. PICK h : Iterates(round, start, n + 1, h) /\ Rounds(round, start, n + 1) = h[n + 1]
    BY <1>1
  <2> DEFINE g == [k \in 0 .. n + 1 |-> IF k \in 0 .. n THEN f[k] ELSE round[n + 1][f[n]]]
  <2>3. Iterates(round, start, n + 1, g)  BY <2>1, IteratesMore
  <2>4. g = h
    <3> HIDE DEF g
    <3>1. n + 1 \in Nat  OBVIOUS
    <3>2. QED BY <2>2, <2>3, <3>1, IteratesOnce
  <2>5. g[n + 1] = round[n + 1][f[n]]  OBVIOUS
  <2>6. QED BY <2>1, <2>2, <2>4, <2>5
<1>4. QED BY <1>2, <1>3

\* The states that a loop goes through, when they are known.
Reaches(round, start, n, f) ==
  f[0] = start /\ \A k \in 1 .. n : f[k] = round[k][f[k - 1]]

\* Rounds goes through the states that are known.
LEMMA RoundsReach ==
  ASSUME NEW round, NEW start, NEW n \in Nat, NEW f, Reaches(round, start, n, f)
  PROVE  \A k \in 0 .. n : Rounds(round, start, k) = f[k]
<1> DEFINE P == {k \in Nat : k <= n => Rounds(round, start, k) = f[k]}
<1>1. 0 \in P
  <2>1. Rounds(round, start, 0) = start  BY RoundsAre
  <2>2. f[0] = start  BY DEF Reaches
  <2>3. QED BY <2>1, <2>2
<1>2. \A k \in Nat : k \in P => k + 1 \in P
  <2>1. SUFFICES ASSUME NEW k \in Nat, k \in P, k + 1 <= n
                 PROVE  Rounds(round, start, k + 1) = f[k + 1]
    OBVIOUS
  <2>2. k + 1 \in 1 .. n /\ (k + 1) - 1 = k /\ Rounds(round, start, k) = f[k]  BY <2>1
  <2>3. f[k + 1] = round[k + 1][f[k]]  BY <2>2 DEF Reaches
  <2>4. \A i \in Nat : Rounds(round, start, i + 1) = round[i + 1][Rounds(round, start, i)]
    BY RoundsAre
  <2>5. QED BY <2>1, <2>2, <2>3, <2>4
<1>3. Nat \subseteq P
  <2> HIDE DEF P
  <2>1. QED BY <1>1, <1>2, Induction
<1>4. QED BY <1>3

\* The set that no round leaves.
LEMMA RoundsIn ==
  ASSUME NEW S, NEW round, NEW start \in S, NEW n \in Nat,
         \A k \in 1 .. n : \A x \in S : round[k][x] \in S
  PROVE  \A k \in 0 .. n : Rounds(round, start, k) \in S
<1> DEFINE P == {k \in Nat : k <= n => Rounds(round, start, k) \in S}
<1>1. 0 \in P  BY RoundsAre
<1>2. \A k \in Nat : k \in P => k + 1 \in P
  <2>1. SUFFICES ASSUME NEW k \in Nat, k \in P, k + 1 <= n
                 PROVE  Rounds(round, start, k + 1) \in S
    OBVIOUS
  <2>2. k + 1 \in 1 .. n /\ Rounds(round, start, k) \in S  BY <2>1
  <2>3. Rounds(round, start, k + 1) = round[k + 1][Rounds(round, start, k)]  BY RoundsAre
  <2>4. QED BY <2>2, <2>3
<1>3. Nat \subseteq P
  <2> HIDE DEF P
  <2>1. QED BY <1>1, <1>2, Induction
<1>4. QED BY <1>3

-----------------------------------------------------------------------------
(***************************************************************************)
(* Bytes, numbers and strings.                                             *)
(***************************************************************************)

Code == {u \in Nat : u < 65536}
Byte == {b \in Nat : b < 256}
CodeUnit == Below(65536)

\* A function on 1 .. n is a sequence.
LEMMA FunctionSeq ==
  ASSUME NEW S, NEW n \in Nat, NEW f \in [1 .. n -> S]
  PROVE  f \in Seq(S) /\ Len(f) = n /\ DOMAIN f = 1 .. n
<1>1. f \in Seq(S)  BY SeqDef
<1>2. DOMAIN f = 1 .. n  OBVIOUS
<1>3. QED BY <1>1, <1>2, LenProperties

Joined(S, a, b) ==
  /\ a \o b \in Seq(S) /\ Len(a \o b) = Len(a) + Len(b) /\ Len(a) \in Nat /\ Len(b) \in Nat
  /\ \A i \in 1 .. Len(a) : (a \o b)[i] = a[i]
  /\ \A i \in 1 .. Len(b) : (a \o b)[Len(a) + i] = b[i]

\* The elements of two sequences, one after the other.
LEMMA ConcatAre ==
  ASSUME NEW S, NEW a \in Seq(S), NEW b \in Seq(S)
  PROVE  Joined(S, a, b)
<1>1. Len(a) \in Nat /\ Len(b) \in Nat  BY LenProperties
<1>2. /\ a \o b \in Seq(S) /\ Len(a \o b) = Len(a) + Len(b)
      /\ \A i \in 1 .. Len(a) + Len(b) : (a \o b)[i] =
                     IF i <= Len(a) THEN a[i] ELSE b[i - Len(a)]
  BY ConcatProperties
<1>3. \A i \in 1 .. Len(a) : (a \o b)[i] = a[i]  BY <1>1, <1>2
<1>4. ASSUME NEW i \in 1 .. Len(b) PROVE (a \o b)[Len(a) + i] = b[i]
  <2>1. Len(a) + i \in 1 .. Len(a) + Len(b) /\ ~(Len(a) + i <= Len(a)) /\ (Len(a) + i) - Len(a) = i
    BY <1>1
  <2>2. QED BY <1>2, <2>1
<1>5. QED BY <1>1, <1>2, <1>3, <1>4 DEF Joined

\* The two bytes of a unit.
LEMMA Halves ==
  ASSUME NEW u \in Code
  PROVE  u % 256 \in Byte /\ u \div 256 \in Byte /\ (u % 256) + 256 * (u \div 256) = u
BY DEF Byte, Code

\* Zeros is a sequence of n bytes.
LEMMA ZerosAre ==
  ASSUME NEW n \in Nat
  PROVE  Zeros(n) \in Seq(Byte) /\ Len(Zeros(n)) = n /\ \A i \in 1 .. n : Zeros(n)[i] = 0
<1>1. Zeros(n) \in [1 .. n -> Byte]  BY DEF Zeros, Byte
<1>2. QED BY <1>1, FunctionSeq DEF Zeros

\* A number takes n bytes, the first of which is its low one.
LEMMA NumberAre ==
  ASSUME NEW value \in Nat, NEW n \in Nat
  PROVE  /\ Number(value, n) \in Seq(Byte) /\ Len(Number(value, n)) = n
         /\ n > 0 => Number(value, n)[1] = value % 256
<1> DEFINE shift == [k \in 1 .. n |-> [v \in Nat |-> v \div 256]]
<1>1. \A k \in 0 .. n : Rounds(shift, value, k) \in Nat
  <2>1. \A k \in 1 .. n : \A v \in Nat : shift[k][v] \in Nat  OBVIOUS
  <2> HIDE DEF shift
  <2>2. QED BY <2>1, RoundsIn
<1>2. Rounds(shift, value, 0) = value
  <2> HIDE DEF shift
  <2>1. QED BY RoundsAre
<1>3. Number(value, n) = [i \in 1 .. n |-> Rounds(shift, value, i - 1) % 256]  BY DEF Number
<1> HIDE DEF shift
<1>4. Number(value, n) \in [1 .. n -> Byte]
  <2>1. \A i \in 1 .. n : Rounds(shift, value, i - 1) % 256 \in Byte  BY <1>1 DEF Byte
  <2>2. QED BY <1>3, <2>1
<1>5. n > 0 => Number(value, n)[1] = value % 256
  <2>1. n > 0 => 1 \in 1 .. n  OBVIOUS
  <2>2. n > 0 => Number(value, n)[1] = Rounds(shift, value, 1 - 1) % 256  BY <1>3, <2>1
  <2>3. 1 - 1 = 0  OBVIOUS
  <2>4. QED BY <1>2, <2>2, <2>3
<1>6. QED BY <1>4, <1>5, FunctionSeq

\* A number takes n bytes.
LEMMA NumberSeq ==
  ASSUME NEW value \in Nat, NEW n \in Nat
  PROVE  Number(value, n) \in Seq(Byte) /\ Len(Number(value, n)) = n
BY NumberAre

\* The first byte of a number is its low one.
LEMMA NumberFirst ==
  ASSUME NEW value \in Nat, NEW n \in Nat, n > 0
  PROVE  Number(value, n)[1] = value % 256
BY NumberAre

\* The bytes of units, two of each.
LEMMA Bytes2Are ==
  ASSUME NEW units \in Seq(Code)
  PROVE  /\ Bytes2(units) \in Seq(Byte) /\ Len(Bytes2(units)) = 2 * Len(units)
         /\ \A i \in 1 .. Len(units) : /\ Bytes2(units)[2 * i - 1] = units[i] % 256
                                       /\ Bytes2(units)[2 * i] = units[i] \div 256
<1>1. Len(units) \in Nat /\ \A i \in 1 .. Len(units) : units[i] \in Code
  BY LenProperties, ElementOfSeq
<1>2. ASSUME NEW i \in 1 .. 2 * Len(units)
      PROVE  (IF i % 2 = 1 THEN units[(i + 1) \div 2] % 256 ELSE units[i \div 2] \div 256)
               \in Byte
  <2>1. CASE i % 2 = 1
    <3>1. (i + 1) \div 2 \in 1 .. Len(units)  BY <1>1, <1>2, <2>1
    <3>2. QED BY <1>1, <2>1, <3>1, Halves
  <2>2. CASE i % 2 # 1
    <3>1. i \div 2 \in 1 .. Len(units)  BY <1>1, <1>2, <2>2
    <3>2. QED BY <1>1, <2>2, <3>1, Halves
  <2>3. QED BY <2>1, <2>2
<1>3. Bytes2(units) \in [1 .. 2 * Len(units) -> Byte]  BY <1>2 DEF Bytes2
<1>4. ASSUME NEW i \in 1 .. Len(units)
      PROVE  /\ Bytes2(units)[2 * i - 1] = units[i] % 256
             /\ Bytes2(units)[2 * i] = units[i] \div 256
  <2>1. 2 * i - 1 \in 1 .. 2 * Len(units) /\ (2 * i - 1) % 2 = 1 /\ ((2 * i - 1) + 1) \div 2 = i
    BY <1>1
  <2>2. 2 * i \in 1 .. 2 * Len(units) /\ (2 * i) % 2 # 1 /\ (2 * i) \div 2 = i  BY <1>1
  <2>3. Bytes2(units)[2 * i - 1] = units[i] % 256  BY <2>1 DEF Bytes2
  <2>4. Bytes2(units)[2 * i] = units[i] \div 256  BY <2>2 DEF Bytes2
  <2>5. QED BY <2>3, <2>4
<1>5. Bytes2(units) \in Seq(Byte) /\ Len(Bytes2(units)) = 2 * Len(units)
  <2>1. 2 * Len(units) \in Nat  BY <1>1
  <2>2. QED BY <1>3, <2>1, FunctionSeq
<1>6. QED BY <1>4, <1>5

\* The bytes of a string with its count and its end.
StringAt(d, place, u) ==
  /\ place \in Nat \ {0} /\ place + 2 * Len(u) + 2 <= Len(d)
  /\ d[place] = Len(u) + 1
  /\ \A i \in 1 .. Len(u) : /\ d[place + 2 * i - 1] = u[i] % 256
                            /\ d[place + 2 * i] = u[i] \div 256
  /\ d[place + 2 * Len(u) + 1] = 0 /\ d[place + 2 * Len(u) + 2] = 0

\* The bytes of a string: its count, its units and its end.
LEMMA StringAre ==
  ASSUME NEW u \in Seq(CodeUnit), Len(u) < 255
  PROVE  /\ String(u) \in Seq(Byte) /\ Len(String(u)) = 2 * Len(u) + 3
         /\ StringAt(String(u), 1, u)
<1>1. Len(u) \in Nat /\ \A i \in 1 .. Len(u) : u[i] \in CodeUnit
  BY LenProperties, ElementOfSeq
<1>2. u \in Seq(Code)  BY SeqMonotonic DEF CodeUnit, Code, Below
<1> DEFINE count == <<CountOf(u) % 256>>
           bytes == Bytes2(u)
           end == Zeros(2)
<1>3. count \in Seq(Byte) /\ Len(count) = 1 /\ count[1] = Len(u) + 1
  BY <1>1 DEF CountOf, Byte
<1>4. /\ bytes \in Seq(Byte) /\ Len(bytes) = 2 * Len(u)
      /\ \A i \in 1 .. Len(u) : /\ bytes[2 * i - 1] = u[i] % 256
                                /\ bytes[2 * i] = u[i] \div 256
  BY <1>2, Bytes2Are
<1>5. end \in Seq(Byte) /\ Len(end) = 2 /\ end[1] = 0 /\ end[2] = 0
  <2>1. end \in Seq(Byte) /\ Len(end) = 2 /\ \A i \in 1 .. 2 : end[i] = 0  BY ZerosAre
  <2>2. QED BY <2>1
<1>6. String(u) = (count \o bytes) \o end  BY DEF String
<1> HIDE DEF count, bytes, end
<1>7. /\ count \o bytes \in Seq(Byte) /\ Len(count \o bytes) = 1 + 2 * Len(u)
      /\ (count \o bytes)[1] = count[1]
      /\ \A i \in 1 .. 2 * Len(u) : (count \o bytes)[1 + i] = bytes[i]
  <2>1. /\ count \o bytes \in Seq(Byte) /\ Len(count \o bytes) = Len(count) + Len(bytes)
        /\ \A i \in 1 .. Len(count) : (count \o bytes)[i] = count[i]
        /\ \A i \in 1 .. Len(bytes) : (count \o bytes)[Len(count) + i] = bytes[i]
    <3>1. Joined(Byte, count, bytes)  BY <1>3, <1>4, ConcatAre
    <3>2. QED BY <3>1 DEF Joined
  <2>2. QED BY <1>3, <1>4, <2>1
<1>8. /\ String(u) \in Seq(Byte) /\ Len(String(u)) = 2 * Len(u) + 3
      /\ \A i \in 1 .. 1 + 2 * Len(u) : String(u)[i] = (count \o bytes)[i]
      /\ String(u)[2 * Len(u) + 2] = 0 /\ String(u)[2 * Len(u) + 3] = 0
  <2> DEFINE most == count \o bytes
  <2>1. /\ most \o end \in Seq(Byte) /\ Len(most \o end) = Len(most) + Len(end)
        /\ \A i \in 1 .. Len(most) : (most \o end)[i] = most[i]
        /\ \A i \in 1 .. Len(end) : (most \o end)[Len(most) + i] = end[i]
    <3> HIDE DEF most
    <3>1. most \in Seq(Byte)  BY <1>7 DEF most
    <3>2. Joined(Byte, most, end)  BY <1>5, <3>1, ConcatAre
    <3>3. QED BY <3>2 DEF Joined
  <2>2. Len(most) = 1 + 2 * Len(u) /\ Len(end) = 2  BY <1>5, <1>7
  <2> HIDE DEF most
  <2>3. String(u) = most \o end  BY <1>6 DEF most
  <2>4. Len(most) + 1 = 2 * Len(u) + 2 /\ Len(most) + 2 = 2 * Len(u) + 3  BY <1>1, <2>2
  <2>5. (most \o end)[Len(most) + 1] = end[1] /\ (most \o end)[Len(most) + 2] = end[2]
    BY <2>1, <2>2
  <2>6. \A i \in 1 .. 1 + 2 * Len(u) : String(u)[i] = most[i]  BY <2>1, <2>2, <2>3
  <2>7. QED BY <1>1, <1>5, <2>1, <2>2, <2>3, <2>4, <2>5, <2>6 DEF most
<1>9. String(u)[1] = Len(u) + 1  BY <1>1, <1>3, <1>7, <1>8
<1>10. ASSUME NEW i \in 1 .. Len(u)
       PROVE  String(u)[1 + 2 * i - 1] = u[i] % 256 /\ String(u)[1 + 2 * i] = u[i] \div 256
  <2>1. 2 * i - 1 \in 1 .. 2 * Len(u) /\ 2 * i \in 1 .. 2 * Len(u)  BY <1>1
  <2>2. 1 + (2 * i - 1) \in 1 .. 1 + 2 * Len(u) /\ 1 + 2 * i \in 1 .. 1 + 2 * Len(u)
    BY <1>1
  <2>3. String(u)[1 + (2 * i - 1)] = bytes[2 * i - 1] /\ String(u)[1 + 2 * i] = bytes[2 * i]
    BY <1>7, <1>8, <2>1, <2>2
  <2>4. 1 + 2 * i - 1 = 1 + (2 * i - 1)  OBVIOUS
  <2>5. QED BY <1>4, <2>3, <2>4
<1>11. QED BY <1>1, <1>5, <1>8, <1>9, <1>10 DEF StringAt

\* A string stays where it is when more follows, and where it is put.
Begins(d, e) ==
  /\ Len(d) \in Nat /\ Len(e) \in Nat /\ Len(d) <= Len(e)
  /\ \A i \in 1 .. Len(d) : e[i] = d[i]

\* A dataset begins one that has more after it.
LEMMA BeginsAre ==
  ASSUME NEW d \in Seq(Byte), NEW c \in Seq(Byte)
  PROVE  Begins(d, d \o c)
<1>1. Joined(Byte, d, c)  BY ConcatAre
<1>2. QED BY <1>1 DEF Joined, Begins

\* A string stays where it is.
LEMMA StringKept ==
  ASSUME NEW d, NEW e, Begins(d, e), NEW place, NEW u \in Seq(CodeUnit), StringAt(d, place, u)
  PROVE  StringAt(e, place, u)
<1>1. Len(u) \in Nat /\ place \in Nat \ {0} /\ place + 2 * Len(u) + 2 <= Len(d)
  BY LenProperties DEF StringAt
<1>2. /\ Len(d) \in Nat /\ Len(e) \in Nat /\ Len(d) <= Len(e)
      /\ \A i \in 1 .. Len(d) : e[i] = d[i]
  BY DEF Begins
<1>3. e[place] = Len(u) + 1  BY <1>1, <1>2 DEF StringAt
<1>4. ASSUME NEW i \in 1 .. Len(u)
      PROVE  e[place + 2 * i - 1] = u[i] % 256 /\ e[place + 2 * i] = u[i] \div 256
  <2>1. place + 2 * i - 1 \in 1 .. Len(d) /\ place + 2 * i \in 1 .. Len(d)  BY <1>1, <1>2
  <2>2. QED BY <1>2, <2>1 DEF StringAt
<1>5. e[place + 2 * Len(u) + 1] = 0 /\ e[place + 2 * Len(u) + 2] = 0
  <2>1. /\ place + 2 * Len(u) + 1 \in 1 .. Len(d) /\ place + 2 * Len(u) + 2 \in 1 .. Len(d)
    BY <1>1, <1>2
  <2>2. d[place + 2 * Len(u) + 1] = 0 /\ d[place + 2 * Len(u) + 2] = 0  BY DEF StringAt
  <2>3. QED BY <1>2, <2>1, <2>2
<1>6. QED BY <1>1, <1>2, <1>3, <1>4, <1>5 DEF StringAt

\* A string is found where it was put.
LEMMA StringPut ==
  ASSUME NEW d \in Seq(Byte), NEW u \in Seq(CodeUnit), Len(u) < 255
  PROVE  /\ d \o String(u) \in Seq(Byte) /\ Len(d \o String(u)) = Len(d) + 2 * Len(u) + 3
         /\ StringAt(d \o String(u), Len(d) + 1, u)
<1> DEFINE s == String(u)
<1>1. s \in Seq(Byte) /\ Len(s) = 2 * Len(u) + 3 /\ StringAt(s, 1, u)  BY StringAre
<1> HIDE DEF s
<1>2. Len(d) \in Nat /\ Len(u) \in Nat  BY LenProperties
<1>3. /\ d \o s \in Seq(Byte) /\ Len(d \o s) = Len(d) + Len(s)
      /\ \A i \in 1 .. Len(s) : (d \o s)[Len(d) + i] = s[i]
  <2>1. Joined(Byte, d, s)  BY <1>1, ConcatAre
  <2>2. QED BY <2>1 DEF Joined
<1>4. (d \o s)[Len(d) + 1] = Len(u) + 1  BY <1>1, <1>2, <1>3 DEF StringAt
<1>5. ASSUME NEW i \in 1 .. Len(u)
      PROVE  /\ (d \o s)[Len(d) + 1 + 2 * i - 1] = u[i] % 256
             /\ (d \o s)[Len(d) + 1 + 2 * i] = u[i] \div 256
  <2>1. 2 * i \in 1 .. Len(s) /\ 1 + 2 * i \in 1 .. Len(s)  BY <1>1, <1>2
  <2>2. s[2 * i] = u[i] % 256 /\ s[1 + 2 * i] = u[i] \div 256
    <3>1. 1 + 2 * i - 1 = 2 * i  OBVIOUS
    <3>2. QED BY <1>1, <3>1 DEF StringAt
  <2>3. (d \o s)[Len(d) + 2 * i] = s[2 * i] /\ (d \o s)[Len(d) + (1 + 2 * i)] = s[1 + 2 * i]
    BY <1>3, <2>1
  <2>4. Len(d) + 1 + 2 * i - 1 = Len(d) + 2 * i /\ Len(d) + 1 + 2 * i = Len(d) + (1 + 2 * i)
    BY <1>2
  <2>5. QED BY <2>2, <2>3, <2>4
<1>6. (d \o s)[Len(d) + 1 + 2 * Len(u) + 1] = 0 /\ (d \o s)[Len(d) + 1 + 2 * Len(u) + 2] = 0
  <2>1. /\ Len(d) + 1 + 2 * Len(u) + 1 = Len(d) + (2 * Len(u) + 2)
        /\ Len(d) + 1 + 2 * Len(u) + 2 = Len(d) + (2 * Len(u) + 3)
    BY <1>2
  <2>2. s[2 * Len(u) + 2] = 0 /\ s[2 * Len(u) + 3] = 0
    <3>1. 1 + 2 * Len(u) + 1 = 2 * Len(u) + 2 /\ 1 + 2 * Len(u) + 2 = 2 * Len(u) + 3  BY <1>2
    <3>2. s[1 + 2 * Len(u) + 1] = 0 /\ s[1 + 2 * Len(u) + 2] = 0  BY <1>1 DEF StringAt
    <3>3. QED BY <3>1, <3>2
  <2>3. 2 * Len(u) + 2 \in 1 .. Len(s) /\ 2 * Len(u) + 3 \in 1 .. Len(s)  BY <1>1, <1>2
  <2>4. QED BY <1>3, <2>1, <2>2, <2>3
<1>7. StringAt(d \o s, Len(d) + 1, u)
  <2> DEFINE e == d \o s
             place == Len(d) + 1
  <2>1. place \in Nat \ {0} /\ place + 2 * Len(u) + 2 <= Len(e)  BY <1>1, <1>2, <1>3
  <2>2. /\ e[place] = Len(u) + 1
        /\ \A i \in 1 .. Len(u) : /\ e[place + 2 * i - 1] = u[i] % 256
                                  /\ e[place + 2 * i] = u[i] \div 256
        /\ e[place + 2 * Len(u) + 1] = 0 /\ e[place + 2 * Len(u) + 2] = 0
    BY <1>4, <1>5, <1>6
  <2> HIDE DEF e, place
  <2>3. StringAt(e, place, u)  BY <2>1, <2>2 DEF StringAt
  <2>4. QED BY <2>3 DEF e, place
<1>8. Len(d \o s) = Len(d) + 2 * Len(u) + 3  BY <1>1, <1>2, <1>3
<1>9. QED BY <1>3, <1>7, <1>8 DEF s

\* The first place of a sequence that passes a test is the least of those that do.
LEMMA MinIs ==
  ASSUME NEW I \in SUBSET Int, NEW n \in I, \A i \in I : n <= i
  PROVE  Min(I) = n
<1>1. \A x \in I : (\A y \in I : x =< y) => x = n  OBVIOUS
<1>2. QED BY <1>1 DEF Min

\* The end of a string is the first unit that is 0.
LEMMA EndIs ==
  ASSUME NEW seq, Len(seq) \in Nat, NEW n \in 1 .. Len(seq), seq[n] = 0,
         \A i \in 1 .. n - 1 : seq[i] # 0
  PROVE  SelectInSeq(seq, LAMBDA u : u = 0) = n
<1> DEFINE I == {i \in 1 .. Len(seq) : seq[i] = 0}
<1>1. I \in SUBSET Int /\ n \in I  OBVIOUS
<1>2. \A i \in I : n <= i
  <2>1. SUFFICES ASSUME NEW i \in I, ~(n <= i) PROVE FALSE  OBVIOUS
  <2>2. i \in 1 .. n - 1  BY <2>1
  <2>3. QED BY <2>1, <2>2
<1>3. SelectInSeq(seq, LAMBDA u : u = 0) = IF I # {} THEN Min(I) ELSE 0  BY DEF SelectInSeq
<1> HIDE DEF I
<1>4. Min(I) = n  BY <1>1, <1>2, MinIs
<1>5. QED BY <1>1, <1>3, <1>4

\* What is read where a string is.
StringReads(d, place, u) ==
  /\ UnitsAt(d, place) = u /\ d[place] = Len(u) + 1
  /\ NextString(d, place) = place + 2 * Len(u) + 3
  /\ place + 2 * d[place] <= Len(d)
  /\ \A stale : /\ \A i \in 1 .. Len(u) : UnitOf(d, place + 2 * i - 1, stale) = u[i]
                /\ UnitOf(d, place + 2 * Len(u) + 1, stale) = 0

\* Where a string is, its units are read, and its count leads to the next.
LEMMA StringRead ==
  ASSUME NEW d \in Seq(Byte), NEW place, NEW u \in Seq(CodeUnit), StringAt(d, place, u)
  PROVE  StringReads(d, place, u)
<1>1. /\ Len(d) \in Nat /\ Len(u) \in Nat /\ \A i \in 1 .. Len(u) : u[i] \in CodeUnit
  BY LenProperties, ElementOfSeq
<1>2. /\ place \in Nat \ {0} /\ place + 2 * Len(u) + 2 <= Len(d) /\ d[place] = Len(u) + 1
      /\ \A i \in 1 .. Len(u) : /\ d[place + 2 * i - 1] = u[i] % 256
                                /\ d[place + 2 * i] = u[i] \div 256
      /\ d[place + 2 * Len(u) + 1] = 0 /\ d[place + 2 * Len(u) + 2] = 0
  BY DEF StringAt
<1>3. ASSUME NEW stale, NEW i \in 1 .. Len(u)
      PROVE  UnitOf(d, place + 2 * i - 1, stale) = u[i]
  <2>1. u[i] \in Code  BY <1>1 DEF Code, CodeUnit, Below
  <2>2. (u[i] % 256) + 256 * (u[i] \div 256) = u[i]  BY <2>1, Halves
  <2>3. ByteOf(d, place + 2 * i - 1, stale) = u[i] % 256
    <3>1. place + 2 * i - 1 <= Len(d)  BY <1>1, <1>2
    <3>2. QED BY <1>2, <3>1 DEF ByteOf
  <2>4. ByteOf(d, (place + 2 * i - 1) + 1, stale) = u[i] \div 256
    <3>1. (place + 2 * i - 1) + 1 = place + 2 * i /\ place + 2 * i <= Len(d)  BY <1>1, <1>2
    <3>2. QED BY <1>2, <3>1 DEF ByteOf
  <2>5. QED BY <2>2, <2>3, <2>4 DEF UnitOf
<1>4. ASSUME NEW stale PROVE UnitOf(d, place + 2 * Len(u) + 1, stale) = 0
  <2>1. ByteOf(d, place + 2 * Len(u) + 1, stale) = 0
    <3>1. place + 2 * Len(u) + 1 <= Len(d)  BY <1>1, <1>2
    <3>2. QED BY <1>2, <3>1 DEF ByteOf
  <2>2. ByteOf(d, (place + 2 * Len(u) + 1) + 1, stale) = 0
    <3>1. (place + 2 * Len(u) + 1) + 1 = place + 2 * Len(u) + 2  BY <1>1, <1>2
    <3>2. QED BY <1>2, <3>1 DEF ByteOf
  <2>3. QED BY <2>1, <2>2 DEF UnitOf
<1>5. UnitsAt(d, place) = u
  <2> DEFINE n == (Len(d) - place) \div 2 + 2
             units == [i \in 1 .. n |-> UnitOf(d, place + 2 * i - 1, 0)]
  <2>1. n \in Nat /\ Len(u) + 1 <= n  BY <1>1, <1>2
  <2>2. Len(units) = n
    <3> HIDE DEF n
    <3>1. QED BY <2>1
  <2>3. \A i \in 1 .. Len(u) : units[i] = u[i] /\ units[i] # 0
    <3>1. SUFFICES ASSUME NEW i \in 1 .. Len(u) PROVE units[i] = u[i] /\ u[i] # 0  OBVIOUS
    <3>2. u[i] # 0  BY <1>1 DEF CodeUnit, Below
    <3>3. i \in 1 .. n  BY <1>1, <2>1
    <3> HIDE DEF n
    <3>4. units[i] = UnitOf(d, place + 2 * i - 1, 0)  BY <3>3
    <3>5. QED BY <1>3, <3>2, <3>4
  <2>4. units[Len(u) + 1] = 0
    <3>1. Len(u) + 1 \in 1 .. n /\ place + 2 * (Len(u) + 1) - 1 = place + 2 * Len(u) + 1
      BY <1>1, <1>2, <2>1
    <3> HIDE DEF n
    <3>2. units[Len(u) + 1] = UnitOf(d, place + 2 * (Len(u) + 1) - 1, 0)  BY <3>1
    <3>3. QED BY <1>4, <3>1, <3>2
  <2>5. UnitsAt(d, place) = SubSeq(units, 1, SelectInSeq(units, LAMBDA v : v = 0) - 1)
    BY DEF UnitsAt
  <2> HIDE DEF units, n
  <2>6. SelectInSeq(units, LAMBDA v : v = 0) = Len(u) + 1
    <3>1. Len(u) + 1 \in 1 .. Len(units) /\ Len(units) \in Nat /\ (Len(u) + 1) - 1 = Len(u)
      BY <1>1, <2>1, <2>2
    <3>2. QED BY <2>3, <2>4, <3>1, EndIs
  <2>7. UnitsAt(d, place) = SubSeq(units, 1, Len(u))
    <3>1. (Len(u) + 1) - 1 = Len(u)  BY <1>1
    <3>2. QED BY <2>5, <2>6, <3>1
  <2>8. /\ SubSeq(units, 1, Len(u)) \in Seq(CodeUnit) /\ Len(SubSeq(units, 1, Len(u))) = Len(u)
        /\ \A i \in 1 .. Len(u) : SubSeq(units, 1, Len(u))[i] = units[i]
    BY <1>1, <2>3, SubSeqProperties
  <2>9. QED BY <2>3, <2>7, <2>8, SeqEqual
<1>6. NextString(d, place) = place + 2 * Len(u) + 3  BY <1>1, <1>2 DEF NextString
<1>7. place + 2 * d[place] <= Len(d)  BY <1>1, <1>2
<1>8. d[place] = Len(u) + 1  BY <1>2
<1>9. \A stale : /\ \A i \in 1 .. Len(u) : UnitOf(d, place + 2 * i - 1, stale) = u[i]
                /\ UnitOf(d, place + 2 * Len(u) + 1, stale) = 0
  BY <1>3, <1>4
<1>10. QED BY <1>5, <1>6, <1>7, <1>8, <1>9 DEF StringReads

-----------------------------------------------------------------------------
(***************************************************************************)
(* Names: the bytes and the units of their first characters.               *)
(***************************************************************************)

JoinRounds(parts) == [k \in DOMAIN parts |-> [joined \in Seq(Nat) |-> joined \o parts[k]]]
Upto(parts, k) == Rounds(JoinRounds(parts), <<>>, k)

\* Concat joins one part after the other.
LEMMA UptoAre ==
  ASSUME NEW S \in SUBSET Nat, NEW parts \in Seq(Seq(S))
  PROVE  /\ Concat(parts) = Upto(parts, Len(parts)) /\ Len(parts) \in Nat
         /\ Upto(parts, 0) = <<>>
         /\ \A k \in 0 .. Len(parts) : Upto(parts, k) \in Seq(S)
         /\ \A k \in 1 .. Len(parts) : Upto(parts, k) = Upto(parts, k - 1) \o parts[k]
<1>1. /\ Len(parts) \in Nat /\ DOMAIN parts = 1 .. Len(parts)
      /\ \A k \in 1 .. Len(parts) : parts[k] \in Seq(S)
  BY LenProperties, ElementOfSeq
<1>2. \A s \in Seq(S) : s \in Seq(Nat)  BY SeqMonotonic
<1>3. \A k \in 1 .. Len(parts) : \A s \in Seq(S) : JoinRounds(parts)[k][s] = s \o parts[k]
  BY <1>1, <1>2 DEF JoinRounds
<1>4. \A k \in 1 .. Len(parts) : \A s \in Seq(S) : JoinRounds(parts)[k][s] \in Seq(S)
  <2>1. SUFFICES ASSUME NEW k \in 1 .. Len(parts), NEW s \in Seq(S)
                 PROVE  s \o parts[k] \in Seq(S)
    BY <1>3
  <2>2. Joined(S, s, parts[k])  BY <1>1, ConcatAre
  <2>3. QED BY <2>2 DEF Joined
<1>5. \A k \in 0 .. Len(parts) : Upto(parts, k) \in Seq(S)
  <2>1. <<>> \in Seq(S)  BY EmptySeq
  <2>2. QED BY <1>1, <1>4, <2>1, RoundsIn DEF Upto
<1>6. ASSUME NEW k \in 1 .. Len(parts)
      PROVE  Upto(parts, k) = Upto(parts, k - 1) \o parts[k]
  <2>1. k - 1 \in Nat /\ k - 1 \in 0 .. Len(parts) /\ (k - 1) + 1 = k  BY <1>1
  <2>2. \A i \in Nat : Upto(parts, i + 1) = JoinRounds(parts)[i + 1][Upto(parts, i)]
    BY RoundsAre DEF Upto
  <2>3. Upto(parts, k) = JoinRounds(parts)[k][Upto(parts, k - 1)]  BY <2>1, <2>2
  <2>4. Upto(parts, k - 1) \in Seq(S)  BY <1>5, <2>1
  <2>5. QED BY <1>3, <2>3, <2>4
<1>7. Upto(parts, 0) = <<>>  BY RoundsAre DEF Upto
<1>8. Concat(parts) = Upto(parts, Len(parts))  BY DEF Concat, Upto, JoinRounds
<1>9. QED BY <1>1, <1>5, <1>6, <1>7, <1>8

\* What a loop over the parts ends with, when its states are known.
Joins(parts, n, f) == f[0] = <<>> /\ \A k \in 1 .. n : f[k] = f[k - 1] \o parts[k]

\* The parts joined so far are those that are known.
LEMMA UptoReach ==
  ASSUME NEW S \in SUBSET Nat, NEW parts \in Seq(Seq(S)), NEW n \in 0 .. Len(parts), NEW f,
         Joins(parts, n, f)
  PROVE  \A k \in 0 .. n : Upto(parts, k) = f[k]
<1>1. /\ Upto(parts, 0) = <<>> /\ Len(parts) \in Nat
      /\ \A k \in 1 .. Len(parts) : Upto(parts, k) = Upto(parts, k - 1) \o parts[k]
  BY UptoAre
<1> DEFINE P == {k \in Nat : k <= n => Upto(parts, k) = f[k]}
<1>2. 0 \in P  BY <1>1 DEF Joins
<1>3. \A k \in Nat : k \in P => k + 1 \in P
  <2>1. SUFFICES ASSUME NEW k \in Nat, k \in P, k + 1 <= n PROVE Upto(parts, k + 1) = f[k + 1]
    OBVIOUS
  <2>2. Len(parts) \in Nat /\ Upto(parts, k) = f[k]  BY <1>1, <2>1
  <2> HIDE DEF P
  <2>3. k + 1 \in 1 .. n /\ k + 1 \in 1 .. Len(parts) /\ (k + 1) - 1 = k  BY <2>1, <2>2
  <2>4. Upto(parts, k + 1) = Upto(parts, k) \o parts[k + 1]  BY <1>1, <2>3
  <2>5. f[k + 1] = f[k] \o parts[k + 1]  BY <2>3 DEF Joins
  <2>6. QED BY <2>2, <2>4, <2>5
<1>4. Nat \subseteq P
  <2> HIDE DEF P
  <2>1. QED BY <1>2, <1>3, Induction
<1>5. QED BY <1>4

\* The parts before a place do not depend on those after it.
LEMMA UptoFirst ==
  ASSUME NEW S \in SUBSET Nat, NEW parts \in Seq(Seq(S)), NEW first \in Seq(Seq(S)),
         Len(first) <= Len(parts), \A k \in 1 .. Len(first) : first[k] = parts[k]
  PROVE  Concat(first) = Upto(parts, Len(first))
<1>1. /\ Concat(first) = Upto(first, Len(first)) /\ Len(first) \in Nat
      /\ Upto(first, 0) = <<>>
      /\ \A k \in 1 .. Len(first) : Upto(first, k) = Upto(first, k - 1) \o first[k]
  BY UptoAre
<1>2. Len(parts) \in Nat  BY LenProperties
<1> DEFINE f == [k \in 0 .. Len(first) |-> Upto(first, k)]
<1>3. Joins(parts, Len(first), f)
  <2>1. f[0] = <<>>  BY <1>1
  <2>2. ASSUME NEW k \in 1 .. Len(first) PROVE f[k] = f[k - 1] \o parts[k]
    <3>1. k \in 0 .. Len(first) /\ k - 1 \in 0 .. Len(first)  BY <1>1
    <3>2. f[k] = Upto(first, k) /\ f[k - 1] = Upto(first, k - 1)  BY <3>1
    <3>3. QED BY <1>1, <3>2
  <2> HIDE DEF f
  <2>3. QED BY <2>1, <2>2 DEF Joins
<1>4. f[Len(first)] = Upto(first, Len(first))  BY <1>1
<1> HIDE DEF f
<1>5. Len(first) \in 0 .. Len(parts) /\ Len(first) \in 0 .. Len(first)  BY <1>1, <1>2
<1>6. QED BY <1>1, <1>3, <1>4, <1>5, UptoReach

\* What is joined stays where it is when more parts follow.
LEMMA UptoKept ==
  ASSUME NEW S \in SUBSET Nat, NEW parts \in Seq(Seq(S)), NEW k \in 0 .. Len(parts)
  PROVE  \A l \in k .. Len(parts) :
           /\ Len(Upto(parts, k)) \in Nat /\ Len(Upto(parts, k)) <= Len(Upto(parts, l))
           /\ \A i \in 1 .. Len(Upto(parts, k)) : Upto(parts, l)[i] = Upto(parts, k)[i]
<1>1. /\ Len(parts) \in Nat
      /\ \A l \in 0 .. Len(parts) : Upto(parts, l) \in Seq(S)
      /\ \A l \in 1 .. Len(parts) : Upto(parts, l) = Upto(parts, l - 1) \o parts[l]
  BY UptoAre
<1>2. \A l \in 1 .. Len(parts) : parts[l] \in Seq(S)  BY ElementOfSeq
<1> DEFINE n == Len(Upto(parts, k))
           Kept(l) == n <= Len(Upto(parts, l))
                      /\ \A i \in 1 .. n : Upto(parts, l)[i] = Upto(parts, k)[i]
           P == {d \in Nat : k + d <= Len(parts) => Kept(k + d)}
<1>3. n \in Nat  BY <1>1, LenProperties
<1>4. 0 \in P
  <2>1. k + 0 = k  BY <1>1
  <2>2. Kept(k)  BY <1>3
  <2>3. QED BY <2>1, <2>2
<1>5. \A d \in Nat : d \in P => d + 1 \in P
  <2>1. SUFFICES ASSUME NEW d \in Nat, d \in P, k + (d + 1) <= Len(parts)
                 PROVE  Kept(k + (d + 1))
    OBVIOUS
  <2> DEFINE l == k + (d + 1)
             before == Upto(parts, l - 1)
  <2>2. l \in 1 .. Len(parts) /\ l - 1 = k + d /\ l - 1 \in 0 .. Len(parts)  BY <1>1, <2>1
  <2>3. Kept(k + d)  BY <1>1, <2>1
  <2>4. Kept(l - 1)  BY <2>2, <2>3
  <2>5. Upto(parts, l) = before \o parts[l] /\ before \in Seq(S) /\ parts[l] \in Seq(S)
    BY <1>1, <1>2, <2>2
  <2>6. n <= Len(before) /\ \A i \in 1 .. n : before[i] = Upto(parts, k)[i]  BY <2>4
  <2>7. Kept(l)
    <3> HIDE DEF before, l, n
    <3>1. Joined(S, before, parts[l])  BY <2>5, ConcatAre
    <3>2. /\ Len(before) \in Nat /\ Len(parts[l]) \in Nat
          /\ Len(Upto(parts, l)) = Len(before) + Len(parts[l])
          /\ \A i \in 1 .. Len(before) : Upto(parts, l)[i] = before[i]
      BY <2>5, <3>1 DEF Joined
    <3>3. QED BY <1>3, <2>6, <3>2
  <2>8. QED BY <2>7
<1>6. Nat \subseteq P
  <2> HIDE DEF P
  <2>1. QED BY <1>4, <1>5, Induction
<1>7. \A l \in k .. Len(parts) : Kept(l)
  <2>1. SUFFICES ASSUME NEW l \in k .. Len(parts) PROVE Kept(l)  OBVIOUS
  <2>2. l - k \in Nat /\ k + (l - k) = l /\ k + (l - k) <= Len(parts)  BY <1>1
  <2>3. l - k \in P  BY <1>6, <2>2
  <2>4. Kept(k + (l - k))  BY <2>2, <2>3
  <2> HIDE DEF Kept
  <2>5. QED BY <2>2, <2>4
<1>8. QED BY <1>3, <1>7

-----------------------------------------------------------------------------
(***************************************************************************)
(* The loop that makes units of a name.                                    *)
(***************************************************************************)

\* The bytes of a unit, by its size.
LEMMA BytesOfAre ==
  ASSUME NEW u \in CodeUnit
  PROVE  /\ u < 128 => BytesOf(u) = <<u>>
         /\ ~(u < 128) /\ u < 2048 => BytesOf(u) = <<192 + (u \div 64), 128 + (u % 64)>>
         /\ ~(u < 2048) => BytesOf(u) = <<224 + (u \div 4096), 128 + ((u \div 64) % 64),
                                          128 + (u % 64)>>
         /\ BytesOf(u) \in Seq(Below(256)) /\ Len(BytesOf(u)) \in 1 .. 3
<1>1. u \in Nat /\ 0 < u /\ u < 65536  BY DEF CodeUnit, Below
<1>2. CASE u < 128
  <2>1. BytesOf(u) = <<u>>  BY <1>2 DEF BytesOf
  <2>2. u \in Below(256)  BY <1>1, <1>2 DEF Below
  <2>3. QED BY <1>1, <1>2, <2>1, <2>2
<1>3. CASE ~(u < 128) /\ u < 2048
  <2>1. BytesOf(u) = <<192 + (u \div 64), 128 + (u % 64)>>  BY <1>3 DEF BytesOf
  <2>2. 192 + (u \div 64) \in Below(256) /\ 128 + (u % 64) \in Below(256)
    BY <1>1, <1>3 DEF Below
  <2>3. QED BY <1>1, <1>3, <2>1, <2>2
<1>4. CASE ~(u < 2048)
  <2>1. BytesOf(u) = <<224 + (u \div 4096), 128 + ((u \div 64) % 64), 128 + (u % 64)>>
    BY <1>1, <1>4 DEF BytesOf
  <2>2. /\ 224 + (u \div 4096) \in Below(256) /\ 128 + ((u \div 64) % 64) \in Below(256)
        /\ 128 + (u % 64) \in Below(256)
    BY <1>1, <1>4 DEF Below
  <2>3. QED BY <1>1, <1>4, <2>1, <2>2
<1>5. QED BY <1>1, <1>2, <1>3, <1>4

\* The three parts of a unit of sixteen bits.
LEMMA UnitParts ==
  ASSUME NEW u \in Nat, u < 65536
  PROVE  \E x, y, z \in Nat :
           /\ x = u \div 4096 /\ y = (u \div 64) % 64 /\ z = u % 64
           /\ x < 16 /\ y < 64 /\ z < 64 /\ u = x * 4096 + y * 64 + z
<1> DEFINE x == u \div 4096
           y == (u \div 64) % 64
           z == u % 64
<1>1. x \in Nat /\ x < 16 /\ y \in Nat /\ y < 64 /\ z \in Nat /\ z < 64  OBVIOUS
<1> DEFINE w == u \div 64
<1>2. w \in Nat /\ u = w * 64 + z  OBVIOUS
<1>3. w \div 64 = x  OBVIOUS
<1>4. w = x * 64 + y  BY <1>2, <1>3
<1> HIDE DEF w, x, y, z
<1>5. u = x * 4096 + y * 64 + z  BY <1>1, <1>2, <1>4
<1>6. x = u \div 4096 /\ y = (u \div 64) % 64 /\ z = u % 64  BY DEF x, y, z
<1>7. QED BY <1>1, <1>5, <1>6

\* A byte of a C string is not 0; the one after its end is.
LEMMA CharAtAre ==
  ASSUME NEW s \in Seq(Below(256))
  PROVE  \A p \in Nat \ {0} :
           /\ p <= Len(s) => CharAt(s, p) = s[p] /\ s[p] \in Nat /\ 0 < s[p] /\ s[p] < 256
           /\ ~(p <= Len(s)) => CharAt(s, p) = 0
<1>1. SUFFICES ASSUME NEW p \in Nat \ {0}
               PROVE  /\ p <= Len(s) => CharAt(s, p) = s[p] /\ s[p] \in Nat
                                          /\ 0 < s[p] /\ s[p] < 256
                      /\ ~(p <= Len(s)) => CharAt(s, p) = 0
  OBVIOUS
<1>2. Len(s) \in Nat /\ \A i \in 1 .. Len(s) : s[i] \in Below(256)
  BY LenProperties, ElementOfSeq
<1>3. p <= Len(s) => s[p] \in Below(256)  BY <1>2
<1>4. QED BY <1>3 DEF CharAt, Below

\* The bytes of a unit are read as that unit.
LEMMA UnitAtUnit ==
  ASSUME NEW s \in Seq(Below(256)), NEW p \in Nat \ {0}, NEW u \in CodeUnit,
         p + Len(BytesOf(u)) - 1 <= Len(s),
         \A j \in 1 .. Len(BytesOf(u)) : s[p + j - 1] = BytesOf(u)[j]
  PROVE  UnitAt(s, p) = Unit(u, Len(BytesOf(u)))
<1>1. u \in Nat /\ 0 < u /\ u < 65536  BY DEF CodeUnit, Below
<1>2. Len(s) \in Nat  BY LenProperties
<1>3. CASE u < 128
  <2>1. BytesOf(u) = <<u>>  BY <1>3, BytesOfAre
  <2>2. Len(BytesOf(u)) = 1 /\ s[p] = u /\ p <= Len(s)  BY <1>2, <2>1
  <2>3. CharAt(s, p) = u  BY <2>2, CharAtAre
  <2>4. UnitAt(s, p) = Unit(s[p], 1)
    <3>1. CharAt(s, p) # 0 /\ CharAt(s, p) < 128 /\ CharAt(s, p) \div 32 # 6
          /\ CharAt(s, p) \div 16 # 14
      BY <1>1, <1>3, <2>3
    <3>2. QED BY <3>1 DEF UnitAt
  <2>5. QED BY <2>2, <2>4
<1>4. CASE ~(u < 128) /\ u < 2048
  <2>1. BytesOf(u) = <<192 + (u \div 64), 128 + (u % 64)>>  BY <1>4, BytesOfAre
  <2>2. Len(BytesOf(u)) = 2 /\ p + 1 <= Len(s) /\ s[p] = 192 + (u \div 64)
        /\ s[p + 1] = 128 + (u % 64)
    <3>1. Len(BytesOf(u)) = 2 /\ p + 1 - 1 = p /\ p + 2 - 1 = p + 1  BY <2>1
    <3>2. s[p + 1 - 1] = BytesOf(u)[1] /\ s[p + 2 - 1] = BytesOf(u)[2]  BY <3>1
    <3>3. QED BY <1>2, <2>1, <3>1, <3>2
  <2>3. CharAt(s, p) = 192 + (u \div 64) /\ CharAt(s, p + 1) = 128 + (u % 64)
    BY <1>2, <2>2, CharAtAre
  <2>4. CharAt(s, p) # 0 /\ ~(CharAt(s, p) < 128) /\ CharAt(s, p) \div 32 = 6
        /\ CharAt(s, p) \div 16 # 14 /\ Continues(s, p + 1)
    BY <1>1, <1>4, <2>3 DEF Continues, IsLater
  <2>5. UnitAt(s, p) = Unit((s[p] % 32) * 64 + Low(s, p + 1), 2)  BY <2>4 DEF UnitAt
  <2>6. (s[p] % 32) * 64 + Low(s, p + 1) = u  BY <1>1, <1>4, <2>2 DEF Low
  <2>7. QED BY <2>2, <2>5, <2>6
<1>5. CASE ~(u < 2048)
  <2> DEFINE a == 224 + (u \div 4096)
             b == 128 + ((u \div 64) % 64)
             c == 128 + (u % 64)
  <2>1. BytesOf(u) = <<a, b, c>>  BY <1>5, BytesOfAre
  <2>2. Len(BytesOf(u)) = 3 /\ p + 2 <= Len(s) /\ s[p] = a /\ s[p + 1] = b /\ s[p + 2] = c
    <3> HIDE DEF a, b, c
    <3>1. Len(BytesOf(u)) = 3 /\ p + 1 - 1 = p /\ p + 2 - 1 = p + 1 /\ p + 3 - 1 = p + 2
      BY <2>1
    <3>2. /\ s[p + 1 - 1] = BytesOf(u)[1] /\ s[p + 2 - 1] = BytesOf(u)[2]
          /\ s[p + 3 - 1] = BytesOf(u)[3]
      BY <3>1
    <3>3. QED BY <1>2, <2>1, <3>1, <3>2
  <2>3. CharAt(s, p) = a /\ CharAt(s, p + 1) = b /\ CharAt(s, p + 2) = c
    <3> HIDE DEF a, b, c
    <3>1. QED BY <1>2, <2>2, CharAtAre
  <2>4. a # 0 /\ ~(a < 128) /\ a \div 32 # 6 /\ a \div 16 = 14 /\ b \div 64 = 2 /\ c \div 64 = 2
        /\ a \in Nat /\ b \in Nat /\ c \in Nat
        /\ (a % 16) * 4096 + (b % 64) * 64 + (c % 64) = u
    <3>1. PICK x \in Nat, y \in Nat, z \in Nat :
            /\ x = u \div 4096 /\ y = (u \div 64) % 64 /\ z = u % 64
            /\ x < 16 /\ y < 64 /\ z < 64 /\ u = x * 4096 + y * 64 + z
      BY <1>1, UnitParts
    <3>2. a = 224 + x /\ b = 128 + y /\ c = 128 + z  BY <3>1
    <3> HIDE DEF a, b, c
    <3>3. a % 16 = x /\ b % 64 = y /\ c % 64 = z  BY <3>1, <3>2
    <3>4. QED BY <3>1, <3>2, <3>3
  <2> HIDE DEF a, b, c
  <2>5. UnitAt(s, p) = Unit((s[p] % 16) * 4096 + Low(s, p + 1) * 64 + Low(s, p + 2), 3)
    BY <2>3, <2>4 DEF UnitAt, Continues, IsLater
  <2>6. (s[p] % 16) * 4096 + Low(s, p + 1) * 64 + Low(s, p + 2) = u  BY <2>2, <2>4 DEF Low
  <2>7. QED BY <2>2, <2>5, <2>6
<1>6. QED BY <1>1, <1>3, <1>4, <1>5

\* Bytes that no unit is made of: a first byte that is none, or too few after it.
LEMMA UnitAtNone ==
  ASSUME NEW s \in Seq(Below(256)), NEW p \in Nat \ {0},
         \/ ~(p <= Len(s))
         \/ IsLater(s[p]) \/ s[p] >= 240
         \/ s[p] \div 32 = 6 /\ ~Continues(s, p + 1)
         \/ s[p] \div 16 = 14 /\ ~(Continues(s, p + 1) /\ Continues(s, p + 2))
  PROVE  UnitAt(s, p) = NoUnit
<1>1. /\ p <= Len(s) => CharAt(s, p) = s[p] /\ s[p] \in Nat /\ 0 < s[p] /\ s[p] < 256
      /\ ~(p <= Len(s)) => CharAt(s, p) = 0
  BY CharAtAre
<1>2. CASE ~(p <= Len(s))
  <2>1. CharAt(s, p) = 0  BY <1>1, <1>2
  <2>2. QED BY <2>1 DEF UnitAt
<1>3. CASE p <= Len(s)
  <2> DEFINE b == s[p]
  <2>1. CharAt(s, p) = b /\ b \in Nat /\ 0 < b /\ b < 256  BY <1>1, <1>3
  <2>2. \/ b \div 64 = 2 \/ b >= 240
        \/ b \div 32 = 6 /\ ~Continues(s, p + 1)
        \/ b \div 16 = 14 /\ ~(Continues(s, p + 1) /\ Continues(s, p + 2))
    BY <1>3 DEF IsLater
  <2> HIDE DEF b
  <2>3. /\ b # 0 /\ ~(b < 128)
        /\ ~(b \div 32 = 6 /\ Continues(s, p + 1))
        /\ ~(b \div 16 = 14 /\ Continues(s, p + 1) /\ Continues(s, p + 2))
    BY <2>1, <2>2
  <2>4. QED BY <2>1, <2>3 DEF UnitAt
<1>4. QED BY <1>2, <1>3

Lesser(a, b) == IF a < b THEN a ELSE b

\* The places in s where its first m units start, which are units; there is none at
\* the place after them.
Marks(s, m, at, units) ==
  /\ units \in Seq(CodeUnit) /\ Len(units) = m /\ at[0] = 1
  /\ \A k \in 0 .. m : at[k] \in 1 .. Len(s) + 1
  /\ \A k \in 1 .. m : UnitAt(s, at[k - 1]) = Unit(units[k], at[k] - at[k - 1])
  /\ UnitAt(s, at[m]) = NoUnit

Loops16(s) == [at : 1 .. Len(s) + 1, units : Seq(Nat)]
Rounds16(s, n) == [k \in 1 .. n |-> [loop \in Loops16(s) |-> Take(loop, s)]]
State16(at, units, k) == [at |-> at[k], units |-> SubSeq(units, 1, k)]

\* A room has a number of units.
LEMMA CapacityAre ==
  ASSUME NEW room \in Nat
  PROVE  Capacity(room) \in Nat
BY DEF Capacity

\* The first k units of a text.
LEMMA FirstUnits ==
  ASSUME NEW units \in Seq(CodeUnit), NEW k \in 0 .. Len(units)
  PROVE  /\ SubSeq(units, 1, k) \in Seq(CodeUnit) /\ SubSeq(units, 1, k) \in Seq(Nat)
         /\ Len(SubSeq(units, 1, k)) = k
         /\ \A i \in 1 .. k : SubSeq(units, 1, k)[i] = units[i]
<1>1. Len(units) \in Nat /\ \A i \in 1 .. Len(units) : units[i] \in CodeUnit
  BY LenProperties, ElementOfSeq
<1>2. /\ SubSeq(units, 1, k) \in Seq(CodeUnit) /\ Len(SubSeq(units, 1, k)) = k
      /\ \A i \in 1 .. k : SubSeq(units, 1, k)[i] = units[i]
  <2>1. k \in Int /\ 1 \in Int /\ \A i \in 1 .. k : units[i] \in CodeUnit  BY <1>1
  <2>2. /\ SubSeq(units, 1, k) \in Seq(CodeUnit)
        /\ Len(SubSeq(units, 1, k)) = IF 1 <= k THEN k - 1 + 1 ELSE 0
        /\ \A i \in 1 .. k - 1 + 1 : SubSeq(units, 1, k)[i] = units[1 + i - 1]
    BY <2>1, SubSeqProperties
  <2>3. QED BY <1>1, <2>2
<1>3. SubSeq(units, 1, k) \in Seq(Nat)  BY <1>2, SeqMonotonic DEF CodeUnit, Below
<1>4. QED BY <1>2, <1>3

\* The first k units are those before the last of them, and it.
LEMMA OneMoreUnit ==
  ASSUME NEW units \in Seq(CodeUnit), NEW k \in 1 .. Len(units)
  PROVE  SubSeq(units, 1, k) = Append(SubSeq(units, 1, k - 1), units[k])
<1>1. Len(units) \in Nat /\ units[k] \in CodeUnit  BY LenProperties, ElementOfSeq
<1>2. k \in 0 .. Len(units) /\ k - 1 \in 0 .. Len(units)  BY <1>1
<1>3. /\ SubSeq(units, 1, k) \in Seq(CodeUnit) /\ Len(SubSeq(units, 1, k)) = k
      /\ \A i \in 1 .. k : SubSeq(units, 1, k)[i] = units[i]
  BY <1>2, FirstUnits
<1> DEFINE first == SubSeq(units, 1, k - 1)
<1>4. /\ first \in Seq(CodeUnit) /\ Len(first) = k - 1
      /\ \A i \in 1 .. k - 1 : first[i] = units[i]
  BY <1>2, FirstUnits
<1> HIDE DEF first
<1>5. /\ Append(first, units[k]) \in Seq(CodeUnit) /\ Len(Append(first, units[k])) = k
      /\ \A i \in 1 .. k - 1 : Append(first, units[k])[i] = first[i]
      /\ Append(first, units[k])[k] = units[k]
  <2>1. /\ Append(first, units[k]) \in Seq(CodeUnit)
        /\ Len(Append(first, units[k])) = Len(first) + 1
        /\ \A i \in 1 .. Len(first) : Append(first, units[k])[i] = first[i]
        /\ Append(first, units[k])[Len(first) + 1] = units[k]
    BY <1>1, <1>4, AppendProperties
  <2>2. (k - 1) + 1 = k  BY <1>1
  <2>3. QED BY <1>4, <2>1, <2>2
<1>6. \A i \in 1 .. k : SubSeq(units, 1, k)[i] = Append(first, units[k])[i]
  <2>1. SUFFICES ASSUME NEW i \in 1 .. k
                 PROVE  SubSeq(units, 1, k)[i] = Append(first, units[k])[i]
    OBVIOUS
  <2>2. i = k \/ i \in 1 .. k - 1  BY <1>1
  <2>3. QED BY <1>3, <1>4, <1>5, <2>2
<1>7. QED BY <1>3, <1>5, <1>6, SeqEqual DEF first

\* A round takes the next unit; after the last one it changes nothing.
LEMMA TakeUnit ==
  ASSUME NEW s, NEW m \in Nat, NEW at, NEW units, Marks(s, m, at, units), Len(s) \in Nat,
         NEW k \in 0 .. m
  PROVE  /\ State16(at, units, k) \in Loops16(s)
         /\ k < m => Take(State16(at, units, k), s) = State16(at, units, k + 1)
         /\ k = m => Take(State16(at, units, k), s) = State16(at, units, k)
<1> DEFINE state == State16(at, units, k)
<1>1. /\ units \in Seq(CodeUnit) /\ Len(units) = m /\ at[k] \in 1 .. Len(s) + 1
      /\ state.at = at[k] /\ state.units = SubSeq(units, 1, k)
      /\ state = [at |-> at[k], units |-> SubSeq(units, 1, k)]
  BY DEF Marks, State16
<1>2. SubSeq(units, 1, k) \in Seq(Nat)  BY <1>1, FirstUnits
<1>3. state \in Loops16(s)  BY <1>1, <1>2 DEF Loops16
<1>4. CASE k < m
  <2>1. k + 1 \in 1 .. m /\ k + 1 \in 0 .. m /\ (k + 1) - 1 = k  BY <1>4
  <2>2. /\ UnitAt(s, at[k]) = Unit(units[k + 1], at[k + 1] - at[k])
        /\ at[k] \in Int /\ at[k + 1] \in Int /\ units[k + 1] \in CodeUnit
    BY <1>1, <2>1, ElementOfSeq DEF Marks
  <2>3. UnitAt(s, at[k]) # NoUnit /\ UnitAt(s, at[k]).unit = units[k + 1]
        /\ UnitAt(s, at[k]).size = at[k + 1] - at[k]
    BY <2>2 DEF Unit, NoUnit, CodeUnit, Below
  <2>4. Take(state, s) = [at |-> at[k] + (at[k + 1] - at[k]),
                          units |-> Append(SubSeq(units, 1, k), units[k + 1])]
    <3> HIDE DEF state
    <3>1. QED BY <1>1, <2>3 DEF Take
  <2>5. Append(SubSeq(units, 1, k), units[k + 1]) = SubSeq(units, 1, k + 1)
    <3>1. SubSeq(units, 1, k + 1) = Append(SubSeq(units, 1, (k + 1) - 1), units[k + 1])
      BY <1>1, <2>1, OneMoreUnit
    <3>2. QED BY <2>1, <3>1
  <2>6. at[k] + (at[k + 1] - at[k]) = at[k + 1]  BY <2>2
  <2>7. Take(state, s) = [at |-> at[k + 1], units |-> SubSeq(units, 1, k + 1)]
    BY <2>4, <2>5, <2>6
  <2>8. Take(state, s) = State16(at, units, k + 1)  BY <2>7 DEF State16
  <2> HIDE DEF state
  <2>9. QED BY <1>3, <1>4, <2>8 DEF state
<1>5. CASE k = m
  <2>1. UnitAt(s, at[k]) = NoUnit  BY <1>5 DEF Marks
  <2>2. Take(state, s) = state
    <3> HIDE DEF state
    <3>1. QED BY <1>1, <2>1 DEF Take
  <2>3. QED BY <1>3, <1>5, <2>2
<1>6. QED BY <1>4, <1>5

\* The first units of a text, as many as there are and as there is room for.
LEMMA Utf16Are ==
  ASSUME NEW s, NEW m \in Nat, NEW at, NEW units, Marks(s, m, at, units), Len(s) \in Nat,
         NEW room \in Nat
  PROVE  Utf16(s, room) = SubSeq(units, 1, Lesser(Capacity(room), m))
<1> DEFINE n == Capacity(room)
           start == [at |-> 1, units |-> <<>>]
           f == [k \in 0 .. n |-> State16(at, units, Lesser(k, m))]
<1>1. n \in Nat  BY CapacityAre
<1>2. Utf16(s, room) = Rounds(Rounds16(s, n), start, n).units
  BY DEF Utf16, Rounds16, Loops16
<1>3. f[0] = start
  <2>1. Lesser(0, m) = 0 /\ 0 \in 0 .. n  BY <1>1 DEF Lesser
  <2>2. at[0] = 1 /\ SubSeq(units, 1, 0) = <<>>  BY SubSeqEmpty DEF Marks
  <2>3. f[0] = State16(at, units, 0)  BY <2>1
  <2>4. QED BY <2>2, <2>3 DEF State16
<1>4. ASSUME NEW k \in 1 .. n PROVE f[k] = Rounds16(s, n)[k][f[k - 1]]
  <2>1. k \in 0 .. n /\ k - 1 \in 0 .. n  BY <1>1
  <2>2. f[k] = State16(at, units, Lesser(k, m)) /\ f[k - 1] = State16(at, units, Lesser(k - 1, m))
    BY <2>1
  <2> HIDE DEF f, n
  <2>3. Lesser(k - 1, m) \in 0 .. m  BY <1>1 DEF Lesser
  <2>4. f[k - 1] \in Loops16(s)  BY <2>2, <2>3, TakeUnit
  <2>5. Rounds16(s, n)[k][f[k - 1]] = Take(f[k - 1], s)  BY <2>4 DEF Rounds16
  <2>6. CASE k - 1 < m
    <3>1. Lesser(k - 1, m) = k - 1 /\ Lesser(k, m) = k /\ k - 1 \in 0 .. m /\ (k - 1) + 1 = k
      BY <1>1, <2>6 DEF Lesser
    <3>2. Take(State16(at, units, k - 1), s) = State16(at, units, k)
      <4>1. Take(State16(at, units, k - 1), s) = State16(at, units, (k - 1) + 1)
        BY <2>6, <3>1, TakeUnit
      <4>2. QED BY <3>1, <4>1
    <3>3. QED BY <2>2, <2>5, <3>1, <3>2
  <2>7. CASE ~(k - 1 < m)
    <3>1. Lesser(k - 1, m) = m /\ Lesser(k, m) = m /\ m \in 0 .. m  BY <1>1, <2>7 DEF Lesser
    <3>2. Take(State16(at, units, m), s) = State16(at, units, m)  BY <3>1, TakeUnit
    <3>3. QED BY <2>2, <2>5, <3>1, <3>2
  <2>8. QED BY <2>6, <2>7
<1>5. f[n] = State16(at, units, Lesser(n, m))  BY <1>1
<1> HIDE DEF f, start, n
<1>6. Reaches(Rounds16(s, n), start, n, f)  BY <1>3, <1>4 DEF Reaches
<1>7. Rounds(Rounds16(s, n), start, n) = f[n]
  <2>1. n \in 0 .. n  BY <1>1
  <2>2. QED BY <1>1, <1>6, <2>1, RoundsReach
<1>8. Utf16(s, room) = State16(at, units, Lesser(n, m)).units  BY <1>2, <1>5, <1>7
<1>9. QED BY <1>8 DEF State16, n

Utf8Parts(chars) == [i \in DOMAIN chars |-> chars[i].utf8]
Utf16Parts(chars) == [i \in DOMAIN chars |-> chars[i].utf16]
UnitsOf(chars, m) == [i \in 1 .. m |-> chars[i].utf16[1]]

\* A name that may be on the card, and how many of its characters come before the
\* first that has no unit.
CardName(chars) ==
  /\ chars \in Seq(Characters)
  /\ \A i \in DOMAIN chars : HasUnit(chars[i]) \/ HasNone(chars, i)
Told(chars) == IF FirstWithout(chars) = 0 THEN Len(chars) ELSE FirstWithout(chars) - 1

\* The characters of a name, and their bytes and units as parts.
LEMMA NameAre ==
  ASSUME NEW chars \in Seq(Characters)
  PROVE  /\ Len(chars) \in Nat /\ DOMAIN chars = 1 .. Len(chars)
         /\ \A i \in 1 .. Len(chars) : /\ chars[i].utf8 \in Seq(Below(256))
                                       /\ chars[i].utf16 \in Seq(CodeUnit)
         /\ Utf8Parts(chars) \in Seq(Seq(Below(256))) /\ Len(Utf8Parts(chars)) = Len(chars)
         /\ Utf16Parts(chars) \in Seq(Seq(CodeUnit)) /\ Len(Utf16Parts(chars)) = Len(chars)
<1>1. /\ Len(chars) \in Nat /\ DOMAIN chars = 1 .. Len(chars)
      /\ \A i \in 1 .. Len(chars) : chars[i] \in Characters
  BY LenProperties, ElementOfSeq
<1>2. \A c \in Characters : c.utf8 \in Seq(Below(256)) /\ c.utf16 \in Seq(CodeUnit)
  BY DEF Characters, CodeUnit
<1>3. Utf8Parts(chars) \in [1 .. Len(chars) -> Seq(Below(256))]  BY <1>1, <1>2 DEF Utf8Parts
<1>4. Utf16Parts(chars) \in [1 .. Len(chars) -> Seq(CodeUnit)]  BY <1>1, <1>2 DEF Utf16Parts
<1> DEFINE n == Len(chars)
           bytes == Seq(Below(256))
           units == Seq(CodeUnit)
           parts8 == Utf8Parts(chars)
           parts16 == Utf16Parts(chars)
<1>5. n \in Nat /\ parts8 \in [1 .. n -> bytes] /\ parts16 \in [1 .. n -> units]
  BY <1>1, <1>3, <1>4
<1> HIDE DEF n, bytes, units, parts8, parts16
<1>6. parts8 \in Seq(bytes) /\ Len(parts8) = n  BY <1>5, FunctionSeq
<1>7. parts16 \in Seq(units) /\ Len(parts16) = n  BY <1>5, FunctionSeq
<1>8. Utf8Parts(chars) \in Seq(Seq(Below(256))) /\ Len(Utf8Parts(chars)) = Len(chars)
  BY <1>6 DEF n, bytes, parts8
<1>9. Utf16Parts(chars) \in Seq(Seq(CodeUnit)) /\ Len(Utf16Parts(chars)) = Len(chars)
  BY <1>7 DEF n, units, parts16
<1>10. QED BY <1>1, <1>2, <1>8, <1>9

\* The characters before the first without a unit.
LEMMA ToldAre ==
  ASSUME NEW chars \in Seq(Characters)
  PROVE  /\ Told(chars) \in 0 .. Len(chars)
         /\ \A i \in 1 .. Told(chars) : chars[i].utf16 # <<>>
         /\ Told(chars) < Len(chars) => chars[Told(chars) + 1].utf16 = <<>>
         /\ FirstWithout(chars) = 0 <=> Told(chars) = Len(chars)
<1>1. Len(chars) \in Nat  BY LenProperties
<1> DEFINE I == {i \in 1 .. Len(chars) : chars[i].utf16 = <<>>}
<1>2. FirstWithout(chars) = IF I # {} THEN Min(I) ELSE 0  BY DEF FirstWithout, SelectInSeq
<1>3. CASE I = {}
  <2>1. Told(chars) = Len(chars) /\ FirstWithout(chars) = 0  BY <1>2, <1>3 DEF Told
  <2>2. \A i \in 1 .. Len(chars) : chars[i].utf16 # <<>>  BY <1>3
  <2>3. QED BY <1>1, <2>1, <2>2
<1>4. CASE I # {}
  <2>1. I \in SUBSET Nat /\ I \in SUBSET Int  BY <1>1
  <2>2. PICK n \in I : \A i \in I : n <= i
    <3> HIDE DEF I
    <3>1. QED BY <1>4, <2>1, Least
  <2>3. Min(I) = n
    <3> HIDE DEF I
    <3>1. QED BY <2>1, <2>2, MinIs
  <2>4. n \in 1 .. Len(chars) /\ chars[n].utf16 = <<>>  OBVIOUS
  <2>5. \A i \in 1 .. n - 1 : chars[i].utf16 # <<>>
    <3>1. SUFFICES ASSUME NEW i \in 1 .. n - 1, chars[i].utf16 = <<>> PROVE FALSE  OBVIOUS
    <3>2. i \in I  BY <1>1, <2>4, <3>1
    <3> HIDE DEF I
    <3>3. QED BY <2>2, <2>4, <3>1, <3>2
  <2> HIDE DEF I
  <2>6. FirstWithout(chars) = n /\ n # 0  BY <1>2, <1>4, <2>3, <2>4
  <2>7. Told(chars) = n - 1 /\ (n - 1) + 1 = n  BY <2>4, <2>6 DEF Told
  <2>8. QED BY <1>1, <2>4, <2>5, <2>6, <2>7
<1>5. QED BY <1>3, <1>4

\* The first k characters of a name.
LEMMA FirstChars ==
  ASSUME NEW chars \in Seq(Characters), NEW k \in 0 .. Len(chars)
  PROVE  /\ SubSeq(chars, 1, k) \in Seq(Characters) /\ Len(SubSeq(chars, 1, k)) = k
         /\ \A i \in 1 .. k : SubSeq(chars, 1, k)[i] = chars[i]
<1>1. Len(chars) \in Nat /\ \A i \in 1 .. Len(chars) : chars[i] \in Characters
  BY LenProperties, ElementOfSeq
<1>2. k \in Int /\ 1 \in Int /\ \A i \in 1 .. k : chars[i] \in Characters  BY <1>1
<1>3. /\ SubSeq(chars, 1, k) \in Seq(Characters)
      /\ Len(SubSeq(chars, 1, k)) = IF 1 <= k THEN k - 1 + 1 ELSE 0
      /\ \A i \in 1 .. k - 1 + 1 : SubSeq(chars, 1, k)[i] = chars[1 + i - 1]
  BY <1>2, SubSeqProperties
<1>4. QED BY <1>1, <1>3

\* The bytes and the units of the first characters.
LEMMA FirstParts ==
  ASSUME NEW chars \in Seq(Characters), NEW k \in 0 .. Len(chars)
  PROVE  /\ NameBytes(SubSeq(chars, 1, k)) = Upto(Utf8Parts(chars), k)
         /\ NameUnits(SubSeq(chars, 1, k)) = Upto(Utf16Parts(chars), k)
<1> DEFINE first == SubSeq(chars, 1, k)
<1>1. /\ first \in Seq(Characters) /\ Len(first) = k /\ \A i \in 1 .. k : first[i] = chars[i]
  BY FirstChars
<1> HIDE DEF first
<1>2. /\ Len(chars) \in Nat /\ DOMAIN chars = 1 .. Len(chars)
      /\ Utf8Parts(chars) \in Seq(Seq(Below(256))) /\ Len(Utf8Parts(chars)) = Len(chars)
      /\ Utf16Parts(chars) \in Seq(Seq(CodeUnit)) /\ Len(Utf16Parts(chars)) = Len(chars)
  BY NameAre
<1>3. /\ DOMAIN first = 1 .. k
      /\ Utf8Parts(first) \in Seq(Seq(Below(256))) /\ Len(Utf8Parts(first)) = k
      /\ Utf16Parts(first) \in Seq(Seq(CodeUnit)) /\ Len(Utf16Parts(first)) = k
  BY <1>1, NameAre
<1>4. \A i \in 1 .. k : i \in DOMAIN chars /\ i \in DOMAIN first  BY <1>2, <1>3
<1>5. \A i \in 1 .. k : /\ Utf8Parts(first)[i] = Utf8Parts(chars)[i]
                        /\ Utf16Parts(first)[i] = Utf16Parts(chars)[i]
  BY <1>1, <1>4 DEF Utf8Parts, Utf16Parts
<1>6. Below(256) \in SUBSET Nat /\ CodeUnit \in SUBSET Nat /\ k <= Len(chars)
  BY <1>2 DEF Below, CodeUnit
<1>7. Concat(Utf8Parts(first)) = Upto(Utf8Parts(chars), k)
  <2> DEFINE S == Below(256)
             whole == Utf8Parts(chars)
             part == Utf8Parts(first)
  <2>1. /\ S \in SUBSET Nat /\ whole \in Seq(Seq(S)) /\ part \in Seq(Seq(S))
        /\ Len(part) = k /\ Len(part) <= Len(whole)
        /\ \A i \in 1 .. Len(part) : part[i] = whole[i]
    BY <1>2, <1>3, <1>5, <1>6
  <2> HIDE DEF S, whole, part
  <2>2. Concat(part) = Upto(whole, Len(part))  BY <2>1, UptoFirst
  <2>3. QED BY <2>1, <2>2 DEF whole, part
<1>8. Concat(Utf16Parts(first)) = Upto(Utf16Parts(chars), k)
  <2> DEFINE S == CodeUnit
             whole == Utf16Parts(chars)
             part == Utf16Parts(first)
  <2>1. /\ S \in SUBSET Nat /\ whole \in Seq(Seq(S)) /\ part \in Seq(Seq(S))
        /\ Len(part) = k /\ Len(part) <= Len(whole)
        /\ \A i \in 1 .. Len(part) : part[i] = whole[i]
    BY <1>2, <1>3, <1>5, <1>6
  <2> HIDE DEF S, whole, part
  <2>2. Concat(part) = Upto(whole, Len(part))  BY <2>1, UptoFirst
  <2>3. QED BY <2>1, <2>2 DEF whole, part
<1>9. QED BY <1>7, <1>8 DEF NameBytes, NameUnits, Utf8Parts, Utf16Parts, first

\* Characters with a unit each have as many units, in their order.
LEMMA UnitsOfAre ==
  ASSUME NEW chars \in Seq(Characters), NEW k \in 0 .. Len(chars),
         \A i \in 1 .. k : HasUnit(chars[i])
  PROVE  /\ UnitsOf(chars, k) \in Seq(CodeUnit) /\ Len(UnitsOf(chars, k)) = k
         /\ \A i \in 1 .. k : /\ UnitsOf(chars, k)[i] = chars[i].utf16[1]
                              /\ chars[i].utf16 = <<UnitsOf(chars, k)[i]>>
                              /\ chars[i].utf8 = BytesOf(UnitsOf(chars, k)[i])
         /\ Upto(Utf16Parts(chars), k) = UnitsOf(chars, k)
<1>1. /\ Len(chars) \in Nat /\ DOMAIN chars = 1 .. Len(chars)
      /\ \A i \in 1 .. Len(chars) : chars[i].utf16 \in Seq(CodeUnit)
      /\ Utf16Parts(chars) \in Seq(Seq(CodeUnit)) /\ Len(Utf16Parts(chars)) = Len(chars)
  BY NameAre
<1>2. ASSUME NEW i \in 1 .. k
      PROVE  /\ chars[i].utf16[1] \in CodeUnit /\ chars[i].utf16 = <<chars[i].utf16[1]>>
             /\ chars[i].utf8 = BytesOf(chars[i].utf16[1])
  <2>1. chars[i].utf16 \in Seq(CodeUnit) /\ Len(chars[i].utf16) = 1
        /\ chars[i].utf8 = BytesOf(chars[i].utf16[1])
    BY <1>1, <1>2 DEF HasUnit
  <2>2. chars[i].utf16[1] \in CodeUnit  BY <2>1, ElementOfSeq
  <2>3. QED BY <2>1, <2>2
<1>3. UnitsOf(chars, k) \in [1 .. k -> CodeUnit]  BY <1>2 DEF UnitsOf
<1>4. UnitsOf(chars, k) \in Seq(CodeUnit) /\ Len(UnitsOf(chars, k)) = k
  BY <1>3, FunctionSeq
<1>5. \A i \in 1 .. k : UnitsOf(chars, k)[i] = chars[i].utf16[1]  BY DEF UnitsOf
<1> DEFINE f == [i \in 0 .. k |-> SubSeq(UnitsOf(chars, k), 1, i)]
<1>6. f[0] = <<>>  BY <1>1, SubSeqEmpty
<1>7. ASSUME NEW i \in 1 .. k PROVE f[i] = f[i - 1] \o Utf16Parts(chars)[i]
  <2> DEFINE u == UnitsOf(chars, k)
  <2>1. f[i] = SubSeq(u, 1, i) /\ f[i - 1] = SubSeq(u, 1, i - 1)
    <3>1. i \in 0 .. k /\ i - 1 \in 0 .. k  BY <1>1
    <3>2. \A j \in 0 .. k : f[j] = SubSeq(u, 1, j)  OBVIOUS
    <3> HIDE DEF u, f
    <3>3. QED BY <3>1, <3>2
  <2>2. i \in DOMAIN chars  BY <1>1
  <2>3. Utf16Parts(chars)[i] = <<u[i]>>  BY <1>2, <1>5, <2>2 DEF Utf16Parts
  <2> HIDE DEF u, f
  <2>4. u \in Seq(CodeUnit) /\ Len(u) = k /\ u[i] \in CodeUnit
    BY <1>4, ElementOfSeq DEF u
  <2>5. SubSeq(u, 1, i) = Append(SubSeq(u, 1, i - 1), u[i])  BY <2>4, OneMoreUnit
  <2>6. SubSeq(u, 1, i - 1) \in Seq(CodeUnit)
    <3>1. i - 1 \in 0 .. Len(u)  BY <1>1, <2>4
    <3>2. QED BY <2>4, <3>1, FirstUnits
  <2>7. Append(SubSeq(u, 1, i - 1), u[i]) = SubSeq(u, 1, i - 1) \o <<u[i]>>
    BY <2>4, <2>6, AppendIsConcat
  <2>8. QED BY <2>1, <2>3, <2>5, <2>7
<1>8. f[k] = UnitsOf(chars, k)
  <2>1. f[k] = SubSeq(UnitsOf(chars, k), 1, k)  BY <1>1
  <2>2. QED BY <1>4, <2>1, SubSeqFull
<1>9. k \in 0 .. k /\ CodeUnit \in SUBSET Nat /\ k \in 0 .. Len(Utf16Parts(chars))
  BY <1>1 DEF CodeUnit, Below
<1> HIDE DEF f
<1>10. Joins(Utf16Parts(chars), k, f)  BY <1>6, <1>7 DEF Joins
<1>11. Upto(Utf16Parts(chars), k) = f[k]  BY <1>1, <1>9, <1>10, UptoReach
<1>12. QED BY <1>2, <1>4, <1>5, <1>8, <1>11

\* Where the characters of a name start in its bytes.
StartOf(chars, k) == 1 + Len(Upto(Utf8Parts(chars), k))

\* Where each character starts among the bytes of a name.
LEMMA StartsAre ==
  ASSUME NEW chars \in Seq(Characters)
  PROVE  /\ NameBytes(chars) \in Seq(Below(256)) /\ Len(NameBytes(chars)) \in Nat
         /\ StartOf(chars, 0) = 1 /\ StartOf(chars, Len(chars)) = Len(NameBytes(chars)) + 1
         /\ \A k \in 0 .. Len(chars) : StartOf(chars, k) \in 1 .. Len(NameBytes(chars)) + 1
         /\ \A k \in 1 .. Len(chars) :
              /\ Len(chars[k].utf8) \in Nat
              /\ StartOf(chars, k) = StartOf(chars, k - 1) + Len(chars[k].utf8)
              /\ \A j \in 1 .. Len(chars[k].utf8) :
                   NameBytes(chars)[StartOf(chars, k - 1) + j - 1] = chars[k].utf8[j]
<1> DEFINE parts == Utf8Parts(chars)
           s == NameBytes(chars)
           S == Below(256)
<1>1. /\ Len(chars) \in Nat /\ DOMAIN chars = 1 .. Len(chars)
      /\ parts \in Seq(Seq(S)) /\ Len(parts) = Len(chars)
      /\ \A k \in 1 .. Len(chars) : chars[k].utf8 \in Seq(S)
  BY NameAre
<1>2. \A k \in 1 .. Len(chars) : parts[k] = chars[k].utf8  BY <1>1 DEF Utf8Parts
<1>3. s = Concat(parts)  BY DEF NameBytes, Utf8Parts
<1>4. S \in SUBSET Nat  BY DEF Below
<1> HIDE DEF parts, s, S
<1>5. /\ Concat(parts) = Upto(parts, Len(parts)) /\ Upto(parts, 0) = <<>>
      /\ \A k \in 0 .. Len(parts) : Upto(parts, k) \in Seq(S)
      /\ \A k \in 1 .. Len(parts) : Upto(parts, k) = Upto(parts, k - 1) \o parts[k]
  BY <1>1, <1>4, UptoAre
<1>6. s = Upto(parts, Len(chars)) /\ s \in Seq(S) /\ Len(s) \in Nat
  <2>1. s = Upto(parts, Len(chars)) /\ Len(chars) \in 0 .. Len(parts)  BY <1>1, <1>3, <1>5
  <2>2. s \in Seq(S)  BY <1>5, <2>1
  <2>3. QED BY <2>1, <2>2, LenProperties
<1>7. \A k \in 0 .. Len(chars) :
        /\ Len(Upto(parts, k)) \in Nat /\ Len(Upto(parts, k)) <= Len(s)
        /\ \A i \in 1 .. Len(Upto(parts, k)) : s[i] = Upto(parts, k)[i]
  <2>1. SUFFICES ASSUME NEW k \in 0 .. Len(chars)
                 PROVE  /\ Len(Upto(parts, k)) \in Nat /\ Len(Upto(parts, k)) <= Len(s)
                        /\ \A i \in 1 .. Len(Upto(parts, k)) : s[i] = Upto(parts, k)[i]
    OBVIOUS
  <2>2. k \in 0 .. Len(parts) /\ Len(parts) \in k .. Len(parts)  BY <1>1
  <2>3. QED BY <1>1, <1>4, <1>6, <2>2, UptoKept
<1>8. ASSUME NEW k \in 1 .. Len(chars)
      PROVE  /\ Len(chars[k].utf8) \in Nat
             /\ Len(Upto(parts, k)) = Len(Upto(parts, k - 1)) + Len(chars[k].utf8)
             /\ \A j \in 1 .. Len(chars[k].utf8) :
                  s[Len(Upto(parts, k - 1)) + j] = chars[k].utf8[j]
  <2> DEFINE before == Upto(parts, k - 1)
             part == chars[k].utf8
  <2>1. k - 1 \in 0 .. Len(chars) /\ k \in 0 .. Len(chars)  BY <1>1
  <2>2. Upto(parts, k) = before \o part /\ before \in Seq(S) /\ part \in Seq(S)
    BY <1>1, <1>2, <1>5, <2>1
  <2> HIDE DEF before, part
  <2>3. Joined(S, before, part)  BY <2>2, ConcatAre
  <2>4. /\ Len(Upto(parts, k)) = Len(before) + Len(part) /\ Len(before) \in Nat /\ Len(part) \in Nat
        /\ \A j \in 1 .. Len(part) : Upto(parts, k)[Len(before) + j] = part[j]
    BY <2>2, <2>3 DEF Joined
  <2>5. \A j \in 1 .. Len(part) : s[Len(before) + j] = part[j]
    <3>1. SUFFICES ASSUME NEW j \in 1 .. Len(part) PROVE s[Len(before) + j] = part[j]  OBVIOUS
    <3>2. Len(before) + j \in 1 .. Len(Upto(parts, k))  BY <2>4
    <3>3. s[Len(before) + j] = Upto(parts, k)[Len(before) + j]  BY <1>7, <2>1, <3>2
    <3>4. QED BY <2>4, <3>3
  <2>6. QED BY <2>4, <2>5 DEF before, part
<1>9. \A k \in 0 .. Len(chars) : StartOf(chars, k) = 1 + Len(Upto(parts, k))
  BY DEF StartOf, parts
<1>10. StartOf(chars, 0) = 1
  <2>1. Len(Upto(parts, 0)) = 0  BY <1>5
  <2>2. QED BY <1>1, <1>9, <2>1
<1>11. StartOf(chars, Len(chars)) = Len(s) + 1  BY <1>1, <1>6, <1>9
<1>12. \A k \in 0 .. Len(chars) : StartOf(chars, k) \in 1 .. Len(s) + 1
  BY <1>6, <1>7, <1>9
<1>13. ASSUME NEW k \in 1 .. Len(chars)
       PROVE  /\ Len(chars[k].utf8) \in Nat
              /\ StartOf(chars, k) = StartOf(chars, k - 1) + Len(chars[k].utf8)
              /\ \A j \in 1 .. Len(chars[k].utf8) :
                   s[StartOf(chars, k - 1) + j - 1] = chars[k].utf8[j]
  <2>1. k - 1 \in 0 .. Len(chars) /\ k \in 0 .. Len(chars)  BY <1>1
  <2>2. /\ StartOf(chars, k) = 1 + Len(Upto(parts, k)) /\ Len(Upto(parts, k - 1)) \in Nat
        /\ StartOf(chars, k - 1) = 1 + Len(Upto(parts, k - 1))
    BY <1>7, <1>9, <2>1
  <2> DEFINE part == chars[k].utf8
  <2> HIDE DEF part
  <2>3. /\ Len(part) \in Nat /\ Len(Upto(parts, k)) = Len(Upto(parts, k - 1)) + Len(part)
        /\ \A j \in 1 .. Len(part) : s[Len(Upto(parts, k - 1)) + j] = part[j]
    BY <1>8 DEF part
  <2>4. StartOf(chars, k) = StartOf(chars, k - 1) + Len(part)  BY <2>2, <2>3
  <2>5. \A j \in 1 .. Len(part) :
          StartOf(chars, k - 1) + j - 1 = Len(Upto(parts, k - 1)) + j
    BY <2>2, <2>3
  <2>6. \A j \in 1 .. Len(part) : s[StartOf(chars, k - 1) + j - 1] = part[j]  BY <2>5, <2>3
  <2>7. QED BY <2>4, <2>3, <2>6 DEF part
<1>14. QED BY <1>6, <1>10, <1>11, <1>12, <1>13 DEF s, S

\* The character after a name's first k has the unit that it should, or none.
LEMMA UnitAtStart ==
  ASSUME NEW chars, CardName(chars), NEW k \in 1 .. Len(chars)
  PROVE  /\ HasUnit(chars[k]) =>
              UnitAt(NameBytes(chars), StartOf(chars, k - 1))
                = Unit(chars[k].utf16[1], StartOf(chars, k) - StartOf(chars, k - 1))
         /\ chars[k].utf16 = <<>> => UnitAt(NameBytes(chars), StartOf(chars, k - 1)) = NoUnit
<1> DEFINE s == NameBytes(chars)
           p == StartOf(chars, k - 1)
           part == chars[k].utf8
<1>1. chars \in Seq(Characters) /\ \A i \in DOMAIN chars : HasUnit(chars[i]) \/ HasNone(chars, i)
  BY DEF CardName
<1>2. /\ Len(chars) \in Nat /\ DOMAIN chars = 1 .. Len(chars)
      /\ \A i \in 1 .. Len(chars) : /\ chars[i].utf8 \in Seq(Below(256))
                                    /\ chars[i].utf16 \in Seq(CodeUnit)
  BY <1>1, NameAre
<1>3. /\ s \in Seq(Below(256)) /\ Len(s) \in Nat
      /\ StartOf(chars, Len(chars)) = Len(s) + 1
      /\ \A i \in 0 .. Len(chars) : StartOf(chars, i) \in 1 .. Len(s) + 1
      /\ \A i \in 1 .. Len(chars) :
           /\ Len(chars[i].utf8) \in Nat
           /\ StartOf(chars, i) = StartOf(chars, i - 1) + Len(chars[i].utf8)
           /\ \A j \in 1 .. Len(chars[i].utf8) :
                s[StartOf(chars, i - 1) + j - 1] = chars[i].utf8[j]
  BY <1>1, StartsAre
<1>4. k - 1 \in 0 .. Len(chars) /\ k \in 0 .. Len(chars) /\ k \in DOMAIN chars  BY <1>2
<1>5. /\ p \in Nat \ {0} /\ StartOf(chars, k) = p + Len(part) /\ p + Len(part) <= Len(s) + 1
      /\ part \in Seq(Below(256)) /\ Len(part) \in Nat
      /\ \A j \in 1 .. Len(part) : s[p + j - 1] = part[j]
  <2>1. p \in 1 .. Len(s) + 1 /\ StartOf(chars, k) \in 1 .. Len(s) + 1  BY <1>3, <1>4
  <2>2. /\ Len(part) \in Nat /\ StartOf(chars, k) = p + Len(part)
        /\ \A j \in 1 .. Len(part) : s[p + j - 1] = part[j]
    BY <1>3
  <2>3. part \in Seq(Below(256)) /\ Len(s) \in Nat  BY <1>2, <1>3
  <2> HIDE DEF p, part, s
  <2>4. QED BY <2>1, <2>2, <2>3
<1>6. ASSUME HasUnit(chars[k])
      PROVE  UnitAt(s, p) = Unit(chars[k].utf16[1], StartOf(chars, k) - p)
  <2> DEFINE u == chars[k].utf16[1]
  <2>1. Len(chars[k].utf16) = 1 /\ part = BytesOf(u)  BY <1>6 DEF HasUnit
  <2>2. u \in CodeUnit  BY <1>2, <2>1, ElementOfSeq
  <2> HIDE DEF s, p, part, u
  <2>3. p + Len(BytesOf(u)) - 1 <= Len(s) /\ StartOf(chars, k) - p = Len(BytesOf(u))
    BY <1>3, <1>5, <2>1
  <2>4. UnitAt(s, p) = Unit(u, Len(BytesOf(u)))
    <3>1. \A j \in 1 .. Len(BytesOf(u)) : s[p + j - 1] = BytesOf(u)[j]  BY <1>5, <2>1
    <3>2. QED BY <1>3, <1>5, <2>2, <2>3, <3>1, UnitAtUnit
  <2>5. QED BY <2>3, <2>4 DEF u
<1>7. ASSUME chars[k].utf16 = <<>> PROVE UnitAt(s, p) = NoUnit
  <2>1. ~HasUnit(chars[k])  BY <1>7 DEF HasUnit
  <2>2. part # <<>> /\ (Malformed(chars[k]) \/ CutShort(chars[k]))
        /\ (~Malformed(chars[k]) /\ k < Len(chars) => ~IsLater(chars[k + 1].utf8[1]))
    BY <1>1, <1>4, <2>1 DEF HasNone
  <2>3. Len(part) > 0 /\ s[p] = part[1] /\ p <= Len(s)
    <3>1. Len(part) > 0  BY <1>5, <2>2, EmptySeq
    <3>2. p + 1 - 1 = p /\ 1 \in 1 .. Len(part)  BY <1>5, <3>1
    <3>3. s[p + 1 - 1] = part[1]  BY <1>5, <3>2
    <3>4. QED BY <1>3, <1>5, <3>1, <3>2, <3>3
  <2>4. CASE Malformed(chars[k])
    <3>1. IsLater(s[p]) \/ s[p] >= 240  BY <2>3, <2>4 DEF Malformed
    <3> HIDE DEF s, p
    <3>2. QED BY <1>3, <1>5, <3>1, UnitAtNone
  <2>5. CASE ~Malformed(chars[k])
    <3>1. ~Continues(s, p + Len(part))
      <4>1. CASE k = Len(chars)
        <5>1. p + Len(part) = Len(s) + 1  BY <1>3, <1>5, <4>1
        <5>2. CharAt(s, p + Len(part)) = 0  BY <1>3, <5>1 DEF CharAt
        <5>3. QED BY <5>2 DEF Continues, IsLater
      <4>2. CASE k < Len(chars)
        <5> DEFINE next == chars[k + 1].utf8
        <5>1. k + 1 \in 1 .. Len(chars) /\ k + 1 \in DOMAIN chars /\ (k + 1) - 1 = k
          BY <1>2, <4>2
        <5>2. next \in Seq(Below(256)) /\ Len(next) \in Nat /\ Len(next) > 0
          <6>1. next \in Seq(Below(256)) /\ Len(next) \in Nat  BY <1>2, <1>3, <5>1
          <6>2. CASE HasUnit(chars[k + 1])
            <7> DEFINE u == chars[k + 1].utf16[1]
                       n == Len(BytesOf(u))
            <7>1. Len(chars[k + 1].utf16) = 1 /\ next = BytesOf(u)  BY <6>2 DEF HasUnit
            <7>2. u \in CodeUnit  BY <1>2, <5>1, <7>1, ElementOfSeq
            <7>3. n \in 1 .. 3
              <8> HIDE DEF u
              <8>1. QED BY <7>2, BytesOfAre
            <7>4. Len(next) = n  BY <7>1
            <7> HIDE DEF n, next
            <7>5. n > 0  BY <7>3
            <7>6. Len(next) > 0  BY <7>4, <7>5
            <7>7. QED BY <6>1, <7>6
          <6>3. CASE HasNone(chars, k + 1)
            <7>1. next # <<>>  BY <6>3 DEF HasNone
            <7>2. QED BY <6>1, <7>1, EmptySeq
          <6>4. QED BY <1>1, <5>1, <6>2, <6>3
        <5>3. /\ s[StartOf(chars, k) + 1 - 1] = next[1]
              /\ StartOf(chars, k + 1) = StartOf(chars, k) + Len(next)
              /\ StartOf(chars, k + 1) \in 1 .. Len(s) + 1
          <6>1. 1 \in 1 .. Len(next) /\ k + 1 \in 0 .. Len(chars)  BY <5>1, <5>2
          <6>2. /\ StartOf(chars, k + 1) = StartOf(chars, (k + 1) - 1) + Len(next)
                /\ s[StartOf(chars, (k + 1) - 1) + 1 - 1] = next[1]
            BY <1>3, <5>1, <6>1
          <6>3. QED BY <1>3, <5>1, <6>1, <6>2
        <5>4. s[p + Len(part)] = next[1] /\ p + Len(part) <= Len(s)
          <6>1. StartOf(chars, k) + 1 - 1 = p + Len(part)  BY <1>5
          <6> HIDE DEF s, p, part, next
          <6>2. QED BY <1>3, <1>5, <5>2, <5>3, <6>1
        <5>5. CharAt(s, p + Len(part)) = next[1]  BY <5>4 DEF CharAt
        <5>6. QED BY <2>2, <2>5, <4>2, <5>5 DEF Continues
      <4>3. k = Len(chars) \/ k < Len(chars)
        <5>1. Len(chars) \in Nat  BY <1>2
        <5>2. QED BY <5>1
      <4>4. QED BY <4>1, <4>2, <4>3
    <3>2. CutShort(chars[k])  BY <2>2, <2>5
    <3>3. \/ s[p] \div 32 = 6 /\ Len(part) = 1
          \/ s[p] \div 16 = 14 /\ (Len(part) = 1 \/ Len(part) = 2)
      <4> HIDE DEF s, p
      <4>1. \/ part[1] \div 32 = 6 /\ Len(part) = 1
            \/ part[1] \div 16 = 14 /\ Len(part) <= 2
        BY <3>2 DEF CutShort
      <4>2. Len(part) \in Nat /\ Len(part) > 0  BY <1>5, <2>3
      <4>3. Len(part) <= 2 => Len(part) = 1 \/ Len(part) = 2
        <5> DEFINE n == Len(part)
        <5>1. n \in Nat /\ n > 0  BY <4>2
        <5> HIDE DEF n
        <5>2. n <= 2 => n = 1 \/ n = 2  BY <5>1
        <5>3. QED BY <5>2 DEF n
      <4>4. s[p] = part[1]  BY <2>3
      <4> HIDE DEF part
      <4>5. QED BY <4>1, <4>3, <4>4
    <3>4. \/ s[p] \div 32 = 6 /\ ~Continues(s, p + 1)
          \/ s[p] \div 16 = 14 /\ ~(Continues(s, p + 1) /\ Continues(s, p + 2))
      <4> HIDE DEF s, p, part
      <4>1. QED BY <3>1, <3>3
    <3> HIDE DEF s, p
    <3>5. QED BY <1>3, <1>5, <3>4, UnitAtNone
  <2>6. QED BY <2>4, <2>5
<1>8. QED BY <1>6, <1>7

\* What a host is told of a name, and of a text of letters.
Starts(chars) == [k \in 0 .. Told(chars) |-> StartOf(chars, k)]
ToldUnits(chars) == UnitsOf(chars, Told(chars))

\* The units that can be told of a name are those of its first characters.
LEMMA ToldUnitsAre ==
  ASSUME NEW chars, CardName(chars)
  PROVE  /\ \A i \in 1 .. Told(chars) : HasUnit(chars[i])
         /\ ToldUnits(chars) \in Seq(CodeUnit) /\ Len(ToldUnits(chars)) = Told(chars)
         /\ TellableUnits(chars) = ToldUnits(chars)
<1>1. chars \in Seq(Characters) /\ \A i \in DOMAIN chars : HasUnit(chars[i]) \/ HasNone(chars, i)
  BY DEF CardName
<1>2. /\ Told(chars) \in 0 .. Len(chars) /\ \A i \in 1 .. Told(chars) : chars[i].utf16 # <<>>
  BY <1>1, ToldAre
<1>3. Len(chars) \in Nat /\ DOMAIN chars = 1 .. Len(chars)  BY <1>1, NameAre
<1>4. \A i \in 1 .. Told(chars) : HasUnit(chars[i])
  <2>1. SUFFICES ASSUME NEW i \in 1 .. Told(chars) PROVE HasUnit(chars[i])  OBVIOUS
  <2>2. i \in DOMAIN chars /\ chars[i].utf16 # <<>>  BY <1>2, <1>3
  <2>3. ~HasNone(chars, i)  BY <2>2 DEF HasNone
  <2>4. QED BY <1>1, <2>2, <2>3
<1>5. /\ UnitsOf(chars, Told(chars)) \in Seq(CodeUnit)
      /\ Len(UnitsOf(chars, Told(chars))) = Told(chars)
      /\ Upto(Utf16Parts(chars), Told(chars)) = UnitsOf(chars, Told(chars))
  BY <1>1, <1>2, <1>4, UnitsOfAre
<1>6. TellableUnits(chars) = NameUnits(SubSeq(chars, 1, Told(chars)))
  <2>1. CASE FirstWithout(chars) = 0
    <3>1. Told(chars) = Len(chars)  BY <2>1 DEF Told
    <3>2. SubSeq(chars, 1, Len(chars)) = chars  BY <1>1, SubSeqFull
    <3>3. QED BY <2>1, <3>1, <3>2 DEF TellableUnits
  <2>2. CASE FirstWithout(chars) # 0
    <3>1. Told(chars) = FirstWithout(chars) - 1  BY <2>2 DEF Told
    <3>2. QED BY <2>2, <3>1 DEF TellableUnits
  <2>3. QED BY <2>1, <2>2
<1>7. NameUnits(SubSeq(chars, 1, Told(chars))) = Upto(Utf16Parts(chars), Told(chars))
  BY <1>1, <1>2, FirstParts
<1>8. QED BY <1>4, <1>5, <1>6, <1>7 DEF ToldUnits

\* The loop of esp_mtp_utf8_to_utf16 finds each of them, and none after them.
LEMMA NameMarks ==
  ASSUME NEW chars, CardName(chars)
  PROVE  Marks(NameBytes(chars), Told(chars), Starts(chars), ToldUnits(chars))
<1> DEFINE s == NameBytes(chars)
           m == Told(chars)
           at == Starts(chars)
           units == ToldUnits(chars)
<1>1. chars \in Seq(Characters)  BY DEF CardName
<1>2. /\ Len(chars) \in Nat /\ m \in 0 .. Len(chars)
      /\ m < Len(chars) => chars[m + 1].utf16 = <<>>
  BY <1>1, ToldAre, LenProperties
<1>3. /\ s \in Seq(Below(256)) /\ Len(s) \in Nat /\ StartOf(chars, 0) = 1
      /\ StartOf(chars, Len(chars)) = Len(s) + 1
      /\ \A k \in 0 .. Len(chars) : StartOf(chars, k) \in 1 .. Len(s) + 1
  BY <1>1, StartsAre
<1>4. /\ \A i \in 1 .. m : HasUnit(chars[i]) /\ chars[i].utf16[1] = units[i]
      /\ units \in Seq(CodeUnit) /\ Len(units) = m
  BY ToldUnitsAre DEF ToldUnits, UnitsOf
<1>5. \A k \in 0 .. m : at[k] = StartOf(chars, k)  BY DEF Starts
<1> HIDE DEF s, m, at, units
<1>6. ASSUME NEW k \in 1 .. m
      PROVE  UnitAt(s, at[k - 1]) = Unit(units[k], at[k] - at[k - 1])
  <2>1. k \in 1 .. Len(chars) /\ k \in 0 .. m /\ k - 1 \in 0 .. m  BY <1>2
  <2>2. UnitAt(s, StartOf(chars, k - 1))
          = Unit(chars[k].utf16[1], StartOf(chars, k) - StartOf(chars, k - 1))
    BY <1>4, <2>1, UnitAtStart DEF s
  <2>3. QED BY <1>4, <1>5, <2>1, <2>2
<1>7. UnitAt(s, at[m]) = NoUnit
  <2>1. at[m] = StartOf(chars, m)  BY <1>2, <1>5
  <2>2. CASE m = Len(chars)
    <3>1. at[m] = Len(s) + 1  BY <1>3, <2>1, <2>2
    <3>2. at[m] \in Nat \ {0} /\ ~(at[m] <= Len(s))  BY <1>3, <3>1
    <3>3. QED BY <1>3, <3>2, UnitAtNone
  <2>3. CASE m < Len(chars)
    <3>1. m + 1 \in 1 .. Len(chars) /\ (m + 1) - 1 = m  BY <1>2, <2>3
    <3>2. UnitAt(s, StartOf(chars, (m + 1) - 1)) = NoUnit
      BY <1>2, <2>3, <3>1, UnitAtStart DEF s
    <3>3. QED BY <2>1, <3>1, <3>2
  <2>4. QED BY <1>2, <2>2, <2>3
<1>8. at[0] = 1 /\ \A k \in 0 .. m : at[k] \in 1 .. Len(s) + 1
  <2>1. 0 \in 0 .. m /\ \A k \in 0 .. m : k \in 0 .. Len(chars)  BY <1>2
  <2>2. QED BY <1>3, <1>5, <2>1
<1>9. Marks(s, m, at, units)  BY <1>4, <1>6, <1>7, <1>8 DEF Marks
<1>10. QED BY <1>9 DEF s, m, at, units

\* What esp_mtp_utf8_to_utf16 makes of a name: as many units as there is room for.
LEMMA NameTold ==
  ASSUME NEW chars, CardName(chars), NEW room \in Nat
  PROVE  LET units == TellableUnits(chars)
         IN  Utf16(NameBytes(chars), room)
               = SubSeq(units, 1, Lesser(Capacity(room), Len(units)))
<1>1. chars \in Seq(Characters)  BY DEF CardName
<1>2. Told(chars) \in Nat /\ Len(NameBytes(chars)) \in Nat
  <2>1. Told(chars) \in 0 .. Len(chars)  BY <1>1, ToldAre
  <2>2. QED BY <1>1, <2>1, StartsAre
<1>3. Len(ToldUnits(chars)) = Told(chars) /\ TellableUnits(chars) = ToldUnits(chars)
  BY ToldUnitsAre
<1>4. Marks(NameBytes(chars), Told(chars), Starts(chars), ToldUnits(chars))  BY NameMarks
<1>5. Utf16(NameBytes(chars), room)
        = SubSeq(ToldUnits(chars), 1, Lesser(Capacity(room), Told(chars)))
  BY <1>2, <1>4, Utf16Are
<1>6. QED BY <1>3, <1>5

\* What it makes of a text of ASCII letters: each of them, as far as there is room.
LEMMA TextTold ==
  ASSUME NEW n \in Nat, NEW s \in [1 .. n -> Below(128)], NEW room \in Nat
  PROVE  s \in Seq(CodeUnit) /\ Len(s) = n
         /\ Utf16(s, room) = SubSeq(s, 1, Lesser(Capacity(room), n))
<1> DEFINE at == [k \in 0 .. n |-> k + 1]
<1>1. \A k \in 1 .. n : s[k] \in Nat /\ 0 < s[k] /\ s[k] < 128  BY DEF Below
<1>2. s \in [1 .. n -> CodeUnit] /\ s \in [1 .. n -> Below(256)]
  BY <1>1 DEF CodeUnit, Below
<1>3. s \in Seq(CodeUnit) /\ Len(s) = n /\ s \in Seq(Below(256))  BY <1>2, FunctionSeq
<1>4. ASSUME NEW k \in 1 .. n PROVE UnitAt(s, k) = Unit(s[k], 1)
  <2>1. k \in Nat \ {0} /\ k <= Len(s)  BY <1>3
  <2>2. CharAt(s, k) = s[k]  BY <1>3, <2>1, CharAtAre
  <2>3. CharAt(s, k) # 0 /\ CharAt(s, k) < 128 /\ CharAt(s, k) \div 32 # 6
        /\ CharAt(s, k) \div 16 # 14
    BY <1>1, <2>2
  <2>4. QED BY <2>3 DEF UnitAt
<1>5. UnitAt(s, n + 1) = NoUnit
  <2>1. n + 1 \in Nat \ {0} /\ ~(n + 1 <= Len(s))  BY <1>3
  <2>2. QED BY <1>3, <2>1, UnitAtNone
<1>6. \A k \in 0 .. n : at[k] = k + 1  OBVIOUS
<1> HIDE DEF at
<1>7. \A k \in 1 .. n : UnitAt(s, at[k - 1]) = Unit(s[k], at[k] - at[k - 1])
  <2>1. \A k \in 1 .. n : at[k - 1] = k /\ at[k] - at[k - 1] = 1  BY <1>6
  <2>2. QED BY <1>4, <2>1
<1>8. at[0] = 1 /\ at[n] = n + 1 /\ \A k \in 0 .. n : at[k] \in 1 .. Len(s) + 1
  BY <1>3, <1>6
<1>9. Marks(s, n, at, s)  BY <1>3, <1>5, <1>7, <1>8 DEF Marks
<1>10. QED BY <1>3, <1>9, Utf16Are

-----------------------------------------------------------------------------
(***************************************************************************)
(* The loop that makes a file name of units.                               *)
(***************************************************************************)

\* Among some numbers up to n there is a greatest one.
LEMMA Greatest ==
  ASSUME NEW n \in Nat, NEW I \in SUBSET (0 .. n), I # {}
  PROVE  \E m \in I : \A i \in I : i <= m
<1> DEFINE J == {n - i : i \in I}
<1>1. J \in SUBSET Nat /\ J # {}
  <2>1. \A i \in I : n - i \in Nat  OBVIOUS
  <2>2. PICK i \in I : TRUE  OBVIOUS
  <2>3. n - i \in J  OBVIOUS
  <2>4. QED BY <2>1, <2>3
<1>2. PICK j \in J : \A x \in J : j <= x
  <2> HIDE DEF J
  <2>1. QED BY <1>1, Least
<1>3. PICK m \in I : j = n - m  OBVIOUS
<1>4. \A i \in I : i <= m
  <2>1. SUFFICES ASSUME NEW i \in I PROVE i <= m  OBVIOUS
  <2>2. n - i \in J  OBVIOUS
  <2>3. n - m <= n - i  BY <1>2, <1>3, <2>2
  <2>4. m \in 0 .. n /\ i \in 0 .. n  OBVIOUS
  <2>5. QED BY <2>3, <2>4
<1>5. QED BY <1>4

\* The bytes of a name's first characters fit the file name up to some character,
\* and of no more.
FitsUpto(chars, most) ==
  /\ most \in 0 .. Len(chars)
  /\ \A k \in 0 .. Len(chars) :
       Len(Upto(Utf8Parts(chars), k)) < FilenameSize <=> k <= most

\* The characters that fit the filename are the first ones of a name.
LEMMA FittingAre ==
  ASSUME NEW chars \in Seq(Characters)
  PROVE  \E most : FitsUpto(chars, most) /\ FittingName(chars) = Upto(Utf8Parts(chars), most)
<1> DEFINE parts == Utf8Parts(chars)
           n == Len(chars)
           size(k) == Len(Upto(parts, k))
           fitting == {k \in 0 .. n : Len(NameBytes(SubSeq(chars, 1, k))) < FilenameSize}
           most == CHOOSE k \in fitting : \A l \in fitting : l <= k
<1>1. /\ n \in Nat /\ parts \in Seq(Seq(Below(256))) /\ Len(parts) = n
      /\ Below(256) \in SUBSET Nat
  BY NameAre DEF Below
<1>2. \A k \in 0 .. n : NameBytes(SubSeq(chars, 1, k)) = Upto(parts, k)  BY FirstParts
<1>3. FittingName(chars) = NameBytes(SubSeq(chars, 1, most))  BY DEF FittingName
<1> HIDE DEF parts, n
<1>4. Upto(parts, 0) = <<>>  BY <1>1, UptoAre
<1>5. \A k \in 0 .. n : \A l \in k .. n : size(k) \in Nat /\ size(l) \in Nat /\ size(k) <= size(l)
  <2>1. SUFFICES ASSUME NEW k \in 0 .. n, NEW l \in k .. n
                 PROVE  size(k) \in Nat /\ size(l) \in Nat /\ size(k) <= size(l)
    OBVIOUS
  <2>2. k \in 0 .. Len(parts) /\ l \in 0 .. Len(parts) /\ l \in k .. Len(parts)
        /\ l \in l .. Len(parts)
    BY <1>1
  <2>3. QED BY <1>1, <2>2, UptoKept
<1>6. fitting = {k \in 0 .. n : size(k) < FilenameSize}
  <2> HIDE DEF size
  <2>1. \A k \in 0 .. n : Len(NameBytes(SubSeq(chars, 1, k))) = size(k)  BY <1>2 DEF size
  <2>2. QED BY <2>1
<1>7. 0 \in fitting
  <2>1. size(0) = 0  BY <1>4
  <2>2. 0 < FilenameSize  BY SizeAssumption
  <2> HIDE DEF fitting, size
  <2>3. QED BY <1>1, <1>6, <2>1, <2>2
<1>8. most \in fitting /\ \A l \in fitting : l <= most
  <2>1. fitting \in SUBSET (0 .. n)  OBVIOUS
  <2> HIDE DEF fitting
  <2>2. \E m \in fitting : \A i \in fitting : i <= m  BY <1>1, <1>7, <2>1, Greatest
  <2>3. QED BY <2>2
<1> HIDE DEF most, fitting, size
<1>9. most \in 0 .. n /\ size(most) < FilenameSize  BY <1>6, <1>8
<1>10. ASSUME NEW k \in 0 .. n PROVE size(k) < FilenameSize <=> k <= most
  <2>1. CASE k <= most
    <3>1. most \in k .. n  BY <1>1, <1>9, <2>1
    <3>2. size(k) \in Nat /\ size(most) \in Nat /\ size(k) <= size(most)  BY <1>5, <3>1
    <3>3. QED BY <1>9, <2>1, <3>2, SizeAssumption
  <2>2. CASE ~(k <= most)
    <3>1. k \notin fitting  BY <1>8, <2>2
    <3>2. QED BY <1>6, <2>2, <3>1
  <2>3. QED BY <2>1, <2>2
<1>11. FittingName(chars) = Upto(parts, most)  BY <1>2, <1>3, <1>9
<1>12. FitsUpto(chars, most)  BY <1>9, <1>10 DEF FitsUpto, n, parts, size
<1>13. QED BY <1>11, <1>12 DEF parts

Loops8 == [bytes : Seq(Nat), ended : BOOLEAN]
Rounds8(units, room) ==
  [k \in DOMAIN units |-> [loop \in Loops8 |-> Put(loop, units[k], room)]]
Past(k, most) == IF k > most THEN TRUE ELSE FALSE
State8(parts, most, k) == [bytes |-> Upto(parts, Lesser(k, most)), ended |-> Past(k, most)]

\* A round takes the next character while it fits.
LEMMA PutUnit ==
  ASSUME NEW chars \in Seq(Characters), NEW most, FitsUpto(chars, most),
         NEW k \in 1 .. Len(chars), NEW u, chars[k].utf8 = BytesOf(u)
  PROVE  LET parts == Utf8Parts(chars)
         IN  /\ State8(parts, most, k - 1) \in Loops8
             /\ Put(State8(parts, most, k - 1), u, FilenameSize) = State8(parts, most, k)
<1> DEFINE parts == Utf8Parts(chars)
           bytes(l) == Upto(parts, l)
           before == State8(parts, most, k - 1)
           room == FilenameSize
<1>1. /\ Len(chars) \in Nat /\ DOMAIN chars = 1 .. Len(chars)
      /\ parts \in Seq(Seq(Below(256))) /\ Len(parts) = Len(chars)
      /\ chars[k].utf8 \in Seq(Below(256)) /\ Below(256) \in SUBSET Nat
  BY NameAre DEF Below
<1>2. parts[k] = BytesOf(u) /\ parts[k] \in Seq(Below(256))  BY <1>1 DEF Utf8Parts
<1>3. /\ most \in 0 .. Len(chars)
      /\ \A l \in 0 .. Len(chars) : Len(bytes(l)) < room <=> l <= most
  BY DEF FitsUpto
<1> HIDE DEF parts
<1>4. /\ \A l \in 0 .. Len(chars) : bytes(l) \in Seq(Below(256))
      /\ bytes(k) = bytes(k - 1) \o parts[k]
  BY <1>1, UptoAre
<1>5. k \in 0 .. Len(chars) /\ k - 1 \in 0 .. Len(chars)  BY <1>1
<1>6. Len(bytes(k)) = Len(bytes(k - 1)) + Len(BytesOf(u))
      /\ Len(bytes(k - 1)) \in Nat /\ Len(BytesOf(u)) \in Nat
  <2>1. Joined(Below(256), bytes(k - 1), parts[k])  BY <1>2, <1>4, <1>5, ConcatAre
  <2> HIDE DEF bytes
  <2>2. QED BY <1>2, <1>4, <2>1 DEF Joined
<1>7. room \in Nat \ {0}  BY SizeAssumption
<1> HIDE DEF room
<1>8. Lesser(k - 1, most) \in 0 .. Len(chars)  BY <1>1, <1>3, <1>5 DEF Lesser
<1>9. before = [bytes |-> bytes(Lesser(k - 1, most)), ended |-> Past(k - 1, most)]  BY DEF State8
<1> HIDE DEF before, bytes
<1>10. before \in Loops8
  <2>1. bytes(Lesser(k - 1, most)) \in Seq(Nat)  BY <1>1, <1>4, <1>8, SeqMonotonic
  <2>2. Past(k - 1, most) \in BOOLEAN  BY DEF Past
  <2>3. QED BY <1>9, <2>1, <2>2 DEF Loops8
<1>11. CASE k <= most
  <2>1. Lesser(k - 1, most) = k - 1 /\ Lesser(k, most) = k
    BY <1>1, <1>3, <1>11 DEF Lesser
  <2>2. Past(k - 1, most) = FALSE /\ Past(k, most) = FALSE
    BY <1>1, <1>3, <1>11 DEF Past
  <2>3. before = [bytes |-> bytes(k - 1), ended |-> FALSE]  BY <1>9, <2>1, <2>2
  <2>4. Fits(Len(bytes(k - 1)), u, room)
    <3>1. Len(bytes(k)) < room  BY <1>3, <1>5, <1>11
    <3>2. QED BY <1>6, <1>7, <3>1 DEF Fits
  <2>5. Put(before, u, room) = [before EXCEPT !.bytes = @ \o BytesOf(u)]
    BY <2>3, <2>4 DEF Put
  <2>6. Put(before, u, room) = [bytes |-> bytes(k), ended |-> FALSE]
    BY <1>2, <1>4, <2>3, <2>5
  <2>7. State8(parts, most, k) = [bytes |-> bytes(k), ended |-> FALSE]
    BY <2>1, <2>2 DEF State8, bytes
  <2>8. QED BY <1>10, <2>6, <2>7 DEF before, parts, room
<1>12. CASE ~(k <= most)
  <2>1. Lesser(k - 1, most) = most /\ Lesser(k, most) = most
    BY <1>1, <1>3, <1>12 DEF Lesser
  <2>2. Past(k, most) = TRUE /\ (k - 1 > most => Past(k - 1, most) = TRUE)
    BY <1>1, <1>3, <1>12 DEF Past
  <2>3. before = [bytes |-> bytes(most), ended |-> Past(k - 1, most)]  BY <1>9, <2>1
  <2>4. before.ended \/ ~Fits(Len(before.bytes), u, room)
    <3>1. CASE k - 1 = most
      <4>1. ~(Len(bytes(k)) < room)  BY <1>3, <1>5, <1>12
      <4>2. ~Fits(Len(bytes(k - 1)), u, room)  BY <1>6, <1>7, <4>1 DEF Fits
      <4>3. QED BY <2>3, <3>1, <4>2
    <3>2. CASE k - 1 > most  BY <2>3, <2>2, <3>2
    <3>3. k - 1 = most \/ k - 1 > most  BY <1>1, <1>3, <1>12
    <3>4. QED BY <3>1, <3>2, <3>3
  <2>5. Put(before, u, room) = [before EXCEPT !.ended = TRUE]  BY <2>4 DEF Put
  <2>6. Put(before, u, room) = [bytes |-> bytes(most), ended |-> TRUE]  BY <2>3, <2>5
  <2>7. State8(parts, most, k) = [bytes |-> bytes(most), ended |-> TRUE]
    BY <2>1, <2>2 DEF State8, bytes
  <2>8. QED BY <1>10, <2>6, <2>7 DEF before, parts, room
<1>13. QED BY <1>11, <1>12

\* A name of characters with units becomes as many of them as fit.
LEMMA Utf8Are ==
  ASSUME NEW chars \in Seq(Characters), \A i \in 1 .. Len(chars) : HasUnit(chars[i])
  PROVE  Utf8(UnitsOf(chars, Len(chars)), FilenameSize) = FittingName(chars)
<1> DEFINE parts == Utf8Parts(chars)
           units == UnitsOf(chars, Len(chars))
           n == Len(chars)
           start == [bytes |-> <<>>, ended |-> FALSE]
<1>1. PICK most : FitsUpto(chars, most) /\ FittingName(chars) = Upto(parts, most)
  BY FittingAre
<1>2. n \in Nat /\ n \in 0 .. n  BY LenProperties
<1>3. /\ units \in Seq(CodeUnit) /\ Len(units) = n
      /\ \A i \in 1 .. n : chars[i].utf8 = BytesOf(units[i])
  BY <1>2, UnitsOfAre
<1>4. DOMAIN units = 1 .. n  BY <1>3, LenProperties
<1> DEFINE f == [k \in 0 .. n |-> State8(parts, most, k)]
<1>5. f[0] = start
  <2>1. most \in 0 .. n  BY <1>1 DEF FitsUpto
  <2>2. Lesser(0, most) = 0 /\ Past(0, most) = FALSE  BY <1>2, <2>1 DEF Lesser, Past
  <2>3. Upto(parts, 0) = <<>>
    <3>1. parts \in Seq(Seq(Below(256))) /\ Below(256) \in SUBSET Nat  BY NameAre DEF Below
    <3>2. QED BY <3>1, UptoAre
  <2>4. 0 \in 0 .. n  BY <1>2
  <2>5. f[0] = State8(parts, most, 0)  BY <2>4
  <2>6. QED BY <2>2, <2>3, <2>5 DEF State8
<1>6. ASSUME NEW k \in 1 .. n PROVE f[k] = Rounds8(units, FilenameSize)[k][f[k - 1]]
  <2>1. k \in 0 .. n /\ k - 1 \in 0 .. n  BY <1>2
  <2>2. f[k] = State8(parts, most, k) /\ f[k - 1] = State8(parts, most, k - 1)  BY <2>1
  <2> HIDE DEF f, units, n
  <2>3. k \in 1 .. Len(chars)  BY DEF n
  <2>4. /\ State8(parts, most, k - 1) \in Loops8
        /\ Put(State8(parts, most, k - 1), units[k], FilenameSize) = State8(parts, most, k)
    BY <1>1, <1>3, <2>3, PutUnit
  <2>5. Rounds8(units, FilenameSize)[k][f[k - 1]] = Put(f[k - 1], units[k], FilenameSize)
    BY <1>4, <2>2, <2>4 DEF Rounds8
  <2>6. QED BY <2>2, <2>4, <2>5
<1>7. f[n] = State8(parts, most, n)  BY <1>2
<1>8. Utf8(units, FilenameSize) = Rounds(Rounds8(units, FilenameSize), start, n).bytes
  <2> HIDE DEF units, n
  <2>1. QED BY <1>3 DEF Utf8, Rounds8, Loops8
<1> HIDE DEF f, start, n, units
<1>9. Reaches(Rounds8(units, FilenameSize), start, n, f)  BY <1>5, <1>6 DEF Reaches
<1>10. Rounds(Rounds8(units, FilenameSize), start, n) = f[n]  BY <1>2, <1>9, RoundsReach
<1>11. State8(parts, most, n).bytes = Upto(parts, most)
  <2>1. most \in 0 .. n  BY <1>1 DEF FitsUpto, n
  <2>2. Lesser(n, most) = most  BY <1>2, <2>1 DEF Lesser
  <2>3. QED BY <2>2 DEF State8
<1>12. QED BY <1>1, <1>7, <1>8, <1>10, <1>11 DEF units, n

-----------------------------------------------------------------------------
(***************************************************************************)
(* Strings that are added to a dataset.                                    *)
(***************************************************************************)

\* A text of which a host is told some units, and those that there is room for.
Tells(text, units) ==
  /\ units \in Seq(CodeUnit)
  /\ \A room \in Nat :
       Utf16(text, room) = SubSeq(units, 1, Lesser(Capacity(room), Len(units)))
Cut(d, units) == SubSeq(units, 1, Lesser(Capacity(Room(d)), Len(units)))

\* The room that is told is less than 256.
LEMMA RoomAre ==
  ASSUME NEW d, Len(d) \in Nat
  PROVE  /\ Room(d) \in Nat /\ Room(d) < 256 /\ Capacity(Room(d)) \in Nat
         /\ Capacity(Room(d)) < 127 /\ Room(d) = (4096 - Len(d)) % 256
<1>1. BufferSize - HeadLen - Len(d) = 4096 - Len(d) /\ RoomRange = 256  BY SizeAssumption
<1>2. Room(d) = (4096 - Len(d)) % 256  BY <1>1 DEF Room
<1> DEFINE r == Room(d)
<1>3. r \in Nat /\ r < 256  BY <1>2
<1> HIDE DEF r
<1>4. Capacity(r) \in Nat /\ Capacity(r) < 127  BY <1>3 DEF Capacity
<1>5. QED BY <1>2, <1>3, <1>4 DEF r

\* What is kept of a text is less than 127 units, and all of it if there is room.
LEMMA CutAre ==
  ASSUME NEW d, Len(d) \in Nat, NEW units \in Seq(CodeUnit)
  PROVE  /\ Cut(d, units) \in Seq(CodeUnit) /\ Len(Cut(d, units)) \in Nat
         /\ Len(Cut(d, units)) = Lesser(Capacity(Room(d)), Len(units))
         /\ Len(Cut(d, units)) < 127
         /\ Len(units) <= Capacity(Room(d)) => Cut(d, units) = units
<1> DEFINE n == Lesser(Capacity(Room(d)), Len(units))
<1>1. Len(units) \in Nat  BY LenProperties
<1>2. Capacity(Room(d)) \in Nat /\ Capacity(Room(d)) < 127  BY RoomAre
<1>3. n \in 0 .. Len(units) /\ n < 127  BY <1>1, <1>2 DEF Lesser
<1>4. Cut(d, units) \in Seq(CodeUnit) /\ Len(Cut(d, units)) = n  BY <1>3, FirstUnits DEF Cut
<1>5. ASSUME Len(units) <= Capacity(Room(d)) PROVE Cut(d, units) = units
  <2>1. n = Len(units)  BY <1>1, <1>2, <1>5 DEF Lesser
  <2> HIDE DEF n
  <2>2. Cut(d, units) = SubSeq(units, 1, Len(units))  BY <2>1 DEF Cut, n
  <2>3. QED BY <2>2, SubSeqFull
<1>6. n \in Nat  BY <1>1, <1>3
<1> HIDE DEF n
<1>7. QED BY <1>3, <1>4, <1>5, <1>6 DEF n

\* A dataset d with a string of units after what was in it.
Added(d, after, units) ==
  /\ after \in Seq(Byte) /\ Len(after) = Len(d) + 2 * Len(units) + 3
  /\ Begins(d, after) /\ StringAt(after, Len(d) + 1, units)

\* A text that is added is found after what was there.
LEMMA WithAre ==
  ASSUME NEW d \in Seq(Byte), NEW text, NEW units, Tells(text, units)
  PROVE  Added(d, With(d, text), Cut(d, units))
<1> DEFINE cut == Cut(d, units)
<1>1. Len(d) \in Nat /\ units \in Seq(CodeUnit)  BY LenProperties DEF Tells
<1>2. Room(d) \in Nat  BY <1>1, RoomAre
<1>3. With(d, text) = d \o String(cut)  BY <1>2 DEF With, Tells, Cut
<1>4. cut \in Seq(CodeUnit) /\ Len(cut) \in Nat /\ Len(cut) < 127  BY <1>1, CutAre
<1> HIDE DEF cut
<1>5. Len(cut) < 255  BY <1>4
<1>6. /\ d \o String(cut) \in Seq(Byte) /\ Len(d \o String(cut)) = Len(d) + 2 * Len(cut) + 3
      /\ StringAt(d \o String(cut), Len(d) + 1, cut)
  BY <1>4, <1>5, StringPut
<1>7. String(cut) \in Seq(Byte)  BY <1>4, <1>5, StringAre
<1>8. Begins(d, d \o String(cut))  BY <1>7, BeginsAre
<1>9. Added(d, d \o String(cut), cut)  BY <1>6, <1>8 DEF Added
<1>10. QED BY <1>3, <1>9 DEF cut

\* What a dataset holds after the first texts that are added to it.
WithRounds(texts) == [k \in DOMAIN texts |-> [told \in Seq(Nat) |-> With(told, texts[k])]]
Held(d, texts, k) == Rounds(WithRounds(texts), d, k)
HeldCut(d, texts, units, k) == Cut(Held(d, texts, k - 1), units[k])

AllTold(texts, units, n) ==
  /\ n \in Nat /\ Len(texts) = n /\ DOMAIN texts = 1 .. n
  /\ \A k \in 1 .. n : Tells(texts[k], units[k])

\* The dataset after each of the texts.
LEMMA HeldAre ==
  ASSUME NEW d \in Seq(Byte), NEW texts, NEW units, NEW n, AllTold(texts, units, n)
  PROVE  /\ Held(d, texts, 0) = d /\ WithAll(d, texts) = Held(d, texts, n)
         /\ \A k \in 0 .. n : Held(d, texts, k) \in Seq(Byte)
         /\ \A k \in 1 .. n : Held(d, texts, k) = With(Held(d, texts, k - 1), texts[k])
<1>1. n \in Nat /\ Len(texts) = n /\ DOMAIN texts = 1 .. n
      /\ \A k \in 1 .. n : Tells(texts[k], units[k])
  BY DEF AllTold
<1>2. Byte \subseteq Nat  BY DEF Byte
<1>3. \A s \in Seq(Byte) : s \in Seq(Nat)  BY <1>2, SeqMonotonic
<1>4. \A k \in 1 .. n : \A s \in Seq(Byte) : WithRounds(texts)[k][s] = With(s, texts[k])
  BY <1>1, <1>3 DEF WithRounds
<1>5. \A k \in 1 .. n : \A s \in Seq(Byte) : WithRounds(texts)[k][s] \in Seq(Byte)
  <2>1. SUFFICES ASSUME NEW k \in 1 .. n, NEW s \in Seq(Byte)
                 PROVE  With(s, texts[k]) \in Seq(Byte)
    BY <1>4
  <2>2. Tells(texts[k], units[k])  BY <1>1
  <2>3. Added(s, With(s, texts[k]), Cut(s, units[k]))  BY <2>2, WithAre
  <2>4. QED BY <2>3 DEF Added
<1>6. \A k \in 0 .. n : Held(d, texts, k) \in Seq(Byte)  BY <1>1, <1>5, RoundsIn DEF Held
<1>7. ASSUME NEW k \in 1 .. n PROVE Held(d, texts, k) = With(Held(d, texts, k - 1), texts[k])
  <2>1. k - 1 \in Nat /\ k - 1 \in 0 .. n /\ (k - 1) + 1 = k  BY <1>1
  <2>2. \A i \in Nat : Held(d, texts, i + 1) = WithRounds(texts)[i + 1][Held(d, texts, i)]
    BY RoundsAre DEF Held
  <2>3. Held(d, texts, k) = WithRounds(texts)[k][Held(d, texts, k - 1)]  BY <2>1, <2>2
  <2>4. QED BY <1>4, <1>6, <2>1, <2>3
<1>8. Held(d, texts, 0) = d  BY RoundsAre DEF Held
<1>9. WithAll(d, texts) = Held(d, texts, n)  BY <1>1 DEF WithAll, Held, WithRounds
<1>10. QED BY <1>6, <1>7, <1>8, <1>9

\* Strings one after the other, from where to where.
StringsAt(d, at, cuts, n) ==
  /\ at[0] \in Nat \ {0}
  /\ \A k \in 1 .. n : /\ cuts[k] \in Seq(CodeUnit) /\ Len(cuts[k]) \in Nat
                       /\ Len(cuts[k]) < 127
                       /\ StringAt(d, at[k - 1], cuts[k])
                       /\ at[k] = at[k - 1] + 2 * Len(cuts[k]) + 3

HeldAt(d, texts, n) == [k \in 0 .. n |-> Len(Held(d, texts, k)) + 1]
HeldCuts(d, texts, units, n) == [k \in 1 .. n |-> HeldCut(d, texts, units, k)]

\* The texts are found where they were added, and what was there before them is.
LEMMA HeldStrings ==
  ASSUME NEW d \in Seq(Byte), NEW texts, NEW units, NEW n, AllTold(texts, units, n)
  PROVE  /\ StringsAt(WithAll(d, texts), HeldAt(d, texts, n),
                      HeldCuts(d, texts, units, n), n)
         /\ Begins(d, WithAll(d, texts))
<1> DEFINE held(k) == Held(d, texts, k)
           cut(k) == HeldCut(d, texts, units, k)
<1>1. n \in Nat /\ \A k \in 1 .. n : Tells(texts[k], units[k])  BY DEF AllTold
<1>2. /\ held(0) = d /\ WithAll(d, texts) = held(n)
      /\ \A k \in 0 .. n : held(k) \in Seq(Byte)
      /\ \A k \in 1 .. n : held(k) = With(held(k - 1), texts[k])
  BY HeldAre
<1>3. \A k \in 0 .. n : Len(held(k)) \in Nat  BY <1>2, LenProperties
<1>4. ASSUME NEW k \in 1 .. n
      PROVE  /\ cut(k) \in Seq(CodeUnit) /\ Len(cut(k)) \in Nat /\ Len(cut(k)) < 127
             /\ Len(held(k)) = Len(held(k - 1)) + 2 * Len(cut(k)) + 3
             /\ Begins(held(k - 1), held(k))
             /\ StringAt(held(k), Len(held(k - 1)) + 1, cut(k))
  <2>1. k - 1 \in 0 .. n  BY <1>1
  <2>2. held(k - 1) \in Seq(Byte) /\ Len(held(k - 1)) \in Nat
        /\ held(k) = With(held(k - 1), texts[k]) /\ Tells(texts[k], units[k])
        /\ cut(k) = Cut(held(k - 1), units[k])
    BY <1>1, <1>2, <1>3, <2>1 DEF HeldCut
  <2>3. units[k] \in Seq(CodeUnit)  BY <2>2 DEF Tells
  <2> HIDE DEF held, cut
  <2>4. cut(k) \in Seq(CodeUnit) /\ Len(cut(k)) \in Nat /\ Len(cut(k)) < 127
    BY <2>2, <2>3, CutAre
  <2>5. Added(held(k - 1), held(k), cut(k))
    <3>1. Added(held(k - 1), With(held(k - 1), texts[k]), Cut(held(k - 1), units[k]))
      BY <2>2, WithAre
    <3>2. QED BY <2>2, <3>1
  <2>6. QED BY <2>4, <2>5 DEF Added
<1> HIDE DEF held, cut
<1> DEFINE Found(k) ==
             /\ Begins(d, held(k))
             /\ \A j \in 1 .. k : StringAt(held(k), Len(held(j - 1)) + 1, cut(j))
           P == {k \in Nat : k <= n => Found(k)}
<1>5. 0 \in P
  <2>1. held(0) = d /\ Len(d) \in Nat  BY <1>2, LenProperties
  <2>2. Found(0)  BY <2>1 DEF Begins
  <2> HIDE DEF Found
  <2>3. QED BY <2>2
<1>6. \A k \in Nat : k \in P => k + 1 \in P
  <2> HIDE DEF Found
  <2>1. SUFFICES ASSUME NEW k \in Nat, k \in P, k + 1 <= n PROVE Found(k + 1)  OBVIOUS
  <2>2. k + 1 \in 1 .. n /\ (k + 1) - 1 = k /\ k \in 0 .. n /\ k + 1 \in 0 .. n
    BY <1>1, <2>1
  <2>3. Found(k)  BY <1>1, <2>1
  <2>4. /\ Len(cut(k + 1)) \in Nat
        /\ Len(held(k + 1)) = Len(held(k)) + 2 * Len(cut(k + 1)) + 3
        /\ Begins(held(k), held(k + 1))
        /\ StringAt(held(k + 1), Len(held(k)) + 1, cut(k + 1))
    BY <1>4, <2>2
  <2>5. Begins(d, held(k))  BY <2>3 DEF Found
  <2>6. Begins(d, held(k + 1))  BY <2>4, <2>5 DEF Begins
  <2>7. \A j \in 1 .. k + 1 : StringAt(held(k + 1), Len(held(j - 1)) + 1, cut(j))
    <3>1. SUFFICES ASSUME NEW j \in 1 .. k + 1
                   PROVE  StringAt(held(k + 1), Len(held(j - 1)) + 1, cut(j))
      OBVIOUS
    <3>2. CASE j = k + 1  BY <2>2, <2>4, <3>2
    <3>3. CASE j \in 1 .. k
      <4>1. StringAt(held(k), Len(held(j - 1)) + 1, cut(j))  BY <2>3, <3>3 DEF Found
      <4>2. cut(j) \in Seq(CodeUnit)  BY <1>1, <1>4, <2>2, <3>3
      <4>3. QED BY <2>4, <4>1, <4>2, StringKept
    <3>4. j = k + 1 \/ j \in 1 .. k  BY <2>1
    <3>5. QED BY <3>2, <3>3, <3>4
  <2>8. QED BY <2>6, <2>7 DEF Found
<1>7. Nat \subseteq P
  <2> HIDE DEF P
  <2>1. QED BY <1>5, <1>6, Induction
<1>8. Found(n)
  <2>1. n \in P  BY <1>1, <1>7
  <2> HIDE DEF Found
  <2>2. QED BY <1>1, <2>1
<1> DEFINE at == HeldAt(d, texts, n)
           cuts == HeldCuts(d, texts, units, n)
<1>9. \A k \in 0 .. n : at[k] = Len(held(k)) + 1  BY DEF HeldAt, held
<1>10. \A k \in 1 .. n : cuts[k] = cut(k)  BY DEF HeldCuts, cut
<1> HIDE DEF at, cuts
<1>11. at[0] \in Nat \ {0}
  <2>1. 0 \in 0 .. n  BY <1>1
  <2>2. QED BY <1>3, <1>9, <2>1
<1>12. ASSUME NEW k \in 1 .. n
       PROVE  /\ cuts[k] \in Seq(CodeUnit) /\ Len(cuts[k]) \in Nat /\ Len(cuts[k]) < 127
              /\ StringAt(held(n), at[k - 1], cuts[k])
              /\ at[k] = at[k - 1] + 2 * Len(cuts[k]) + 3
  <2>1. k \in 0 .. n /\ k - 1 \in 0 .. n  BY <1>1
  <2>2. at[k] = Len(held(k)) + 1 /\ at[k - 1] = Len(held(k - 1)) + 1 /\ cuts[k] = cut(k)
        /\ Len(held(k - 1)) \in Nat
    BY <1>3, <1>9, <1>10, <2>1
  <2>3. StringAt(held(n), Len(held(k - 1)) + 1, cut(k))  BY <1>8
  <2>4. /\ cut(k) \in Seq(CodeUnit) /\ Len(cut(k)) \in Nat /\ Len(cut(k)) < 127
        /\ Len(held(k)) = Len(held(k - 1)) + 2 * Len(cut(k)) + 3
    BY <1>4
  <2>5. QED BY <2>2, <2>3, <2>4
<1>13. StringsAt(held(n), at, cuts, n)  BY <1>11, <1>12 DEF StringsAt
<1>14. QED BY <1>2, <1>8, <1>13 DEF at, cuts

\* They are still there when more follows.
LEMMA StringsKept ==
  ASSUME NEW d, NEW e, Begins(d, e), NEW at, NEW cuts, NEW n, StringsAt(d, at, cuts, n)
  PROVE  StringsAt(e, at, cuts, n)
<1>1. ASSUME NEW k \in 1 .. n PROVE StringAt(e, at[k - 1], cuts[k])
  <2>1. cuts[k] \in Seq(CodeUnit) /\ StringAt(d, at[k - 1], cuts[k])  BY DEF StringsAt
  <2>2. QED BY <2>1, StringKept
<1>2. QED BY <1>1 DEF StringsAt

\* A host that goes from string to string by the counts.
Walks(at, cuts, n) ==
  /\ \A k \in 0 .. n : NextTimes(k, at[0]) = at[k]
  /\ \A k \in 1 .. n : WholeAt(at[k - 1]) /\ UnitsAt(buff, at[k - 1]) = cuts[k]

\* The counts of strings in a row lead from each to the next.
LEMMA WalkAre ==
  ASSUME buff \in Seq(Byte), NEW n \in Nat, NEW at, NEW cuts, StringsAt(buff, at, cuts, n)
  PROVE  Walks(at, cuts, n)
<1>1. ASSUME NEW k \in 1 .. n
      PROVE  /\ at[k - 1] \in Nat /\ at[k] \in Nat /\ HostNext(at[k - 1]) = at[k]
             /\ WholeAt(at[k - 1]) /\ UnitsAt(buff, at[k - 1]) = cuts[k]
  <2>1. /\ cuts[k] \in Seq(CodeUnit) /\ Len(cuts[k]) \in Nat
        /\ StringAt(buff, at[k - 1], cuts[k])
        /\ at[k] = at[k - 1] + 2 * Len(cuts[k]) + 3
    BY DEF StringsAt
  <2>2. at[k - 1] \in Nat  BY <2>1 DEF StringAt
  <2>3. StringReads(buff, at[k - 1], cuts[k])  BY <2>1, StringRead
  <2>4. /\ UnitsAt(buff, at[k - 1]) = cuts[k] /\ buff[at[k - 1]] = Len(cuts[k]) + 1
        /\ at[k - 1] + 2 * buff[at[k - 1]] <= Len(buff)
    BY <2>3 DEF StringReads
  <2>5. WholeAt(at[k - 1])  BY <2>1, <2>4 DEF WholeAt
  <2>6. HostNext(at[k - 1]) = at[k]  BY <2>1, <2>2, <2>4 DEF HostNext
  <2>7. at[k] \in Nat  BY <2>1, <2>2
  <2>8. QED BY <2>2, <2>4, <2>5, <2>6, <2>7
<1>2. ASSUME NEW k \in 0 .. n PROVE NextTimes(k, at[0]) = at[k]
  <2> DEFINE round == [j \in 1 .. k |-> [place \in Nat |-> HostNext(place)]]
  <2>1. NextTimes(k, at[0]) = Rounds(round, at[0], k)  BY DEF NextTimes
  <2>2. \A j \in 1 .. k : round[j][at[j - 1]] = at[j]
    <3>1. SUFFICES ASSUME NEW j \in 1 .. k PROVE round[j][at[j - 1]] = at[j]  OBVIOUS
    <3>2. j \in 1 .. n  OBVIOUS
    <3>3. round[j][at[j - 1]] = HostNext(at[j - 1])  BY <1>1, <3>2
    <3> HIDE DEF round
    <3>4. QED BY <1>1, <3>2, <3>3
  <2> HIDE DEF round
  <2>3. Reaches(round, at[0], k, at)  BY <2>2 DEF Reaches
  <2>4. k \in Nat /\ k \in 0 .. k  OBVIOUS
  <2>5. Rounds(round, at[0], k) = at[k]  BY <2>3, <2>4, RoundsReach
  <2>6. QED BY <2>1, <2>5
<1>3. QED BY <1>1, <1>2 DEF Walks

\* After the first p bytes of d come those of x.
Has(d, p, x) ==
  p \in Nat /\ p + Len(x) <= Len(d) /\ \A i \in 1 .. Len(x) : d[p + i] = x[i]

\* Bytes stay where they are.
LEMMA HasKept ==
  ASSUME NEW d, NEW e, Begins(d, e), NEW p, NEW x, Len(x) \in Nat, Has(d, p, x)
  PROVE  Has(e, p, x)
<1>1. p \in Nat /\ p + Len(x) <= Len(d) /\ \A i \in 1 .. Len(x) : d[p + i] = x[i]
  BY DEF Has
<1>2. /\ Len(d) \in Nat /\ Len(e) \in Nat /\ Len(d) <= Len(e)
      /\ \A i \in 1 .. Len(d) : e[i] = d[i]
  BY DEF Begins
<1>3. \A i \in 1 .. Len(x) : p + i \in 1 .. Len(d)  BY <1>1, <1>2
<1>4. \A i \in 1 .. Len(x) : e[p + i] = x[i]  BY <1>1, <1>2, <1>3
<1>5. QED BY <1>1, <1>2, <1>4 DEF Has

\* A part that is added to a dataset is found after what was in it, which stays.
Puts(a, b, m, n) ==
  a \o b \in Seq(Byte) /\ Len(a \o b) = m + n /\ Begins(a, a \o b) /\ Has(a \o b, m, b)

\* A part is found where it was put.
LEMMA PutsAre ==
  ASSUME NEW a \in Seq(Byte), NEW b \in Seq(Byte), NEW m, NEW n, Len(a) = m, Len(b) = n
  PROVE  Puts(a, b, m, n)
<1>1. Joined(Byte, a, b)  BY ConcatAre
<1>2. Has(a \o b, m, b)  BY <1>1 DEF Joined, Has
<1>3. QED BY <1>1, <1>2, BeginsAre DEF Joined, Puts

\* The numbers of an ObjectInfo dataset.
FixedHas(d, isFolder, size) ==
  Has(d, 4, Number(Format(isFolder), 2)) /\ Has(d, 8, Number(size, 4))

\* The numbers before the name take 52 bytes, the kind and the size among them.
LEMMA FixedAre ==
  ASSUME NEW isFolder \in BOOLEAN, NEW size \in Nat, NEW parent \in Nat
  PROVE  LET d == Fixed(isFolder, size, parent)
         IN  d \in Seq(Byte) /\ Len(d) = 52 /\ FixedHas(d, isFolder, size)
<1> DEFINE storage == 65537
           b1 == Number(storage, 4)
           b2 == Number(Format(isFolder), 2)
           b3 == Zeros(2)
           b4 == Number(size, 4)
           b5 == Zeros(26)
           b6 == Number(parent, 4)
           b7 == Number(Association(isFolder), 2)
           b8 == Zeros(8)
           a2 == b1 \o b2
           a3 == a2 \o b3
           a4 == a3 \o b4
           a5 == a4 \o b5
           a6 == a5 \o b6
           a7 == a6 \o b7
           a8 == a7 \o b8
<1>1. b1 \in Seq(Byte) /\ Len(b1) = 4
  <2>1. storage \in Nat  OBVIOUS
  <2> HIDE DEF storage
  <2>2. QED BY <2>1, NumberSeq
<1>2. b2 \in Seq(Byte) /\ Len(b2) = 2
  <2>1. Format(isFolder) \in Nat  BY DEF Format
  <2>2. QED BY <2>1, NumberSeq
<1>3. b3 \in Seq(Byte) /\ Len(b3) = 2  BY ZerosAre
<1>4. b4 \in Seq(Byte) /\ Len(b4) = 4  BY NumberSeq
<1>5. b5 \in Seq(Byte) /\ Len(b5) = 26  BY ZerosAre
<1>6. b6 \in Seq(Byte) /\ Len(b6) = 4  BY NumberSeq
<1>7. b7 \in Seq(Byte) /\ Len(b7) = 2
  <2>1. Association(isFolder) \in Nat  BY DEF Association
  <2>2. QED BY <2>1, NumberSeq
<1>8. b8 \in Seq(Byte) /\ Len(b8) = 8  BY ZerosAre
<1>9. Fixed(isFolder, size, parent) = a8  BY DEF Fixed
<1> HIDE DEF b1, b2, b3, b4, b5, b6, b7, b8
<1>10. Puts(b1, b2, 4, 2)  BY <1>1, <1>2, PutsAre
<1>11. a2 \in Seq(Byte) /\ Len(a2) = 6 /\ Has(a2, 4, b2)  BY <1>10 DEF Puts
<1> HIDE DEF a2
<1>12. Puts(a2, b3, 6, 2)  BY <1>3, <1>11, PutsAre
<1>13. a3 \in Seq(Byte) /\ Len(a3) = 8 /\ Has(a3, 4, b2)  BY <1>2, <1>11, <1>12, HasKept DEF Puts
<1> HIDE DEF a3
<1>14. Puts(a3, b4, 8, 4)  BY <1>4, <1>13, PutsAre
<1>15. a4 \in Seq(Byte) /\ Len(a4) = 12 /\ Has(a4, 4, b2) /\ Has(a4, 8, b4)
  BY <1>2, <1>13, <1>14, HasKept DEF Puts
<1> HIDE DEF a4
<1>16. Puts(a4, b5, 12, 26)  BY <1>5, <1>15, PutsAre
<1>17. a5 \in Seq(Byte) /\ Len(a5) = 38 /\ Has(a5, 4, b2) /\ Has(a5, 8, b4)
  BY <1>2, <1>4, <1>15, <1>16, HasKept DEF Puts
<1> HIDE DEF a5
<1>18. Puts(a5, b6, 38, 4)  BY <1>6, <1>17, PutsAre
<1>19. a6 \in Seq(Byte) /\ Len(a6) = 42 /\ Has(a6, 4, b2) /\ Has(a6, 8, b4)
  BY <1>2, <1>4, <1>17, <1>18, HasKept DEF Puts
<1> HIDE DEF a6
<1>20. Puts(a6, b7, 42, 2)  BY <1>7, <1>19, PutsAre
<1>21. a7 \in Seq(Byte) /\ Len(a7) = 44 /\ Has(a7, 4, b2) /\ Has(a7, 8, b4)
  BY <1>2, <1>4, <1>19, <1>20, HasKept DEF Puts
<1> HIDE DEF a7
<1>22. Puts(a7, b8, 44, 8)  BY <1>8, <1>21, PutsAre
<1>23. a8 \in Seq(Byte) /\ Len(a8) = 52 /\ Has(a8, 4, b2) /\ Has(a8, 8, b4)
  BY <1>2, <1>4, <1>21, <1>22, HasKept DEF Puts
<1> HIDE DEF a8
<1>24. FixedHas(a8, isFolder, size)  BY <1>23 DEF FixedHas, b2, b4
<1>25. QED BY <1>9, <1>23, <1>24

\* A number is read as it was written.
LEMMA NumberRead ==
  ASSUME NEW d, NEW p \in Nat, NEW value \in Nat, NEW n \in Nat, Has(d, p, Number(value, n))
  PROVE  NumberAt(d, p + 1, n) = Number(value, n)
<1>1. Len(Number(value, n)) = n  BY NumberSeq
<1>2. \A i \in 1 .. n : d[(p + 1) + i - 1] = Number(value, n)[i]
  <2>1. \A i \in 1 .. n : (p + 1) + i - 1 = p + i  OBVIOUS
  <2>2. QED BY <1>1, <2>1 DEF Has
<1>3. Number(value, n) = [i \in 1 .. n |-> Number(value, n)[i]]  BY DEF Number
<1>4. QED BY <1>2, <1>3 DEF NumberAt

\* The size and the kind are read as they were written.
LEMMA FixedRead ==
  ASSUME NEW isFolder \in BOOLEAN, NEW size \in Nat, NEW d, FixedHas(d, isFolder, size)
  PROVE  /\ NumberAt(d, 9, 4) = Number(size, 4)
         /\ (NumberAt(d, 5, 2) = Number(Format(TRUE), 2)) = isFolder
<1>1. NumberAt(d, 9, 4) = Number(size, 4)
  <2>1. Has(d, 8, Number(size, 4))  BY DEF FixedHas
  <2>2. NumberAt(d, 8 + 1, 4) = Number(size, 4)  BY <2>1, NumberRead
  <2>3. 8 + 1 = 9  OBVIOUS
  <2>4. QED BY <2>2, <2>3
<1>2. NumberAt(d, 5, 2) = Number(Format(isFolder), 2)
  <2>1. Has(d, 4, Number(Format(isFolder), 2))  BY DEF FixedHas
  <2>2. Format(isFolder) \in Nat  BY DEF Format
  <2>3. NumberAt(d, 4 + 1, 2) = Number(Format(isFolder), 2)  BY <2>1, <2>2, NumberRead
  <2>4. 4 + 1 = 5  OBVIOUS
  <2>5. QED BY <2>3, <2>4
<1>3. Number(Format(TRUE), 2) # Number(Format(FALSE), 2)
  <2> DEFINE x == Format(TRUE)
             y == Format(FALSE)
  <2>1. x \in Nat /\ x % 256 = 1 /\ y \in Nat /\ y % 256 = 0  BY DEF Format
  <2> HIDE DEF x, y
  <2>2. Number(x, 2)[1] = x % 256  BY <2>1, NumberFirst
  <2>3. Number(y, 2)[1] = y % 256  BY <2>1, NumberFirst
  <2>4. Number(x, 2) # Number(y, 2)  BY <2>1, <2>2, <2>3
  <2>5. QED BY <2>4 DEF x, y
<1>4. isFolder = TRUE \/ isFolder = FALSE  OBVIOUS
<1>5. CASE isFolder = TRUE  BY <1>1, <1>2, <1>5
<1>6. CASE isFolder = FALSE  BY <1>1, <1>2, <1>3, <1>6
<1>7. QED BY <1>4, <1>5, <1>6

-----------------------------------------------------------------------------
(***************************************************************************)
(* The datasets of the responder.                                          *)
(***************************************************************************)

\* A text of ASCII letters is told as it is.
LEMMA TextTells ==
  ASSUME NEW n \in Nat, NEW s \in [1 .. n -> Below(128)]
  PROVE  Tells(s, s) /\ s \in Seq(CodeUnit) /\ Len(s) = n
<1>1. s \in Seq(CodeUnit) /\ Len(s) = n
  <2>1. 0 \in Nat  OBVIOUS
  <2>2. QED BY <2>1, TextTold
<1>2. \A room \in Nat : Utf16(s, room) = SubSeq(s, 1, Lesser(Capacity(room), Len(s)))
  BY <1>1, TextTold
<1>3. QED BY <1>1, <1>2 DEF Tells

\* A date is told as it is.
LEMMA StampTells ==
  ASSUME NEW s \in Stamps
  PROVE  Tells(s, s) /\ s \in Seq(CodeUnit) /\ Len(s) = 15
<1>1. s \in [1 .. 15 -> Below(128)]  BY StampAssumption
<1>2. QED BY <1>1, TextTells

\* A fixed text is told as it is.
LEMMA LettersTell ==
  ASSUME NEW n \in Nat
  PROVE  Tells(Text(n), Text(n)) /\ Text(n) \in Seq(CodeUnit) /\ Len(Text(n)) = n
<1>1. Text(n) \in [1 .. n -> Below(128)]  BY DEF Text, Below
<1>2. QED BY <1>1, TextTells

\* A name is told up to its first character without a unit.
LEMMA NameTells ==
  ASSUME NEW chars, CardName(chars)
  PROVE  Tells(NameBytes(chars), TellableUnits(chars)) /\ Len(TellableUnits(chars)) \in Nat
<1>1. TellableUnits(chars) \in Seq(CodeUnit)  BY ToldUnitsAre
<1>2. \A room \in Nat :
        Utf16(NameBytes(chars), room)
          = SubSeq(TellableUnits(chars), 1, Lesser(Capacity(room), Len(TellableUnits(chars))))
  BY NameTold
<1>3. QED BY <1>1, <1>2, LenProperties DEF Tells

\* What is kept of a text that is added where p is the next place.
CutAt(p, units, cut) ==
  /\ p \in Nat \ {0} /\ Len(units) \in Nat
  /\ cut = SubSeq(units, 1, Lesser(Capacity((4097 - p) % 256), Len(units)))
  /\ Len(units) <= Capacity((4097 - p) % 256) => cut = units

\* What is kept of each text follows from where it is put.
LEMMA CutsAre ==
  ASSUME NEW d \in Seq(Byte), NEW texts, NEW units, NEW n, AllTold(texts, units, n),
         NEW k \in 1 .. n
  PROVE  CutAt(HeldAt(d, texts, n)[k - 1], units[k], HeldCuts(d, texts, units, n)[k])
<1> DEFINE before == Held(d, texts, k - 1)
           p == HeldAt(d, texts, n)[k - 1]
           cut == HeldCuts(d, texts, units, n)[k]
<1>1. n \in Nat /\ units[k] \in Seq(CodeUnit)  BY DEF AllTold, Tells
<1>2. k - 1 \in 0 .. n  BY <1>1
<1>3. before \in Seq(Byte)  BY <1>2, HeldAre
<1>4. p = Len(before) + 1  BY <1>2 DEF HeldAt
<1>5. cut = Cut(before, units[k])  BY DEF HeldCuts, HeldCut
<1> HIDE DEF before, p, cut
<1>6. Len(before) \in Nat /\ Len(units[k]) \in Nat  BY <1>1, <1>3, LenProperties
<1>7. p \in Nat \ {0} /\ 4097 - p = 4096 - Len(before)  BY <1>4, <1>6
<1>8. Room(before) = (4097 - p) % 256
  <2>1. Room(before) = (4096 - Len(before)) % 256  BY <1>6, RoomAre
  <2>2. QED BY <1>7, <2>1
<1>9. Len(units[k]) <= Capacity(Room(before)) => cut = units[k]  BY <1>1, <1>5, <1>6, CutAre
<1>10. CutAt(p, units[k], cut)  BY <1>5, <1>6, <1>7, <1>8, <1>9 DEF Cut, CutAt
<1>11. QED BY <1>10 DEF p, cut

\* Near the start of a dataset a text is kept whole.
LEMMA CutNot ==
  ASSUME NEW p, NEW units, NEW cut, CutAt(p, units, cut), p > 1, p + 2 * Len(units) + 2 <= 257
  PROVE  cut = units
<1> DEFINE c == Len(units)
<1>1. p \in Nat /\ c \in Nat  BY DEF CutAt
<1> HIDE DEF c
<1>2. (4097 - p) % 256 = 257 - p  BY <1>1 DEF c
<1>3. c <= Capacity(257 - p)  BY <1>1 DEF Capacity, c
<1>4. QED BY <1>2, <1>3 DEF CutAt, c

\* A date behind a name of 101 units, which has room again.
LEMMA DateNotCut ==
  ASSUME NEW p, NEW units, NEW cut, CutAt(p, units, cut), p \in {258, 291}, Len(units) = 15
  PROVE  cut = units
<1>1. (4097 - p) % 256 >= 222 /\ (4097 - p) % 256 \in Nat
  <2>1. CASE p = 258  BY <2>1
  <2>2. CASE p = 291  BY <2>2
  <2>3. QED BY <2>1, <2>2
<1> DEFINE room == (4097 - p) % 256
<1>2. room \in Nat /\ room >= 222  BY <1>1
<1>3. Len(units) <= Capacity(room)
  <2> HIDE DEF room
  <2>1. QED BY <1>2 DEF Capacity
<1>4. QED BY <1>3 DEF CutAt

\* The end of a dataset of texts.
Spans(d, at, n, all) ==
  at[0] = Len(d) + 1 /\ at[n] = Len(all) + 1 /\ all \in Seq(Byte) /\ Len(all) \in Nat

\* The last text ends where the dataset does.
LEMMA HeldEnd ==
  ASSUME NEW d \in Seq(Byte), NEW texts, NEW units, NEW n, AllTold(texts, units, n)
  PROVE  Spans(d, HeldAt(d, texts, n), n, WithAll(d, texts))
<1>1. n \in Nat  BY DEF AllTold
<1>2. /\ Held(d, texts, 0) = d /\ WithAll(d, texts) = Held(d, texts, n)
      /\ \A k \in 0 .. n : Held(d, texts, k) \in Seq(Byte)
  BY HeldAre
<1>3. \A k \in 0 .. n : HeldAt(d, texts, n)[k] = Len(Held(d, texts, k)) + 1  BY DEF HeldAt
<1>4. 0 \in 0 .. n /\ n \in 0 .. n  BY <1>1
<1>5. WithAll(d, texts) \in Seq(Byte)  BY <1>2, <1>4
<1>6. Len(WithAll(d, texts)) \in Nat  BY <1>5, LenProperties
<1>7. QED BY <1>2, <1>3, <1>4, <1>5, <1>6 DEF Spans

\* What is known of an ObjectInfo dataset.
ObjectDataset(d, o, at, cuts) ==
  /\ d \in Seq(Byte) /\ Len(d) <= 4096
  /\ StringsAt(d, at, cuts, 3) /\ at[0] = 53 /\ at[3] = Len(d) /\ d[Len(d)] = 0
  /\ FixedHas(d, o.isFolder, o.size)
  /\ cuts[1] = SubSeq(TellableUnits(o.name), 1, Lesser(101, Len(TellableUnits(o.name))))
  /\ LeavesRoom(TellableUnits(o.name)) => cuts[2] = o.created /\ cuts[3] = o.modified

\* An object on the card.
LEMMA ObjectsAre ==
  ASSUME NEW o \in Objects
  PROVE  /\ CardName(o.name) /\ o.isFolder \in BOOLEAN /\ o.size \in Nat /\ o.parent \in Nat
         /\ o.created \in Stamps /\ o.modified \in Stamps
BY ObjectAssumption DEF CardName

\* get_object_info: the name, the dates and no keywords after the numbers.
LEMMA ObjectInfoAre ==
  ASSUME NEW o \in Objects
  PROVE  \E at, cuts : ObjectDataset(ObjectInfo(o), o, at, cuts)
<1> DEFINE d == Fixed(o.isFolder, o.size, o.parent)
           U == TellableUnits(o.name)
           texts == <<NameBytes(o.name), o.created, o.modified>>
           units == <<U, o.created, o.modified>>
           at == HeldAt(d, texts, 3)
           cuts == HeldCuts(d, texts, units, 3)
           all == WithAll(d, texts)
           end == Zeros(1)
<1>1. /\ CardName(o.name) /\ o.isFolder \in BOOLEAN /\ o.size \in Nat /\ o.parent \in Nat
      /\ o.created \in Stamps /\ o.modified \in Stamps
  BY ObjectsAre
<1>2. d \in Seq(Byte) /\ Len(d) = 52 /\ FixedHas(d, o.isFolder, o.size)  BY <1>1, FixedAre
<1>3. ObjectInfo(o) = all \o end  BY DEF ObjectInfo
<1>4. AllTold(texts, units, 3)
  <2>1. Tells(NameBytes(o.name), U)  BY <1>1, NameTells
  <2>2. Tells(o.created, o.created) /\ Tells(o.modified, o.modified)  BY <1>1, StampTells
  <2>3. Len(texts) = 3 /\ DOMAIN texts = 1 .. 3  OBVIOUS
  <2>4. /\ texts[1] = NameBytes(o.name) /\ texts[2] = o.created /\ texts[3] = o.modified
        /\ units[1] = U /\ units[2] = o.created /\ units[3] = o.modified
    OBVIOUS
  <2> HIDE DEF texts, units, U
  <2>5. \A k \in 1 .. 3 : Tells(texts[k], units[k])
    <3>1. \A k \in 1 .. 3 : k = 1 \/ k = 2 \/ k = 3  OBVIOUS
    <3>2. QED BY <2>1, <2>2, <2>4, <3>1
  <2>6. QED BY <2>3, <2>5 DEF AllTold
<1>5. units[1] = U /\ units[2] = o.created /\ units[3] = o.modified  OBVIOUS
<1>6. Len(U) \in Nat /\ Len(o.created) = 15 /\ Len(o.modified) = 15
  BY <1>1, NameTells, StampTells
<1> HIDE DEF d, U, texts, units, at, cuts, all, end
<1>7. StringsAt(all, at, cuts, 3) /\ Begins(d, all)
  BY <1>2, <1>4, HeldStrings DEF all, at, cuts
<1>8. at[0] = 53 /\ at[3] = Len(all) + 1 /\ all \in Seq(Byte) /\ Len(all) \in Nat
  <2>1. Spans(d, at, 3, all)  BY <1>2, <1>4, HeldEnd DEF all, at
  <2>2. QED BY <1>2, <2>1 DEF Spans
<1>9. /\ at[1] = at[0] + 2 * Len(cuts[1]) + 3 /\ at[2] = at[1] + 2 * Len(cuts[2]) + 3
      /\ at[3] = at[2] + 2 * Len(cuts[3]) + 3
      /\ Len(cuts[1]) \in Nat /\ Len(cuts[2]) \in Nat /\ Len(cuts[3]) \in Nat
      /\ Len(cuts[1]) < 127 /\ Len(cuts[2]) < 127 /\ Len(cuts[3]) < 127
  <2>1. \A k \in 1 .. 3 : /\ Len(cuts[k]) \in Nat /\ Len(cuts[k]) < 127
                          /\ at[k] = at[k - 1] + 2 * Len(cuts[k]) + 3
    BY <1>7 DEF StringsAt
  <2>2. 1 - 1 = 0 /\ 2 - 1 = 1 /\ 3 - 1 = 2 /\ 1 \in 1 .. 3 /\ 2 \in 1 .. 3 /\ 3 \in 1 .. 3
    OBVIOUS
  <2>3. QED BY <2>1, <2>2
<1>10. CutAt(at[0], U, cuts[1]) /\ CutAt(at[1], o.created, cuts[2])
       /\ CutAt(at[2], o.modified, cuts[3])
  <2>1. \A k \in 1 .. 3 : CutAt(at[k - 1], units[k], cuts[k])
    BY <1>2, <1>4, CutsAre DEF at, cuts
  <2>2. 1 - 1 = 0 /\ 2 - 1 = 1 /\ 3 - 1 = 2 /\ 1 \in 1 .. 3 /\ 2 \in 1 .. 3 /\ 3 \in 1 .. 3
    OBVIOUS
  <2>3. QED BY <1>5, <2>1, <2>2
<1>11. cuts[1] = SubSeq(U, 1, Lesser(101, Len(U)))
  <2> DEFINE room == (4097 - at[0]) % 256
  <2>1. Capacity(room) = 101  BY <1>8 DEF Capacity
  <2>2. cuts[1] = SubSeq(U, 1, Lesser(Capacity(room), Len(U)))  BY <1>10 DEF CutAt
  <2> HIDE DEF room
  <2>3. QED BY <2>1, <2>2
<1>12. ASSUME LeavesRoom(U) PROVE cuts[2] = o.created /\ cuts[3] = o.modified
  <2>1. CASE Len(U) <= 68
    <3>1. cuts[1] = U
      <4>1. at[0] > 1 /\ at[0] + 2 * Len(U) + 2 <= 257  BY <1>6, <1>8, <2>1
      <4>2. QED BY <1>10, <4>1, CutNot
    <3>2. at[1] = 56 + 2 * Len(U)  BY <1>6, <1>8, <1>9, <3>1
    <3>3. cuts[2] = o.created
      <4>1. at[1] > 1 /\ at[1] + 2 * Len(o.created) + 2 <= 257  BY <1>6, <2>1, <3>2
      <4>2. QED BY <1>10, <4>1, CutNot
    <3>4. at[2] = 89 + 2 * Len(U)
      <4>1. Len(cuts[2]) = 15  BY <1>6, <3>3
      <4>2. at[2] = at[1] + 2 * Len(cuts[2]) + 3  BY <1>9
      <4>3. QED BY <1>6, <3>2, <4>1, <4>2
    <3>5. cuts[3] = o.modified
      <4>1. at[2] > 1 /\ at[2] + 2 * Len(o.modified) + 2 <= 257  BY <1>6, <2>1, <3>4
      <4>2. QED BY <1>10, <4>1, CutNot
    <3>6. QED BY <3>3, <3>5
  <2>2. CASE Len(U) >= 101
    <3>1. Len(cuts[1]) = 101
      <4> DEFINE size == Len(U)
      <4>1. Lesser(101, size) = 101 /\ 101 \in 0 .. size
        <5>1. size \in Nat /\ size >= 101  BY <1>6, <2>2
        <5> HIDE DEF size
        <5>2. QED BY <5>1 DEF Lesser
      <4>2. U \in Seq(CodeUnit)  BY <1>1, NameTells DEF U, Tells
      <4>3. Len(SubSeq(U, 1, 101)) = 101
        <5>1. 101 \in 0 .. Len(U)  BY <4>1
        <5>2. QED BY <4>2, <5>1, FirstUnits
      <4>4. QED BY <1>11, <4>1, <4>3
    <3>2. at[1] = 258  BY <1>8, <1>9, <3>1
    <3>3. cuts[2] = o.created  BY <1>6, <1>10, <3>2, DateNotCut
    <3>4. at[2] = 291
      <4>1. Len(cuts[2]) = 15  BY <1>6, <3>3
      <4>2. at[2] = at[1] + 2 * Len(cuts[2]) + 3  BY <1>9
      <4>3. QED BY <3>2, <4>1, <4>2
    <3>5. cuts[3] = o.modified  BY <1>6, <1>10, <3>4, DateNotCut
    <3>6. QED BY <3>3, <3>5
  <2>3. Len(U) <= 68 \/ Len(U) >= 101  BY <1>12 DEF LeavesRoom, UnitsBeforeDates, MostUnits
  <2>4. QED BY <2>1, <2>2, <2>3
<1>13. end \in Seq(Byte) /\ Len(end) = 1 /\ end[1] = 0
  <2>1. end \in Seq(Byte) /\ Len(end) = 1 /\ \A i \in 1 .. 1 : end[i] = 0
    BY ZerosAre DEF end
  <2>2. QED BY <2>1
<1>14. Puts(all, end, Len(all), 1)  BY <1>8, <1>13, PutsAre
<1> DEFINE whole == all \o end
<1>15. /\ whole \in Seq(Byte) /\ Len(whole) = Len(all) + 1 /\ Begins(all, whole)
       /\ whole[Len(all) + 1] = 0
  BY <1>8, <1>13, <1>14 DEF Puts, Has
<1> HIDE DEF whole
<1>16. StringsAt(whole, at, cuts, 3)  BY <1>7, <1>15, StringsKept
<1>17. FixedHas(whole, o.isFolder, o.size)
  <2>1. Begins(d, whole)  BY <1>7, <1>15 DEF Begins
  <2>2. /\ Has(d, 4, Number(Format(o.isFolder), 2)) /\ Has(d, 8, Number(o.size, 4))
    BY <1>2 DEF FixedHas
  <2>3. Len(Number(Format(o.isFolder), 2)) \in Nat /\ Len(Number(o.size, 4)) \in Nat
    <3>1. Format(o.isFolder) \in Nat  BY DEF Format
    <3>2. Len(Number(Format(o.isFolder), 2)) = 2  BY <3>1, NumberSeq
    <3>3. Len(Number(o.size, 4)) = 4  BY <1>1, NumberSeq
    <3>4. QED BY <3>2, <3>3
  <2>4. QED BY <2>1, <2>2, <2>3, HasKept DEF FixedHas
<1>18. Len(whole) <= 4096 /\ at[3] = Len(whole)
  <2> DEFINE a == Len(cuts[1])
             b == Len(cuts[2])
             c == Len(cuts[3])
  <2>1. /\ a \in Nat /\ b \in Nat /\ c \in Nat /\ a < 127 /\ b < 127 /\ c < 127
        /\ at[3] = (((53 + 2 * a + 3) + 2 * b + 3) + 2 * c + 3)
    BY <1>8, <1>9
  <2>2. at[3] = Len(whole)  BY <1>8, <1>15
  <2> HIDE DEF a, b, c
  <2>3. at[3] <= 4096  BY <2>1
  <2>4. QED BY <2>2, <2>3
<1>19. whole[Len(whole)] = 0  BY <1>15
<1>20. ObjectDataset(whole, o, at, cuts)
  BY <1>8, <1>11, <1>12, <1>15, <1>16, <1>17, <1>18, <1>19 DEF ObjectDataset, U
<1>21. ObjectDataset(ObjectInfo(o), o, at, cuts)  BY <1>3, <1>20 DEF whole
<1>22. QED BY <1>21

\* A host that goes through an ObjectInfo dataset.
ObjectRead(o, at, cuts) ==
  /\ UnitsAt(buff, 53) = cuts[1] /\ NextTimes(1, 53) = at[1] /\ NextTimes(2, 53) = at[2]
  /\ UnitsAt(buff, at[1]) = cuts[2] /\ UnitsAt(buff, at[2]) = cuts[3]
  /\ \A k \in 0 .. 2 : WholeAt(NextTimes(k, 53))
  /\ NextTimes(3, 53) = Len(buff) /\ Last(buff) = 0

\* A host finds each of its strings, and its end.
LEMMA ObjectWalk ==
  ASSUME NEW o, NEW at, NEW cuts, ObjectDataset(buff, o, at, cuts)
  PROVE  ObjectRead(o, at, cuts)
<1>1. /\ buff \in Seq(Byte) /\ StringsAt(buff, at, cuts, 3) /\ at[0] = 53 /\ at[3] = Len(buff)
      /\ buff[Len(buff)] = 0
  BY DEF ObjectDataset
<1>2. Walks(at, cuts, 3)  BY <1>1, WalkAre
<1>3. /\ NextTimes(1, 53) = at[1] /\ NextTimes(2, 53) = at[2] /\ NextTimes(3, 53) = at[3]
      /\ \A k \in 0 .. 2 : NextTimes(k, 53) = at[k]
  <2>1. \A k \in 0 .. 3 : NextTimes(k, 53) = at[k]  BY <1>1, <1>2 DEF Walks
  <2>2. QED BY <2>1
<1>4. /\ UnitsAt(buff, 53) = cuts[1] /\ UnitsAt(buff, at[1]) = cuts[2]
      /\ UnitsAt(buff, at[2]) = cuts[3]
      /\ \A k \in 0 .. 2 : WholeAt(at[k])
  <2>1. \A k \in 1 .. 3 : WholeAt(at[k - 1]) /\ UnitsAt(buff, at[k - 1]) = cuts[k]
    BY <1>2 DEF Walks
  <2>2. 1 - 1 = 0 /\ 2 - 1 = 1 /\ 3 - 1 = 2 /\ 1 \in 1 .. 3 /\ 2 \in 1 .. 3 /\ 3 \in 1 .. 3
    OBVIOUS
  <2>3. UnitsAt(buff, at[0]) = cuts[1] /\ UnitsAt(buff, at[1]) = cuts[2]
        /\ UnitsAt(buff, at[2]) = cuts[3]
    BY <2>1, <2>2
  <2>4. \A k \in 0 .. 2 : WholeAt(at[k])
    <3>1. SUFFICES ASSUME NEW k \in 0 .. 2 PROVE WholeAt(at[k])  OBVIOUS
    <3>2. k + 1 \in 1 .. 3 /\ (k + 1) - 1 = k  OBVIOUS
    <3>3. WholeAt(at[(k + 1) - 1])  BY <2>1, <3>2
    <3>4. QED BY <3>2, <3>3
  <2>5. QED BY <1>1, <2>3, <2>4
<1>5. Last(buff) = 0  BY <1>1 DEF Last
<1>6. QED BY <1>1, <1>3, <1>4, <1>5 DEF ObjectRead

\* A dataset is made of bytes.
LEMMA BytesFit ==
  ASSUME buff \in Seq(Byte)
  PROVE  \A i \in DOMAIN buff : buff[i] \in 0 .. 255
<1>1. \A i \in DOMAIN buff : buff[i] \in Byte  BY LenProperties, ElementOfSeq
<1>2. \A b \in Byte : b \in 0 .. 255  BY DEF Byte
<1>3. QED BY <1>1, <1>2

-----------------------------------------------------------------------------
(***************************************************************************)
(* Dates.                                                                  *)
(***************************************************************************)

\* The units that are looked at where a date may be.
Looked(d, place, stale) == [i \in 1 .. 16 |-> UnitOf(d, place + 2 * i - 1, stale)]

\* The fifteen units that are looked at.
LEMMA LookedAre ==
  ASSUME NEW d, NEW place, NEW stale
  PROVE  /\ Len(SubSeq(Looked(d, place, stale), 1, 15)) = 15
         /\ \A i \in 1 .. 15 : SubSeq(Looked(d, place, stale), 1, 15)[i]
                                 = UnitOf(d, place + 2 * i - 1, stale)
         /\ SubSeq(Looked(d, place, stale), 1, 15)
              = [i \in 1 .. 15 |-> SubSeq(Looked(d, place, stale), 1, 15)[i]]
<1> DEFINE unit == Looked(d, place, stale)
           S == {unit[i] : i \in 1 .. 15}
           n == 15
<1>1. \A i \in 1 .. n : unit[i] \in S  OBVIOUS
<1>2. \A i \in 1 .. n : unit[i] = UnitOf(d, place + 2 * i - 1, stale)
  BY DEF Looked
<1>3. n \in Nat /\ n = 15  OBVIOUS
<1> HIDE DEF unit, S, n
<1>4. /\ SubSeq(unit, 1, n) \in Seq(S)
      /\ Len(SubSeq(unit, 1, n)) = IF 1 <= n THEN n - 1 + 1 ELSE 0
      /\ \A i \in 1 .. n - 1 + 1 : SubSeq(unit, 1, n)[i] = unit[1 + i - 1]
  BY <1>1, <1>3, SubSeqProperties
<1>5. Len(SubSeq(unit, 1, n)) = n  BY <1>3, <1>4
<1>6. \A i \in 1 .. n : SubSeq(unit, 1, n)[i] = unit[i]  BY <1>3, <1>4
<1>7. SubSeq(unit, 1, n) = [i \in 1 .. n |-> SubSeq(unit, 1, n)[i]]
  BY <1>4, <1>5, LenProperties
<1>8. QED BY <1>2, <1>3, <1>5, <1>6, <1>7 DEF unit

\* A date is taken where its string is.
LEMMA TimeStamp ==
  ASSUME NEW d \in Seq(Byte), NEW place, NEW s \in Stamps, StringAt(d, place, s)
  PROVE  \A stale : TimeAt(d, place, stale) = s
<1>1. s \in Seq(CodeUnit) /\ Len(s) = 15  BY StampTells
<1>2. StringReads(d, place, s)  BY <1>1, StringRead
<1>3. SUFFICES ASSUME NEW stale PROVE TimeAt(d, place, stale) = s  OBVIOUS
<1> DEFINE unit == Looked(d, place, stale)
<1>4. /\ \A i \in 1 .. 15 : UnitOf(d, place + 2 * i - 1, stale) = s[i]
      /\ UnitOf(d, place + 2 * 15 + 1, stale) = 0
  BY <1>1, <1>2 DEF StringReads
<1>5. unit[16] = 0
  <2>1. place \in Nat  BY DEF StringAt
  <2>2. place + 2 * 16 - 1 = place + 2 * 15 + 1  BY <2>1
  <2>3. unit[16] = UnitOf(d, place + 2 * 16 - 1, stale)  BY DEF Looked
  <2>4. QED BY <1>4, <2>2, <2>3
<1>6. SubSeq(unit, 1, 15) = s
  <2>1. /\ \A i \in 1 .. 15 : SubSeq(unit, 1, 15)[i] = UnitOf(d, place + 2 * i - 1, stale)
        /\ SubSeq(unit, 1, 15) = [i \in 1 .. 15 |-> SubSeq(unit, 1, 15)[i]]
    BY LookedAre
  <2>2. s \in [1 .. 15 -> Below(128)]  BY StampAssumption
  <2> DEFINE places == 1 .. 15
             date == SubSeq(unit, 1, 15)
  <2>3. \A i \in places : date[i] = s[i]  BY <1>4, <2>1
  <2>4. date = [i \in places |-> date[i]]  BY <2>1
  <2>5. s = [i \in places |-> s[i]]  BY <2>2
  <2> HIDE DEF places, date
  <2>6. date = s  BY <2>3, <2>4, <2>5
  <2>7. QED BY <2>6 DEF date
<1>7. TimeAt(d, place, stale)
        = IF unit[16] \in {0, 46} /\ SubSeq(unit, 1, 15) \in Stamps THEN SubSeq(unit, 1, 15)
          ELSE NoTime
  BY DEF TimeAt, Looked
<1> HIDE DEF unit
<1>8. QED BY <1>5, <1>6, <1>7

\* None is taken where one of the units is no letter.
LEMMA TimeNone ==
  ASSUME NEW d, NEW place, NEW stale, NEW i \in 1 .. 15,
         UnitOf(d, place + 2 * i - 1, stale) \notin Below(128)
  PROVE  TimeAt(d, place, stale) = NoTime
<1> DEFINE unit == Looked(d, place, stale)
           date == SubSeq(unit, 1, 15)
<1>1. date[i] = UnitOf(d, place + 2 * i - 1, stale)  BY LookedAre
<1>2. TimeAt(d, place, stale) = IF unit[16] \in {0, 46} /\ date \in Stamps THEN date ELSE NoTime
  BY DEF TimeAt, Looked
<1> HIDE DEF unit, date
<1>3. date \notin Stamps
  <2>1. SUFFICES ASSUME date \in Stamps PROVE FALSE  OBVIOUS
  <2>2. date \in [1 .. 15 -> Below(128)]  BY <2>1, StampAssumption
  <2>3. date[i] \in Below(128)  BY <2>2
  <2>4. QED BY <1>1, <2>3
<1>4. QED BY <1>2, <1>3
-----------------------------------------------------------------------------
(***************************************************************************)
(* The datasets with fixed texts.                                          *)
(***************************************************************************)

\* Where each text ends when all are whole, near the start of the dataset.
Planned(d, texts, n, ends) ==
  /\ ends[0] = Len(d) + 1 /\ Len(d) > 0
  /\ \A k \in 1 .. n : /\ ends[k] = ends[k - 1] + 2 * Len(texts[k]) + 3 /\ ends[k] <= 258
                       /\ ends[k - 1] \in Nat /\ ends[k - 1] > 1 /\ Len(texts[k]) \in Nat

\* Texts that are put near the start of a dataset are whole.
LEMMA PlannedAre ==
  ASSUME NEW d \in Seq(Byte), NEW texts, NEW n, AllTold(texts, texts, n), NEW ends,
         Planned(d, texts, n, ends)
  PROVE  /\ StringsAt(WithAll(d, texts), ends, texts, n) /\ Begins(d, WithAll(d, texts))
         /\ Spans(d, ends, n, WithAll(d, texts))
<1> DEFINE at == HeldAt(d, texts, n)
           cuts == HeldCuts(d, texts, texts, n)
           all == WithAll(d, texts)
<1>1. n \in Nat  BY DEF AllTold
<1>2. StringsAt(all, at, cuts, n) /\ Begins(d, all)  BY HeldStrings
<1>3. Spans(d, at, n, all)  BY HeldEnd
<1>4. \A k \in 1 .. n : CutAt(at[k - 1], texts[k], cuts[k])  BY CutsAre
<1>5. /\ ends[0] = Len(d) + 1 /\ at[0] = Len(d) + 1
      /\ \A k \in 1 .. n : /\ ends[k] = ends[k - 1] + 2 * Len(texts[k]) + 3 /\ ends[k] <= 258
                           /\ ends[k - 1] \in Nat /\ ends[k - 1] > 1 /\ Len(texts[k]) \in Nat
                           /\ at[k] = at[k - 1] + 2 * Len(cuts[k]) + 3
  BY <1>2, <1>3 DEF Planned, Spans, StringsAt
<1> HIDE DEF at, cuts, all
<1> DEFINE Same(k) == at[k] = ends[k] /\ (k > 0 => cuts[k] = texts[k])
           P == {k \in Nat : k <= n => Same(k)}
<1>6. 0 \in P  BY <1>5
<1>7. \A k \in Nat : k \in P => k + 1 \in P
  <2> HIDE DEF Same
  <2>1. SUFFICES ASSUME NEW k \in Nat, k \in P, k + 1 <= n PROVE Same(k + 1)  OBVIOUS
  <2>2. k + 1 \in 1 .. n /\ (k + 1) - 1 = k  BY <1>1, <2>1
  <2>3. at[k] = ends[k]  BY <1>1, <2>1 DEF Same
  <2> HIDE DEF P
  <2>4. /\ ends[k + 1] = ends[k] + 2 * Len(texts[k + 1]) + 3 /\ ends[k + 1] <= 258
        /\ ends[k] \in Nat /\ ends[k] > 1 /\ Len(texts[k + 1]) \in Nat
        /\ at[k + 1] = at[k] + 2 * Len(cuts[k + 1]) + 3
    BY <1>5, <2>2
  <2>5. CutAt(ends[k], texts[k + 1], cuts[k + 1])  BY <1>4, <2>2, <2>3
  <2>6. ends[k] + 2 * Len(texts[k + 1]) + 2 <= 257
    <3> DEFINE a == ends[k]
               b == ends[k + 1]
               c == Len(texts[k + 1])
    <3>1. b = a + 2 * c + 3 /\ b <= 258 /\ a \in Nat /\ c \in Nat  BY <2>4
    <3> HIDE DEF a, b, c
    <3>2. a + 2 * c + 2 <= 257  BY <3>1
    <3>3. QED BY <3>2 DEF a, c
  <2>7. cuts[k + 1] = texts[k + 1]  BY <2>4, <2>5, <2>6, CutNot
  <2>8. at[k + 1] = ends[k + 1]  BY <2>3, <2>4, <2>7
  <2>9. QED BY <2>7, <2>8 DEF Same
<1>8. Nat \subseteq P
  <2> HIDE DEF P
  <2>1. QED BY <1>6, <1>7, Induction
<1>9. \A k \in 0 .. n : at[k] = ends[k]  BY <1>8
<1>10. \A k \in 1 .. n : cuts[k] = texts[k]  BY <1>8
<1> HIDE DEF P, Same
<1>11. StringsAt(all, ends, texts, n)
  <2>1. ends[0] \in Nat \ {0} /\ ends[0] = at[0]
    <3>1. 0 \in 0 .. n  BY <1>1
    <3>2. QED BY <1>2, <1>9, <3>1 DEF StringsAt
  <2>2. ASSUME NEW k \in 1 .. n
        PROVE  /\ texts[k] \in Seq(CodeUnit) /\ Len(texts[k]) \in Nat /\ Len(texts[k]) < 127
               /\ StringAt(all, ends[k - 1], texts[k])
               /\ ends[k] = ends[k - 1] + 2 * Len(texts[k]) + 3
    <3>1. k - 1 \in 0 .. n /\ k \in 0 .. n  BY <1>1
    <3>2. at[k] = ends[k] /\ at[k - 1] = ends[k - 1] /\ cuts[k] = texts[k]
      BY <1>9, <1>10, <3>1
    <3>3. /\ cuts[k] \in Seq(CodeUnit) /\ Len(cuts[k]) \in Nat /\ Len(cuts[k]) < 127
          /\ StringAt(all, at[k - 1], cuts[k]) /\ at[k] = at[k - 1] + 2 * Len(cuts[k]) + 3
      BY <1>2 DEF StringsAt
    <3>4. QED BY <3>2, <3>3
  <2>3. QED BY <2>1, <2>2 DEF StringsAt
<1>12. Spans(d, ends, n, all)
  <2>1. n \in 0 .. n /\ 0 \in 0 .. n  BY <1>1
  <2>2. at[n] = ends[n]  BY <1>9, <2>1
  <2>3. QED BY <1>3, <1>5, <2>2 DEF Spans
<1>13. QED BY <1>2, <1>11, <1>12 DEF all

\* A host that goes through them.
LEMMA TextsWalk ==
  ASSUME buff \in Seq(Byte), NEW n \in Nat, NEW ends, NEW texts, DOMAIN texts = 1 .. n,
         StringsAt(buff, ends, texts, n)
  PROVE  TextsAt(texts, ends[0]) /\ NextTimes(n, ends[0]) = ends[n]
<1>1. Walks(ends, texts, n)  BY WalkAre
<1>2. \A k \in 0 .. n : NextTimes(k, ends[0]) = ends[k]  BY <1>1 DEF Walks
<1>3. n \in 0 .. n  OBVIOUS
<1>4. ASSUME NEW k \in DOMAIN texts
      PROVE  /\ WholeAt(NextTimes(k - 1, ends[0]))
             /\ UnitsAt(buff, NextTimes(k - 1, ends[0])) = texts[k]
  <2>1. k \in 1 .. n /\ k - 1 \in 0 .. n  OBVIOUS
  <2>2. NextTimes(k - 1, ends[0]) = ends[k - 1]  BY <1>2, <2>1
  <2>3. WholeAt(ends[k - 1]) /\ UnitsAt(buff, ends[k - 1]) = texts[k]  BY <1>1, <2>1 DEF Walks
  <2>4. QED BY <2>2, <2>3
<1>5. TextsAt(texts, ends[0])  BY <1>4 DEF TextsAt
<1>6. QED BY <1>2, <1>3, <1>5

StorageEnds == [k \in 0 .. 2 |-> IF k = 0 THEN 27 ELSE IF k = 1 THEN 38 ELSE 43]

\* The two texts of the storage are told as they are.
LEMMA StorageTextsAre ==
  /\ AllTold(StorageTexts, StorageTexts, 2) /\ Len(StorageTexts) = 2
  /\ Len(StorageTexts[1]) = 4 /\ Len(StorageTexts[2]) = 1
<1> DEFINE t1 == Text(4)
           t2 == Text(1)
<1>1. Tells(t1, t1) /\ Len(t1) = 4  BY LettersTell
<1>2. Tells(t2, t2) /\ Len(t2) = 1  BY LettersTell
<1>3. StorageTexts = <<t1, t2>>  BY DEF StorageTexts
<1> HIDE DEF t1, t2
<1>4. /\ Len(StorageTexts) = 2 /\ DOMAIN StorageTexts = 1 .. 2
      /\ StorageTexts[1] = t1 /\ StorageTexts[2] = t2
  BY <1>3
<1>5. \A k \in 1 .. 2 : Tells(StorageTexts[k], StorageTexts[k])
  <2>1. \A k \in 1 .. 2 : k = 1 \/ k = 2  OBVIOUS
  <2>2. QED BY <1>1, <1>2, <1>4, <2>1
<1>6. QED BY <1>1, <1>2, <1>4, <1>5 DEF AllTold

DeviceEnds == [k \in 0 .. 4 |-> IF k = 0 THEN 136 ELSE IF k = 1 THEN 157
                                ELSE IF k = 2 THEN 176 ELSE IF k = 3 THEN 189 ELSE 204]

\* The four texts of the device are told as they are.
LEMMA DeviceTextsAre ==
  /\ AllTold(DeviceTexts, DeviceTexts, 4) /\ Len(DeviceTexts) = 4
  /\ Len(DeviceTexts[1]) = 9 /\ Len(DeviceTexts[2]) = 8
  /\ Len(DeviceTexts[3]) = 5 /\ Len(DeviceTexts[4]) = 6
<1> DEFINE t1 == Text(9)
           t2 == Text(8)
           t3 == Text(5)
           t4 == Text(6)
<1>1. Tells(t1, t1) /\ Len(t1) = 9  BY LettersTell
<1>2. Tells(t2, t2) /\ Len(t2) = 8  BY LettersTell
<1>3. Tells(t3, t3) /\ Len(t3) = 5  BY LettersTell
<1>4. Tells(t4, t4) /\ Len(t4) = 6  BY LettersTell
<1>5. DeviceTexts = <<t1, t2, t3, t4>>  BY DEF DeviceTexts
<1> HIDE DEF t1, t2, t3, t4
<1>6. /\ Len(DeviceTexts) = 4 /\ DOMAIN DeviceTexts = 1 .. 4
      /\ DeviceTexts[1] = t1 /\ DeviceTexts[2] = t2 /\ DeviceTexts[3] = t3
      /\ DeviceTexts[4] = t4
  BY <1>5
<1>7. \A k \in 1 .. 4 : Tells(DeviceTexts[k], DeviceTexts[k])
  <2>1. \A k \in 1 .. 4 : k = 1 \/ k = 2 \/ k = 3 \/ k = 4  OBVIOUS
  <2>2. QED BY <1>1, <1>2, <1>3, <1>4, <1>6, <2>1
<1>8. QED BY <1>1, <1>2, <1>3, <1>4, <1>6, <1>7 DEF AllTold

\* What is known of a StorageInfo dataset.
StorageDataset(d) ==
  /\ d \in Seq(Byte) /\ Len(d) = 42 /\ StringsAt(d, StorageEnds, StorageTexts, 2)

\* get_storage_info: two texts after 26 bytes.
LEMMA StorageInfoAre ==
  ASSUME NEW capacity \in Seq(Byte), NEW free \in Seq(Byte), Len(capacity) = 8, Len(free) = 8
  PROVE  StorageDataset(StorageInfo(capacity, free))
<1> DEFINE b1 == Number(3, 2)
           b2 == Number(2, 2)
           b3 == Number(0, 2)
           b4 == [i \in 1 .. 4 |-> 255]
           a2 == b1 \o b2
           a3 == a2 \o b3
           a4 == a3 \o capacity
           a5 == a4 \o free
           a6 == a5 \o b4
<1>1. b1 \in Seq(Byte) /\ Len(b1) = 2  BY NumberSeq
<1>2. b2 \in Seq(Byte) /\ Len(b2) = 2  BY NumberSeq
<1>3. b3 \in Seq(Byte) /\ Len(b3) = 2  BY NumberSeq
<1>4. b4 \in Seq(Byte) /\ Len(b4) = 4
  <2>1. b4 \in [1 .. 4 -> Byte]  BY DEF Byte
  <2>2. QED BY <2>1, FunctionSeq
<1>5. StorageInfo(capacity, free) = WithAll(a6, StorageTexts)  BY DEF StorageInfo
<1> HIDE DEF b1, b2, b3, b4
<1>6. Puts(b1, b2, 2, 2)  BY <1>1, <1>2, PutsAre
<1>7. a2 \in Seq(Byte) /\ Len(a2) = 4  BY <1>6 DEF Puts
<1> HIDE DEF a2
<1>8. Puts(a2, b3, 4, 2)  BY <1>3, <1>7, PutsAre
<1>9. a3 \in Seq(Byte) /\ Len(a3) = 6  BY <1>8 DEF Puts
<1> HIDE DEF a3
<1>10. Puts(a3, capacity, 6, 8)  BY <1>9, PutsAre
<1>11. a4 \in Seq(Byte) /\ Len(a4) = 14  BY <1>10 DEF Puts
<1> HIDE DEF a4
<1>12. Puts(a4, free, 14, 8)  BY <1>11, PutsAre
<1>13. a5 \in Seq(Byte) /\ Len(a5) = 22  BY <1>12 DEF Puts
<1> HIDE DEF a5
<1>14. Puts(a5, b4, 22, 4)  BY <1>4, <1>13, PutsAre
<1>15. a6 \in Seq(Byte) /\ Len(a6) = 26  BY <1>14 DEF Puts
<1> HIDE DEF a6
<1>16. Planned(a6, StorageTexts, 2, StorageEnds)
  <2>1. StorageEnds[0] = 27 /\ StorageEnds[1] = 38 /\ StorageEnds[2] = 43  BY DEF StorageEnds
  <2>2. Len(StorageTexts[1]) = 4 /\ Len(StorageTexts[2]) = 1  BY StorageTextsAre
  <2> DEFINE Good(k) ==
               /\ StorageEnds[k] = StorageEnds[k - 1] + 2 * Len(StorageTexts[k]) + 3
               /\ StorageEnds[k] <= 258 /\ StorageEnds[k - 1] \in Nat
               /\ StorageEnds[k - 1] > 1 /\ Len(StorageTexts[k]) \in Nat
  <2>3. Good(1) /\ Good(2)  BY <2>1, <2>2
  <2> HIDE DEF Good
  <2>4. \A k \in 1 .. 2 : Good(k)
    <3>1. \A k \in 1 .. 2 : k = 1 \/ k = 2  OBVIOUS
    <3>2. QED BY <2>3, <3>1
  <2>5. StorageEnds[0] = Len(a6) + 1 /\ Len(a6) > 0  BY <1>15, <2>1
  <2>6. QED BY <2>4, <2>5 DEF Planned, Good
<1>17. AllTold(StorageTexts, StorageTexts, 2)  BY StorageTextsAre
<1>18. /\ StringsAt(WithAll(a6, StorageTexts), StorageEnds, StorageTexts, 2)
       /\ Spans(a6, StorageEnds, 2, WithAll(a6, StorageTexts))
  BY <1>15, <1>16, <1>17, PlannedAre
<1> DEFINE all == WithAll(a6, StorageTexts)
<1>19. all \in Seq(Byte) /\ Len(all) = 42
  <2>1. StorageEnds[2] = 43  BY DEF StorageEnds
  <2>2. Spans(a6, StorageEnds, 2, all)  BY <1>18
  <2> HIDE DEF all
  <2>3. all \in Seq(Byte) /\ Len(all) \in Nat /\ Len(all) + 1 = 43
    BY <2>1, <2>2 DEF Spans
  <2> DEFINE size == Len(all)
  <2>4. size \in Nat /\ size + 1 = 43  BY <2>3
  <2> HIDE DEF size
  <2>5. size = 42  BY <2>4
  <2>6. QED BY <2>3, <2>5 DEF size
<1>20. QED BY <1>5, <1>18, <1>19 DEF StorageDataset

\* A host that goes through it.
LEMMA StorageWalk ==
  ASSUME StorageDataset(buff)
  PROVE  TextsAt(StorageTexts, 27) /\ NextTimes(2, 27) = Len(buff) + 1
<1>1. /\ buff \in Seq(Byte) /\ Len(buff) = 42
      /\ StringsAt(buff, StorageEnds, StorageTexts, 2)
  BY DEF StorageDataset
<1>2. DOMAIN StorageTexts = 1 .. 2  BY DEF StorageTexts
<1>3. TextsAt(StorageTexts, StorageEnds[0])
      /\ NextTimes(2, StorageEnds[0]) = StorageEnds[2]
  <2> DEFINE n == 2
  <2>1. /\ n \in Nat /\ DOMAIN StorageTexts = 1 .. n
        /\ StringsAt(buff, StorageEnds, StorageTexts, n)
    BY <1>1, <1>2
  <2> HIDE DEF n
  <2>2. TextsAt(StorageTexts, StorageEnds[0]) /\ NextTimes(n, StorageEnds[0]) = StorageEnds[n]
    BY <1>1, <2>1, TextsWalk
  <2>3. QED BY <2>2 DEF n
<1>4. StorageEnds[0] = 27 /\ StorageEnds[2] = 43  BY DEF StorageEnds
<1>5. QED BY <1>1, <1>3, <1>4

\* The arrays of a DeviceInfo dataset.
LEMMA DeviceArraysAre ==
  /\ DeviceArrays \in Seq(Byte) /\ Len(DeviceArrays) = 48
  /\ DeviceArrays[1] = 12 /\ DeviceArrays[29] = 0 /\ DeviceArrays[33] = 0
  /\ DeviceArrays[37] = 0 /\ DeviceArrays[41] = 2
<1> DEFINE n == Len(OperationCodes)
           b1 == Number(n, 4)
           b2 == Bytes2(OperationCodes)
           b3 == Zeros(4)
           b4 == Number(2, 4)
           b5 == Number(Format(FALSE), 2)
           b6 == Number(Format(TRUE), 2)
           a2 == b1 \o b2
           a3 == a2 \o b3
           a4 == a3 \o b3
           a5 == a4 \o b3
           a6 == a5 \o b4
           a7 == a6 \o b5
           a8 == a7 \o b6
<1>1. OperationCodes \in Seq(Code) /\ n = 12
  <2>1. n = 12  BY DEF OperationCodes
  <2>2. OperationCodes \in Seq(Code)  BY DEF OperationCodes, Code
  <2>3. QED BY <2>1, <2>2
<1>2. DeviceArrays = a8  BY DEF DeviceArrays
<1>3. b1 \in Seq(Byte) /\ Len(b1) = 4 /\ b1[1] = 12
  <2>1. n \in Nat /\ n % 256 = 12  BY <1>1
  <2> HIDE DEF n
  <2>2. b1 \in Seq(Byte) /\ Len(b1) = 4  BY <2>1, NumberSeq
  <2>3. b1[1] = n % 256  BY <2>1, NumberFirst
  <2>4. QED BY <2>1, <2>2, <2>3
<1>4. b2 \in Seq(Byte) /\ Len(b2) = 24
  <2>1. b2 \in Seq(Byte) /\ Len(b2) = 2 * Len(OperationCodes)  BY <1>1, Bytes2Are
  <2>2. QED BY <1>1, <2>1
<1>5. b3 \in Seq(Byte) /\ Len(b3) = 4 /\ b3[1] = 0
  <2>1. b3 \in Seq(Byte) /\ Len(b3) = 4 /\ \A i \in 1 .. 4 : b3[i] = 0  BY ZerosAre
  <2>2. QED BY <2>1
<1>6. b4 \in Seq(Byte) /\ Len(b4) = 4 /\ b4[1] = 2
  <2> DEFINE two == 2
  <2>1. two \in Nat /\ two % 256 = 2  OBVIOUS
  <2> HIDE DEF two
  <2>2. Number(two, 4) \in Seq(Byte) /\ Len(Number(two, 4)) = 4  BY <2>1, NumberSeq
  <2>3. Number(two, 4)[1] = two % 256  BY <2>1, NumberFirst
  <2>4. QED BY <2>1, <2>2, <2>3 DEF two
<1>7. b5 \in Seq(Byte) /\ Len(b5) = 2
  <2>1. Format(FALSE) \in Nat  BY DEF Format
  <2>2. QED BY <2>1, NumberSeq
<1>8. b6 \in Seq(Byte) /\ Len(b6) = 2
  <2>1. Format(TRUE) \in Nat  BY DEF Format
  <2>2. QED BY <2>1, NumberSeq
<1> HIDE DEF b1, b2, b3, b4, b5, b6
<1>9. Puts(b1, b2, 4, 24)  BY <1>3, <1>4, PutsAre
<1>10. a2 \in Seq(Byte) /\ Len(a2) = 28 /\ Begins(b1, a2)  BY <1>9 DEF Puts
<1> HIDE DEF a2
<1>11. Puts(a2, b3, 28, 4)  BY <1>5, <1>10, PutsAre
<1>12. a3 \in Seq(Byte) /\ Len(a3) = 32 /\ Begins(a2, a3) /\ Has(a3, 28, b3)
  BY <1>11 DEF Puts
<1> HIDE DEF a3
<1>13. Puts(a3, b3, 32, 4)  BY <1>5, <1>12, PutsAre
<1>14. a4 \in Seq(Byte) /\ Len(a4) = 36 /\ Begins(a3, a4) /\ Has(a4, 32, b3)
  BY <1>13 DEF Puts
<1> HIDE DEF a4
<1>15. Puts(a4, b3, 36, 4)  BY <1>5, <1>14, PutsAre
<1>16. a5 \in Seq(Byte) /\ Len(a5) = 40 /\ Begins(a4, a5) /\ Has(a5, 36, b3)
  BY <1>15 DEF Puts
<1> HIDE DEF a5
<1>17. Puts(a5, b4, 40, 4)  BY <1>6, <1>16, PutsAre
<1>18. a6 \in Seq(Byte) /\ Len(a6) = 44 /\ Begins(a5, a6) /\ Has(a6, 40, b4)
  BY <1>17 DEF Puts
<1> HIDE DEF a6
<1>19. Puts(a6, b5, 44, 2)  BY <1>7, <1>18, PutsAre
<1>20. a7 \in Seq(Byte) /\ Len(a7) = 46 /\ Begins(a6, a7)  BY <1>19 DEF Puts
<1> HIDE DEF a7
<1>21. Puts(a7, b6, 46, 2)  BY <1>8, <1>20, PutsAre
<1>22. a8 \in Seq(Byte) /\ Len(a8) = 48 /\ Begins(a7, a8)  BY <1>21 DEF Puts
<1> HIDE DEF a8
<1>23. a6[41] = 2 /\ a5[37] = 0 /\ a4[33] = 0 /\ a3[29] = 0 /\ b1[1] = 12
  <2>1. a6[40 + 1] = b4[1]  BY <1>6, <1>18 DEF Has
  <2>2. a5[36 + 1] = b3[1]  BY <1>5, <1>16 DEF Has
  <2>3. a4[32 + 1] = b3[1]  BY <1>5, <1>14 DEF Has
  <2>4. a3[28 + 1] = b3[1]  BY <1>5, <1>12 DEF Has
  <2>5. QED BY <1>3, <1>5, <1>6, <2>1, <2>2, <2>3, <2>4
<1>24. a8[41] = 2  BY <1>18, <1>20, <1>22, <1>23 DEF Begins
<1>25. a8[37] = 0  BY <1>16, <1>18, <1>20, <1>22, <1>23 DEF Begins
<1>26. a8[33] = 0  BY <1>14, <1>16, <1>18, <1>20, <1>22, <1>23 DEF Begins
<1>27. a8[29] = 0  BY <1>12, <1>14, <1>16, <1>18, <1>20, <1>22, <1>23 DEF Begins
<1>28. a8[1] = 12
  BY <1>3, <1>10, <1>12, <1>14, <1>16, <1>18, <1>20, <1>22, <1>23 DEF Begins
<1>29. QED BY <1>2, <1>22, <1>24, <1>25, <1>26, <1>27, <1>28

\* What is known of a DeviceInfo dataset.
DeviceDataset(d) ==
  /\ d \in Seq(Byte) /\ Len(d) = 203
  /\ StringAt(d, 9, ExtensionText) /\ StringsAt(d, DeviceEnds, DeviceTexts, 4)
  /\ d[88] = 12 /\ d[116] = 0 /\ d[120] = 0 /\ d[124] = 0 /\ d[128] = 2

\* get_device_info: a text, the arrays and four texts.
LEMMA DeviceInfoAre == DeviceDataset(DeviceInfo)
<1> DEFINE c1 == Number(100, 2)
           c2 == Number(6, 4)
           v2 == c1 \o c2
           version == v2 \o c1
           text == ExtensionText
           one == With(version, text)
           mode == Number(0, 2)
           a2 == one \o mode
           a3 == a2 \o DeviceArrays
           all == WithAll(a3, DeviceTexts)
<1>1. c1 \in Seq(Byte) /\ Len(c1) = 2  BY NumberSeq
<1>2. c2 \in Seq(Byte) /\ Len(c2) = 4  BY NumberSeq
<1>3. mode \in Seq(Byte) /\ Len(mode) = 2  BY NumberSeq
<1>4. DeviceInfo = all  BY DEF DeviceInfo
<1>5. Tells(text, text) /\ text \in Seq(CodeUnit) /\ Len(text) = 37
  BY LettersTell DEF ExtensionText
<1> HIDE DEF c1, c2, mode, text
<1>6. Puts(c1, c2, 2, 4)  BY <1>1, <1>2, PutsAre
<1>7. v2 \in Seq(Byte) /\ Len(v2) = 6  BY <1>6 DEF Puts
<1> HIDE DEF v2
<1>8. Puts(v2, c1, 6, 2)  BY <1>1, <1>7, PutsAre
<1>9. version \in Seq(Byte) /\ Len(version) = 8  BY <1>8 DEF Puts
<1> HIDE DEF version
<1>10. Added(version, one, Cut(version, text))  BY <1>5, <1>9, WithAre
<1>11. Cut(version, text) = text
  <2>1. Len(version) \in Nat  BY <1>9
  <2>2. Room(version) = (4096 - Len(version)) % 256  BY <2>1, RoomAre
  <2>3. Room(version) = 248  BY <1>9, <2>2
  <2>4. Capacity(248) = 123  BY DEF Capacity
  <2>5. Len(text) <= Capacity(Room(version))  BY <1>5, <2>3, <2>4
  <2>6. QED BY <1>5, <2>5, <2>1, CutAre
<1>12. one \in Seq(Byte) /\ Len(one) = 85 /\ StringAt(one, 9, text)
  <2>1. /\ one \in Seq(Byte) /\ Len(one) = Len(version) + 2 * Len(text) + 3
        /\ StringAt(one, Len(version) + 1, text)
    BY <1>10, <1>11 DEF Added
  <2>2. Len(version) + 1 = 9 /\ Len(version) + 2 * Len(text) + 3 = 85  BY <1>5, <1>9
  <2>3. QED BY <2>1, <2>2
<1> HIDE DEF one
<1>13. Puts(one, mode, 85, 2)
  <2> DEFINE m == 85
             n == 2
  <2>1. one \in Seq(Byte) /\ Len(one) = m  BY <1>12
  <2>2. mode \in Seq(Byte) /\ Len(mode) = n  BY <1>3
  <2> HIDE DEF m, n
  <2>3. Puts(one, mode, m, n)  BY <2>1, <2>2, PutsAre
  <2>4. QED BY <2>3 DEF m, n
<1>14. a2 \in Seq(Byte) /\ Len(a2) = 87 /\ Begins(one, a2)  BY <1>13 DEF Puts
<1> HIDE DEF a2
<1> DEFINE arrays == DeviceArrays
<1>15. /\ arrays \in Seq(Byte) /\ Len(arrays) = 48 /\ arrays[1] = 12 /\ arrays[29] = 0
       /\ arrays[33] = 0 /\ arrays[37] = 0 /\ arrays[41] = 2
  BY DeviceArraysAre
<1> HIDE DEF arrays
<1>16. Puts(a2, arrays, 87, 48)
  <2> DEFINE m == 87
             n == 48
  <2>1. a2 \in Seq(Byte) /\ Len(a2) = m  BY <1>14
  <2>2. arrays \in Seq(Byte) /\ Len(arrays) = n  BY <1>15
  <2> HIDE DEF m, n
  <2>3. Puts(a2, arrays, m, n)  BY <2>1, <2>2, PutsAre
  <2>4. QED BY <2>3 DEF m, n
<1>17. a3 \in Seq(Byte) /\ Len(a3) = 135 /\ Begins(a2, a3) /\ Has(a3, 87, arrays)
  BY <1>16 DEF Puts, arrays
<1> HIDE DEF a3
<1>18. /\ a3[88] = 12 /\ a3[116] = 0 /\ a3[120] = 0 /\ a3[124] = 0 /\ a3[128] = 2
  <2>1. \A i \in 1 .. Len(arrays) : a3[87 + i] = arrays[i]  BY <1>17 DEF Has
  <2>2. /\ a3[87 + 1] = arrays[1] /\ a3[87 + 29] = arrays[29] /\ a3[87 + 33] = arrays[33]
        /\ a3[87 + 37] = arrays[37] /\ a3[87 + 41] = arrays[41]
    BY <1>15, <2>1
  <2>3. QED BY <1>15, <2>2
<1>19. Planned(a3, DeviceTexts, 4, DeviceEnds)
  <2>1. /\ DeviceEnds[0] = 136 /\ DeviceEnds[1] = 157 /\ DeviceEnds[2] = 176
        /\ DeviceEnds[3] = 189 /\ DeviceEnds[4] = 204
    BY DEF DeviceEnds
  <2>2. /\ Len(DeviceTexts[1]) = 9 /\ Len(DeviceTexts[2]) = 8
        /\ Len(DeviceTexts[3]) = 5 /\ Len(DeviceTexts[4]) = 6
    BY DeviceTextsAre
  <2> DEFINE Good(k) ==
               /\ DeviceEnds[k] = DeviceEnds[k - 1] + 2 * Len(DeviceTexts[k]) + 3
               /\ DeviceEnds[k] <= 258 /\ DeviceEnds[k - 1] \in Nat
               /\ DeviceEnds[k - 1] > 1 /\ Len(DeviceTexts[k]) \in Nat
  <2>3. Good(1) /\ Good(2)  BY <2>1, <2>2
  <2>4. Good(3) /\ Good(4)  BY <2>1, <2>2
  <2> HIDE DEF Good
  <2>5. \A k \in 1 .. 4 : Good(k)
    <3>1. \A k \in 1 .. 4 : k = 1 \/ k = 2 \/ k = 3 \/ k = 4  OBVIOUS
    <3>2. QED BY <2>3, <2>4, <3>1
  <2>6. DeviceEnds[0] = Len(a3) + 1 /\ Len(a3) > 0  BY <1>17, <2>1
  <2>7. QED BY <2>5, <2>6 DEF Planned, Good
<1>20. AllTold(DeviceTexts, DeviceTexts, 4)  BY DeviceTextsAre
<1>21. StringsAt(all, DeviceEnds, DeviceTexts, 4) /\ Begins(a3, all)
       /\ Spans(a3, DeviceEnds, 4, all)
  BY <1>17, <1>19, <1>20, PlannedAre
<1> HIDE DEF all
<1>22. all \in Seq(Byte) /\ Len(all) = 203
  <2>1. DeviceEnds[4] = 204  BY DEF DeviceEnds
  <2>2. all \in Seq(Byte) /\ Len(all) \in Nat /\ Len(all) + 1 = 204
    BY <1>21, <2>1 DEF Spans
  <2> DEFINE size == Len(all)
  <2>3. size \in Nat /\ size + 1 = 204  BY <2>2
  <2> HIDE DEF size
  <2>4. size = 203  BY <2>3
  <2>5. QED BY <2>2, <2>4 DEF size
<1>23. StringAt(all, 9, text)
  <2>1. StringAt(a2, 9, text)  BY <1>5, <1>12, <1>14, StringKept
  <2>2. StringAt(a3, 9, text)  BY <1>5, <1>17, <2>1, StringKept
  <2>3. QED BY <1>5, <1>21, <2>2, StringKept
<1>24. all[88] = 12 /\ all[116] = 0 /\ all[120] = 0 /\ all[124] = 0 /\ all[128] = 2
  <2>1. \A i \in 1 .. Len(a3) : all[i] = a3[i]  BY <1>21 DEF Begins
  <2>2. QED BY <1>17, <1>18, <2>1
<1>25. QED BY <1>4, <1>21, <1>22, <1>23, <1>24 DEF DeviceDataset, text

\* A host that goes through it.
DeviceRead ==
  LET arrays == HostNext(9) + 2
      texts == AfterArray(AfterArray(AfterArray(AfterArray(AfterArray(arrays)))))
  IN  /\ TextsAt(<<ExtensionText>>, 9) /\ TextsAt(DeviceTexts, texts)
      /\ NextTimes(4, texts) = Len(buff) + 1

\* A host finds each of them by the counts of the arrays.
LEMMA DeviceWalk ==
  ASSUME DeviceDataset(buff)
  PROVE  DeviceRead
<1>1. /\ buff \in Seq(Byte) /\ Len(buff) = 203 /\ StringAt(buff, 9, ExtensionText)
      /\ StringsAt(buff, DeviceEnds, DeviceTexts, 4)
      /\ buff[88] = 12 /\ buff[116] = 0 /\ buff[120] = 0 /\ buff[124] = 0 /\ buff[128] = 2
  BY DEF DeviceDataset
<1>2. DOMAIN DeviceTexts = 1 .. 4  BY DEF DeviceTexts
<1>3. TextsAt(DeviceTexts, DeviceEnds[0]) /\ NextTimes(4, DeviceEnds[0]) = DeviceEnds[4]
  <2>1. buff \in Seq(Byte) /\ StringsAt(buff, DeviceEnds, DeviceTexts, 4)  BY <1>1
  <2> DEFINE n == 4
  <2>2. n \in Nat  OBVIOUS
  <2> HIDE DEF n
  <2>3. TextsAt(DeviceTexts, DeviceEnds[0]) /\ NextTimes(n, DeviceEnds[0]) = DeviceEnds[n]
    <3>1. DOMAIN DeviceTexts = 1 .. n  BY <1>2 DEF n
    <3>2. StringsAt(buff, DeviceEnds, DeviceTexts, n)  BY <2>1 DEF n
    <3>3. QED BY <2>1, <2>2, <3>1, <3>2, TextsWalk
  <2>4. QED BY <2>3 DEF n
<1>4. DeviceEnds[0] = 136 /\ DeviceEnds[4] = 204  BY DEF DeviceEnds
<1> DEFINE text == ExtensionText
           ends == [k \in 0 .. 1 |-> IF k = 0 THEN 9 ELSE 86]
<1>5. text \in Seq(CodeUnit) /\ Len(text) = 37  BY LettersTell DEF ExtensionText
<1> HIDE DEF text
<1>6. StringReads(buff, 9, text)  BY <1>1, <1>5, StringRead DEF text
<1>7. UnitsAt(buff, 9) = text /\ buff[9] = 38  BY <1>5, <1>6 DEF StringReads
<1>8. HostNext(9) + 2 = 88  BY <1>7 DEF HostNext
<1>9. /\ AfterArray(88) = 116 /\ AfterArray(116) = 120 /\ AfterArray(120) = 124
      /\ AfterArray(124) = 128 /\ AfterArray(128) = 136
  BY <1>1 DEF AfterArray
<1>10. TextsAt(<<text>>, 9)
  <2>1. NextTimes(0, 9) = 9  BY RoundsAre DEF NextTimes
  <2>2. WholeAt(9)  BY <1>1, <1>5, <1>7 DEF WholeAt
  <2>3. DOMAIN <<text>> = 1 .. 1 /\ <<text>>[1] = text  OBVIOUS
  <2>4. \A k \in 1 .. 1 : k = 1 /\ k - 1 = 0  OBVIOUS
  <2>5. QED BY <1>7, <2>1, <2>2, <2>3, <2>4 DEF TextsAt
<1>11. QED BY <1>1, <1>3, <1>4, <1>8, <1>9, <1>10 DEF DeviceRead, text

-----------------------------------------------------------------------------
(***************************************************************************)
(* The dataset of a host.                                                  *)
(***************************************************************************)

\* The bytes of a string that may be left out, and where it is.
OptionalLen(u) == IF u = <<>> THEN 1 ELSE 2 * Len(u) + 3
OptionalAt(d, place, u) ==
  /\ place \in Nat \ {0} /\ place <= Len(d)
  /\ u = <<>> => d[place] = 0
  /\ u # <<>> => StringAt(d, place, u)

\* It stays where it is.
LEMMA OptionalKept ==
  ASSUME NEW d, NEW e, Begins(d, e), NEW place, NEW u \in Seq(CodeUnit), OptionalAt(d, place, u)
  PROVE  OptionalAt(e, place, u)
<1>1. /\ Len(d) \in Nat /\ Len(e) \in Nat /\ Len(d) <= Len(e)
      /\ \A i \in 1 .. Len(d) : e[i] = d[i]
  BY DEF Begins
<1>2. place \in Nat \ {0} /\ place <= Len(d)  BY DEF OptionalAt
<1>3. place <= Len(e) /\ e[place] = d[place]  BY <1>1, <1>2
<1>4. u # <<>> => StringAt(e, place, u)  BY StringKept DEF OptionalAt
<1>5. QED BY <1>2, <1>3, <1>4 DEF OptionalAt

\* A dataset d with an optional string after it.
OptionalAdded(d, after, u) ==
  /\ after \in Seq(Byte) /\ Len(d) \in Nat /\ Len(after) = Len(d) + OptionalLen(u)
  /\ Begins(d, after) /\ OptionalAt(after, Len(d) + 1, u)

\* It is found where it was put.
LEMMA OptionalPut ==
  ASSUME NEW d \in Seq(Byte), NEW u \in Seq(CodeUnit), Len(u) < 255
  PROVE  OptionalAdded(d, d \o Optional(u), u)
<1> DEFINE all == d \o Optional(u)
<1>1. Len(d) \in Nat /\ Len(u) \in Nat  BY LenProperties
<1>2. CASE u = <<>>
  <2> DEFINE none == <<0>>
  <2>1. none \in Seq(Byte) /\ Len(none) = 1 /\ none[1] = 0  BY DEF Byte
  <2>2. all = d \o none  BY <1>2 DEF Optional
  <2>3. OptionalLen(u) = 1  BY <1>2 DEF OptionalLen
  <2> HIDE DEF none, all
  <2>4. Puts(d, none, Len(d), 1)  BY <2>1, PutsAre
  <2>5. all \in Seq(Byte) /\ Len(all) = Len(d) + 1 /\ Begins(d, all) /\ Has(all, Len(d), none)
    BY <2>2, <2>4 DEF Puts
  <2>6. all[Len(d) + 1] = 0  BY <2>1, <2>5 DEF Has
  <2>7. Len(d) + 1 \in Nat \ {0} /\ Len(d) + 1 <= Len(all)  BY <1>1, <2>5
  <2>8. OptionalAt(all, Len(d) + 1, u)  BY <1>2, <2>6, <2>7 DEF OptionalAt
  <2>9. OptionalAdded(d, all, u)  BY <1>1, <2>3, <2>5, <2>8 DEF OptionalAdded
  <2>10. QED BY <2>9 DEF all
<1>3. CASE u # <<>>
  <2>1. all = d \o String(u)  BY <1>3 DEF Optional
  <2>2. OptionalLen(u) = 2 * Len(u) + 3  BY <1>3 DEF OptionalLen
  <2> HIDE DEF all
  <2>3. all \in Seq(Byte) /\ Len(all) = Len(d) + 2 * Len(u) + 3 /\ StringAt(all, Len(d) + 1, u)
    BY <2>1, StringPut
  <2>4. Begins(d, all)
    <3>1. String(u) \in Seq(Byte)  BY StringAre
    <3>2. QED BY <2>1, <3>1, BeginsAre
  <2>5. Len(d) + 1 \in Nat \ {0} /\ Len(d) + 1 <= Len(all)
        /\ Len(all) = Len(d) + OptionalLen(u)
    BY <1>1, <2>2, <2>3
  <2>6. OptionalAt(all, Len(d) + 1, u)  BY <1>3, <2>3, <2>5 DEF OptionalAt
  <2>7. OptionalAdded(d, all, u)  BY <1>1, <2>3, <2>4, <2>5, <2>6 DEF OptionalAdded
  <2>8. QED BY <2>7 DEF all
<1>4. QED BY <1>2, <1>3

\* The next string is after its bytes.
LEMMA OptionalNext ==
  ASSUME NEW d \in Seq(Byte), NEW place, NEW u \in Seq(CodeUnit), OptionalAt(d, place, u)
  PROVE  NextString(d, place) = place + OptionalLen(u)
<1>1. place \in Nat \ {0}  BY DEF OptionalAt
<1>2. CASE u = <<>>
  <2>1. d[place] = 0  BY <1>2 DEF OptionalAt
  <2>2. QED BY <1>1, <1>2, <2>1 DEF NextString, OptionalLen
<1>3. CASE u # <<>>
  <2>1. StringAt(d, place, u)  BY <1>3 DEF OptionalAt
  <2>2. NextString(d, place) = place + 2 * Len(u) + 3
    <3>1. StringReads(d, place, u)  BY <2>1, StringRead
    <3>2. QED BY <3>1 DEF StringReads
  <2>3. Len(u) \in Nat  BY LenProperties
  <2>4. QED BY <1>1, <1>3, <2>2, <2>3 DEF OptionalLen
<1>4. QED BY <1>2, <1>3

\* A byte of the dataset or after it is a number.
LEMMA ByteOfAre ==
  ASSUME NEW d \in Seq(Byte), NEW place \in Nat \ {0}, NEW stale \in Nat
  PROVE  ByteOf(d, place, stale) \in Nat
<1>1. Len(d) \in Nat /\ \A i \in 1 .. Len(d) : d[i] \in Byte  BY LenProperties, ElementOfSeq
<1>2. CASE place <= Len(d)
  <2>1. d[place] \in Byte  BY <1>1, <1>2
  <2>2. QED BY <1>2, <2>1 DEF ByteOf, Byte
<1>3. CASE ~(place <= Len(d))  BY <1>3 DEF ByteOf
<1>4. QED BY <1>2, <1>3

\* Of the units that are looked at where a date is left out, the one that is no letter:
\* its low byte is 0, or its high byte is not.
NoLetter(d, place, stale, i) ==
  \/ ByteOf(d, place + 2 * i - 1, stale) = 0
  \/ ByteOf(d, (place + 2 * i - 1) + 1, stale) # 0

\* There is such a unit among the first fifteen, as u does not spell a date.
LEMMA SomeNoLetter ==
  ASSUME NEW d \in Seq(Byte), NEW place \in Nat \ {0}, NEW u \in Seq(CodeUnit),
         OptionalAt(d, place + 1, u), ~Spells(u), NEW stale
  PROVE  \E i \in 1 .. 15 : NoLetter(d, place, stale, i)
<1>1. CASE u = <<>>
  <2>1. place + 1 <= Len(d) /\ d[place + 1] = 0  BY <1>1 DEF OptionalAt
  <2>2. place + 2 * 1 - 1 = place + 1  OBVIOUS
  <2>3. ByteOf(d, place + 2 * 1 - 1, stale) = 0  BY <2>1, <2>2 DEF ByteOf
  <2>4. NoLetter(d, place, stale, 1)  BY <2>3 DEF NoLetter
  <2>5. QED BY <2>4
<1>2. CASE u # <<>>
  <2> DEFINE n == Len(u)
             m == Len(d)
  <2>1. n \in Nat /\ m \in Nat /\ DOMAIN u = 1 .. n  BY LenProperties
  <2>2. /\ (place + 1) + 2 * n + 2 <= m /\ d[(place + 1) + 2 * n + 2] = 0
        /\ \A i \in 1 .. n : d[(place + 1) + 2 * i - 1] = u[i] % 256
    BY <1>2 DEF OptionalAt, StringAt
  <2>3. n < 14 \/ \E i \in 1 .. n : i <= 15 /\ u[i] % 256 # 0  BY <2>1 DEF Spells
  <2> HIDE DEF n, m
  <2>4. CASE n < 14
    <3>1. n + 2 \in 1 .. 15  BY <2>1, <2>4
    <3>2. place + 2 * (n + 2) - 1 = (place + 1) + 2 * n + 2  BY <2>1
    <3>3. ByteOf(d, place + 2 * (n + 2) - 1, stale) = 0  BY <2>2, <3>2 DEF ByteOf, m
    <3>4. NoLetter(d, place, stale, n + 2)  BY <3>3 DEF NoLetter
    <3>5. QED BY <3>1, <3>4
  <2>5. ASSUME NEW i \in 1 .. n, i <= 15, u[i] % 256 # 0 PROVE NoLetter(d, place, stale, i)
    <3>1. (place + 2 * i - 1) + 1 = (place + 1) + 2 * i - 1  OBVIOUS
    <3>2. (place + 1) + 2 * i - 1 <= m  BY <2>1, <2>2
    <3>3. ByteOf(d, (place + 2 * i - 1) + 1, stale) = u[i] % 256
      BY <2>2, <3>1, <3>2 DEF ByteOf, m
    <3>4. QED BY <2>5, <3>3 DEF NoLetter
  <2>6. CASE \E i \in 1 .. n : i <= 15 /\ u[i] % 256 # 0
    <3>1. PICK i \in 1 .. n : i <= 15 /\ u[i] % 256 # 0  BY <2>6
    <3>2. i \in 1 .. 15  BY <2>1, <3>1
    <3>3. QED BY <2>5, <3>1, <3>2
  <2>7. QED BY <2>3, <2>4, <2>6
<1>3. QED BY <1>1, <1>2

\* What follows a date that is left out is not taken for one.
LEMMA TimeAbsent ==
  ASSUME NEW d \in Seq(Byte), NEW place \in Nat \ {0}, NEW u \in Seq(CodeUnit),
         OptionalAt(d, place + 1, u), ~Spells(u), NEW stale \in Nat
  PROVE  TimeAt(d, place, stale) = NoTime
<1>1. PICK i \in 1 .. 15 : NoLetter(d, place, stale, i)  BY SomeNoLetter
<1> DEFINE p == place + 2 * i - 1
           b1 == ByteOf(d, p, stale)
           b2 == ByteOf(d, p + 1, stale)
<1>2. b1 \in Nat /\ b2 \in Nat
  <2>1. p \in Nat \ {0} /\ p + 1 \in Nat \ {0}  OBVIOUS
  <2> HIDE DEF p
  <2>2. QED BY <2>1, ByteOfAre
<1>3. b1 = 0 \/ b2 # 0  BY <1>1 DEF NoLetter
<1>4. UnitOf(d, p, stale) = b1 + 256 * b2  BY DEF UnitOf
<1> HIDE DEF p, b1, b2
<1>5. b1 + 256 * b2 = 0 \/ b1 + 256 * b2 >= 256  BY <1>2, <1>3
<1>6. UnitOf(d, p, stale) \notin Below(128)  BY <1>2, <1>4, <1>5 DEF Below
<1>7. QED BY <1>6, TimeNone DEF p

-----------------------------------------------------------------------------
(***************************************************************************)
(* What is made of an announcement.                                        *)
(***************************************************************************)

\* A string that may be left out, and that is no date one byte further on.
Sent(u) == u \in Seq(CodeUnit) /\ Len(u) < 255 /\ ~Spells(u)
AnnouncedName(h) == UnitsOf(h.name, Len(h.name))

\* An announcement, and the units of its name.
LEMMA HeardAre ==
  ASSUME NEW h \in Announcements
  PROVE  /\ h.isFolder \in BOOLEAN /\ h.size \in Nat
         /\ h.name \in Seq(Characters) /\ \A i \in 1 .. Len(h.name) : HasUnit(h.name[i])
         /\ AnnouncedName(h) \in Seq(CodeUnit) /\ Len(AnnouncedName(h)) < 255
         /\ NameUnits(h.name) = AnnouncedName(h)
         /\ h.created \in Stamps \cup {<<>>} /\ h.modified \in Stamps \cup {<<>>}
         /\ Sent(h.created) /\ Sent(h.modified) /\ Sent(h.keywords)
<1>1. /\ h.isFolder \in BOOLEAN /\ h.size \in Nat /\ h.name \in Seq(Characters)
      /\ h.created \in Stamps \cup {<<>>} /\ h.modified \in Stamps \cup {<<>>}
      /\ h.keywords \in Seq(CodeUnit)
      /\ \A i \in DOMAIN h.name : HasUnit(h.name[i])
      /\ Len(h.name) < 255 /\ Len(h.keywords) < 255
      /\ ~Spells(h.keywords)
  BY AnnouncementAssumption DEF CodeUnit
<1>2. Len(h.name) \in Nat /\ DOMAIN h.name = 1 .. Len(h.name)  BY <1>1, LenProperties
<1>3. \A i \in 1 .. Len(h.name) : HasUnit(h.name[i])  BY <1>1, <1>2
<1>4. /\ AnnouncedName(h) \in Seq(CodeUnit) /\ Len(AnnouncedName(h)) = Len(h.name)
      /\ NameUnits(h.name) = AnnouncedName(h)
  <2> DEFINE name == h.name
             k == Len(name)
  <2>1. k \in 0 .. Len(name)  BY <1>2
  <2>2. SubSeq(name, 1, Len(name)) = name  BY <1>1, SubSeqFull
  <2> HIDE DEF k, name
  <2>3. name \in Seq(Characters) /\ \A i \in 1 .. k : HasUnit(name[i])  BY <1>1, <1>3 DEF k, name
  <2>4. /\ UnitsOf(name, k) \in Seq(CodeUnit) /\ Len(UnitsOf(name, k)) = k
        /\ Upto(Utf16Parts(name), k) = UnitsOf(name, k)
    BY <2>1, <2>3, UnitsOfAre
  <2>5. NameUnits(SubSeq(name, 1, k)) = Upto(Utf16Parts(name), k)
    BY <2>1, <2>3, FirstParts
  <2>6. NameUnits(name) = UnitsOf(name, k)  BY <2>2, <2>4, <2>5 DEF k
  <2>7. QED BY <2>4, <2>6 DEF AnnouncedName, k, name
<1>5. ASSUME NEW s \in Stamps \cup {<<>>} PROVE Sent(s)
  <2>1. CASE s = <<>>
    <3>1. <<>> \in Seq(CodeUnit) /\ Len(<<>>) = 0  OBVIOUS
    <3>2. QED BY <2>1, <3>1 DEF Sent, Spells
  <2>2. CASE s \in Stamps
    <3>1. s \in Seq(CodeUnit) /\ Len(s) = 15  BY <2>2, StampTells
    <3>2. s[1] \in Below(128) /\ 1 \in DOMAIN s  BY <2>2, StampAssumption
    <3>3. s[1] % 256 # 0  BY <3>2 DEF Below
    <3>4. ~Spells(s)  BY <3>2, <3>3 DEF Spells
    <3>5. QED BY <3>1, <3>4 DEF Sent
  <2>3. QED BY <1>5, <2>1, <2>2
<1>6. Sent(h.keywords)  BY <1>1 DEF Sent
<1>7. QED BY <1>1, <1>2, <1>3, <1>4, <1>5, <1>6

\* What is known of the dataset of an announcement.
CreatedAt(h) == 56 + 2 * Len(AnnouncedName(h))
ModifiedAt(h) == CreatedAt(h) + OptionalLen(h.created)
KeywordsAt(h) == ModifiedAt(h) + OptionalLen(h.modified)
AnnouncedDataset(d, h) ==
  /\ d \in Seq(Byte) /\ Len(d) <= 4096 /\ FixedHas(d, h.isFolder, h.size)
  /\ StringAt(d, 53, AnnouncedName(h)) /\ OptionalAt(d, CreatedAt(h), h.created)
  /\ OptionalAt(d, ModifiedAt(h), h.modified) /\ OptionalAt(d, KeywordsAt(h), h.keywords)

\* The kind and the size stay where they are.
LEMMA FixedKept ==
  ASSUME NEW d, NEW e, Begins(d, e), NEW isFolder \in BOOLEAN, NEW size \in Nat,
         FixedHas(d, isFolder, size)
  PROVE  FixedHas(e, isFolder, size)
<1> DEFINE b2 == Number(Format(isFolder), 2)
           b4 == Number(size, 4)
<1>1. Len(b2) \in Nat
  <2>1. Format(isFolder) \in Nat  BY DEF Format
  <2>2. Len(b2) = 2  BY <2>1, NumberSeq
  <2>3. QED BY <2>2
<1>2. Len(b4) \in Nat
  <2>1. Len(b4) = 4  BY NumberSeq
  <2>2. QED BY <2>1
<1>3. Has(d, 4, b2) /\ Has(d, 8, b4)  BY DEF FixedHas
<1> HIDE DEF b2, b4
<1>4. Has(e, 4, b2) /\ Has(e, 8, b4)  BY <1>1, <1>2, <1>3, HasKept
<1>5. QED BY <1>4 DEF FixedHas, b2, b4

\* It takes less than 512 bytes.
LEMMA OptionalLenAre ==
  ASSUME NEW u \in Seq(CodeUnit), Len(u) < 255
  PROVE  OptionalLen(u) \in Nat /\ OptionalLen(u) < 512
<1> DEFINE n == Len(u)
<1>1. n \in Nat /\ n < 255  BY LenProperties
<1>2. OptionalLen(u) = IF u = <<>> THEN 1 ELSE 2 * n + 3  BY DEF OptionalLen
<1> HIDE DEF n
<1>3. QED BY <1>1, <1>2

\* The dataset of an announcement is as described.
LEMMA AnnouncedAre ==
  ASSUME NEW h \in Announcements
  PROVE  AnnouncedDataset(Announced(h), h)
<1> DEFINE fixed == Fixed(h.isFolder, h.size, 0)
           name == AnnouncedName(h)
           d1 == fixed \o String(name)
           d2 == d1 \o Optional(h.created)
           d3 == d2 \o Optional(h.modified)
           d4 == d3 \o Optional(h.keywords)
<1>1. /\ h.isFolder \in BOOLEAN /\ h.size \in Nat
      /\ name \in Seq(CodeUnit) /\ Len(name) < 255 /\ NameUnits(h.name) = name
      /\ h.created \in Seq(CodeUnit) /\ Len(h.created) < 255
      /\ h.modified \in Seq(CodeUnit) /\ Len(h.modified) < 255
      /\ h.keywords \in Seq(CodeUnit) /\ Len(h.keywords) < 255
  BY HeardAre DEF Sent
<1>2. Announced(h) = d4  BY <1>1 DEF Announced
<1>3. fixed \in Seq(Byte) /\ Len(fixed) = 52 /\ FixedHas(fixed, h.isFolder, h.size)
  <2>1. 0 \in Nat  OBVIOUS
  <2>2. QED BY <1>1, <2>1, FixedAre
<1> HIDE DEF fixed, name
<1>4. /\ d1 \in Seq(Byte) /\ Len(d1) = Len(fixed) + 2 * Len(name) + 3
      /\ StringAt(d1, Len(fixed) + 1, name)
  BY <1>1, <1>3, StringPut
<1>5. Begins(fixed, d1)
  <2>1. String(name) \in Seq(Byte)  BY <1>1, StringAre
  <2>2. QED BY <1>3, <2>1, BeginsAre
<1> HIDE DEF d1
<1>6. OptionalAdded(d1, d2, h.created)  BY <1>1, <1>4, OptionalPut
<1>7. d2 \in Seq(Byte)  BY <1>6 DEF OptionalAdded
<1> HIDE DEF d2
<1>8. OptionalAdded(d2, d3, h.modified)  BY <1>1, <1>7, OptionalPut
<1>9. d3 \in Seq(Byte)  BY <1>8 DEF OptionalAdded
<1> HIDE DEF d3
<1>10. OptionalAdded(d3, d4, h.keywords)  BY <1>1, <1>9, OptionalPut
<1> HIDE DEF d4
<1>11. /\ d4 \in Seq(Byte) /\ Begins(d1, d2) /\ Begins(d2, d3) /\ Begins(d3, d4)
       /\ OptionalAt(d2, Len(d1) + 1, h.created) /\ OptionalAt(d3, Len(d2) + 1, h.modified)
       /\ OptionalAt(d4, Len(d3) + 1, h.keywords)
       /\ Len(d2) = Len(d1) + OptionalLen(h.created)
       /\ Len(d3) = Len(d2) + OptionalLen(h.modified)
       /\ Len(d4) = Len(d3) + OptionalLen(h.keywords)
  BY <1>6, <1>8, <1>10 DEF OptionalAdded
<1>12. Begins(d2, d4) /\ Begins(d1, d4)  BY <1>11 DEF Begins
<1>13. Begins(fixed, d4)  BY <1>5, <1>12 DEF Begins
<1>14. FixedHas(d4, h.isFolder, h.size)  BY <1>1, <1>3, <1>13, FixedKept
<1>15. Len(name) \in Nat /\ Len(fixed) + 1 = 53 /\ Len(d1) = 55 + 2 * Len(name)
  BY <1>1, <1>3, <1>4, LenProperties
<1>16. StringAt(d4, 53, name)
  <2>1. StringAt(d1, 53, name)  BY <1>4, <1>15
  <2>2. QED BY <1>1, <1>12, <2>1, StringKept
<1>17. /\ OptionalLen(h.created) \in Nat /\ OptionalLen(h.created) < 512
       /\ OptionalLen(h.modified) \in Nat /\ OptionalLen(h.modified) < 512
       /\ OptionalLen(h.keywords) \in Nat /\ OptionalLen(h.keywords) < 512
  <2>1. \A u \in Seq(CodeUnit) : Len(u) < 255 => OptionalLen(u) \in Nat /\ OptionalLen(u) < 512
    BY OptionalLenAre
  <2>2. QED BY <1>1, <2>1
<1> DEFINE n == Len(name)
           a == OptionalLen(h.created)
           b == OptionalLen(h.modified)
           c == OptionalLen(h.keywords)
<1>18. /\ Len(d1) + 1 = CreatedAt(h) /\ Len(d2) + 1 = ModifiedAt(h)
       /\ Len(d3) + 1 = KeywordsAt(h) /\ Len(d4) <= 4096
  <2>1. /\ n \in Nat /\ n < 255 /\ a \in Nat /\ b \in Nat /\ c \in Nat
        /\ a < 512 /\ b < 512 /\ c < 512
    BY <1>1, <1>15, <1>17
  <2>2. /\ Len(d1) = 55 + 2 * n /\ Len(d2) = Len(d1) + a /\ Len(d3) = Len(d2) + b
        /\ Len(d4) = Len(d3) + c
    BY <1>11, <1>15
  <2>3. CreatedAt(h) = 56 + 2 * n /\ ModifiedAt(h) = (56 + 2 * n) + a
        /\ KeywordsAt(h) = (56 + 2 * n) + a + b
    BY DEF CreatedAt, ModifiedAt, KeywordsAt, name
  <2> HIDE DEF n, a, b, c
  <2>4. Len(d2) = 55 + 2 * n + a  BY <2>1, <2>2
  <2>5. Len(d3) = 55 + 2 * n + a + b  BY <2>1, <2>2, <2>4
  <2>6. QED BY <2>1, <2>2, <2>3, <2>4, <2>5
<1> HIDE DEF n, a, b, c
<1>19. OptionalAt(d4, CreatedAt(h), h.created)  BY <1>1, <1>11, <1>12, <1>18, OptionalKept
<1>20. OptionalAt(d4, ModifiedAt(h), h.modified)  BY <1>1, <1>11, <1>18, OptionalKept
<1>21. OptionalAt(d4, KeywordsAt(h), h.keywords)  BY <1>11, <1>18
<1>22. AnnouncedDataset(d4, h)
  BY <1>11, <1>14, <1>16, <1>18, <1>19, <1>20, <1>21 DEF AnnouncedDataset, name
<1>23. QED BY <1>2, <1>22

\* A date that may be left out, with another string after it.
LEMMA DateTaken ==
  ASSUME NEW d \in Seq(Byte), NEW place, NEW s \in Stamps \cup {<<>>}, OptionalAt(d, place, s),
         NEW u, Sent(u), OptionalAt(d, place + OptionalLen(s), u), NEW stale \in StaleBytes
  PROVE  TimeAt(d, place, stale) = IF s = <<>> THEN NoTime ELSE s
<1>1. place \in Nat \ {0}  BY DEF OptionalAt
<1>2. CASE s = <<>>
  <2>1. OptionalAt(d, place + 1, u)  BY <1>2 DEF OptionalLen
  <2>2. u \in Seq(CodeUnit) /\ ~Spells(u)  BY DEF Sent
  <2>3. stale \in Nat  BY SizeAssumption
  <2>4. TimeAt(d, place, stale) = NoTime  BY <1>1, <2>1, <2>2, <2>3, TimeAbsent
  <2>5. QED BY <1>2, <2>4
<1>3. CASE s # <<>>
  <2>1. s \in Stamps /\ StringAt(d, place, s)  BY <1>3 DEF OptionalAt
  <2>2. TimeAt(d, place, stale) = s  BY <2>1, TimeStamp
  <2>3. QED BY <1>3, <2>2
<1>4. QED BY <1>2, <1>3

\* What AnnouncedTaken says of what was made of an announcement.
Taken(m, h) ==
  /\ m.name = FittingName(h.name)
  /\ m.isFolder = h.isFolder /\ m.size = Number(h.size, 4)
  /\ m.accessed = IF h.created = <<>> THEN NoTime ELSE h.created
  /\ m.modified = IF h.modified = <<>> THEN NoTime ELSE h.modified

\* send_object_info makes what a host announced.
LEMMA AnnouncedMade ==
  ASSUME NEW h \in Announcements, NEW d, AnnouncedDataset(d, h), NEW stale \in StaleBytes
  PROVE  Taken(Understood(d, stale), h)
<1> DEFINE name == AnnouncedName(h)
           created == NextString(d, NamePlace)
           modified == NextString(d, created)
<1>1. /\ h.isFolder \in BOOLEAN /\ h.size \in Nat
      /\ h.name \in Seq(Characters) /\ \A i \in 1 .. Len(h.name) : HasUnit(h.name[i])
      /\ name \in Seq(CodeUnit)
      /\ h.created \in Stamps \cup {<<>>} /\ h.modified \in Stamps \cup {<<>>}
      /\ Sent(h.created) /\ Sent(h.modified) /\ Sent(h.keywords)
  BY HeardAre
<1>2. /\ d \in Seq(Byte) /\ FixedHas(d, h.isFolder, h.size)
      /\ StringAt(d, 53, name) /\ OptionalAt(d, CreatedAt(h), h.created)
      /\ OptionalAt(d, ModifiedAt(h), h.modified) /\ OptionalAt(d, KeywordsAt(h), h.keywords)
  BY DEF AnnouncedDataset
<1>3. Understood(d, stale)
        = [isFolder |-> NumberAt(d, 5, 2) = Number(Format(TRUE), 2),
           size |-> NumberAt(d, 9, 4),
           name |-> Utf8(UnitsAt(d, NamePlace), FilenameSize),
           accessed |-> TimeAt(d, created, stale),
           modified |-> TimeAt(d, modified, stale)]
  BY DEF Understood
<1> HIDE DEF name
<1>4. StringReads(d, 53, name)  BY <1>1, <1>2, StringRead
<1>5. Utf8(UnitsAt(d, NamePlace), FilenameSize) = FittingName(h.name)
  <2>1. UnitsAt(d, NamePlace) = UnitsOf(h.name, Len(h.name))
    BY <1>4 DEF StringReads, NamePlace, name, AnnouncedName
  <2>2. QED BY <1>1, <2>1, Utf8Are
<1>6. created = CreatedAt(h)
  <2>1. created = 53 + 2 * Len(name) + 3  BY <1>4 DEF StringReads, NamePlace
  <2>2. Len(name) \in Nat  BY <1>1, LenProperties
  <2>3. QED BY <2>1, <2>2 DEF CreatedAt, name
<1>7. modified = ModifiedAt(h)
  <2>1. h.created \in Seq(CodeUnit)  BY <1>1 DEF Sent
  <2>2. NextString(d, CreatedAt(h)) = CreatedAt(h) + OptionalLen(h.created)
    BY <1>2, <2>1, OptionalNext
  <2>3. QED BY <1>6, <2>2 DEF ModifiedAt
<1> HIDE DEF created, modified
<1>8. TimeAt(d, created, stale) = IF h.created = <<>> THEN NoTime ELSE h.created
  BY <1>1, <1>2, <1>6, DateTaken DEF ModifiedAt
<1>9. TimeAt(d, modified, stale) = IF h.modified = <<>> THEN NoTime ELSE h.modified
  BY <1>1, <1>2, <1>7, DateTaken DEF KeywordsAt
<1>10. /\ NumberAt(d, 9, 4) = Number(h.size, 4)
       /\ (NumberAt(d, 5, 2) = Number(Format(TRUE), 2)) = h.isFolder
  BY <1>1, <1>2, FixedRead
<1>11. /\ Understood(d, stale).name = FittingName(h.name)
       /\ Understood(d, stale).size = Number(h.size, 4)
       /\ Understood(d, stale).accessed = IF h.created = <<>> THEN NoTime ELSE h.created
       /\ Understood(d, stale).modified = IF h.modified = <<>> THEN NoTime ELSE h.modified
  BY <1>3, <1>5, <1>8, <1>9, <1>10
<1>12. Understood(d, stale).isFolder = h.isFolder
  <2>1. Understood(d, stale).isFolder = (NumberAt(d, 5, 2) = Number(Format(TRUE), 2))  BY <1>3
  <2>2. QED BY <1>10, <2>1
<1>13. QED BY <1>11, <1>12 DEF Taken

\* What CopyKept says of what was made of an ObjectInfo dataset.
Copied(m, o) ==
  LET name == o.name
  IN  /\ m.isFolder = o.isFolder /\ m.size = Number(o.size, 4)
      /\ FirstWithout(name) = 0 /\ Len(name) <= MostUnits => m.name = FittingName(name)
      /\ LeavesRoom(TellableUnits(name)) =>
           m.accessed = o.created /\ m.modified = o.modified

\* send_object_info makes a copy of what get_object_info told.
LEMMA CopyMade ==
  ASSUME NEW o \in Objects, NEW d, NEW at, NEW cuts, ObjectDataset(d, o, at, cuts),
         NEW stale \in StaleBytes
  PROVE  Copied(Understood(d, stale), o)
<1> DEFINE units == TellableUnits(o.name)
           created == NextString(d, NamePlace)
           modified == NextString(d, created)
<1>1. /\ CardName(o.name) /\ o.isFolder \in BOOLEAN /\ o.size \in Nat
      /\ o.created \in Stamps /\ o.modified \in Stamps
  BY ObjectsAre
<1>2. /\ d \in Seq(Byte) /\ StringsAt(d, at, cuts, 3) /\ at[0] = 53
      /\ FixedHas(d, o.isFolder, o.size)
      /\ cuts[1] = SubSeq(units, 1, Lesser(101, Len(units)))
      /\ LeavesRoom(units) => cuts[2] = o.created /\ cuts[3] = o.modified
  BY DEF ObjectDataset
<1>3. /\ cuts[1] \in Seq(CodeUnit) /\ cuts[2] \in Seq(CodeUnit)
      /\ StringAt(d, 53, cuts[1]) /\ StringAt(d, at[1], cuts[2]) /\ StringAt(d, at[2], cuts[3])
      /\ at[1] = 53 + 2 * Len(cuts[1]) + 3 /\ at[2] = at[1] + 2 * Len(cuts[2]) + 3
  <2> DEFINE Part(k, l) == /\ cuts[k] \in Seq(CodeUnit) /\ StringAt(d, at[l], cuts[k])
                           /\ at[k] = at[l] + 2 * Len(cuts[k]) + 3
  <2>1. \A k \in 1 .. 3 : Part(k, k - 1)  BY <1>2 DEF StringsAt
  <2>2. 1 - 1 = 0 /\ 2 - 1 = 1 /\ 3 - 1 = 2 /\ 1 \in 1 .. 3 /\ 2 \in 1 .. 3 /\ 3 \in 1 .. 3
    OBVIOUS
  <2> HIDE DEF Part
  <2>3. Part(1, 0) /\ Part(2, 1) /\ Part(3, 2)
    <3>1. Part(1, 1 - 1) /\ Part(2, 2 - 1) /\ Part(3, 3 - 1)  BY <2>1, <2>2
    <3>2. QED BY <2>2, <3>1
  <2>4. QED BY <1>2, <2>3 DEF Part
<1>4. StringReads(d, 53, cuts[1]) /\ StringReads(d, at[1], cuts[2])  BY <1>2, <1>3, StringRead
<1>5. created = at[1] /\ modified = at[2]
  <2>1. created = at[1]  BY <1>3, <1>4 DEF StringReads, NamePlace
  <2> HIDE DEF created
  <2>2. modified = at[2]  BY <1>3, <1>4, <2>1 DEF StringReads
  <2>3. QED BY <2>1, <2>2
<1>6. Understood(d, stale)
        = [isFolder |-> NumberAt(d, 5, 2) = Number(Format(TRUE), 2),
           size |-> NumberAt(d, 9, 4),
           name |-> Utf8(UnitsAt(d, NamePlace), FilenameSize),
           accessed |-> TimeAt(d, created, stale),
           modified |-> TimeAt(d, modified, stale)]
  BY DEF Understood
<1> HIDE DEF created, modified, units
<1>7. /\ NumberAt(d, 9, 4) = Number(o.size, 4)
      /\ (NumberAt(d, 5, 2) = Number(Format(TRUE), 2)) = o.isFolder
  BY <1>1, <1>2, FixedRead
<1>8. ASSUME FirstWithout(o.name) = 0, Len(o.name) <= MostUnits
      PROVE  Utf8(UnitsAt(d, NamePlace), FilenameSize) = FittingName(o.name)
  <2>1. o.name \in Seq(Characters)  BY <1>1 DEF CardName
  <2>2. Told(o.name) = Len(o.name)  BY <1>8 DEF Told
  <2>3. /\ \A i \in 1 .. Len(o.name) : HasUnit(o.name[i])
        /\ units \in Seq(CodeUnit) /\ Len(units) = Len(o.name)
        /\ units = UnitsOf(o.name, Len(o.name))
    BY <1>1, <2>2, ToldUnitsAre DEF units, ToldUnits
  <2>4. Lesser(101, Len(units)) = Len(units)
    <3>1. Len(units) \in Nat /\ Len(units) <= 101
      BY <1>8, <2>3, LenProperties DEF MostUnits
    <3>2. QED BY <3>1 DEF Lesser
  <2>5. SubSeq(units, 1, Len(units)) = units  BY <2>3, SubSeqFull
  <2>6. UnitsAt(d, NamePlace) = UnitsOf(o.name, Len(o.name))
    BY <1>2, <1>4, <2>3, <2>4, <2>5 DEF StringReads, NamePlace
  <2>7. QED BY <2>1, <2>3, <2>6, Utf8Are
<1>9. ASSUME LeavesRoom(units)
      PROVE  TimeAt(d, created, stale) = o.created /\ TimeAt(d, modified, stale) = o.modified
  <2>1. cuts[2] = o.created /\ cuts[3] = o.modified  BY <1>2, <1>9
  <2>2. StringAt(d, created, o.created) /\ StringAt(d, modified, o.modified)
    BY <1>3, <1>5, <2>1
  <2>3. TimeAt(d, created, stale) = o.created  BY <1>1, <1>2, <2>2, TimeStamp
  <2>4. TimeAt(d, modified, stale) = o.modified  BY <1>1, <1>2, <2>2, TimeStamp
  <2>5. QED BY <2>3, <2>4
<1>10. /\ Understood(d, stale).name = Utf8(UnitsAt(d, NamePlace), FilenameSize)
       /\ Understood(d, stale).size = Number(o.size, 4)
       /\ Understood(d, stale).accessed = TimeAt(d, created, stale)
       /\ Understood(d, stale).modified = TimeAt(d, modified, stale)
  BY <1>6, <1>7
<1>11. Understood(d, stale).isFolder = o.isFolder
  <2>1. Understood(d, stale).isFolder = (NumberAt(d, 5, 2) = Number(Format(TRUE), 2))  BY <1>6
  <2>2. QED BY <1>7, <2>1
<1>12. QED BY <1>8, <1>9, <1>10, <1>11 DEF Copied, units

-----------------------------------------------------------------------------
(***************************************************************************)
(* The invariant: what the buffer holds and what was made of it follow     *)
(* from the operation that was carried out last, the object it told of and *)
(* what the host announced.                                                *)
(***************************************************************************)

Sizes == {Zeros(8), [i \in 1 .. 8 |-> 255]}
AllSize == [i \in 1 .. 8 |-> 255]

Operations == {"none", "device", "ids", "storage", "object", "announced", "copied"}
Carried ==
  /\ op \in Operations
  /\ op = "none" => buff = <<>>
  /\ op = "device" => buff = DeviceInfo
  /\ op = "ids" => buff = StorageIds
  /\ op = "storage" => \E free \in Sizes : buff = StorageInfo(AllSize, free)
  /\ op \in {"object", "copied"} => object \in Objects /\ buff = ObjectInfo(object)
  /\ op = "announced" => heard \in Announcements /\ buff = Announced(heard)
  /\ op \in {"announced", "copied"} => \E stale \in StaleBytes : made = Understood(buff, stale)

\* Nothing was carried out at first.
LEMMA CarriedInit ==
  ASSUME Init
  PROVE  Carried
BY DEF Init, Carried, Operations

\* Each operation leaves its dataset and what it made.
LEMMA CarriedNext ==
  ASSUME Carried, [Next]_vars
  PROVE  Carried'
<1>1. CASE GetDeviceInfo  BY <1>1 DEF GetDeviceInfo, Tell, Carried, Operations
<1>2. CASE GetStorageIds  BY <1>2 DEF GetStorageIds, Tell, Carried, Operations
<1>3. CASE GetStorageInfo
  <2>1. PICK free \in Sizes :
          Tell("storage", StorageInfo(AllSize, free)) /\ object' = NoObject
    BY <1>3 DEF GetStorageInfo, Sizes, AllSize
  <2>2. op' = "storage" /\ buff' = StorageInfo(AllSize, free)  BY <2>1 DEF Tell
  <2>3. QED BY <2>2 DEF Carried, Operations
<1>4. CASE GetObjectInfo
  <2>1. PICK o \in Objects : Tell("object", ObjectInfo(o)) /\ object' = o
    BY <1>4 DEF GetObjectInfo
  <2>2. op' = "object" /\ buff' = ObjectInfo(object') /\ object' \in Objects  BY <2>1 DEF Tell
  <2>3. QED BY <2>2 DEF Carried, Operations
<1>5. CASE Announce
  <2>1. PICK h \in Announcements :
          op' = "announced" /\ heard' = h /\ SendObjectInfo(Announced(h))
    BY <1>5 DEF Announce
  <2>2. /\ op' = "announced" /\ heard' \in Announcements /\ buff' = Announced(heard')
        /\ \E stale \in StaleBytes : made' = Understood(buff', stale)
    BY <2>1 DEF SendObjectInfo
  <2>3. QED BY <2>2 DEF Carried, Operations
<1>6. CASE Copy
  <2>1. /\ op = "object" /\ op' = "copied" /\ object' = object /\ buff' = buff
        /\ \E stale \in StaleBytes : made' = Understood(buff', stale)
    BY <1>6 DEF Copy, SendObjectInfo
  <2>2. object' \in Objects /\ buff' = ObjectInfo(object')  BY <2>1 DEF Carried
  <2>3. QED BY <2>1, <2>2 DEF Carried, Operations
<1>7. CASE ReadRequest  BY <1>7 DEF ReadRequest, Carried, Operations
<1>8. CASE UNCHANGED vars  BY <1>8 DEF vars, Carried
<1>9. QED BY <1>1, <1>2, <1>3, <1>4, <1>5, <1>6, <1>7, <1>8 DEF Next

\* The invariant holds always.
LEMMA CarriedAlways == Spec => []Carried
<1>1. Init => Carried  BY CarriedInit
<1>2. Carried /\ [Next]_vars => Carried'  BY CarriedNext
<1>3. QED BY <1>1, <1>2, PTL DEF Spec

\* get_storage_ids: a count and one handle.
LEMMA IdsAre == StorageIds \in Seq(Byte) /\ Len(StorageIds) = 8
<1> DEFINE storage == 65537
           b1 == Number(1, 4)
           b2 == Number(storage, 4)
<1>1. b1 \in Seq(Byte) /\ Len(b1) = 4  BY NumberSeq
<1>2. b2 \in Seq(Byte) /\ Len(b2) = 4
  <2>1. storage \in Nat  OBVIOUS
  <2> HIDE DEF storage
  <2>2. QED BY <2>1, NumberSeq
<1>3. StorageIds = b1 \o b2  BY DEF StorageIds
<1> HIDE DEF b1, b2
<1>4. Puts(b1, b2, 4, 4)  BY <1>1, <1>2, PutsAre
<1>5. QED BY <1>3, <1>4 DEF Puts

\* get_storage_info with the sizes of the model.
LEMMA SizesAre ==
  ASSUME NEW free \in Sizes
  PROVE  StorageDataset(StorageInfo(AllSize, free))
<1> DEFINE n == 8
<1>1. n \in Nat  OBVIOUS
<1>2. AllSize \in Seq(Byte) /\ Len(AllSize) = 8
  <2>1. AllSize \in [1 .. n -> Byte]  BY DEF AllSize, Byte
  <2> HIDE DEF n
  <2>2. AllSize \in Seq(Byte) /\ Len(AllSize) = n  BY <1>1, <2>1, FunctionSeq
  <2>3. QED BY <2>2 DEF n
<1>3. Zeros(8) \in Seq(Byte) /\ Len(Zeros(8)) = 8
  <2> HIDE DEF n
  <2>1. Zeros(n) \in Seq(Byte) /\ Len(Zeros(n)) = n  BY <1>1, ZerosAre
  <2>2. QED BY <2>1 DEF n
<1>4. free = Zeros(8) \/ free = AllSize  BY DEF Sizes, AllSize
<1>5. free \in Seq(Byte) /\ Len(free) = 8  BY <1>2, <1>3, <1>4
<1>6. QED BY <1>2, <1>5, StorageInfoAre

\* A dataset of at most 4096 bytes fits.
LEMMA Fitting ==
  ASSUME buff \in Seq(Byte), Len(buff) <= 4096
  PROVE  HeadLen + Len(buff) <= BufferSize /\ \A i \in DOMAIN buff : buff[i] \in 0 .. 255
<1>1. Len(buff) \in Nat  BY LenProperties
<1>2. HeadLen + Len(buff) <= BufferSize  BY <1>1, SizeAssumption
<1>3. QED BY <1>2, BytesFit

\* Every dataset has at most 4096 bytes.
LEMMA CarriedFits ==
  ASSUME Carried
  PROVE  buff \in Seq(Byte) /\ Len(buff) <= 4096
<1>1. op \in Operations  BY DEF Carried
<1>2. CASE op = "none"
  <2>1. <<>> \in Seq(Byte) /\ Len(<<>>) = 0  OBVIOUS
  <2>2. QED BY <1>2, <2>1 DEF Carried
<1>3. CASE op = "device"
  <2>1. DeviceDataset(buff)  BY <1>3, DeviceInfoAre DEF Carried
  <2>2. QED BY <2>1 DEF DeviceDataset
<1>4. CASE op = "ids"
  <2>1. buff = StorageIds  BY <1>4 DEF Carried
  <2>2. QED BY <2>1, IdsAre
<1>5. CASE op = "storage"
  <2>1. StorageDataset(buff)  BY <1>5, SizesAre DEF Carried
  <2>2. QED BY <2>1 DEF StorageDataset
<1>6. CASE op \in {"object", "copied"}
  <2>1. object \in Objects /\ buff = ObjectInfo(object)  BY <1>6 DEF Carried
  <2>2. \E at, cuts : ObjectDataset(buff, object, at, cuts)  BY <2>1, ObjectInfoAre
  <2>3. QED BY <2>2 DEF ObjectDataset
<1>7. CASE op = "announced"
  <2>1. heard \in Announcements /\ buff = Announced(heard)  BY <1>7 DEF Carried
  <2>2. AnnouncedDataset(buff, heard)  BY <2>1, AnnouncedAre
  <2>3. QED BY <2>2 DEF AnnouncedDataset
<1>8. QED BY <1>1, <1>2, <1>3, <1>4, <1>5, <1>6, <1>7 DEF Operations

\* After get_object_info the buffer holds what a host can go through.
LEMMA CarriedObject ==
  ASSUME Carried, op = "object"
  PROVE  \E at, cuts : ObjectDataset(buff, object, at, cuts) /\ ObjectRead(object, at, cuts)
<1>1. object \in Objects /\ buff = ObjectInfo(object)  BY DEF Carried
<1>2. PICK at, cuts : ObjectDataset(buff, object, at, cuts)  BY <1>1, ObjectInfoAre
<1>3. ObjectRead(object, at, cuts)  BY <1>2, ObjectWalk
<1>4. QED BY <1>2, <1>3

\* The invariant implies WalkEnds.
LEMMA CarriedWalk ==
  ASSUME Carried
  PROVE  WalkEnds
<1>1. HeadLen + Len(buff) <= BufferSize /\ \A i \in DOMAIN buff : buff[i] \in 0 .. 255
  BY CarriedFits, Fitting
<1>2. ASSUME op = "object"
      PROVE  /\ \A k \in 0 .. 2 : WholeAt(NextTimes(k, NamePlace))
             /\ NextTimes(3, NamePlace) = Len(buff) /\ Last(buff) = 0
  BY <1>2, CarriedObject DEF ObjectRead, NamePlace
<1>3. ASSUME op = "device"
      PROVE  LET arrays == HostNext(9) + 2
                 texts == AfterArray(AfterArray(AfterArray(AfterArray(AfterArray(arrays)))))
             IN  /\ TextsAt(<<ExtensionText>>, 9) /\ TextsAt(DeviceTexts, texts)
                 /\ NextTimes(4, texts) = Len(buff) + 1
  <2>1. DeviceDataset(buff)  BY <1>3, DeviceInfoAre DEF Carried
  <2>2. QED BY <2>1, DeviceWalk DEF DeviceRead
<1>4. ASSUME op = "storage"
      PROVE  TextsAt(StorageTexts, 27) /\ NextTimes(2, 27) = Len(buff) + 1
  <2>1. StorageDataset(buff)  BY <1>4, SizesAre DEF Carried
  <2>2. QED BY <2>1, StorageWalk
<1>5. QED BY <1>1, <1>2, <1>3, <1>4 DEF WalkEnds

\* The invariant implies ObjectTold.
LEMMA CarriedTold ==
  ASSUME Carried
  PROVE  ObjectTold
<1>1. SUFFICES ASSUME op = "object" PROVE ObjectTold  BY DEF ObjectTold
<1> DEFINE units == TellableUnits(object.name)
<1>2. PICK at, cuts : ObjectDataset(buff, object, at, cuts) /\ ObjectRead(object, at, cuts)
  BY <1>1, CarriedObject
<1>3. Len(units) \in Nat
  <2>1. object \in Objects  BY <1>1 DEF Carried
  <2>2. QED BY <2>1, ObjectsAre, NameTells
<1>4. /\ cuts[1] = SubSeq(units, 1, Lesser(101, Len(units)))
      /\ LeavesRoom(units) => cuts[2] = object.created /\ cuts[3] = object.modified
  BY <1>2 DEF ObjectDataset
<1>5. /\ UnitsAt(buff, 53) = cuts[1]
      /\ UnitsAt(buff, NextTimes(1, 53)) = cuts[2] /\ UnitsAt(buff, NextTimes(2, 53)) = cuts[3]
  BY <1>2 DEF ObjectRead
<1> DEFINE size == Len(units)
<1>6. Lesser(101, size) = IF size < MostUnits THEN size ELSE MostUnits
  <2>1. size \in Nat  BY <1>3
  <2> HIDE DEF size
  <2>2. QED BY <2>1 DEF Lesser, MostUnits
<1>7. UnitsAt(buff, NamePlace)
        = SubSeq(units, 1, IF Len(units) < MostUnits THEN Len(units) ELSE MostUnits)
  BY <1>4, <1>5, <1>6 DEF NamePlace
<1>8. LeavesRoom(units) => ToldDates
  BY <1>4, <1>5 DEF ToldDates, NamePlace
<1>9. QED BY <1>7, <1>8 DEF ObjectTold

\* The invariant implies AnnouncedTaken.
LEMMA CarriedTaken ==
  ASSUME Carried
  PROVE  AnnouncedTaken
<1>1. SUFFICES ASSUME op = "announced" PROVE Taken(made, heard)
  BY DEF AnnouncedTaken, Taken
<1>2. heard \in Announcements /\ buff = Announced(heard)  BY <1>1 DEF Carried
<1>3. PICK stale \in StaleBytes : made = Understood(buff, stale)  BY <1>1 DEF Carried
<1>4. AnnouncedDataset(buff, heard)  BY <1>2, AnnouncedAre
<1>5. QED BY <1>2, <1>3, <1>4, AnnouncedMade

\* The invariant implies CopyKept.
LEMMA CarriedCopy ==
  ASSUME Carried
  PROVE  CopyKept
<1>1. SUFFICES ASSUME op = "copied" PROVE Copied(made, object)  BY DEF CopyKept, Copied
<1>2. object \in Objects /\ buff = ObjectInfo(object)  BY <1>1 DEF Carried
<1>3. PICK stale \in StaleBytes : made = Understood(buff, stale)  BY <1>1 DEF Carried
<1>4. PICK at, cuts : ObjectDataset(buff, object, at, cuts)  BY <1>2, ObjectInfoAre
<1>5. QED BY <1>2, <1>3, <1>4, CopyMade

-----------------------------------------------------------------------------
(* Theorems. *)

\* Every dataset of the responder fits the buffer (get_device_info, get_storage_ids,
\* get_storage_info, get_object_info), and a host that goes by the counts finds the end
\* of each string where it is and comes out where the dataset ends: for every name,
\* date and size.
THEOREM DatasetsWalkEnds == Spec => []WalkEnds
<1>1. Carried => WalkEnds  BY CarriedWalk
<1>2. QED BY <1>1, CarriedAlways, PTL

\* The host is told a name of any length up to its first character without a unit,
\* whole as far as 101 units, and both dates after at most 68 units (get_object_info,
\* esp_mtp_utf8_to_utf16, esp_mtp_time_to_utf16_datatime).
THEOREM DatasetsObjectTold == Spec => []ObjectTold
<1>1. Carried => ObjectTold  BY CarriedTold
<1>2. QED BY <1>1, CarriedAlways, PTL

\* send_object_info makes what the host announced: the longest part of the name in
\* whole characters that fits, size, kind and dates, whatever bytes follow the dataset.
THEOREM DatasetsAnnouncedTaken == Spec => []AnnouncedTaken
<1>1. Carried => AnnouncedTaken  BY CarriedTaken
<1>2. QED BY <1>1, CarriedAlways, PTL

\* An object that is announced as it was told is made again with its name, size, kind
\* and dates: the two conversions of names and of dates undo each other.
THEOREM DatasetsCopyKept == Spec => []CopyKept
<1>1. Carried => CopyKept  BY CarriedCopy
<1>2. QED BY <1>1, CarriedAlways, PTL
=============================================================================
