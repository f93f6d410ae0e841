--------------------------- MODULE MtpStoreProofs ---------------------------
(***************************************************************************)
(* Proofs about MtpStore, for every card and every session: handles and    *)
(* listings agree with the card.                                           *)
(*                                                                         *)
(* PathOf is defined by recursion over the entries, and that a recursive   *)
(* definition has a value is shown by induction over data.  Here the steps *)
(* of the responder are the induction: that exactly one function fits the  *)
(* definition is an invariant, kept by every step that adds entries.       *)
(***************************************************************************)
EXTENDS MtpStore, FiniteSetTheorems, SequenceTheorems, TLAPS

-----------------------------------------------------------------------------
(***************************************************************************)
(* The induction invariants.                                               *)
(***************************************************************************)

Handles == 0 .. Len(entries)
EntryType == [parent : Nat, name : Names]

\* The card is a tree of finitely many objects; parents come before their children.
Types ==
  /\ IsTree([files |-> files, folders |-> folders]) /\ IsFiniteSet(Objects)
  /\ entries \in Seq(EntryType) /\ Len(entries) <= MaxEntries
  /\ \A i \in 1 .. Len(entries) : entries[i].parent < i
  /\ reply.handles \subseteq 1 .. Len(entries) /\ reply.of \in Nat
  /\ reply.ok => reply.of \in Handles
  /\ dropped \subseteq 1 .. Len(entries) /\ revived \in BOOLEAN

\* What find's recursion asks of a function from the handles to their paths.
Fits(list, f) ==
  f = [h \in 0 .. Len(list) |->
         IF h = 0 THEN <<>> ELSE Append(f[list[h].parent], list[h].name)]

\* Exactly one function does, and its values are paths.
OneFits(list) ==
  /\ \E f : Fits(list, f)
  /\ \A f, g : Fits(list, f) /\ Fits(list, g) => f = g
OnePath ==
  /\ OneFits(entries)
  /\ \A h \in Handles : PathOf[h] \in Seq(Names)

\* While the host leaves the handles of deleted objects alone: an object has one handle,
\* a live entry is in a live folder, and a folder of which the list has a child has all
\* of them there, but for the folders known in part.
Live == 1 .. Len(entries) \ dropped
OneHandle == \A i, j \in Live : PathOf[i] = PathOf[j] => i = j
ParentsLive == \A i \in Live : entries[i].parent \notin dropped
Known(h) == {i \in 1 .. Len(entries) : entries[i].parent = h}
Whole(h) == \A p \in Children(PathOf[h]) : \E i \in Known(h) \ dropped : PathOf[i] = p
WholeFolders ==
  \A h \in Handles \ (dropped \cup partial) : Known(h) # {} => Whole(h)

TreeInv == Types /\ OnePath
Order == OneHandle /\ ParentsLive /\ WholeFolders
ListInv == TreeInv /\ HandleValid /\ (~revived => Order)

-----------------------------------------------------------------------------
(* Paths. *)

LEMMA PathAppend ==
  ASSUME NEW s \in Seq(Names), NEW x \in Names
  PROVE  /\ Append(s, x) \in Seq(Names) /\ Append(s, x) # <<>>
         /\ Len(Append(s, x)) = Len(s) + 1
         /\ Front(Append(s, x)) = s /\ Last(Append(s, x)) = x
<1> DEFINE t == Append(s, x)
<1>1. /\ t \in Seq(Names) /\ Len(t) = Len(s) + 1 /\ Len(s) \in Nat /\ t[Len(t)] = x
      /\ \A i \in 1 .. Len(s) : t[i] = s[i]
  OBVIOUS
<1> HIDE DEF t
<1>2. Last(t) = x  BY <1>1 DEF Last
<1>3. \A i \in 1 .. Len(s) : t[i] \in Names  BY <1>1
<1>4. /\ SubSeq(t, 1, Len(s)) \in Seq(Names) /\ Len(SubSeq(t, 1, Len(s))) = Len(s)
      /\ \A i \in 1 .. Len(s) : SubSeq(t, 1, Len(s))[i] = t[i]
  <2>1. /\ SubSeq(t, 1, Len(s)) \in Seq(Names)
        /\ Len(SubSeq(t, 1, Len(s))) = IF 1 <= Len(s) THEN Len(s) - 1 + 1 ELSE 0
        /\ \A i \in 1 .. Len(s) - 1 + 1 : SubSeq(t, 1, Len(s))[i] = t[1 + i - 1]
    BY <1>1, <1>3, SubSeqProperties
  <2>2. QED BY <1>1, <2>1
<1>5. SubSeq(t, 1, Len(s)) = s
  <2>1. \A i \in 1 .. Len(SubSeq(t, 1, Len(s))) : SubSeq(t, 1, Len(s))[i] = s[i]
    BY <1>1, <1>4
  <2>2. QED BY <1>4, <2>1, SeqEqual
<1>6. Len(t) - 1 = Len(s)  BY <1>1
<1>7. Front(t) = s  BY <1>5, <1>6 DEF Front
<1>8. t # <<>>  BY <1>1
<1>9. QED BY <1>1, <1>2, <1>7, <1>8 DEF t

LEMMA PathSplit ==
  ASSUME NEW p \in Seq(Names), p # <<>>
  PROVE  /\ Front(p) \in Seq(Names) /\ Last(p) \in Names
         /\ p = Append(Front(p), Last(p))
         /\ Len(Front(p)) = Len(p) - 1 /\ Len(p) \in Nat \ {0}
         /\ \A i \in 1 .. Len(p) - 1 : Front(p)[i] = p[i]
<1>1. Len(p) \in Nat \ {0} /\ \A i \in 1 .. Len(p) : p[i] \in Names
  BY EmptySeq, ElementOfSeq
<1> DEFINE n == Len(p) - 1
<1>2. n \in Nat /\ \A i \in 1 .. n : p[i] \in Names  BY <1>1
<1>3. /\ SubSeq(p, 1, n) \in Seq(Names) /\ Len(SubSeq(p, 1, n)) = n
      /\ \A i \in 1 .. n : SubSeq(p, 1, n)[i] = p[i]
  <2> HIDE DEF n
  <2>1. /\ SubSeq(p, 1, n) \in Seq(Names)
        /\ Len(SubSeq(p, 1, n)) = IF 1 <= n THEN n - 1 + 1 ELSE 0
        /\ \A i \in 1 .. n - 1 + 1 : SubSeq(p, 1, n)[i] = p[1 + i - 1]
    BY <1>2, SubSeqProperties
  <2>2. QED BY <1>2, <2>1
<1>4. /\ Front(p) \in Seq(Names) /\ Len(Front(p)) = n /\ Last(p) \in Names
      /\ Last(p) = p[Len(p)] /\ \A i \in 1 .. n : Front(p)[i] = p[i]
  BY <1>1, <1>3 DEF Front, Last
<1>5. p = Append(Front(p), Last(p))
  <2> DEFINE f == Front(p)
             x == Last(p)
             t == Append(f, x)
  <2>1. f \in Seq(Names) /\ x \in Names /\ Len(f) = n  BY <1>4
  <2>2. /\ t \in Seq(Names) /\ Len(t) = n + 1 /\ t[n + 1] = x
        /\ \A i \in 1 .. n : t[i] = f[i]
    <3> HIDE DEF f, x
    <3>1. QED BY <1>2, <2>1
  <2>3. Len(p) = n + 1  BY <1>1
  <2>4. \A i \in 1 .. Len(p) : p[i] = t[i]
    <3> HIDE DEF n, t
    <3>1. QED BY <1>2, <1>4, <2>2, <2>3
  <2> HIDE DEF t, n
  <2>5. p = t  BY <2>2, <2>3, <2>4, SeqEqual
  <2>6. QED BY <2>5 DEF t
<1>6. QED BY <1>1, <1>4, <1>5

\* A path starts with another one if the first names are the same.
LEMMA PrefixIff ==
  ASSUME NEW s \in Seq(Names), NEW t \in Seq(Names)
  PROVE  IsPrefix(s, t) <=> /\ Len(s) <= Len(t)
                            /\ \A i \in 1 .. Len(s) : s[i] = t[i]
<1>1. Len(s) \in Nat /\ Len(t) \in Nat  OBVIOUS
<1>2. SubSeq(s, 1, Len(s)) = s  BY SubSeqFull
<1>3. ASSUME Len(s) <= Len(t)
      PROVE  /\ SubSeq(t, 1, Len(s)) \in Seq(Names) /\ Len(SubSeq(t, 1, Len(s))) = Len(s)
             /\ \A i \in 1 .. Len(s) : SubSeq(t, 1, Len(s))[i] = t[i]
  <2>1. \A i \in 1 .. Len(s) : t[i] \in Names  BY <1>1, <1>3, ElementOfSeq
  <2>2. /\ SubSeq(t, 1, Len(s)) \in Seq(Names)
        /\ Len(SubSeq(t, 1, Len(s))) = IF 1 <= Len(s) THEN Len(s) - 1 + 1 ELSE 0
        /\ \A i \in 1 .. Len(s) - 1 + 1 : SubSeq(t, 1, Len(s))[i] = t[1 + i - 1]
    BY <1>1, <2>1, SubSeqProperties
  <2>3. QED BY <1>1, <2>2
<1>4. ASSUME Len(s) <= Len(t), \A i \in 1 .. Len(s) : s[i] = t[i]
      PROVE  IsPrefix(s, t)
  <2> DEFINE u == SubSeq(t, 1, Len(s))
  <2>1. u \in Seq(Names) /\ Len(s) = Len(u) /\ \A i \in 1 .. Len(s) : s[i] = u[i]
    BY <1>3, <1>4
  <2> HIDE DEF u
  <2>2. s = u  BY <2>1, SeqEqual
  <2>3. QED BY <1>2, <1>4, <2>2 DEF IsPrefix, u
<1>5. ASSUME IsPrefix(s, t)
      PROVE  Len(s) <= Len(t) /\ \A i \in 1 .. Len(s) : s[i] = t[i]
  BY <1>2, <1>3, <1>5 DEF IsPrefix
<1>6. QED BY <1>4, <1>5

LEMMA PrefixTrans ==
  ASSUME NEW s \in Seq(Names), NEW t \in Seq(Names), NEW u \in Seq(Names),
         IsPrefix(s, t), IsPrefix(t, u)
  PROVE  IsPrefix(s, u)
<1>1. /\ Len(s) <= Len(t) /\ \A i \in 1 .. Len(s) : s[i] = t[i]
      /\ Len(t) <= Len(u) /\ \A i \in 1 .. Len(t) : t[i] = u[i]
  BY PrefixIff
<1>2. Len(s) \in Nat /\ Len(t) \in Nat /\ Len(u) \in Nat  OBVIOUS
<1>3. Len(s) <= Len(u) /\ \A i \in 1 .. Len(s) : s[i] = u[i]  BY <1>1, <1>2
<1>4. QED BY <1>3, PrefixIff

LEMMA PrefixFront ==
  ASSUME NEW p \in Seq(Names), p # <<>>
  PROVE  IsPrefix(Front(p), p)
<1>1. /\ Front(p) \in Seq(Names) /\ Len(Front(p)) = Len(p) - 1 /\ Len(p) \in Nat \ {0}
      /\ \A i \in 1 .. Len(p) - 1 : Front(p)[i] = p[i]
  BY PathSplit
<1>2. Len(Front(p)) <= Len(p) /\ \A i \in 1 .. Len(Front(p)) : Front(p)[i] = p[i]
  BY <1>1
<1>3. QED BY <1>1, <1>2, PrefixIff

LEMMA PathsLong ==
  /\ \A p \in Paths : p \in Seq(Names) /\ p # <<>> /\ Len(p) <= MaxDepth + 1
  /\ \A p \in Seq(Names) : p # <<>> /\ Len(p) <= MaxDepth + 1 => p \in Paths
<1>1. MaxDepth \in Nat  BY SizeAssumption
<1>2. ASSUME NEW p \in Paths
      PROVE  p \in Seq(Names) /\ p # <<>> /\ Len(p) <= MaxDepth + 1
  <2>1. PICK n \in 1 .. MaxDepth + 1 : p \in [1 .. n -> Names]  BY <1>2 DEF Paths
  <2>2. p \in Seq(Names) /\ Len(p) = n  BY <1>1, <2>1, SeqDef
  <2>3. QED BY <1>1, <2>2
<1>3. ASSUME NEW p \in Seq(Names), p # <<>>, Len(p) <= MaxDepth + 1
      PROVE  p \in Paths
  <2>1. Len(p) \in 1 .. MaxDepth + 1 /\ p \in [1 .. Len(p) -> Names]
    <3>1. Len(p) \in Nat \ {0}  BY <1>3, EmptySeq
    <3>2. QED BY <1>1, <1>3, <3>1, LenProperties
  <2>2. QED BY <2>1 DEF Paths
<1>4. QED BY <1>2, <1>3

-----------------------------------------------------------------------------
(* The recursion over the entries. *)

\* What the list is asked for: parents come first.
IsList(list) ==
  /\ list \in Seq(EntryType)
  /\ \A i \in 1 .. Len(list) : list[i].parent < i

LEMMA ListEntry ==
  ASSUME NEW list, IsList(list), NEW i \in 1 .. Len(list)
  PROVE  /\ list[i].parent \in 0 .. Len(list) /\ list[i].parent < i /\ list[i].name \in Names
         /\ Len(list) \in Nat
<1>1. list[i] \in EntryType /\ Len(list) \in Nat /\ list[i].parent < i
  BY ElementOfSeq DEF IsList
<1>2. QED BY <1>1 DEF EntryType

LEMMA FitsAt ==
  ASSUME NEW list, NEW f, Fits(list, f)
  PROVE  /\ 0 \in 0 .. Len(list) => f[0] = <<>>
         /\ \A h \in 0 .. Len(list) :
              h # 0 => f[h] = Append(f[list[h].parent], list[h].name)
<1>1. f = [h \in 0 .. Len(list) |->
             IF h = 0 THEN <<>> ELSE Append(f[list[h].parent], list[h].name)]
  BY DEF Fits
<1> DEFINE e(h) == IF h = 0 THEN <<>> ELSE Append(f[list[h].parent], list[h].name)
<1>2. \A h \in 0 .. Len(list) : f[h] = e(h)
  <2> HIDE DEF e
  <2>1. f = [h \in 0 .. Len(list) |-> e(h)]  BY <1>1 DEF e
  <2>2. QED BY <2>1
<1>3. QED BY <1>2

LEMMA FitsNothing ==
  /\ OneFits(<<>>)
  /\ \A f : Fits(<<>>, f) => f[0] = <<>>
<1>1. 0 .. Len(<<>>) = {0}  OBVIOUS
<1>2. \A f : Fits(<<>>, f) <=> f = [h \in {0} |-> <<>>]
  <2>1. SUFFICES ASSUME NEW f PROVE Fits(<<>>, f) <=> f = [h \in {0} |-> <<>>]
    OBVIOUS
  <2>2. [h \in {0} |-> IF h = 0 THEN <<>> ELSE Append(f[<<>>[h].parent], <<>>[h].name)]
        = [h \in {0} |-> <<>>]
    OBVIOUS
  <2>3. QED BY <1>1, <2>2 DEF Fits
<1>3. QED BY <1>2 DEF OneFits

\* The first entries decide about the first paths.
LEMMA FitsFirst ==
  ASSUME NEW list, NEW longer, IsList(list), IsList(longer), Len(list) <= Len(longer),
         \A i \in 1 .. Len(list) : longer[i] = list[i],
         NEW f, Fits(longer, f)
  PROVE  Fits(list, [h \in 0 .. Len(list) |-> f[h]])
<1>1. Len(list) \in Nat /\ Len(longer) \in Nat  BY DEF IsList
<1> DEFINE g == [h \in 0 .. Len(list) |-> f[h]]
<1>2. \A h \in 0 .. Len(list) :
        g[h] = IF h = 0 THEN <<>> ELSE Append(g[list[h].parent], list[h].name)
  <2>1. SUFFICES ASSUME NEW h \in 0 .. Len(list)
                 PROVE  g[h] = IF h = 0 THEN <<>> ELSE Append(g[list[h].parent], list[h].name)
    OBVIOUS
  <2>2. h \in 0 .. Len(longer) /\ 0 \in 0 .. Len(longer) /\ g[h] = f[h]  BY <1>1
  <2>3. CASE h = 0  BY <2>2, <2>3, FitsAt
  <2>4. CASE h # 0
    <3>1. h \in 1 .. Len(list)  BY <1>1, <2>4
    <3>2. list[h].parent \in 0 .. Len(list) /\ longer[h] = list[h]  BY <3>1, ListEntry
    <3>3. f[h] = Append(f[list[h].parent], list[h].name)  BY <2>2, <2>4, <3>2, FitsAt
    <3>4. g[list[h].parent] = f[list[h].parent]  BY <3>2
    <3>5. QED BY <2>2, <2>4, <3>3, <3>4
  <2>5. QED BY <2>3, <2>4
<1>3. g = [h \in 0 .. Len(list) |-> g[h]]  OBVIOUS
<1>4. QED
  <2> HIDE DEF g
  <2>1. g = [h \in 0 .. Len(list) |->
               IF h = 0 THEN <<>> ELSE Append(g[list[h].parent], list[h].name)]
    BY <1>2, <1>3
  <2>2. Fits(list, g)  BY <2>1 DEF Fits
  <2>3. QED BY <2>2 DEF g

\* Entries in folders the list knows are added, and the function grows with the list.
Grows(list, longer) ==
  /\ IsList(list) /\ IsList(longer) /\ Len(list) <= Len(longer)
  /\ \A i \in 1 .. Len(list) : longer[i] = list[i]
  /\ \A i \in Len(list) + 1 .. Len(longer) : longer[i].parent <= Len(list)
PathsGrow(list, longer) ==
  \A f, g : Fits(list, f) /\ Fits(longer, g) =>
    /\ \A h \in 0 .. Len(list) : g[h] = f[h]
    /\ \A h \in Len(list) + 1 .. Len(longer) :
         g[h] = Append(f[longer[h].parent], longer[h].name)

LEMMA FitsLonger ==
  ASSUME NEW list, NEW longer, Grows(list, longer), OneFits(list)
  PROVE  OneFits(longer) /\ PathsGrow(list, longer)
<1>0. /\ IsList(list) /\ IsList(longer) /\ Len(list) <= Len(longer)
      /\ \A i \in 1 .. Len(list) : longer[i] = list[i]
      /\ \A i \in Len(list) + 1 .. Len(longer) : longer[i].parent <= Len(list)
      /\ \E f : Fits(list, f)
  BY DEF Grows, OneFits
<1>1. Len(list) \in Nat /\ Len(longer) \in Nat  BY <1>0 DEF IsList
<1>2. ASSUME NEW f, NEW g, Fits(list, f), Fits(longer, g)
      PROVE  /\ \A h \in 0 .. Len(list) : g[h] = f[h]
             /\ \A h \in Len(list) + 1 .. Len(longer) :
                  g[h] = Append(f[longer[h].parent], longer[h].name)
  <2> DEFINE r == [h \in 0 .. Len(list) |-> g[h]]
  <2>1. Fits(list, r)  BY <1>0, <1>2, FitsFirst
  <2>2. r = f
    <3> HIDE DEF r
    <3>1. QED BY <1>2, <2>1 DEF OneFits
  <2>3. \A h \in 0 .. Len(list) : g[h] = f[h]  BY <2>2
  <2>4. ASSUME NEW h \in Len(list) + 1 .. Len(longer)
        PROVE  g[h] = Append(f[longer[h].parent], longer[h].name)
    <3>1. h \in 0 .. Len(longer) /\ h # 0 /\ h \in 1 .. Len(longer)  BY <1>1
    <3>2. longer[h].parent \in 0 .. Len(longer)  BY <1>0, <3>1, ListEntry
    <3>3. longer[h].parent \in 0 .. Len(list)  BY <1>0, <1>1, <3>2
    <3>4. g[h] = Append(g[longer[h].parent], longer[h].name)  BY <1>2, <3>1, FitsAt
    <3>5. QED BY <2>3, <3>3, <3>4
  <2>5. QED BY <2>3, <2>4
<1>3. PICK f : Fits(list, f)  BY <1>0
<1>4. ASSUME NEW g, NEW k, Fits(longer, g), Fits(longer, k)  PROVE g = k
  <2>1. \A h \in 0 .. Len(longer) : g[h] = k[h]
    <3>1. \A h \in 0 .. Len(list) : g[h] = f[h] /\ k[h] = f[h]  BY <1>2, <1>3, <1>4
    <3>2. ASSUME NEW h \in Len(list) + 1 .. Len(longer)  PROVE g[h] = k[h]
      <4>1. g[h] = Append(f[longer[h].parent], longer[h].name)  BY <1>2, <1>3, <1>4
      <4>2. k[h] = Append(f[longer[h].parent], longer[h].name)  BY <1>2, <1>3, <1>4
      <4>3. QED BY <4>1, <4>2
    <3>3. \A h \in 0 .. Len(longer) : h \in 0 .. Len(list) \/ h \in Len(list) + 1 .. Len(longer)
      BY <1>1
    <3>4. QED BY <3>1, <3>2, <3>3
  <2>2. g = [h \in 0 .. Len(longer) |-> g[h]] /\ k = [h \in 0 .. Len(longer) |-> k[h]]
    BY <1>4 DEF Fits
  <2>3. QED BY <2>1, <2>2
<1>5. \E g : Fits(longer, g)
  <2> DEFINE g == [h \in 0 .. Len(longer) |->
                     IF h <= Len(list) THEN f[h]
                     ELSE Append(f[longer[h].parent], longer[h].name)]
  <2>1. \A h \in 0 .. Len(longer) :
          g[h] = IF h = 0 THEN <<>> ELSE Append(g[longer[h].parent], longer[h].name)
    <3>1. SUFFICES ASSUME NEW h \in 0 .. Len(longer)
                   PROVE  g[h] = IF h = 0 THEN <<>>
                                 ELSE Append(g[longer[h].parent], longer[h].name)
      OBVIOUS
    <3>2. CASE h = 0
      <4>1. g[h] = f[0] /\ 0 \in 0 .. Len(list)  BY <1>1, <3>2
      <4>2. QED BY <1>3, <3>2, <4>1, FitsAt
    <3>3. CASE h # 0
      <4>1. h \in 1 .. Len(longer)  BY <1>1, <3>3
      <4>2. longer[h].parent \in 0 .. Len(longer) /\ longer[h].parent < h
        BY <1>0, <4>1, ListEntry
      <4>3. longer[h].parent \in 0 .. Len(list)
        <5>1. CASE h <= Len(list)  BY <1>1, <4>1, <4>2, <5>1
        <5>2. CASE ~(h <= Len(list))
          <6>1. h \in Len(list) + 1 .. Len(longer)  BY <1>1, <4>1, <5>2
          <6>2. QED BY <1>0, <1>1, <4>2, <6>1
        <5>3. QED BY <5>1, <5>2
      <4>4. g[longer[h].parent] = f[longer[h].parent]  BY <1>1, <4>2, <4>3
      <4>5. g[h] = Append(f[longer[h].parent], longer[h].name)
        <5>1. CASE h <= Len(list)
          <6>1. h \in 1 .. Len(list) /\ h \in 0 .. Len(list) /\ g[h] = f[h]
            BY <1>1, <4>1, <5>1
          <6>2. longer[h] = list[h]  BY <1>0, <6>1
          <6>3. f[h] = Append(f[list[h].parent], list[h].name)  BY <1>3, <3>3, <6>1, FitsAt
          <6>4. QED BY <6>1, <6>2, <6>3
        <5>2. CASE ~(h <= Len(list))  BY <5>2
        <5>3. QED BY <5>1, <5>2
      <4>6. QED BY <3>3, <4>4, <4>5
    <3>4. QED BY <3>2, <3>3
  <2>2. g = [h \in 0 .. Len(longer) |-> g[h]]  OBVIOUS
  <2> HIDE DEF g
  <2>3. g = [h \in 0 .. Len(longer) |->
               IF h = 0 THEN <<>> ELSE Append(g[longer[h].parent], longer[h].name)]
    BY <2>1, <2>2
  <2>4. QED BY <2>3 DEF Fits
<1>6. QED BY <1>2, <1>4, <1>5 DEF OneFits, PathsGrow

LEMMA PathFits == ASSUME OnePath PROVE Fits(entries, PathOf)
<1>1. QED BY DEF OnePath, OneFits, Fits, PathOf

-----------------------------------------------------------------------------
(* Entries are added. *)

LEMMA ParentFits ==
  ASSUME NEW h \in Nat
  PROVE  /\ h % ParentRange \in 0 .. h
         /\ h < ParentRange => h % ParentRange = h
<1>1. ParentRange \in Nat \ {0}  BY SizeAssumption
<1>2. h % ParentRange \in Nat /\ h = ParentRange * (h \div ParentRange) + (h % ParentRange)
      /\ h \div ParentRange \in Nat
  BY <1>1
<1>3. PICK k \in Nat, r \in Nat : h % ParentRange = r /\ h = ParentRange * k + r
  BY <1>2
<1>4. ParentRange * k \in Nat  BY <1>1
<1>5. r <= h  BY <1>3, <1>4
<1>6. h < ParentRange => h % ParentRange = h  BY <1>1
<1>7. QED BY <1>3, <1>5, <1>6

\* The list has grown by entries of these names in folder h.
Added(h, names) ==
  /\ h \in Handles /\ names \in Seq(Names)
  /\ entries' \in Seq(EntryType) /\ Len(entries') = Len(entries) + Len(names)
  /\ \A i \in 1 .. Len(entries) : entries'[i] = entries[i]
  /\ \A k \in 1 .. Len(names) : entries'[Len(entries) + k] = Entry(h, names[k])

LEMMA EntryTyped ==
  ASSUME NEW h \in Nat, NEW name \in Names
  PROVE  /\ Entry(h, name) \in EntryType
         /\ Entry(h, name).parent = h % ParentRange /\ Entry(h, name).name = name
<1>1. h % ParentRange \in Nat  BY ParentFits
<1>2. QED BY <1>1 DEF Entry, EntryType

LEMMA NamesAdded ==
  ASSUME entries \in Seq(EntryType), NEW h \in Handles, NEW names \in Seq(Names),
         entries' = entries \o [k \in DOMAIN names |-> Entry(h, names[k])]
  PROVE  Added(h, names)
<1> DEFINE new == [k \in DOMAIN names |-> Entry(h, names[k])]
<1>1. Len(entries) \in Nat /\ Len(names) \in Nat /\ DOMAIN names = 1 .. Len(names) /\ h \in Nat
  BY LenProperties DEF Handles
<1>2. /\ new \in Seq(EntryType) /\ Len(new) = Len(names)
      /\ \A k \in 1 .. Len(names) : new[k] = Entry(h, names[k])
  <2>1. \A k \in 1 .. Len(names) : Entry(h, names[k]) \in EntryType
    BY <1>1, EntryTyped, ElementOfSeq
  <2>2. new \in [1 .. Len(names) -> EntryType]  BY <1>1, <2>1
  <2>3. new \in Seq(EntryType) /\ Len(new) = Len(names)
    <3> HIDE DEF new
    <3>1. QED BY <1>1, <2>2, SeqDef
  <2>4. QED BY <1>1, <2>3
<1> HIDE DEF new
<1>3. /\ entries' \in Seq(EntryType) /\ Len(entries') = Len(entries) + Len(new)
      /\ \A i \in 1 .. Len(entries) + Len(new) :
           entries'[i] = IF i <= Len(entries) THEN entries[i] ELSE new[i - Len(entries)]
  <2> DEFINE both == entries \o new
  <2>1. /\ both \in Seq(EntryType) /\ Len(both) = Len(entries) + Len(new)
        /\ \A i \in 1 .. Len(entries) + Len(new) :
             both[i] = IF i <= Len(entries) THEN entries[i] ELSE new[i - Len(entries)]
    BY <1>2, ConcatProperties
  <2>2. entries' = both  BY DEF new
  <2> HIDE DEF both
  <2>3. QED BY <2>1, <2>2
<1>4. ASSUME NEW i \in 1 .. Len(entries)  PROVE entries'[i] = entries[i]
  BY <1>1, <1>2, <1>3
<1>5. ASSUME NEW k \in 1 .. Len(names)  PROVE entries'[Len(entries) + k] = Entry(h, names[k])
  <2> DEFINE i == Len(entries) + k
  <2>1. i \in 1 .. Len(entries) + Len(new) /\ ~(i <= Len(entries)) /\ i - Len(entries) = k
    BY <1>1, <1>2
  <2> HIDE DEF i
  <2>2. entries'[i] = new[k]  BY <1>3, <2>1
  <2>3. QED BY <1>2, <2>2 DEF i
<1>6. QED BY <1>2, <1>3, <1>4, <1>5 DEF Added

LEMMA OneAdded ==
  ASSUME entries \in Seq(EntryType), NEW h \in Handles, NEW name \in Names,
         entries' = Append(entries, Entry(h, name))
  PROVE  Added(h, <<name>>)
<1>1. h \in Nat /\ Entry(h, name) \in EntryType  BY EntryTyped DEF Handles
<1> DEFINE e == Entry(h, name)
<1> HIDE DEF e
<1>2. /\ entries' \in Seq(EntryType) /\ Len(entries') = Len(entries) + 1
      /\ \A i \in 1 .. Len(entries) : entries'[i] = entries[i]
      /\ entries'[Len(entries) + 1] = e
  <2>1. entries' = Append(entries, e) /\ e \in EntryType  BY <1>1 DEF e
  <2>2. QED BY <2>1
<1>3. <<name>> \in Seq(Names) /\ Len(<<name>>) = 1 /\ <<name>>[1] = name  OBVIOUS
<1>4. \A k \in 1 .. 1 : entries'[Len(entries) + k] = Entry(h, <<name>>[k])
  BY <1>2, <1>3 DEF e
<1>5. QED BY <1>2, <1>3, <1>4 DEF Added

\* The paths of the handles there are stay, and the new ones are below their folder.
LEMMA AddedPaths ==
  ASSUME TreeInv, NEW h, NEW names, Added(h, names)
  PROVE  /\ IsList(entries') /\ OnePath'
         /\ \A i \in Handles : PathOf'[i] = PathOf[i] /\ i \in Handles'
         /\ \A k \in 1 .. Len(names) :
              /\ Len(entries) + k \in 1 .. Len(entries')
              /\ entries'[Len(entries) + k].parent = h % ParentRange
              /\ PathOf'[Len(entries) + k] = Append(PathOf[h % ParentRange], names[k])
<1>1. /\ h \in Handles /\ names \in Seq(Names) /\ entries' \in Seq(EntryType)
      /\ Len(entries') = Len(entries) + Len(names) /\ Len(entries) \in Nat /\ Len(names) \in Nat
      /\ IsList(entries) /\ h \in Nat /\ h <= Len(entries)
  BY DEF Added, TreeInv, Types, IsList, Handles
<1>2. \A i \in 1 .. Len(entries) : entries'[i] = entries[i]  BY DEF Added
<1>3. ASSUME NEW k \in 1 .. Len(names)
      PROVE  /\ Len(entries) + k \in 1 .. Len(entries')
             /\ entries'[Len(entries) + k].parent = h % ParentRange
             /\ entries'[Len(entries) + k].name = names[k]
  <2>1. entries'[Len(entries) + k] = Entry(h, names[k])  BY DEF Added
  <2>2. names[k] \in Names  BY <1>1, ElementOfSeq
  <2>3. QED BY <1>1, <2>1, <2>2, EntryTyped
<1>4. h % ParentRange \in 0 .. h /\ h % ParentRange \in Handles
  BY <1>1, ParentFits DEF Handles
<1>5. ASSUME NEW i \in Len(entries) + 1 .. Len(entries')
      PROVE  /\ entries'[i].parent = h % ParentRange /\ entries'[i].parent <= Len(entries)
             /\ i - Len(entries) \in 1 .. Len(names)
             /\ entries'[i].name = names[i - Len(entries)]
  <2> DEFINE k == i - Len(entries)
  <2>1. k \in 1 .. Len(names) /\ Len(entries) + k = i  BY <1>1
  <2> HIDE DEF k
  <2>2. entries'[i].parent = h % ParentRange /\ entries'[i].name = names[k]
    BY <1>3, <2>1
  <2>3. QED BY <1>1, <1>4, <2>1, <2>2 DEF k
<1>6. IsList(entries')
  <2>1. ASSUME NEW i \in 1 .. Len(entries')  PROVE entries'[i].parent < i
    <3>1. CASE i <= Len(entries)
      BY <1>1, <1>2, <3>1 DEF IsList
    <3>2. CASE ~(i <= Len(entries))
      <4>1. i \in Len(entries) + 1 .. Len(entries')  BY <1>1, <3>2
      <4>2. QED BY <1>1, <1>4, <1>5, <4>1
    <3>3. QED BY <3>1, <3>2
  <2>2. QED BY <1>1, <2>1 DEF IsList
<1>7. OneFits(entries)  BY DEF TreeInv, OnePath
<1>8. Grows(entries, entries')
  <2>1. /\ Len(entries) <= Len(entries')
        /\ \A i \in Len(entries) + 1 .. Len(entries') : entries'[i].parent <= Len(entries)
    BY <1>1, <1>5
  <2>2. QED BY <1>1, <1>2, <1>6, <2>1 DEF Grows
<1>9. OneFits(entries') /\ PathsGrow(entries, entries')
  BY <1>7, <1>8, FitsLonger
<1>10. Fits(entries, PathOf) /\ Fits(entries', PathOf')
  <2>1. Fits(entries, PathOf)  BY PathFits DEF TreeInv
  <2>2. Fits(entries', PathOf')  BY <1>9 DEF OneFits, Fits, PathOf
  <2>3. QED BY <2>1, <2>2
<1>11. /\ \A i \in Handles : PathOf'[i] = PathOf[i]
       /\ \A i \in Len(entries) + 1 .. Len(entries') :
            PathOf'[i] = Append(PathOf[entries'[i].parent], entries'[i].name)
  BY <1>9, <1>10 DEF Handles, PathsGrow
<1>12. \A i \in Handles' : PathOf'[i] \in Seq(Names)
  <2>1. SUFFICES ASSUME NEW i \in Handles' PROVE PathOf'[i] \in Seq(Names)  OBVIOUS
  <2>2. CASE i \in Handles  BY <1>11, <2>2 DEF TreeInv, OnePath
  <2>3. CASE i \notin Handles
    <3>1. i \in Len(entries) + 1 .. Len(entries')  BY <1>1, <2>3 DEF Handles
    <3>2. PathOf'[i] = Append(PathOf[h % ParentRange], names[i - Len(entries)])
      BY <1>5, <1>11, <3>1
    <3>3. PathOf[h % ParentRange] \in Seq(Names)  BY <1>4 DEF TreeInv, OnePath
    <3>4. names[i - Len(entries)] \in Names  BY <1>1, <1>5, <3>1, ElementOfSeq
    <3>5. QED BY <3>2, <3>3, <3>4, PathAppend
  <2>4. QED BY <2>2, <2>3
<1>13. OnePath'  BY <1>9, <1>12 DEF OnePath
<1>14. \A i \in Handles : i \in Handles'  BY <1>1 DEF Handles
<1>15. ASSUME NEW k \in 1 .. Len(names)
       PROVE  PathOf'[Len(entries) + k] = Append(PathOf[h % ParentRange], names[k])
  <2>1. Len(entries) + k \in Len(entries) + 1 .. Len(entries')  BY <1>1
  <2>2. QED BY <1>3, <1>11, <2>1
<1>16. QED BY <1>3, <1>6, <1>11, <1>13, <1>14, <1>15

-----------------------------------------------------------------------------
(* What a directory lists, and what a deletion leaves. *)

LEMMA ChildPath ==
  ASSUME files \cup folders \subseteq Paths, NEW path, NEW p \in Children(path)
  PROVE  /\ p \in Objects /\ p \in Seq(Names) /\ p # <<>>
         /\ Front(p) = path /\ Last(p) \in Names /\ p = Append(path, Last(p))
<1>1. p \in Objects /\ Front(p) = path  BY DEF Children
<1>2. p \in Seq(Names) /\ p # <<>>  BY <1>1, PathsLong DEF Objects
<1>3. QED BY <1>1, <1>2, PathSplit

LEMMA ChildAppend ==
  ASSUME NEW path \in Seq(Names), NEW name \in Names, Append(path, name) \in Objects
  PROVE  Append(path, name) \in Children(path)
<1>1. Front(Append(path, name)) = path  BY PathAppend
<1>2. QED BY <1>1 DEF Children

\* The names are those of different children, and if there are as many as children,
\* none is missing.
LEMMA ListedNames ==
  ASSUME files \cup folders \subseteq Paths, IsFiniteSet(Objects),
         NEW path \in Seq(Names), NEW names \in Directories(path)
  PROVE  /\ names \in Seq(Names)
         /\ \A k \in 1 .. Len(names) : Append(path, names[k]) \in Children(path)
         /\ \A j, k \in 1 .. Len(names) : names[j] = names[k] => j = k
         /\ Len(names) = Cardinality(Children(path)) =>
              \A p \in Children(path) : \E k \in 1 .. Len(names) : p = Append(path, names[k])
<1> DEFINE C == Children(path)
           S == {Last(p) : p \in C}
           L == [p \in C |-> Last(p)]
<1>1. IsFiniteSet(C)
  <2>1. C \in SUBSET Objects  BY DEF Children
  <2>2. QED BY <2>1, FS_Subset
<1>2. L \in Surjection(C, S)  BY DEF Surjection
<1>3. \A x \in S : x \in Names /\ Append(path, x) \in C
  <2>1. SUFFICES ASSUME NEW x \in S PROVE x \in Names /\ Append(path, x) \in C
    OBVIOUS
  <2>2. PICK p \in C : x = Last(p)  OBVIOUS
  <2>3. p \in Children(path)  OBVIOUS
  <2>4. Last(p) \in Names /\ p = Append(path, Last(p))  BY <2>3, ChildPath
  <2>5. QED BY <2>2, <2>4
<1>4. \A p \in C : Last(p) \in S /\ p = Append(path, Last(p))
  <2>1. SUFFICES ASSUME NEW p \in C PROVE Last(p) \in S /\ p = Append(path, Last(p))
    OBVIOUS
  <2>2. p \in Children(path)  OBVIOUS
  <2>3. p = Append(path, Last(p))  BY <2>2, ChildPath
  <2>4. QED BY <2>3
<1>5. PICK T \in SUBSET S : names \in SetToSeqs(T)
  <2>1. Directories(path) = IF AllocFails THEN SetToAllKPermutations(S) ELSE SetToSeqs(S)
    BY DEF Directories
  <2> HIDE DEF S
  <2>2. CASE AllocFails
    <3>1. names \in UNION {SetToSeqs(s) : s \in SUBSET S}
      BY <2>1, <2>2 DEF SetToAllKPermutations
    <3>2. QED BY <3>1
  <2>3. CASE ~AllocFails
    <3>1. names \in SetToSeqs(S) /\ S \in SUBSET S  BY <2>1, <2>3
    <3>2. QED BY <3>1
  <2>4. QED BY <2>2, <2>3
<1> HIDE DEF C, S, L
<1>6. /\ IsFiniteSet(S) /\ Cardinality(S) <= Cardinality(C)
  BY <1>1, <1>2, FS_Surjection
<1>7. /\ IsFiniteSet(T) /\ Cardinality(T) <= Cardinality(S)
      /\ Cardinality(S) = Cardinality(T) => S = T
  BY <1>5, <1>6, FS_Subset
<1>8. Cardinality(C) \in Nat /\ Cardinality(S) \in Nat /\ Cardinality(T) \in Nat
  BY <1>1, <1>6, <1>7, FS_CardinalityType
<1>9. /\ names \in [1 .. Cardinality(T) -> T]
      /\ \A j, k \in 1 .. Cardinality(T) : j # k => names[j] # names[k]
  BY <1>5 DEF SetToSeqs
<1>10. names \in Seq(Names) /\ Len(names) = Cardinality(T)
  <2>1. names \in [1 .. Cardinality(T) -> Names]  BY <1>3, <1>5, <1>9
  <2>2. QED BY <1>8, <2>1, SeqDef
<1>11. \A k \in 1 .. Len(names) : Append(path, names[k]) \in C
  BY <1>3, <1>5, <1>9, <1>10
<1>12. \A j, k \in 1 .. Len(names) : names[j] = names[k] => j = k  BY <1>9, <1>10
<1>13. ASSUME Len(names) = Cardinality(C), NEW p \in C
       PROVE  \E k \in 1 .. Len(names) : p = Append(path, names[k])
  <2>1. S = T  BY <1>6, <1>7, <1>8, <1>10, <1>13
  <2>2. names \in Injection(1 .. Cardinality(T), T)
    BY <1>9 DEF Injection, IsInjective
  <2>3. Cardinality(1 .. Cardinality(T)) = Cardinality(T)
    <3>1. Cardinality(T) \in Int /\ 1 \in Int  BY <1>8
    <3>2. Cardinality(1 .. Cardinality(T)) =
            IF 1 > Cardinality(T) THEN 0 ELSE Cardinality(T) - 1 + 1
      BY <3>1, FS_Interval
    <3>3. QED BY <1>8, <3>2
  <2>4. names \in Surjection(1 .. Cardinality(T), T)
    BY <1>7, <2>2, <2>3, FS_Injection
  <2>5. PICK k \in 1 .. Cardinality(T) : names[k] = Last(p)
    <3>1. Last(p) \in T  BY <1>4, <2>1
    <3>2. \A t \in T : \E k \in 1 .. Cardinality(T) : names[k] = t
      BY <2>4 DEF Surjection
    <3>3. QED BY <3>1, <3>2
  <2>6. QED BY <1>4, <1>10, <2>5
<1>14. QED BY <1>10, <1>11, <1>12, <1>13 DEF C

\* The folder of something that is left is left.
LEMMA RemainingUp ==
  ASSUME files \cup folders \subseteq Paths, NEW path \in Seq(Names), NEW p \in Objects,
         NEW kept, p \in Remaining(path, kept), Front(p) \in Objects
  PROVE  Front(p) \in Remaining(path, kept)
<1>1. \A q \in Objects : q \in Seq(Names) /\ q # <<>>  BY PathsLong DEF Objects
<1>2. p \in Seq(Names) /\ p # <<>> /\ Front(p) \in Seq(Names)  BY <1>1
<1>3. IsPrefix(Front(p), p)  BY <1>2, PrefixFront
<1>4. CASE ~IsPrefix(path, p)
  <2>1. ~IsPrefix(path, Front(p))  BY <1>2, <1>3, <1>4, PrefixTrans
  <2>2. QED BY <2>1 DEF Remaining
<1>5. CASE \E q \in Objects : IsPrefix(p, q) /\ (Len(q) > MaxDepth \/ q \in kept)
  <2>1. PICK q \in Objects : IsPrefix(p, q) /\ (Len(q) > MaxDepth \/ q \in kept)  BY <1>5
  <2>2. q \in Seq(Names)  BY <1>1
  <2>3. IsPrefix(Front(p), q)  BY <1>2, <1>3, <2>1, <2>2, PrefixTrans
  <2>4. QED BY <2>1, <2>3 DEF Remaining
<1>6. QED BY <1>4, <1>5 DEF Remaining

-----------------------------------------------------------------------------
(* The card stays a tree, and the list one whose recursion ends. *)

LEMMA TreeFacts ==
  ASSUME TreeInv
  PROVE  /\ files \cup folders \subseteq Paths /\ IsFiniteSet(Objects)
         /\ Len(entries) \in Nat /\ dropped \subseteq 1 .. Len(entries)
         /\ PathOf[0] = <<>> /\ <<>> \notin Objects
         /\ \A h \in Handles : PathOf[h] \in Seq(Names)
         /\ \A p \in Objects : p \in Seq(Names) /\ p # <<>>
         /\ \A i \in 1 .. Len(entries) :
              /\ i \in Handles /\ entries[i].parent \in Handles /\ entries[i].parent < i
              /\ entries[i].name \in Names
              /\ PathOf[i] = Append(PathOf[entries[i].parent], entries[i].name)
              /\ PathOf[i] # <<>> /\ Front(PathOf[i]) = PathOf[entries[i].parent]
<1>1. /\ files \cup folders \subseteq Paths /\ IsFiniteSet(Objects)
      /\ Len(entries) \in Nat /\ dropped \subseteq 1 .. Len(entries)
      /\ IsList(entries)
  BY DEF TreeInv, Types, IsTree, IsList
<1>2. Fits(entries, PathOf) /\ \A h \in Handles : PathOf[h] \in Seq(Names)
  BY PathFits DEF TreeInv, OnePath
<1>3. PathOf[0] = <<>>  BY <1>1, <1>2, FitsAt
<1>4. \A p \in Objects : p \in Seq(Names) /\ p # <<>>
  BY <1>1, PathsLong DEF Objects
<1>5. ASSUME NEW i \in 1 .. Len(entries)
      PROVE  /\ i \in Handles /\ entries[i].parent \in Handles /\ entries[i].parent < i
             /\ entries[i].name \in Names
             /\ PathOf[i] = Append(PathOf[entries[i].parent], entries[i].name)
             /\ PathOf[i] # <<>> /\ Front(PathOf[i]) = PathOf[entries[i].parent]
  <2>1. /\ i \in 0 .. Len(entries) /\ i # 0
        /\ entries[i].parent \in 0 .. Len(entries) /\ entries[i].parent < i
        /\ entries[i].name \in Names
    BY <1>1, ListEntry
  <2>2. PathOf[i] = Append(PathOf[entries[i].parent], entries[i].name)
    BY <1>2, <2>1, FitsAt
  <2>3. PathOf[entries[i].parent] \in Seq(Names)  BY <1>2, <2>1 DEF Handles
  <2>4. PathOf[i] # <<>> /\ Front(PathOf[i]) = PathOf[entries[i].parent]
    BY <2>1, <2>2, <2>3, PathAppend
  <2>5. QED BY <2>1, <2>2, <2>4 DEF Handles
<1>6. QED BY <1>1, <1>2, <1>3, <1>4, <1>5

LEMMA SamePaths ==
  ASSUME entries' = entries
  PROVE  /\ PathOf' = PathOf /\ Handles' = Handles
         /\ OnePath => OnePath'
<1>1. PathOf' = PathOf  BY DEF PathOf
<1>2. QED BY <1>1 DEF Handles, OnePath

LEMMA FreshPaths ==
  ASSUME entries' = <<>>
  PROVE  OnePath' /\ Handles' = {0}
<1>1. OneFits(entries') /\ \A f : Fits(entries', f) => f[0] = <<>>  BY FitsNothing
<1>2. Fits(entries', PathOf')  BY <1>1 DEF OneFits, Fits, PathOf
<1>3. PathOf'[0] = <<>>  BY <1>1, <1>2
<1>4. Handles' = {0}  BY DEF Handles
<1>5. PathOf'[0] \in Seq(Names)  BY <1>3
<1>6. QED BY <1>1, <1>4, <1>5 DEF OnePath

LEMMA InitTree == Init => TreeInv
<1> SUFFICES ASSUME Init PROVE TreeInv  OBVIOUS
<1>1. OneFits(entries) /\ \A f : Fits(entries, f) => f[0] = <<>>
  BY FitsNothing DEF Init
<1>2. Fits(entries, PathOf)  BY <1>1 DEF OneFits, Fits, PathOf
<1>3. Handles = {0}  BY DEF Handles, Init
<1>4. PathOf[0] \in Seq(Names)
  <2>1. PathOf[0] = <<>>  BY <1>1, <1>2
  <2>2. QED BY <2>1
<1>5. OnePath  BY <1>1, <1>3, <1>4 DEF OnePath
<1>6. PICK card \in Cards : files = card.files /\ folders = card.folders  BY DEF Init
<1>7. IsTree(card) /\ IsFiniteSet(card.files \cup card.folders)  BY CardAssumption
<1>8. IsTree([files |-> files, folders |-> folders]) /\ IsFiniteSet(Objects)
  BY <1>6, <1>7 DEF IsTree, Objects
<1>9. Types
  <2>1. entries = <<>> /\ dropped = {} /\ revived = FALSE /\ reply = NoReply  BY DEF Init
  <2>2. reply.handles = {} /\ reply.of = 0 /\ reply.ok = FALSE  BY <2>1 DEF NoReply
  <2>3. MaxEntries \in Nat  BY SizeAssumption
  <2>4. entries \in Seq(EntryType) /\ Len(entries) = 0  BY <2>1
  <2>5. Len(entries) <= MaxEntries /\ 1 .. Len(entries) = {}  BY <2>3, <2>4
  <2>6. dropped \subseteq 1 .. Len(entries) /\ reply.handles \subseteq 1 .. Len(entries)
        /\ reply.of \in Nat
    BY <2>1, <2>2
  <2>7. QED BY <1>8, <2>1, <2>2, <2>4, <2>5, <2>6 DEF Types
<1>10. QED BY <1>5, <1>9 DEF TreeInv

\* What the steps that add entries to the list have in common.
LEMMA TypesGrown ==
  ASSUME TreeInv, NEW h, NEW names, Added(h, names), Len(entries') <= MaxEntries
  PROVE  /\ OnePath' /\ Len(entries') \in Nat /\ Len(entries) <= Len(entries')
         /\ entries' \in Seq(EntryType) /\ Len(entries') <= MaxEntries
         /\ \A i \in 1 .. Len(entries') : entries'[i].parent < i
         /\ dropped \subseteq 1 .. Len(entries')
<1>1. OnePath' /\ IsList(entries')  BY AddedPaths
<1>2. Len(entries') = Len(entries) + Len(names) /\ names \in Seq(Names)  BY DEF Added
<1>3. Len(names) \in Nat /\ Len(entries) \in Nat /\ dropped \subseteq 1 .. Len(entries)
  BY <1>2, TreeFacts
<1>4. 1 .. Len(entries) \subseteq 1 .. Len(entries')  BY <1>2, <1>3
<1>5. QED BY <1>1, <1>2, <1>3, <1>4 DEF IsList

LEMMA FilledKnown ==
  ASSUME Len(entries) \in Nat, NEW h \in Handles
  PROVE  Filled(h) \subseteq 1 .. Len(entries)
<1>1. h \in Nat  BY DEF Handles
<1>2. QED BY <1>1 DEF Filled

\* A folder's listing comes from the list, or adds the folder's entries to it.
LEMMA ListingSplit ==
  ASSUME TreeInv, NEW h \in Handles, GetObjectHandles(h)
  PROVE  \/ /\ Filled(h) # {} /\ reply' = Listing(h, Filled(h))
            /\ UNCHANGED <<entries, partial>>
         \/ /\ Filled(h) = {}
            /\ \E names \in Directories(PathOf[h]) :
                 /\ Added(h, names) /\ Len(entries') <= MaxEntries
                 /\ Len(entries') = Len(entries) + Len(names)
                 /\ reply' = Listing(h, Len(entries) + 1 .. Len(entries'))
                 /\ partial' = IF Len(names) = Cardinality(Children(PathOf[h]))
                               THEN partial \ {h} ELSE partial \cup {h}
<1>1. CASE Filled(h) # {}  BY <1>1 DEF GetObjectHandles
<1>2. CASE Filled(h) = {}
  <2>1. PICK names \in Directories(PathOf[h]) :
             /\ Len(entries) + Len(names) <= MaxEntries
             /\ entries' = entries \o [k \in DOMAIN names |-> Entry(h, names[k])]
             /\ reply' = Listing(h, Len(entries) + 1 .. Len(entries'))
             /\ partial' = IF Len(names) = Cardinality(Children(PathOf[h]))
                           THEN partial \ {h} ELSE partial \cup {h}
    BY <1>2 DEF GetObjectHandles
  <2>2. names \in Seq(Names)
    <3>1. /\ files \cup folders \subseteq Paths /\ IsFiniteSet(Objects)
          /\ PathOf[h] \in Seq(Names)
      BY TreeFacts
    <3>2. QED BY <3>1, ListedNames
  <2>3. entries \in Seq(EntryType)  BY DEF TreeInv, Types
  <2>4. Added(h, names)  BY <2>1, <2>2, <2>3, NamesAdded
  <2>5. Len(entries') = Len(entries) + Len(names)  BY <2>4 DEF Added
  <2>6. QED BY <1>2, <2>1, <2>4, <2>5
<1>3. QED BY <1>1, <1>2

LEMMA ListingTree ==
  ASSUME TreeInv, NEW h \in Handles, GetObjectHandles(h)
  PROVE  TreeInv'
<1>1. UNCHANGED <<files, folders, dropped>> /\ revived' = (revived \/ h \in dropped)
  BY DEF GetObjectHandles, Uses
<1>2. IsTree([files |-> files, folders |-> folders])' /\ IsFiniteSet(Objects)'
      /\ revived' \in BOOLEAN
  BY <1>1 DEF TreeInv, Types, Objects
<1>3. h \in Nat /\ Len(entries) \in Nat  BY TreeFacts DEF Handles
<1>4. CASE Filled(h) # {} /\ reply' = Listing(h, Filled(h)) /\ UNCHANGED <<entries, partial>>
  <2>1. OnePath'  BY <1>4, SamePaths DEF TreeInv
  <2>2. reply'.handles = Filled(h) /\ reply'.of = h  BY <1>4 DEF Listing
  <2>3. reply'.handles \subseteq 1 .. Len(entries)  BY <1>3, <2>2, FilledKnown
  <2>4. Handles' = Handles  BY <1>4, SamePaths
  <2>5. Types'  BY <1>1, <1>2, <1>3, <1>4, <2>2, <2>3, <2>4 DEF TreeInv, Types
  <2>6. QED BY <2>1, <2>5 DEF TreeInv
<1>5. ASSUME NEW names \in Directories(PathOf[h]), Added(h, names),
             Len(entries') <= MaxEntries,
             reply' = Listing(h, Len(entries) + 1 .. Len(entries'))
      PROVE  TreeInv'
  <2>1. /\ OnePath' /\ Len(entries') \in Nat /\ Len(entries) <= Len(entries')
        /\ entries' \in Seq(EntryType) /\ Len(entries') <= MaxEntries
        /\ \A i \in 1 .. Len(entries') : entries'[i].parent < i
        /\ dropped \subseteq 1 .. Len(entries')
    BY <1>5, TypesGrown
  <2>2. reply'.handles = Len(entries) + 1 .. Len(entries') /\ reply'.of = h
    BY <1>5 DEF Listing
  <2>3. Len(entries) + 1 .. Len(entries') \subseteq 1 .. Len(entries')  BY <1>3, <2>1
  <2>4. h \in Handles'  BY <1>3, <2>1 DEF Handles
  <2>5. Types'  BY <1>1, <1>2, <1>3, <2>1, <2>2, <2>3, <2>4 DEF Types
  <2>6. QED BY <2>1, <2>5 DEF TreeInv
<1>6. QED BY <1>4, <1>5, ListingSplit

\* The card gets an object; the list gets its entry, or there is no memory for one.
Sent(h, name) ==
  /\ Append(PathOf[h], name) \notin Objects
  /\ Objects' = Objects \cup {Append(PathOf[h], name)}
  /\ reply' = NoReply /\ dropped' = dropped /\ Uses(h)
  /\ \/ /\ Added(h, <<name>>) /\ Len(entries') <= MaxEntries
        /\ Len(entries') = Len(entries) + 1
        /\ partial' = IF HidesOthers(h) THEN partial \cup {h} ELSE partial
     \/ entries' = entries /\ partial' = partial \cup {h}

LEMMA SendSplit ==
  ASSUME TreeInv, NEW h \in Handles, NEW name \in Names, NEW isFolder \in BOOLEAN,
         SendObjectInfo(h, name, isFolder)
  PROVE  Sent(h, name)
<1> DEFINE path == Append(PathOf[h], name)
<1>1. /\ path \notin Objects /\ reply' = NoReply /\ dropped' = dropped /\ Uses(h)
      /\ \/ folders' = folders \cup {path} /\ files' = files
         \/ files' = files \cup {path} /\ folders' = folders
  BY DEF SendObjectInfo
<1>2. \/ /\ Len(entries) < MaxEntries /\ entries' = Append(entries, Entry(h, name))
         /\ partial' = IF HidesOthers(h) THEN partial \cup {h} ELSE partial
      \/ entries' = entries /\ partial' = partial \cup {h}
  BY DEF SendObjectInfo
<1> HIDE DEF path
<1>3. Objects' = Objects \cup {path}  BY <1>1 DEF Objects
<1>4. ASSUME Len(entries) < MaxEntries, entries' = Append(entries, Entry(h, name))
      PROVE  Added(h, <<name>>) /\ Len(entries') <= MaxEntries /\ Len(entries') = Len(entries) + 1
  <2>1. entries \in Seq(EntryType)  BY DEF TreeInv, Types
  <2>2. Added(h, <<name>>)  BY <1>4, <2>1, OneAdded
  <2>3. Len(entries') = Len(entries) + Len(<<name>>)  BY <2>2 DEF Added
  <2>4. Len(<<name>>) = 1  OBVIOUS
  <2>5. Len(entries) \in Nat /\ MaxEntries \in Nat  BY TreeFacts, SizeAssumption
  <2>6. QED BY <1>4, <2>2, <2>3, <2>4, <2>5
<1>5. QED BY <1>1, <1>2, <1>3, <1>4 DEF Sent, path

LEMMA SendTree ==
  ASSUME TreeInv, NEW h \in Handles, NEW name \in Names, NEW isFolder \in BOOLEAN,
         SendObjectInfo(h, name, isFolder)
  PROVE  TreeInv'
<1> DEFINE path == Append(PathOf[h], name)
<1>1. /\ path \notin Objects /\ Len(path) <= MaxDepth /\ IsFolder(PathOf[h])
      /\ \/ folders' = folders \cup {path} /\ files' = files
         \/ files' = files \cup {path} /\ folders' = folders
  BY DEF SendObjectInfo
<1>2. Objects' = Objects \cup {path} /\ reply' = NoReply /\ dropped' = dropped
      /\ Uses(h)
  <2>1. Sent(h, name)  BY SendSplit
  <2>2. QED BY <2>1 DEF Sent
<1>3. /\ files \cup folders \subseteq Paths /\ IsFiniteSet(Objects) /\ PathOf[h] \in Seq(Names)
      /\ files \cap folders = {}
      /\ \A p \in files \cup folders : Front(p) = <<>> \/ Front(p) \in folders
      /\ Len(entries) \in Nat
  BY TreeFacts DEF TreeInv, Types, IsTree
<1>4. path \in Seq(Names) /\ path # <<>> /\ Front(path) = PathOf[h]
  BY <1>3, PathAppend
<1>5. path \in Paths
  <2>1. Len(path) \in Nat /\ MaxDepth \in Nat  BY <1>4, SizeAssumption, LenProperties
  <2> HIDE DEF path
  <2>2. Len(path) <= MaxDepth + 1  BY <1>1, <2>1
  <2>3. QED BY <1>4, <2>2, PathsLong
<1>6. Front(path) = <<>> \/ Front(path) \in folders  BY <1>1, <1>4 DEF IsFolder
<1> HIDE DEF path
<1>7. IsTree([files |-> files, folders |-> folders])'
  <2>1. files' \subseteq Paths /\ folders' \subseteq Paths  BY <1>1, <1>3, <1>5
  <2>2. files' \cap folders' = {}  BY <1>1, <1>3 DEF Objects
  <2>3. folders \subseteq folders' /\ files' \cup folders' = files \cup folders \cup {path}
    BY <1>1
  <2>4. \A p \in files' \cup folders' : Front(p) = <<>> \/ Front(p) \in folders'
    BY <1>3, <1>6, <2>3
  <2>5. QED BY <2>1, <2>2, <2>4 DEF IsTree
<1>8. IsFiniteSet(Objects)'  BY <1>2, <1>3, FS_AddElement
<1>9. reply'.handles = {} /\ reply'.of = 0 /\ reply'.ok = FALSE  BY <1>2 DEF NoReply
<1>10. revived' \in BOOLEAN  BY <1>2 DEF Uses, TreeInv, Types
<1>11. ASSUME Added(h, <<name>>), Len(entries') <= MaxEntries  PROVE TreeInv'
  <2>1. /\ OnePath' /\ Len(entries') \in Nat
        /\ entries' \in Seq(EntryType) /\ Len(entries') <= MaxEntries
        /\ \A i \in 1 .. Len(entries') : entries'[i].parent < i
        /\ dropped \subseteq 1 .. Len(entries')
    BY <1>11, TypesGrown
  <2>2. Types'  BY <1>2, <1>7, <1>8, <1>9, <1>10, <2>1 DEF Types
  <2>3. QED BY <2>1, <2>2 DEF TreeInv
<1>12. ASSUME entries' = entries  PROVE TreeInv'
  <2>1. OnePath'  BY <1>12, SamePaths DEF TreeInv
  <2>2. Types'  BY <1>2, <1>7, <1>8, <1>9, <1>10, <1>12 DEF TreeInv, Types
  <2>3. QED BY <2>1, <2>2 DEF TreeInv
<1>13. QED BY <1>11, <1>12, SendSplit DEF Sent

LEMMA DeleteSplit ==
  ASSUME TreeInv, NEW h \in 1 .. Len(entries), NEW kept, DeleteObject(h, kept)
  PROVE  /\ h \in Handles /\ PathOf[h] \in Objects
         /\ Objects' = Objects \cap Remaining(PathOf[h], kept)
         /\ dropped' = dropped \cup {i \in 1 .. Len(entries) :
                                       PathOf[i] \in Objects \ Remaining(PathOf[h], kept)}
         /\ reply' = NoReply /\ UNCHANGED <<entries, partial>>
         /\ Uses(h)
<1>1. h \in Handles  BY TreeFacts
<1>2. Objects' = Objects \cap Remaining(PathOf[h], kept)  BY DEF DeleteObject, Objects
<1>3. QED BY <1>1, <1>2 DEF DeleteObject

LEMMA DeleteTree ==
  ASSUME TreeInv, NEW h \in 1 .. Len(entries), NEW kept, DeleteObject(h, kept)
  PROVE  TreeInv'
<1> DEFINE R == Remaining(PathOf[h], kept)
<1>1. files' = files \cap R /\ folders' = folders \cap R
  BY DEF DeleteObject
<1>2. /\ h \in Handles /\ Objects' = Objects \cap R
      /\ dropped' \subseteq dropped \cup 1 .. Len(entries)
      /\ reply' = NoReply /\ entries' = entries /\ Uses(h)
  BY DeleteSplit
<1>3. /\ files \cup folders \subseteq Paths /\ IsFiniteSet(Objects) /\ PathOf[h] \in Seq(Names)
      /\ files \cap folders = {} /\ dropped \subseteq 1 .. Len(entries)
      /\ \A p \in files \cup folders : Front(p) = <<>> \/ Front(p) \in folders
  BY <1>2, TreeFacts DEF TreeInv, Types, IsTree
<1>4. \A p \in Objects : p \in R /\ Front(p) \in Objects => Front(p) \in R
  BY <1>3, RemainingUp
<1> HIDE DEF R
<1>5. IsTree([files |-> files, folders |-> folders])'
  <2>1. files' \subseteq Paths /\ folders' \subseteq Paths /\ files' \cap folders' = {}
    BY <1>1, <1>3
  <2>2. \A p \in files' \cup folders' : Front(p) = <<>> \/ Front(p) \in folders'
    <3>1. SUFFICES ASSUME NEW p \in files' \cup folders'
                   PROVE  Front(p) = <<>> \/ Front(p) \in folders'
      OBVIOUS
    <3>2. p \in Objects /\ p \in R  BY <1>1 DEF Objects
    <3>3. Front(p) = <<>> \/ Front(p) \in folders  BY <1>3, <3>2 DEF Objects
    <3>4. CASE Front(p) \in folders
      <4>1. Front(p) \in Objects  BY <3>4 DEF Objects
      <4>2. QED BY <1>1, <1>4, <3>2, <3>4, <4>1
    <3>5. QED BY <3>3, <3>4
  <2>3. QED BY <2>1, <2>2 DEF IsTree
<1>6. IsFiniteSet(Objects)'
  <2>1. Objects' \in SUBSET Objects  BY <1>2
  <2>2. QED BY <1>3, <2>1, FS_Subset
<1>7. reply'.handles = {} /\ reply'.of = 0 /\ reply'.ok = FALSE  BY <1>2 DEF NoReply
<1>8. dropped' \subseteq 1 .. Len(entries') /\ revived' \in BOOLEAN
  BY <1>2, <1>3 DEF Uses, TreeInv, Types
<1>9. Types'  BY <1>2, <1>5, <1>6, <1>7, <1>8 DEF TreeInv, Types
<1>10. QED BY <1>2, <1>9, SamePaths DEF TreeInv

LEMMA EndTree == ASSUME TreeInv, SessionEnds PROVE TreeInv'
<1>1. /\ entries' = <<>> /\ dropped' = {} /\ revived' = FALSE /\ reply' = NoReply
      /\ files' = files /\ folders' = folders
  BY DEF SessionEnds
<1>2. IsTree([files |-> files, folders |-> folders])' /\ IsFiniteSet(Objects)'
  BY <1>1 DEF TreeInv, Types, Objects
<1>3. reply'.handles = {} /\ reply'.of = 0 /\ reply'.ok = FALSE  BY <1>1 DEF NoReply
<1>4. /\ entries' \in Seq(EntryType) /\ Len(entries') = 0 /\ MaxEntries \in Nat
      /\ 1 .. Len(entries') = {}
  BY <1>1, SizeAssumption
<1>5. Types'
  <2>1. Len(entries') <= MaxEntries  BY <1>4
  <2>2. dropped' \subseteq 1 .. Len(entries') /\ reply'.handles \subseteq 1 .. Len(entries')
        /\ reply'.of \in Nat
    BY <1>1, <1>3
  <2>3. QED BY <1>1, <1>2, <1>3, <1>4, <2>1, <2>2 DEF Types
<1>6. QED BY <1>1, <1>5, FreshPaths DEF TreeInv

LEMMA StutterTree ==
  ASSUME TreeInv, Refused \/ UNCHANGED vars
  PROVE  TreeInv'
<1>1. /\ files' = files /\ folders' = folders /\ entries' = entries /\ dropped' = dropped
      /\ revived' = revived /\ (reply' = NoReply \/ reply' = reply)
  BY DEF Refused, vars
<1>2. Objects' = Objects /\ OnePath' /\ Handles' = Handles
  BY <1>1, SamePaths DEF TreeInv, Objects
<1>3. CASE reply' = NoReply
  <2>1. reply'.handles = {} /\ reply'.of = 0 /\ reply'.ok = FALSE  BY <1>3 DEF NoReply
  <2>2. Types'  BY <1>1, <1>2, <2>1 DEF TreeInv, Types
  <2>3. QED BY <1>2, <2>2 DEF TreeInv
<1>4. CASE reply' = reply
  <2>1. Types'  BY <1>1, <1>2, <1>4 DEF TreeInv, Types
  <2>2. QED BY <1>2, <2>1 DEF TreeInv
<1>5. QED BY <1>1, <1>3, <1>4

LEMMA NextTree == ASSUME TreeInv, [Next]_vars PROVE TreeInv'
<1>1. ASSUME NEW h \in 0 .. Len(entries), GetObjectHandles(h)  PROVE TreeInv'
  <2>1. h \in Handles  BY DEF Handles
  <2>2. QED BY <1>1, <2>1, ListingTree
<1>2. ASSUME NEW h \in 0 .. Len(entries), NEW name \in Names, NEW isFolder \in BOOLEAN,
             SendObjectInfo(h, name, isFolder)
      PROVE  TreeInv'
  <2>1. h \in Handles  BY DEF Handles
  <2>2. QED BY <1>2, <2>1, SendTree
<1>3. ASSUME NEW h \in 1 .. Len(entries), NEW kept, DeleteObject(h, kept)  PROVE TreeInv'
  BY <1>3, DeleteTree
<1>4. CASE Refused \/ UNCHANGED vars  BY <1>4, StutterTree
<1>5. CASE SessionEnds  BY <1>5, EndTree
<1>6. QED BY <1>1, <1>2, <1>3, <1>4, <1>5 DEF Next

\* Whatever the card holds and the host asks for, the card stays a tree that the
\* responder can walk, and every entry's parent comes before it, so that the loop of
\* esp_mtp_file_list_find from a handle to the root ends.
THEOREM TypeCorrect == Spec => []TypeOK
<1>1. TreeInv => TypeOK
  <2> SUFFICES ASSUME TreeInv PROVE TypeOK  OBVIOUS
  <2>1. DOMAIN entries = 1 .. Len(entries)  BY DEF TreeInv, Types
  <2>2. \A i \in 1 .. Len(entries) : entries[i].parent < i /\ entries[i].name \in Names
    BY TreeFacts
  <2>3. QED BY <2>1, <2>2 DEF TreeInv, Types, TypeOK
<1>2. TreeInv /\ [Next]_vars => TreeInv'  BY NextTree
<1>3. QED BY <1>1, <1>2, InitTree, PTL DEF Spec

-----------------------------------------------------------------------------
(* Handles name objects. *)

\* The entries there are stay as they are, and the new ones are the objects of
\* these names in folder h, as its handle fits 16 bits.
Grown(h, names) ==
  /\ Len(entries) \in Nat /\ Len(names) \in Nat
  /\ Len(entries') = Len(entries) + Len(names)
  /\ \A i \in Handles : PathOf'[i] = PathOf[i] /\ i \in Handles'
  /\ \A i \in 1 .. Len(entries) : i \in 1 .. Len(entries') /\ entries'[i] = entries[i]
  /\ \A i \in 1 .. Len(entries') :
       i \in 1 .. Len(entries) \/ \E k \in 1 .. Len(names) : i = Len(entries) + k
  /\ \A k \in 1 .. Len(names) :
       /\ Len(entries) + k \in 1 .. Len(entries') /\ Len(entries) + k \notin Handles
       /\ entries'[Len(entries) + k].parent = h
       /\ PathOf'[Len(entries) + k] = Append(PathOf[h], names[k])

LEMMA NewEntries ==
  ASSUME MaxEntries <= ParentRange, TreeInv, NEW h, NEW names, Added(h, names),
         Len(entries') <= MaxEntries
  PROVE  h \in Handles /\ Grown(h, names)
<1>1. /\ h \in Handles /\ names \in Seq(Names) /\ h \in Nat /\ h <= Len(entries)
      /\ Len(entries') = Len(entries) + Len(names) /\ Len(entries) \in Nat
      /\ Len(names) \in Nat
      /\ \A i \in 1 .. Len(entries) : entries'[i] = entries[i]
  BY TreeFacts DEF Added, Handles
<1>2. /\ \A i \in Handles : PathOf'[i] = PathOf[i] /\ i \in Handles'
      /\ \A k \in 1 .. Len(names) :
           /\ Len(entries) + k \in 1 .. Len(entries')
           /\ entries'[Len(entries) + k].parent = h % ParentRange
           /\ PathOf'[Len(entries) + k] = Append(PathOf[h % ParentRange], names[k])
  BY AddedPaths
<1>3. ASSUME NEW k \in 1 .. Len(names)
      PROVE  h % ParentRange = h /\ Len(entries) + k \notin Handles
  <2>1. ParentRange \in Nat /\ MaxEntries \in Nat  BY SizeAssumption
  <2>2. Len(entries) < ParentRange  BY <1>1, <2>1
  <2>3. h < ParentRange  BY <1>1, <2>1, <2>2
  <2>4. h % ParentRange = h  BY <1>1, <2>3, ParentFits
  <2>5. Len(entries) + k \notin Handles  BY <1>1 DEF Handles
  <2>6. QED BY <2>4, <2>5
<1>4. ASSUME NEW k \in 1 .. Len(names)
      PROVE  /\ Len(entries) + k \in 1 .. Len(entries') /\ Len(entries) + k \notin Handles
             /\ entries'[Len(entries) + k].parent = h
             /\ PathOf'[Len(entries) + k] = Append(PathOf[h], names[k])
  <2>1. h % ParentRange = h /\ Len(entries) + k \notin Handles  BY <1>3
  <2>2. QED BY <1>2, <2>1
<1>5. \A i \in 1 .. Len(entries) : i \in 1 .. Len(entries')  BY <1>1
<1>6. ASSUME NEW i \in 1 .. Len(entries'), i \notin 1 .. Len(entries)
      PROVE  \E k \in 1 .. Len(names) : i = Len(entries) + k
  <2>1. i - Len(entries) \in 1 .. Len(names) /\ i = Len(entries) + (i - Len(entries))
    BY <1>1, <1>6
  <2>2. QED BY <2>1
<1>7. QED BY <1>1, <1>2, <1>4, <1>5, <1>6 DEF Grown

LEMMA ValidIff ==
  ASSUME TreeInv
  PROVE  HandleValid <=> \A i \in 1 .. Len(entries) : PathOf[i] \in Objects \/ i \in dropped
<1>1. DOMAIN entries = 1 .. Len(entries)  BY DEF TreeInv, Types
<1>2. QED BY <1>1 DEF HandleValid

\* Entries added for objects of the card.
LEMMA GrownValid ==
  ASSUME TreeInv, TreeInv', HandleValid, NEW h, NEW names, Grown(h, names),
         Objects \subseteq Objects', dropped' = dropped,
         \A k \in 1 .. Len(names) : Append(PathOf[h], names[k]) \in Objects'
  PROVE  HandleValid'
<1>1. \A i \in 1 .. Len(entries) : PathOf[i] \in Objects \/ i \in dropped  BY ValidIff
<1>2. ASSUME NEW i \in 1 .. Len(entries')
      PROVE  PathOf'[i] \in Objects' \/ i \in dropped'
  <2>1. CASE i \in 1 .. Len(entries)
    <3>1. i \in Handles  BY <2>1, TreeFacts
    <3>2. QED BY <1>1, <2>1, <3>1 DEF Grown
  <2>2. CASE i \notin 1 .. Len(entries)
    <3>1. PICK k \in 1 .. Len(names) : i = Len(entries) + k  BY <2>2 DEF Grown
    <3>2. QED BY <3>1 DEF Grown
  <2>3. QED BY <2>1, <2>2
<1>3. DOMAIN entries' = 1 .. Len(entries')  BY DEF TreeInv, Types
<1>4. QED BY <1>2, <1>3 DEF HandleValid

LEMMA SameValid ==
  ASSUME TreeInv, HandleValid, entries' = entries, Objects \subseteq Objects',
         dropped \subseteq dropped'
  PROVE  HandleValid'
<1>1. PathOf' = PathOf  BY SamePaths
<1>2. QED BY <1>1 DEF HandleValid

LEMMA NextValid ==
  ASSUME MaxEntries <= ParentRange, TreeInv, HandleValid, [Next]_vars
  PROVE  HandleValid'
<1>1. TreeInv'  BY NextTree
<1>2. ASSUME NEW h \in 0 .. Len(entries), GetObjectHandles(h)  PROVE HandleValid'
  <2>1. h \in Handles  BY DEF Handles
  <2>2. Objects' = Objects /\ dropped' = dropped
    BY <1>2 DEF GetObjectHandles, Objects
  <2>3. CASE UNCHANGED <<entries, partial>>  BY <2>2, <2>3, SameValid
  <2>4. ASSUME NEW names \in Directories(PathOf[h]), Added(h, names),
               Len(entries') <= MaxEntries
        PROVE  HandleValid'
    <3>1. /\ files \cup folders \subseteq Paths /\ IsFiniteSet(Objects)
          /\ PathOf[h] \in Seq(Names)
      BY <2>1, TreeFacts
    <3>2. \A k \in 1 .. Len(names) : Append(PathOf[h], names[k]) \in Children(PathOf[h])
      BY <3>1, ListedNames
    <3>3. \A k \in 1 .. Len(names) : Append(PathOf[h], names[k]) \in Objects'
      BY <2>2, <3>2 DEF Children
    <3>4. Grown(h, names)  BY <2>4, NewEntries
    <3>5. QED BY <1>1, <2>2, <3>3, <3>4, GrownValid
  <2>5. QED BY <1>2, <2>1, <2>3, <2>4, ListingSplit
<1>3. ASSUME NEW h \in 0 .. Len(entries), NEW name \in Names, NEW isFolder \in BOOLEAN,
             SendObjectInfo(h, name, isFolder)
      PROVE  HandleValid'
  <2>1. h \in Handles  BY DEF Handles
  <2>2. Sent(h, name)  BY <1>3, <2>1, SendSplit
  <2>3. Objects \subseteq Objects' /\ Append(PathOf[h], name) \in Objects' /\ dropped' = dropped
    BY <2>2 DEF Sent
  <2>4. CASE entries' = entries  BY <2>3, <2>4, SameValid
  <2>5. CASE Added(h, <<name>>) /\ Len(entries') <= MaxEntries
    <3>1. Grown(h, <<name>>)  BY <2>5, NewEntries
    <3>2. \A k \in 1 .. Len(<<name>>) : Append(PathOf[h], <<name>>[k]) \in Objects'
      BY <2>3
    <3>3. QED BY <1>1, <2>3, <3>1, <3>2, GrownValid
  <2>6. QED BY <2>2, <2>4, <2>5 DEF Sent
<1>4. ASSUME NEW h \in 1 .. Len(entries), NEW kept, DeleteObject(h, kept)  PROVE HandleValid'
  <2>1. /\ Objects' = Objects \cap Remaining(PathOf[h], kept) /\ entries' = entries
        /\ dropped' = dropped \cup {i \in 1 .. Len(entries) :
                                      PathOf[i] \in Objects \ Remaining(PathOf[h], kept)}
    BY <1>4, DeleteSplit
  <2>2. \A i \in 1 .. Len(entries) : PathOf[i] \in Objects \/ i \in dropped  BY ValidIff
  <2>3. \A i \in 1 .. Len(entries) : PathOf[i] \in Objects' \/ i \in dropped'
    BY <2>1, <2>2
  <2>4. DOMAIN entries' = 1 .. Len(entries) /\ PathOf' = PathOf
    BY <2>1, SamePaths DEF TreeInv, Types
  <2>5. QED BY <2>3, <2>4 DEF HandleValid
<1>5. CASE Refused \/ UNCHANGED vars
  BY <1>5, SameValid DEF Refused, vars, Objects
<1>6. CASE SessionEnds
  <2>1. DOMAIN entries' = {}  BY <1>6 DEF SessionEnds
  <2>2. QED BY <2>1 DEF HandleValid
<1>7. QED BY <1>2, <1>3, <1>4, <1>5, <1>6 DEF Next

\* As long as handles fit the 16 bits in which an entry keeps its parent: whatever is
\* listed, sent and deleted in whatever order, a handle names an object of the card
\* until that object is deleted.
THEOREM HandlesStayValid ==
  ASSUME MaxEntries <= ParentRange
  PROVE  Spec => []HandleValid
<1>1. Init => HandleValid
  <2> SUFFICES ASSUME Init PROVE HandleValid  OBVIOUS
  <2>1. DOMAIN entries = {}  BY DEF Init
  <2>2. QED BY <2>1 DEF HandleValid
<1>2. TreeInv /\ HandleValid /\ [Next]_vars => (TreeInv /\ HandleValid)'
  BY NextTree, NextValid
<1>3. QED BY <1>1, <1>2, InitTree, PTL DEF Spec

-----------------------------------------------------------------------------
(* An object has one handle, and a listing is the folder, in a session of one block. *)

LEMMA OneBlock ==
  ASSUME MaxEntries <= BlockSize, TreeInv, NEW h \in Handles
  PROVE  Filled(h) = Known(h)
<1>1. /\ Len(entries) \in Nat /\ BlockSize \in Nat \ {0} /\ MaxEntries \in Nat /\ h \in Nat
      /\ h <= Len(entries) /\ Len(entries) <= BlockSize
  BY TreeFacts, SizeAssumption DEF TreeInv, Types, Handles
<1>2. Known(h) = {i \in h + 1 .. Len(entries) : entries[i].parent = h}
  <2>1. \A i \in 1 .. Len(entries) : entries[i].parent < i  BY TreeFacts
  <2>2. \A i \in 1 .. Len(entries) : entries[i].parent = h => i \in h + 1 .. Len(entries)
    <3>1. SUFFICES ASSUME NEW i \in 1 .. Len(entries), entries[i].parent = h
                   PROVE  i \in h + 1 .. Len(entries)
      OBVIOUS
    <3>2. h < i  BY <2>1, <3>1
    <3>3. QED BY <1>1, <3>2
  <2>3. h + 1 .. Len(entries) \subseteq 1 .. Len(entries)  BY <1>1
  <2>4. QED BY <2>2, <2>3 DEF Known
<1>3. ASSUME NEW i \in h + 1 .. Len(entries)
      PROVE  (h \div BlockSize) * BlockSize + ((i - 1) % BlockSize) + 1 = i
  <2>1. h < BlockSize /\ i - 1 \in 0 .. BlockSize - 1  BY <1>1
  <2>2. h \div BlockSize = 0 /\ (i - 1) % BlockSize = i - 1  BY <1>1, <2>1
  <2>3. (h \div BlockSize) * BlockSize = 0  BY <1>1, <2>2
  <2>4. QED BY <1>1, <2>2, <2>3
<1>4. QED BY <1>2, <1>3 DEF Filled

\* No two handles that are not deleted have the same path, the root's included.
LEMMA OneLive ==
  ASSUME TreeInv, OneHandle, NEW i \in Handles \ dropped, NEW j \in Handles \ dropped,
         PathOf[i] = PathOf[j]
  PROVE  i = j
<1>1. /\ PathOf[0] = <<>>
      /\ \A k \in 1 .. Len(entries) : PathOf[k] # <<>>
      /\ \A k \in Handles : k = 0 \/ k \in 1 .. Len(entries)
  BY TreeFacts DEF Handles
<1>2. QED BY <1>1 DEF OneHandle, Live

\* An entry for an object in a folder is below that folder's handle.
LEMMA BelowFolder ==
  ASSUME TreeInv, OneHandle, ParentsLive, NEW i \in Live, NEW h \in Handles \ dropped,
         NEW x \in Names, PathOf[i] = Append(PathOf[h], x)
  PROVE  i \in Known(h)
<1>1. i \in 1 .. Len(entries) /\ entries[i].parent \notin dropped
  BY DEF Live, ParentsLive
<1>2. entries[i].parent \in Handles /\ Front(PathOf[i]) = PathOf[entries[i].parent]
  BY <1>1, TreeFacts
<1>3. Front(PathOf[i]) = PathOf[h]
  <2>1. PathOf[h] \in Seq(Names)  BY TreeFacts
  <2>2. QED BY <2>1, PathAppend
<1>4. entries[i].parent = h  BY <1>1, <1>2, <1>3, OneLive
<1>5. QED BY <1>1, <1>4 DEF Known

\* The folder is new to the list, or new in the folder: no live entry has one of the
\* paths that are added below it.
LEMMA GrownOrder ==
  ASSUME TreeInv, TreeInv', Order, NEW h \in Handles \ dropped, NEW names \in Seq(Names),
         Grown(h, names), dropped' = dropped,
         \A j, k \in 1 .. Len(names) : names[j] = names[k] => j = k,
         \A i \in Known(h) \ dropped : \A k \in 1 .. Len(names) :
           PathOf[i] # Append(PathOf[h], names[k])
  PROVE  OneHandle' /\ ParentsLive'
<1>1. /\ Len(entries) \in Nat /\ dropped \subseteq 1 .. Len(entries)
      /\ 1 .. Len(entries) \subseteq Handles /\ PathOf[h] \in Seq(Names)
  BY TreeFacts DEF Handles
<1>2. ASSUME NEW i \in Live'
      PROVE  \/ i \in Live
             \/ \E k \in 1 .. Len(names) : i = Len(entries) + k
  BY <1>2 DEF Grown, Live
<1>3. ASSUME NEW i \in Live
      PROVE  PathOf'[i] = PathOf[i] /\ entries'[i].parent = entries[i].parent
  <2>1. i \in 1 .. Len(entries) /\ i \in Handles  BY <1>1 DEF Live
  <2>2. entries'[i] = entries[i] /\ PathOf'[i] = PathOf[i]  BY <2>1 DEF Grown
  <2>3. QED BY <2>2
<1>4. ASSUME NEW k \in 1 .. Len(names)
      PROVE  /\ PathOf'[Len(entries) + k] = Append(PathOf[h], names[k])
             /\ entries'[Len(entries) + k].parent = h /\ names[k] \in Names
  <2>1. names[k] \in Names  BY ElementOfSeq
  <2>2. QED BY <2>1 DEF Grown
<1>5. ASSUME NEW i \in Live, NEW k \in 1 .. Len(names)
      PROVE  PathOf'[i] # PathOf'[Len(entries) + k]
  <2>1. SUFFICES ASSUME PathOf'[i] = PathOf'[Len(entries) + k]  PROVE FALSE
    OBVIOUS
  <2>2. PathOf[i] = Append(PathOf[h], names[k]) /\ names[k] \in Names
    BY <1>3, <1>4, <2>1
  <2>3. i \in Known(h)  BY <2>2, BelowFolder DEF Order
  <2>4. i \notin dropped  BY DEF Live
  <2>5. QED BY <2>2, <2>3, <2>4
<1>6. ASSUME NEW j \in 1 .. Len(names), NEW k \in 1 .. Len(names),
             PathOf'[Len(entries) + j] = PathOf'[Len(entries) + k]
      PROVE  j = k
  <2>1. Append(PathOf[h], names[j]) = Append(PathOf[h], names[k])
        /\ names[j] \in Names /\ names[k] \in Names
    BY <1>4, <1>6
  <2>2. names[j] = names[k]
    <3>1. Last(Append(PathOf[h], names[j])) = names[j]  BY <1>1, <2>1, PathAppend
    <3>2. Last(Append(PathOf[h], names[k])) = names[k]  BY <1>1, <2>1, PathAppend
    <3>3. QED BY <2>1, <3>1, <3>2
  <2>3. QED BY <2>2
<1>7. OneHandle'
  <2>1. SUFFICES ASSUME NEW i \in Live', NEW j \in Live', PathOf'[i] = PathOf'[j]
                 PROVE  i = j
    BY DEF OneHandle
  <2>2. CASE i \in Live /\ j \in Live
    BY <1>3, <2>1, <2>2 DEF Order, OneHandle
  <2>3. CASE i \in Live /\ \E k \in 1 .. Len(names) : j = Len(entries) + k
    BY <1>5, <2>1, <2>3
  <2>4. CASE j \in Live /\ \E k \in 1 .. Len(names) : i = Len(entries) + k
    BY <1>5, <2>1, <2>4
  <2>5. CASE /\ \E k \in 1 .. Len(names) : i = Len(entries) + k
             /\ \E k \in 1 .. Len(names) : j = Len(entries) + k
    BY <1>6, <2>1, <2>5
  <2>6. QED BY <1>2, <2>2, <2>3, <2>4, <2>5
<1>8. ParentsLive'
  <2>1. SUFFICES ASSUME NEW i \in Live'  PROVE entries'[i].parent \notin dropped'
    BY DEF ParentsLive
  <2>2. CASE i \in Live  BY <1>3, <2>2 DEF Order, ParentsLive
  <2>3. CASE \E k \in 1 .. Len(names) : i = Len(entries) + k  BY <1>4, <2>3
  <2>4. QED BY <1>2, <2>2, <2>3
<1>9. QED BY <1>7, <1>8

\* The folders other than h stay as whole as they are.
LEMMA GrownOthers ==
  ASSUME TreeInv, Order, NEW h \in Handles \ dropped, NEW names, Grown(h, names),
         dropped' = dropped, NEW g \in Handles' \ dropped, g # h, g \notin partial,
         Known(g)' # {},
         \A p \in Objects' \ Objects : Front(p) = PathOf[h]
  PROVE  Whole(g)'
<1>1. /\ Len(entries) \in Nat /\ 1 .. Len(entries) \subseteq Handles
      /\ \A i \in 1 .. Len(entries) : entries[i].parent \in Handles
  BY TreeFacts DEF Handles
<1>2. PICK i \in 1 .. Len(entries') : entries'[i].parent = g  BY DEF Known
<1>3. i \in 1 .. Len(entries) /\ entries'[i] = entries[i]
  <2>1. CASE \E k \in 1 .. Len(names) : i = Len(entries) + k  BY <1>2, <2>1 DEF Grown
  <2>2. QED BY <2>1 DEF Grown
<1>4. g \in Handles /\ i \in Known(g)  BY <1>1, <1>2, <1>3 DEF Known
<1>5. Whole(g)  BY <1>4 DEF Order, WholeFolders
<1>6. PathOf'[g] = PathOf[g] /\ PathOf[g] # PathOf[h]
  <2>1. PathOf'[g] = PathOf[g]  BY <1>4 DEF Grown
  <2>2. PathOf[g] # PathOf[h]  BY <1>4, OneLive DEF Order
  <2>3. QED BY <2>1, <2>2
<1>7. SUFFICES ASSUME NEW p \in Objects', Front(p) = PathOf'[g]
               PROVE  \E j \in 1 .. Len(entries') :
                         j \notin dropped /\ entries'[j].parent = g /\ PathOf'[j] = p
  BY DEF Whole, Children, Known
<1>8. p \in Children(PathOf[g])  BY <1>6, <1>7 DEF Children
<1>9. PICK j \in 1 .. Len(entries) :
        j \notin dropped /\ entries[j].parent = g /\ PathOf[j] = p
  BY <1>5, <1>8 DEF Whole, Known
<1>10. QED BY <1>1, <1>9 DEF Grown

\* The new entries make the folder they are in whole.
LEMMA GrownWhole ==
  ASSUME TreeInv, NEW h \in Handles \ dropped, NEW names, Grown(h, names),
         dropped' = dropped,
         \A p \in Objects' : Front(p) = PathOf[h] =>
           \/ \E i \in Known(h) \ dropped : PathOf[i] = p
           \/ \E k \in 1 .. Len(names) : p = Append(PathOf[h], names[k])
  PROVE  Whole(h)'
<1>1. /\ Len(entries) \in Nat /\ 1 .. Len(entries) \subseteq Handles
      /\ dropped \subseteq Handles
  BY TreeFacts DEF Handles
<1>2. PathOf'[h] = PathOf[h]  BY DEF Grown
<1>3. SUFFICES ASSUME NEW p \in Objects', Front(p) = PathOf[h]
               PROVE  \E j \in 1 .. Len(entries') :
                         j \notin dropped /\ entries'[j].parent = h /\ PathOf'[j] = p
  BY <1>2 DEF Whole, Children, Known
<1>4. CASE \E i \in Known(h) \ dropped : PathOf[i] = p
  <2>1. PICK i \in 1 .. Len(entries) :
          i \notin dropped /\ entries[i].parent = h /\ PathOf[i] = p
    BY <1>4 DEF Known
  <2>2. QED BY <1>1, <2>1 DEF Grown
<1>5. CASE \E k \in 1 .. Len(names) : p = Append(PathOf[h], names[k])
  <2>1. PICK k \in 1 .. Len(names) : p = Append(PathOf[h], names[k])  BY <1>5
  <2>2. Len(entries) + k \notin dropped  BY <1>1 DEF Grown
  <2>3. QED BY <2>1, <2>2 DEF Grown
<1>6. QED BY <1>3, <1>4, <1>5

\* A folder of which the list has no child is read from the card.
LEMMA ReadOrder ==
  ASSUME MaxEntries <= ParentRange, TreeInv, TreeInv', Order,
         NEW h \in Handles \ dropped, Known(h) = {},
         NEW names \in Directories(PathOf[h]), Added(h, names), Len(entries') <= MaxEntries,
         Objects' = Objects, dropped' = dropped,
         partial' = IF Len(names) = Cardinality(Children(PathOf[h]))
                    THEN partial \ {h} ELSE partial \cup {h}
  PROVE  Order' /\ (h \notin partial' => Whole(h)')
<1>1. Grown(h, names) /\ names \in Seq(Names)  BY NewEntries DEF Added
<1>2. /\ files \cup folders \subseteq Paths /\ IsFiniteSet(Objects)
      /\ PathOf[h] \in Seq(Names)
  BY TreeFacts
<1>3. /\ \A j, k \in 1 .. Len(names) : names[j] = names[k] => j = k
      /\ Len(names) = Cardinality(Children(PathOf[h])) =>
           \A p \in Children(PathOf[h]) :
             \E k \in 1 .. Len(names) : p = Append(PathOf[h], names[k])
  BY <1>2, ListedNames
<1>4. OneHandle' /\ ParentsLive'  BY <1>1, <1>3, GrownOrder
<1>5. ASSUME h \notin partial'  PROVE Whole(h)'
  <2>1. Len(names) = Cardinality(Children(PathOf[h]))  BY <1>5
  <2>2. \A p \in Objects' : Front(p) = PathOf[h] =>
          \E k \in 1 .. Len(names) : p = Append(PathOf[h], names[k])
    BY <1>3, <2>1 DEF Children
  <2>3. QED BY <1>1, <2>2, GrownWhole
<1>6. WholeFolders'
  <2>1. SUFFICES ASSUME NEW g \in Handles', g \notin dropped', g \notin partial', Known(g)' # {}
                 PROVE  Whole(g)'
    BY DEF WholeFolders
  <2>2. CASE g = h  BY <1>5, <2>1, <2>2
  <2>3. CASE g # h
    <3>1. g \notin partial /\ g \in Handles' \ dropped  BY <2>1, <2>3
    <3>2. \A p \in Objects' \ Objects : Front(p) = PathOf[h]  OBVIOUS
    <3>3. QED BY <1>1, <2>1, <2>3, <3>1, <3>2, GrownOthers
  <2>4. QED BY <2>2, <2>3
<1>7. QED BY <1>4, <1>5, <1>6 DEF Order

\* The object that is sent is new on the card, so no live entry has its path.
LEMMA SendOrder ==
  ASSUME MaxEntries <= ParentRange, MaxEntries <= BlockSize, TreeInv, TreeInv', HandleValid,
         Order, NEW h \in Handles \ dropped, NEW name \in Names, Sent(h, name)
  PROVE  Order'
<1> DEFINE path == Append(PathOf[h], name)
<1>1. /\ path \notin Objects /\ Objects' = Objects \cup {path} /\ dropped' = dropped
      /\ PathOf[h] \in Seq(Names) /\ Front(path) = PathOf[h] /\ path \in Objects'
  <2>1. PathOf[h] \in Seq(Names)  BY TreeFacts
  <2>2. Front(path) = PathOf[h]  BY <2>1, PathAppend
  <2>3. QED BY <2>1, <2>2 DEF Sent
<1> HIDE DEF path
<1>2. \A i \in Live : PathOf[i] \in Objects  BY ValidIff DEF Live
<1>3. ASSUME Added(h, <<name>>), Len(entries') <= MaxEntries,
             partial' = IF HidesOthers(h) THEN partial \cup {h} ELSE partial
      PROVE  Order'
  <2>1. Grown(h, <<name>>)  BY <1>3, NewEntries
  <2>2. /\ <<name>> \in Seq(Names) /\ Len(<<name>>) = 1
        /\ \A k \in 1 .. 1 : Append(PathOf[h], <<name>>[k]) = path
    BY DEF path
  <2>3. OneHandle' /\ ParentsLive'
    <3>1. \A i \in Known(h) \ dropped : \A k \in 1 .. Len(<<name>>) :
            PathOf[i] # Append(PathOf[h], <<name>>[k])
      BY <1>1, <1>2, <2>2 DEF Known, Live
    <3>2. \A j, k \in 1 .. Len(<<name>>) : <<name>>[j] = <<name>>[k] => j = k
      BY <2>2
    <3>3. QED BY <1>1, <2>1, <2>2, <3>1, <3>2, GrownOrder
  <2>4. ASSUME h \notin partial'  PROVE Whole(h)'
    <3>1. h \notin partial /\ (Known(h) # {} \/ Children(PathOf[h]) = {})
      BY <1>3, <2>4, OneBlock DEF HidesOthers
    <3>2. \A p \in Objects : Front(p) = PathOf[h] =>
            \E i \in Known(h) \ dropped : PathOf[i] = p
      <4>1. CASE Known(h) # {}
        BY <3>1, <4>1 DEF Order, WholeFolders, Whole, Children
      <4>2. CASE Children(PathOf[h]) = {}  BY <4>2 DEF Children
      <4>3. QED BY <3>1, <4>1, <4>2
    <3>3. \A p \in Objects' : Front(p) = PathOf[h] =>
            \/ \E i \in Known(h) \ dropped : PathOf[i] = p
            \/ \E k \in 1 .. Len(<<name>>) : p = Append(PathOf[h], <<name>>[k])
      BY <1>1, <2>2, <3>2
    <3>4. QED BY <1>1, <2>1, <3>3, GrownWhole
  <2>5. WholeFolders'
    <3>1. SUFFICES ASSUME NEW g \in Handles', g \notin dropped', g \notin partial',
                          Known(g)' # {}
                   PROVE  Whole(g)'
      BY DEF WholeFolders
    <3>2. CASE g = h  BY <2>4, <3>1, <3>2
    <3>3. CASE g # h
      <4>1. g \notin partial /\ g \in Handles' \ dropped  BY <1>1, <1>3, <3>1, <3>3
      <4>2. \A p \in Objects' \ Objects : Front(p) = PathOf[h]  BY <1>1
      <4>3. QED BY <1>1, <2>1, <3>1, <3>3, <4>1, <4>2, GrownOthers
    <3>4. QED BY <3>2, <3>3
  <2>6. QED BY <2>3, <2>5 DEF Order
<1>4. ASSUME entries' = entries, partial' = partial \cup {h}  PROVE Order'
  <2>1. PathOf' = PathOf /\ Handles' = Handles /\ Live' = Live
    BY <1>1, <1>4, SamePaths DEF Live
  <2>2. \A g : Known(g)' = Known(g)  BY <1>4 DEF Known
  <2>3. OneHandle' /\ ParentsLive'
    BY <1>1, <1>4, <2>1 DEF Order, OneHandle, ParentsLive
  <2>4. WholeFolders'
    <3> SUFFICES ASSUME NEW g \in Handles', g \notin dropped', g \notin partial',
                        Known(g)' # {}
                 PROVE  Whole(g)'
      BY DEF WholeFolders
    <3>1. g \in Handles /\ g \notin dropped /\ g \notin partial /\ g # h /\ Known(g) # {}
      BY <1>1, <1>4, <2>1, <2>2
    <3>2. PathOf[g] # PathOf[h]  BY <3>1, OneLive DEF Order
    <3>3. Whole(g)  BY <3>1 DEF Order, WholeFolders
    <3>4. ASSUME NEW p \in Objects', Front(p) = PathOf[g]
          PROVE  p \in Children(PathOf[g])
      BY <1>1, <3>2, <3>4 DEF Children
    <3>5. \A p \in Children(PathOf[g])' : p \in Children(PathOf[g])
      BY <2>1, <3>4 DEF Children
    <3>6. \A p \in Children(PathOf[g])' : \E i \in Known(g) \ dropped : PathOf[i] = p
      BY <3>3, <3>5 DEF Whole
    <3>7. QED BY <1>1, <2>1, <2>2, <3>6 DEF Whole
  <2>5. QED BY <2>3, <2>4 DEF Order
<1>5. QED BY <1>3, <1>4 DEF Sent

\* A deletion takes the children of what it removes.
LEMMA DeleteOrder ==
  ASSUME TreeInv, HandleValid, Order, NEW h \in 1 .. Len(entries), NEW kept, DeleteObject(h, kept)
  PROVE  Order'
<1> DEFINE R == Remaining(PathOf[h], kept)
           gone == {i \in 1 .. Len(entries) : PathOf[i] \in Objects \ R}
<1>1. /\ h \in Handles /\ Objects' = Objects \cap R /\ dropped' = dropped \cup gone
      /\ entries' = entries /\ partial' = partial
  BY DeleteSplit
<1>2. /\ PathOf' = PathOf /\ Handles' = Handles /\ Live' \subseteq Live
      /\ \A i \in Live' : i \in 1 .. Len(entries) /\ PathOf[i] \in R /\ PathOf[i] \in Objects
  <2>1. PathOf' = PathOf /\ Handles' = Handles  BY <1>1, SamePaths
  <2>2. Live' \subseteq Live  BY <1>1 DEF Live
  <2>3. \A i \in Live : PathOf[i] \in Objects  BY ValidIff DEF Live
  <2>4. \A i \in Live' : i \in 1 .. Len(entries) /\ i \notin gone  BY <1>1 DEF Live
  <2>5. QED BY <2>1, <2>2, <2>3, <2>4
<1>3. \A p \in Objects : p \in R /\ Front(p) \in Objects => Front(p) \in R
  <2>1. files \cup folders \subseteq Paths /\ PathOf[h] \in Seq(Names)
    BY <1>1, TreeFacts
  <2>2. QED BY <2>1, RemainingUp
<1> HIDE DEF R
<1>4. OneHandle'  BY <1>2 DEF Order, OneHandle
<1>5. ParentsLive'
  <2>1. SUFFICES ASSUME NEW i \in Live'  PROVE entries[i].parent \notin dropped \cup gone
    BY <1>1 DEF ParentsLive
  <2>2. i \in Live /\ i \in 1 .. Len(entries) /\ PathOf[i] \in R /\ PathOf[i] \in Objects
    BY <1>2
  <2>3. entries[i].parent \notin dropped  BY <2>2 DEF Order, ParentsLive
  <2>4. Front(PathOf[i]) = PathOf[entries[i].parent]  BY <2>2, TreeFacts
  <2>5. PathOf[entries[i].parent] \in Objects => PathOf[entries[i].parent] \in R
    BY <1>3, <2>2, <2>4
  <2>6. QED BY <2>3, <2>5
<1>6. WholeFolders'
  <2>1. \A g : Known(g)' = Known(g)  BY <1>1 DEF Known
  <2>2. SUFFICES ASSUME NEW g \in Handles, g \notin dropped, g \notin partial, Known(g) # {}
                 PROVE  \A p \in Children(PathOf[g])' :
                          \E i \in Known(g) \ (dropped \cup gone) : PathOf[i] = p
    BY <1>1, <1>2, <2>1 DEF WholeFolders, Whole
  <2>3. Whole(g)  BY <2>2 DEF Order, WholeFolders
  <2>4. \A p \in Children(PathOf[g])' : p \in Children(PathOf[g]) /\ p \in R
    BY <1>1, <1>2 DEF Children
  <2>5. SUFFICES ASSUME NEW p \in Children(PathOf[g])'
                 PROVE  \E i \in Known(g) \ (dropped \cup gone) : PathOf[i] = p
    OBVIOUS
  <2>6. PICK i \in Known(g) \ dropped : PathOf[i] = p  BY <2>3, <2>4 DEF Whole
  <2>7. i \notin gone  BY <2>4, <2>6
  <2>8. QED BY <2>6, <2>7
<1>7. QED BY <1>4, <1>5, <1>6 DEF Order

LEMMA EmptyOrder ==
  /\ entries = <<>> => Order
  /\ (entries = <<>>)' => Order'
<1>1. entries = <<>> => Order
  <2> SUFFICES ASSUME entries = <<>> PROVE Order  OBVIOUS
  <2>1. 1 .. Len(entries) = {}  OBVIOUS
  <2>2. Live = {} /\ \A g : Known(g) = {}  BY <2>1 DEF Live, Known
  <2>3. QED BY <2>2 DEF Order, OneHandle, ParentsLive, WholeFolders
<1>2. QED BY <1>1, PTL

\* TreeFacts of the state after a step.
Parented ==
  /\ Len(entries) \in Nat
  /\ \A i \in 1 .. Len(entries) : Front(PathOf[i]) = PathOf[entries[i].parent]
LEMMA ParentedNext == TreeInv' => Parented'
<1>1. TreeInv => Parented  BY TreeFacts DEF Parented
<1>2. QED BY <1>1, PTL

LEMMA SameOrder ==
  ASSUME Order, entries' = entries, Objects' = Objects, dropped' = dropped,
         partial' = partial
  PROVE  Order' /\ \A g : Known(g)' = Known(g) /\ (Whole(g) => Whole(g)')
<1>1. PathOf' = PathOf /\ Handles' = Handles /\ Live' = Live
  BY SamePaths DEF Live
<1>2. \A g : Known(g)' = Known(g)  BY DEF Known
<1>3. \A g : Children(PathOf[g])' = Children(PathOf[g])  BY <1>1 DEF Children
<1>4. \A g : Whole(g)' <=> Whole(g)  BY <1>1, <1>2, <1>3 DEF Whole
<1>5. OneHandle' /\ ParentsLive'  BY <1>1 DEF Order, OneHandle, ParentsLive
<1>6. WholeFolders'  BY <1>1, <1>2, <1>4 DEF Order, WholeFolders
<1>7. QED BY <1>2, <1>4, <1>5, <1>6 DEF Order

\* What a listing may say: the folder's entries that are there.
Exact ==
  reply.ok /\ ~revived =>
    /\ \A i \in reply.handles \ dropped : PathOf[i] \in Children(PathOf[reply.of])
    /\ reply.of \notin partial =>
         \A p \in Children(PathOf[reply.of]) : \E i \in reply.handles \ dropped : PathOf[i] = p

LEMMA ExactListing == Exact => ListingExact
<1> SUFFICES ASSUME Exact, reply.ok, ~revived
             PROVE  LET known == {PathOf[i] : i \in reply.handles \ dropped}
                        there == Children(PathOf[reply.of])
                    IN  known \subseteq there /\ (reply.of \notin partial => known = there)
  BY DEF ListingExact
<1> DEFINE known == {PathOf[i] : i \in reply.handles \ dropped}
           there == Children(PathOf[reply.of])
<1>1. known \subseteq there  BY DEF Exact
<1>2. reply.of \notin partial => there \subseteq known  BY DEF Exact
<1>3. QED BY <1>1, <1>2

LEMMA ListingOrder ==
  ASSUME MaxEntries <= ParentRange, MaxEntries <= BlockSize, TreeInv, TreeInv',
         HandleValid', ~revived => Order, NEW h \in Handles, GetObjectHandles(h), ~revived'
  PROVE  Order' /\ Exact'
<1>1. /\ UNCHANGED <<files, folders, dropped>> /\ Objects' = Objects
      /\ ~revived /\ h \in Handles \ dropped
  BY DEF GetObjectHandles, Uses, Objects
<1>2. Order  BY <1>1
<1>3. Filled(h) = Known(h)  BY OneBlock
<1>4. \A i \in 1 .. Len(entries') : i \notin dropped' => PathOf'[i] \in Objects'
  <2>1. DOMAIN entries' = 1 .. Len(entries')  BY DEF TreeInv, Types
  <2>2. QED BY <2>1 DEF HandleValid
<1>5. \A i \in 1 .. Len(entries') : Front(PathOf'[i]) = PathOf'[entries'[i].parent]
  BY ParentedNext DEF Parented
<1>6. ASSUME reply'.ok, reply'.of = h, Order',
             \A i \in reply'.handles : i \in 1 .. Len(entries') /\ entries'[i].parent = h,
             h \notin partial' => Whole(h)',
             Known(h)' \subseteq reply'.handles
      PROVE  Exact'
  <2>1. \A i \in reply'.handles \ dropped' : PathOf'[i] \in Children(PathOf[h])'
    BY <1>4, <1>5, <1>6 DEF Children
  <2>2. h \notin partial' =>
          \A p \in Children(PathOf[h])' : \E i \in reply'.handles \ dropped' : PathOf'[i] = p
    BY <1>6 DEF Whole
  <2>3. QED BY <1>6, <2>1, <2>2 DEF Exact
<1>7. CASE Filled(h) # {} /\ reply' = Listing(h, Filled(h)) /\ UNCHANGED <<entries, partial>>
  <2>1. Order' /\ Known(h)' = Known(h) /\ (Whole(h) => Whole(h)')
    BY <1>1, <1>2, <1>7, SameOrder
  <2>2. reply'.ok /\ reply'.of = h /\ reply'.handles = Known(h)
    BY <1>3, <1>7 DEF Listing
  <2>3. h \notin partial' => Whole(h)'
    BY <1>1, <1>2, <1>3, <1>7, <2>1 DEF Order, WholeFolders
  <2>4. \A i \in reply'.handles : i \in 1 .. Len(entries') /\ entries'[i].parent = h
    BY <1>7, <2>2 DEF Known
  <2>5. Known(h)' \subseteq reply'.handles  BY <2>1, <2>2
  <2>6. QED BY <1>6, <2>1, <2>2, <2>3, <2>4, <2>5
<1>8. ASSUME Filled(h) = {},
             NEW names \in Directories(PathOf[h]), Added(h, names),
             Len(entries') <= MaxEntries,
             reply' = Listing(h, Len(entries) + 1 .. Len(entries')),
             partial' = IF Len(names) = Cardinality(Children(PathOf[h]))
                        THEN partial \ {h} ELSE partial \cup {h}
      PROVE  Order' /\ Exact'
  <2>1. Order' /\ (h \notin partial' => Whole(h)')
    BY <1>1, <1>2, <1>3, <1>8, ReadOrder
  <2>2. reply'.ok /\ reply'.of = h /\ reply'.handles = Len(entries) + 1 .. Len(entries')
    BY <1>8 DEF Listing
  <2>3. Grown(h, names)  BY <1>8, NewEntries
  <2>4. \A i \in reply'.handles : i \in 1 .. Len(entries') /\ entries'[i].parent = h
    <3>1. SUFFICES ASSUME NEW i \in Len(entries) + 1 .. Len(entries')
                   PROVE  i \in 1 .. Len(entries') /\ entries'[i].parent = h
      BY <2>2
    <3>2. Len(entries) \in Nat /\ Len(entries') \in Nat  BY <2>3, TreeFacts DEF Grown
    <3>3. i \in 1 .. Len(entries') /\ i \notin 1 .. Len(entries)  BY <3>1, <3>2
    <3>4. \E k \in 1 .. Len(names) : i = Len(entries) + k  BY <2>3, <3>3 DEF Grown
    <3>5. QED BY <2>3, <3>3, <3>4 DEF Grown
  <2>5. Known(h)' \subseteq reply'.handles
    <3>1. SUFFICES ASSUME NEW i \in 1 .. Len(entries'), entries'[i].parent = h
                   PROVE  i \in Len(entries) + 1 .. Len(entries')
      BY <2>2 DEF Known
    <3>2. i \notin 1 .. Len(entries)
      BY <1>3, <1>8, <2>3, <3>1 DEF Grown, Known
    <3>3. Len(entries) \in Nat /\ Len(entries') \in Nat  BY <2>3, TreeFacts DEF Grown
    <3>4. QED BY <3>1, <3>2, <3>3
  <2>6. QED BY <1>6, <2>1, <2>2, <2>4, <2>5
<1>9. QED BY <1>7, <1>8, ListingSplit

LEMMA NextOrder ==
  ASSUME MaxEntries <= ParentRange, MaxEntries <= BlockSize, ListInv, Exact, [Next]_vars
  PROVE  ListInv' /\ Exact'
<1> USE DEF ListInv
<1>1. TreeInv' /\ HandleValid'  BY NextTree, NextValid
<1>2. ASSUME NEW h \in 0 .. Len(entries), GetObjectHandles(h)  PROVE ListInv' /\ Exact'
  <2>1. h \in Handles  BY DEF Handles
  <2>2. CASE revived'  BY <1>1, <2>2 DEF Exact
  <2>3. CASE ~revived'
    <3>1. Order' /\ Exact'  BY <1>1, <1>2, <2>1, <2>3, ListingOrder
    <3>2. QED BY <1>1, <3>1
  <2>4. QED BY <2>2, <2>3
<1>3. ASSUME reply' = NoReply  PROVE Exact'  BY <1>3 DEF NoReply, Exact
<1>4. ASSUME NEW h \in 0 .. Len(entries), NEW name \in Names, NEW isFolder \in BOOLEAN,
             SendObjectInfo(h, name, isFolder)
      PROVE  ListInv' /\ Exact'
  <2>1. h \in Handles  BY DEF Handles
  <2>2. Sent(h, name)  BY <1>4, <2>1, SendSplit
  <2>3. Exact'  BY <1>3, <2>2 DEF Sent
  <2>4. ASSUME ~revived'  PROVE Order'
    <3>1. ~revived /\ h \in Handles \ dropped  BY <2>1, <2>2, <2>4 DEF Sent, Uses
    <3>2. Order  BY <3>1
    <3>3. QED BY <1>1, <2>2, <3>1, <3>2, SendOrder
  <2>5. QED BY <1>1, <2>3, <2>4
<1>5. ASSUME NEW h \in 1 .. Len(entries), NEW kept, DeleteObject(h, kept)  PROVE ListInv' /\ Exact'
  <2>1. reply' = NoReply /\ Uses(h)  BY <1>5, DeleteSplit
  <2>2. Exact'  BY <1>3, <2>1
  <2>3. ASSUME ~revived'  PROVE Order'
    <3>1. Order  BY <2>1, <2>3 DEF Uses
    <3>2. QED BY <1>5, <3>1, DeleteOrder
  <2>4. QED BY <1>1, <2>2, <2>3
<1>6. ASSUME UNCHANGED <<files, folders, entries, dropped, revived, partial>>,
             reply' = NoReply \/ reply' = reply
      PROVE  ListInv' /\ Exact'
  <2>1. Objects' = Objects  BY <1>6 DEF Objects
  <2>2. ~revived' => Order'  BY <1>6, <2>1, SameOrder
  <2>3. CASE reply' = NoReply  BY <1>1, <1>3, <2>2, <2>3
  <2>4. CASE reply' = reply
    <3>1. PathOf' = PathOf  BY <1>6, SamePaths
    <3>2. Exact'  BY <1>6, <2>1, <2>4, <3>1 DEF Exact, Children
    <3>3. QED BY <1>1, <2>2, <3>2
  <2>5. QED BY <1>6, <2>3, <2>4
<1>7. CASE SessionEnds
  <2>1. reply' = NoReply /\ entries' = <<>>  BY <1>7 DEF SessionEnds
  <2>2. Order'  BY <2>1, EmptyOrder
  <2>3. QED BY <1>1, <1>3, <2>1, <2>2
<1>8. CASE Refused  BY <1>6, <1>8 DEF Refused
<1>9. CASE UNCHANGED vars  BY <1>6, <1>9 DEF vars
<1>10. QED BY <1>2, <1>4, <1>5, <1>7, <1>8, <1>9 DEF Next

\* The induction invariant, and what a listing says, hold in every state of a session
\* whose handles fit one block (MTP_FILE_LIST_SIZE) of handle_list.
THEOREM ListInvariant ==
  ASSUME MaxEntries <= ParentRange, MaxEntries <= BlockSize
  PROVE  Spec => [](ListInv /\ Exact)
<1>1. Init => ListInv /\ Exact
  <2> SUFFICES ASSUME Init PROVE ListInv /\ Exact  OBVIOUS
  <2>1. TreeInv /\ entries = <<>> /\ reply = NoReply  BY InitTree DEF Init
  <2>2. Order  BY <2>1, EmptyOrder
  <2>3. HandleValid
    <3>1. DOMAIN entries = {}  BY <2>1
    <3>2. QED BY <3>1 DEF HandleValid
  <2>4. QED BY <2>1, <2>2, <2>3 DEF NoReply, Exact, ListInv
<1>2. ListInv /\ Exact /\ [Next]_vars => (ListInv /\ Exact)'  BY NextOrder
<1>3. QED BY <1>1, <1>2, PTL DEF Spec

\* In a session whose handles fit one block of the list: no object of the card has two
\* handles, unless the host uses a handle of something it has deleted.
THEOREM NoTwoHandlesEver ==
  ASSUME MaxEntries <= ParentRange, MaxEntries <= BlockSize
  PROVE  Spec => []NoTwoHandles
<1>1. ListInv => NoTwoHandles
  <2> SUFFICES ASSUME ListInv, ~revived
               PROVE  \A i, j \in DOMAIN entries \ dropped : PathOf[i] = PathOf[j] => i = j
    BY DEF NoTwoHandles
  <2>1. DOMAIN entries = 1 .. Len(entries)  BY DEF ListInv, TreeInv, Types
  <2>2. QED BY <2>1 DEF ListInv, Order, OneHandle, Live
<1>2. QED BY <1>1, ListInvariant, PTL

\* In such a session a listing that comes from the list is the folder as it is on the
\* card, although objects were sent to it and deleted from it since it was read.
THEOREM ListingsAreExact ==
  ASSUME MaxEntries <= ParentRange, MaxEntries <= BlockSize
  PROVE  Spec => []ListingExact
<1>1. QED BY ListInvariant, ExactListing, PTL
=============================================================================
