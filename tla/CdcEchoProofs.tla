--------------------------- MODULE CdcEchoProofs ----------------------------
(***************************************************************************)
(* Proofs about CdcEcho, for every size of a packet and of the buffer,     *)
(* every length of a message and every number of messages and resets: one  *)
(* transfer at a time, nothing echoed twice but what overwrote the message *)
(* before it, and the echoes of a host that waits whole and in order.      *)
(***************************************************************************)
EXTENDS CdcEcho, SequenceTheorems, TLAPS

-----------------------------------------------------------------------------
(***************************************************************************)
(* The induction invariants.                                               *)
(***************************************************************************)

\* A transfer or its callback is outstanding while app_main is past start_write,
\* and ep_tx_busy_flag stays set for it.
TransferOwned ==
  /\ inflight.active => inDone = NoCall
  /\ inflight.active \/ inDone # NoCall => busy /\ pc \in {"clear", "spin"}
  /\ pc = "start" => busy

\* An echo is on its way: a transfer, or the empty packet that is due.
InTransit == inflight.active \/ (inDone # NoCall /\ NeedEmptyPacket(inDone))

\* app_main will still start an echo.
Due == pc \in {"mark", "start"} \/ (pc \in {"poll", "spin"} /\ writeLen # 0)

\* Every echo, also one that is due or on its way, has a message of its own.
Sent == IF InTransit THEN 1 ELSE 0
Owed == IF Due THEN 1 ELSE 0
Counted == Len(echoed) + Sent + Owed <= Len(received)

EchoInv == TypeOK /\ TransferOwned /\ Counted

-----------------------------------------------------------------------------
(* The same for a host that waits for its echo. *)

Newest == Len(received)

\* Bytes of the newest message.
OfNewest(s) == \A b \in 1 .. Len(s) : s[b] = Newest

\* The message waited for is in the buffer.
Held ==
  waits => /\ Newest # 0 /\ received[Newest] # 0
           /\ \A b \in 1 .. received[Newest] : writeBuf[b] = Newest

\* What app_main is about to echo, and what is on its way, is that message.
DueIsNewest == Due => waits /\ writeLen = received[Newest]

TransitIsNewest ==
  /\ inflight.active =>
       /\ waits /\ OfNewest(partial) /\ OfNewest(inflight.got)
       /\ Len(partial) + inflight.len = received[Newest]
       /\ inflight.len # 0 => partial = <<>>
  /\ inDone # NoCall /\ NeedEmptyPacket(inDone) =>
       waits /\ OfNewest(partial) /\ Len(partial) = received[Newest]
  /\ ~InTransit => partial = <<>>

\* The echo of message i.
IsEcho(e, i) == /\ i \in DOMAIN received /\ received[i] # 0
                /\ Len(e) = received[i] /\ \A b \in 1 .. Len(e) : e[b] = i

\* The echoes so far are of messages before the one waited for, in order.
EchoesSoFar ==
  \A k \in 1 .. Len(echoed) : \E i \in 1 .. Newest :
    /\ IsEcho(echoed[k], i) /\ (waits => i < Newest)
    /\ \A l \in 1 .. k - 1 : echoed[l][1] < i

Patient == ~overlapped /\ ~cut
EchoOfOne == Held /\ DueIsNewest /\ TransitIsNewest /\ EchoesSoFar /\ ~(Due /\ InTransit)
InOrder == Patient => EchoOfOne

-----------------------------------------------------------------------------
(* One transfer at a time, and every echo counted. *)

LEMMA LengthsAreSmall == Lengths \subseteq 0 .. BufferLen /\ Lengths \subseteq Nat
BY SizeAssumption

LEMMA LengthIsNat == \A n \in Lengths \cup {0} : n \in Nat /\ n >= 0
<1> SUFFICES ASSUME NEW n \in Lengths \cup {0} PROVE n \in Nat /\ n >= 0
  OBVIOUS
<1>1. CASE n \in Lengths
  BY <1>1, LengthsAreSmall
<1>2. CASE n = 0
  BY <1>2
<1> QED BY <1>1, <1>2

Transfers == [active : BOOLEAN, len : Lengths \cup {0}, got : Seq(0 .. MaxMessages)]

LEMMA TransferTyped ==
  /\ Off \in Transfers /\ Len(Off.got) <= Off.len
  /\ \A n \in Lengths \cup {0} : Sending(n) \in Transfers /\ Len(Sending(n).got) <= n
<1>1. <<>> \in Seq(0 .. MaxMessages) /\ Len(<<>>) = 0
  BY EmptySeq
<1> DEFINE none == <<>>
<1>2. none \in Seq(0 .. MaxMessages) /\ Len(none) = 0
  BY <1>1
<1> HIDE DEF none
<1>3. /\ [active |-> FALSE, len |-> 0, got |-> none] \in Transfers
      /\ \A n \in Lengths \cup {0} :
           [active |-> TRUE, len |-> n, got |-> none] \in Transfers
  BY <1>2 DEF Transfers
<1>4. \A n \in Lengths \cup {0} : 0 <= n
  BY LengthsAreSmall
<1> QED BY <1>2, <1>3, <1>4 DEF Off, Sending, none

LEMMA TypeInit == Init => TypeOK
<1> SUFFICES ASSUME Init PROVE TypeOK
  OBVIOUS
<1>1. /\ received \in Seq(Lengths) /\ Len(received) <= MaxMessages
      /\ partial \in Seq(0 .. MaxMessages) /\ echoed \in Seq(Seq(0 .. MaxMessages))
  BY SizeAssumption, EmptySeq DEF Init
<1>2. writeBuf \in [1 .. BufferLen -> 0 .. MaxMessages]
  BY SizeAssumption DEF Init
<1>3. inflight \in Transfers /\ Len(inflight.got) <= inflight.len
  BY TransferTyped DEF Init
<1>4. /\ pc = "poll" /\ busy = FALSE /\ configured = FALSE /\ armed = FALSE
      /\ waits = FALSE /\ writeLen = 0 /\ inDone = NoCall /\ resets = 0
      /\ overlapped = FALSE /\ erased = FALSE /\ cut = FALSE
  BY DEF Init
<1>5. resets \in 0 .. MaxResets
  BY <1>4, SizeAssumption
<1> QED BY <1>1, <1>2, <1>3, <1>4, <1>5 DEF TypeOK, Transfers

LEMMA TypeStep ==
  ASSUME TypeOK, [Next]_vars
  PROVE  TypeOK'
<1> DEFINE Others ==
      /\ pc \in {"poll", "mark", "start", "clear", "spin"}
      /\ busy \in BOOLEAN /\ configured \in BOOLEAN /\ armed \in BOOLEAN
      /\ waits \in BOOLEAN /\ writeLen \in Lengths \cup {0}
      /\ inDone \in Lengths \cup {0, NoCall}
      /\ resets \in 0 .. MaxResets
      /\ overlapped \in BOOLEAN /\ erased \in BOOLEAN /\ cut \in BOOLEAN
    Transferred == inflight \in Transfers /\ Len(inflight.got) <= inflight.len
    Buffered == writeBuf \in [1 .. BufferLen -> 0 .. MaxMessages]
    Taken == received \in Seq(Lengths) /\ Len(received) <= MaxMessages
    Given == partial \in Seq(0 .. MaxMessages) /\ echoed \in Seq(Seq(0 .. MaxMessages))
<1>0. /\ TypeOK <=> Others /\ Transferred /\ Buffered /\ Taken /\ Given
      /\ TypeOK' <=> Others' /\ Transferred' /\ Buffered' /\ Taken' /\ Given'
  BY DEF TypeOK, Transfers
<1>a. Others /\ Transferred /\ Buffered /\ Taken /\ Given
  BY <1>0
<1> USE DEF ghosts, usbVars
<1>1. CASE Main
  <2>1. Others' /\ UNCHANGED <<writeBuf, received, partial, echoed>>
    BY <1>1, <1>a DEF Main, Poll, Mark, StartWrite, Clear, Spin
  <2>2. CASE StartWrite
    BY <2>1, <2>2, <1>a, <1>0, TransferTyped DEF StartWrite, Sending
  <2>3. CASE ~StartWrite
    BY <1>1, <2>1, <2>3, <1>a, <1>0 DEF Main, Poll, Mark, Clear, Spin
  <2> QED BY <2>2, <2>3
<1>2. CASE BulkOut
  <2> PICK n \in Lengths :
        /\ received' = Append(received, n)
        /\ writeLen' = LengthOf(n)
        /\ writeBuf' = [b \in DOMAIN writeBuf |-> IF b <= n THEN Len(received) + 1
                                                  ELSE writeBuf[b]]
        /\ waits' = (waits \/ n # 0)
        /\ overlapped' = (overlapped \/ waits)
        /\ erased' = (erased \/ (pc = "clear" /\ n # 0))
    BY <1>2 DEF BulkOut
  <2>1. received' \in Seq(Lengths) /\ Len(received') = Len(received) + 1
    BY <1>a, AppendProperties
  <2>2. Taken' /\ Len(received) + 1 \in 0 .. MaxMessages
    BY <1>2, <1>a, <2>1, SizeAssumption, LenProperties DEF BulkOut
  <2>3. Buffered'
    BY <1>a, <2>2
  <2>4. Others'
    BY <1>2, <1>a DEF LengthOf, BulkOut
  <2>5. UNCHANGED <<inflight, partial, echoed>>
    BY <1>2 DEF BulkOut
  <2> QED BY <1>0, <1>a, <2>2, <2>3, <2>4, <2>5
<1>3. CASE Fetch
  <2> DEFINE byte == writeBuf[Len(inflight.got) + 1]
  <2>0. inflight.len \in Nat /\ inflight.len <= BufferLen /\ Len(inflight.got) \in Nat
        /\ inflight.got \in Seq(0 .. MaxMessages)
    <3>1. inflight.len \in Lengths \cup {0} /\ inflight.got \in Seq(0 .. MaxMessages)
      BY <1>a DEF Transfers
    <3>2. inflight.len \in 0 .. BufferLen
      <4>1. 0 \in 0 .. BufferLen
        BY SizeAssumption
      <4> QED BY <3>1, <4>1, LengthsAreSmall
    <3> QED BY <3>1, <3>2, SizeAssumption, LenProperties
  <2>1. Len(inflight.got) + 1 \in 1 .. BufferLen /\ Len(inflight.got) + 1 <= inflight.len
    BY <1>3, <2>0, SizeAssumption DEF Fetch
  <2>2. byte \in 0 .. MaxMessages
    BY <1>a, <2>1
  <2>3. /\ Append(inflight.got, byte) \in Seq(0 .. MaxMessages)
        /\ Len(Append(inflight.got, byte)) = Len(inflight.got) + 1
    BY <2>0, <2>2, AppendProperties
  <2>4. inflight' = [inflight EXCEPT !.got = Append(inflight.got, byte)]
    BY <1>3 DEF Fetch
  <2> HIDE DEF byte
  <2>5. Transferred'
    BY <1>a, <2>1, <2>3, <2>4 DEF Transfers
  <2>6. UNCHANGED <<pc, busy, writeLen, usbVars>>
    BY <1>3 DEF Fetch
  <2> QED BY <1>0, <1>a, <2>5, <2>6
<1>4. CASE HostTake
  <2>0. inflight.len \in Lengths \cup {0} /\ inflight.got \in Seq(0 .. MaxMessages)
    BY <1>a DEF Transfers
  <2>1. partial \o inflight.got \in Seq(0 .. MaxMessages)
    BY <1>a, <2>0, ConcatProperties
  <2>2. Given'
    <3>1. CASE EndsShort(inflight.len)
      <4>1. Append(echoed, partial \o inflight.got) \in Seq(Seq(0 .. MaxMessages))
        BY <1>a, <2>1, AppendProperties
      <4> QED BY <1>4, <3>1, <4>1, EmptySeq DEF HostTake
    <3>2. CASE ~EndsShort(inflight.len)
      BY <1>4, <1>a, <3>2, <2>1 DEF HostTake
    <3> QED BY <3>1, <3>2
  <2>3. Others' /\ UNCHANGED <<writeBuf, received>>
    BY <1>4, <1>a, <2>0, ZenonT(40) DEF HostTake
  <2>4. Transferred'
    BY <1>4, TransferTyped DEF HostTake
  <2> QED BY <1>0, <1>a, <2>2, <2>3, <2>4
<1>5. CASE BulkIn
  <2>1. Others' /\ UNCHANGED <<writeBuf, received, partial, echoed>>
    BY <1>5, <1>a DEF BulkIn
  <2>2. Transferred'
    BY <1>5, <1>a, TransferTyped DEF BulkIn, Sending
  <2> QED BY <1>0, <1>a, <2>1, <2>2
<1>6. CASE Reset
  <2>1. Others' /\ UNCHANGED <<writeBuf, received, echoed>>
    <3>1. resets' \in 0 .. MaxResets
      BY <1>6, <1>a, SizeAssumption DEF Reset
    <3>2. cut' \in BOOLEAN
      BY <1>6 DEF Reset
    <3> QED BY <1>6, <1>a, <3>1, <3>2 DEF Reset
  <2>2. Transferred'
    BY <1>6, TransferTyped DEF Reset
  <2>3. Given'
    BY <1>6, <1>a, EmptySeq DEF Reset
  <2> QED BY <1>0, <1>a, <2>1, <2>2, <2>3
<1>7. CASE Configured
  BY <1>0, <1>a, <1>7 DEF Configured
<1>8. CASE UNCHANGED vars
  BY <1>0, <1>a, <1>8 DEF vars
<1> QED BY <1>1, <1>2, <1>3, <1>4, <1>5, <1>6, <1>7, <1>8 DEF Next

LEMMA OwnedStep ==
  ASSUME TypeOK, TransferOwned, [Next]_vars
  PROVE  TransferOwned'
<1> USE DEF TransferOwned, TypeOK, NoCall, Off, Sending, ghosts, usbVars
<1>1. CASE Poll \/ Mark \/ Clear
  BY <1>1 DEF Poll, Mark, Clear
<1>2. CASE StartWrite
  BY <1>2 DEF StartWrite
<1>3. CASE Spin
  BY <1>3 DEF Spin
<1>4. CASE Fetch
  BY <1>4 DEF Fetch
<1>5. CASE BulkOut
  BY <1>5 DEF BulkOut
<1>6. CASE HostTake
  BY <1>6 DEF HostTake
<1>7. CASE BulkIn
  BY <1>7 DEF BulkIn
<1>8. CASE Reset
  BY <1>8 DEF Reset
<1>9. CASE Configured
  BY <1>9 DEF Configured
<1>10. CASE UNCHANGED vars
  BY <1>10 DEF vars
<1> QED BY <1>1, <1>2, <1>3, <1>4, <1>5, <1>6, <1>7, <1>8, <1>9, <1>10 DEF Next, Main

\* Where the step leaves: a message counts for one echo more, an echo that is
\* started, on its way and ended for the same one.
LEMMA CountedStep ==
  ASSUME TypeOK, TransferOwned, Counted, [Next]_vars
  PROVE  Counted'
<1> USE DEF ghosts, usbVars
<1>0. /\ Len(echoed) \in Nat /\ Len(received) \in Nat
      /\ Sent \in {0, 1} /\ Owed \in {0, 1} /\ Sent' \in {0, 1} /\ Owed' \in {0, 1}
      /\ Len(echoed) + Sent + Owed <= Len(received)
  BY LenProperties DEF TypeOK, Sent, Owed, Counted
<1>a. SUFFICES ASSUME TRUE
               PROVE  Len(echoed') + Sent' + Owed' <= Len(received')
  BY DEF Counted
<1>1. CASE Poll \/ Mark \/ Clear \/ Spin
  <2>1. UNCHANGED <<echoed, received, inflight, inDone>>
    BY <1>1 DEF Poll, Mark, Clear, Spin
  <2>2. Owed' <= Owed
    BY <1>1 DEF Poll, Mark, Clear, Spin, Owed, Due
  <2>3. Sent' = Sent
    BY <2>1 DEF Sent, InTransit
  <2> QED BY <1>0, <2>1, <2>2, <2>3
<1>2. CASE StartWrite
  <2>1. Sent = 0 /\ Owed = 1 /\ Owed' = 0 /\ UNCHANGED <<echoed, received>>
    BY <1>2 DEF StartWrite, Sent, Owed, InTransit, Due, TransferOwned
  <2> QED BY <1>0, <2>1
<1>3. CASE BulkOut
  <2>1. Len(received') = Len(received) + 1
    BY <1>3, AppendProperties DEF BulkOut, TypeOK
  <2>2. UNCHANGED <<echoed, inflight, inDone>>
    BY <1>3 DEF BulkOut
  <2>3. Sent' = Sent
    BY <2>2 DEF Sent, InTransit
  <2> QED BY <1>0, <2>1, <2>2, <2>3
<1>4. CASE Fetch
  <2>1. UNCHANGED <<echoed, received, pc, writeLen, inDone>>
    BY <1>4 DEF Fetch
  <2>2. inflight'.active = inflight.active
    BY <1>4 DEF Fetch, TypeOK
  <2>3. Sent' = Sent /\ Owed' = Owed
    BY <2>1, <2>2 DEF Sent, InTransit, Owed, Due
  <2> QED BY <1>0, <2>1, <2>3
<1>5. CASE HostTake
  <2>1. /\ UNCHANGED <<received, pc, writeLen>> /\ ~inflight'.active
        /\ inDone' = inflight.len
    BY <1>5 DEF HostTake, Off
  <2>2. Owed' = Owed /\ Sent = 1
    BY <1>5, <2>1 DEF Owed, Due, Sent, InTransit, HostTake
  <2>3. CASE EndsShort(inflight.len)
    <3>1. Len(echoed') = Len(echoed) + 1
      <4>1. partial \o inflight.got \in Seq(0 .. MaxMessages)
        BY ConcatProperties DEF TypeOK
      <4> QED BY <1>5, <2>3, <4>1, AppendProperties DEF HostTake, TypeOK
    <3>2. Sent' = 0
      BY <2>1, <2>3 DEF Sent, InTransit, NeedEmptyPacket, EndsShort
    <3> QED BY <1>0, <2>1, <2>2, <3>1, <3>2
  <2>4. CASE ~EndsShort(inflight.len)
    <3>1. echoed' = echoed
      BY <1>5, <2>4 DEF HostTake
    <3> QED BY <1>0, <2>1, <2>2, <3>1
  <2> QED BY <2>3, <2>4
<1>6. CASE BulkIn
  <2>1. UNCHANGED <<received, echoed, pc, writeLen>>
    BY <1>6 DEF BulkIn
  <2>2. Owed' = Owed
    BY <2>1 DEF Owed, Due
  <2>3. ~inflight.active /\ inDone # NoCall /\ inDone' = NoCall
    BY <1>6 DEF BulkIn, TransferOwned
  <2>4. Sent' <= Sent
    <3>1. CASE NeedEmptyPacket(inDone)
      BY <1>0, <2>3, <3>1 DEF Sent, InTransit
    <3>2. CASE ~NeedEmptyPacket(inDone)
      <4>1. inflight' = inflight
        BY <1>6, <3>2 DEF BulkIn
      <4> QED BY <1>0, <2>3, <4>1 DEF Sent, InTransit
    <3> QED BY <3>1, <3>2
  <2> QED BY <1>0, <2>1, <2>2, <2>4
<1>7. CASE Reset
  <2>1. UNCHANGED <<received, echoed, pc, writeLen>>
    BY <1>7 DEF Reset
  <2>2. Owed' = Owed /\ Sent' = 0
    BY <1>7, <2>1 DEF Reset, Owed, Due, Sent, InTransit, Off
  <2> QED BY <1>0, <2>1, <2>2
<1>8. CASE Configured \/ UNCHANGED vars
  <2>1. UNCHANGED <<received, echoed, pc, writeLen, inflight, inDone>>
    BY <1>8 DEF Configured, vars
  <2>2. Owed' = Owed /\ Sent' = Sent
    BY <2>1 DEF Owed, Due, Sent, InTransit
  <2> QED BY <1>0, <2>1, <2>2
<1> QED BY <1>1, <1>2, <1>3, <1>4, <1>5, <1>6, <1>7, <1>8 DEF Next, Main

\* Whatever the order in which app_main, the interrupt, the controller and the host
\* take their steps, the busy flag covers every transfer and every echo has a
\* message of its own: the invariant of cdc_acm_data_send_with_dtr_test.
THEOREM EchoInvariant == Spec => []EchoInv
<1>1. Init => EchoInv
  BY TypeInit, EmptySeq
     DEF Init, EchoInv, TransferOwned, Counted, Sent, Owed, InTransit, Due, Off, NoCall
<1>2. EchoInv /\ [Next]_vars => EchoInv'
  BY TypeStep, OwnedStep, CountedStep DEF EchoInv
<1> QED BY <1>1, <1>2, PTL DEF Spec

\* app_main calls usbd_ep_start_write only when the transfer before it, and the
\* empty packet that may follow, are through.
THEOREM OneTransferAlways == Spec => []OneTransfer
<1>1. EchoInv => OneTransfer
  BY DEF EchoInv, TransferOwned, OneTransfer
<1> QED BY <1>1, EchoInvariant, PTL

-----------------------------------------------------------------------------
(* Nothing comes back twice, but for what overwrote the message before it. *)

\* Byte y may stand in the echo that comes next; it is newer than every echo.
MayFollow(y) ==
  \A k \in DOMAIN echoed : \A x \in Range(echoed[k]) : x < y \/ (x = y /\ k = Len(echoed))
Newer(y) == \A k \in DOMAIN echoed : \A x \in Range(echoed[k]) : x < y

\* No byte is newer than the newest message.
Arrived ==
  /\ \A b \in 1 .. BufferLen : writeBuf[b] <= Newest
  /\ \A x \in Range(partial) \cup Range(inflight.got) : x <= Newest
  /\ \A k \in DOMAIN echoed : \A x \in Range(echoed[k]) : x <= Newest

\* What app_main is about to echo is the newest message, and it was in no echo but
\* the last: in none, while that one is still on its way.
DueIsFresh ==
  Due => /\ \A b \in 1 .. writeLen : writeBuf[b] = Newest
         /\ MayFollow(Newest) /\ (InTransit => Newer(Newest))

\* Whatever is fetched from the buffer meanwhile may stand in the echo on its way.
TransitIsFresh ==
  /\ InTransit => /\ \A x \in Range(partial) \cup Range(inflight.got) : MayFollow(x)
                  /\ \A b \in 1 .. inflight.len : MayFollow(writeBuf[b])
  /\ ~InTransit => partial = <<>>

InTurn ==
  \A l \in DOMAIN echoed : \A k \in 1 .. l - 1 :
    \A x \in Range(echoed[k]), y \in Range(echoed[l]) : x < y \/ (x = y /\ l = k + 1)

FreshInv == Arrived /\ DueIsFresh /\ TransitIsFresh /\ InTurn

\* The bytes of two sequences put together.
LEMMA TogetherRange ==
  ASSUME NEW S, NEW s \in Seq(S), NEW t \in Seq(S)
  PROVE  s \o t \in Seq(S) /\ Range(s \o t) = Range(s) \cup Range(t)
<1>1. Range(s \o t) = Range(s) \cup Range(t)
  BY RangeConcatenation
<1>2. s \o t \in Seq(S)
  BY ConcatProperties
<1> QED BY <1>1, <1>2

LEMMA BufferIndex == TypeOK => /\ writeLen \in Nat /\ writeLen <= BufferLen
                               /\ inflight.len \in Nat /\ inflight.len <= BufferLen
<1> SUFFICES ASSUME TypeOK PROVE /\ writeLen \in Nat /\ writeLen <= BufferLen
                                 /\ inflight.len \in Nat /\ inflight.len <= BufferLen
  OBVIOUS
<1>1. writeLen \in Lengths \cup {0} /\ inflight.len \in Lengths \cup {0}
  BY DEF TypeOK
<1>2. ASSUME NEW n \in Lengths \cup {0} PROVE n \in Nat /\ n <= BufferLen
  <2>1. CASE n \in Lengths
    BY <2>1, SizeAssumption
  <2>2. CASE n = 0
    BY <2>2, SizeAssumption
  <2> QED BY <2>1, <2>2
<1> QED BY <1>1, <1>2

LEMMA FreshInit == Init => FreshInv
<1> SUFFICES ASSUME Init PROVE FreshInv
  OBVIOUS
<1>1. DOMAIN echoed = {} /\ Range(partial) = {} /\ Range(inflight.got) = {}
  BY EmptySeq DEF Init, Off, Range
<1>2. ~Due /\ ~InTransit /\ partial = <<>>
  BY DEF Init, Due, InTransit, Off, NoCall
<1>3. Newest = 0 /\ \A b \in 1 .. BufferLen : writeBuf[b] = 0
  BY EmptySeq DEF Init, Newest
<1> QED BY <1>1, <1>2, <1>3 DEF FreshInv, Arrived, DueIsFresh, TransitIsFresh, InTurn

\* app_main's own steps, and those that leave echoes, messages and buffer alone.
LEMMA FreshByItself ==
  ASSUME TypeOK, TransferOwned, FreshInv,
         Main \/ BulkIn \/ Reset \/ Configured \/ UNCHANGED vars
  PROVE  FreshInv'
<1> USE DEF ghosts, usbVars
<1>1. UNCHANGED <<echoed, received, writeBuf>>
  BY DEF Main, Poll, Mark, StartWrite, Clear, Spin, BulkIn, Reset, Configured, vars
<1>2. /\ Newest' = Newest /\ InTurn'
      /\ \A y : (MayFollow(y) => MayFollow(y)') /\ (Newer(y) => Newer(y)')
  BY <1>1 DEF Newest, FreshInv, InTurn, MayFollow, Newer
<1>3. CASE Poll \/ Mark \/ Clear \/ Spin \/ Configured \/ UNCHANGED vars
  <2>1. UNCHANGED <<inflight, inDone, partial>>
    BY <1>3 DEF Poll, Mark, Clear, Spin, Configured, vars
  <2>2. Due' => Due /\ writeLen' = writeLen
    BY <1>3 DEF Poll, Mark, Clear, Spin, Configured, vars, Due
  <2>3. InTransit' = InTransit
    BY <2>1 DEF InTransit
  <2>4. Arrived'
    BY <1>1, <1>2, <2>1 DEF FreshInv, Arrived
  <2>5. DueIsFresh'
    BY <1>1, <1>2, <2>2, <2>3 DEF FreshInv, DueIsFresh
  <2>6. TransitIsFresh'
    BY <1>1, <1>2, <2>1, <2>3 DEF FreshInv, TransitIsFresh
  <2> QED BY <1>2, <2>4, <2>5, <2>6 DEF FreshInv
<1>4. CASE StartWrite
  <2>1. /\ pc = "start" /\ pc' = "clear" /\ UNCHANGED <<partial, inDone, writeLen>>
        /\ inflight' = IF configured THEN Sending(writeLen) ELSE inflight
    BY <1>4 DEF StartWrite
  <2>2. Due /\ ~Due' /\ ~InTransit /\ ~inflight.active /\ inDone = NoCall
    BY <2>1 DEF Due, InTransit, TransferOwned
  <2>3. partial = <<>> /\ Range(partial) = {}
    BY <2>2, EmptySeq DEF FreshInv, TransitIsFresh, Range
  <2>4. CASE configured
    <3>1. inflight'.len = writeLen /\ Range(inflight'.got) = {}
      BY <2>1, <2>4, EmptySeq DEF Sending, Range
    <3>2. InTransit'
      BY <2>1, <2>4 DEF InTransit, Sending
    <3>3. Arrived'
      BY <1>1, <1>2, <2>1, <2>3, <3>1 DEF FreshInv, Arrived
    <3>4. \A b \in 1 .. writeLen : writeBuf[b] = Newest /\ MayFollow(Newest)
      BY <2>2 DEF FreshInv, DueIsFresh
    <3>5. TransitIsFresh'
      BY <1>1, <1>2, <2>1, <2>3, <3>1, <3>2, <3>4 DEF TransitIsFresh
    <3> QED BY <1>2, <2>2, <3>3, <3>5 DEF FreshInv, DueIsFresh
  <2>5. CASE ~configured
    <3>1. inflight' = inflight /\ ~InTransit'
      BY <2>1, <2>2, <2>5 DEF InTransit
    <3>2. Arrived'
      BY <1>1, <1>2, <2>1, <3>1 DEF FreshInv, Arrived
    <3> QED BY <1>2, <2>1, <2>2, <2>3, <3>1, <3>2 DEF FreshInv, DueIsFresh, TransitIsFresh
  <2> QED BY <2>4, <2>5
<1>5. CASE BulkIn
  <2>1. /\ UNCHANGED <<partial, pc, writeLen>> /\ inDone # NoCall /\ inDone' = NoCall
        /\ IF NeedEmptyPacket(inDone) THEN inflight' = Sending(0) ELSE inflight' = inflight
    BY <1>5 DEF BulkIn
  <2>2. ~inflight.active /\ Due' = Due
    BY <2>1 DEF TransferOwned, Due
  <2>3. InTransit' = InTransit
    BY <2>1, <2>2 DEF InTransit, Sending
  <2>4. \/ inflight' = inflight
        \/ inflight'.len = 0 /\ Range(inflight'.got) = {}
    BY <2>1, EmptySeq DEF Sending, Range
  <2>5. Arrived'
    BY <1>1, <1>2, <2>1, <2>4 DEF FreshInv, Arrived
  <2>6. DueIsFresh'
    BY <1>1, <1>2, <2>1, <2>2, <2>3 DEF FreshInv, DueIsFresh
  <2>7. TransitIsFresh'
    BY <1>1, <1>2, <2>1, <2>3, <2>4 DEF FreshInv, TransitIsFresh
  <2> QED BY <1>2, <2>5, <2>6, <2>7 DEF FreshInv
<1>6. CASE Reset
  <2>1. /\ UNCHANGED <<pc, writeLen>> /\ partial' = <<>>
        /\ inflight' = Off /\ inDone' = NoCall
    BY <1>6 DEF Reset
  <2>2. /\ ~InTransit' /\ Due' = Due
        /\ Range(partial') = {} /\ Range(inflight'.got) = {}
    BY <2>1, EmptySeq DEF InTransit, Due, Off, Range
  <2>3. Arrived'
    BY <1>1, <1>2, <2>2 DEF FreshInv, Arrived
  <2> QED BY <1>1, <1>2, <2>1, <2>2, <2>3 DEF FreshInv, DueIsFresh, TransitIsFresh
<1> QED BY <1>3, <1>4, <1>5, <1>6 DEF Main

\* A message is newer than everything before it, wherever in the buffer and whenever
\* it arrives.
LEMMA FreshReceived ==
  ASSUME TypeOK, TransferOwned, FreshInv, BulkOut
  PROVE  FreshInv'
<1> USE DEF ghosts
<1>1. PICK n \in Lengths :
        /\ received' = Append(received, n) /\ writeLen' = n
        /\ writeBuf' = [b \in DOMAIN writeBuf |-> IF b <= n THEN Len(received) + 1
                                                   ELSE writeBuf[b]]
  BY DEF BulkOut, LengthOf
<1>2. UNCHANGED <<pc, inflight, inDone, partial, echoed>>
  BY DEF BulkOut
<1>3. /\ Newest \in Nat /\ Newest' = Newest + 1
      /\ \A b \in 1 .. BufferLen : writeBuf[b] \in Int
      /\ \A x \in Range(partial) \cup Range(inflight.got) : x \in Int
      /\ \A k \in DOMAIN echoed : \A x \in Range(echoed[k]) : x \in Int
  <2>1. Newest \in Nat /\ Newest' = Newest + 1
    BY <1>1, AppendProperties, LenProperties DEF Newest, TypeOK
  <2>2. \A s \in Seq(0 .. MaxMessages) : \A x \in Range(s) : x \in Int
    BY RangeOfSeq, SizeAssumption
  <2>3. \A k \in DOMAIN echoed : echoed[k] \in Seq(0 .. MaxMessages)
    BY ElementOfSeq DEF TypeOK
  <2> QED BY <2>1, <2>2, <2>3, SizeAssumption DEF TypeOK
<1>4. \A b \in 1 .. BufferLen : writeBuf'[b] \in {writeBuf[b], Newest'}
  BY <1>1, <1>3 DEF Newest, TypeOK
<1>5. Arrived'
  BY <1>2, <1>3, <1>4 DEF FreshInv, Arrived
<1>6. MayFollow(Newest)' /\ Newer(Newest)' /\ MayFollow(Newest')
  BY <1>2, <1>3 DEF FreshInv, Arrived, MayFollow, Newer
<1>7. DueIsFresh'
  <2>1. n \in Nat /\ n <= BufferLen
    BY LengthsAreSmall, SizeAssumption
  <2>2. \A b \in 1 .. n : writeBuf'[b] = Newest'
    BY <1>1, <1>3, <2>1, SizeAssumption DEF TypeOK, Newest
  <2> QED BY <1>1, <1>6, <2>2 DEF DueIsFresh
<1>8. TransitIsFresh'
  <2>1. InTransit' = InTransit
    BY <1>2 DEF InTransit
  <2>2. \A y : MayFollow(y) => MayFollow(y)'
    BY <1>2 DEF MayFollow
  <2>3. \A b \in 1 .. inflight.len : b \in 1 .. BufferLen
    BY BufferIndex, SizeAssumption
  <2>4. InTransit => \A b \in 1 .. inflight.len : MayFollow(writeBuf'[b])
    BY <1>4, <1>6, <2>3 DEF FreshInv, TransitIsFresh
  <2> QED BY <1>2, <2>1, <2>2, <2>4 DEF FreshInv, TransitIsFresh
<1>9. InTurn'
  BY <1>2 DEF FreshInv, InTurn
<1> QED BY <1>5, <1>7, <1>8, <1>9 DEF FreshInv

LEMMA FreshFetched ==
  ASSUME TypeOK, TransferOwned, FreshInv, Fetch
  PROVE  FreshInv'
<1> USE DEF ghosts, usbVars
<1> DEFINE byte == writeBuf[Len(inflight.got) + 1]
<1>1. /\ UNCHANGED <<pc, writeLen, writeBuf, received, echoed, partial, inDone>>
      /\ inflight.active /\ inflight'.active /\ inflight'.len = inflight.len
      /\ inflight'.got = Append(inflight.got, byte)
      /\ Len(inflight.got) + 1 \in 1 .. inflight.len
  BY LenProperties, BufferIndex DEF Fetch, TypeOK
<1>2. byte \in 0 .. MaxMessages /\ Len(inflight.got) + 1 \in 1 .. BufferLen
  BY <1>1, BufferIndex, SizeAssumption, LenProperties DEF TypeOK
<1>3. Range(inflight'.got) = Range(inflight.got) \cup {byte}
  <2>1. inflight'.got = inflight.got \o <<byte>>
    BY <1>1, <1>2, AppendIsConcat DEF TypeOK
  <2>2. Range(<<byte>>) = {byte}
    BY DEF Range
  <2>3. <<byte>> \in Seq(0 .. MaxMessages) /\ inflight.got \in Seq(0 .. MaxMessages)
    BY <1>2 DEF TypeOK
  <2> DEFINE one == <<byte>>
  <2> HIDE DEF one
  <2>4. Range(inflight.got \o one) = Range(inflight.got) \cup Range(one)
    BY <2>3, TogetherRange DEF one
  <2> QED BY <2>1, <2>2, <2>4 DEF one
<1>4. /\ InTransit /\ InTransit' /\ Due' = Due /\ Newest' = Newest
      /\ \A y : (MayFollow(y) => MayFollow(y)') /\ (Newer(y) => Newer(y)')
  BY <1>1 DEF InTransit, Due, Newest, MayFollow, Newer
<1>5. MayFollow(byte) /\ byte <= Newest
  BY <1>1, <1>2, <1>4 DEF FreshInv, TransitIsFresh, Arrived
<1> HIDE DEF byte
<1>6. Arrived'
  BY <1>1, <1>3, <1>4, <1>5 DEF FreshInv, Arrived
<1>7. DueIsFresh'
  BY <1>1, <1>4 DEF FreshInv, DueIsFresh
<1>8. TransitIsFresh'
  BY <1>1, <1>3, <1>4, <1>5 DEF FreshInv, TransitIsFresh
<1>9. InTurn'
  BY <1>1 DEF FreshInv, InTurn
<1> QED BY <1>6, <1>7, <1>8, <1>9 DEF FreshInv

\* The echo that ends follows those before it, and the newest message may follow it.
LEMMA FreshTaken ==
  ASSUME TypeOK, TransferOwned, FreshInv, HostTake
  PROVE  FreshInv'
<1> USE DEF ghosts
<1> DEFINE echo == partial \o inflight.got
           got == Range(partial) \cup Range(inflight.got)
<1>1. /\ UNCHANGED <<pc, writeLen, writeBuf, received>>
      /\ inflight.active /\ inflight' = Off /\ inDone' = inflight.len
  BY DEF HostTake
<1>2. /\ echo \in Seq(0 .. MaxMessages) /\ Range(echo) = got
      /\ Range(inflight'.got) = {} /\ inflight'.len = 0
  <2>1. partial \in Seq(0 .. MaxMessages) /\ inflight.got \in Seq(0 .. MaxMessages)
    BY DEF TypeOK
  <2>2. inflight'.got = <<>> /\ inflight'.len = 0
    BY <1>1 DEF Off
  <2>3. Range(inflight'.got) = {}
    BY <2>2, EmptySeq DEF Range
  <2> QED BY <2>1, <2>2, <2>3, TogetherRange
<1>3. InTransit /\ Due' = Due /\ Newest' = Newest
  BY <1>1 DEF InTransit, Due, Newest
<1>4. \A x \in got : MayFollow(x) /\ x <= Newest
  BY <1>3 DEF FreshInv, TransitIsFresh, Arrived
<1> HIDE DEF echo, got
<1>5. CASE ~EndsShort(inflight.len)
  <2>1. partial' = echo /\ echoed' = echoed /\ NeedEmptyPacket(inflight.len)
    BY <1>5 DEF HostTake, EndsShort, NeedEmptyPacket, echo
  <2>2. InTransit'
    <3>1. inflight.len # NoCall
      BY BufferIndex DEF NoCall
    <3> QED BY <1>1, <2>1, <3>1 DEF InTransit
  <2>3. \A y : (MayFollow(y) => MayFollow(y)') /\ (Newer(y) => Newer(y)')
    BY <2>1 DEF MayFollow, Newer
  <2>4. Arrived'
    BY <1>1, <1>2, <1>3, <1>4, <2>1 DEF FreshInv, Arrived
  <2>5. DueIsFresh'
    BY <1>1, <1>3, <2>3 DEF FreshInv, DueIsFresh
  <2>6. TransitIsFresh'
    BY <1>2, <1>4, <2>1, <2>2, <2>3 DEF FreshInv, TransitIsFresh
  <2>7. InTurn'
    BY <2>1 DEF FreshInv, InTurn
  <2> QED BY <2>4, <2>5, <2>6, <2>7 DEF FreshInv
<1>6. CASE EndsShort(inflight.len)
  <2>1. partial' = <<>> /\ echoed' = Append(echoed, echo)
    BY <1>6 DEF HostTake, echo
  <2>2. /\ Len(echoed) \in Nat /\ DOMAIN echoed = 1 .. Len(echoed)
        /\ Len(echoed') = Len(echoed) + 1 /\ DOMAIN echoed' = 1 .. Len(echoed) + 1
        /\ echoed'[Len(echoed) + 1] = echo
        /\ \A k \in 1 .. Len(echoed) : echoed'[k] = echoed[k]
    BY <1>2, <2>1, AppendProperties, LenProperties DEF TypeOK
  <2>3. ~InTransit'
    BY <1>1, <1>6 DEF InTransit, Off, NeedEmptyPacket, EndsShort
  <2>4. Range(partial') = {}
    BY <2>1, EmptySeq DEF Range
  <2>5. \A k \in 1 .. Len(echoed) : \A x \in Range(echoed[k]) : x <= Newest
    BY <2>2 DEF FreshInv, Arrived
  <2>6. Arrived'
    BY <1>1, <1>2, <1>3, <1>4, <2>2, <2>4, <2>5 DEF FreshInv, Arrived
  <2>7. Newest \in Int /\ \A x \in got : x \in Int
    BY <1>2, RangeOfSeq, LenProperties, SizeAssumption DEF TypeOK, Newest
  <2>8. Due => MayFollow(Newest)'
    <3> SUFFICES ASSUME Due, NEW k \in 1 .. Len(echoed) + 1, NEW x \in Range(echoed'[k])
                 PROVE  x < Newest \/ (x = Newest /\ k = Len(echoed) + 1)
      BY <1>3, <2>2 DEF MayFollow
    <3>1. CASE k = Len(echoed) + 1
      BY <1>2, <1>4, <2>2, <2>7, <3>1
    <3>2. CASE k # Len(echoed) + 1
      <4>1. k \in 1 .. Len(echoed)
        BY <2>2, <3>2
      <4> QED BY <1>3, <2>2, <4>1 DEF FreshInv, DueIsFresh, Newer
    <3> QED BY <3>1, <3>2
  <2>9. DueIsFresh'
    BY <1>1, <1>3, <2>3, <2>8 DEF FreshInv, DueIsFresh
  <2>10. TransitIsFresh'
    BY <2>1, <2>3 DEF TransitIsFresh
  <2>11. InTurn'
    <3> SUFFICES ASSUME NEW l \in 1 .. Len(echoed) + 1, NEW k \in 1 .. l - 1,
                        NEW x \in Range(echoed'[k]), NEW y \in Range(echoed'[l])
                 PROVE  x < y \/ (x = y /\ l = k + 1)
      BY <2>2 DEF InTurn
    <3>1. k \in 1 .. Len(echoed) /\ echoed'[k] = echoed[k]
      BY <2>2
    <3>2. CASE l = Len(echoed) + 1
      BY <1>2, <1>4, <2>2, <3>1, <3>2 DEF MayFollow
    <3>3. CASE l # Len(echoed) + 1
      BY <2>2, <3>1, <3>3 DEF FreshInv, InTurn
    <3> QED BY <3>2, <3>3
  <2> QED BY <2>6, <2>9, <2>10, <2>11 DEF FreshInv
<1> QED BY <1>5, <1>6

\* Whatever the host's pace and whoever resets the device, there are no more echoes
\* than messages, none goes back behind an echo before it, and a message stands in two
\* echoes only where it overwrote the message before it: that one's and its own.
THEOREM EchoesFreshAlways == Spec => []EchoesFresh
<1>1. EchoInv /\ FreshInv /\ [Next]_vars => FreshInv'
  BY FreshByItself, FreshReceived, FreshFetched, FreshTaken DEF EchoInv, Next
<1>2. EchoInv /\ FreshInv => EchoesFresh
  <2> SUFFICES ASSUME EchoInv, FreshInv PROVE EchoesFresh
    OBVIOUS
  <2>1. /\ Len(echoed) \in Nat /\ Len(received) \in Nat
        /\ Sent \in {0, 1} /\ Owed \in {0, 1}
    BY LenProperties DEF EchoInv, TypeOK, Sent, Owed
  <2>2. Len(echoed) <= Len(received)
    BY <2>1 DEF EchoInv, Counted
  <2> QED BY <2>2 DEF FreshInv, InTurn, EchoesFresh
<1> QED BY <1>1, <1>2, FreshInit, EchoInvariant, PTL DEF Spec

-----------------------------------------------------------------------------
(* The echoes of a host that waits for them. *)

\* Where the host has not sent past an echo and no reset cut one, none had before.
LEMMA PatientBefore ==
  ASSUME TypeOK, [Next]_vars, Patient'
  PROVE  Patient
<1> USE DEF Patient, TypeOK, ghosts, usbVars
<1>1. CASE BulkOut
  BY <1>1 DEF BulkOut
<1>2. CASE Reset
  BY <1>2 DEF Reset
<1>3. CASE Main \/ Fetch \/ HostTake \/ BulkIn \/ Configured \/ UNCHANGED vars
  BY <1>3 DEF Main, Poll, Mark, StartWrite, Clear, Spin, Fetch, HostTake, BulkIn,
              Configured, vars
<1> QED BY <1>1, <1>2, <1>3 DEF Next

\* A transfer that is on its way is over before app_main's next one.
LEMMA NotSending ==
  ASSUME TypeOK, TransferOwned, pc \in {"poll", "mark", "start"}
  PROVE  ~inflight.active /\ inDone = NoCall /\ ~InTransit
BY DEF TransferOwned, InTransit

LEMMA MainInOrder ==
  ASSUME TypeOK, TransferOwned, EchoOfOne, Main
  PROVE  EchoOfOne'
<1> USE DEF usbVars
<1>1. UNCHANGED <<received, waits, writeBuf, echoed, partial, inDone>>
  BY DEF Main, Poll, Mark, StartWrite, Clear, Spin
<1>2. Held' /\ EchoesSoFar'
  BY <1>1 DEF EchoOfOne, Held, EchoesSoFar, Newest, IsEcho
<1>3. CASE Poll \/ Mark \/ Clear \/ Spin
  <2>1. inflight' = inflight
    BY <1>3 DEF Poll, Mark, Clear, Spin
  <2>2. Due' => Due /\ writeLen' = writeLen
    BY <1>3 DEF Poll, Mark, Clear, Spin, Due
  <2>3. TransitIsNewest' /\ (InTransit' <=> InTransit)
    BY <1>1, <2>1 DEF EchoOfOne, TransitIsNewest, InTransit, OfNewest, Newest
  <2>4. DueIsNewest'
    BY <1>1, <2>2 DEF EchoOfOne, DueIsNewest, Newest
  <2> QED BY <1>2, <2>2, <2>3, <2>4 DEF EchoOfOne
<1>4. CASE StartWrite
  <2>1. ~Due' /\ Due /\ ~InTransit /\ inDone = NoCall /\ ~inflight.active
    BY <1>4, NotSending DEF StartWrite, Due
  <2>2. waits /\ writeLen = received[Newest] /\ partial = <<>>
    BY <2>1 DEF EchoOfOne, DueIsNewest, TransitIsNewest
  <2>3. CASE configured
    <3>1. inflight' = Sending(writeLen)
      BY <1>4, <2>3 DEF StartWrite
    <3>2. /\ inflight'.active /\ inflight'.len = writeLen /\ inflight'.got = <<>>
      BY <3>1 DEF Sending
    <3>3. Len(partial') = 0 /\ Len(inflight'.got) = 0 /\ writeLen \in Nat
      BY <1>1, <2>2, <3>2, EmptySeq, LengthsAreSmall DEF TypeOK
    <3>4. TransitIsNewest'
      BY <1>1, <2>1, <2>2, <3>2, <3>3 DEF TransitIsNewest, InTransit, OfNewest, Newest
    <3> QED BY <1>2, <2>1, <3>4 DEF EchoOfOne, DueIsNewest
  <2>4. CASE ~configured
    <3>1. inflight' = inflight
      BY <1>4, <2>4 DEF StartWrite
    <3>2. TransitIsNewest'
      BY <1>1, <2>1, <2>2, <3>1 DEF TransitIsNewest, InTransit
    <3> QED BY <1>2, <2>1, <3>2 DEF EchoOfOne, DueIsNewest
  <2> QED BY <2>3, <2>4
<1> QED BY <1>3, <1>4 DEF Main

LEMMA MessageInOrder ==
  ASSUME TypeOK, EchoOfOne, BulkOut, ~overlapped'
  PROVE  EchoOfOne'
<1> PICK n \in Lengths :
      /\ received' = Append(received, n)
      /\ writeLen' = LengthOf(n)
      /\ writeBuf' = [b \in DOMAIN writeBuf |-> IF b <= n THEN Len(received) + 1
                                                ELSE writeBuf[b]]
      /\ waits' = (waits \/ n # 0)
      /\ overlapped' = (overlapped \/ waits)
      /\ erased' = (erased \/ (pc = "clear" /\ n # 0))
  BY DEF BulkOut
<1>1. ~waits /\ (waits' <=> n # 0) /\ writeLen' = n /\ n \in Nat /\ n <= BufferLen
  <2>1. ~waits
    OBVIOUS
  <2>2. waits' <=> n # 0
    BY <2>1
  <2>3. n \in Nat /\ n <= BufferLen
    BY LengthsAreSmall, SizeAssumption
  <2> QED BY <2>1, <2>2, <2>3 DEF LengthOf
<1>2. UNCHANGED <<pc, inflight, inDone, partial, echoed>>
  BY DEF BulkOut
<1>3. /\ Newest \in Nat /\ Newest' = Newest + 1 /\ received'[Newest'] = n
      /\ \A i \in 1 .. Newest : received'[i] = received[i]
      /\ DOMAIN received = 1 .. Newest /\ DOMAIN received' = 1 .. Newest'
  <2>1. received \in Seq(Lengths) /\ Newest \in Nat /\ DOMAIN received = 1 .. Newest
    BY LenProperties DEF TypeOK, Newest
  <2>2. received' \in Seq(Lengths) /\ Len(received') = Len(received) + 1
        /\ received'[Len(received) + 1] = n
        /\ \A i \in 1 .. Len(received) : received'[i] = received[i]
    BY <2>1, AppendProperties
  <2>3. DOMAIN received' = 1 .. Len(received')
    BY <2>2, LenProperties
  <2> QED BY <2>1, <2>2, <2>3 DEF Newest
<1>4. ~inflight.active /\ ~InTransit /\ partial = <<>> /\ ~Due
  BY <1>1 DEF EchoOfOne, TransitIsNewest, DueIsNewest, InTransit
<1>5. ~InTransit' /\ TransitIsNewest'
  BY <1>2, <1>4 DEF InTransit, TransitIsNewest
<1>6. Held'
  <2> SUFFICES ASSUME waits'
               PROVE  /\ Newest' # 0 /\ received'[Newest'] # 0
                      /\ \A b \in 1 .. received'[Newest'] : writeBuf'[b] = Newest'
    BY DEF Held
  <2>1. DOMAIN writeBuf = 1 .. BufferLen
    BY DEF TypeOK
  <2>2. \A b \in 1 .. n : b \in 1 .. BufferLen /\ b <= n
    BY <1>1, SizeAssumption
  <2>3. \A b \in 1 .. n : writeBuf'[b] = Len(received) + 1
    BY <2>1, <2>2
  <2> QED BY <1>1, <1>3, <2>3 DEF Newest
<1>7. DueIsNewest'
  BY <1>1, <1>2, <1>3, <1>4 DEF Due, DueIsNewest
<1>8. EchoesSoFar'
  <2> SUFFICES ASSUME NEW k \in 1 .. Len(echoed)
               PROVE  \E i \in 1 .. Newest' :
                        /\ IsEcho(echoed[k], i)' /\ (waits' => i < Newest')
                        /\ \A l \in 1 .. k - 1 : echoed[l][1] < i
    BY <1>2 DEF EchoesSoFar
  <2>1. PICK i \in 1 .. Newest : /\ IsEcho(echoed[k], i)
                                 /\ \A l \in 1 .. k - 1 : echoed[l][1] < i
    BY DEF EchoOfOne, EchoesSoFar
  <2>2. i \in 1 .. Newest' /\ i < Newest'
    BY <1>3
  <2>3. IsEcho(echoed[k], i)'
    BY <1>2, <1>3, <2>1, <2>2 DEF IsEcho
  <2> QED BY <2>1, <2>2, <2>3
<1> QED BY <1>4, <1>5, <1>6, <1>7, <1>8 DEF EchoOfOne

LEMMA FetchInOrder ==
  ASSUME TypeOK, TransferOwned, EchoOfOne, Fetch
  PROVE  EchoOfOne'
<1> USE DEF usbVars
<1> DEFINE byte == writeBuf[Len(inflight.got) + 1]
           got == inflight.got
<1>1. /\ UNCHANGED <<pc, writeLen, received, waits, writeBuf, echoed, partial, inDone>>
      /\ inflight.active /\ Len(got) < inflight.len
      /\ inflight' = [inflight EXCEPT !.got = Append(got, byte)]
  BY DEF Fetch
<1>2. got \in Seq(0 .. MaxMessages) /\ inflight.len \in Nat /\ partial \in Seq(0 .. MaxMessages)
  <2>1. got \in Seq(0 .. MaxMessages) /\ inflight.len \in Lengths \cup {0}
    BY DEF TypeOK
  <2>2. inflight.len \in Nat
    BY <2>1, LengthIsNat
  <2>3. partial \in Seq(0 .. MaxMessages)
    BY DEF TypeOK
  <2> QED BY <2>1, <2>2, <2>3
<1>3. /\ inflight'.active /\ inflight'.len = inflight.len
      /\ inflight'.got = Append(got, byte)
  <2>1. inflight \in [active : BOOLEAN, len : Lengths \cup {0}, got : Seq(0 .. MaxMessages)]
    BY DEF TypeOK
  <2> HIDE DEF byte, got
  <2> QED BY <1>1, <2>1
<1>4. /\ waits /\ OfNewest(partial) /\ OfNewest(got)
      /\ Len(partial) + inflight.len = received[Newest]
      /\ (inflight.len # 0 => partial = <<>>)
  BY <1>1 DEF EchoOfOne, TransitIsNewest
<1>5. Len(got) \in Nat /\ Len(partial) \in Nat
  BY <1>2, LenProperties
<1>6. Len(got) + 1 \in 1 .. received[Newest]
  BY <1>1, <1>2, <1>4, <1>5
<1>7. byte = Newest
  BY <1>4, <1>6 DEF EchoOfOne, Held
<1>8. OfNewest(Append(got, byte))
  <2>1. Newest \in 0 .. MaxMessages
    BY LenProperties, SizeAssumption DEF TypeOK, Newest
  <2>2. /\ Len(Append(got, byte)) = Len(got) + 1
        /\ Append(got, byte)[Len(got) + 1] = byte
        /\ \A b \in 1 .. Len(got) : Append(got, byte)[b] = got[b]
    BY <1>2, <1>7, <2>1, AppendProperties
  <2>3. \A b \in 1 .. Len(got) + 1 : b \in 1 .. Len(got) \/ b = Len(got) + 1
    BY <1>5
  <2> HIDE DEF byte, got
  <2> QED BY <1>4, <1>7, <2>2, <2>3 DEF OfNewest
<1>9. OfNewest(inflight.got)'
  BY <1>1, <1>3, <1>8 DEF OfNewest, Newest
<1>10. TransitIsNewest'
  <2>1. OfNewest(partial)'
    BY <1>1, <1>4 DEF OfNewest, Newest
  <2>2. inDone' = NoCall /\ InTransit'
    BY <1>1, <1>3 DEF TransferOwned, InTransit
  <2> QED BY <1>1, <1>3, <1>4, <1>9, <2>1, <2>2 DEF TransitIsNewest, Newest
<1>11. Held' /\ EchoesSoFar' /\ DueIsNewest'
  BY <1>1 DEF EchoOfOne, Held, EchoesSoFar, DueIsNewest, Due, Newest, IsEcho
<1>12. ~Due'
  BY <1>1 DEF EchoOfOne, InTransit, Due
<1> QED BY <1>10, <1>11, <1>12 DEF EchoOfOne

\* The echo that ends is of the newest message, which comes after all before it.
LEMMA TakeInOrder ==
  ASSUME TypeOK, TransferOwned, EchoOfOne, HostTake
  PROVE  EchoOfOne'
<1> DEFINE got == inflight.got
           echo == partial \o got
<1>1. /\ UNCHANGED <<pc, writeLen, writeBuf, received>>
      /\ inflight.active /\ Len(got) = inflight.len
      /\ inflight' = Off /\ inDone' = inflight.len
  BY DEF HostTake, ghosts
<1>2. /\ waits /\ OfNewest(partial) /\ OfNewest(got) /\ ~Due
      /\ Len(partial) + inflight.len = received[Newest]
      /\ (inflight.len # 0 => partial = <<>>)
  BY <1>1 DEF EchoOfOne, TransitIsNewest, InTransit
<1>3. /\ got \in Seq(0 .. MaxMessages) /\ partial \in Seq(0 .. MaxMessages)
      /\ inflight.len \in Lengths \cup {0} /\ echoed \in Seq(Seq(0 .. MaxMessages))
  BY DEF TypeOK
<1>4. /\ inflight.len \in Nat /\ Len(got) \in Nat /\ Len(partial) \in Nat
      /\ Newest \in Nat /\ DOMAIN received = 1 .. Newest
  <2>1. inflight.len \in Nat
    BY <1>3, LengthIsNat
  <2>2. Len(got) \in Nat /\ Len(partial) \in Nat
    BY <1>3, LenProperties
  <2>3. Newest \in Nat /\ DOMAIN received = 1 .. Newest
    BY LenProperties DEF TypeOK, Newest
  <2> QED BY <2>1, <2>2, <2>3
<1>5. /\ echo \in Seq(0 .. MaxMessages) /\ Len(echo) = received[Newest]
      /\ OfNewest(echo)
  <2>1. /\ echo \in Seq(0 .. MaxMessages) /\ Len(echo) = Len(partial) + Len(got)
        /\ \A b \in 1 .. Len(partial) + Len(got) :
             echo[b] = IF b <= Len(partial) THEN partial[b] ELSE got[b - Len(partial)]
    BY <1>3, ConcatProperties
  <2>2. \A b \in 1 .. Len(partial) + Len(got) :
          IF b <= Len(partial) THEN b \in 1 .. Len(partial)
                               ELSE b - Len(partial) \in 1 .. Len(got)
    BY <1>4
  <2> HIDE DEF got, echo
  <2> QED BY <1>1, <1>2, <2>1, <2>2 DEF OfNewest
<1>6. ~inflight'.active /\ ~Due'
  BY <1>1, <1>2 DEF Off, Due
<1> HIDE DEF got, echo
<1>7. CASE EndsShort(inflight.len)
  <2>1. /\ echoed' = Append(echoed, echo) /\ partial' = <<>> /\ ~waits'
    BY <1>7 DEF HostTake, echo, got
  <2>2. ~InTransit' /\ TransitIsNewest'
    BY <1>1, <1>6, <1>7, <2>1 DEF InTransit, TransitIsNewest, NeedEmptyPacket, EndsShort
  <2>3. Held' /\ DueIsNewest'
    BY <1>6, <2>1 DEF Held, DueIsNewest
  <2>4. /\ Len(echoed) \in Nat /\ Len(echoed') = Len(echoed) + 1
        /\ echoed'[Len(echoed) + 1] = echo
        /\ \A k \in 1 .. Len(echoed) : echoed'[k] = echoed[k]
    BY <1>3, <1>5, <2>1, AppendProperties, LenProperties
  <2>5. Newest \in 1 .. Newest /\ received[Newest] # 0
    BY <1>2, <1>4 DEF EchoOfOne, Held
  <2>6. \A l \in 1 .. Len(echoed) : echoed[l][1] < Newest
    <3> SUFFICES ASSUME NEW l \in 1 .. Len(echoed) PROVE echoed[l][1] < Newest
      OBVIOUS
    <3>1. PICK i \in 1 .. Newest : IsEcho(echoed[l], i) /\ i < Newest
      BY <1>2 DEF EchoOfOne, EchoesSoFar
    <3>2. received[i] \in Nat /\ received[i] # 0 /\ Len(echoed[l]) = received[i]
      BY <3>1, <1>4, LengthsAreSmall, ElementOfSeq DEF IsEcho, TypeOK, Newest
    <3>3. 1 \in 1 .. Len(echoed[l])
      BY <3>2
    <3> QED BY <3>1, <3>3 DEF IsEcho
  <2>7. EchoesSoFar'
    <3> SUFFICES ASSUME NEW k \in 1 .. Len(echoed) + 1
                 PROVE  \E i \in 1 .. Newest :
                          /\ IsEcho(echoed'[k], i)
                          /\ \A l \in 1 .. k - 1 : echoed'[l][1] < i
      BY <1>1, <2>1, <2>4 DEF EchoesSoFar, IsEcho, Newest
    <3>1. \A l \in 1 .. k - 1 : l \in 1 .. Len(echoed) /\ echoed'[l] = echoed[l]
      BY <2>4
    <3>2. CASE k = Len(echoed) + 1
      <4>1. IsEcho(echoed'[k], Newest)
        BY <1>4, <1>5, <2>4, <2>5, <3>2 DEF IsEcho, OfNewest
      <4> QED BY <2>5, <2>6, <3>1, <4>1
    <3>3. CASE k # Len(echoed) + 1
      <4>1. k \in 1 .. Len(echoed) /\ echoed'[k] = echoed[k]
        BY <2>4, <3>3
      <4>2. PICK i \in 1 .. Newest : /\ IsEcho(echoed[k], i)
                                     /\ \A l \in 1 .. k - 1 : echoed[l][1] < i
        BY <4>1 DEF EchoOfOne, EchoesSoFar
      <4> QED BY <3>1, <4>1, <4>2
    <3> QED BY <3>2, <3>3
  <2> QED BY <1>6, <2>2, <2>3, <2>7 DEF EchoOfOne
<1>8. CASE ~EndsShort(inflight.len)
  <2>1. /\ echoed' = echoed /\ partial' = echo /\ waits' = waits
    BY <1>8 DEF HostTake, echo, got
  <2>2. NeedEmptyPacket(inDone)' /\ inDone' # NoCall
    BY <1>1, <1>4, <1>8 DEF NeedEmptyPacket, EndsShort, NoCall
  <2>3. OfNewest(partial)' /\ Len(partial') = received'[Newest']
    BY <1>1, <1>5, <2>1 DEF OfNewest, Newest
  <2>4. TransitIsNewest'
    BY <1>2, <1>6, <2>1, <2>2, <2>3 DEF TransitIsNewest, InTransit
  <2>5. Held' /\ EchoesSoFar' /\ DueIsNewest'
    BY <1>1, <1>6, <2>1 DEF EchoOfOne, Held, EchoesSoFar, DueIsNewest, Newest, IsEcho
  <2> QED BY <1>6, <2>4, <2>5 DEF EchoOfOne
<1> QED BY <1>7, <1>8

LEMMA CallbackInOrder ==
  ASSUME TypeOK, TransferOwned, EchoOfOne, BulkIn
  PROVE  EchoOfOne'
<1>1. /\ UNCHANGED <<pc, writeLen, writeBuf, received, partial, echoed, waits>>
      /\ inDone # NoCall /\ inDone' = NoCall /\ ~inflight.active
  BY DEF BulkIn, TransferOwned
<1>2. Held' /\ EchoesSoFar' /\ DueIsNewest' /\ (Due' <=> Due)
  BY <1>1 DEF EchoOfOne, Held, EchoesSoFar, DueIsNewest, Due, Newest, IsEcho
<1>3. CASE NeedEmptyPacket(inDone)
  <2>1. inflight' = Sending(0)
    BY <1>3 DEF BulkIn
  <2>2. inflight'.active /\ inflight'.len = 0 /\ inflight'.got = <<>>
    BY <2>1 DEF Sending
  <2>3. Len(inflight'.got) = 0
    BY <2>2, EmptySeq
  <2>4. waits /\ OfNewest(partial) /\ Len(partial) = received[Newest] /\ ~Due
    BY <1>1, <1>3 DEF EchoOfOne, TransitIsNewest, InTransit
  <2>5. OfNewest(partial)' /\ OfNewest(inflight.got)' /\ Len(partial) \in Nat
    BY <1>1, <2>3, <2>4, LenProperties DEF OfNewest, Newest, TypeOK
  <2>6. Len(partial') + inflight'.len = received'[Newest']
    BY <1>1, <2>2, <2>4, <2>5 DEF Newest
  <2>7. TransitIsNewest'
    BY <1>1, <2>2, <2>4, <2>5, <2>6 DEF TransitIsNewest, InTransit
  <2> QED BY <1>2, <2>4, <2>7 DEF EchoOfOne
<1>4. CASE ~NeedEmptyPacket(inDone)
  <2>1. inflight' = inflight
    BY <1>4 DEF BulkIn
  <2>2. ~InTransit /\ ~InTransit'
    BY <1>1, <1>4, <2>1 DEF InTransit
  <2>3. TransitIsNewest'
    BY <1>1, <2>1, <2>2 DEF EchoOfOne, TransitIsNewest
  <2> QED BY <1>2, <2>2, <2>3 DEF EchoOfOne
<1> QED BY <1>3, <1>4

LEMMA ResetInOrder ==
  ASSUME TypeOK, EchoOfOne, Reset, ~cut'
  PROVE  EchoOfOne'
<1>1. /\ UNCHANGED <<pc, writeLen, writeBuf, received, echoed>>
      /\ inflight' = Off /\ inDone' = NoCall /\ partial' = <<>> /\ ~waits'
      /\ pc = "poll" /\ writeLen = 0
  BY DEF Reset
<1>2. ~InTransit' /\ ~Due' /\ ~inflight'.active
  BY <1>1 DEF InTransit, Due, Off
<1>3. EchoesSoFar'
  BY <1>1 DEF EchoOfOne, EchoesSoFar, Newest, IsEcho
<1> QED BY <1>1, <1>2, <1>3 DEF EchoOfOne, Held, DueIsNewest, TransitIsNewest

LEMMA InOrderStep ==
  ASSUME EchoInv, InOrder, [Next]_vars
  PROVE  InOrder'
<1> SUFFICES ASSUME Patient' PROVE EchoOfOne'
  BY DEF InOrder
<1>1. TypeOK /\ TransferOwned
  BY DEF EchoInv
<1>2. EchoOfOne /\ ~overlapped' /\ ~cut'
  BY <1>1, PatientBefore DEF InOrder, Patient
<1>3. CASE Configured \/ UNCHANGED vars
  <2>1. UNCHANGED <<pc, writeLen, writeBuf, inflight, inDone, received, partial,
                    echoed, waits>>
    BY <1>3 DEF Configured, vars
  <2> QED BY <1>2, <2>1
          DEF EchoOfOne, Held, DueIsNewest, TransitIsNewest, EchoesSoFar, InTransit,
              Due, OfNewest, Newest, IsEcho
<1> QED BY <1>1, <1>2, <1>3, MainInOrder, MessageInOrder, FetchInOrder, TakeInOrder,
           CallbackInOrder, ResetInOrder DEF Next

LEMMA InOrderInit == Init => InOrder
<1> SUFFICES ASSUME Init PROVE EchoOfOne
  BY DEF InOrder
<1>1. /\ ~waits /\ ~Due /\ ~InTransit /\ ~inflight.active /\ partial = <<>>
  BY DEF Init, Due, InTransit, Off, NoCall
<1>2. Len(echoed) = 0
  BY EmptySeq DEF Init
<1> QED BY <1>1, <1>2
        DEF EchoOfOne, Held, DueIsNewest, TransitIsNewest, EchoesSoFar, InTransit

\* "sends back any received data": the echoes a host gets that waits for each of
\* them, uncut by a reset, are its messages, whole and in the order it sent them,
\* although app_main and the interrupt share the buffer without a lock.
THEOREM EchoesInOrderAlways == Spec => []EchoesInOrder
<1>1. Init => EchoInv /\ InOrder
  BY TypeInit, EmptySeq, InOrderInit
     DEF Init, EchoInv, TransferOwned, Counted, Sent, Owed, InTransit, Due, Off, NoCall
<1>2. EchoInv /\ InOrder /\ [Next]_vars => InOrder'
  BY InOrderStep
<1>3. EchoInv /\ InOrder => EchoesInOrder
  <2> SUFFICES ASSUME EchoInv, EchoOfOne, NEW k \in DOMAIN echoed
               PROVE  \E i \in NotEmpty : /\ echoed[k] = Message(i)
                                          /\ \A l \in 1 .. k - 1 : echoed[l][1] < i
    BY DEF EchoesInOrder, InOrder, Patient
  <2>1. k \in 1 .. Len(echoed) /\ echoed[k] \in Seq(0 .. MaxMessages)
    BY LenProperties, ElementOfSeq DEF EchoInv, TypeOK
  <2>2. PICK i \in 1 .. Newest : /\ IsEcho(echoed[k], i)
                                 /\ \A l \in 1 .. k - 1 : echoed[l][1] < i
    BY <2>1 DEF EchoOfOne, EchoesSoFar
  <2>3. i \in NotEmpty
    BY <2>2 DEF IsEcho, NotEmpty
  <2>4. echoed[k] = [b \in 1 .. Len(echoed[k]) |-> i]
    <3>1. echoed[k] = [b \in 1 .. Len(echoed[k]) |-> echoed[k][b]]
      BY <2>1
    <3> QED BY <2>2, <3>1 DEF IsEcho
  <2>5. echoed[k] = Message(i)
    BY <2>2, <2>4 DEF IsEcho, Message
  <2> QED BY <2>2, <2>3, <2>5
<1> QED BY <1>1, <1>2, <1>3, EchoInvariant, PTL DEF Spec
=============================================================================
