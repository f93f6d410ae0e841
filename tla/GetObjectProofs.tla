-------------------------- MODULE GetObjectProofs --------------------------
(***************************************************************************)
(* Proofs about GetObject, for every size of header, packet, half and      *)
(* file and every request: the buffer's halves are never confused, so that *)
(* the download is the stream of bytes that ByteStream promises.           *)
(***************************************************************************)
EXTENDS GetObject, SequenceTheorems, TLAPS

-----------------------------------------------------------------------------
(***************************************************************************)
(* The induction invariant.                                                *)
(***************************************************************************)

PCs == {"begin", "read", "wait", "write", "end", "zlp", "answer", "answered"}
InLoop == pc \in {"read", "wait", "write"}

Types ==
  /\ req \in Requests
  /\ pc \in PCs /\ res \in {"ok", "refused", "incomplete"}
  /\ total \in Nat /\ fileSize \in Nat /\ pos \in Nat
  /\ readLen \in Nat /\ lastLen \in Nat
  /\ announced \in Nat /\ actual \in Int
  /\ data \in {HeadLen, HeadLen + MaxLen}
  /\ buff \in [Places -> Int]
  /\ inflight \in [at : {0, MaxLen}, len : 0 .. (HeadLen + MaxLen),
                   sent : 0 .. (HeadLen + MaxLen), busy : BOOLEAN]
  /\ notified \in BOOLEAN /\ ended \in BOOLEAN
  /\ delivered \in Seq(Int)

\* Where the next part is sent from, and how many bytes of the file the parts
\* before it had.
Base == IF data = HeadLen THEN 0 ELSE MaxLen
Before == Wanted - fileSize

\* What each place of the loop says of the sizes and of the result.
Progress ==
  /\ pc = "begin" => res = "ok" /\ data = HeadLen
  /\ InLoop => res = "ok" /\ fileSize \in 1 .. Wanted
  /\ pc = "read" => pos = Offset + Before
  /\ pc \in {"wait", "write"} => /\ readLen = Smaller(fileSize, MaxLen)
                                 /\ pos = Offset + Before + readLen
  /\ res = "ok" /\ pc \in {"end", "zlp", "answer", "answered"} => fileSize = 0
  /\ res = "refused" => pc = "answered"
  /\ res = "incomplete" => pc \in {"end", "zlp", "answer", "answered"}
                           /\ fileSize \in 1 .. Wanted
  /\ pc # "begin" /\ res # "refused" =>
       total = ClampedTotal /\ announced = HeadLen + total
  /\ pc = "answered" /\ res = "ok" => actual = total

\* Either a transfer is under way or its notification is due, never both; and
\* neither before the first part and while no transfer has to be waited for.
Turns ==
  /\ pc \in {"begin", "write", "answer", "answered"} => ~inflight.busy /\ ~notified
  /\ pc \in {"read", "wait"} \/ (pc = "end" /\ res = "incomplete") =>
       IF fileSize = Wanted THEN ~inflight.busy /\ ~notified
                            ELSE inflight.busy # notified
  /\ pc = "zlp" \/ (pc = "end" /\ res = "ok") => inflight.busy # notified

\* A transfer under way in the loop is the half that is not being read into.
Halves ==
  inflight.busy =>
    /\ inflight.sent < inflight.len \/ (inflight.len = 0 /\ inflight.sent = 0)
    /\ InLoop => inflight.len = MaxLen /\ inflight.at = MaxLen - Base
    /\ pc = "end" => inflight.len = IF res = "ok" THEN lastLen ELSE MaxLen
    /\ pc = "zlp" => inflight.len = 0

\* The buffer holds the part that is sent next, from the header's place on: its
\* first HeadLen bytes are those that the part before displaced.
Filled ==
  /\ pc = "begin" => \A k \in 0 .. HeadLen - 1 : buff[k] = k
  /\ pc = "read" => \A k \in 0 .. HeadLen - 1 : buff[Base + k] = Before + k
  /\ pc \in {"wait", "write"} =>
       \A k \in 0 .. HeadLen + readLen - 1 : buff[Base + k] = Before + k

\* Bytes of the stream that transfers were started for, and those that the
\* transfer under way has not delivered yet.
Started ==
  IF pc = "begin" \/ res = "refused" THEN 0
  ELSE IF InLoop \/ res = "incomplete" THEN Before
  ELSE HeadLen + Wanted
Rest == IF inflight.busy THEN inflight.len - inflight.sent ELSE 0

\* The host has the bytes of the stream in order, and the buffer still holds the
\* rest of those that are under way.
Stream ==
  /\ Len(delivered) + Rest = Started
  /\ \A i \in 1 .. Len(delivered) : delivered[i] = i - 1
  /\ inflight.busy => \A k \in 0 .. Rest - 1 :
                        buff[inflight.at + inflight.sent + k] = Len(delivered) + k

DownloadInv == Types /\ Progress /\ Turns /\ Halves /\ Filled /\ Stream

-----------------------------------------------------------------------------
(***************************************************************************)
(* Short packets.                                                          *)
(***************************************************************************)

\* A packet shorter than Mps is seen when the last part, or the empty packet
\* after it, was taken; every packet before is full.
Packets ==
  /\ inflight.busy => inflight.sent % Mps = 0 /\ ~ended
  /\ pc = "begin" \/ InLoop => ~ended
  /\ pc = "end" =>
       IF res = "ok" THEN lastLen > 0 /\ (notified => (ended <=> ~NeedSendEnd(lastLen)))
                     ELSE ~ended /\ lastLen = 0
  /\ pc = "zlp" => (ended <=> notified)
  /\ pc \in {"answer", "answered"} => ended \/ res = "refused"

\* The first part waits for nothing, and forever, when the file's size was taken
\* for the length asked for.
FirstPartWaits ==
  pc # "begin" /\ res # "refused" /\ Wanted > 0 /\ total # Wanted =>
    fileSize = Wanted /\ pc \in {"read", "wait", "end"}

-----------------------------------------------------------------------------
(* Sizes. *)

\* The next multiple.
LEMMA NextMultiple ==
  ASSUME NEW m \in Nat \ {0}, NEW b \in Nat, b % m = 0
  PROVE  (b + m) % m = 0
<1>1. b = m * (b \div m) /\ b \div m \in Nat  OBVIOUS
<1>2. PICK l \in Nat : b = m * l  BY <1>1
<1> DEFINE c == b + m
<1>3. c = m * (c \div m) + (c % m) /\ c \div m \in Int /\ c % m \in 0 .. m - 1
  OBVIOUS
<1>4. PICK d \in Int, r \in 0 .. m - 1 : b + m = m * d + r /\ (b + m) % m = r
  BY <1>3
<1>5. r = m * (l + 1 - d)  BY <1>2, <1>4
<1>6. l + 1 - d <= 0
  <2>1. SUFFICES ASSUME l + 1 - d >= 1 PROVE FALSE  OBVIOUS
  <2>2. m * (l + 1 - d) >= m  BY <2>1
  <2>3. QED BY <1>5, <2>2
<1>7. l + 1 - d >= 0
  <2>1. SUFFICES ASSUME l + 1 - d <= -1 PROVE FALSE  OBVIOUS
  <2>2. m * (l + 1 - d) <= -m  BY <2>1
  <2>3. QED BY <1>5, <2>2
<1>8. l + 1 - d = 0  BY <1>6, <1>7
<1>9. QED BY <1>4, <1>5, <1>8

\* A multiple of m that is not zero is not less than m, and what is left of it
\* after a smaller multiple is one again.
LEMMA Multiples ==
  ASSUME NEW m \in Nat \ {0}, NEW a \in Nat, NEW b \in Nat,
         a % m = 0, b % m = 0, b < a
  PROVE  m <= a /\ (b + m) % m = 0 /\ b + m <= a
<1>1. a = m * (a \div m) /\ b = m * (b \div m)  OBVIOUS
<1>2. PICK k \in Nat, l \in Nat : a = m * k /\ b = m * l  BY <1>1
<1>3. l < k
  <2>1. SUFFICES ASSUME k <= l PROVE FALSE  OBVIOUS
  <2>2. m * k <= m * l  BY <2>1
  <2>3. QED BY <1>2, <2>2
<1>4. m * (l + 1) <= m * k  BY <1>3
<1>5. b + m <= a  BY <1>2, <1>4
<1>6. (b + m) % m = 0  BY NextMultiple
<1>7. QED BY <1>5, <1>6

LEMMA Sizes ==
  /\ HeadLen \in Nat /\ Mps \in Nat /\ MaxLen \in Nat /\ Prefetch \in Nat
  /\ 0 < HeadLen /\ HeadLen < Mps /\ Mps <= MaxLen /\ HeadLen <= Prefetch
<1>1. Mps <= MaxLen  BY SizeAssumption, Multiples
<1>2. QED BY <1>1, SizeAssumption, PrefetchAssumption

LEMMA Request ==
  ASSUME req \in Requests
  PROVE  /\ req.size \in Nat /\ Offset \in 0 .. req.size
         /\ Wanted \in Nat /\ Offset + Wanted <= req.size
         /\ ClampedTotal \in Nat /\ Wanted <= ClampedTotal
<1>1. req.size \in Nat /\ req.offset \in Nat /\ req.max \in Nat
  BY RequestAssumption
<1>2. QED BY <1>1 DEF Offset, Wanted, ClampedTotal, Smaller

-----------------------------------------------------------------------------
(* The first state, and the steps of the task. *)

USE DEF Types, PCs, InLoop

LEMMA InvInit == Init => DownloadInv
<1>1. SUFFICES ASSUME Init PROVE DownloadInv  OBVIOUS
<1>2. req.size \in Nat  BY <1>1, Request DEF Init
<1>3. buff \in [Places -> Int]  BY <1>1, Sizes DEF Init, Places, Unset
<1>4. Types
  <2>1. NoTransfer \in [at : {0, MaxLen}, len : 0 .. (HeadLen + MaxLen),
                        sent : 0 .. (HeadLen + MaxLen), busy : BOOLEAN]
    BY Sizes DEF NoTransfer
  <2>2. inflight \in [at : {0, MaxLen}, len : 0 .. (HeadLen + MaxLen),
                      sent : 0 .. (HeadLen + MaxLen), busy : BOOLEAN]
    BY <1>1, <2>1 DEF Init
  <2>3. delivered \in Seq(Int)  BY <1>1 DEF Init
  <2>4. /\ total = req.size /\ fileSize = 0 /\ pos = 0 /\ readLen = 0 /\ lastLen = 0
        /\ announced = 0 /\ actual = 0 /\ data = HeadLen
        /\ req \in Requests /\ pc = "begin" /\ res = "ok"
        /\ notified = FALSE /\ ended = FALSE
    BY <1>1 DEF Init
  <2>5. total \in Nat /\ fileSize \in Nat /\ pos \in Nat /\ readLen \in Nat
        /\ lastLen \in Nat /\ announced \in Nat /\ actual \in Int
    BY <1>2, <2>4
  <2>6. notified \in BOOLEAN /\ ended \in BOOLEAN  BY <2>4
  <2>7. QED BY <1>3, <2>2, <2>3, <2>4, <2>5, <2>6
<1>5. Progress
  <2>1. pc = "begin" /\ res = "ok" /\ data = HeadLen  BY <1>1 DEF Init
  <2>2. QED BY <2>1 DEF Progress
<1>6. Turns  BY <1>1 DEF Init, Turns, NoTransfer
<1>7. Halves  BY <1>1 DEF Init, Halves, NoTransfer
<1>8. Filled
  <2>1. \A k \in 0 .. HeadLen - 1 : buff[k] = k  BY <1>1, Sizes DEF Init, Places
  <2>2. QED BY <1>1, <2>1 DEF Init, Filled
<1>9. Stream  BY <1>1 DEF Init, Stream, Started, Rest, NoTransfer
<1>10. QED BY <1>4, <1>5, <1>6, <1>7, <1>8, <1>9 DEF DownloadInv

LEMMA InvNotFound ==
  ASSUME DownloadInv, NotFound
  PROVE  DownloadInv'
<1>1. Types'  BY DEF DownloadInv, NotFound
<1>2. Progress'  BY DEF DownloadInv, NotFound, Progress
<1>3. Turns'  BY DEF DownloadInv, NotFound, Turns
<1>4. Halves'  BY DEF DownloadInv, NotFound, Turns, Halves
<1>5. Filled'  BY DEF DownloadInv, NotFound, Filled
<1>6. Stream'  BY DEF DownloadInv, NotFound, Turns, Stream, Started, Rest
<1>7. QED BY <1>1, <1>2, <1>3, <1>4, <1>5, <1>6 DEF DownloadInv

LEMMA InvPrepare ==
  ASSUME DownloadInv, Prepare
  PROVE  DownloadInv'
<1>1. /\ Offset \in Nat /\ Wanted \in Nat /\ ClampedTotal \in Nat
      /\ Offset' = Offset /\ Wanted' = Wanted /\ ClampedTotal' = ClampedTotal
  BY Request DEF DownloadInv, Prepare, Offset, Wanted, ClampedTotal
<1>2. /\ pc = "begin" /\ res = "ok" /\ data = HeadLen /\ Before' = 0 /\ Base' = 0
      /\ ~inflight.busy /\ ~notified /\ Len(delivered) = 0
  BY <1>1 DEF DownloadInv, Prepare, Progress, Turns, Stream, Started, Rest, Before, Base
<1>3. Types'
  <2>1. inflight' \in {inflight, Transfer(0, HeadLen)} /\ lastLen' \in {lastLen, HeadLen}
        /\ pc' \in {"read", "end"} /\ announced' = HeadLen + ClampedTotal
        /\ UNCHANGED <<req, data, readLen, buff, notified, delivered, ended, res, actual>>
        /\ pos' = Offset /\ fileSize' = Wanted /\ total' = ClampedTotal
    BY DEF Prepare
  <2>2. Transfer(0, HeadLen) \in [at : {0, MaxLen}, len : 0 .. (HeadLen + MaxLen),
                                  sent : 0 .. (HeadLen + MaxLen), busy : BOOLEAN]
    BY Sizes DEF Transfer
  <2>3. QED BY <1>1, <2>1, <2>2, Sizes DEF DownloadInv
<1>4. Progress'  BY <1>1, <1>2 DEF DownloadInv, Prepare, Progress
<1>5. CASE Wanted = 0
  <2>1. /\ pc' = "end" /\ inflight' = Transfer(0, HeadLen) /\ lastLen' = HeadLen
        /\ UNCHANGED <<buff, delivered, res, notified>>
    BY <1>5 DEF Prepare
  <2>2. Turns'  BY <1>2, <2>1 DEF Turns, Transfer
  <2>3. Halves'  BY <1>2, <2>1, Sizes DEF Halves, Transfer
  <2>4. Filled'  BY <2>1 DEF Filled
  <2>5. Stream'
    BY <1>1, <1>2, <1>5, <2>1, Sizes
    DEF DownloadInv, Filled, Stream, Started, Rest, Transfer
  <2>6. QED BY <1>3, <1>4, <2>2, <2>3, <2>4, <2>5 DEF DownloadInv
<1>6. CASE Wanted # 0
  <2>1. /\ pc' = "read" /\ fileSize' = Wanted
        /\ UNCHANGED <<buff, delivered, res, notified, inflight, data>>
    BY <1>6 DEF Prepare
  <2>2. Turns'  BY <1>1, <1>2, <2>1 DEF Turns
  <2>3. Halves'  BY <1>2, <2>1 DEF Halves
  <2>4. Filled'  BY <1>2, <2>1, Sizes DEF DownloadInv, Filled
  <2>5. Stream'  BY <1>2, <2>1 DEF DownloadInv, Stream, Started, Rest
  <2>6. QED BY <1>3, <1>4, <2>2, <2>3, <2>4, <2>5 DEF DownloadInv
<1>7. QED BY <1>5, <1>6

\* The file read fills the half beside the one that is being sent, and the
\* bytes that the two share were taken already.
LEMMA InvReadFile ==
  ASSUME DownloadInv, ReadFile
  PROVE  DownloadInv'
<1>1. /\ Offset \in Nat /\ Wanted \in Nat /\ Wanted <= ClampedTotal
      /\ ClampedTotal \in Nat
      /\ Offset' = Offset /\ Wanted' = Wanted /\ ClampedTotal' = ClampedTotal
      /\ Base' = Base /\ Before' = Before /\ Started' = Started /\ Rest' = Rest
  BY Request DEF DownloadInv, ReadFile, Offset, Wanted, ClampedTotal, Base, Before,
                 Started, Rest, Progress, WaitFirst
<1>2. /\ pc = "read" /\ pc' \in {"wait", "write"} /\ res = "ok"
      /\ fileSize \in 1 .. Wanted /\ pos = Offset + Before /\ Before \in Nat
      /\ readLen' = Smaller(fileSize, MaxLen) /\ readLen' \in 1 .. MaxLen
      /\ pos' = pos + readLen'
      /\ UNCHANGED <<req, total, fileSize, data, lastLen, announced, inflight,
                      notified, delivered, ended, res, actual>>
  BY <1>1, Sizes DEF DownloadInv, ReadFile, Progress, WaitFirst, Before, Smaller
<1>3. data = HeadLen + Base /\ Base \in {0, MaxLen}  BY Sizes DEF DownloadInv, Base
<1>4. /\ buff' \in [Places -> Int]
      /\ \A p \in Places :
           buff'[p] = IF p \in data .. data + readLen' - 1
                      THEN HeadLen + Before + (p - data) ELSE buff[p]
  <2>1. buff' = [p \in Places |-> IF p \in data .. data + readLen' - 1
                                 THEN HeadLen + pos + (p - data) - Offset ELSE buff[p]]
    BY DEF ReadFile
  <2>2. buff \in [Places -> Int] /\ \A p \in Places : p \in Int
    BY DEF DownloadInv, Places
  <2>3. data \in Int /\ pos \in Int /\ HeadLen \in Int /\ Before \in Int
    BY <1>2, <1>3, Sizes DEF DownloadInv
  <2>4. ASSUME NEW p \in Places
        PROVE  HeadLen + pos + (p - data) - Offset = HeadLen + Before + (p - data)
    BY <1>1, <1>2, <2>2, <2>3
  <2>5. \A p \in Places : HeadLen + Before + (p - data) \in Int  BY <2>2, <2>3
  <2>6. QED BY <2>1, <2>2, <2>4, <2>5, Zenon
<1>5. Types'  BY <1>1, <1>2, <1>4, Sizes DEF DownloadInv, ReadFile
<1>6. Progress'  BY <1>1, <1>2 DEF DownloadInv, Progress
<1>7. Turns'
  <2>1. IF fileSize = Wanted THEN ~inflight.busy /\ ~notified
                             ELSE inflight.busy # notified
    BY <1>2 DEF DownloadInv, Turns
  <2>2. pc' = "write" => fileSize = Wanted
    BY <1>1, <1>2 DEF DownloadInv, ReadFile, WaitFirst, Progress
  <2>3. QED BY <1>1, <1>2, <2>1, <2>2 DEF Turns
<1>8. Halves'  BY <1>1, <1>2 DEF DownloadInv, Halves
<1>9. Filled'
  <2>1. SUFFICES ASSUME NEW k \in 0 .. HeadLen + readLen' - 1
                 PROVE  buff'[Base + k] = Before + k
    BY <1>1, <1>2 DEF Filled
  <2>2. Base + k \in Places  BY <1>2, <1>3, Sizes DEF Places
  <2>3. CASE k < HeadLen
    BY <1>2, <1>3, <1>4, <2>2, <2>3, Sizes, SMTT(20) DEF DownloadInv, Filled
  <2>4. CASE k >= HeadLen
    BY <1>2, <1>3, <1>4, <2>2, <2>4, Sizes
  <2>5. QED BY <2>3, <2>4, Sizes
<1>10. Stream'
  <2>1. ASSUME inflight.busy, NEW k \in 0 .. Rest - 1
        PROVE  LET p == inflight.at + inflight.sent + k
               IN  p \in Places /\ p \notin data .. data + readLen' - 1
    <3>1. inflight.len = MaxLen /\ inflight.at = MaxLen - Base /\ Rest = MaxLen - inflight.sent
      BY <1>2, <2>1 DEF DownloadInv, Halves, Rest
    <3>2. inflight.sent \in Nat /\ inflight.sent >= HeadLen
      BY <2>1, <3>1, Sizes DEF DownloadInv, ReadFile, Prefetched, Smaller
    <3>3. QED BY <1>2, <1>3, <2>1, <3>1, <3>2, Sizes DEF Places
  <2>2. QED BY <1>1, <1>2, <1>4, <2>1 DEF DownloadInv, Stream
<1>11. QED BY <1>5, <1>6, <1>7, <1>8, <1>9, <1>10 DEF DownloadInv

\* What was asked for does not change.
LEMMA Asked ==
  ASSUME DownloadInv, req' = req
  PROVE  /\ Offset \in Nat /\ Wanted \in Nat /\ ClampedTotal \in Nat
         /\ Wanted <= ClampedTotal
         /\ Offset' = Offset /\ Wanted' = Wanted /\ ClampedTotal' = ClampedTotal
BY Request DEF DownloadInv, Offset, Wanted, ClampedTotal

LEMMA InvReadError ==
  ASSUME DownloadInv, ReadError
  PROVE  DownloadInv'
<1>1. /\ Wanted \in Nat /\ Offset' = Offset /\ Wanted' = Wanted
      /\ ClampedTotal' = ClampedTotal
  BY Asked DEF ReadError
<1>2. /\ pc = "read" /\ res = "ok" /\ pc' = "end" /\ res' = "incomplete" /\ lastLen' = 0
      /\ fileSize \in 1 .. Wanted
      /\ UNCHANGED <<req, total, fileSize, pos, data, readLen, buff, announced,
                     inflight, notified, delivered, ended, actual>>
  BY DEF DownloadInv, ReadError, Progress
<1>3. Types'  BY <1>2 DEF DownloadInv
<1>4. Progress'  BY <1>1, <1>2 DEF DownloadInv, Progress
<1>5. Turns'  BY <1>1, <1>2 DEF DownloadInv, Turns
<1>6. Halves'  BY <1>2 DEF DownloadInv, Halves
<1>7. Filled'  BY <1>2 DEF Filled
<1>8. Stream'  BY <1>1, <1>2 DEF DownloadInv, Stream, Started, Rest, Before
<1>9. QED BY <1>3, <1>4, <1>5, <1>6, <1>7, <1>8 DEF DownloadInv

LEMMA InvWait ==
  ASSUME DownloadInv, Wait
  PROVE  DownloadInv'
<1>1. /\ Wanted \in Nat /\ Offset' = Offset /\ Wanted' = Wanted
      /\ ClampedTotal' = ClampedTotal
  BY Asked DEF Wait
<1>2. /\ pc = "wait" /\ notified /\ pc' = "write" /\ notified' = FALSE
      /\ UNCHANGED <<req, total, fileSize, pos, data, readLen, lastLen, buff,
                     announced, inflight, delivered, ended, res, actual>>
  BY DEF Wait
<1>3. ~inflight.busy  BY <1>2 DEF DownloadInv, Turns
<1>4. Types'  BY <1>2 DEF DownloadInv
<1>5. Progress'  BY <1>1, <1>2 DEF DownloadInv, Progress, Before
<1>6. Turns'  BY <1>2, <1>3 DEF Turns
<1>7. Halves'  BY <1>2, <1>3 DEF Halves
<1>8. Filled'  BY <1>1, <1>2 DEF DownloadInv, Filled, Base, Before
<1>9. Stream'  BY <1>1, <1>2 DEF DownloadInv, Stream, Started, Rest, Before
<1>10. QED BY <1>4, <1>5, <1>6, <1>7, <1>8, <1>9 DEF DownloadInv

\* Sending a part turns to the other half; the bytes that the part displaced are
\* in the place where the next one is sent from.
LEMMA InvWrite ==
  ASSUME DownloadInv, Write
  PROVE  DownloadInv'
<1>1. /\ Wanted \in Nat /\ Offset \in Nat /\ Offset' = Offset /\ Wanted' = Wanted
      /\ ClampedTotal' = ClampedTotal
  BY Asked DEF Write
<1>2. /\ pc = "write" /\ res = "ok" /\ ~inflight.busy /\ notified = FALSE
      /\ fileSize \in 1 .. Wanted /\ readLen = Smaller(fileSize, MaxLen)
      /\ readLen \in 1 .. MaxLen /\ readLen <= fileSize
      /\ UNCHANGED <<req, total, pos, readLen, announced, notified, delivered,
                     ended, res, actual>>
  BY Sizes DEF DownloadInv, Write, Progress, Turns, Smaller
<1>3. /\ fileSize' = fileSize - readLen /\ fileSize' \in 0 .. Wanted - 1
      /\ lastLen' = IF fileSize' > 0 THEN MaxLen ELSE HeadLen + readLen
      /\ lastLen' \in 1 .. HeadLen + readLen
      /\ pc' = IF fileSize' = 0 THEN "end" ELSE "read"
      /\ fileSize' > 0 => readLen = MaxLen
  <2>1. /\ fileSize' = fileSize - readLen
        /\ lastLen' = IF fileSize' > 0 THEN readLen ELSE HeadLen + readLen
        /\ pc' = IF fileSize' = 0 THEN "end" ELSE "read"
    BY DEF Write, Left, SendLen
  <2>2. fileSize' \in 0 .. Wanted - 1 /\ (fileSize' > 0 => readLen = MaxLen)
    BY <1>1, <1>2, <2>1, Sizes DEF Smaller
  <2>3. QED BY <1>1, <1>2, <2>1, <2>2, Sizes
<1>4. /\ data = HeadLen + Base /\ Base \in {0, MaxLen} /\ Base' = MaxLen - Base
      /\ data' \in {HeadLen, HeadLen + MaxLen}
      /\ inflight' = Transfer(Base, lastLen')
      /\ buff' = IF Base = 0 THEN buff ELSE Carried
  BY Sizes DEF DownloadInv, Write, Base
<1>5. /\ Before \in Nat /\ Before' = Before + readLen /\ Before' \in 1 .. Wanted
      /\ Before + fileSize = Wanted
  BY <1>1, <1>2, <1>3 DEF Before
<1>6. /\ buff \in [Places -> Int]
      /\ \A k \in 0 .. HeadLen + readLen - 1 : buff[Base + k] = Before + k
  BY <1>2 DEF DownloadInv, Filled
<1>7. /\ buff' \in [Places -> Int]
      /\ \A p \in Places : p >= HeadLen \/ Base = 0 => buff'[p] = buff[p]
      /\ Base = MaxLen => \A p \in 0 .. HeadLen - 1 : buff'[p] = buff[Base + readLen + p]
  <2>1. CASE Base = 0  BY <1>4, <1>6, <2>1, Sizes
  <2>2. CASE Base = MaxLen
    <3>1. buff' = [p \in Places |-> IF p < HeadLen THEN buff[data + readLen - HeadLen + p]
                                                   ELSE buff[p]]
      BY <1>4, <2>2, Sizes DEF Carried
    <3>2. \A p \in 0 .. HeadLen - 1 : /\ data + readLen - HeadLen + p = Base + readLen + p
                                      /\ Base + readLen + p \in Places /\ p \in Places
      BY <1>2, <1>4, <2>2, Sizes DEF Places
    <3>3. \A p \in Places : p \in Int /\ (p < HeadLen => p \in 0 .. HeadLen - 1)
      BY Sizes DEF Places
    <3>4. \A p \in Places : p >= HeadLen => ~(p < HeadLen)  BY <3>3, Sizes
    <3>5. QED BY <1>6, <2>2, <3>1, <3>2, <3>3, <3>4, Sizes
  <2>3. QED BY <1>4, <2>1, <2>2
<1>8. /\ inflight'.at = Base /\ inflight'.len = lastLen' /\ inflight'.sent = 0
      /\ inflight'.busy = TRUE
  BY <1>4 DEF Transfer
<1>9. Types'
  <2>1. inflight' \in [at : {0, MaxLen}, len : 0 .. (HeadLen + MaxLen),
                       sent : 0 .. (HeadLen + MaxLen), busy : BOOLEAN]
    BY <1>2, <1>3, <1>4, Sizes DEF Transfer
  <2>2. pc' \in PCs /\ fileSize' \in Nat /\ lastLen' \in Nat  BY <1>1, <1>2, <1>3, Sizes
  <2>3. QED BY <1>2, <1>4, <1>7, <2>1, <2>2 DEF DownloadInv
<1>10. Progress'
  <2>1. pos = Offset + Before'  BY <1>1, <1>2, <1>5, Sizes, SMTT(20) DEF DownloadInv, Progress
  <2>2. QED BY <1>1, <1>2, <1>3, <2>1, SMTT(20) DEF DownloadInv, Progress
<1>11. Turns'
  <2>1. pc' \in {"read", "end"} /\ res' = "ok" /\ (inflight'.busy) # notified'
    BY <1>2, <1>3, <1>8
  <2>2. fileSize' # Wanted'  BY <1>1, <1>3
  <2>3. QED BY <2>1, <2>2 DEF Turns
<1>12. Halves'  BY <1>2, <1>3, <1>4, <1>8, Sizes DEF Halves
<1>13. Filled'
  <2>1. ASSUME pc' = "read", NEW k \in 0 .. HeadLen - 1
        PROVE  buff'[Base' + k] = Before' + k
    <3>1. readLen = MaxLen  BY <1>2, <1>3, <2>1
    <3>2. buff[Base + (MaxLen + k)] = Before + MaxLen + k
      BY <1>5, <1>6, <3>1, Sizes
    <3>3. CASE Base = 0
      BY <1>4, <1>5, <1>7, <3>1, <3>2, <3>3, Sizes DEF Places
    <3>4. CASE Base = MaxLen
      BY <1>4, <1>5, <1>7, <3>1, <3>2, <3>4, Sizes
    <3>5. QED BY <1>4, <3>3, <3>4
  <2>2. QED BY <1>3, <2>1 DEF Filled
<1>14. Stream'
  <2>1. Len(delivered) = Before  BY <1>2, <1>5 DEF DownloadInv, Stream, Started, Rest
  <2>2. Rest' = lastLen'  BY <1>3, <1>8, <1>2, Sizes DEF Rest
  <2>3. Started' = Before + lastLen'
    <3>1. CASE fileSize' = 0
      <4>1. pc' = "end" /\ res' = "ok" /\ lastLen' = HeadLen + readLen /\ readLen = fileSize
        BY <1>2, <1>3, <3>1
      <4>2. Started' = HeadLen + Wanted  BY <1>1, <4>1 DEF Started
      <4>3. QED BY <1>1, <1>2, <1>5, <4>1, <4>2, Sizes
    <3>2. CASE fileSize' > 0
      <4>1. pc' = "read" /\ res' = "ok" /\ lastLen' = readLen  BY <1>2, <1>3, <3>2
      <4>2. QED BY <1>5, <4>1 DEF Started
    <3>3. QED BY <1>3, <3>1, <3>2
  <2>4. ASSUME NEW k \in 0 .. lastLen' - 1  PROVE  buff'[Base + k] = Before + k
    <3>1. k \in 0 .. HeadLen + readLen - 1 /\ Base + k \in Places
      BY <1>2, <1>3, <1>4, <2>4, Sizes DEF Places
    <3>2. Base + k >= HeadLen \/ Base = 0  BY <1>4, <3>1, Sizes
    <3>3. QED BY <1>6, <1>7, <3>1, <3>2
  <2>5. \A i \in 1 .. Len(delivered) : delivered[i] = i - 1
    BY DEF DownloadInv, Stream
  <2>6. \A k \in 0 .. Rest' - 1 :
          buff'[inflight'.at + inflight'.sent + k] = Len(delivered) + k
    <3>1. \A k \in 0 .. lastLen' - 1 : Base + 0 + k = Base + k  BY <1>3, <1>4, <1>2, Sizes
    <3>2. QED BY <1>8, <2>1, <2>2, <2>4, <3>1
  <2>7. delivered' = delivered  BY <1>2
  <2>8. Len(delivered) + Rest' = Started'  BY <2>1, <2>2, <2>3
  <2>9. QED BY <2>5, <2>6, <2>7, <2>8 DEF Stream
<1>15. QED BY <1>9, <1>10, <1>11, <1>12, <1>13, <1>14 DEF DownloadInv

LEMMA InvEnd ==
  ASSUME DownloadInv, End
  PROVE  DownloadInv'
<1>1. /\ Wanted \in Nat /\ Offset' = Offset /\ Wanted' = Wanted
      /\ ClampedTotal' = ClampedTotal
  BY Asked DEF End
<1>2. /\ pc = "end" /\ notified /\ notified' = FALSE /\ res # "refused"
      /\ UNCHANGED <<req, total, fileSize, pos, data, readLen, lastLen, buff,
                     announced, delivered, ended, res, actual>>
      /\ \/ pc' = "zlp" /\ inflight' = Transfer(0, 0)
         \/ pc' = "answer" /\ inflight' = inflight
  BY DEF DownloadInv, End, Progress
<1>3. inflight.busy = FALSE
  <2>1. inflight.busy \in BOOLEAN /\ notified \in BOOLEAN  BY DEF DownloadInv
  <2>2. ~inflight.busy  BY <1>2, <2>1 DEF DownloadInv, Turns
  <2>3. QED BY <2>1, <2>2
<1>4. Types'
  <2>1. inflight' \in [at : {0, MaxLen}, len : 0 .. (HeadLen + MaxLen),
                       sent : 0 .. (HeadLen + MaxLen), busy : BOOLEAN]
    <3>1. Transfer(0, 0) \in [at : {0, MaxLen}, len : 0 .. (HeadLen + MaxLen),
                              sent : 0 .. (HeadLen + MaxLen), busy : BOOLEAN]
      BY Sizes DEF Transfer
    <3>2. QED BY <1>2, <3>1 DEF DownloadInv
  <2>2. pc' \in PCs /\ notified' \in BOOLEAN  BY <1>2
  <2>3. QED BY <1>2, <2>1, <2>2 DEF DownloadInv
<1>5. Progress'  BY <1>1, <1>2 DEF DownloadInv, Progress
<1>6. /\ pc' = "zlp" => inflight'.busy = TRUE /\ inflight'.len = 0 /\ inflight'.sent = 0
      /\ pc' = "answer" => inflight'.busy = FALSE
  BY <1>2, <1>3 DEF Transfer
<1>7. Turns'  BY <1>2, <1>6 DEF Turns
<1>8. Halves'  BY <1>2, <1>6 DEF Halves
<1>9. Filled'  BY <1>2 DEF Filled
<1>10. Stream'
  <2>1. Rest' = 0 /\ Rest = 0  BY <1>2, <1>3, <1>6 DEF Rest
  <2>2. Started' = Started  BY <1>1, <1>2 DEF Started, Before
  <2>3. QED BY <1>2, <2>1, <2>2 DEF DownloadInv, Stream
<1>11. QED BY <1>4, <1>5, <1>7, <1>8, <1>9, <1>10 DEF DownloadInv

LEMMA InvZlpSent ==
  ASSUME DownloadInv, ZlpSent
  PROVE  DownloadInv'
<1>1. /\ Wanted \in Nat /\ Offset' = Offset /\ Wanted' = Wanted
      /\ ClampedTotal' = ClampedTotal
  BY Asked DEF ZlpSent
<1>2. /\ pc = "zlp" /\ notified /\ pc' = "answer" /\ notified' = FALSE
      /\ UNCHANGED <<req, total, fileSize, pos, data, readLen, lastLen, buff,
                     announced, inflight, delivered, ended, res, actual>>
  BY DEF ZlpSent
<1>3. ~inflight.busy  BY <1>2 DEF DownloadInv, Turns
<1>4. Types'  BY <1>2 DEF DownloadInv
<1>5. Progress'  BY <1>1, <1>2 DEF DownloadInv, Progress
<1>6. Turns'  BY <1>2, <1>3 DEF Turns
<1>7. Halves'  BY <1>2, <1>3 DEF Halves
<1>8. Filled'  BY <1>2 DEF Filled
<1>9. Stream'
  BY <1>1, <1>2, <1>3 DEF DownloadInv, Stream, Started, Rest, Before
<1>10. QED BY <1>4, <1>5, <1>6, <1>7, <1>8, <1>9 DEF DownloadInv

LEMMA InvAnswer ==
  ASSUME DownloadInv, Answer
  PROVE  DownloadInv'
<1>1. /\ Wanted \in Nat /\ Offset' = Offset /\ Wanted' = Wanted
      /\ ClampedTotal' = ClampedTotal
  BY Asked DEF Answer
<1>2. /\ pc = "answer" /\ pc' = "answered" /\ actual' = total - fileSize
      /\ UNCHANGED <<req, total, fileSize, pos, data, readLen, lastLen, buff,
                     announced, inflight, notified, delivered, ended, res>>
  BY DEF Answer
<1>3. Types'  BY <1>2 DEF DownloadInv
<1>4. Progress'  BY <1>1, <1>2 DEF DownloadInv, Progress
<1>5. Turns'  BY <1>2 DEF DownloadInv, Turns
<1>6. Halves'  BY <1>2 DEF DownloadInv, Turns, Halves
<1>7. Filled'  BY <1>2 DEF Filled
<1>8. Stream'
  BY <1>1, <1>2 DEF DownloadInv, Stream, Started, Rest, Before
<1>9. QED BY <1>3, <1>4, <1>5, <1>6, <1>7, <1>8 DEF DownloadInv

-----------------------------------------------------------------------------
(* The steps of the controller. *)

\* Bytes that are appended in their place leave the stream in order.
LEMMA Appended ==
  ASSUME NEW s \in Seq(Int), NEW t \in Seq(Int),
         \A i \in 1 .. Len(s) : s[i] = i - 1,
         \A i \in 1 .. Len(t) : t[i] = Len(s) + i - 1
  PROVE  /\ s \o t \in Seq(Int) /\ Len(s \o t) = Len(s) + Len(t)
         /\ \A i \in 1 .. Len(s \o t) : (s \o t)[i] = i - 1
<1>1. s \o t \in Seq(Int) /\ Len(s \o t) = Len(s) + Len(t)  OBVIOUS
<1>2. ASSUME NEW i \in 1 .. Len(s) + Len(t)  PROVE  (s \o t)[i] = i - 1
  <2>1. (s \o t)[i] = IF i <= Len(s) THEN s[i] ELSE t[i - Len(s)]  OBVIOUS
  <2>2. CASE i <= Len(s)  BY <2>1, <2>2
  <2>3. CASE i > Len(s)
    <3>1. i - Len(s) \in 1 .. Len(t)  BY <2>3
    <3>2. QED BY <2>1, <2>3, <3>1
  <2>4. QED BY <2>2, <2>3
<1>3. QED BY <1>1, <1>2

\* The number of bytes of the next packet.
PacketLen == Smaller(Mps, inflight.len - inflight.sent)

\* What a packet does, with the length of the packet named.
LEMMA PacketStep ==
  ASSUME DownloadInv, Packet
  PROVE  /\ inflight.busy = TRUE /\ notified = FALSE
         /\ PacketLen \in 0 .. Rest /\ Rest = inflight.len - inflight.sent
         /\ PacketLen = 0 => inflight.len = 0
         /\ Rest' = Rest - PacketLen
         /\ IF PacketLen = Rest
            THEN inflight' = NoTransfer /\ notified' = TRUE
            ELSE /\ inflight' = [inflight EXCEPT !.sent = inflight.sent + PacketLen]
                 /\ notified' = FALSE
         /\ delivered' \in Seq(Int) /\ Len(delivered') = Len(delivered) + PacketLen
         /\ \A i \in 1 .. Len(delivered') : delivered'[i] = i - 1
         /\ ended' = (ended \/ PacketLen < Mps)
         /\ UNCHANGED <<pc, req, total, fileSize, pos, data, readLen, lastLen, buff,
                        announced, res, actual>>
<1>1. /\ inflight.busy = TRUE /\ notified = FALSE
      /\ inflight.at \in {0, MaxLen} /\ inflight.len \in Nat /\ inflight.sent \in Nat
      /\ inflight.sent <= inflight.len
  <2>1. inflight.busy  BY DEF Packet
  <2>2. ~notified  BY <2>1 DEF DownloadInv, Turns, Progress
  <2>3. QED BY <2>1, <2>2, Sizes DEF DownloadInv, Halves
<1>2. /\ PacketLen \in 0 .. Rest /\ Rest = inflight.len - inflight.sent
      /\ PacketLen = 0 => inflight.len = 0
  BY <1>1, Sizes DEF DownloadInv, Halves, PacketLen, Rest, Smaller
<1>3. /\ delivered' = delivered \o [i \in 1 .. PacketLen |->
                                      buff[inflight.at + inflight.sent + i - 1]]
      /\ ended' = (ended \/ PacketLen < Mps)
      /\ UNCHANGED <<pc, req, total, fileSize, pos, data, readLen, lastLen, buff,
                     announced, res, actual>>
  BY DEF Packet, PacketLen
<1>4. /\ inflight' = IF inflight.sent + PacketLen = inflight.len THEN NoTransfer
                     ELSE [inflight EXCEPT !.sent = inflight.sent + PacketLen]
      /\ notified' = (notified \/ inflight.sent + PacketLen = inflight.len)
  BY DEF Packet, PacketLen
<1>5. (PacketLen = Rest) <=> (inflight.sent + PacketLen = inflight.len)
  BY <1>1, <1>2
<1>6. IF PacketLen = Rest
      THEN inflight' = NoTransfer /\ notified' = TRUE
      ELSE /\ inflight' = [inflight EXCEPT !.sent = inflight.sent + PacketLen]
           /\ notified' = FALSE
  BY <1>1, <1>4, <1>5
<1>7. Rest' = Rest - PacketLen
  <2>1. CASE PacketLen = Rest
    <3>1. inflight'.busy = FALSE  BY <1>6, <2>1 DEF NoTransfer
    <3>2. Rest' = 0 /\ Rest \in Nat  BY <1>1, <1>2, <3>1 DEF Rest
    <3>3. QED BY <2>1, <3>2
  <2>2. CASE PacketLen # Rest
    <3>1. inflight' = [inflight EXCEPT !.sent = inflight.sent + PacketLen]
      BY <1>6, <2>2
    <3>2. /\ inflight'.busy = TRUE /\ inflight'.len = inflight.len
          /\ inflight'.sent = inflight.sent + PacketLen
      BY <1>1, <3>1 DEF DownloadInv
    <3>3. QED BY <1>1, <1>2, <3>2 DEF Rest
  <2>3. QED BY <2>1, <2>2
<1>8. \A i \in 1 .. PacketLen :
        buff[inflight.at + inflight.sent + i - 1] = Len(delivered) + i - 1
  <2>1. TAKE i \in 1 .. PacketLen
  <2>2. i - 1 \in 0 .. Rest - 1  BY <1>2
  <2>3. buff[inflight.at + inflight.sent + (i - 1)] = Len(delivered) + (i - 1)
    BY <1>1, <2>2 DEF DownloadInv, Stream
  <2>4. inflight.at + inflight.sent + (i - 1) = inflight.at + inflight.sent + i - 1
    BY <1>1, Sizes
  <2>5. QED BY <2>3, <2>4 DEF DownloadInv
<1>9. delivered \in Seq(Int) /\ \A i \in 1 .. Len(delivered) : delivered[i] = i - 1
  BY DEF DownloadInv, Stream
<1>10. /\ delivered' \in Seq(Int) /\ Len(delivered') = Len(delivered) + PacketLen
       /\ \A i \in 1 .. Len(delivered') : delivered'[i] = i - 1
  <2> DEFINE part == [i \in 1 .. PacketLen |-> buff[inflight.at + inflight.sent + i - 1]]
  <2>1. part \in Seq(Int) /\ Len(part) = PacketLen
        /\ \A i \in 1 .. PacketLen : part[i] = Len(delivered) + i - 1
    BY <1>2, <1>8, <1>9
  <2>2. delivered' = delivered \o part  BY <1>3
  <2> HIDE DEF part
  <2>3. QED BY <1>9, <2>1, <2>2, Appended
<1>11. QED BY <1>1, <1>2, <1>3, <1>6, <1>7, <1>10

LEMMA InvPacket ==
  ASSUME DownloadInv, Packet
  PROVE  DownloadInv'
<1>1. /\ Wanted \in Nat /\ Offset' = Offset /\ Wanted' = Wanted
      /\ ClampedTotal' = ClampedTotal
  BY Asked DEF Packet
<1>2. /\ inflight.busy = TRUE /\ notified = FALSE
      /\ PacketLen \in 0 .. Rest /\ Rest = inflight.len - inflight.sent
      /\ PacketLen = 0 => inflight.len = 0
      /\ Rest' = Rest - PacketLen
      /\ delivered' \in Seq(Int) /\ Len(delivered') = Len(delivered) + PacketLen
      /\ \A i \in 1 .. Len(delivered') : delivered'[i] = i - 1
      /\ ended' = (ended \/ PacketLen < Mps)
      /\ UNCHANGED <<pc, req, total, fileSize, pos, data, readLen, lastLen, buff,
                     announced, res, actual>>
  BY PacketStep
<1>3. inflight.at \in {0, MaxLen} /\ inflight.len \in 0 .. HeadLen + MaxLen
      /\ inflight.sent \in 0 .. HeadLen + MaxLen
  BY DEF DownloadInv
<1>4. Progress'  BY <1>1, <1>2 DEF DownloadInv, Progress, Before
<1>5. Filled'  BY <1>1, <1>2 DEF DownloadInv, Filled, Base, Before
<1>6. Started' = Started  BY <1>1, <1>2 DEF Started, Before
<1>7. Len(delivered) + Rest = Started /\ Len(delivered) \in Nat
  BY DEF DownloadInv, Stream
<1>8. CASE PacketLen = Rest
  <2>1. inflight' = NoTransfer /\ notified' = TRUE  BY <1>8, PacketStep
  <2>2. Types'  BY <1>2, <2>1, Sizes DEF DownloadInv, NoTransfer
  <2>3. Turns'  BY <1>1, <1>2, <2>1 DEF DownloadInv, Turns, NoTransfer
  <2>4. Halves'  BY <2>1 DEF Halves, NoTransfer
  <2>5. Stream'  BY <1>2, <1>6, <1>7, <1>8, <2>1 DEF Stream, NoTransfer
  <2>6. QED BY <1>4, <1>5, <2>2, <2>3, <2>4, <2>5 DEF DownloadInv
<1>9. CASE PacketLen # Rest
  <2>1. /\ inflight' = [inflight EXCEPT !.sent = inflight.sent + PacketLen]
        /\ notified' = FALSE
    BY <1>9, PacketStep
  <2>2. /\ inflight'.at = inflight.at /\ inflight'.len = inflight.len
        /\ inflight'.sent = inflight.sent + PacketLen /\ inflight'.busy = TRUE
        /\ inflight'.sent < inflight.len
    BY <1>2, <1>3, <1>9, <2>1, SMTT(20) DEF DownloadInv
  <2>3. inflight.sent + PacketLen \in 0 .. HeadLen + MaxLen
    BY <1>2, <1>3, <1>9, Sizes, SMTT(20)
  <2>4. Types'
    <3>1. inflight' \in [at : {0, MaxLen}, len : 0 .. (HeadLen + MaxLen),
                         sent : 0 .. (HeadLen + MaxLen), busy : BOOLEAN]
      BY <2>1, <2>3 DEF DownloadInv
    <3>2. QED BY <1>2, <2>1, <3>1 DEF DownloadInv
  <2>5. Turns'  BY <1>1, <1>2, <2>1, <2>2 DEF DownloadInv, Turns
  <2>6. Halves'
    BY <1>2, <2>2 DEF DownloadInv, Halves, Base
  <2>7. \A k \in 0 .. Rest' - 1 :
          buff[inflight'.at + inflight'.sent + k] = Len(delivered') + k
    <3>1. TAKE k \in 0 .. Rest' - 1
    <3>2. PacketLen + k \in 0 .. Rest - 1  BY <1>2, <1>3
    <3>3. buff[inflight.at + inflight.sent + (PacketLen + k)]
            = Len(delivered) + (PacketLen + k)
      BY <1>2, <3>2 DEF DownloadInv, Stream
    <3>4. inflight.at + inflight.sent + (PacketLen + k) = inflight'.at + inflight'.sent + k
      BY <1>2, <1>3, <2>2, Sizes, SMTT(20)
    <3>5. QED BY <1>2, <1>3, <1>7, <3>3, <3>4
  <2>8. Stream'  BY <1>2, <1>3, <1>6, <1>7, <2>7 DEF Stream
  <2>9. QED BY <1>4, <1>5, <2>4, <2>5, <2>6, <2>8 DEF DownloadInv
<1>10. QED BY <1>8, <1>9

LEMMA InvNext == DownloadInv /\ [Next]_vars => DownloadInv'
<1> SUFFICES ASSUME DownloadInv, [Next]_vars PROVE DownloadInv'  OBVIOUS
<1>1. CASE TaskNext
  BY <1>1, InvNotFound, InvPrepare, InvReadFile, InvReadError, InvWait, InvWrite, InvEnd,
     InvZlpSent, InvAnswer DEF TaskNext
<1>2. CASE Packet  BY <1>2, InvPacket
<1>3. CASE UNCHANGED vars
  BY <1>3 DEF vars, DownloadInv, Progress, Turns, Halves, Filled, Stream, Started, Rest,
              Base, Before, Wanted, Offset, ClampedTotal
<1>4. QED BY <1>1, <1>2, <1>3 DEF Next, Finished

\* The induction invariant holds in every state.
THEOREM InvAlways == Spec => []DownloadInv
<1>1. Init => DownloadInv  BY InvInit
<1>2. DownloadInv /\ [Next]_vars => DownloadInv'  BY InvNext
<1>3. QED BY <1>1, <1>2, PTL DEF Spec

\* Every variable of the download has its type; a transfer stays inside the buffer.
THEOREM TypeCorrect == Spec => []TypeOK
<1>1. DownloadInv => TypeOK  BY DEF DownloadInv, TypeOK
<1>2. QED BY <1>1, InvAlways, PTL

-----------------------------------------------------------------------------
(* No part is overwritten while it is sent. *)

\* A transfer is started, and the response is sent, only when the transfer before
\* was taken completely: _get_object_common waits for the notification of the first
\* half before it hands the second one to the controller.
THEOREM OneTransferAlways == Spec => []OneTransfer
<1>1. DownloadInv => OneTransfer  BY DEF DownloadInv, Turns, OneTransfer
<1>2. QED BY <1>1, InvAlways, PTL

-----------------------------------------------------------------------------
(* The download is a ByteStream. *)

LEMMA PacketCarries ==
  ASSUME DownloadInv, Packet
  PROVE  [Abstract!Next]_(Abstract!vars)
<1>1. /\ inflight.busy = TRUE /\ PacketLen \in 0 .. Rest
      /\ Rest = inflight.len - inflight.sent
      /\ delivered' \in Seq(Int) /\ Len(delivered') = Len(delivered) + PacketLen
      /\ \A i \in 1 .. Len(delivered') : delivered'[i] = i - 1
      /\ UNCHANGED <<pc, req, res, fileSize>>
  BY PacketStep
<1>2. /\ delivered \in Seq(Int) /\ Len(delivered) \in Nat /\ Rest \in Nat
      /\ \A i \in 1 .. Len(delivered) : delivered[i] = i - 1
  BY <1>1 DEF DownloadInv, Stream, Rest
<1>3. Outcome = "none" /\ Outcome' = Outcome
  BY <1>1 DEF DownloadInv, Turns, Outcome
<1>4. Wanted \in Nat /\ Wanted' = Wanted  BY <1>1, Asked
<1>5. CASE PacketLen = 0
  <2>1. Len(delivered') = Len(delivered)  BY <1>1, <1>2, <1>5
  <2>2. delivered' = delivered  BY <1>1, <1>2, <2>1, SeqEqual
  <2>3. QED BY <1>3, <1>4, <2>2 DEF Abstract!vars
<1>6. CASE PacketLen # 0
  <2> DEFINE n == Len(delivered')
  <2>1. Started <= HeadLen + Wanted
    BY <1>4, Sizes DEF DownloadInv, Progress, Started, Before
  <2>2. n \in Len(delivered) + 1 .. HeadLen + Wanted
    BY <1>1, <1>2, <1>4, <1>6, <2>1, Sizes DEF DownloadInv, Stream
  <2>3. delivered' = Abstract!Carried(n)
    <3>1. Abstract!Carried(n) \in Seq(Int) /\ Len(Abstract!Carried(n)) = n
          /\ \A i \in 1 .. n : Abstract!Carried(n)[i] = i - 1
      BY <1>1 DEF Abstract!Carried
    <3>2. QED BY <1>1, <3>1, SeqEqual
  <2>4. Abstract!Carry  BY <1>3, <1>4, <2>2, <2>3 DEF Abstract!Carry
  <2>5. QED BY <2>4 DEF Abstract!Next
<1>7. QED BY <1>5, <1>6

LEMMA StepCarries ==
  ASSUME DownloadInv, [Next]_vars
  PROVE  [Abstract!Next]_(Abstract!vars)
<1>1. CASE NotFound
  <2>1. Outcome = "none" /\ Outcome' = "failed" /\ UNCHANGED <<req, delivered>>
    BY <1>1 DEF NotFound, Outcome
  <2>2. Wanted' = Wanted  BY <2>1, Asked
  <2>3. QED BY <2>1, <2>2 DEF Abstract!Next, Abstract!Fail
<1>2. CASE Answer
  <2>1. pc = "answer" /\ pc' = "answered" /\ UNCHANGED <<req, delivered, res>>
    BY <1>2 DEF Answer
  <2>2. Wanted' = Wanted /\ Wanted \in Nat  BY <2>1, Asked
  <2>3. CASE res = "ok"
    <3>1. Len(delivered) = HeadLen + Wanted
      BY <2>1, <2>2, <2>3, Sizes DEF DownloadInv, Turns, Stream, Started, Rest
    <3>2. Outcome = "none" /\ Outcome' = "ok"  BY <2>1, <2>3 DEF Outcome
    <3>3. QED BY <2>1, <2>2, <3>1, <3>2 DEF Abstract!Next, Abstract!Succeed
  <2>4. CASE res # "ok"
    <3>1. Outcome = "none" /\ Outcome' = "failed"  BY <2>1, <2>4 DEF Outcome
    <3>2. QED BY <2>1, <2>2, <3>1 DEF Abstract!Next, Abstract!Fail
  <2>5. QED BY <2>3, <2>4
<1>3. CASE Packet  BY <1>3, PacketCarries
<1>4. CASE Prepare \/ ReadFile \/ ReadError \/ Wait \/ Write \/ End \/ ZlpSent
           \/ UNCHANGED vars
  <2>1. /\ UNCHANGED <<req, delivered>>
        /\ UNCHANGED <<pc, res>> \/ (pc # "answered" /\ pc' # "answered")
    BY <1>4 DEF Prepare, ReadFile, ReadError, Wait, Write, End, ZlpSent, vars, WaitFirst
  <2>2. Outcome' = Outcome  BY <2>1 DEF Outcome
  <2>3. Wanted' = Wanted  BY <2>1, Asked
  <2>4. QED BY <2>1, <2>2, <2>3 DEF Abstract!vars
<1>5. QED BY <1>1, <1>2, <1>3, <1>4 DEF Next, TaskNext, Finished

\* The download implements ByteStream: whatever the sizes of header, packet and half
\* and whatever the request, the host gets a prefix of header and file, in order and
\* with nothing put over it by a later read of the file, and the response reports
\* success only when it got all of it.
THEOREM DownloadIsAStream == Spec => CarriesTheFile
<1>1. Init => Abstract!Init
  <2>1. SUFFICES ASSUME Init PROVE Abstract!Init  OBVIOUS
  <2>2. Wanted \in Nat  BY <2>1, Request DEF Init
  <2>3. QED BY <2>1, <2>2, Sizes DEF Init, Outcome, Abstract!Init
<1>2. DownloadInv /\ [Next]_vars => [Abstract!Next]_(Abstract!vars)  BY StepCarries
<1>3. QED BY <1>1, <1>2, InvAlways, PTL DEF Spec, CarriesTheFile, Abstract!Spec

-----------------------------------------------------------------------------
(* Short packets. *)

LEMMA PacketsInit == Init => Packets
<1>1. SUFFICES ASSUME Init PROVE Packets  OBVIOUS
<1>2. pc = "begin" /\ ~ended /\ inflight.busy = FALSE  BY <1>1 DEF Init, NoTransfer
<1>3. QED BY <1>2 DEF Packets

LEMMA PacketsPacket ==
  ASSUME DownloadInv, Packets, Packet
  PROVE  Packets'
<1>1. /\ inflight.busy = TRUE /\ notified = FALSE
      /\ PacketLen \in 0 .. Rest /\ Rest = inflight.len - inflight.sent
      /\ PacketLen = Smaller(Mps, Rest)
      /\ ended' <=> (ended \/ PacketLen < Mps)
      /\ UNCHANGED <<pc, lastLen, res>>
      /\ PacketLen = Rest => inflight' = NoTransfer /\ notified' = TRUE
      /\ PacketLen # Rest =>
           /\ inflight' = [inflight EXCEPT !.sent = inflight.sent + PacketLen]
           /\ notified' = FALSE
  BY PacketStep DEF PacketLen
<1>2. /\ inflight.len \in Nat /\ inflight.sent \in Nat /\ lastLen \in Nat
      /\ Rest \in Nat
  <2>1. inflight.len \in Nat /\ inflight.sent \in Nat /\ lastLen \in Nat
    BY Sizes DEF DownloadInv
  <2>2. QED BY <1>1, <2>1
<1>3. inflight.sent % Mps = 0 /\ ~ended
  BY <1>1 DEF DownloadInv, Packets
<1>4. (PacketLen = Mps /\ Mps <= Rest) \/ (PacketLen = Rest /\ Rest < Mps)
  <2>1. PacketLen = IF Mps < Rest THEN Mps ELSE Rest  BY <1>1 DEF Smaller
  <2>2. QED BY <1>2, <2>1, Sizes
<1>5. ASSUME inflight.len % Mps = 0, inflight.sent < inflight.len
      PROVE  Mps <= Rest /\ ~ended' /\ (inflight.sent + Mps) % Mps = 0
  <2>1. Rest # 0 /\ inflight.sent + Mps <= inflight.len /\ (inflight.sent + Mps) % Mps = 0
    BY <1>1, <1>2, <1>3, <1>5, Multiples, Sizes
  <2>2. Mps <= Rest  BY <1>1, <1>2, <2>1, Sizes
  <2>3. ~(PacketLen < Mps)  BY <1>2, <1>4, <2>2, Sizes
  <2>4. QED BY <1>1, <1>3, <2>1, <2>2, <2>3
<1>6. ASSUME inflight'.busy
      PROVE  inflight'.sent % Mps = 0 /\ ~ended'
  <2>1. /\ PacketLen # Rest
        /\ inflight' = [inflight EXCEPT !.sent = inflight.sent + PacketLen]
    <3>1. NoTransfer.busy = FALSE  BY DEF NoTransfer
    <3>2. inflight' # NoTransfer  BY <1>6, <3>1
    <3>3. QED BY <1>1, <3>2
  <2>2. PacketLen = Mps  BY <1>4, <2>1
  <2>3. inflight'.sent = inflight.sent + Mps  BY <2>1, <2>2 DEF DownloadInv
  <2>4. (inflight.sent + Mps) % Mps = 0  BY <1>2, <1>3, NextMultiple, Sizes
  <2>5. ~(Mps < Mps)  BY Sizes
  <2>6. ~ended'  BY <1>1, <1>3, <2>2, <2>5
  <2>7. QED BY <2>3, <2>4, <2>6
<1>7. pc \in {"read", "wait", "end", "zlp"}
  BY <1>1 DEF DownloadInv, Turns
<1>8. CASE InLoop \/ (pc = "end" /\ res = "incomplete")
  <2>1. inflight.len = MaxLen /\ inflight.sent < inflight.len
    BY <1>1, <1>8, Sizes, SMTT(20) DEF DownloadInv, Halves
  <2>2. ~ended'  BY <1>5, <2>1, SizeAssumption
  <2>3. pc = "end" => lastLen = 0  BY <1>8 DEF Packets
  <2>4. QED BY <1>1, <1>6, <1>8, <2>2, <2>3 DEF Packets
<1>9. CASE pc = "end" /\ res = "ok"
  <2>1. inflight.len = lastLen /\ lastLen > 0 /\ inflight.sent < inflight.len
    BY <1>1, <1>9 DEF DownloadInv, Halves, Packets
  <2>2. ASSUME notified'  PROVE ended' <=> ~NeedSendEnd(lastLen)
    <3>1. PacketLen = Rest  BY <1>1, <2>2
    <3>2. CASE lastLen % Mps = 0
      BY <1>5, <2>1, <3>2 DEF NeedSendEnd
    <3>3. CASE lastLen % Mps # 0
      <4>1. (inflight.sent + Mps) % Mps = 0  BY <1>2, <1>3, NextMultiple, Sizes
      <4>2. Rest # Mps  BY <1>1, <1>2, <2>1, <3>3, <4>1, Sizes
      <4>3. PacketLen < Mps  BY <1>4, <3>1, <4>2
      <4>4. QED BY <1>1, <3>3, <4>3 DEF NeedSendEnd
    <3>4. QED BY <3>2, <3>3
  <2>3. QED BY <1>1, <1>6, <1>9, <2>1, <2>2 DEF Packets
<1>10. CASE pc = "zlp"
  <2>1. inflight.len = 0 /\ PacketLen = Rest /\ PacketLen < Mps
    BY <1>1, <1>2, <1>10, Sizes, SMTT(20) DEF DownloadInv, Halves
  <2>2. notified' = TRUE /\ ended' /\ inflight'.busy = FALSE
    BY <1>1, <2>1 DEF NoTransfer
  <2>3. QED BY <1>1, <1>10, <2>2 DEF Packets
<1>11. QED BY <1>7, <1>8, <1>9, <1>10 DEF DownloadInv, Progress

LEMMA PacketsTask ==
  ASSUME DownloadInv, Packets, TaskNext
  PROVE  Packets'
<1>0. ended' = ended /\ ended \in BOOLEAN /\ notified \in BOOLEAN /\ 0 % Mps = 0
  <2>1. 0 % Mps = 0  BY Sizes
  <2>2. QED BY <2>1 DEF DownloadInv, TaskNext, NotFound, Prepare, ReadFile, ReadError,
              Wait, Write, End, ZlpSent, Answer
<1>1. CASE NotFound  BY <1>1, <1>0 DEF DownloadInv, NotFound, Turns, Packets
<1>2. CASE Prepare
  <2>1. pc = "begin" /\ ~inflight.busy /\ ~notified /\ res = "ok" /\ ~ended
    BY <1>2 DEF DownloadInv, Prepare, Turns, Progress, Packets
  <2>2. /\ \/ pc' = "read" /\ inflight' = inflight
           \/ pc' = "end" /\ inflight' = Transfer(0, HeadLen) /\ lastLen' = HeadLen
        /\ notified' = notified /\ res' = res
    BY <1>2 DEF Prepare
  <2>3. inflight'.busy => inflight'.sent = 0  BY <2>1, <2>2 DEF Transfer
  <2>4. QED BY <1>0, <2>1, <2>2, <2>3, Sizes DEF Packets
<1>3. CASE ReadFile
  BY <1>3, <1>0 DEF ReadFile, WaitFirst, Packets
<1>4. CASE ReadError  BY <1>4, <1>0 DEF ReadError, Packets
<1>5. CASE Wait  BY <1>5, <1>0 DEF Wait, Packets
<1>6. CASE Write
  <2>1. pc = "write" /\ ~ended /\ ~notified /\ res = "ok"
    BY <1>6 DEF DownloadInv, Write, Turns, Progress, Packets
  <2>2. /\ pc' \in {"read", "end"} /\ notified' = notified /\ res' = res
        /\ inflight' \in {Transfer(0, lastLen'), Transfer(MaxLen, lastLen')}
        /\ lastLen' \in {readLen, HeadLen + readLen}
    BY <1>6 DEF Write, SendLen
  <2>3. readLen > 0 /\ readLen \in Nat
    BY <2>1, Sizes DEF DownloadInv, Progress, Smaller
  <2>4. inflight'.sent = 0 /\ lastLen' > 0  BY <2>2, <2>3, Sizes DEF Transfer
  <2>5. QED BY <1>0, <2>1, <2>2, <2>4 DEF Packets
<1>7. CASE End
  <2>1. pc = "end" /\ notified /\ ~inflight.busy /\ notified' = FALSE
        /\ (res = "ok" \/ res = "incomplete") /\ UNCHANGED <<lastLen, res>>
    BY <1>7 DEF DownloadInv, End, Turns, Progress
  <2>2. CASE NeedSendEnd(lastLen)
    <3>1. pc' = "zlp" /\ inflight' = Transfer(0, 0)  BY <1>7, <2>2 DEF End
    <3>2. inflight'.sent = 0  BY <3>1 DEF Transfer
    <3>3. ~ended  BY <2>1, <2>2 DEF Packets
    <3>4. QED BY <1>0, <2>1, <3>1, <3>2, <3>3 DEF Packets
  <2>3. CASE ~NeedSendEnd(lastLen)
    <3>1. pc' = "answer" /\ inflight' = inflight  BY <1>7, <2>3 DEF End
    <3>2. ended \/ lastLen = 0  BY <2>1, <2>3 DEF Packets
    <3>3. lastLen # 0  BY <1>0, <2>3 DEF NeedSendEnd
    <3>4. QED BY <1>0, <2>1, <3>1, <3>2, <3>3 DEF Packets
  <2>4. QED BY <2>2, <2>3
<1>8. CASE ZlpSent  BY <1>8, <1>0 DEF DownloadInv, Turns, ZlpSent, Packets
<1>9. CASE Answer  BY <1>9, <1>0 DEF Answer, Packets
<1>10. QED BY <1>1, <1>2, <1>3, <1>4, <1>5, <1>6, <1>7, <1>8, <1>9 DEF TaskNext

LEMMA PacketsAlways == Spec => []Packets
<1>1. DownloadInv /\ Packets /\ UNCHANGED vars => Packets'  BY DEF vars, Packets
<1>2. DownloadInv /\ Packets /\ [Next]_vars => Packets'
  BY <1>1, PacketsPacket, PacketsTask DEF Next, Finished
<1>3. QED BY <1>2, PacketsInit, InvAlways, PTL DEF Spec

\* The host can tell the data from the response: a data phase that is answered ended
\* with a short or an empty packet (check_usb_len_mps_and_send_end), and no packet
\* was short before the last byte of the file was sent.
THEOREM ShortAtEndOnlyAlways == Spec => []ShortAtEndOnly
<1>1. ASSUME DownloadInv, Packets  PROVE ShortAtEndOnly
  <2>1. ASSUME ended, res = "ok"  PROVE Len(delivered) = HeadLen + Wanted
    <3>1. ~inflight.busy /\ pc \in {"end", "zlp", "answer", "answered"}
      BY <1>1, <2>1 DEF DownloadInv, Packets
    <3>2. Started = HeadLen + Wanted  BY <2>1, <3>1 DEF Started
    <3>3. Rest = 0 /\ Len(delivered) \in Nat /\ Len(delivered) + Rest = Started
      BY <1>1, <3>1 DEF DownloadInv, Stream, Rest
    <3>4. QED BY <3>2, <3>3
  <2>2. pc \in {"answer", "answered"} /\ res # "refused" => ended
    BY <1>1 DEF Packets
  <2>3. QED BY <2>1, <2>2 DEF ShortAtEndOnly
<1>2. QED BY <1>1, PacketsAlways, InvAlways, PTL

-----------------------------------------------------------------------------
(* The lengths that are announced and reported. *)

LEMMA WaitsStep ==
  ASSUME DownloadInv, FirstPartWaits, [Next]_vars
  PROVE  FirstPartWaits'
<1>1. SUFFICES ASSUME (pc # "begin" /\ res # "refused" /\ Wanted > 0 /\ total # Wanted)'
               PROVE  fileSize' = Wanted' /\ pc' \in {"read", "wait", "end"}
  BY DEF FirstPartWaits
<1>2. Wanted \in Nat /\ Wanted' = Wanted /\ (res = "refused" => res' = "refused")
  <2>1. req' = req /\ (res = "refused" => pc = "answered")
    BY DEF DownloadInv, Progress, Next, TaskNext, NotFound, Prepare, ReadFile, ReadError, Wait,
           Write, End, ZlpSent, Answer, Packet, Finished, vars
  <2>2. QED BY <2>1, Asked DEF Next, TaskNext, NotFound, Prepare, ReadFile, ReadError, Wait,
           Write, End, ZlpSent, Answer, Packet, Finished, vars
<1>3. CASE NotFound  BY <1>1, <1>3 DEF NotFound
<1>4. CASE Prepare  BY <1>1, <1>2, <1>4 DEF Prepare
<1>5. CASE pc # "begin" /\ total' = total
  <2>1. fileSize = Wanted /\ Wanted > 0 /\ pc \in {"read", "wait", "end"} /\ total # Wanted
    BY <1>1, <1>2, <1>5 DEF FirstPartWaits
  <2>2. ~notified
    BY <1>2, <2>1 DEF DownloadInv, Turns, Progress
  <2>3. fileSize' = fileSize /\ pc' \in {"read", "wait", "end"}
    BY <1>5, <2>1, <2>2
    DEF Next, TaskNext, NotFound, Prepare, ReadFile, ReadError, Wait, Write, End, ZlpSent,
        Answer, Packet, Finished, vars, WaitFirst
  <2>4. QED BY <1>2, <2>1, <2>3
<1>6. CASE Packet  BY <1>1, <1>2, <1>6, <1>5 DEF Packet, DownloadInv, Turns
<1>7. QED
  BY <1>1, <1>3, <1>4, <1>5, <1>6
  DEF Next, TaskNext, NotFound, Prepare, ReadFile, ReadError, Wait, Write, End, ZlpSent,
      Answer, Finished, vars

\* A download that succeeds delivers header and file, exactly as long as announced and
\* reported, when a request that starts at the end of the file or behind it is left
\* aside (of such a request of a file that is not empty the code announces the size of
\* the file, and sends nothing).
THEOREM CompleteAlways ==
  ASSUME \A r \in Requests : r.offset = 0 \/ r.offset < r.size
  PROVE  Spec => []Complete
<1>1. Init => FirstPartWaits  BY DEF Init, FirstPartWaits
<1>2. Spec => []FirstPartWaits
  BY <1>1, WaitsStep, InvAlways, PTL DEF Spec
<1>3. ASSUME DownloadInv, FirstPartWaits  PROVE Complete
  <2>1. SUFFICES ASSUME pc = "answered", res = "ok"
                 PROVE  /\ Len(delivered) = HeadLen + Wanted
                        /\ announced = Len(delivered) /\ actual = Wanted
    BY DEF Complete
  <2>2. Wanted \in Nat /\ ClampedTotal \in Nat  BY <1>3, Request DEF DownloadInv
  <2>3. /\ fileSize = 0 /\ total = ClampedTotal /\ announced = HeadLen + total
        /\ actual = total
    BY <1>3, <2>1 DEF DownloadInv, Progress
  <2>4. Len(delivered) = HeadLen + Wanted
    BY <1>3, <2>1, <2>2, Sizes DEF DownloadInv, Turns, Stream, Started, Rest
  <2>5. total = Wanted
    <3>1. CASE Wanted > 0  BY <1>3, <2>1, <3>1 DEF FirstPartWaits
    <3>2. CASE Wanted = 0
      <4>1. /\ req.size \in Nat /\ req.offset \in Nat /\ req.max \in Nat
            /\ req.offset = 0 \/ req.offset < req.size
        BY <1>3, RequestAssumption DEF DownloadInv
      <4>2. QED BY <2>3, <3>2, <4>1 DEF Wanted, Offset, ClampedTotal, Smaller
    <3>3. QED BY <2>2, <3>1, <3>2
  <2>6. QED BY <2>3, <2>4, <2>5
<1>4. QED BY <1>2, <1>3, InvAlways, PTL

=============================================================================
