-------------------------- MODULE SendObjectProofs --------------------------
(***************************************************************************)
(* Proofs about SendObject, for every size of header, packet, half and     *)
(* file, every host and every card: the two halves of the buffer are never *)
(* confused, and host and responder agree on whose turn it is, so that the *)
(* upload is the stream of bytes that ByteStream promises.                 *)
(***************************************************************************)
EXTENDS SendObject, SequenceTheorems, TLAPS

-----------------------------------------------------------------------------
(***************************************************************************)
(* The induction invariant.                                                *)
(***************************************************************************)

\* The places of send_object_info, of send_object, and of the main loop.
Announcing == {"readInfo", "info", "respond"}
Expecting == {"readOperation", "operation", "readHeader", "header"}
Receiving == {"piece", "store", "next"}
PCs == Announcing \cup Expecting \cup Receiving
         \cup {"stamp", "answer", "main", "mainLoop", "readEmpty", "empty", "done"}
Kinds == {"none", "info", "send", "data", "odd", "other"}

Types ==
  /\ pc \in PCs /\ isFolder \in BOOLEAN /\ size \in Nat
  /\ buff \in [Places -> Int]
  /\ head \in Kinds \cup {"bytes"}
  /\ armed \in [at : Nat, want : Nat, got : Nat, busy : BOOLEAN]
  /\ armed.at + armed.want <= HeadLen + 2 * MaxLen
  /\ len \in Nat /\ ended \in BOOLEAN
  /\ left \in Nat /\ lastLen \in Nat /\ readLen \in 0 .. MaxLen
  /\ data \in {HeadLen, HeadLen + MaxLen}
  /\ file \in Seq(Int)
  /\ res \in {"ok", "refused"} /\ response \in {"none", "ok", "refused", "garbled"}
  /\ stopped \in BOOLEAN /\ usb \in {"run", "reset"}
  /\ host \in {"info", "handle", "send", "data", "result", "done", "gone"}
  /\ sending \in [kind : Kinds, next : Nat, left : Nat, empty : BOOLEAN]
  /\ told \in {"none", "ok", "failed"}

\* What the host is sending at each of its phases; nothing after a reset.
Sends(kind, n) == sending.kind = kind /\ sending.next + sending.left = n
Wire ==
  /\ usb = "reset" => /\ ~armed.busy /\ sending = NothingToSend
                      /\ response = "none" /\ host = "gone"
  /\ sending.left > 0 => sending.next % Mps = 0
  /\ sending.empty => /\ host = "result" /\ sending.kind # "other"
                      /\ size # 0 /\ (HeadLen + size) % Mps = 0
  /\ host = "info" => Sends("info", HeadLen)
  /\ host \in {"handle", "send", "done"} => ~Busy
  /\ host = "data" => Sends("send", HeadLen)
  /\ host = "result" => \/ Sends("other", HeadLen)
                        \/ Sends("data", HeadLen + size)
                        \/ Sends("odd", HeadLen + size)
  /\ host = "gone" /\ usb = "run" => Sends("other", HeadLen)
  /\ isFolder => host \in {"info", "handle", "done", "gone"} /\ sending.kind # "send"

\* A container is seen after it was sent, the host is told once, and a refusal
\* is never answered by a success.
Seen ==
  /\ head = "send" => host \in {"data", "result", "done", "gone"} /\ ~isFolder
  /\ head \in {"data", "odd"} => host \in {"result", "done", "gone"}
  /\ told # "none" => host \in {"done", "gone"}
  /\ res = "ok" => response # "refused"
  /\ res = "refused" => /\ response \in {"none", "refused"}
                        /\ pc \notin Announcing \cup Expecting \cup Receiving

\* The object has its handle and the upload has no result yet.
Offered ==
  \/ host \in {"info", "handle"} /\ response \in {"ok", "garbled"} /\ ~Busy
  \/ host \in {"send", "data", "result"} /\ response = "none"
\* The result is on its way, or told.
Served ==
  /\ head # "send" /\ sending.kind # "send"
  /\ (host = "result" /\ response = "ok") \/ host \in {"done", "gone"}
\* The data container comes next.
DataNext ==
  /\ host = "data" => ~Busy
  /\ host = "result" => sending.next = 0 /\ sending.kind \in {"data", "odd"}

\* Where the host is when the task is at each of its places.
Phases ==
  /\ pc \in Announcing => host \in {"info", "handle"} /\ response = "none" /\ head = "info"
  /\ pc = "readInfo" => host = "info" /\ sending.next = 0
  /\ pc = "info" /\ armed.busy => host = "info" /\ sending.next = 0
  /\ pc = "info" /\ ended => ~Busy
  /\ pc = "respond" => ~Busy
  /\ pc \in {"readOperation", "operation"} => Offered
  /\ pc = "readOperation" \/ (pc = "operation" /\ ~ended) =>
       /\ host = "data" => sending.next = 0
       /\ host = "result" => sending.kind = "other" /\ sending.next = 0
  /\ pc = "operation" /\ ended => host \in {"data", "result"}
  /\ pc = "operation" /\ ended /\ head = "send" => DataNext
  /\ pc = "readHeader" => DataNext
  /\ pc = "header" /\ armed.busy /\ armed.got = 0 => DataNext
  /\ pc \in {"readHeader", "header", "readEmpty", "empty"} =>
       host \in {"data", "result"} /\ response = "none"
  /\ pc \in Receiving \/ pc = "answer" \/ (pc = "stamp" /\ ~NothingToReceive) =>
       host = "result" /\ response = "none" /\ sending.kind # "send"
  /\ pc = "stamp" /\ NothingToReceive => Offered \/ (isFolder /\ Served)
  /\ pc \in {"main", "mainLoop", "done"} => Served \/ (Offered /\ NothingToReceive)

\* A read that was started is awaited, or has ended; nothing else is under way.
Reads ==
  /\ ~(armed.busy /\ ended)
  /\ pc \in {"readInfo", "respond", "readOperation", "readHeader", "piece", "stamp",
             "answer", "main", "readEmpty"} \/ (pc = "store" /\ left = 0) =>
       ~armed.busy /\ ~ended
  /\ armed.busy => /\ armed.got % Mps = 0 /\ armed.want % Mps = 0
                   /\ armed.got < armed.want
  /\ pc \notin Receiving /\ armed.busy => armed.at = 0
  /\ pc \in {"info", "operation"} /\ armed.busy => armed.got = 0
  /\ pc = "mainLoop" /\ ended /\ usb = "run" => len # 0 \/ ToTheBrim

\* The bytes from place at on are those of the container from number first on.
Holds(at, first, n) == \A i \in 0 .. n - 1 : buff[at + i] = first + i
\* The data container was read up to byte n, and no read ends inside of a half
\* but at its end.
ReadUpTo(n) == usb = "run" => /\ Sends("data", HeadLen + size) /\ sending.next = n
                              /\ Busy => n % MaxLen = 0

\* The first half, with the header.
FirstRead ==
  /\ armed.busy => armed.want = MaxLen
  /\ armed.busy /\ armed.got > 0 =>
       /\ host = "result" /\ head = sending.kind /\ sending.kind \in {"data", "odd"}
       /\ sending.next = armed.got /\ HeadLen <= armed.got
       /\ Holds(0, 0, armed.got)
  /\ ended /\ head = "data" =>
       /\ len \in HeadLen .. MaxLen /\ len <= HeadLen + size
       /\ Holds(0, 0, len) /\ ReadUpTo(len)

\* How much of the container the pieces before the next read have.
Before == HeadLen + size - left
\* The next half, while the piece in the other one is stored.
NextRead ==
  /\ left # 0 /\ readLen = Smaller(left, MaxLen)
  /\ armed.busy => /\ armed.at = OtherHalf /\ armed.want = MaxLen
                   /\ Sends("data", HeadLen + size)
                   /\ sending.next = Before + armed.got /\ Before % MaxLen = 0
                   /\ Holds(OtherHalf, Before, armed.got)
  /\ ended => /\ len <= MaxLen /\ len <= left
              /\ Holds(OtherHalf, Before, len) /\ ReadUpTo(Before + len)

\* The piece in the buffer goes on where the file on the card ends.
InPlace == lastLen <= MaxLen /\ Holds(data, HeadLen + Len(file), lastLen)

\* What the buffer holds at each place.
Contents ==
  /\ pc = "readHeader" => head = "send"
  /\ pc = "header" => FirstRead
  /\ pc \in Receiving => head = "data"
  /\ pc = "piece" => InPlace /\ ReadUpTo(Before + lastLen)
  /\ pc = "store" => InPlace
  /\ pc = "store" /\ left = 0 => ReadUpTo(HeadLen + size)
  /\ pc = "next" \/ (pc = "store" /\ left # 0) => NextRead

\* How much is on the card, in the buffer and to come; no result is told by then.
FileLen == IF isFolder THEN 0 ELSE size
Lengths ==
  /\ pc \in Announcing \cup Expecting => left = size /\ data = HeadLen /\ Len(file) = 0
  /\ pc \in Expecting \cup Receiving => ~NothingToReceive
  /\ pc \in {"readEmpty", "empty"} => NothingToReceive
  /\ pc \in Announcing \cup Expecting \cup Receiving => told = "none"
  /\ pc = "piece" => Len(file) + left = size /\ lastLen <= left
  /\ pc = "store" => Len(file) + lastLen + left = size
  /\ pc = "next" => Len(file) + left = size
  /\ pc \notin Announcing \cup Expecting \cup Receiving => Len(file) = FileLen
  /\ pc = "answer" \/ (pc \in {"stamp", "main", "mainLoop"} /\ ~NothingToReceive) =>
       head # "send"
  /\ pc \in {"stamp", "answer", "main", "mainLoop"} /\ sending.empty => ToTheBrim

\* The card has the file from its first byte on.
OnCard == /\ Len(file) <= FileLen
          /\ \A i \in 1 .. Len(file) : file[i] = HeadLen + i - 1

\* What the properties say of responses.
Results ==
  /\ HandleIntact /\ NoStrayStop
  /\ host = "result" /\ response \in {"ok", "garbled"} => Len(file) = size

UploadInv ==
  /\ Types /\ Wire /\ Seen /\ OnCard /\ Results
  /\ res = "ok" /\ usb = "run" => Phases
  /\ res = "ok" => Reads /\ Contents /\ Lengths

-----------------------------------------------------------------------------
(* Multiples of a packet and of a half. *)

LEMMA MultipleSum ==
  ASSUME NEW m \in Nat \ {0}, NEW a \in Nat, NEW b \in Nat, a % m = 0, b % m = 0
  PROVE  (a + b) % m = 0
<1>1. PICK k \in Nat : a = m * k
  <2>1. a = m * (a \div m) /\ a \div m \in Nat  OBVIOUS
  <2>2. QED BY <2>1
<1>2. PICK l \in Nat : b = m * l
  <2>1. b = m * (b \div m) /\ b \div m \in Nat  OBVIOUS
  <2>2. QED BY <2>1
<1> DEFINE c == a + b
<1>3. c = m * (c \div m) + (c % m) /\ c \div m \in Int /\ c % m \in 0 .. m - 1
  OBVIOUS
<1>4. PICK d \in Int, r \in 0 .. m - 1 : a + b = m * d + r /\ (a + b) % m = r
  BY <1>3
<1>5. r = m * (k + l - d)  BY <1>1, <1>2, <1>4
<1>6. k + l - d <= 0
  <2>1. SUFFICES ASSUME k + l - d >= 1 PROVE FALSE  OBVIOUS
  <2>2. m * (k + l - d) >= m  BY <2>1
  <2>3. QED BY <1>5, <2>2
<1>7. k + l - d >= 0
  <2>1. SUFFICES ASSUME k + l - d <= -1 PROVE FALSE  OBVIOUS
  <2>2. m * (k + l - d) <= -m  BY <2>1
  <2>3. QED BY <1>5, <2>2
<1>8. k + l - d = 0  BY <1>6, <1>7
<1>9. QED BY <1>4, <1>5, <1>8

\* Between two multiples there is room for one more packet.
LEMMA MultipleGap ==
  ASSUME NEW m \in Nat \ {0}, NEW a \in Nat, NEW b \in Nat,
         a % m = 0, b % m = 0, b < a
  PROVE  b + m <= a
<1>1. a = m * (a \div m) /\ b = m * (b \div m)  OBVIOUS
<1>2. PICK k \in Nat, l \in Nat : a = m * k /\ b = m * l  BY <1>1
<1>3. l < k
  <2>1. SUFFICES ASSUME k <= l PROVE FALSE  OBVIOUS
  <2>2. m * k <= m * l  BY <2>1
  <2>3. QED BY <1>2, <2>2
<1>4. m * (l + 1) <= m * k  BY <1>3
<1>5. QED BY <1>2, <1>4

\* A short packet ends at no multiple.
LEMMA MultipleNot ==
  ASSUME NEW m \in Nat \ {0}, NEW b \in Nat, NEW n \in 1 .. m - 1, b % m = 0
  PROVE  (b + n) % m # 0
<1> DEFINE a == b + n
<1>1. a \in Nat /\ b < a /\ a < b + m  OBVIOUS
<1>2. a % m # 0
  <2> HIDE DEF a
  <2>1. a % m = 0 => b + m <= a  BY <1>1, MultipleGap
  <2>2. QED BY <1>1, <2>1
<1>3. QED BY <1>2

LEMMA Scale ==
  /\ HeadLen \in Nat /\ Mps \in Nat /\ MaxLen \in Nat
  /\ 0 < HeadLen /\ HeadLen < Mps /\ Mps <= MaxLen
  /\ MaxLen % Mps = 0 /\ (2 * MaxLen) % Mps = 0 /\ MaxLen % MaxLen = 0
  /\ HeadLen % Mps = HeadLen /\ 0 % Mps = 0
<1>1. HeadLen \in Nat /\ Mps \in Nat \ {0} /\ MaxLen \in Nat \ {0}
      /\ 0 < HeadLen /\ HeadLen < Mps /\ MaxLen % Mps = 0
  BY SizeAssumption
<1>2. 0 % Mps = 0 /\ MaxLen % MaxLen = 0 /\ HeadLen % Mps = HeadLen  BY <1>1
<1>3. 0 + Mps <= MaxLen  BY <1>1, <1>2, MultipleGap
<1>4. (2 * MaxLen) % Mps = 0
  <2>1. (MaxLen + MaxLen) % Mps = 0  BY <1>1, MultipleSum
  <2>2. 2 * MaxLen = MaxLen + MaxLen  BY <1>1
  <2>3. QED BY <2>1, <2>2, Zenon
<1>5. Mps <= MaxLen  BY <1>1, <1>3
<1>6. QED BY <1>1, <1>2, <1>4, <1>5

LEMMA HeadContainer ==
  ASSUME NEW kind \in Kinds
  PROVE  Container(kind, HeadLen) = [kind |-> kind, next |-> 0, left |-> HeadLen, empty |-> FALSE]
<1>1. HeadLen % Mps = HeadLen /\ HeadLen # 0  BY Scale
<1>2. (HeadLen % Mps = 0) = FALSE  BY <1>1
<1>3. QED BY <1>2, Zenon DEF Container

-----------------------------------------------------------------------------
(* The steps of the task. *)

USE DEF PCs, Announcing, Expecting, Receiving, Kinds

\* A transfer has just been started, or the wait for it will end at once.
ReadBegun(at, want) ==
  \/ /\ usb = "run" /\ armed'.at = at /\ armed'.want = want /\ armed'.got = 0
     /\ armed'.busy /\ armed'.got % Mps = 0 /\ armed'.want % Mps = 0
     /\ armed'.got < armed'.want /\ UNCHANGED <<len, ended>>
  \/ usb = "reset" /\ ~armed'.busy /\ len' = 0 /\ ended'
OnlyRead ==
  UNCHANGED <<left, lastLen, readLen, data, file, res, stopped, buff, head, response,
              isFolder, size, usb, host, sending, told>>

\* usb_read: either a new transfer, or its callback at once.
LEMMA ReadStarted ==
  ASSUME UploadInv, NEW at \in Nat, NEW want \in {MaxLen, 2 * MaxLen},
         at + want <= HeadLen + 2 * MaxLen, StartRead(at, want)
  PROVE  /\ armed' \in [at : Nat, want : Nat, got : Nat, busy : BOOLEAN]
         /\ armed'.at + armed'.want <= HeadLen + 2 * MaxLen
         /\ len' \in Nat /\ ended' \in BOOLEAN
         /\ ReadBegun(at, want)
<1>1. MaxLen \in Nat /\ want \in Nat /\ want > 0 /\ want % Mps = 0 /\ 0 % Mps = 0
  BY Scale
<1>2. CASE usb = "run"
  <2>1. armed' = [at |-> at, want |-> want, got |-> 0, busy |-> TRUE]
        /\ UNCHANGED <<len, ended>>
    BY <1>2 DEF StartRead
  <2>2. QED BY <1>1, <1>2, <2>1 DEF UploadInv, Types, ReadBegun
<1>3. CASE usb = "reset"
  <2>1. UNCHANGED armed /\ len' = 0 /\ ended' = TRUE  BY <1>3 DEF StartRead
  <2>2. ~armed.busy  BY <1>3 DEF UploadInv, Wire
  <2>3. QED BY <1>3, <2>1, <2>2 DEF UploadInv, Types, ReadBegun
<1>4. QED BY <1>2, <1>3 DEF UploadInv, Types, ReadBegun

LEMMA ContainerRead ==
  ASSUME UploadInv, NEW from, NEW to \in PCs, NEW want \in {MaxLen, 2 * MaxLen},
         res = "ok" \/ to \notin Announcing \cup Expecting \cup Receiving,
         ReadContainer(from, to, want)
  PROVE  /\ pc = from /\ pc' = to /\ Types' /\ Wire' /\ Seen' /\ OnCard' /\ Results'
         /\ OnlyRead
         /\ ReadBegun(0, want)
<1>1. /\ pc = from /\ pc' = to /\ StartRead(0, want)
      /\ OnlyRead
  BY DEF ReadContainer, hostVars, OnlyRead
<1>2. 0 + want <= HeadLen + 2 * MaxLen  BY Scale
<1>3. /\ armed' \in [at : Nat, want : Nat, got : Nat, busy : BOOLEAN]
      /\ armed'.at + armed'.want <= HeadLen + 2 * MaxLen
      /\ len' \in Nat /\ ended' \in BOOLEAN
      /\ ReadBegun(0, want)
  BY <1>1, <1>2, ReadStarted
<1>4. Types'  BY <1>1, <1>3 DEF UploadInv, Types, OnlyRead, ReadBegun
<1>5. Wire'  BY <1>1, <1>3 DEF UploadInv, Wire, Sends, Busy, OnlyRead, ReadBegun
<1>6. Seen'  BY <1>1 DEF UploadInv, Seen, OnlyRead
<1>7. OnCard'  BY <1>1 DEF UploadInv, OnCard, FileLen, OnlyRead
<1>8. Results'  BY <1>1 DEF UploadInv, Results, HandleIntact, NoStrayStop, ToTheBrim, OnlyRead
<1>9. QED BY <1>1, <1>3, <1>4, <1>5, <1>6, <1>7, <1>8

LEMMA InvRead ==
  ASSUME UploadInv, NEW from, NEW to, NEW want, ReadContainer(from, to, want),
         \/ from = "readInfo" /\ to = "info" /\ want = 2 * MaxLen
         \/ from = "readOperation" /\ to = "operation" /\ want = MaxLen
         \/ from = "readHeader" /\ to = "header" /\ want = MaxLen
         \/ from = "readEmpty" /\ to = "empty" /\ want = 2 * MaxLen
         \/ from = "main" /\ to = "mainLoop" /\ want = 2 * MaxLen
  PROVE  UploadInv'
<1>1. res = "ok" \/ to \notin Announcing \cup Expecting \cup Receiving
  BY DEF UploadInv, Seen, Types, ReadContainer
<1>2. /\ pc = from /\ pc' = to
      /\ Types' /\ Wire' /\ Seen' /\ OnCard' /\ Results'
      /\ OnlyRead /\ ReadBegun(0, want)
  BY <1>1, ContainerRead
<1>3. (res = "ok" /\ usb = "run" => Phases)'
  BY <1>2 DEF OnlyRead, ReadBegun, UploadInv, Phases, Offered, Served, DataNext, Busy,
              NothingToReceive, Reads
<1>4. (res = "ok" => Reads)'  BY <1>2 DEF OnlyRead, ReadBegun, UploadInv, Reads
<1>5. (res = "ok" => Contents)'
  BY <1>2 DEF OnlyRead, ReadBegun, UploadInv, Contents, FirstRead
<1>6. (res = "ok" => Lengths)'
  BY <1>2 DEF OnlyRead, UploadInv, Lengths, FileLen, NothingToReceive, ToTheBrim
<1>7. QED BY <1>2, <1>3, <1>4, <1>5, <1>6 DEF UploadInv

LEMMA InvInfo == UploadInv /\ Info => UploadInv'
<1> SUFFICES ASSUME UploadInv, Info PROVE UploadInv'  OBVIOUS
<1>1. /\ pc = "info" /\ ended /\ ended' = FALSE
      /\ (res' = "refused" /\ pc' = "answer") \/ (res' = res /\ pc' = "respond")
      /\ UNCHANGED <<len, left, lastLen, readLen, data, file, stopped, buff, head, armed,
                     response, isFolder, size, usb, host, sending, told>>
  BY DEF Info, WaitEnds, Refuse, hostVars
<1>2. res = "ok"  BY <1>1 DEF UploadInv, Seen, Types
<1>3. Types'
  <2>1. pc' \in PCs /\ res' \in {"ok", "refused"} /\ ended' \in BOOLEAN  BY <1>1, <1>2
  <2>2. QED BY <1>1, <2>1 DEF UploadInv, Types
<1>4. Wire'  BY <1>1 DEF UploadInv, Wire, Sends, Busy
<1>5. Seen'  BY <1>1, <1>2 DEF UploadInv, Seen, Wire, Phases, Types
<1>6. OnCard' /\ Results'
  BY <1>1 DEF UploadInv, OnCard, FileLen, Results, HandleIntact, NoStrayStop, ToTheBrim
<1>7. (res = "ok" /\ usb = "run" => Phases)'  BY <1>1, <1>2 DEF UploadInv, Phases, Busy
<1>8. (res = "ok" => Reads)'  BY <1>1, <1>2 DEF UploadInv, Reads
<1>9. (res = "ok" => Contents /\ Lengths)'
  BY <1>1, <1>2 DEF UploadInv, Contents, Lengths, FileLen
<1>10. QED BY <1>3, <1>4, <1>5, <1>6, <1>7, <1>8, <1>9 DEF UploadInv

LEMMA InvRespond == UploadInv /\ Respond => UploadInv'
<1> SUFFICES ASSUME UploadInv, Respond PROVE UploadInv'  OBVIOUS
<1>1. /\ pc = "respond" /\ pc' = IF NothingToReceive THEN "stamp" ELSE "readOperation"
      /\ response' = IF usb = "run" THEN "ok" ELSE response
      /\ UNCHANGED <<len, left, lastLen, readLen, data, file, res, stopped, buff, head, armed,
                     ended, isFolder, size, usb, host, sending, told>>
  BY DEF Respond, Send, taskVars, usbVars, hostVars
<1>2. res = "ok"  BY <1>1 DEF UploadInv, Seen, Types
<1>3. Types'  BY <1>1 DEF UploadInv, Types
<1>4. Wire'  BY <1>1 DEF UploadInv, Wire, Sends, Busy
<1>5. Seen'  BY <1>1, <1>2 DEF UploadInv, Seen
<1>6. OnCard'  BY <1>1 DEF UploadInv, OnCard, FileLen
<1>7. Results'
  BY <1>1, <1>2 DEF UploadInv, Results, HandleIntact, NoStrayStop, ToTheBrim, Types, Wire, Phases
<1>8. (res = "ok" /\ usb = "run" => Phases)'
  BY <1>1, <1>2 DEF UploadInv, Phases, Busy, Offered, NothingToReceive
<1>9. (res = "ok" => Reads)'  BY <1>1, <1>2 DEF UploadInv, Reads
<1>10. (res = "ok" => Contents)'  BY <1>1, <1>2 DEF UploadInv, Contents
<1>11. (res = "ok" => Lengths)'
  BY <1>1, <1>2 DEF UploadInv, Types, Lengths, FileLen, NothingToReceive, Phases, Wire
<1>12. QED BY <1>3, <1>4, <1>5, <1>6, <1>7, <1>8, <1>9, <1>10, <1>11 DEF UploadInv

LEMMA InvStamp == UploadInv /\ Stamp => UploadInv'
<1> SUFFICES ASSUME UploadInv, Stamp PROVE UploadInv'  OBVIOUS
<1>1. /\ pc = "stamp" /\ pc' = IF NothingToReceive THEN "main" ELSE "answer"
      /\ response' = response \/ (response = "ok" /\ response' = "garbled")
      /\ UNCHANGED <<len, left, lastLen, readLen, data, file, res, stopped, buff, head, armed,
                     ended, isFolder, size, usb, host, sending, told>>
  BY DEF Stamp, taskVars, usbVars, hostVars
<1>2. Types'  BY <1>1 DEF UploadInv, Types
<1>3. Wire'  BY <1>1 DEF UploadInv, Wire, Sends, Busy
<1>4. Seen'  BY <1>1 DEF UploadInv, Seen
<1>5. OnCard'  BY <1>1 DEF UploadInv, OnCard, FileLen
<1>6. Results'
  BY <1>1 DEF UploadInv, Results, HandleIntact, NoStrayStop, ToTheBrim, Types, Wire, Seen, Phases,
              NothingToReceive
<1>7. (res = "ok" /\ usb = "run" => Phases)'
  BY <1>1 DEF UploadInv, Phases, Busy, Offered, Served, NothingToReceive, Wire
<1>8. (res = "ok" => Reads)'  BY <1>1 DEF UploadInv, Reads
<1>9. (res = "ok" => Contents)'  BY <1>1 DEF UploadInv, Contents
<1>10. (res = "ok" => Lengths)'
  BY <1>1 DEF UploadInv, Lengths, FileLen, NothingToReceive, ToTheBrim
<1>11. QED BY <1>2, <1>3, <1>4, <1>5, <1>6, <1>7, <1>8, <1>9, <1>10 DEF UploadInv

LEMMA InvOperation == UploadInv /\ Operation => UploadInv'
<1> SUFFICES ASSUME UploadInv, Operation PROVE UploadInv'  OBVIOUS
<1>1. /\ pc = "operation" /\ ended /\ ended' = FALSE
      /\ \/ head = "send" /\ pc' = "readHeader" /\ res' = res
         \/ pc' = "stamp" /\ res' = "refused"
      /\ UNCHANGED <<len, left, lastLen, readLen, data, file, stopped, buff, head, armed,
                     response, isFolder, size, usb, host, sending, told>>
  BY DEF Operation, WaitEnds, Refuse, hostVars
<1>2. res = "ok"  BY <1>1 DEF UploadInv, Seen, Types
<1>3. response = "none" /\ (usb = "run" => host \in {"data", "result"})
  BY <1>1, <1>2 DEF UploadInv, Types, Wire, Phases, Offered
<1>4. Types'
  <2>1. pc' \in PCs /\ res' \in {"ok", "refused"} /\ ended' \in BOOLEAN  BY <1>1, <1>2
  <2>2. QED BY <1>1, <2>1 DEF UploadInv, Types
<1>5. Wire'  BY <1>1 DEF UploadInv, Wire, Sends, Busy
<1>6. Seen'  BY <1>1, <1>2, <1>3 DEF UploadInv, Seen
<1>7. OnCard' /\ Results'
  BY <1>1 DEF UploadInv, OnCard, FileLen, Results, HandleIntact, NoStrayStop, ToTheBrim
<1>8. (res = "ok" /\ usb = "run" => Phases)'
  BY <1>1, <1>2, <1>3 DEF UploadInv, Phases, Busy, DataNext
<1>9. (res = "ok" => Reads)'  BY <1>1, <1>2 DEF UploadInv, Reads
<1>10. (res = "ok" => Contents /\ Lengths)'
  BY <1>1, <1>2 DEF UploadInv, Contents, Lengths, FileLen, NothingToReceive
<1>11. QED BY <1>4, <1>5, <1>6, <1>7, <1>8, <1>9, <1>10 DEF UploadInv

LEMMA InvHeader == UploadInv /\ Header => UploadInv'
<1> SUFFICES ASSUME UploadInv, Header PROVE UploadInv'  OBVIOUS
<1>1. /\ pc = "header" /\ ended /\ ended' = FALSE
      /\ UNCHANGED <<len, left, readLen, file, stopped, buff, head, armed, response,
                     isFolder, size, usb, host, sending, told>>
  BY DEF Header, WaitEnds, hostVars
<1>2. res = "ok"  BY <1>1 DEF UploadInv, Seen, Types
<1>3. response = "none"  BY <1>1, <1>2 DEF UploadInv, Types, Wire, Phases
<1>4. Wire'  BY <1>1 DEF UploadInv, Wire, Sends, Busy
<1>5. OnCard' /\ HandleIntact'
  BY <1>1 DEF UploadInv, OnCard, FileLen, Results, HandleIntact
<1>6. CASE head # "data"
  <2>1. res' = "refused" /\ pc' = "stamp" /\ UNCHANGED <<lastLen, data>>
    BY <1>6 DEF Header, Refuse
  <2>2. pc' \in PCs /\ res' \in {"ok", "refused"} /\ ended' \in BOOLEAN  BY <1>1, <2>1
  <2>3. Types'  BY <1>1, <2>1, <2>2 DEF UploadInv, Types
  <2>4. Seen' /\ Results'
    BY <1>1, <1>3, <1>5, <2>1 DEF UploadInv, Seen, Results, NoStrayStop
  <2>5. QED BY <1>4, <1>5, <2>1, <2>3, <2>4 DEF UploadInv
<1>7. CASE head = "data"
  <2>1. res' = res /\ pc' = "piece" /\ lastLen' = len - HeadLen /\ data' = HeadLen
    BY <1>7 DEF Header, WithoutHeader
  <2>2. /\ len \in HeadLen .. MaxLen /\ len <= HeadLen + size /\ HeadLen \in Nat
        /\ MaxLen \in Nat /\ Holds(0, 0, len) /\ ReadUpTo(len)
        /\ left = size /\ Len(file) = 0
    BY <1>1, <1>2, <1>7, Scale DEF UploadInv, Contents, FirstRead, Lengths
  <2>3. lastLen' \in Nat  BY <2>1, <2>2
  <2>4. Types'
    <3>1. pc' \in PCs /\ ended' \in BOOLEAN  BY <1>1, <2>1
    <3>2. QED BY <1>1, <2>1, <2>3, <3>1 DEF UploadInv, Types
  <2>5. Seen' /\ Results'
    BY <1>1, <1>2, <1>5, <2>1 DEF UploadInv, Seen, Results, NoStrayStop, ToTheBrim
  <2>6. (res = "ok" /\ usb = "run" => Phases)'
    <3>1. usb = "run" => host = "result" /\ sending.kind = "data"
      BY <1>1, <1>2, <1>7, <2>2 DEF UploadInv, Phases, Seen, ReadUpTo, Sends
    <3>2. QED BY <1>1, <1>3, <2>1, <3>1 DEF Phases
  <2>7. (res = "ok" => Reads)'  BY <1>1, <1>2, <2>1 DEF UploadInv, Reads
  <2>8. (res = "ok" => Contents)'
    <3>1. HeadLen + size - left + lastLen' = len  BY <2>1, <2>2 DEF UploadInv, Types
    <3>2. ReadUpTo(HeadLen + size - left + lastLen')  BY <2>2, <3>1
    <3>3. \A i \in 0 .. lastLen' - 1 : buff[HeadLen + i] = HeadLen + 0 + i
      BY <2>1, <2>2 DEF Holds
    <3>4. lastLen' <= MaxLen  BY <2>1, <2>2
    <3>5. QED BY <1>1, <1>7, <2>1, <2>2, <3>2, <3>3, <3>4
              DEF Contents, InPlace, Holds, Before, ReadUpTo, Sends, Busy
  <2>9. (res = "ok" => Lengths)'
    BY <1>1, <1>2, <2>1, <2>2 DEF UploadInv, Types, Lengths, NothingToReceive
  <2>10. QED BY <1>4, <1>5, <2>4, <2>5, <2>6, <2>7, <2>8, <2>9 DEF UploadInv
<1>8. QED BY <1>6, <1>7

\* The next half is read, into the other half of the buffer, while this one is stored.
LEMMA InvPiece == UploadInv /\ Piece => UploadInv'
<1> SUFFICES ASSUME UploadInv, Piece PROVE UploadInv'  OBVIOUS
<1>1. /\ pc = "piece" /\ pc' = "store" /\ left' = left - lastLen
      /\ UNCHANGED <<lastLen, data, file, res, stopped, buff, head, response,
                     isFolder, size, usb, host, sending, told>>
  BY DEF Piece, LeftAfter, hostVars
<1>2. res = "ok"  BY <1>1 DEF UploadInv, Seen, Types
<1>3. /\ Len(file) + left = size /\ lastLen <= left /\ InPlace /\ head = "data"
      /\ ReadUpTo(Before + lastLen) /\ ~armed.busy /\ ~ended /\ ~NothingToReceive
  BY <1>1, <1>2 DEF UploadInv, Lengths, Contents, Reads
<1>4. /\ left' \in Nat /\ size \in Nat /\ lastLen \in Nat /\ left \in Nat
      /\ HeadLen \in Nat /\ MaxLen \in Nat /\ Len(file) \in Nat
      /\ sending.next \in Nat /\ sending.left \in Nat
      /\ Before' = Before + lastLen /\ HeadLen + size - left' = Before + lastLen
  BY <1>1, <1>3, Scale DEF UploadInv, Types, Before
<1>5. /\ OtherHalf \in {HeadLen, HeadLen + MaxLen} /\ OtherHalf \in Nat
      /\ OtherHalf + MaxLen <= HeadLen + 2 * MaxLen /\ OtherHalf' = OtherHalf
  BY <1>1, <1>4 DEF OtherHalf
<1>6. /\ armed' \in [at : Nat, want : Nat, got : Nat, busy : BOOLEAN]
      /\ armed'.at + armed'.want <= HeadLen + 2 * MaxLen
      /\ len' \in Nat /\ ended' \in BOOLEAN /\ readLen' \in 0 .. MaxLen
      /\ IF left' = 0 THEN UNCHANGED <<armed, len, ended>>
                      ELSE ReadBegun(OtherHalf, MaxLen) /\ readLen' = Smaller(left', MaxLen)
  <2>1. CASE left' = 0
    BY <2>1 DEF Piece, MoreToRead, UploadInv, Types
  <2>2. CASE left' # 0
    <3>1. readLen' = Smaller(left', MaxLen) /\ StartRead(OtherHalf, MaxLen)
      BY <2>2 DEF Piece, MoreToRead, NextHalf, Want
    <3>2. readLen' \in 0 .. MaxLen  BY <1>4, <3>1 DEF Smaller
    <3>3. QED BY <1>5, <2>2, <3>1, <3>2, ReadStarted
  <2>3. QED BY <2>1, <2>2
<1>7. Types'
  <2>1. pc' \in PCs  BY <1>1
  <2>2. QED BY <1>1, <1>4, <1>6, <2>1 DEF UploadInv, Types
<1>8. Wire'  BY <1>1, <1>6 DEF UploadInv, Wire, Sends, Busy, ReadBegun
<1>9. Seen'  BY <1>1, <1>2 DEF UploadInv, Seen
<1>10. OnCard' /\ Results'
  BY <1>1 DEF UploadInv, OnCard, FileLen, Results, HandleIntact, NoStrayStop, ToTheBrim
<1>11. (res = "ok" /\ usb = "run" => Phases)'  BY <1>1, <1>2 DEF UploadInv, Phases
<1>12. (res = "ok" => Reads)'
  BY <1>1, <1>2, <1>3, <1>6 DEF UploadInv, Reads, ReadBegun
<1>13. (res = "ok" => Contents)'
  <2>1. InPlace'  BY <1>1, <1>3 DEF InPlace, Holds
  <2>2. left' = 0 => ReadUpTo(HeadLen + size)'
    BY <1>1, <1>3, <1>4 DEF ReadUpTo, Sends, Busy
  <2>3. ASSUME left' # 0  PROVE NextRead'
    <3>1. ASSUME usb = "run"
          PROVE  /\ Sends("data", HeadLen + size) /\ sending.next = Before'
                 /\ Before' % MaxLen = 0
      <4>1. Sends("data", HeadLen + size) /\ sending.next = Before'
        BY <1>3, <1>4, <3>1 DEF ReadUpTo
      <4>2. sending.left = left'  BY <1>1, <1>4, <4>1 DEF Sends
      <4>3. QED BY <1>3, <1>4, <2>3, <3>1, <4>1, <4>2 DEF ReadUpTo, Busy
    <3>2. /\ readLen' = Smaller(left', MaxLen)
          /\ armed'.busy => usb = "run" /\ armed'.at = OtherHalf /\ armed'.want = MaxLen
                            /\ armed'.got = 0
          /\ ended' => usb = "reset" /\ len' = 0
      BY <1>3, <1>6, <2>3 DEF ReadBegun
    <3>3. /\ armed'.busy => Holds(OtherHalf, Before, armed.got)'
          /\ ended' => Holds(OtherHalf, Before, len)'
      BY <3>2 DEF Holds
    <3>4. sending'.next = sending.next /\ usb' = usb /\ sending' = sending
          /\ size' = size
      BY <1>1
    <3>5. armed'.busy => /\ armed'.at = OtherHalf' /\ armed'.want = MaxLen
                         /\ Sends("data", HeadLen + size)'
                         /\ sending'.next = Before' + armed'.got /\ Before' % MaxLen = 0
                         /\ Holds(OtherHalf, Before, armed.got)'
      BY <1>4, <1>5, <3>1, <3>2, <3>3, <3>4 DEF Sends
    <3>6. ended' => /\ len' <= MaxLen /\ len' <= left'
                    /\ Holds(OtherHalf, Before, len)' /\ ReadUpTo(Before + len)'
      BY <1>4, <3>2, <3>3, <3>4 DEF ReadUpTo
    <3>7. QED BY <2>3, <3>2, <3>5, <3>6 DEF NextRead
  <2>4. QED BY <1>1, <1>3, <2>1, <2>2, <2>3 DEF Contents
<1>14. (res = "ok" => Lengths)'
  <2>1. /\ Len(file') + lastLen' + left' = size' /\ ~NothingToReceive' /\ pc' = "store"
    BY <1>1, <1>3, <1>4 DEF NothingToReceive
  <2>2. told' = "none"  BY <1>1, <1>2 DEF UploadInv, Lengths
  <2>3. QED BY <2>1, <2>2 DEF Lengths
<1>15. QED BY <1>7, <1>8, <1>9, <1>10, <1>11, <1>12, <1>13, <1>14 DEF UploadInv

\* The card gets the piece, which goes on where the file on it ends.
LEMMA InvStore == UploadInv /\ Store => UploadInv'
<1> SUFFICES ASSUME UploadInv, Store PROVE UploadInv'  OBVIOUS
<1>1. /\ pc = "store" /\ pc' = IF left = 0 THEN "stamp" ELSE "next"
      /\ file' = file \o [i \in 1 .. lastLen |-> buff[data + i - 1]]
      /\ UNCHANGED <<len, left, lastLen, readLen, data, res, stopped, buff, head, armed, ended,
                     response, isFolder, size, usb, host, sending, told>>
  BY DEF Store, AllStored, usbVars, hostVars
<1>2. res = "ok"  BY <1>1 DEF UploadInv, Seen, Types
<1>3. /\ Len(file) + lastLen + left = size /\ ~NothingToReceive /\ FileLen = size
      /\ InPlace /\ head = "data"
  BY <1>1, <1>2 DEF UploadInv, Lengths, Contents, FileLen, NothingToReceive
<1>4. /\ left \in Nat /\ lastLen \in Nat /\ size \in Nat /\ Len(file) \in Nat /\ file \in Seq(Int)
      /\ HeadLen \in Nat /\ MaxLen \in Nat /\ data \in Nat
  BY Scale DEF UploadInv, Types
<1> DEFINE piece == [i \in 1 .. lastLen |-> buff[data + i - 1]]
<1>5. \A i \in 1 .. lastLen : buff[data + i - 1] = HeadLen + Len(file) + i - 1
  <2>1. TAKE i \in 1 .. lastLen
  <2>2. i - 1 \in 0 .. lastLen - 1 /\ data + (i - 1) = data + i - 1  BY <1>4
  <2>3. buff[data + (i - 1)] = HeadLen + Len(file) + (i - 1)
    BY <1>3, <2>2 DEF InPlace, Holds
  <2>4. QED BY <1>4, <2>2, <2>3
<1>6. piece \in Seq(Int) /\ Len(piece) = lastLen
      /\ \A i \in 1 .. lastLen : piece[i] = HeadLen + Len(file) + i - 1
  <2>1. \A i \in 1 .. lastLen : HeadLen + Len(file) + i - 1 \in Int  BY <1>4
  <2>2. piece \in [1 .. lastLen -> Int]  BY <1>5, <2>1
  <2>3. Len(piece) = lastLen  BY <1>4
  <2>4. piece \in Seq(Int)
    <3> HIDE DEF piece
    <3>1. QED BY <1>4, <2>2
  <2>5. QED BY <1>5, <2>3, <2>4
<1>7. /\ file' \in Seq(Int) /\ Len(file') = Len(file) + lastLen
      /\ \A i \in 1 .. Len(file') : file'[i] = HeadLen + i - 1
  <2> HIDE DEF piece
  <2>1. file' = file \o piece  BY <1>1 DEF piece
  <2>2. file' \in Seq(Int) /\ Len(file') = Len(file) + lastLen
        /\ \A i \in 1 .. Len(file) + lastLen :
             file'[i] = IF i <= Len(file) THEN file[i] ELSE piece[i - Len(file)]
    BY <1>4, <1>6, <2>1, ConcatProperties
  <2>3. ASSUME NEW i \in 1 .. Len(file) + lastLen  PROVE file'[i] = HeadLen + i - 1
    <3>1. CASE i <= Len(file)
      BY <1>4, <2>2, <3>1 DEF UploadInv, OnCard
    <3>2. CASE i > Len(file)
      <4>1. i - Len(file) \in 1 .. lastLen  BY <1>4, <3>2
      <4>2. piece[i - Len(file)] = HeadLen + Len(file) + (i - Len(file)) - 1
        BY <1>6, <4>1
      <4>3. QED BY <1>4, <2>2, <3>2, <4>2
    <3>3. QED BY <1>4, <3>1, <3>2
  <2>4. QED BY <2>2, <2>3
<1>8. Types'
  <2>1. pc' \in PCs  BY <1>1
  <2>2. QED BY <1>1, <1>7, <2>1 DEF UploadInv, Types
<1>9. Wire'  BY <1>1 DEF UploadInv, Wire, Sends, Busy
<1>10. Seen'  BY <1>1, <1>2 DEF UploadInv, Seen
<1>11. OnCard'
  <2>1. FileLen' = size  BY <1>1, <1>3 DEF FileLen
  <2>2. Len(file') <= size  BY <1>3, <1>4, <1>7
  <2>3. QED BY <1>7, <2>1, <2>2 DEF OnCard
<1>12. Results'
  <2>1. response = "none"  BY <1>1, <1>2 DEF UploadInv, Types, Wire, Phases
  <2>2. QED BY <1>1, <2>1 DEF UploadInv, Results, HandleIntact, NoStrayStop, ToTheBrim
<1>13. (res = "ok" /\ usb = "run" => Phases)'
  BY <1>1, <1>2, <1>3 DEF UploadInv, Phases, NothingToReceive
<1>14. (res = "ok" => Reads)'  BY <1>1, <1>2 DEF UploadInv, Reads
<1>15. (res = "ok" => Contents)'
  BY <1>1, <1>2, <1>3 DEF UploadInv, Contents, NextRead, Holds, ReadUpTo, Before, Sends, Busy,
                          OtherHalf
<1>16. (res = "ok" => Lengths)'
  <2>1. sending.empty /\ left = 0 => ToTheBrim
    BY <1>1, <1>2 DEF UploadInv, Types, Wire, Contents, ReadUpTo, Busy, ToTheBrim, NothingToSend
  <2>2. IF left = 0 THEN Len(file') = size ELSE Len(file') + left = size
    BY <1>3, <1>4, <1>7
  <2>3. told' = "none"  BY <1>1, <1>2 DEF UploadInv, Lengths
  <2>4. QED BY <1>1, <1>3, <2>1, <2>2, <2>3 DEF Lengths, FileLen, NothingToReceive, ToTheBrim
<1>17. QED BY <1>8, <1>9, <1>10, <1>11, <1>12, <1>13, <1>14, <1>15, <1>16 DEF UploadInv

LEMMA InvStoreError == UploadInv /\ StoreError => UploadInv'
<1> SUFFICES ASSUME UploadInv, StoreError PROVE UploadInv'  OBVIOUS
<1>1. /\ pc = "store" /\ pc' = "stamp" /\ res' = "refused"
      /\ UNCHANGED <<len, left, lastLen, readLen, data, file, stopped, buff, head, armed, ended,
                     response, isFolder, size, usb, host, sending, told>>
  BY DEF StoreError, Refuse, usbVars, hostVars
<1>2. res = "ok"  BY <1>1 DEF UploadInv, Seen, Types
<1>3. response = "none"  BY <1>1, <1>2 DEF UploadInv, Types, Wire, Phases
<1>4. Types'
  <2>1. pc' \in PCs /\ res' \in {"ok", "refused"}  BY <1>1
  <2>2. QED BY <1>1, <2>1 DEF UploadInv, Types
<1>5. Wire'  BY <1>1 DEF UploadInv, Wire, Sends, Busy
<1>6. Seen'  BY <1>1, <1>3 DEF UploadInv, Seen
<1>7. OnCard' /\ Results'
  BY <1>1 DEF UploadInv, OnCard, FileLen, Results, HandleIntact, NoStrayStop
<1>8. QED BY <1>1, <1>4, <1>5, <1>6, <1>7 DEF UploadInv

LEMMA InvNextPiece == UploadInv /\ NextPiece => UploadInv'
<1> SUFFICES ASSUME UploadInv, NextPiece PROVE UploadInv'  OBVIOUS
<1>1. /\ pc = "next" /\ ended /\ ended' = FALSE
      /\ UNCHANGED <<len, left, readLen, file, stopped, buff, head, armed, response,
                     isFolder, size, usb, host, sending, told>>
  BY DEF NextPiece, WaitEnds, hostVars
<1>2. res = "ok"  BY <1>1 DEF UploadInv, Seen, Types
<1>3. response = "none"  BY <1>1, <1>2 DEF UploadInv, Types, Wire, Phases
<1>4. Wire'  BY <1>1 DEF UploadInv, Wire, Sends, Busy
<1>5. OnCard' /\ HandleIntact'
  BY <1>1 DEF UploadInv, OnCard, FileLen, Results, HandleIntact
<1>6. CASE len # readLen
  <2>1. res' = "refused" /\ pc' = "stamp" /\ UNCHANGED <<lastLen, data>>
    BY <1>6 DEF NextPiece, Refuse
  <2>2. Types'
    <3>1. pc' \in PCs /\ res' \in {"ok", "refused"} /\ ended' \in BOOLEAN  BY <1>1, <2>1
    <3>2. QED BY <1>1, <2>1, <3>1 DEF UploadInv, Types
  <2>3. Seen' /\ Results'
    BY <1>1, <1>3, <1>5, <2>1 DEF UploadInv, Seen, Results, NoStrayStop
  <2>4. QED BY <1>4, <1>5, <2>1, <2>2, <2>3 DEF UploadInv
<1>7. CASE len = readLen
  <2>1. res' = res /\ pc' = "piece" /\ lastLen' = len /\ data' = OtherHalf
    BY <1>7 DEF NextPiece
  <2>2. /\ len <= MaxLen /\ len <= left /\ head = "data" /\ ~NothingToReceive
        /\ Holds(OtherHalf, Before, len) /\ ReadUpTo(Before + len)
        /\ Len(file) + left = size
    BY <1>1, <1>2, <1>7 DEF UploadInv, Contents, NextRead, Lengths
  <2>3. Before = HeadLen + Len(file) /\ Before' = Before
    <3>1. left \in Nat /\ size \in Nat /\ Len(file) \in Nat /\ HeadLen \in Nat
      BY Scale DEF UploadInv, Types
    <3>2. QED BY <1>1, <2>2, <3>1 DEF Before
  <2>4. Types'
    <3>1. pc' \in PCs /\ ended' \in BOOLEAN /\ OtherHalf \in {HeadLen, HeadLen + MaxLen}
      BY <1>1, <2>1 DEF OtherHalf
    <3>2. QED BY <1>1, <2>1, <3>1 DEF UploadInv, Types
  <2>5. Seen' /\ Results'
    BY <1>1, <1>2, <1>5, <2>1 DEF UploadInv, Seen, Results, NoStrayStop, ToTheBrim
  <2>6. (res = "ok" /\ usb = "run" => Phases)'  BY <1>1, <1>2, <2>1 DEF UploadInv, Phases
  <2>7. (res = "ok" => Reads)'  BY <1>1, <1>2, <2>1 DEF UploadInv, Reads
  <2>8. (res = "ok" => Contents)'
    <3>1. InPlace'  BY <1>1, <2>1, <2>2, <2>3 DEF InPlace, Holds
    <3>2. ReadUpTo(Before + lastLen)'
      BY <1>1, <2>1, <2>2, <2>3 DEF ReadUpTo, Sends, Busy
    <3>3. QED BY <1>1, <2>1, <2>2, <3>1, <3>2 DEF Contents
  <2>9. (res = "ok" => Lengths)'
    <3>1. told' = "none"  BY <1>1, <1>2 DEF UploadInv, Lengths
    <3>2. QED BY <1>1, <2>1, <2>2, <3>1 DEF Lengths, NothingToReceive
  <2>10. QED BY <1>4, <1>5, <2>4, <2>5, <2>6, <2>7, <2>8, <2>9 DEF UploadInv
<1>8. QED BY <1>6, <1>7

LEMMA InvAnswer == UploadInv /\ Answer => UploadInv'
<1> SUFFICES ASSUME UploadInv, Answer PROVE UploadInv'  OBVIOUS
<1>1. /\ pc = "answer" /\ pc' = "main" /\ response' = IF usb = "run" THEN res ELSE response
      /\ UNCHANGED <<len, left, lastLen, readLen, data, file, res, stopped, buff, head, armed,
                     ended, isFolder, size, usb, host, sending, told>>
  BY DEF Answer, Send, taskVars, usbVars, hostVars
<1>2. Types'
  <2>1. pc' \in PCs /\ response' \in {"none", "ok", "refused", "garbled"}
    BY <1>1 DEF UploadInv, Types
  <2>2. QED BY <1>1, <2>1 DEF UploadInv, Types
<1>3. Wire'  BY <1>1 DEF UploadInv, Wire, Sends, Busy
<1>4. Seen'  BY <1>1 DEF UploadInv, Types, Seen
<1>5. OnCard'  BY <1>1 DEF UploadInv, OnCard, FileLen
<1>6. Results'
  <2>1. res = "ok" /\ host = "result" => Len(file) = size
    BY <1>1 DEF UploadInv, Lengths, FileLen, Wire
  <2>2. QED BY <1>1, <2>1 DEF UploadInv, Types, Results, HandleIntact, NoStrayStop, ToTheBrim
<1>7. (res = "ok" /\ usb = "run" => Phases)'
  BY <1>1 DEF UploadInv, Phases, Served, Lengths
<1>8. (res = "ok" => Reads)'  BY <1>1 DEF UploadInv, Reads
<1>9. (res = "ok" => Contents)'  BY <1>1 DEF UploadInv, Contents
<1>10. (res = "ok" => Lengths)'
  BY <1>1 DEF UploadInv, Lengths, FileLen, NothingToReceive, ToTheBrim
<1>11. QED BY <1>2, <1>3, <1>4, <1>5, <1>6, <1>7, <1>8, <1>9, <1>10 DEF UploadInv

LEMMA InvMainLoop == UploadInv /\ MainLoop => UploadInv'
<1> SUFFICES ASSUME UploadInv, MainLoop PROVE UploadInv'  OBVIOUS
<1>1. /\ pc = "mainLoop" /\ ended /\ ended' = FALSE
      /\ stopped' = (stopped \/ len = 0)
      /\ pc' \in {"readEmpty", "done", "main"} /\ (pc' = "readEmpty" => head = "send")
      /\ UNCHANGED <<len, left, lastLen, readLen, data, file, res, buff, head, armed, response,
                     isFolder, size, usb, host, sending, told>>
  BY DEF MainLoop, WaitEnds, hostVars
<1>2. Types'
  <2>1. pc' \in PCs /\ ended' \in BOOLEAN /\ stopped' \in BOOLEAN  BY <1>1
  <2>2. QED BY <1>1, <2>1 DEF UploadInv, Types
<1>3. Wire'  BY <1>1 DEF UploadInv, Wire, Sends, Busy
<1>4. Seen'  BY <1>1 DEF UploadInv, Seen
<1>5. OnCard'  BY <1>1 DEF UploadInv, OnCard, FileLen
<1>6. Results'
  <2>1. len = 0 => res = "refused" \/ ToTheBrim \/ usb = "reset"
    BY <1>1 DEF UploadInv, Types, Reads
  <2>2. QED BY <1>1, <2>1 DEF UploadInv, Results, HandleIntact, NoStrayStop, ToTheBrim
<1>7. (res = "ok" /\ usb = "run" => Phases)'
  BY <1>1 DEF UploadInv, Phases, Offered, Served, Seen, Busy, NothingToReceive
<1>8. (res = "ok" => Reads)'  BY <1>1 DEF UploadInv, Reads
<1>9. (res = "ok" => Contents)'  BY <1>1 DEF UploadInv, Contents
<1>10. (res = "ok" => Lengths)'
  BY <1>1 DEF UploadInv, Lengths, FileLen, NothingToReceive, ToTheBrim
<1>11. QED BY <1>2, <1>3, <1>4, <1>5, <1>6, <1>7, <1>8, <1>9, <1>10 DEF UploadInv

LEMMA InvEmpty == UploadInv /\ Empty => UploadInv'
<1> SUFFICES ASSUME UploadInv, Empty PROVE UploadInv'  OBVIOUS
<1>1. /\ pc = "empty" /\ pc' = "answer" /\ ended /\ ended' = FALSE
      /\ res' = "refused" \/ (res' = res /\ head = "data")
      /\ UNCHANGED <<len, left, lastLen, readLen, data, file, stopped, buff, head, armed,
                     response, isFolder, size, usb, host, sending, told>>
  BY DEF Empty, WaitEnds, hostVars
<1>2. res = "ok" => response = "none"  BY <1>1 DEF UploadInv, Types, Wire, Phases
<1>3. Types'
  <2>1. pc' \in PCs /\ ended' \in BOOLEAN /\ res' \in {"ok", "refused"}
    BY <1>1 DEF UploadInv, Types
  <2>2. QED BY <1>1, <2>1 DEF UploadInv, Types
<1>4. Wire'  BY <1>1 DEF UploadInv, Wire, Sends, Busy
<1>5. Seen'  BY <1>1, <1>2 DEF UploadInv, Types, Seen
<1>6. OnCard'  BY <1>1 DEF UploadInv, OnCard, FileLen
<1>7. Results'
  BY <1>1 DEF UploadInv, Results, HandleIntact, NoStrayStop, ToTheBrim
<1>8. (res = "ok" /\ usb = "run" => Phases)'
  BY <1>1, <1>2 DEF UploadInv, Phases, Seen, Wire, Sends
<1>9. (res = "ok" => Reads)'  BY <1>1 DEF UploadInv, Reads
<1>10. (res = "ok" => Contents /\ Lengths)'
  BY <1>1 DEF UploadInv, Contents, Lengths, FileLen, Phases, Wire, NothingToReceive
<1>11. QED BY <1>3, <1>4, <1>5, <1>6, <1>7, <1>8, <1>9, <1>10 DEF UploadInv

-----------------------------------------------------------------------------
(* The steps of the host. *)

\* What no step of the host touches.
HostOnly ==
  UNCHANGED <<pc, len, left, lastLen, readLen, data, res, file, stopped, buff, head, armed,
              ended, isFolder, size, usb>>

LEMMA InvInfoSent == UploadInv /\ InfoSent => UploadInv'
<1> SUFFICES ASSUME UploadInv, InfoSent PROVE UploadInv'  OBVIOUS
<1>1. /\ host = "info" /\ host' = "handle" /\ ~Busy /\ HostOnly
      /\ UNCHANGED <<sending, response, told>>
  BY DEF InfoSent, Host, HostUnchanged, HostOnly, taskVars, usbVars
<1>2. Types'  BY <1>1 DEF UploadInv, Types, HostOnly
<1>3. Wire'  BY <1>1 DEF UploadInv, Wire, HostOnly, Busy
<1>4. Seen'  BY <1>1 DEF UploadInv, Seen, HostOnly
<1>5. OnCard' /\ Results'
  BY <1>1 DEF UploadInv, OnCard, FileLen, Results, HandleIntact, NoStrayStop, ToTheBrim, HostOnly
<1>6. (res = "ok" /\ usb = "run" => Phases)'
  <2>1. sending.next # 0
    BY <1>1, Scale DEF UploadInv, Types, Wire, Sends, Busy
  <2>2. QED BY <1>1, <2>1
            DEF UploadInv, Phases, Offered, Served, DataNext, Busy, NothingToReceive, HostOnly
<1>7. (res = "ok" => Reads)'  BY <1>1 DEF UploadInv, Reads, ToTheBrim, HostOnly
<1>8. (res = "ok" => Contents)'
  BY <1>1 DEF UploadInv, Contents, FirstRead, NextRead, InPlace, Holds, ReadUpTo, Before, Sends,
              Busy, OtherHalf, HostOnly
<1>9. (res = "ok" => Lengths)'
  BY <1>1 DEF UploadInv, Lengths, FileLen, NothingToReceive, ToTheBrim, HostOnly
<1>10. QED BY <1>2, <1>3, <1>4, <1>5, <1>6, <1>7, <1>8, <1>9 DEF UploadInv

\* The first response tells the host whether there is something to send.
LEMMA InvTakeHandle == UploadInv /\ TakeHandle => UploadInv'
<1> SUFFICES ASSUME UploadInv, TakeHandle PROVE UploadInv'  OBVIOUS
<1>1. /\ host = "handle" /\ ~Busy /\ HostOnly /\ sending' = sending
      /\ response # "none" /\ response' = "none"
      /\ \/ host' = "send" /\ response # "refused" /\ ~isFolder /\ told' = told
         \/ host' = "done" /\ (response = "refused" \/ isFolder) /\ told' \in {"ok", "failed"}
  BY DEF TakeHandle, TakeResponse, Result, Host, HostUnchanged, HostOnly, taskVars, usbVars
<1>2. Types'
  <2>1. told' \in {"none", "ok", "failed"}  BY <1>1 DEF UploadInv, Types
  <2>2. QED BY <1>1, <2>1 DEF UploadInv, Types, HostOnly
<1>3. Wire'  BY <1>1 DEF UploadInv, Wire, HostOnly, Busy
<1>4. Seen'  BY <1>1 DEF UploadInv, Seen, HostOnly
<1>5. OnCard' /\ Results'
  BY <1>1 DEF UploadInv, OnCard, FileLen, Results, HandleIntact, NoStrayStop, ToTheBrim, HostOnly
<1>6. (res = "ok" /\ usb = "run" => Phases)'
  BY <1>1 DEF UploadInv, Phases, Offered, Served, Seen, Wire, Busy, NothingToReceive, Lengths,
              HostOnly
<1>7. (res = "ok" => Reads)'  BY <1>1 DEF UploadInv, Reads, ToTheBrim, HostOnly
<1>8. (res = "ok" => Contents)'
  BY <1>1 DEF UploadInv, Contents, FirstRead, NextRead, InPlace, Holds, ReadUpTo, Before, Sends,
              Busy, OtherHalf, HostOnly
<1>9. (res = "ok" => Lengths)'
  <2>1. usb = "run"  BY <1>1 DEF UploadInv, Types, Wire
  <2>2. ASSUME res = "ok", pc \in Announcing \cup Expecting \cup Receiving
        PROVE  told' = "none"
    BY <1>1, <2>1, <2>2 DEF UploadInv, Types, Phases, Offered, Lengths, NothingToReceive
  <2>3. QED BY <1>1, <2>2 DEF UploadInv, Lengths, FileLen, NothingToReceive, ToTheBrim, HostOnly
<1>10. QED BY <1>2, <1>3, <1>4, <1>5, <1>6, <1>7, <1>8, <1>9 DEF UploadInv

LEMMA InvTakeResult == UploadInv /\ TakeResult => UploadInv'
<1> SUFFICES ASSUME UploadInv, TakeResult PROVE UploadInv'  OBVIOUS
<1>1. /\ host = "result" /\ host' = "done" /\ ~Busy /\ HostOnly /\ sending' = sending
      /\ response # "none" /\ response' = "none" /\ told' \in {"ok", "failed"}
  BY DEF TakeResult, TakeResponse, Result, Host, HostUnchanged, HostOnly, taskVars, usbVars
<1>2. Types'
  <2>1. told' \in {"none", "ok", "failed"}  BY <1>1
  <2>2. QED BY <1>1, <2>1 DEF UploadInv, Types, HostOnly
<1>3. Wire'  BY <1>1 DEF UploadInv, Wire, HostOnly, Busy
<1>4. Seen'  BY <1>1 DEF UploadInv, Seen, HostOnly
<1>5. OnCard' /\ Results'
  BY <1>1 DEF UploadInv, OnCard, FileLen, Results, HandleIntact, NoStrayStop, ToTheBrim, HostOnly
<1>6. (res = "ok" /\ usb = "run" => Phases)'
  BY <1>1 DEF UploadInv, Phases, Offered, Served, Wire, Busy, NothingToReceive, HostOnly
<1>7. (res = "ok" => Reads)'  BY <1>1 DEF UploadInv, Reads, ToTheBrim, HostOnly
<1>8. (res = "ok" => Contents)'
  <2>1. usb = "run" /\ res = "ok" => pc # "header" /\ pc \notin Receiving
    BY <1>1 DEF UploadInv, Phases
  <2>2. QED BY <1>1, <2>1
            DEF UploadInv, Types, Wire, Contents, FirstRead, NextRead, InPlace, Holds, ReadUpTo,
                Before, OtherHalf, HostOnly
<1>9. (res = "ok" => Lengths)'
  <2>1. usb = "run"  BY <1>1 DEF UploadInv, Types, Wire
  <2>2. ASSUME res = "ok", pc \in Announcing \cup Expecting \cup Receiving
        PROVE  told' = "none"
    BY <1>1, <2>1, <2>2 DEF UploadInv, Phases, Offered
  <2>3. QED BY <1>1, <2>2 DEF UploadInv, Lengths, FileLen, NothingToReceive, ToTheBrim, HostOnly
<1>10. QED BY <1>2, <1>3, <1>4, <1>5, <1>6, <1>7, <1>8, <1>9 DEF UploadInv

\* The host begins a new container.
LEMMA InvSend ==
  ASSUME UploadInv, HostOnly, UNCHANGED <<response, told>>, ~Busy,
         NEW kind \in {"send", "data", "odd", "other"}, NEW n \in Nat,
         sending' = [kind |-> kind, next |-> 0, left |-> n, empty |-> n % Mps = 0],
         IF kind \in {"data", "odd"} THEN n = HeadLen + size ELSE n = HeadLen,
         \/ host = "send" /\ kind = "send" /\ host' = "data"
         \/ host = "send" /\ kind = "other" /\ host' = "result" /\ size # 0
         \/ host = "data" /\ kind \in {"data", "odd"} /\ host' = "result"
         \/ host = "done" /\ kind = "other" /\ host' = "gone"
  PROVE  UploadInv'
<1>1. /\ sending'.kind = kind /\ sending'.next = 0 /\ sending'.left = n /\ n > 0
      /\ sending'.empty => kind \in {"data", "odd"} /\ size # 0 /\ (HeadLen + size) % Mps = 0
      /\ sending'.empty \in BOOLEAN /\ kind \in Kinds /\ host # "gone"
  <2>1. HeadLen % Mps # 0 /\ HeadLen \in Nat /\ HeadLen > 0  BY Scale
  <2>2. sending'.kind = kind /\ sending'.next = 0 /\ sending'.left = n
        /\ sending'.empty = (n % Mps = 0)
    OBVIOUS
  <2>3. size = 0 => HeadLen + size = HeadLen  BY <2>1
  <2>4. n > 0  BY <2>1 DEF UploadInv, Types
  <2>5. n % Mps = 0 => kind \in {"data", "odd"} /\ size # 0 /\ (HeadLen + size) % Mps = 0
    BY <2>1, <2>3
  <2>6. QED BY <2>2, <2>4, <2>5
<1>2. usb = "run"  BY <1>1 DEF UploadInv, Types, Wire
<1>3. Types'
  <2>1. sending' \in [kind : Kinds, next : Nat, left : Nat, empty : BOOLEAN]
    <3> DEFINE e == n % Mps = 0
    <3> HIDE DEF Kinds
    <3>1. e \in BOOLEAN /\ sending' = [kind |-> kind, next |-> 0, left |-> n, empty |-> e]
      OBVIOUS
    <3> HIDE DEF e
    <3>2. QED BY <1>1, <3>1
  <2>2. host' \in {"info", "handle", "send", "data", "result", "done", "gone"}  OBVIOUS
  <2>3. QED BY <2>1, <2>2 DEF UploadInv, Types, HostOnly
<1>4. Wire'
  <2>1. 0 % Mps = 0 /\ HeadLen \in Nat  BY Scale
  <2>2. QED BY <1>1, <1>2, <2>1 DEF UploadInv, Types, Wire, Sends, Busy, HostOnly
<1>5. Seen'  BY DEF UploadInv, Seen, HostOnly
<1>6. OnCard' /\ Results'
  <2>1. host' = "result" => response' \notin {"ok", "garbled"}
    BY <1>2 DEF UploadInv, Types, Seen, Phases, Offered, Served, HostOnly
  <2>2. QED BY <2>1
            DEF UploadInv, OnCard, FileLen, Results, HandleIntact, NoStrayStop, ToTheBrim, HostOnly
<1>7. (res = "ok" /\ usb = "run" => Phases)'
  <2>1. host = "data" => sending.next # 0
    BY Scale DEF UploadInv, Types, Wire, Sends, Busy
  <2>2. QED BY <1>1, <2>1
            DEF UploadInv, Phases, Offered, Served, DataNext, Wire, Busy, NothingToReceive, HostOnly
<1>8. (res = "ok" => Reads)'  BY DEF UploadInv, Reads, ToTheBrim, HostOnly
<1>9. (res = "ok" => Contents)'
  <2>1. res = "ok" => pc \notin Receiving /\ (pc = "header" => host = "data")
    BY <1>2 DEF UploadInv, Phases
  <2>2. QED BY <2>1 DEF UploadInv, Contents, FirstRead, Holds, ReadUpTo, Seen, HostOnly
<1>10. (res = "ok" => Lengths)'
  <2>1. ASSUME res = "ok", sending'.empty  PROVE pc \notin {"stamp", "answer", "main", "mainLoop"}
    <3>1. kind \in {"data", "odd"} /\ host = "data" /\ size # 0 /\ ~isFolder
      BY <1>1, <2>1 DEF UploadInv, Wire
    <3>2. QED BY <1>2, <2>1, <3>1 DEF UploadInv, Phases, Served, NothingToReceive
  <2>2. QED BY <2>1 DEF UploadInv, Lengths, FileLen, NothingToReceive, ToTheBrim, HostOnly
<1>11. QED BY <1>3, <1>4, <1>5, <1>6, <1>7, <1>8, <1>9, <1>10 DEF UploadInv

-----------------------------------------------------------------------------
(* A packet. *)

PacketLen == Smaller(Mps, sending.left)
PacketAt == armed.at + armed.got
\* The packet fills the read, or is short.
LastPacket == armed.got + PacketLen = armed.want \/ PacketLen < Mps

\* A packet that is not the last of its transfer is full, and a short one is the last.
LEMMA PacketSent ==
  ASSUME UploadInv, Packet
  PROVE  /\ usb = "run" /\ armed.busy /\ Busy
         /\ PacketLen \in Nat /\ PacketLen <= Mps /\ PacketLen <= sending.left
         /\ PacketLen = Mps \/ PacketLen = sending.left
         /\ sending' \in [kind : Kinds, next : Nat, left : Nat, empty : BOOLEAN]
         /\ sending'.kind = sending.kind /\ sending'.next = sending.next + PacketLen
         /\ sending'.left = sending.left - PacketLen /\ (sending'.empty => sending.empty)
         /\ PacketLen < Mps => ~Busy'
         /\ sending'.left > 0 => sending'.next % Mps = 0
<1>1. armed.busy /\ Busy  BY DEF Packet
<1>2. usb = "run"  BY <1>1 DEF UploadInv, Types, Wire
<1>3. /\ sending.next \in Nat /\ sending.left \in Nat /\ sending.kind \in Kinds
      /\ sending.empty \in BOOLEAN /\ Mps \in Nat \ {0} /\ size \in Nat /\ HeadLen \in Nat
      /\ sending \in [kind : Kinds, next : Nat, left : Nat, empty : BOOLEAN]
  <2> HIDE DEF Kinds
  <2>1. QED BY Scale DEF UploadInv, Types
<1>4. /\ PacketLen \in Nat /\ PacketLen <= Mps /\ PacketLen <= sending.left
      /\ PacketLen = Mps \/ PacketLen = sending.left
  BY <1>3 DEF PacketLen, Smaller
<1>5. sending' = [sending EXCEPT !.next = @ + PacketLen, !.left = @ - PacketLen,
                                 !.empty = @ /\ PacketLen # 0]
  BY DEF Packet, PacketLen
<1>6. /\ sending'.kind = sending.kind /\ sending'.next = sending.next + PacketLen
      /\ sending'.left = sending.left - PacketLen
      /\ sending'.empty = (sending.empty /\ PacketLen # 0)
  <2> HIDE DEF Kinds
  <2>1. QED BY <1>3, <1>5
<1>7. sending' \in [kind : Kinds, next : Nat, left : Nat, empty : BOOLEAN]
  <2> HIDE DEF Kinds
  <2>1. sending.next + PacketLen \in Nat /\ sending.left - PacketLen \in Nat  BY <1>3, <1>4
  <2>2. (sending.empty /\ PacketLen # 0) \in BOOLEAN  OBVIOUS
  <2>3. QED BY <1>3, <1>5, <2>1, <2>2
<1>8. sending.left > 0 => sending.next % Mps = 0  BY DEF UploadInv, Wire
<1>9. ASSUME PacketLen < Mps  PROVE ~Busy'
  <2>1. PacketLen = sending.left /\ ~(sending'.left > 0)  BY <1>3, <1>4, <1>6, <1>9
  <2>2. ASSUME sending.empty, PacketLen # 0  PROVE FALSE
    <3>1. /\ host = "result" /\ sending.kind # "other" /\ (HeadLen + size) % Mps = 0
          /\ Sends("other", HeadLen) \/ Sends("data", HeadLen + size)
             \/ Sends("odd", HeadLen + size)
      BY <2>2 DEF UploadInv, Wire
    <3>2. sending.next + PacketLen = HeadLen + size  BY <2>1, <3>1 DEF Sends
    <3>3. sending.next % Mps = 0 /\ PacketLen \in 1 .. Mps - 1
      BY <1>3, <1>4, <1>8, <1>9, <2>1, <2>2
    <3>4. (sending.next + PacketLen) % Mps # 0  BY <1>3, <3>3, MultipleNot
    <3>5. QED BY <3>1, <3>2, <3>4
  <2>3. ~sending'.empty  BY <1>6, <2>2
  <2>4. QED BY <2>1, <2>3 DEF Busy
<1>10. ASSUME sending'.left > 0  PROVE sending'.next % Mps = 0
  <2>1. PacketLen = Mps /\ sending.left > 0  BY <1>3, <1>4, <1>6, <1>10
  <2>2. Mps % Mps = 0  BY <1>3
  <2>3. (sending.next + Mps) % Mps = 0  BY <1>3, <1>8, <2>1, <2>2, MultipleSum
  <2>4. QED BY <1>6, <2>1, <2>3
<1>11. QED BY <1>1, <1>2, <1>4, <1>6, <1>7, <1>9, <1>10

\* What a packet does to the buffer and to the read it arrives in.
LEMMA PacketTaken ==
  ASSUME UploadInv, Packet
  PROVE  /\ UNCHANGED <<pc, left, lastLen, readLen, data, file, res, stopped, response,
                        isFolder, size, usb, host, told>>
         /\ buff' \in [Places -> Int]
         /\ \A p \in Places : buff'[p] = IF p \in PacketAt .. PacketAt + PacketLen - 1
                                         THEN sending.next + (p - PacketAt) ELSE buff[p]
         /\ head' = IF PacketAt > 0 \/ PacketLen = 0 THEN head
                    ELSE IF sending.next = 0 THEN sending.kind ELSE "bytes"
         /\ armed' \in [at : Nat, want : Nat, got : Nat, busy : BOOLEAN]
         /\ armed'.at + armed'.want <= HeadLen + 2 * MaxLen
         /\ len' \in Nat /\ ended' \in BOOLEAN
         /\ LastPacket => ~armed'.busy /\ ended' /\ len' = armed.got + PacketLen
         /\ ~LastPacket => /\ armed'.busy /\ armed'.at = armed.at /\ armed'.want = armed.want
                           /\ armed'.got = armed.got + PacketLen /\ UNCHANGED <<ended, len>>
<1>1. /\ armed \in [at : Nat, want : Nat, got : Nat, busy : BOOLEAN]
      /\ armed.at \in Nat /\ armed.got \in Nat /\ armed.want \in Nat
      /\ armed.at + armed.want <= HeadLen + 2 * MaxLen
      /\ len \in Nat /\ ended \in BOOLEAN /\ buff \in [Places -> Int]
      /\ sending.next \in Nat /\ HeadLen \in Nat /\ MaxLen \in Nat
  <2> HIDE DEF Kinds, PCs
  <2>1. QED BY Scale DEF UploadInv, Types
<1>2. PacketLen \in Nat /\ armed.busy  BY PacketSent
<1>3. /\ UNCHANGED <<pc, left, lastLen, readLen, data, file, res, stopped, response,
                     isFolder, size, usb, host, told>>
      /\ buff' = [p \in Places |-> IF p \in PacketAt .. PacketAt + PacketLen - 1
                                   THEN sending.next + (p - PacketAt) ELSE buff[p]]
      /\ head' = IF PacketAt > 0 \/ PacketLen = 0 THEN head
                 ELSE IF sending.next = 0 THEN sending.kind ELSE "bytes"
      /\ IF LastPacket
         THEN armed' = NoRead /\ ended' = TRUE /\ len' = armed.got + PacketLen
         ELSE armed' = [armed EXCEPT !.got = armed.got + PacketLen] /\ UNCHANGED <<ended, len>>
  BY DEF Packet, PacketLen, PacketAt, LastPacket
<1>4. buff' \in [Places -> Int]
  <2>1. \A p \in Places : p \in Int /\ buff[p] \in Int  BY <1>1 DEF Places
  <2>2. PacketAt \in Int  BY <1>1 DEF PacketAt
  <2>3. \A p \in Places : sending.next + (p - PacketAt) \in Int  BY <1>1, <2>1, <2>2
  <2>4. QED BY <1>3, <2>1, <2>3, Zenon
<1>5. \A p \in Places : buff'[p] = IF p \in PacketAt .. PacketAt + PacketLen - 1
                                   THEN sending.next + (p - PacketAt) ELSE buff[p]
  BY <1>3, Zenon
<1>6. CASE LastPacket
  <2>1. armed' = NoRead /\ ended' = TRUE /\ len' = armed.got + PacketLen  BY <1>3, <1>6
  <2>2. QED BY <1>1, <1>2, <1>3, <1>4, <1>5, <1>6, <2>1 DEF NoRead
<1>7. CASE ~LastPacket
  <2>1. armed' = [armed EXCEPT !.got = armed.got + PacketLen] /\ UNCHANGED <<ended, len>>
    BY <1>3, <1>7
  <2>2. armed.got + PacketLen \in Nat  BY <1>1, <1>2
  <2>3. /\ armed' \in [at : Nat, want : Nat, got : Nat, busy : BOOLEAN]
        /\ armed'.at = armed.at /\ armed'.want = armed.want /\ armed'.busy
        /\ armed'.got = armed.got + PacketLen
    BY <1>1, <1>2, <2>1, <2>2
  <2>4. QED BY <1>1, <1>3, <1>4, <1>5, <1>7, <2>1, <2>3
<1>8. QED BY <1>6, <1>7

\* The read has room for the packet, and what is left of it is a multiple again.
LEMMA PacketFits ==
  ASSUME UploadInv, Packet, Reads
  PROVE  /\ armed.got + PacketLen <= armed.want
         /\ ~LastPacket => /\ PacketLen = Mps /\ (armed.got + PacketLen) % Mps = 0
                           /\ armed.got + PacketLen < armed.want
<1>1. /\ armed.got \in Nat /\ armed.want \in Nat /\ Mps \in Nat \ {0}
      /\ PacketLen \in Nat /\ PacketLen <= Mps
  <2>1. armed.got \in Nat /\ armed.want \in Nat  BY DEF UploadInv, Types
  <2>2. QED BY <2>1, PacketSent, Scale
<1>2. armed.got % Mps = 0 /\ armed.want % Mps = 0 /\ armed.got < armed.want
  BY PacketSent DEF Reads
<1>3. armed.got + Mps <= armed.want  BY <1>1, <1>2, MultipleGap
<1>4. Mps % Mps = 0  BY <1>1
<1>5. (armed.got + Mps) % Mps = 0  BY <1>1, <1>2, <1>4, MultipleSum
<1>6. ~LastPacket => PacketLen = Mps /\ armed.got + PacketLen # armed.want
  BY <1>1 DEF LastPacket
<1>7. QED BY <1>1, <1>3, <1>5, <1>6

\* The bytes that a read has brought are in their places.
LEMMA PacketHolds ==
  ASSUME UploadInv, Packet, Reads, NEW first \in Nat, Holds(armed.at, first, armed.got),
         sending.next = first + armed.got
  PROVE  \A i \in 0 .. armed.got + PacketLen - 1 : buff'[armed.at + i] = first + i
<1>1. /\ armed.got \in Nat /\ armed.want \in Nat /\ armed.at \in Nat
      /\ armed.at + armed.want <= HeadLen + 2 * MaxLen
      /\ PacketLen \in Nat /\ armed.got + PacketLen <= armed.want
      /\ HeadLen \in Nat /\ MaxLen \in Nat
  <2>1. /\ armed.got \in Nat /\ armed.want \in Nat /\ armed.at \in Nat
        /\ armed.at + armed.want <= HeadLen + 2 * MaxLen
    BY DEF UploadInv, Types
  <2>2. QED BY <2>1, PacketSent, PacketFits, Scale
<1>2. SUFFICES ASSUME NEW i \in 0 .. armed.got + PacketLen - 1
               PROVE  buff'[armed.at + i] = first + i
  OBVIOUS
<1> DEFINE p == armed.at + i
<1>3. p \in Places  BY <1>1 DEF Places
<1>4. /\ p \in PacketAt .. PacketAt + PacketLen - 1 => buff'[p] = sending.next + (p - PacketAt)
      /\ p \notin PacketAt .. PacketAt + PacketLen - 1 => buff'[p] = buff[p]
  <2> HIDE DEF p
  <2>1. buff'[p] = IF p \in PacketAt .. PacketAt + PacketLen - 1
                   THEN sending.next + (p - PacketAt) ELSE buff[p]
    BY <1>3, PacketTaken
  <2>2. QED BY <2>1
<1>5. CASE i < armed.got
  <2>1. p \notin PacketAt .. PacketAt + PacketLen - 1  BY <1>1, <1>5 DEF PacketAt
  <2>2. buff[p] = first + i  BY <1>1, <1>5 DEF Holds
  <2>3. QED BY <1>4, <2>1, <2>2
<1>6. CASE i >= armed.got
  <2>1. p \in PacketAt .. PacketAt + PacketLen - 1 /\ p - PacketAt = i - armed.got
    BY <1>1, <1>6 DEF PacketAt
  <2>2. QED BY <1>1, <1>4, <1>6, <2>1
<1>7. QED BY <1>1, <1>5, <1>6

LEMMA PacketAny ==
  ASSUME UploadInv, Packet
  PROVE  Types' /\ Wire' /\ Seen' /\ OnCard' /\ Results'
<1>1. Types'
  <2>1. head' \in Kinds \cup {"bytes"}
    BY PacketTaken DEF UploadInv, Types
  <2>2. /\ UNCHANGED <<pc, left, lastLen, readLen, data, file, res, stopped, response,
                       isFolder, size, usb, host, told>>
        /\ buff' \in [Places -> Int]
        /\ armed' \in [at : Nat, want : Nat, got : Nat, busy : BOOLEAN]
        /\ armed'.at + armed'.want <= HeadLen + 2 * MaxLen
        /\ len' \in Nat /\ ended' \in BOOLEAN
    BY PacketTaken
  <2>3. sending' \in [kind : Kinds, next : Nat, left : Nat, empty : BOOLEAN]
    BY PacketSent
  <2> HIDE DEF PCs, Kinds
  <2>4. QED BY <2>1, <2>2, <2>3 DEF UploadInv, Types
<1>2. Wire'
  <2>1. sending.next + sending.left = sending'.next + sending'.left
    BY PacketSent, SMTT(20) DEF UploadInv, Types
  <2>2. QED BY <2>1, PacketSent, PacketTaken DEF UploadInv, Wire, Sends
<1>3. Seen'
  <2>1. head' \in {head, sending.kind, "bytes"}  BY PacketTaken
  <2>2. /\ sending.kind = "send" => host = "data"
        /\ sending.kind \in {"data", "odd"} => host = "result"
    BY PacketSent DEF UploadInv, Types, Wire, Sends
  <2>3. QED BY <2>1, <2>2, PacketTaken DEF UploadInv, Seen, Wire
<1>4. OnCard' /\ Results'
  BY PacketTaken
  DEF UploadInv, OnCard, FileLen, Results, HandleIntact, NoStrayStop, ToTheBrim
<1>5. QED BY <1>1, <1>2, <1>3, <1>4

\* What the host sends when the task is in the one transfer or the other.
LEMMA PacketPhases ==
  ASSUME UploadInv, Packet, res = "ok"
  PROVE  Phases' /\ (pc \in {"info", "operation"} => LastPacket)
<1>1. /\ usb = "run" /\ armed.busy /\ Busy /\ Phases /\ Reads /\ Lengths
      /\ UNCHANGED <<pc, response, isFolder, size, usb, host>>
      /\ sending'.kind = sending.kind
      /\ head' \in {head, sending.kind, "bytes"}
  BY PacketSent, PacketTaken DEF UploadInv
<1>2. PacketLen \in Nat /\ HeadLen \in Nat /\ 0 < HeadLen /\ HeadLen < Mps
      /\ sending.next \in Nat /\ sending.left \in Nat /\ Mps \in Nat
      /\ armed.got \in Nat /\ armed.at \in Nat
  <2>1. sending.next \in Nat /\ sending.left \in Nat /\ armed.got \in Nat /\ armed.at \in Nat
    BY DEF UploadInv, Types
  <2>2. QED BY <2>1, PacketSent, Scale
<1>3. ASSUME pc \in {"info", "operation"}
      PROVE  /\ LastPacket /\ PacketLen < Mps /\ head' = sending.kind
             /\ sending.kind = IF host = "info" THEN "info"
                               ELSE IF host = "data" THEN "send" ELSE "other"
             /\ host = IF pc = "info" THEN "info" ELSE IF host = "data" THEN "data" ELSE "result"
  <2>1. /\ armed.got = 0 /\ armed.at = 0 /\ ~ended  BY <1>1, <1>3 DEF Reads
  <2>2. /\ sending.next = 0 /\ sending.left = HeadLen
        /\ sending.kind = IF host = "info" THEN "info"
                          ELSE IF host = "data" THEN "send" ELSE "other"
        /\ host = IF pc = "info" THEN "info" ELSE IF host = "data" THEN "data" ELSE "result"
    BY <1>1, <1>2, <1>3, <2>1 DEF Phases, Offered, UploadInv, Wire, Sends
  <2>3. PacketLen = HeadLen  BY <1>2, <2>2 DEF PacketLen, Smaller
  <2>4. LastPacket /\ PacketLen < Mps  BY <1>2, <2>3 DEF LastPacket
  <2>5. PacketAt = 0 /\ PacketLen # 0  BY <1>2, <2>1, <2>3 DEF PacketAt
  <2>6. head' = sending.kind  BY <2>2, <2>5, PacketTaken
  <2>7. QED BY <2>2, <2>4, <2>6
<1>4. pc \in {"info", "operation"} => ~Busy' /\ ~armed'.busy /\ ended'
  BY <1>3, PacketSent, PacketTaken
<1>5. ~(pc = "header" /\ armed'.busy /\ armed'.got = 0)
  <2>1. ~LastPacket => armed'.got # 0
    BY <1>1, <1>2, PacketTaken, PacketFits
  <2>2. QED BY <2>1, PacketTaken
<1>6. pc \notin {"readInfo", "respond", "readOperation", "readHeader", "readEmpty", "piece",
                 "stamp", "answer", "main"}
  BY <1>1 DEF Reads
<1>7. QED BY <1>1, <1>3, <1>4, <1>5, <1>6
          DEF Phases, Offered, Served, DataNext, Busy, NothingToReceive

LEMMA PacketReads ==
  ASSUME UploadInv, Packet, res = "ok"
  PROVE  Reads'
<1>1. /\ Reads /\ Lengths /\ Phases /\ armed.busy /\ UNCHANGED <<pc, left, size, usb>>
      /\ armed.got \in Nat /\ PacketLen \in Nat /\ 0 < Mps /\ Mps \in Nat
      /\ sending.left \in Nat
  <2>1. usb = "run" /\ armed.busy /\ PacketLen \in Nat  BY PacketSent
  <2>2. UNCHANGED <<pc, left, size, usb>>  BY PacketTaken
  <2>3. armed.got \in Nat /\ sending.left \in Nat
    <3> HIDE DEF PCs, Kinds
    <3>1. QED BY DEF UploadInv, Types
  <2>4. 0 < Mps /\ Mps \in Nat  BY Scale
  <2>5. Reads /\ Lengths /\ Phases  BY <2>1 DEF UploadInv
  <2>6. QED BY <2>1, <2>2, <2>3, <2>4, <2>5
<1>2. CASE LastPacket
  <2>1. ~armed'.busy /\ len' = armed.got + PacketLen  BY <1>2, PacketTaken
  <2>2. ASSUME pc = "mainLoop", len' = 0  PROVE ToTheBrim
    <3>1. PacketLen = 0  BY <1>1, <2>1, <2>2
    <3>2. sending.left = 0  BY <1>1, <3>1 DEF PacketLen, Smaller
    <3>3. sending.empty  BY <3>2, PacketSent DEF Busy
    <3>4. QED BY <1>1, <2>2, <3>3 DEF Lengths
  <2>3. QED BY <1>1, <2>1, <2>2 DEF Reads, ToTheBrim
<1>3. CASE ~LastPacket
  <2>1. /\ armed'.busy /\ armed'.at = armed.at /\ armed'.want = armed.want
        /\ armed'.got = armed.got + PacketLen /\ UNCHANGED <<ended, len>>
        /\ armed'.got % Mps = 0 /\ armed'.got < armed'.want
    BY <1>1, <1>3, PacketTaken, PacketFits
  <2>2. pc \notin {"info", "operation"}
    BY <1>3, PacketPhases
  <2>3. QED BY <1>1, <2>1, <2>2 DEF Reads
<1>4. QED BY <1>2, <1>3

\* What a read of one half has brought when it ends.
LEMMA ReadDone ==
  ASSUME UploadInv, Packet, Reads, LastPacket, NEW first \in Nat, first % MaxLen = 0,
         sending.next = first + armed.got, armed.want = MaxLen,
         NEW kind, NEW n \in Nat, Sends(kind, n)
  PROVE  /\ len' = armed.got + PacketLen /\ len' <= MaxLen /\ first + len' <= n
         /\ sending'.kind = kind /\ sending'.next = first + len'
         /\ sending'.next + sending'.left = n
         /\ Busy' => (first + len') % MaxLen = 0
<1>1. /\ len' = armed.got + PacketLen
      /\ sending'.kind = sending.kind /\ sending'.next = sending.next + PacketLen
      /\ sending'.left = sending.left - PacketLen
      /\ armed.got + PacketLen <= armed.want
      /\ PacketLen < Mps => ~Busy'
  BY PacketSent, PacketTaken, PacketFits
<1>2. /\ PacketLen \in Nat /\ PacketLen <= sending.left /\ MaxLen \in Nat \ {0}
      /\ sending.next \in Nat /\ sending.left \in Nat /\ armed.got \in Nat
  <2>1. sending.next \in Nat /\ sending.left \in Nat /\ armed.got \in Nat
    <3> HIDE DEF PCs, Kinds
    <3>1. QED BY DEF UploadInv, Types
  <2>2. MaxLen \in Nat \ {0}  BY Scale
  <2>3. QED BY <2>1, <2>2, PacketSent
<1>3. sending.kind = kind /\ sending.next + sending.left = n  BY DEF Sends
<1>4. ASSUME Busy'  PROVE (first + len') % MaxLen = 0
  <2>1. armed.got + PacketLen = armed.want  BY <1>1, <1>4 DEF LastPacket
  <2>2. first + len' = first + MaxLen  BY <1>1, <2>1
  <2>3. MaxLen % MaxLen = 0  BY Scale
  <2>4. (first + MaxLen) % MaxLen = 0  BY <1>2, <2>3, MultipleSum
  <2>5. QED BY <2>2, <2>4
<1>5. /\ len' <= MaxLen /\ first + len' <= n /\ sending'.next = first + len'
      /\ sending'.next + sending'.left = n
  BY <1>1, <1>2, <1>3
<1>6. QED BY <1>1, <1>3, <1>4, <1>5

\* What a packet touches, and what it finds.
PacketOnly ==
  /\ usb = "run" /\ armed.busy /\ Busy /\ ~ended /\ Phases /\ Reads /\ Contents /\ Lengths
  /\ UNCHANGED <<pc, left, lastLen, readLen, data, file, isFolder, size, usb, host>>
  /\ PacketLen \in Nat /\ PacketLen <= Mps /\ PacketLen <= sending.left
  /\ PacketLen = Mps \/ PacketLen = sending.left
  /\ armed.got + PacketLen <= armed.want
  /\ sending.next \in Nat /\ sending.left \in Nat
  /\ armed.got \in Nat /\ armed.at \in Nat /\ armed.want \in Nat
  /\ size \in Nat /\ left \in Nat /\ lastLen \in Nat /\ Len(file) \in Nat
  /\ data \in {HeadLen, HeadLen + MaxLen}
  /\ LastPacket => ~armed'.busy /\ ended' /\ len' = armed.got + PacketLen
  /\ ~LastPacket => /\ armed'.busy /\ armed'.at = armed.at /\ armed'.want = armed.want
                    /\ armed'.got = armed.got + PacketLen /\ ended' = ended
  /\ sending'.kind = sending.kind /\ sending'.next = sending.next + PacketLen
  /\ sending'.left = sending.left - PacketLen

LEMMA PacketFacts == ASSUME UploadInv, Packet, res = "ok" PROVE PacketOnly
<1>1. Phases /\ Reads /\ Contents /\ Lengths
  BY PacketSent DEF UploadInv
<1>2. /\ sending.next \in Nat /\ sending.left \in Nat
      /\ armed.got \in Nat /\ armed.at \in Nat /\ armed.want \in Nat
      /\ size \in Nat /\ left \in Nat /\ lastLen \in Nat
      /\ data \in {HeadLen, HeadLen + MaxLen} /\ Len(file) \in Nat
      /\ ended \in BOOLEAN
  <2> HIDE DEF PCs, Kinds
  <2>1. QED BY DEF UploadInv, Types
<1>3. armed.got + PacketLen <= armed.want  BY <1>1, PacketFits
<1>4. /\ usb = "run" /\ armed.busy /\ Busy
      /\ PacketLen \in Nat /\ PacketLen <= Mps /\ PacketLen <= sending.left
      /\ PacketLen = Mps \/ PacketLen = sending.left
      /\ sending'.kind = sending.kind /\ sending'.next = sending.next + PacketLen
      /\ sending'.left = sending.left - PacketLen
  BY PacketSent
<1>5. /\ UNCHANGED <<pc, left, lastLen, readLen, data, file, isFolder, size, usb, host>>
      /\ LastPacket => ~armed'.busy /\ ended' /\ len' = armed.got + PacketLen
      /\ ~LastPacket => /\ armed'.busy /\ armed'.at = armed.at /\ armed'.want = armed.want
                        /\ armed'.got = armed.got + PacketLen /\ ended' = ended
  BY PacketTaken
<1>6. ~ended  BY <1>1, <1>4 DEF Reads
<1>7. QED BY <1>1, <1>2, <1>3, <1>4, <1>5, <1>6 DEF PacketOnly

\* The first packets of the data container.
LEMMA PacketFirst ==
  ASSUME UploadInv, Packet, res = "ok", pc = "header"
  PROVE  FirstRead' /\ head' # "none"
<1>1. PacketOnly /\ Reads  BY PacketFacts DEF PacketOnly
<1>2. HeadLen \in Nat /\ 0 < HeadLen /\ HeadLen < Mps /\ MaxLen \in Nat /\ Mps \in Nat
  BY Scale
<1>3. /\ armed.want = MaxLen /\ armed.at = 0
      /\ sending.kind \in {"data", "odd"} /\ sending.next = armed.got
      /\ Holds(armed.at, 0, armed.got)
      /\ armed.got = 0 \/ (armed.got >= HeadLen /\ head = sending.kind)
      /\ host = "result"
  <2>1. armed.want = MaxLen /\ armed.at = 0
    BY <1>1 DEF PacketOnly, Contents, FirstRead, Reads
  <2>2. CASE armed.got = 0
    <3>1. DataNext  BY <1>1, <2>2 DEF PacketOnly, Phases
    <3>2. host = "result"  BY <1>1, <3>1 DEF PacketOnly, Phases, DataNext
    <3>3. QED BY <1>1, <2>1, <2>2, <3>1, <3>2 DEF DataNext, Holds
  <2>3. CASE armed.got > 0
    BY <1>1, <2>1, <2>3 DEF PacketOnly, Contents, FirstRead
  <2>4. QED BY <1>1, <2>2, <2>3 DEF PacketOnly
<1>4. Sends(sending.kind, HeadLen + size)
  BY <1>1, <1>3 DEF UploadInv, Wire, Sends, PacketOnly
<1>5. /\ armed.got + PacketLen >= HeadLen /\ armed.got + PacketLen <= HeadLen + size
      /\ armed.got = 0 => PacketLen # 0
  <2>1. /\ PacketLen \in Nat /\ PacketLen <= sending.left
        /\ PacketLen = Mps \/ PacketLen = sending.left
        /\ armed.got \in Nat /\ sending.left \in Nat /\ size \in Nat
    BY <1>1 DEF PacketOnly
  <2>2. armed.got + sending.left = HeadLen + size  BY <1>3, <1>4 DEF Sends
  <2>3. QED BY <1>2, <1>3, <2>1, <2>2
<1>6. head' = sending.kind
  <2>1. head' = IF PacketAt > 0 \/ PacketLen = 0 THEN head
                ELSE IF sending.next = 0 THEN sending.kind ELSE "bytes"
    BY PacketTaken
  <2>2. PacketAt = armed.got  BY <1>1, <1>3 DEF PacketAt, PacketOnly
  <2>3. QED BY <1>1, <1>2, <1>3, <1>5, <2>1, <2>2 DEF PacketOnly
<1>7. \A i \in 0 .. armed.got + PacketLen - 1 : buff'[0 + i] = 0 + i
  <2>1. sending.next = 0 + armed.got  BY <1>1, <1>3 DEF PacketOnly
  <2>2. \A i \in 0 .. armed.got + PacketLen - 1 : buff'[armed.at + i] = 0 + i
    BY <1>1, <1>3, <2>1, PacketHolds
  <2>3. QED BY <1>3, <2>2
<1>8. CASE LastPacket
  <2>1. ~armed'.busy /\ ended' /\ len' = armed.got + PacketLen  BY <1>1, <1>8 DEF PacketOnly
  <2>2. \A i \in 0 .. len' - 1 : buff'[0 + i] = 0 + i
    <3>1. SUFFICES ASSUME NEW i \in 0 .. len' - 1  PROVE buff'[0 + i] = 0 + i
      OBVIOUS
    <3>2. i \in 0 .. armed.got + PacketLen - 1  BY <1>1, <2>1 DEF PacketOnly
    <3>3. buff'[0 + i] = 0 + i  BY <1>7, <3>2
    <3>4. QED BY <3>3, <2>1
  <2>3. /\ len' <= MaxLen /\ sending'.kind = sending.kind /\ sending'.next = 0 + len'
        /\ sending'.next + sending'.left = HeadLen + size
        /\ Busy' => (0 + len') % MaxLen = 0
    <3>1. 0 % MaxLen = 0 /\ 0 \in Nat /\ HeadLen + size \in Nat
      <4>1. MaxLen \in Nat \ {0}  BY Scale
      <4>2. QED BY <1>1, <1>2, <4>1 DEF PacketOnly
    <3>2. sending.next = 0 + armed.got  BY <1>1, <1>3 DEF PacketOnly
    <3>3. QED BY <1>1, <1>3, <1>4, <1>8, <3>1, <3>2, ReadDone
  <2>4. 0 + len' = len' /\ len' \in HeadLen .. MaxLen /\ len' <= HeadLen + size
    BY <1>1, <1>2, <1>5, <2>1, <2>3 DEF PacketOnly
  <2>5. size' = size /\ usb' = usb  BY <1>1 DEF PacketOnly
  <2>6. Holds(0, 0, len)'  BY <2>2 DEF Holds
  <2>7. head' = "data" => ReadUpTo(len)'
    BY <1>6, <2>3, <2>4, <2>5 DEF ReadUpTo, Sends
  <2>8. QED BY <1>3, <1>6, <2>1, <2>4, <2>5, <2>6, <2>7 DEF FirstRead
<1>9. CASE ~LastPacket
  <2>1. /\ armed'.busy /\ armed'.got = armed.got + PacketLen /\ armed'.want = armed.want
        /\ ~ended' /\ host' = host /\ sending'.kind = sending.kind
        /\ sending'.next = sending.next + PacketLen
    BY <1>1, <1>9 DEF PacketOnly
  <2>2. \A i \in 0 .. armed'.got - 1 : buff'[0 + i] = 0 + i
    <3>1. SUFFICES ASSUME NEW i \in 0 .. armed'.got - 1  PROVE buff'[0 + i] = 0 + i
      OBVIOUS
    <3>2. i \in 0 .. armed.got + PacketLen - 1  BY <1>1, <2>1 DEF PacketOnly
    <3>3. buff'[0 + i] = 0 + i  BY <1>7, <3>2
    <3>4. QED BY <3>3, <2>1
  <2>3. Holds(0, 0, armed.got)'  BY <2>2 DEF Holds
  <2>4. sending'.next = armed'.got /\ HeadLen <= armed'.got  BY <1>3, <1>5, <2>1
  <2>5. QED BY <1>3, <1>6, <2>1, <2>3, <2>4 DEF FirstRead
<1>10. QED BY <1>3, <1>6, <1>8, <1>9

\* A packet for the half that is not being stored.
LEMMA PacketNext ==
  ASSUME UploadInv, Packet, res = "ok", pc = "next" \/ (pc = "store" /\ left # 0)
  PROVE  NextRead' /\ head' = head /\ armed.at = OtherHalf /\ armed.want = MaxLen
<1>1. PacketOnly /\ Reads  BY PacketFacts DEF PacketOnly
<1>2. HeadLen \in Nat /\ 0 < HeadLen /\ MaxLen \in Nat  BY Scale
<1>3. /\ left # 0 /\ readLen = Smaller(left, MaxLen) /\ armed.at = OtherHalf
      /\ armed.want = MaxLen /\ Sends("data", HeadLen + size)
      /\ sending.next = Before + armed.got /\ Before % MaxLen = 0
      /\ Holds(armed.at, Before, armed.got)
  BY <1>1 DEF PacketOnly, Contents, NextRead
<1>4. left <= size  BY <1>1, SMTT(20) DEF PacketOnly, Lengths
<1>5. /\ Before \in Nat /\ HeadLen + size \in Nat /\ Before + left = HeadLen + size
      /\ armed.at > 0
  BY <1>1, <1>2, <1>3, <1>4 DEF PacketOnly, Before, OtherHalf
<1>6. Before' = Before /\ OtherHalf' = OtherHalf /\ UNCHANGED <<left, readLen, size, usb>>
  BY <1>1 DEF Before, OtherHalf, PacketOnly
<1>7. \A i \in 0 .. armed.got + PacketLen - 1 : buff'[armed.at + i] = Before + i
  <2> HIDE DEF Before
  <2>1. QED BY <1>1, <1>3, <1>5, PacketHolds
<1>8. head' = head
  <2>1. PacketAt > 0  BY <1>1, <1>5 DEF PacketAt, PacketOnly
  <2>2. QED BY <2>1, PacketTaken
<1>9. CASE LastPacket
  <2>1. ~armed'.busy /\ ended' /\ len' = armed.got + PacketLen  BY <1>1, <1>9 DEF PacketOnly
  <2>2. \A i \in 0 .. len' - 1 : buff'[OtherHalf' + i] = Before' + i
    <3>1. SUFFICES ASSUME NEW i \in 0 .. len' - 1  PROVE buff'[OtherHalf' + i] = Before' + i
      OBVIOUS
    <3>2. i \in 0 .. armed.got + PacketLen - 1  BY <1>1, <2>1 DEF PacketOnly
    <3>3. buff'[armed.at + i] = Before + i  BY <1>7, <3>2
    <3>4. QED BY <3>3, <1>3, <1>6
  <2>3. Holds(OtherHalf, Before, len)'  BY <2>2 DEF Holds
  <2>4. /\ len' <= MaxLen /\ Before + len' <= HeadLen + size /\ sending'.kind = "data"
        /\ sending'.next = Before + len' /\ sending'.next + sending'.left = HeadLen + size
        /\ Busy' => (Before + len') % MaxLen = 0
    BY <1>1, <1>3, <1>5, <1>9, ReadDone
  <2>5. len' \in Nat  BY <1>1, <2>1 DEF PacketOnly
  <2>6. len' <= left  BY <1>1, <1>2, <1>5, <2>4, <2>5 DEF PacketOnly
  <2>7. ReadUpTo(Before + len)'
    BY <1>6, <2>4 DEF ReadUpTo, Sends
  <2>8. QED BY <1>3, <1>6, <1>8, <2>1, <2>3, <2>4, <2>6, <2>7 DEF NextRead
<1>10. CASE ~LastPacket
  <2>1. /\ armed'.busy /\ armed'.got = armed.got + PacketLen /\ armed'.want = armed.want
        /\ armed'.at = armed.at /\ ~ended' /\ sending'.kind = sending.kind
        /\ sending'.next = sending.next + PacketLen
        /\ sending'.left = sending.left - PacketLen
    BY <1>1, <1>10 DEF PacketOnly
  <2>2. \A i \in 0 .. armed'.got - 1 : buff'[OtherHalf' + i] = Before' + i
    <3>1. SUFFICES ASSUME NEW i \in 0 .. armed'.got - 1  PROVE buff'[OtherHalf' + i] = Before' + i
      OBVIOUS
    <3>2. i \in 0 .. armed.got + PacketLen - 1  BY <1>1, <2>1 DEF PacketOnly
    <3>3. buff'[armed.at + i] = Before + i  BY <1>7, <3>2
    <3>4. QED BY <3>3, <1>3, <1>6
  <2>3. Holds(OtherHalf, Before, armed.got)'  BY <2>2 DEF Holds
  <2>4. Sends("data", HeadLen + size)'
    BY <1>1, <1>3, <1>6, <2>1 DEF Sends, PacketOnly
  <2>5. sending'.next = Before' + armed'.got
    BY <1>1, <1>3, <1>5, <1>6, <2>1 DEF PacketOnly
  <2>6. QED BY <1>3, <1>6, <1>8, <2>1, <2>3, <2>4, <2>5 DEF NextRead
<1>11. QED BY <1>3, <1>9, <1>10, <1>8

LEMMA PacketContents ==
  ASSUME UploadInv, Packet, res = "ok"
  PROVE  Contents'
<1>1. PacketOnly  BY PacketFacts
<1>2. HeadLen \in Nat /\ MaxLen \in Nat  BY Scale
<1>3. pc' = pc /\ left' = left  BY <1>1 DEF PacketOnly
<1>4. pc \notin {"readHeader", "piece"} /\ ~(pc = "store" /\ left = 0)
  BY <1>1 DEF PacketOnly, Reads
<1>5. pc \in Receiving => head' = "data"
  BY <1>1, <1>4, PacketNext DEF PacketOnly, Contents
<1>6. ASSUME pc = "store"  PROVE InPlace'
  <2>1. /\ lastLen <= MaxLen /\ armed.at = OtherHalf /\ armed.want = MaxLen
        /\ \A i \in 0 .. lastLen - 1 : buff[data + i] = HeadLen + Len(file) + i
    <3>1. InPlace  BY <1>1, <1>6 DEF PacketOnly, Contents
    <3>2. QED BY <1>4, <1>6, <3>1, PacketNext DEF InPlace, Holds
  <2>2. ASSUME NEW i \in 0 .. lastLen - 1  PROVE buff'[data + i] = HeadLen + Len(file) + i
    <3> DEFINE p == data + i
    <3>1. p \in Places /\ p \notin PacketAt .. PacketAt + PacketLen - 1
      BY <1>1, <1>2, <2>1, SMTT(20) DEF Places, OtherHalf, PacketAt, PacketOnly
    <3>2. buff'[p] = buff[p]
      <4> HIDE DEF p
      <4>1. buff'[p] = IF p \in PacketAt .. PacketAt + PacketLen - 1
                       THEN sending.next + (p - PacketAt) ELSE buff[p]
        BY <3>1, PacketTaken
      <4>2. QED BY <3>1, <4>1
    <3>3. QED BY <2>1, <3>2
  <2>3. UNCHANGED <<lastLen, data, file>>  BY <1>1 DEF PacketOnly
  <2>4. QED BY <2>1, <2>2, <2>3 DEF InPlace, Holds
<1>7. QED BY <1>3, <1>4, <1>5, <1>6, PacketFirst, PacketNext DEF Contents

LEMMA InvPacket == UploadInv /\ Packet => UploadInv'
<1> SUFFICES ASSUME UploadInv, Packet PROVE UploadInv'  OBVIOUS
<1>1. /\ Types' /\ Wire' /\ Seen' /\ OnCard' /\ Results'
      /\ res = "ok" => Phases' /\ Reads' /\ Contents'
  BY PacketAny, PacketPhases, PacketReads, PacketContents
<1>2. res' = res  BY PacketTaken
<1>3. ASSUME res = "ok"  PROVE Lengths'
  <2>1. PacketOnly /\ told' = told /\ (sending'.empty => sending.empty)
    BY <1>3, PacketFacts, PacketSent, PacketTaken
  <2>2. head' \in {head, sending.kind, "bytes"}  BY PacketTaken
  <2>3. pc = "mainLoop" /\ ~NothingToReceive => head # "send" /\ sending.kind # "send"
    BY <2>1 DEF PacketOnly, Phases, Served, Lengths
  <2>4. pc \notin {"answer", "stamp", "main"}  BY <2>1 DEF PacketOnly, Reads
  <2>5. QED BY <2>1, <2>2, <2>3, <2>4
            DEF PacketOnly, Lengths, FileLen, NothingToReceive, ToTheBrim
<1>4. QED BY <1>1, <1>2, <1>3 DEF UploadInv

-----------------------------------------------------------------------------
(* The reset, and every step. *)

LEMMA InvReset == UploadInv /\ Reset => UploadInv'
<1> SUFFICES ASSUME UploadInv, Reset PROVE UploadInv'  OBVIOUS
<1>1. /\ usb = "run" /\ usb' = "reset" /\ armed' = NoRead /\ sending' = NothingToSend
      /\ response' = "none" /\ host' = "gone"
      /\ UNCHANGED <<pc, len, left, lastLen, readLen, data, file, res, stopped, buff, head,
                     ended, isFolder, size, told>>
  BY DEF Reset, taskVars
<1>2. /\ ~armed'.busy /\ armed'.at = 0 /\ armed'.want = 0
      /\ sending'.kind = "none" /\ ~sending'.empty /\ sending'.left = 0
  BY <1>1 DEF NoRead, NothingToSend
<1>3. Types'
  <2>1. /\ armed' \in [at : Nat, want : Nat, got : Nat, busy : BOOLEAN]
        /\ sending' \in [kind : Kinds, next : Nat, left : Nat, empty : BOOLEAN]
    BY <1>1 DEF NoRead, NothingToSend
  <2>2. armed'.at + armed'.want <= HeadLen + 2 * MaxLen  BY <1>2, Scale
  <2> HIDE DEF PCs, Kinds
  <2>3. QED BY <1>1, <2>1, <2>2 DEF UploadInv, Types
<1>4. Wire'  BY <1>1, <1>2 DEF UploadInv, Wire, Busy
<1>5. Seen'  BY <1>1 DEF UploadInv, Seen, Wire, Types
<1>6. OnCard' /\ Results'
  BY <1>1 DEF UploadInv, OnCard, FileLen, Results, HandleIntact, NoStrayStop, ToTheBrim
<1>7. (res = "ok" => Reads)'  BY <1>1, <1>2 DEF UploadInv, Reads
<1>8. (res = "ok" => Contents)'
  BY <1>1, <1>2 DEF UploadInv, Contents, FirstRead, NextRead, InPlace, Holds, ReadUpTo, Before,
                    OtherHalf
<1>9. (res = "ok" => Lengths)'
  BY <1>1, <1>2 DEF UploadInv, Lengths, FileLen, NothingToReceive
<1>10. QED BY <1>1, <1>3, <1>4, <1>5, <1>6, <1>7, <1>8, <1>9 DEF UploadInv

LEMMA InvInit == Init => UploadInv
<1> SUFFICES ASSUME Init PROVE UploadInv  OBVIOUS
<1>1. /\ sending = [kind |-> "info", next |-> 0, left |-> HeadLen, empty |-> FALSE]
      /\ sending.kind = "info" /\ sending.next = 0 /\ sending.left = HeadLen
      /\ ~sending.empty
  <2>1. "info" \in Kinds  OBVIOUS
  <2>2. sending = Container("info", HeadLen)  BY DEF Init
  <2>3. QED BY <2>1, <2>2, HeadContainer
<1>2. /\ pc = "readInfo" /\ isFolder \in BOOLEAN /\ size \in Nat
      /\ buff = [p \in Places |-> -1] /\ head = "info" /\ armed = NoRead /\ len = 0
      /\ ended = FALSE /\ left = size /\ lastLen = 0 /\ readLen = 0 /\ data = HeadLen
      /\ file = <<>> /\ res = "ok" /\ response = "none" /\ stopped = FALSE
      /\ usb = "run" /\ host = "info" /\ told = "none"
  BY SizeAssumption DEF Init
<1>3. /\ HeadLen \in Nat /\ 0 < HeadLen /\ MaxLen \in Nat /\ 0 % Mps = 0  BY Scale
<1>4. ~armed.busy /\ armed.at = 0 /\ armed.want = 0 /\ Len(file) = 0  BY <1>2 DEF NoRead
<1>5. Types
  <2>1. /\ armed \in [at : Nat, want : Nat, got : Nat, busy : BOOLEAN]
        /\ sending \in [kind : Kinds, next : Nat, left : Nat, empty : BOOLEAN]
    BY <1>1, <1>2, <1>3 DEF NoRead
  <2>2. pc \in PCs /\ head \in Kinds \cup {"bytes"}  BY <1>2
  <2>3. buff \in [Places -> Int] /\ file \in Seq(Int)  BY <1>2
  <2>4. armed.at + armed.want <= HeadLen + 2 * MaxLen /\ readLen \in 0 .. MaxLen
    BY <1>2, <1>3, <1>4
  <2> HIDE DEF PCs, Kinds
  <2>5. QED BY <1>2, <2>1, <2>2, <2>3, <2>4 DEF Types
<1>6. Wire  BY <1>1, <1>2, <1>3, <1>4 DEF Wire, Sends
<1>7. Seen /\ OnCard /\ Results
  BY <1>2, <1>4 DEF Seen, OnCard, FileLen, Results, HandleIntact, NoStrayStop
<1>8. Phases  BY <1>1, <1>2, <1>4 DEF Phases
<1>9. Reads  BY <1>2, <1>4 DEF Reads
<1>10. Contents  BY <1>2 DEF Contents
<1>11. Lengths  BY <1>1, <1>2, <1>4 DEF Lengths
<1>12. QED BY <1>5, <1>6, <1>7, <1>8, <1>9, <1>10, <1>11 DEF UploadInv

LEMMA InvHost == UploadInv /\ HostNext => UploadInv'
<1> SUFFICES ASSUME UploadInv, HostNext PROVE UploadInv'  OBVIOUS
<1>1. CASE InfoSent  BY <1>1, InvInfoSent
<1>2. CASE TakeHandle  BY <1>2, InvTakeHandle
<1>3. CASE TakeResult  BY <1>3, InvTakeResult
<1>4. HeadLen \in Nat /\ HeadLen + size \in Nat
  BY Scale DEF UploadInv, Types
<1>5. CASE SendOperation
  <2>1. /\ HostOnly /\ UNCHANGED <<response, told>> /\ ~Busy /\ host = "send"
        /\ \/ host' = "data" /\ sending' = Container("send", HeadLen)
           \/ size # 0 /\ host' = "result" /\ sending' = Container("other", HeadLen)
    BY <1>5 DEF SendOperation, Host, HostUnchanged, HostOnly, taskVars, usbVars
  <2>2. CASE host' = "data" /\ sending' = Container("send", HeadLen)
    BY <1>4, <2>1, <2>2, InvSend DEF Container
  <2>3. CASE size # 0 /\ host' = "result" /\ sending' = Container("other", HeadLen)
    BY <1>4, <2>1, <2>3, InvSend DEF Container
  <2>4. QED BY <2>1, <2>2, <2>3
<1>6. CASE SendData
  <2>1. /\ HostOnly /\ UNCHANGED <<response, told>> /\ ~Busy
        /\ host = "data" /\ host' = "result"
        /\ \E kind \in {"data"} \cup (IF OddHost THEN {"odd"} ELSE {}) :
             sending' = Container(kind, HeadLen + size)
    BY <1>6 DEF SendData, Host, HostUnchanged, HostOnly, taskVars, usbVars
  <2>2. PICK kind \in {"data", "odd"} : sending' = Container(kind, HeadLen + size)
    BY <2>1
  <2>3. QED BY <1>4, <2>1, <2>2, InvSend DEF Container
<1>7. CASE NextOperation
  <2>1. /\ HostOnly /\ UNCHANGED <<response, told>> /\ ~Busy
        /\ host = "done" /\ host' = "gone" /\ sending' = Container("other", HeadLen)
    BY <1>7 DEF NextOperation, Host, HostUnchanged, HostOnly, taskVars, usbVars
  <2>2. QED BY <1>4, <2>1, InvSend DEF Container
<1>8. QED BY <1>1, <1>2, <1>3, <1>5, <1>6, <1>7 DEF HostNext

LEMMA InvStutter == UploadInv /\ UNCHANGED vars => UploadInv'
<1> SUFFICES ASSUME UploadInv, UNCHANGED vars PROVE UploadInv'  OBVIOUS
<1>1. UNCHANGED <<pc, len, left, lastLen, readLen, data, file, res, stopped, buff, head,
                  armed, ended, response, isFolder, size, usb, host, sending, told>>
  BY DEF vars, taskVars, usbVars, hostVars
<1>2. Types' /\ Wire'
  <2> HIDE DEF PCs, Kinds
  <2>1. QED BY <1>1 DEF UploadInv, Types, Wire, Sends, Busy
<1>3. Seen' /\ OnCard' /\ Results'
  BY <1>1 DEF UploadInv, Seen, OnCard, FileLen, Results, HandleIntact, NoStrayStop, ToTheBrim
<1>4. (res = "ok" /\ usb = "run" => Phases)'
  BY <1>1 DEF UploadInv, Phases, Offered, Served, DataNext, Busy, NothingToReceive
<1>5. (res = "ok" => Reads)'  BY <1>1 DEF UploadInv, Reads, ToTheBrim
<1>6. (res = "ok" => Contents)'
  BY <1>1 DEF UploadInv, Contents, FirstRead, NextRead, InPlace, Holds, ReadUpTo, Before, Sends,
              Busy, OtherHalf
<1>7. (res = "ok" => Lengths)'
  BY <1>1 DEF UploadInv, Lengths, FileLen, NothingToReceive, ToTheBrim
<1>8. QED BY <1>2, <1>3, <1>4, <1>5, <1>6, <1>7 DEF UploadInv

LEMMA InvNext == UploadInv /\ [Next]_vars => UploadInv'
<1> SUFFICES ASSUME UploadInv, [Next]_vars PROVE UploadInv'  OBVIOUS
<1>1. CASE ReadInfo  BY <1>1, InvRead DEF ReadInfo
<1>2. CASE ReadOperation  BY <1>2, InvRead DEF ReadOperation
<1>3. CASE ReadHeader  BY <1>3, InvRead DEF ReadHeader
<1>4. CASE ReadEmpty  BY <1>4, InvRead DEF ReadEmpty
<1>5. CASE ReadMain  BY <1>5, InvRead DEF ReadMain
<1>6. CASE Info \/ Respond \/ Stamp \/ Operation \/ Header \/ Piece
  BY <1>6, InvInfo, InvRespond, InvStamp, InvOperation, InvHeader, InvPiece
<1>7. CASE Store \/ StoreError \/ NextPiece \/ Answer \/ MainLoop \/ Empty
  BY <1>7, InvStore, InvStoreError, InvNextPiece, InvAnswer, InvMainLoop, InvEmpty
<1>8. CASE Packet \/ HostNext \/ Reset  BY <1>8, InvPacket, InvHost, InvReset
<1>9. CASE UNCHANGED vars  BY <1>9, InvStutter
<1>10. QED
  BY <1>1, <1>2, <1>3, <1>4, <1>5, <1>6, <1>7, <1>8, <1>9 DEF Next, TaskNext, Finished

\* The induction invariant holds in every state: where the host is at each place of the
\* responder, which half each read fills, and what each half holds.
THEOREM UploadInvariant == Spec => []UploadInv
<1>1. Init => UploadInv  BY InvInit
<1>2. UploadInv /\ [Next]_vars => UploadInv'  BY InvNext
<1>3. QED BY <1>1, <1>2, PTL DEF Spec

\* The counters of send_object_info stay natural numbers and its pointers stay on one of
\* the two halves; no read reaches behind the end of the buffer.
THEOREM TypeCorrect == Spec => []TypeOK
<1>1. UploadInv => TypeOK
  <2> HIDE DEF PCs, Kinds
  <2>1. QED BY DEF UploadInv, Types, TypeOK
<1>2. QED BY <1>1, UploadInvariant, PTL

\* The path for utime is put over no response that carries a new handle the host still
\* waits for, but of an object with nothing to receive.
THEOREM HandleIntactAlways == Spec => []HandleIntact
<1>1. UploadInv => HandleIntact  BY DEF UploadInv, Results
<1>2. QED BY <1>1, UploadInvariant, PTL

\* No usb_read is called while the one before is under way, unless the upload was given
\* up after a failed write or an answer that did not fit.
THEOREM OneReadAlways == Spec => []OneRead
<1>1. UploadInv => OneRead  BY DEF UploadInv, Reads, OneRead
<1>2. QED BY <1>1, UploadInvariant, PTL

\* The main loop takes no leftover of an upload that was accepted for the end of the
\* session, but for the empty packet behind a last piece that fills its half.
THEOREM NoStrayStopAlways == Spec => []NoStrayStop
<1>1. UploadInv => NoStrayStop  BY DEF UploadInv, Results
<1>2. QED BY <1>1, UploadInvariant, PTL

-----------------------------------------------------------------------------
(* The upload is a ByteStream. *)

LEMMA FileLenNat == UploadInv => FileLen \in Nat
<1>1. QED BY DEF UploadInv, Types, FileLen

LEMMA StoreCarries ==
  ASSUME UploadInv, UploadInv', Store
  PROVE  [Abstract!Next]_(Abstract!vars)
<1>1. /\ pc = "store" /\ UNCHANGED <<isFolder, size, told, usb, lastLen>>
      /\ file' = file \o [i \in 1 .. lastLen |-> buff[data + i - 1]]
  BY DEF Store, hostVars
<1>2. FileLen \in Nat /\ FileLen' = FileLen  BY <1>1, FileLenNat DEF FileLen
<1>3. Outcome # "ok" /\ Outcome' = Outcome
  <2>1. told = "none"  BY <1>1 DEF UploadInv, Types, Seen, Lengths
  <2>2. QED BY <1>1, <2>1 DEF Outcome
<1>4. /\ file \in Seq(Int) /\ file' \in Seq(Int) /\ lastLen \in Nat
      /\ Len(file) \in Nat /\ Len(file') \in Nat /\ HeadLen \in Nat
      /\ Len(file') <= FileLen /\ \A i \in 1 .. Len(file') : file'[i] = HeadLen + i - 1
  <2>1. Len(file') <= FileLen' /\ \A i \in 1 .. Len(file') : file'[i] = HeadLen + i - 1
    BY DEF UploadInv, OnCard, FileLen
  <2>2. file \in Seq(Int) /\ file' \in Seq(Int) /\ lastLen \in Nat
    BY DEF UploadInv, Types
  <2>3. QED BY <1>2, <2>1, <2>2, Scale
<1>5. Len(file') = Len(file) + lastLen
  <2> DEFINE part == [i \in 1 .. lastLen |-> buff[data + i - 1]]
  <2>1. part \in Seq(Int) /\ Len(part) = lastLen
    <3>1. pc = "store" /\ res = "ok"  BY <1>1 DEF UploadInv, Types, Seen
    <3>2. lastLen <= MaxLen /\ data \in {HeadLen, HeadLen + MaxLen} /\ buff \in [Places -> Int]
      BY <3>1 DEF UploadInv, Types, Contents, InPlace
    <3>3. MaxLen \in Nat  BY Scale
    <3>4. \A i \in 1 .. lastLen : data + i - 1 \in Places
      BY <1>4, <3>2, <3>3 DEF Places
    <3>5. \A i \in 1 .. lastLen : buff[data + i - 1] \in Int  BY <3>2, <3>4
    <3>6. QED BY <1>4, <3>5
  <2>2. file' = file \o part  BY <1>1
  <2> HIDE DEF part
  <2>3. Len(file \o part) = Len(file) + Len(part)  BY <1>4, <2>1, ConcatProperties, Zenon
  <2>4. QED BY <2>1, <2>2, <2>3
<1>6. CASE lastLen = 0
  <2>1. Len(file') = Len(file)  BY <1>4, <1>5, <1>6
  <2>2. \A i \in 1 .. Len(file) : file[i] = HeadLen + i - 1  BY DEF UploadInv, OnCard
  <2>3. file' = file  BY <1>4, <2>1, <2>2, SeqEqual
  <2>4. QED BY <1>2, <1>3, <2>3 DEF Abstract!vars, FileLen
<1>7. CASE lastLen # 0
  <2> DEFINE n == Len(file')
  <2>1. n \in Len(file) + 1 .. FileLen  BY <1>2, <1>4, <1>5, <1>7
  <2>2. file' = Abstract!Carried(n)
    <3>1. Abstract!Carried(n) \in Seq(Int) /\ Len(Abstract!Carried(n)) = n
          /\ \A i \in 1 .. n : Abstract!Carried(n)[i] = HeadLen + i - 1
      BY <1>4 DEF Abstract!Carried
    <3>2. QED BY <1>4, <3>1, SeqEqual
  <2>3. Abstract!Carry  BY <1>2, <1>3, <2>1, <2>2 DEF Abstract!Carry, FileLen
  <2>4. QED BY <2>3 DEF Abstract!Next
<1>8. QED BY <1>6, <1>7

LEMMA StepCarries ==
  ASSUME UploadInv, UploadInv', [Next]_vars
  PROVE  [Abstract!Next]_(Abstract!vars)
<1>1. CASE Store  BY <1>1, StoreCarries
<1>2. CASE TakeHandle \/ TakeResult
  <2>1. /\ host \in {"handle", "result"} /\ UNCHANGED <<isFolder, size, usb, file>>
        /\ response # "none"
        /\ \/ UNCHANGED told
           \/ /\ told' = IF response = "refused" THEN "failed" ELSE "ok"
              /\ host = "handle" => response = "refused" \/ isFolder
    BY <1>2 DEF TakeHandle, TakeResult, TakeResponse, Result, Host, HostUnchanged, taskVars
  <2>2. usb = "run" /\ told = "none"  BY <2>1 DEF UploadInv, Types, Wire, Seen
  <2>3. FileLen' = FileLen /\ file' = file  BY <2>1 DEF FileLen
  <2>4. CASE UNCHANGED told
    <3>1. Outcome' = Outcome  BY <2>1, <2>4 DEF Outcome
    <3>2. QED BY <2>3, <3>1 DEF Abstract!vars, FileLen
  <2>5. CASE told' = "failed"
    <3>1. Outcome = "none" /\ Outcome' = "failed"  BY <2>1, <2>2, <2>5 DEF Outcome
    <3>2. QED BY <2>3, <3>1 DEF Abstract!Next, Abstract!Fail, FileLen
  <2>6. CASE told' = "ok" /\ response # "refused" /\ (host = "handle" => isFolder)
    <3>1. Outcome = "none" /\ Outcome' = "ok"  BY <2>1, <2>2, <2>6 DEF Outcome
    <3>2. Len(file) = FileLen
      <4>1. CASE host = "handle"
        BY <2>6, <4>1 DEF UploadInv, Types, OnCard, FileLen
      <4>2. CASE host = "result"
        <5>1. response \in {"ok", "garbled"} /\ ~isFolder
          BY <2>1, <2>6, <4>2 DEF UploadInv, Types, Wire
        <5>2. QED BY <4>2, <5>1 DEF UploadInv, Results, FileLen
      <4>3. QED BY <2>1, <4>1, <4>2
    <3>3. QED BY <2>3, <3>1, <3>2 DEF Abstract!Next, Abstract!Succeed, FileLen
  <2>7. QED BY <2>1, <2>4, <2>5, <2>6
<1>3. CASE Reset
  <2>1. usb = "run" /\ usb' = "reset" /\ UNCHANGED <<isFolder, size, file, told>>
    BY <1>3 DEF Reset, taskVars
  <2>2. FileLen' = FileLen  BY <2>1 DEF FileLen
  <2>3. CASE told = "none"
    <3>1. Outcome = "none" /\ Outcome' = "failed"  BY <2>1, <2>3 DEF Outcome
    <3>2. QED BY <2>1, <2>2, <3>1 DEF Abstract!Next, Abstract!Fail, FileLen
  <2>4. CASE told # "none"
    <3>1. Outcome' = Outcome  BY <2>1, <2>4 DEF Outcome
    <3>2. QED BY <2>1, <2>2, <3>1 DEF Abstract!vars, FileLen
  <2>5. QED BY <2>3, <2>4
<1>4. CASE \/ ReadInfo \/ ReadOperation \/ ReadHeader \/ ReadEmpty \/ ReadMain
           \/ Info \/ Respond \/ Stamp \/ Operation \/ Header \/ Piece \/ StoreError
           \/ NextPiece \/ Answer \/ MainLoop \/ Empty
           \/ Packet \/ InfoSent \/ SendOperation \/ SendData \/ NextOperation
           \/ UNCHANGED vars
  <2>1. UNCHANGED <<isFolder, size, file, usb, told>>
    BY <1>4
    DEF ReadInfo, ReadOperation, ReadHeader, ReadEmpty, ReadMain, ReadContainer, Info, Respond,
        Stamp, Operation, Header, Piece, StoreError, NextPiece, Answer, MainLoop, Empty, Packet,
        InfoSent, SendOperation, SendData, NextOperation, HostUnchanged, hostVars, taskVars, vars
  <2>2. FileLen' = FileLen /\ Outcome' = Outcome  BY <2>1 DEF FileLen, Outcome
  <2>3. QED BY <2>1, <2>2 DEF Abstract!vars, FileLen
<1>5. QED BY <1>1, <1>2, <1>3, <1>4 DEF Next, TaskNext, HostNext, Finished

\* The upload implements ByteStream but for its liveness: whatever arrives in the one half
\* while the other is written, the card gets the file from its first byte on, in order,
\* and the host is told of success only when all of it is there.
THEOREM UploadIsAStream == Spec => Abstract!Spec
<1>1. Init => Abstract!Init
  <2>1. SUFFICES ASSUME Init PROVE Abstract!Init  OBVIOUS
  <2>2. size \in Nat  BY <2>1, SizeAssumption DEF Init
  <2>3. QED BY <2>1, <2>2 DEF Init, Outcome, Abstract!Init
<1>2. UploadInv /\ UploadInv' /\ [Next]_vars => [Abstract!Next]_(Abstract!vars)
  BY StepCarries
<1>3. QED BY <1>1, <1>2, UploadInvariant, PTL DEF Spec, Abstract!Spec

=============================================================================
