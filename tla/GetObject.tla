----------------------------- MODULE GetObject -----------------------------
(***************************************************************************)
(* GetObject and GetPartialObject (_get_object_common in esp_mtp.c): the   *)
(* responder streams a file to the host through one buffer used as two     *)
(* halves, reading the next part of the file into one half while the       *)
(* controller still fetches the other.                                     *)
(*                                                                         *)
(* The container header occupies the first HeadLen bytes of the buffer, so *)
(* the part a transfer sends is shifted by HeadLen from the part the file  *)
(* read filled.  Sizes are scaled down; what is kept is HeadLen < Mps and  *)
(* a half (MaxLen) that is a multiple of Mps.                              *)
(*                                                                         *)
(* A byte is named by its place in the stream the host should see: 0 to    *)
(* HeadLen-1 for the header, HeadLen + k for the k-th byte asked for.      *)
(***************************************************************************)
EXTENDS Integers, Sequences

CONSTANTS
  HeadLen,    \* MTP_CONTAINER_HEAD_LEN
  Mps,        \* size of a packet, and of check_usb_len_mps_and_send_end
  MaxLen,     \* max_len: half of the buffer
  Requests,   \* the requests: [size |-> , offset |-> , max |-> ]
  Prefetch    \* bytes the controller takes before the next file read ends

ASSUME SizeAssumption ==
  /\ HeadLen \in Nat \ {0} /\ Mps \in Nat /\ HeadLen < Mps
  /\ MaxLen \in Nat \ {0} /\ MaxLen % Mps = 0
  /\ Prefetch \in Nat
\* The controller is ahead of the file read by the bytes that two parts share:
\* the read puts others in their place.
ASSUME PrefetchAssumption == HeadLen <= Prefetch
ASSUME RequestAssumption == Requests \subseteq [size : Nat, offset : Nat, max : Nat]

VARIABLES
  pc, req,
  total,      \* st.st_size, as _get_object_common changes it
  fileSize,   \* file_size: what is still to be sent
  pos,        \* the file position of fd
  data,       \* where the next part of the file goes in buff
  readLen, lastLen, buff,
  announced,  \* container->len as the host gets it
  inflight,   \* the transfer of the IN endpoint
  notified,   \* the task's write notification
  delivered, ended,  \* what the host got, and a short packet was seen
  res, actual

vars == <<pc, req, total, fileSize, pos, data, readLen, lastLen, buff,
          announced, inflight, notified, delivered, ended, res, actual>>

Smaller(a, b) == IF a < b THEN a ELSE b
Places == 0 .. (HeadLen + 2 * MaxLen - 1)
Unset == -1
NoTransfer == [at |-> 0, len |-> 0, sent |-> 0, busy |-> FALSE]
Transfer(at, len) == [at |-> at, len |-> len, sent |-> 0, busy |-> TRUE]

\* Where reading starts, and how much of the file there is from there on.
Offset == Smaller(req.offset, req.size)
Wanted == Smaller(req.size - Offset, req.max)

\* st.st_size becomes the length asked for only when that is the smaller.
\* Mutated form: it stays the size of the file.
FileTotal == req.size
ClampedTotal == IF req.size - Offset > req.max THEN req.max ELSE req.size

\* check_usb_len_mps_and_send_end.  Mutated form: no empty packet.
NeverSendEnd(len) == FALSE
NeedSendEnd(len) == len % Mps = 0

\* A part after the first waits for the transfer of the part before.
\* Mutated form: it does not.
GoOn == "write"
WaitFirst == IF fileSize # total THEN "wait" ELSE "write"

\* What is left after this part, and how much of the buffer is sent with it:
\* in the end also the bytes that the header displaced.  Mutated form: the
\* displaced bytes are forgotten.
Left == fileSize - readLen
PartOnly(left) == readLen
SendLen(left) == IF left > 0 THEN readLen ELSE HeadLen + readLen

\* The last HeadLen bytes of the second half move to the front, to be sent
\* with the next first half.  Mutated form: they do not.
NotCarried == buff
Carried == [p \in Places |->
              IF p < HeadLen THEN buff[data + readLen - HeadLen + p] ELSE buff[p]]

Init ==
  /\ req \in Requests
  /\ pc = "begin" /\ total = req.size /\ fileSize = 0 /\ pos = 0
  /\ data = HeadLen /\ readLen = 0 /\ lastLen = 0
  /\ buff = [p \in Places |-> IF p < HeadLen THEN p ELSE Unset]
  /\ announced = 0 /\ inflight = NoTransfer /\ notified = FALSE
  /\ delivered = <<>> /\ ended = FALSE
  /\ res = "ok" /\ actual = 0

-----------------------------------------------------------------------------
(* The responder task. *)

\* The handle is unknown, or stat or open fail.
NotFound ==
  /\ pc = "begin" /\ pc' = "answered" /\ res' = "refused"
  /\ UNCHANGED <<req, total, fileSize, pos, data, readLen, lastLen, buff,
                 announced, inflight, notified, delivered, ended, actual>>

Prepare ==
  /\ pc = "begin"
  /\ pos' = Offset
  /\ fileSize' = Wanted
  /\ total' = ClampedTotal
  /\ announced' = HeadLen + total'
  /\ IF Wanted = 0
     THEN /\ inflight' = Transfer(0, HeadLen) /\ lastLen' = HeadLen
          /\ pc' = "end"
     ELSE /\ pc' = "read"
          /\ UNCHANGED <<inflight, lastLen>>
  /\ UNCHANGED <<req, data, readLen, buff, notified, delivered, ended, res,
                 actual>>

\* The controller starts to fetch as soon as a transfer is started.
Prefetched ==
  inflight.busy => inflight.sent >= Smaller(Prefetch, inflight.len)

\* read(fd, data, read_len).
ReadFile ==
  /\ pc = "read" /\ Prefetched
  /\ readLen' = Smaller(fileSize, MaxLen)
  /\ buff' = [p \in Places |-> IF p \in data .. (data + readLen' - 1)
                               THEN HeadLen + pos + (p - data) - Offset ELSE buff[p]]
  /\ pos' = pos + readLen'
  /\ pc' = WaitFirst
  /\ UNCHANGED <<req, total, fileSize, data, lastLen, announced, inflight, notified,
                 delivered, ended, res, actual>>

ReadError ==
  /\ pc = "read"
  /\ lastLen' = 0 /\ res' = "incomplete"
  /\ pc' = "end"
  /\ UNCHANGED <<req, total, fileSize, pos, data, readLen, buff, announced,
                 inflight, notified, delivered, ended, actual>>

Wait ==
  /\ pc = "wait" /\ notified
  /\ notified' = FALSE /\ pc' = "write"
  /\ UNCHANGED <<req, total, fileSize, pos, data, readLen, lastLen, buff,
                 announced, inflight, delivered, ended, res, actual>>

\* The half that was filled is sent from HeadLen bytes before it.
Write ==
  /\ pc = "write"
  /\ fileSize' = Left
  /\ lastLen' = SendLen(fileSize')
  /\ IF data = HeadLen
     THEN /\ inflight' = Transfer(0, lastLen') /\ data' = HeadLen + MaxLen
          /\ UNCHANGED buff
     ELSE /\ inflight' = Transfer(MaxLen, lastLen') /\ data' = HeadLen
          /\ buff' = Carried
  /\ pc' = IF fileSize' = 0 THEN "end" ELSE "read"
  /\ UNCHANGED <<req, total, pos, readLen, announced, notified, delivered,
                 ended, res, actual>>

\* The wait for the last transfer, then check_usb_len_mps_and_send_end.
End ==
  /\ pc = "end" /\ notified
  /\ notified' = FALSE
  /\ IF NeedSendEnd(lastLen)
     THEN inflight' = Transfer(0, 0) /\ pc' = "zlp"
     ELSE pc' = "answer" /\ UNCHANGED inflight
  /\ UNCHANGED <<req, total, fileSize, pos, data, readLen, lastLen, buff,
                 announced, delivered, ended, res, actual>>

ZlpSent ==
  /\ pc = "zlp" /\ notified
  /\ notified' = FALSE /\ pc' = "answer"
  /\ UNCHANGED <<req, total, fileSize, pos, data, readLen, lastLen, buff,
                 announced, inflight, delivered, ended, res, actual>>

\* The response, with the number of bytes for GetPartialObject.
Answer ==
  /\ pc = "answer" /\ pc' = "answered"
  /\ actual' = total - fileSize
  /\ UNCHANGED <<req, total, fileSize, pos, data, readLen, lastLen, buff,
                 announced, inflight, notified, delivered, ended, res>>

TaskNext == NotFound \/ Prepare \/ ReadFile \/ ReadError \/ Wait \/ Write \/ End
            \/ ZlpSent \/ Answer

-----------------------------------------------------------------------------
(* The controller takes the next packet from memory and the host gets it. *)
Packet ==
  /\ inflight.busy
  /\ LET from == inflight.at + inflight.sent
         n == Smaller(Mps, inflight.len - inflight.sent)
         last == inflight.sent + n = inflight.len
     IN  /\ delivered' = delivered \o [i \in 1 .. n |-> buff[from + i - 1]]
         /\ ended' = (ended \/ n < Mps)
         /\ inflight' = IF last THEN NoTransfer ELSE [inflight EXCEPT !.sent = @ + n]
         /\ notified' = (notified \/ last)
  /\ UNCHANGED <<pc, req, total, fileSize, pos, data, readLen, lastLen, buff,
                 announced, res, actual>>

\* The first part could not be read: there is no write, and the wait for its end
\* after the loop does not return.
FirstReadFailed == pc = "end" /\ res = "incomplete" /\ fileSize = Wanted

Finished == (pc = "answered" \/ FirstReadFailed) /\ UNCHANGED vars

Next == TaskNext \/ Packet \/ Finished

\* A ready task runs, and the host reads what the device sends.
Spec == Init /\ [][Next]_vars /\ WF_vars(TaskNext) /\ WF_vars(Packet)

-----------------------------------------------------------------------------
(* Properties. *)

TypeOK ==
  /\ pc \in {"begin", "read", "wait", "write", "end", "zlp", "answer", "answered"}
  /\ fileSize \in Nat /\ total \in Nat /\ data \in {HeadLen, HeadLen + MaxLen}
  /\ inflight \in [at : {0, MaxLen}, len : 0 .. (HeadLen + MaxLen),
                   sent : 0 .. (HeadLen + MaxLen), busy : BOOLEAN]

\* A transfer that succeeds delivers exactly the bytes asked for; the header
\* announced that length and the response repeats it.
Complete ==
  pc = "answered" /\ res = "ok" =>
    /\ Len(delivered) = HeadLen + Wanted
    /\ announced = Len(delivered)
    /\ actual = Wanted

\* The data phase ends with a short or empty packet, and with none before
\* the end: the host can tell data from response.
ShortAtEndOnly ==
  /\ pc \in {"answer", "answered"} /\ res # "refused" => ended
  /\ ended /\ res = "ok" => Len(delivered) = HeadLen + Wanted

\* A part is never overwritten or abandoned: a transfer is started only when
\* the one before was taken completely.
OneTransfer == pc \in {"write", "answer", "answered"} => ~inflight.busy

\* Every request is answered, unless the very first part of the file could not
\* be read.
Answered == <>(pc = "answered" \/ FirstReadFailed)

\* The download is a stream of bytes with one result at its end: the host gets the
\* header and then the file, in order, none twice, none skipped and none that a later
\* file read put over them, and is told of success only when it got all.
Outcome == IF pc # "answered" THEN "none" ELSE IF res = "ok" THEN "ok" ELSE "failed"
Abstract == INSTANCE ByteStream WITH
  First <- 0, want <- HeadLen + Wanted, got <- delivered, outcome <- Outcome
CarriesTheFile == Abstract!Spec
=============================================================================
