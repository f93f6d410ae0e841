----------------------------- MODULE SendObject -----------------------------
(***************************************************************************)
(* SendObjectInfo and SendObject (send_object_info, send_object and the    *)
(* loop of esp_mtp_task in esp_mtp.c): the host announces an object, gets  *)
(* its handle, and then sends the file, which the responder receives into  *)
(* one half of its buffer while it writes the other half to the card.      *)
(*                                                                         *)
(* send_object_info carries out the SendObject operation itself when there *)
(* is a file to receive; send_object only handles an empty one.            *)
(*                                                                         *)
(* The host may be gone at any moment: a bus reset drops the transfers, and *)
(* from then on usb_read and usb_write end at once with ESP_MTP_STOP_CMD.  *)
(*                                                                         *)
(* Sizes are scaled down as in GetObject.  A byte of the data container is *)
(* named by its place in it: HeadLen + k is the k-th byte of the file.     *)
(***************************************************************************)
EXTENDS Integers, Sequences

CONSTANTS
  HeadLen,      \* MTP_CONTAINER_HEAD_LEN
  Mps,          \* size of a packet
  MaxLen,       \* max_len: half of the buffer
  Sizes,        \* sizes of the files the host sends
  StoreFails,   \* write(fd, ...) may fail
  MayReset,     \* the host may reset the bus
  OddHost       \* the host may send another operation, or announce a wrong length

ASSUME SizeAssumption ==
  /\ HeadLen \in Nat \ {0} /\ Mps \in Nat /\ HeadLen < Mps
  /\ MaxLen \in Nat \ {0} /\ MaxLen % Mps = 0 /\ Sizes \subseteq Nat
ASSUME SwitchAssumption == {StoreFails, MayReset, OddHost} \subseteq BOOLEAN

VARIABLES
  pc,
  isFolder, size, \* the object the host announces
  buff,
  head,         \* what the container at the start of buff is
  armed,        \* the transfer of the OUT endpoint
  len, ended,   \* async_read_len and the task's read notification
  left,         \* file_size
  lastLen, readLen, data, \* last_write_len, read_len, data
  file,         \* what was written to the card
  res, response,  \* the result; the response on its way to the host
  stopped,      \* the main loop took a read for ESP_MTP_STOP_CMD
  usb,          \* "run", or "reset": s_mtp_status is no longer USB_MTP_RUN
  host, sending, told \* the host's phase, what is left of its transfer, what
                      \* it was told of the upload

taskVars == <<len, left, lastLen, readLen, data, file, res, stopped>>
usbVars == <<buff, head, armed, ended>>
hostVars == <<isFolder, size, usb, host, sending, told>>
vars == <<pc, taskVars, usbVars, response, hostVars>>

Smaller(a, b) == IF a < b THEN a ELSE b
Places == 0 .. HeadLen + 2 * MaxLen - 1
NoRead == [at |-> 0, want |-> 0, got |-> 0, busy |-> FALSE]
NothingToSend == [kind |-> "none", next |-> 0, left |-> 0, empty |-> FALSE]
Busy == sending.left > 0 \/ sending.empty

\* A transfer of n bytes: an empty packet ends it when the last one is full.
Container(kind, n) ==
  [kind |-> kind, next |-> 0, left |-> n, empty |-> n % Mps = 0]

Init ==
  /\ isFolder \in BOOLEAN /\ size \in Sizes
  /\ pc = "readInfo" /\ buff = [p \in Places |-> -1] /\ head = "info"
  /\ armed = NoRead /\ len = 0 /\ ended = FALSE
  /\ left = size /\ lastLen = 0 /\ readLen = 0 /\ data = HeadLen
  /\ file = <<>> /\ res = "ok" /\ response = "none" /\ stopped = FALSE
  /\ usb = "run" /\ host = "info" /\ sending = Container("info", HeadLen) /\ told = "none"

-----------------------------------------------------------------------------
(* The responder task: reads and waits. *)

\* usb_read: usbd_ep_start_read, or its callback with ESP_MTP_STOP_CMD.
StartRead(at, want) ==
  IF usb = "run"
  THEN /\ armed' = [at |-> at, want |-> want, got |-> 0, busy |-> TRUE]
       /\ UNCHANGED <<len, ended>>
  ELSE /\ len' = 0 /\ ended' = TRUE
       /\ UNCHANGED armed

\* usb_write.  Nobody waits for it.
Send(result) == response' = IF usb = "run" THEN result ELSE response

\* A step that starts a read into the front of the buffer and goes on to wait.
ReadContainer(from, to, want) ==
  /\ pc = from /\ pc' = to
  /\ StartRead(0, want)
  /\ UNCHANGED <<left, lastLen, readLen, data, file, res, stopped, buff, head, response,
                 hostVars>>

ReadInfo == ReadContainer("readInfo", "info", 2 * MaxLen)
ReadOperation == ReadContainer("readOperation", "operation", MaxLen)
ReadHeader == ReadContainer("readHeader", "header", MaxLen)
ReadEmpty == ReadContainer("readEmpty", "empty", 2 * MaxLen)
ReadMain == ReadContainer("main", "mainLoop", 2 * MaxLen)

\* xTaskNotifyWait returns with the read bit.
WaitEnds(at) == pc = at /\ ended /\ ended' = FALSE

Refuse(next) == res' = "refused" /\ pc' = next

-----------------------------------------------------------------------------
(* send_object_info. *)

\* The dataset is read and the object is created and gets its handle, or some
\* of that fails.
Info ==
  /\ WaitEnds("info")
  /\ \/ Refuse("answer")
     \/ pc' = "respond" /\ UNCHANGED res
  /\ UNCHANGED <<len, left, lastLen, readLen, data, file, stopped, buff, head, armed,
                 response, hostVars>>

\* There is nothing to receive.  Mutated form: nothing is received for any object.
NothingReceived == TRUE
NothingToReceive == isFolder \/ size = 0

\* The response to SendObjectInfo, from the front of the buffer.
Respond ==
  /\ pc = "respond"
  /\ Send("ok")
  /\ pc' = IF NothingToReceive THEN "stamp" ELSE "readOperation"
  /\ UNCHANGED <<taskVars, usbVars, hostVars>>

\* The object's path is put together in the buffer for utime: over the response's
\* parameters, should the controller not have taken them yet.
Stamp ==
  /\ pc = "stamp"
  /\ response' \in {response} \cup (IF response = "ok" THEN {"garbled"} ELSE {})
  /\ pc' = IF NothingToReceive THEN "main" ELSE "answer"
  /\ UNCHANGED <<taskVars, usbVars, hostVars>>

Operation ==
  /\ WaitEnds("operation")
  /\ IF head = "send" THEN pc' = "readHeader" /\ UNCHANGED res ELSE Refuse("stamp")
  /\ UNCHANGED <<len, left, lastLen, readLen, data, file, stopped, buff, head, armed,
                 response, hostVars>>

\* What the first read holds of the file.  Mutated form: all of it.
WithHeader == len
WithoutHeader == len - HeadLen

\* The length announced in the header must be that of the dataset.
Header ==
  /\ WaitEnds("header")
  /\ IF head = "data"
     THEN pc' = "piece" /\ lastLen' = WithoutHeader /\ data' = HeadLen /\ UNCHANGED res
     ELSE Refuse("stamp") /\ UNCHANGED <<lastLen, data>>
  /\ UNCHANGED <<len, left, readLen, file, stopped, buff, head, armed, response,
                 hostVars>>

OtherHalf == IF data = HeadLen THEN HeadLen + MaxLen ELSE HeadLen

\* Where the next piece is read to, how much is asked for, and what is left.
\* Mutated forms: no more than the file has left; every piece counts as a whole
\* half.
NextHalf == OtherHalf
WantLeft == readLen'
Want == MaxLen
LeftByHalves == left - MaxLen
LeftAfter == left - lastLen

\* Another piece is due, after this one was counted and after it was written.
\* Mutated form: always.
AlwaysMore == TRUE
MoreToRead == left' # 0
AllStored == left = 0

\* The next read is started before this piece is written to the card.
Piece ==
  /\ pc = "piece" /\ pc' = "store"
  /\ left' = LeftAfter
  /\ IF MoreToRead
     THEN readLen' = Smaller(left', MaxLen) /\ StartRead(NextHalf, Want)
     ELSE UNCHANGED <<readLen, armed, len, ended>>
  /\ UNCHANGED <<lastLen, data, file, res, stopped, buff, head, response, hostVars>>

Store ==
  /\ pc = "store"
  /\ file' = file \o [i \in 1 .. lastLen |-> buff[data + i - 1]]
  /\ pc' = IF AllStored THEN "stamp" ELSE "next"
  /\ UNCHANGED <<len, left, lastLen, readLen, data, res, stopped, usbVars, response,
                 hostVars>>

\* Mutated form: nobody looks at what write returned.
StoreErrorUnnoticed ==
  /\ StoreFails /\ pc = "store"
  /\ pc' = IF AllStored THEN "stamp" ELSE "next"
  /\ UNCHANGED <<taskVars, usbVars, response, hostVars>>

StoreError ==
  /\ StoreFails /\ pc = "store"
  /\ Refuse("stamp")
  /\ UNCHANGED <<len, left, lastLen, readLen, data, file, stopped, usbVars, response,
                 hostVars>>

NextPiece ==
  /\ WaitEnds("next")
  /\ IF len = readLen
     THEN pc' = "piece" /\ lastLen' = len /\ data' = OtherHalf /\ UNCHANGED res
     ELSE Refuse("stamp") /\ UNCHANGED <<lastLen, data>>
  /\ UNCHANGED <<len, left, readLen, file, stopped, buff, head, armed, response,
                 hostVars>>

\* esp_mtp_task sends the result.
Answer ==
  /\ pc = "answer" /\ pc' = "main"
  /\ Send(res)
  /\ UNCHANGED <<taskVars, usbVars, hostVars>>

-----------------------------------------------------------------------------
(* The loop of esp_mtp_task, and send_object. *)

\* Length zero is ESP_MTP_STOP_CMD: the session's handles are forgotten, and
\* usb_wait_start returns at once while the device runs.  What is no operation is
\* passed over.
MainLoop ==
  /\ WaitEnds("mainLoop")
  /\ stopped' = (stopped \/ len = 0)
  /\ pc' = IF len # 0 /\ head = "send" THEN "readEmpty"
           ELSE IF usb = "reset" \/ (len # 0 /\ head = "other") THEN "done" ELSE "main"
  /\ UNCHANGED <<len, left, lastLen, readLen, data, file, res, buff, head, armed,
                 response, hostVars>>

Empty ==
  /\ WaitEnds("empty")
  /\ pc' = "answer"
  /\ res' = IF len = HeadLen /\ head = "data" THEN res ELSE "refused"
  /\ UNCHANGED <<len, left, lastLen, readLen, data, file, stopped, buff, head, armed,
                 response, hostVars>>

TaskNext ==
  \/ ReadInfo \/ ReadOperation \/ ReadHeader \/ ReadEmpty \/ ReadMain
  \/ Info \/ Respond \/ Stamp \/ Operation \/ Header \/ Piece \/ Store \/ StoreError
  \/ NextPiece \/ Answer \/ MainLoop \/ Empty

-----------------------------------------------------------------------------
(* The controller and the host. *)

\* A packet arrives.  The read ends when it is full or the packet is short.
Packet ==
  /\ armed.busy /\ Busy
  /\ LET n == Smaller(Mps, sending.left)
         at == armed.at + armed.got
         got == armed.got + n
     IN  /\ buff' = [p \in Places |-> IF p \in at .. at + n - 1
                                      THEN sending.next + (p - at) ELSE buff[p]]
         /\ head' = IF at > 0 \/ n = 0 THEN head
                    ELSE IF sending.next = 0 THEN sending.kind ELSE "bytes"
         /\ sending' = [sending EXCEPT !.next = @ + n, !.left = @ - n,
                                       !.empty = @ /\ n # 0]
         /\ IF got = armed.want \/ n < Mps
            THEN armed' = NoRead /\ ended' = TRUE /\ len' = got
            ELSE armed' = [armed EXCEPT !.got = got] /\ UNCHANGED <<ended, len>>
  /\ UNCHANGED <<pc, left, lastLen, readLen, data, file, res, stopped, response,
                 isFolder, size, usb, host, told>>

Host(phase, next) == host = phase /\ ~Busy /\ host' = next
HostUnchanged == UNCHANGED <<pc, taskVars, usbVars, isFolder, size, usb>>

InfoSent ==
  /\ Host("info", "handle")
  /\ UNCHANGED <<sending, response, told>> /\ HostUnchanged

\* The response is taken, and is the upload's result.
TakeResponse == response # "none" /\ response' = "none" /\ UNCHANGED sending
Result == told' = IF response = "refused" THEN "failed" ELSE "ok"

\* The response to SendObjectInfo.
TakeHandle ==
  /\ \/ Host("handle", "send") /\ response # "refused" /\ ~isFolder /\ UNCHANGED told
     \/ Host("handle", "done") /\ (response = "refused" \/ isFolder) /\ Result
  /\ TakeResponse /\ HostUnchanged

SendOperation ==
  /\ \/ Host("send", "data") /\ sending' = Container("send", HeadLen)
     \/ OddHost /\ size # 0 /\ Host("send", "result")
        /\ sending' = Container("other", HeadLen)
  /\ UNCHANGED <<response, told>> /\ HostUnchanged

SendData ==
  /\ Host("data", "result")
  /\ \E kind \in {"data"} \cup (IF OddHost THEN {"odd"} ELSE {}) :
       sending' = Container(kind, HeadLen + size)
  /\ UNCHANGED <<response, told>> /\ HostUnchanged

TakeResult ==
  /\ Host("result", "done")
  /\ TakeResponse /\ Result /\ HostUnchanged

\* The host goes on with another operation.
NextOperation ==
  /\ Host("done", "gone")
  /\ sending' = Container("other", HeadLen)
  /\ UNCHANGED <<response, told>> /\ HostUnchanged

HostNext == InfoSent \/ TakeHandle \/ SendOperation \/ SendData \/ TakeResult
            \/ NextOperation

\* USBD_EVENT_RESET: the transfers are dropped and nobody is told.
Reset ==
  /\ MayReset /\ usb = "run" /\ usb' = "reset"
  /\ armed' = NoRead /\ sending' = NothingToSend /\ response' = "none"
  /\ host' = "gone"
  /\ UNCHANGED <<pc, taskVars, buff, head, ended, isFolder, size, told>>

\* The responder waits for a read that the reset dropped: it is left so until the
\* application stops the device.
LeftWaiting ==
  /\ usb = "reset" /\ ~ended
  /\ pc \in {"info", "operation", "header", "empty", "next", "mainLoop"}

Finished == ((pc = "done" /\ host = "gone") \/ LeftWaiting) /\ UNCHANGED vars

Next == TaskNext \/ Packet \/ HostNext \/ Reset \/ Finished

\* A ready task runs, and the host carries its transaction through.
Spec == Init /\ [][Next]_vars
             /\ WF_vars(TaskNext) /\ WF_vars(Packet) /\ WF_vars(HostNext)

-----------------------------------------------------------------------------
(* Properties. *)

TypeOK ==
  /\ left \in Nat /\ lastLen \in Nat /\ readLen \in 0 .. MaxLen
  /\ data \in {HeadLen, HeadLen + MaxLen}
  /\ armed.at + armed.want <= HeadLen + 2 * MaxLen
  /\ res \in {"ok", "refused"} /\ response \in {"none", "ok", "refused", "garbled"}
  /\ told \in {"none", "ok", "failed"}

\* The host gets the handle of its new object, unless there is nothing to receive:
\* then the path for utime can be written over a response not yet taken.
HandleIntact == response = "garbled" => isFolder \/ size = 0

\* A read is started only when the one before has ended, unless an upload was
\* given up half way.
OneRead ==
  res = "ok" /\ pc \in {"readInfo", "readOperation", "readHeader", "readEmpty", "piece",
                        "main"} => ~armed.busy

\* The last piece fills its half to the brim, so that the host's empty packet is
\* left over when the upload is done.
ToTheBrim == size # 0 /\ (HeadLen + size) % MaxLen = 0

\* An upload that was accepted leaves nothing behind that the main loop takes
\* for the end of the session, except for one of those sizes.
NoStrayStop == stopped => res = "refused" \/ ToTheBrim \/ usb = "reset"

\* The host gets its responses, and the responder is back for the next operation:
\* also after a bus reset, unless that dropped a read it waits for.
Answered == <>(pc = "done" \/ LeftWaiting)

\* The upload is a stream of bytes to the card with one result at its end: whatever
\* the host delivers while a piece is being written, the card gets the file in order,
\* and the host is told of success only when all of it is there.
Outcome == IF usb = "reset" /\ told = "none" THEN "failed" ELSE told
Abstract == INSTANCE ByteStream WITH
  First <- HeadLen, want <- IF isFolder THEN 0 ELSE size, got <- file,
  outcome <- Outcome
CarriesTheFile == Abstract!FairSpec
=============================================================================
