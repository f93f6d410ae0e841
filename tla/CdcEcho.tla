------------------------------ MODULE CdcEcho ------------------------------
(***************************************************************************)
(* The CDC device example (device_cdc_main.c): app_main polls              *)
(* write_buffer_len and sends write_buffer back, while the USB interrupt   *)
(* copies each received message into the same buffer.  The buffer, its     *)
(* length and ep_tx_busy_flag are shared without a lock.                   *)
(*                                                                         *)
(* A message is numbered in the order of arrival and has a length; the     *)
(* bytes of message i all have the value i.                                *)
(***************************************************************************)
EXTENDS Integers, Sequences, FiniteSets, SequencesExt

CONSTANTS
  Mps,          \* CDC_MAX_MPS
  BufferLen,    \* size of write_buffer and of a read
  Lengths,      \* lengths of the messages the host sends
  MaxMessages,  \* bound on the messages
  MaxResets     \* bound on the bus resets of a configured device

ASSUME SizeAssumption ==
  /\ Mps \in Nat \ {0} /\ BufferLen \in Nat /\ Lengths \subseteq 0 .. BufferLen
  /\ MaxMessages \in Nat /\ MaxResets \in Nat

VARIABLES
  pc,           \* app_main
  busy,         \* ep_tx_busy_flag
  writeLen,     \* write_buffer_len
  writeBuf,     \* write_buffer: the message each byte is from
  configured, armed,   \* the device, and its OUT endpoint
  inflight,     \* the IN transfer, with the bytes fetched so far
  inDone,       \* length of an IN transfer whose callback is due, or NoCall
  received,     \* lengths of the messages received
  partial, echoed,     \* what the host got back: the current echo, the ended ones
  waits,        \* the host waits for an echo
  resets,       \* bus resets so far
  overlapped,   \* ghost: the host sent a message while an echo was due
  erased,       \* ghost: a message came between start_write and the next line
  cut           \* ghost: a reset while a message was being echoed

ghosts == <<resets, overlapped, erased, cut>>
vars == <<pc, busy, writeLen, writeBuf, configured, armed, inflight, inDone,
          received, partial, echoed, waits, ghosts>>

NoCall == -1
Off == [active |-> FALSE, len |-> 0, got |-> <<>>]
Sending(len) == [active |-> TRUE, len |-> len, got |-> <<>>]

\* The host takes a transfer for ended by a packet shorter than Mps.
EndsShort(len) == len = 0 \/ len % Mps # 0

TypeOK ==
  /\ pc \in {"poll", "mark", "start", "clear", "spin"}
  /\ busy \in BOOLEAN /\ configured \in BOOLEAN /\ armed \in BOOLEAN
  /\ waits \in BOOLEAN
  /\ writeLen \in Lengths \cup {0}
  /\ writeBuf \in [1 .. BufferLen -> 0 .. MaxMessages]
  /\ inflight \in [active : BOOLEAN, len : Lengths \cup {0}, got : Seq(0 .. MaxMessages)]
  /\ Len(inflight.got) <= inflight.len
  /\ inDone \in Lengths \cup {0, NoCall}
  /\ received \in Seq(Lengths) /\ Len(received) <= MaxMessages
  /\ partial \in Seq(0 .. MaxMessages) /\ echoed \in Seq(Seq(0 .. MaxMessages))
  /\ resets \in 0 .. MaxResets
  /\ overlapped \in BOOLEAN /\ erased \in BOOLEAN /\ cut \in BOOLEAN

Init ==
  /\ pc = "poll" /\ busy = FALSE
  /\ writeLen = 0 /\ writeBuf = [b \in 1 .. BufferLen |-> 0]
  /\ configured = FALSE /\ armed = FALSE
  /\ inflight = Off /\ inDone = NoCall
  /\ received = <<>> /\ partial = <<>> /\ echoed = <<>> /\ waits = FALSE
  /\ resets = 0 /\ overlapped = FALSE /\ erased = FALSE /\ cut = FALSE

-----------------------------------------------------------------------------
(* app_main: cdc_acm_data_send_with_dtr_test. *)

usbVars == <<writeBuf, configured, armed, inDone, received, partial, echoed, waits,
             ghosts>>

Poll ==
  /\ pc = "poll" /\ writeLen # 0
  /\ pc' = "mark"
  /\ UNCHANGED <<busy, writeLen, inflight, usbVars>>

\* Mutated form: the busy flag is not set.
MarkNothing ==
  /\ pc = "mark" /\ pc' = "start"
  /\ UNCHANGED <<busy, writeLen, inflight, usbVars>>

Mark ==
  /\ pc = "mark" /\ pc' = "start"
  /\ busy' = TRUE
  /\ UNCHANGED <<writeLen, inflight, usbVars>>

\* usbd_ep_start_write: the length is passed, the bytes stay where they are.
\* It fails, and nobody looks, on a device that is not configured.
StartWrite ==
  /\ pc = "start" /\ pc' = "clear"
  /\ inflight' = IF configured THEN Sending(writeLen) ELSE inflight
  /\ UNCHANGED <<busy, writeLen, usbVars>>

\* Mutated form: write_buffer_len stays set.
ClearNothing ==
  /\ pc = "clear" /\ pc' = "spin"
  /\ UNCHANGED <<busy, writeLen, inflight, usbVars>>

Clear ==
  /\ pc = "clear" /\ pc' = "spin"
  /\ writeLen' = 0
  /\ UNCHANGED <<busy, inflight, usbVars>>

Spin ==
  /\ pc = "spin" /\ ~busy
  /\ pc' = "poll"
  /\ UNCHANGED <<busy, writeLen, inflight, usbVars>>

Main == Poll \/ Mark \/ StartWrite \/ Clear \/ Spin

-----------------------------------------------------------------------------
(* The USB interrupt, the controller and the host. *)

\* write_buffer_len = nbytes.  Mutated form: it is not set.
LengthKept(n) == writeLen
LengthOf(n) == n

\* A message arrives: usbd_cdc_acm_bulk_out copies it and reads on.
BulkOut ==
  /\ configured /\ armed /\ Len(received) < MaxMessages
  /\ \E n \in Lengths :
       /\ received' = Append(received, n)
       /\ writeLen' = LengthOf(n)
       /\ writeBuf' = [b \in DOMAIN writeBuf |-> IF b <= n THEN Len(received) + 1
                                                 ELSE writeBuf[b]]
       /\ waits' = (waits \/ n # 0)
       /\ overlapped' = (overlapped \/ waits)
       /\ erased' = (erased \/ (pc = "clear" /\ n # 0))
  /\ UNCHANGED <<pc, busy, configured, armed, inflight, inDone, partial, echoed,
                 resets, cut>>

\* The controller takes the next byte from memory.
Fetch ==
  /\ inflight.active /\ Len(inflight.got) < inflight.len
  /\ inflight' = [inflight EXCEPT !.got = Append(@, writeBuf[Len(@) + 1])]
  /\ UNCHANGED <<pc, busy, writeLen, usbVars>>

\* The host has the whole transfer.
HostTake ==
  /\ inflight.active /\ Len(inflight.got) = inflight.len
  /\ inflight' = Off /\ inDone' = inflight.len
  /\ IF EndsShort(inflight.len)
     THEN /\ echoed' = Append(echoed, partial \o inflight.got)
          /\ partial' = <<>> /\ waits' = FALSE
     ELSE partial' = partial \o inflight.got /\ UNCHANGED <<echoed, waits>>
  /\ UNCHANGED <<pc, busy, writeLen, writeBuf, configured, armed, received, ghosts>>

\* Mutated form: an empty packet after every transfer.
EmptyAlways(len) == len # 0
NeedEmptyPacket(len) == len % Mps = 0 /\ len # 0

\* Mutated form: the end of an empty packet does not clear the flag.
BulkInEmptyKeepsBusy ==
  /\ inDone # NoCall /\ inDone' = NoCall
  /\ IF NeedEmptyPacket(inDone)
     THEN inflight' = Sending(0) /\ UNCHANGED busy
     ELSE busy' = (busy /\ inDone = 0) /\ UNCHANGED inflight
  /\ UNCHANGED <<pc, writeLen, writeBuf, configured, armed, received, partial,
                 echoed, waits, ghosts>>

\* usbd_cdc_acm_bulk_in: a transfer of whole packets gets an empty one after it.
BulkIn ==
  /\ inDone # NoCall /\ inDone' = NoCall
  /\ IF NeedEmptyPacket(inDone)
     THEN inflight' = Sending(0) /\ UNCHANGED busy
     ELSE busy' = FALSE /\ UNCHANGED inflight
  /\ UNCHANGED <<pc, writeLen, writeBuf, configured, armed, received, partial,
                 echoed, waits, ghosts>>

\* USBD_EVENT_RESET: the controller drops its transfers, the handler does nothing.
Reset ==
  /\ configured /\ resets < MaxResets /\ resets' = resets + 1
  /\ configured' = FALSE /\ armed' = FALSE
  /\ inflight' = Off /\ inDone' = NoCall
  /\ partial' = <<>> /\ waits' = FALSE
  /\ cut' = (cut \/ pc # "poll" \/ writeLen # 0)
  /\ UNCHANGED <<pc, busy, writeLen, writeBuf, received, echoed, overlapped, erased>>

\* USBD_EVENT_CONFIGURED: the first read is started.
Configured ==
  /\ ~configured
  /\ configured' = TRUE /\ armed' = TRUE
  /\ UNCHANGED <<pc, busy, writeLen, writeBuf, inflight, inDone, received, partial,
                 echoed, waits, ghosts>>

Next == Main \/ BulkOut \/ Fetch \/ HostTake \/ BulkIn \/ Reset \/ Configured

\* app_main is scheduled, the controller and the interrupt work, and the host
\* reads what it is sent; it need not send anything.
Spec == Init /\ [][Next]_vars
             /\ WF_vars(Main) /\ WF_vars(Fetch) /\ WF_vars(HostTake) /\ WF_vars(BulkIn)

-----------------------------------------------------------------------------
(* Properties. *)

Message(i) == [b \in 1 .. received[i] |-> i]
NotEmpty == {i \in DOMAIN received : received[i] # 0}

Echoed(i) == i \in DOMAIN received /\ Message(i) \in Range(echoed)

\* "sends back any received data": each message of a host that waits for its
\* echo comes back, whole, in time, if no reset cuts it.
EchoesEverything ==
  \A i \in 1 .. MaxMessages : i \in NotEmpty ~> Echoed(i) \/ overlapped \/ cut

\* The same but for a message that came between start_write and the line
\* after it: whatever else is interleaved, no message is lost.
EchoesAllButErased ==
  \A i \in 1 .. MaxMessages :
    i \in NotEmpty ~> Echoed(i) \/ overlapped \/ cut \/ erased

\* What comes back is what was sent, whole and in the order it was sent.
EchoesInOrder ==
  ~overlapped /\ ~cut =>
    \A k \in DOMAIN echoed : \E i \in NotEmpty :
      /\ echoed[k] = Message(i)
      /\ \A l \in 1 .. k - 1 : echoed[l][1] < i

\* Whatever the host's pace and whoever resets the device, nothing comes back twice but
\* what overwrote the message before it in the buffer: no more echoes than messages, none
\* with a byte older than one of an echo before it, and a message is in two echoes only
\* if they follow each other, in the place of the one before and as its own.
EchoesFresh ==
  /\ Len(echoed) <= Len(received)
  /\ \A l \in DOMAIN echoed : \A k \in 1 .. l - 1 :
       \A x \in Range(echoed[k]), y \in Range(echoed[l]) : x < y \/ (x = y /\ l = k + 1)

\* A transfer is started only when the one before, and the empty packet that
\* may follow it, are through.
OneTransfer == pc = "start" => ~inflight.active /\ inDone = NoCall

\* app_main gets out of its busy loop, whatever the host sends and when; only a
\* reset in the middle of an echo keeps it there.
SpinEnds == pc = "spin" ~> pc = "poll" \/ cut
=============================================================================
