----------------------------- MODULE TaskNotify -----------------------------
(***************************************************************************)
(* The FreeRTOS task notification, as esp_mtp.c and usb_mtp.c use it.      *)
(*                                                                         *)
(* A task owns one 32-bit notification value and one state.  The MTP task  *)
(* is notified in two ways that share the value: xTaskNotify(..., eSetBits)*)
(* sets bit 0 ("a read ended") or bit 1 ("a write ended"), and             *)
(* vTaskNotifyGive adds one to the value ("go on").  A Give on a zero      *)
(* value therefore looks like a read that ended, and a Give on the value 1 *)
(* turns the read bit into the write bit.  A blocked xTaskNotifyWait does  *)
(* not look at the value: it returns when the state is "notified".         *)
(*                                                                         *)
(* FreeRTOS is not part of this repository.                                *)
(***************************************************************************)
EXTENDS Naturals

\* rd, wr: bits 0 and 1 of the value.  high: the rest of it, value \div 4.
\* pending: the state is "notified", as no wait has returned since.
Notification == [rd : BOOLEAN, wr : BOOLEAN, high : Nat, pending : BOOLEAN]

Cleared == [rd |-> FALSE, wr |-> FALSE, high |-> 0, pending |-> FALSE]

\* ulTaskNotifyTake blocks on this.
IsZero(n) == ~n.rd /\ ~n.wr /\ n.high = 0

\* xTaskNotify / xTaskNotifyFromISR with eSetBits.
SetReadBit(n) ==
  [rd |-> TRUE, wr |-> n.wr, high |-> n.high, pending |-> TRUE]
SetWriteBit(n) ==
  [rd |-> n.rd, wr |-> TRUE, high |-> n.high, pending |-> TRUE]

\* xTaskNotifyGive / vTaskNotifyGiveFromISR: the value plus one.
Give(n) == [rd |-> ~n.rd,
            wr |-> n.rd # n.wr,
            high |-> IF n.rd /\ n.wr THEN n.high + 1 ELSE n.high,
            pending |-> TRUE]

\* xTaskNotifyWait(0, READ | WRITE, ...) and xTaskNotifyWait(0, WRITE, ...)
\* on return.
AfterReadWait(n) ==
  [rd |-> FALSE, wr |-> FALSE, high |-> n.high, pending |-> FALSE]
AfterWriteWait(n) ==
  [rd |-> n.rd, wr |-> FALSE, high |-> n.high, pending |-> FALSE]
=============================================================================
