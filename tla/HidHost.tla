------------------------------ MODULE HidHost -------------------------------
(***************************************************************************)
(* The HID host example (host_hid_main.c): a device's interrupt transfer   *)
(* is submitted by a thread when the device appears and again by its       *)
(* callback; a keyboard's reports are turned into events that tell which   *)
(* keys went down and up.                                                  *)
(*                                                                         *)
(* One device is attached at a time.  All interfaces share hid_buffer: a   *)
(* keyboard may have another interface, whose transfer fills the buffer as *)
(* well, and a ghost counts how often it did so before the keyboard's      *)
(* report was done with.  The keys of the report before are static and     *)
(* outlive the device.  The callback runs in the host controller's         *)
(* interrupt, and the controller fills the buffer of a submitted transfer  *)
(* at any moment.  The stack is initialised once, over the same low level  *)
(* as a device's; when that fails no device is ever found.                 *)
(***************************************************************************)
EXTENDS Integers, Functions, LowLevel

CONSTANTS
  Keys,     \* key codes above HID_KBD_USAGE_ERRUNDEF
  NoKey, RollOver, \* HID_KEY_NO_PRESS and HID_KEY_ROLLOVER
  Slots,    \* size of a report's array of keys
  MaxOverwrites \* bound on the reports that another interface overwrites

ASSUME OverwriteAssumption == MaxOverwrites \in Nat
ASSUME SlotAssumption == Slots \in Nat \ {0}
ASSUME KeyAssumption == Keys \cap {NoKey, RollOver} = {} /\ NoKey # RollOver

Reports == [1 .. Slots -> Keys \cup {NoKey, RollOver}]

\* What keyboards send: each key once, or RollOver in every slot.
KeyboardReports ==
  {[i \in 1 .. Slots |-> RollOver]} \cup
  {r \in [1 .. Slots -> Keys \cup {NoKey}] :
     \A i, j \in 1 .. Slots : r[i] = r[j] /\ i # j => r[i] = NoKey}

VARIABLES
  initialized, \* usbh_initialize was called
  device,      \* the attached device
  thread,      \* its usbh_hid_thread
  urb,         \* the transfer, and how it ended
  hid_buffer,
  prev_keys,
  callback, slot, \* where the keyboard's callback is
  down,        \* the events told: presses less releases of each key
  reported,    \* ghost: the last report a keyboard's callback was given
  overwrites   \* ghost: reports overwritten before they were done with

deviceVars == <<device, thread>>
lowVars == <<initialized, phy, intr>>
keyVars == <<prev_keys, callback, slot, down>>
ghosts == <<reported, overwrites>>
vars == <<lowVars, deviceVars, urb, hid_buffer, keyVars, ghosts>>

NoKeys == [i \in 1 .. Slots |-> NoKey]
KeyFound(src, key) == key \in Range(src)

Init ==
  /\ NothingHeld /\ initialized = FALSE
  /\ device = "none" /\ thread = "none" /\ urb = "idle"
  /\ hid_buffer = NoKeys /\ prev_keys = NoKeys /\ reported = NoKeys
  /\ callback = "none" /\ slot = 1 /\ down = [k \in Keys |-> 0] /\ overwrites = 0

-----------------------------------------------------------------------------
(* app_main and the device's thread. *)

\* usbh_initialize, with usb_hc_low_level_init in it.
Initialize ==
  /\ ~initialized /\ initialized' = TRUE
  /\ LowLevelInit
  /\ UNCHANGED <<deviceVars, urb, hid_buffer, keyVars, ghosts>>

\* usbh_hid_thread: usbh_hid_set_protocol and usbh_submit_urb may fail.
Submit ==
  /\ thread = "started" /\ thread' = "none"
  /\ urb' \in {"submitted", "idle"}
  /\ UNCHANGED <<lowVars, device, hid_buffer, keyVars, ghosts>>

-----------------------------------------------------------------------------
(* The callback of the transfer. *)

\* The transfer while the callback of a report runs.  Mutated form: submitted
\* again before complete_cb.
SubmittedFirst == "submitted"
WhileCalled == "called"

\* usbh_submit_urb of a callback, whose result nobody looks at.
Resubmitted == {"submitted", "refused"}

\* What becomes of a transfer that brought no data.  Mutated form: nothing.
NeverAgain == {"idle"}
AfterNoData == IF urb = "NAK" THEN Resubmitted ELSE {"idle"}

NoData ==
  /\ callback = "none" /\ urb \in {"NAK", "error"}
  /\ urb' \in AfterNoData
  /\ UNCHANGED <<lowVars, deviceVars, hid_buffer, keyVars, ghosts>>

\* A short report of a keyboard, and any report of another device: prev_keys
\* stays as it is.
OtherData ==
  /\ callback = "none"
  /\ urb = "short" \/ (urb = "report" /\ device # "keyboard")
  /\ urb' \in Resubmitted
  /\ UNCHANGED <<lowVars, deviceVars, hid_buffer, keyVars, ghosts>>

KeyboardCallback ==
  /\ callback = "none" /\ urb = "report" /\ device = "keyboard"
  /\ callback' = "release" /\ slot' = 1 /\ urb' = WhileCalled
  /\ reported' = hid_buffer
  /\ UNCHANGED <<lowVars, deviceVars, hid_buffer, prev_keys, down, overwrites>>

\* A key went up, a key went down.  Mutated form: compared with its own slot.
PressedInSlot(i) == hid_buffer[i] \in Keys /\ hid_buffer[i] # prev_keys[i]
Released(i) == prev_keys[i] \in Keys /\ ~KeyFound(hid_buffer, prev_keys[i])
Pressed(i) == hid_buffer[i] \in Keys /\ ~KeyFound(prev_keys, hid_buffer[i])

\* The loop is done.
LastSlot == slot = Slots

Release ==
  /\ callback = "release" /\ callback' = "press"
  /\ down' = IF Released(slot) THEN [down EXCEPT ![prev_keys[slot]] = @ - 1] ELSE down
  /\ UNCHANGED <<lowVars, deviceVars, urb, hid_buffer, prev_keys, slot, ghosts>>

Press ==
  /\ callback = "press"
  /\ down' = IF Pressed(slot) THEN [down EXCEPT ![hid_buffer[slot]] = @ + 1] ELSE down
  /\ IF LastSlot THEN callback' = "copy" /\ UNCHANGED slot
                 ELSE callback' = "release" /\ slot' = slot + 1
  /\ UNCHANGED <<lowVars, deviceVars, urb, hid_buffer, prev_keys, ghosts>>

Copy ==
  /\ callback = "copy" /\ callback' = "none"
  /\ prev_keys' = hid_buffer
  /\ urb' \in Resubmitted
  /\ UNCHANGED <<lowVars, deviceVars, hid_buffer, slot, down, ghosts>>

Callback == NoData \/ OtherData \/ KeyboardCallback \/ Release \/ Press \/ Copy

-----------------------------------------------------------------------------
(* The controller and the device. *)

\* usbh_hid_run, called by the stack when a device is found.  The thread may not
\* be created, and nobody looks.
Attach ==
  /\ initialized /\ phy /\ intr
  /\ device = "none" /\ urb = "idle"
  /\ device' \in {"keyboard", "other"} /\ thread' \in {"started", "none"}
  /\ UNCHANGED <<lowVars, urb, hid_buffer, keyVars, ghosts>>

\* The stack ends the device's transfer; usbh_hid_stop does nothing.  A thread in its
\* set-up requests finds them failed, and ends.
Detach ==
  /\ device # "none" /\ callback = "none"
  /\ device' = "none" /\ thread' = "none" /\ urb' = "idle"
  /\ UNCHANGED <<lowVars, hid_buffer, keyVars, ghosts>>

\* A whole report arrives.
Report ==
  /\ urb = "submitted" /\ urb' = "report"
  /\ hid_buffer' \in IF device = "keyboard" THEN KeyboardReports ELSE Reports
  /\ UNCHANGED <<lowVars, deviceVars, keyVars, ghosts>>

\* A report too short for a keyboard, or no data at all.
NoReport ==
  /\ urb = "submitted"
  /\ \/ urb' = "short" /\ hid_buffer' \in Reports
     \/ urb' \in {"NAK", "error"} /\ UNCHANGED hid_buffer
  /\ UNCHANGED <<lowVars, deviceVars, keyVars, ghosts>>

\* A report that the callback is at, or will be called for.
Pending == urb \in {"report", "called"}

\* The transfer of the keyboard's other interface puts its report into the same buffer,
\* whatever the callback is doing.
OtherInterface ==
  /\ device = "keyboard"
  /\ overwrites' = IF Pending THEN overwrites + 1 ELSE overwrites
  /\ overwrites' <= MaxOverwrites
  /\ hid_buffer' \in Reports
  /\ UNCHANGED <<lowVars, deviceVars, urb, keyVars, reported>>

\* Without PHY or interrupt nothing happens any more.
Deaf == initialized /\ ~(phy /\ intr) /\ UNCHANGED vars

Next ==
  \/ Initialize \/ Deaf \/ Submit \/ Callback
  \/ Attach \/ Detach \/ Report \/ NoReport \/ OtherInterface

\* An interrupt's callback runs to its end.
Spec == Init /\ [][Next]_vars /\ WF_vars(Callback)

-----------------------------------------------------------------------------
(* Properties. *)

TypeOK ==
  /\ device \in {"none", "keyboard", "other"} /\ thread \in {"none", "started"}
  /\ urb \in {"idle", "submitted", "called", "report", "short", "NAK", "error", "refused"}
  /\ hid_buffer \in Reports /\ prev_keys \in Reports /\ reported \in Reports
  /\ callback \in {"none", "release", "press", "copy"} /\ slot \in 1 .. Slots
  /\ down \in [Keys -> Int] /\ overwrites \in Nat

\* Presses and releases of a key alternate (key_event_callback), in whatever
\* slots the reports have it and whichever keyboard sends them; as long as no other
\* interface overwrote a report before the callback was done with it.
Alternate == overwrites = 0 => \A k \in Keys : down[k] \in {0, 1}

\* When a report has been handled, the keys told to be down are the keys in it:
\* none stays down that was released, and none is missed, whatever was attached
\* in between and whatever other interfaces put into the buffer between two reports.
ToldIsReported ==
  callback = "none" /\ overwrites = 0 =>
    \A k \in Keys : (down[k] = 1) <=> KeyFound(reported, k)

\* "NAK" is no end: a device that has nothing to say is asked again, and so is
\* one that reported something, unless the stack refuses the transfer.
AskedAgain ==
  urb \in {"NAK", "short", "report"} ~> urb \in Resubmitted \/ device = "none"
=============================================================================
