--------------------------- MODULE HidHostProofs ----------------------------
(***************************************************************************)
(* Proofs about HidHost, for every set of key codes and every size of a    *)
(* report: presses and releases alternate, and the keys told to be down    *)
(* are the keys of the last report, until another interface of the same    *)
(* keyboard overwrites a report that is not yet done with.                 *)
(***************************************************************************)
EXTENDS HidHost, TLAPS

-----------------------------------------------------------------------------
(***************************************************************************)
(* The induction invariant.                                                *)
(***************************************************************************)

\* The buffer is the callback's from the report until the transfer is submitted
\* again; the thread of a device submits it for the first time only.
Owner ==
  /\ callback # "none" => urb = "called" /\ hid_buffer = reported
  /\ thread = "started" => urb = "idle" /\ callback = "none"

\* A report of a keyboard has each key once.
Once(r) == \A i, j \in 1 .. Slots : r[i] = r[j] /\ r[i] \in Keys => i = j

Distinct ==
  /\ Once(prev_keys)
  /\ callback # "none" => Once(hid_buffer)
  /\ urb = "report" /\ device = "keyboard" => hid_buffer \in KeyboardReports

\* Slots of the report before that were looked at for releases, and of the new
\* report for presses.
ReleasesDone == IF callback = "release" THEN slot - 1
                ELSE IF callback = "press" THEN slot ELSE Slots
PressesDone == IF callback = "copy" THEN Slots ELSE slot - 1

\* What was told of a key after m slots of the report before and n of the new one.
DownAfter(k, m, n) ==
  IF KeyFound(prev_keys, k)
  THEN IF ~KeyFound(hid_buffer, k) /\ (\E i \in 1 .. m : prev_keys[i] = k) THEN 0 ELSE 1
  ELSE IF \E i \in 1 .. n : hid_buffer[i] = k THEN 1 ELSE 0

Told ==
  /\ callback = "none" =>
       /\ reported = prev_keys
       /\ \A k \in Keys : down[k] = IF KeyFound(prev_keys, k) THEN 1 ELSE 0
  /\ callback # "none" =>
       \A k \in Keys : down[k] = DownAfter(k, ReleasesDone, PressesDone)

KeyInv == TypeOK /\ Owner /\ Distinct /\ Told

\* Of overwritten reports nothing is claimed.
WholeInv == overwrites = 0 => KeyInv

-----------------------------------------------------------------------------
(* Reports. *)

LEMMA Found ==
  ASSUME NEW r \in Reports, NEW k
  PROVE  KeyFound(r, k) <=> \E i \in 1 .. Slots : r[i] = k
BY DEF Reports, KeyFound, Range

LEMMA Keyboards ==
  ASSUME NEW r \in KeyboardReports
  PROVE  r \in Reports /\ Once(r)
<1>1. CASE r = [i \in 1 .. Slots |-> RollOver]
  BY <1>1, KeyAssumption DEF Reports, Once
<1>2. CASE r # [i \in 1 .. Slots |-> RollOver]
  <2>1. r \in [1 .. Slots -> Keys \cup {NoKey}]
    BY <1>2 DEF KeyboardReports
  <2>2. \A i, j \in 1 .. Slots : r[i] = r[j] /\ i # j => r[i] = NoKey
    BY <1>2 DEF KeyboardReports
  <2>3. r \in Reports  BY <2>1 DEF Reports
  <2>4. NoKey \notin Keys  BY KeyAssumption
  <2>5. QED BY <2>2, <2>3, <2>4 DEF Once
<1>3. QED BY <1>1, <1>2

LEMMA Empty == NoKeys \in Reports /\ Once(NoKeys) /\ \A k \in Keys : ~KeyFound(NoKeys, k)
<1>1. NoKeys \in Reports  BY DEF NoKeys, Reports
<1>2. \A i \in 1 .. Slots : NoKeys[i] \notin Keys  BY KeyAssumption DEF NoKeys
<1>3. QED BY <1>1, <1>2, Found DEF Once

-----------------------------------------------------------------------------
(* The steps. *)

LEMMA KeyInit == Init => KeyInv
<1> SUFFICES ASSUME Init PROVE KeyInv  OBVIOUS
<1>1. TypeOK  BY Empty, SlotAssumption DEF Init, TypeOK
<1>2. Owner  BY DEF Init, Owner
<1>3. Distinct  BY Empty DEF Init, Distinct
<1>4. Told  BY Empty DEF Init, Told
<1>5. QED BY <1>1, <1>2, <1>3, <1>4 DEF KeyInv

\* Outside of the callback's loop nothing is told, and no report is replaced that the
\* callback still looks at.
LEMMA KeyOutside ==
  ASSUME KeyInv, overwrites' = 0,
         Initialize \/ Deaf \/ Submit \/ NoData \/ OtherData \/ Attach \/ Detach
           \/ Report \/ NoReport \/ OtherInterface
  PROVE  KeyInv'
<1> USE DEF keyVars, deviceVars, lowVars, ghosts
<1>1. CASE Initialize
  BY <1>1 DEF KeyInv, Initialize, TypeOK, Owner, Distinct, Told, DownAfter,
              ReleasesDone, PressesDone
<1>2. CASE Deaf
  BY <1>2 DEF KeyInv, Deaf, vars, TypeOK, Owner, Distinct, Told, DownAfter,
              ReleasesDone, PressesDone
<1>3. CASE Submit \/ NoData \/ OtherData \/ Attach \/ Detach \/ Report \/ NoReport
  <2>1. /\ callback = "none" /\ UNCHANGED <<keyVars, reported>>
    BY <1>3 DEF KeyInv, Owner, Submit, NoData, OtherData, Attach, Detach, Report, NoReport
  <2>2. Told'  BY <2>1 DEF KeyInv, Told
  <2>3. hid_buffer' = hid_buffer \/ hid_buffer' \in Reports
    BY <1>3, Keyboards DEF Submit, NoData, OtherData, Attach, Detach, Report, NoReport
  <2>4. TypeOK'
    BY <1>3, <2>1, <2>3 DEF KeyInv, TypeOK, Submit, NoData, OtherData, Attach, Detach, Report,
                   NoReport, AfterNoData, Resubmitted
  <2>5. Owner'
    BY <1>3, <2>1 DEF KeyInv, Owner, Submit, NoData, OtherData, Attach, Detach, Report,
                   NoReport
  <2>6. Distinct'
    BY <1>3, <2>1 DEF KeyInv, Owner, Distinct, Submit, NoData, OtherData, Attach, Detach,
                   Report, NoReport, AfterNoData, Resubmitted
  <2>7. QED BY <2>2, <2>4, <2>5, <2>6 DEF KeyInv
<1>4. CASE OtherInterface
  <2>1. /\ urb \notin {"report", "called"} /\ hid_buffer' \in Reports
        /\ UNCHANGED <<device, thread, urb, keyVars, ghosts>>
    BY <1>4 DEF OtherInterface, Pending, KeyInv, TypeOK
  <2>2. callback = "none" /\ callback' = "none"  BY <2>1 DEF KeyInv, Owner
  <2>3. TypeOK'  BY <1>4, <2>1 DEF OtherInterface, KeyInv, TypeOK
  <2>4. Owner'  BY <2>1, <2>2 DEF KeyInv, Owner
  <2>5. Distinct'  BY <2>1, <2>2 DEF KeyInv, Distinct
  <2>6. Told'  BY <2>1, <2>2 DEF KeyInv, Told
  <2>7. QED BY <2>3, <2>4, <2>5, <2>6 DEF KeyInv
<1>5. QED BY <1>1, <1>2, <1>3, <1>4

LEMMA KeyCalled ==
  ASSUME KeyInv, KeyboardCallback
  PROVE  KeyInv'
<1> USE DEF keyVars, deviceVars, lowVars, ghosts
<1>1. /\ callback = "none" /\ urb = "report" /\ device = "keyboard"
      /\ callback' = "release" /\ slot' = 1 /\ urb' = "called" /\ reported' = hid_buffer
      /\ UNCHANGED <<device, thread, hid_buffer, prev_keys, down, overwrites>>
  BY DEF KeyboardCallback, WhileCalled
<1>2. TypeOK'  BY <1>1, SlotAssumption DEF KeyInv, TypeOK
<1>3. Owner'  BY <1>1 DEF KeyInv, Owner
<1>4. Distinct'  BY <1>1, Keyboards DEF KeyInv, Distinct
<1>5. Told'
  <2>1. ReleasesDone' = 0 /\ PressesDone' = 0  BY <1>1 DEF ReleasesDone, PressesDone
  <2>2. \A k \in Keys : down[k] = IF KeyFound(prev_keys, k) THEN 1 ELSE 0
    BY <1>1 DEF KeyInv, Told
  <2>3. \A k \in Keys : down'[k] = DownAfter(k, 0, 0)'  BY <1>1, <2>2 DEF DownAfter
  <2>4. QED BY <1>1, <2>1, <2>3 DEF Told
<1>6. QED BY <1>2, <1>3, <1>4, <1>5 DEF KeyInv

LEMMA KeyReleased ==
  ASSUME KeyInv, Release
  PROVE  KeyInv'
<1> USE DEF keyVars, deviceVars, lowVars, ghosts
<1>1. /\ callback = "release" /\ callback' = "press"
      /\ down' = IF Released(slot) THEN [down EXCEPT ![prev_keys[slot]] = @ - 1] ELSE down
      /\ UNCHANGED <<device, thread, urb, hid_buffer, prev_keys, slot, ghosts>>
  BY DEF Release
<1>2. /\ slot \in 1 .. Slots /\ down \in [Keys -> Int]
      /\ prev_keys \in Reports /\ hid_buffer \in Reports /\ Once(prev_keys)
      /\ \A k \in Keys : down[k] = DownAfter(k, slot - 1, slot - 1)
  BY <1>1 DEF KeyInv, TypeOK, Distinct, Told, ReleasesDone, PressesDone
<1>3. TypeOK'  BY <1>1 DEF KeyInv, TypeOK, Released
<1>4. Owner'  BY <1>1 DEF KeyInv, Owner
<1>5. Distinct'  BY <1>1 DEF KeyInv, Distinct
<1>6. ASSUME NEW k \in Keys  PROVE down'[k] = DownAfter(k, slot, slot - 1)
  <2>1. 1 .. slot = (1 .. slot - 1) \cup {slot}  BY <1>2, SlotAssumption
  <2>2. CASE prev_keys[slot] # k
    <3>1. down'[k] = down[k]  BY <1>1, <1>2, <2>2 DEF Released
    <3>2. QED BY <1>2, <2>1, <2>2, <3>1 DEF DownAfter
  <2>3. CASE prev_keys[slot] = k
    <3>1. KeyFound(prev_keys, k)  BY <1>2, <2>3, Found
    <3>2. CASE KeyFound(hid_buffer, k)
      <4>1. down' = down  BY <1>1, <2>3, <3>2 DEF Released
      <4>2. QED BY <1>2, <3>1, <3>2, <4>1 DEF DownAfter
    <3>3. CASE ~KeyFound(hid_buffer, k)
      <4>1. \A i \in 1 .. slot - 1 : i \in 1 .. Slots /\ i # slot  BY <1>2, SlotAssumption
      <4>2. ~\E i \in 1 .. slot - 1 : prev_keys[i] = k  BY <1>2, <2>3, <4>1 DEF Once
      <4>3. down[k] = 1  BY <1>2, <3>1, <4>2 DEF DownAfter
      <4>4. down' = [down EXCEPT ![k] = @ - 1]  BY <1>1, <2>3, <3>3 DEF Released
      <4>5. down'[k] = 0  BY <1>2, <4>3, <4>4
      <4>6. QED BY <2>1, <2>3, <3>1, <3>3, <4>5 DEF DownAfter
    <3>4. QED BY <3>2, <3>3
  <2>4. QED BY <2>2, <2>3
<1>7. Told'
  <2>1. ReleasesDone' = slot /\ PressesDone' = slot - 1
    BY <1>1 DEF ReleasesDone, PressesDone
  <2>2. \A k \in Keys : DownAfter(k, slot, slot - 1)' = DownAfter(k, slot, slot - 1)
    BY <1>1 DEF DownAfter
  <2>3. QED BY <1>1, <1>6, <2>1, <2>2 DEF Told, DownAfter
<1>8. QED BY <1>3, <1>4, <1>5, <1>7 DEF KeyInv

LEMMA KeyPressed ==
  ASSUME KeyInv, Press
  PROVE  KeyInv'
<1> USE DEF keyVars, deviceVars, lowVars, ghosts
<1>1. /\ callback = "press" /\ callback' \in {"copy", "release"}
      /\ down' = IF Pressed(slot) THEN [down EXCEPT ![hid_buffer[slot]] = @ + 1] ELSE down
      /\ IF slot = Slots THEN callback' = "copy" /\ slot' = slot
                         ELSE callback' = "release" /\ slot' = slot + 1
      /\ UNCHANGED <<device, thread, urb, hid_buffer, prev_keys, ghosts>>
  BY DEF Press, LastSlot
<1>2. /\ slot \in 1 .. Slots /\ down \in [Keys -> Int]
      /\ prev_keys \in Reports /\ hid_buffer \in Reports /\ Once(hid_buffer)
      /\ \A k \in Keys : down[k] = DownAfter(k, slot, slot - 1)
  BY <1>1 DEF KeyInv, TypeOK, Distinct, Told, ReleasesDone, PressesDone
<1>3. slot' \in 1 .. Slots  BY <1>1, <1>2, SlotAssumption
<1>4. TypeOK'  BY <1>1, <1>3 DEF KeyInv, TypeOK, Pressed
<1>5. Owner'  BY <1>1 DEF KeyInv, Owner
<1>6. Distinct'  BY <1>1 DEF KeyInv, Distinct
<1>7. ASSUME NEW k \in Keys  PROVE down'[k] = DownAfter(k, slot, slot)
  <2>1. 1 .. slot = (1 .. slot - 1) \cup {slot}  BY <1>2, SlotAssumption
  <2>2. CASE hid_buffer[slot] # k
    <3>1. down'[k] = down[k]  BY <1>1, <1>2, <2>2 DEF Pressed
    <3>2. QED BY <1>2, <2>1, <2>2, <3>1 DEF DownAfter
  <2>3. CASE hid_buffer[slot] = k
    <3>1. CASE KeyFound(prev_keys, k)
      <4>1. down' = down  BY <1>1, <2>3, <3>1 DEF Pressed
      <4>2. QED BY <1>2, <3>1, <4>1 DEF DownAfter
    <3>2. CASE ~KeyFound(prev_keys, k)
      <4>1. \A i \in 1 .. slot - 1 : i \in 1 .. Slots /\ i # slot  BY <1>2, SlotAssumption
      <4>2. ~\E i \in 1 .. slot - 1 : hid_buffer[i] = k  BY <1>2, <2>3, <4>1 DEF Once
      <4>3. down[k] = 0  BY <1>2, <3>2, <4>2 DEF DownAfter
      <4>4. down' = [down EXCEPT ![k] = @ + 1]  BY <1>1, <2>3, <3>2 DEF Pressed
      <4>5. down'[k] = 1  BY <1>2, <4>3, <4>4
      <4>6. QED BY <2>1, <2>3, <3>2, <4>5 DEF DownAfter
    <3>3. QED BY <3>1, <3>2
  <2>4. QED BY <2>2, <2>3
<1>8. Told'
  <2>1. ReleasesDone' = slot /\ PressesDone' = slot
    BY <1>1, <1>2, SlotAssumption DEF ReleasesDone, PressesDone
  <2>2. \A k \in Keys : DownAfter(k, slot, slot)' = DownAfter(k, slot', slot')
    BY <1>1 DEF DownAfter
  <2>3. \A k \in Keys : DownAfter(k, ReleasesDone, PressesDone)' = DownAfter(k, slot, slot)
    BY <1>1, <2>1 DEF DownAfter
  <2>4. QED BY <1>1, <1>7, <2>3 DEF Told
<1>9. QED BY <1>4, <1>5, <1>6, <1>8 DEF KeyInv

\* When the loop is done the keys told to be down are those of the new report, which
\* is kept for the next one.
LEMMA KeyCopied ==
  ASSUME KeyInv, Copy
  PROVE  KeyInv'
<1> USE DEF keyVars, deviceVars, lowVars, ghosts
<1>1. /\ callback = "copy" /\ callback' = "none" /\ prev_keys' = hid_buffer
      /\ urb' \in {"submitted", "refused"}
      /\ UNCHANGED <<device, thread, hid_buffer, slot, down, ghosts>>
  BY DEF Copy, Resubmitted
<1>2. /\ prev_keys \in Reports /\ hid_buffer \in Reports /\ hid_buffer = reported
      /\ thread # "started" /\ Once(hid_buffer)
      /\ \A k \in Keys : down[k] = DownAfter(k, Slots, Slots)
  BY <1>1 DEF KeyInv, TypeOK, Owner, Distinct, Told, ReleasesDone, PressesDone
<1>3. TypeOK'  BY <1>1 DEF KeyInv, TypeOK
<1>4. Owner'  BY <1>1, <1>2 DEF Owner
<1>5. Distinct'  BY <1>1, <1>2 DEF Distinct
<1>6. ASSUME NEW k \in Keys  PROVE down[k] = IF KeyFound(hid_buffer, k) THEN 1 ELSE 0
  <2>1. /\ KeyFound(hid_buffer, k) <=> \E i \in 1 .. Slots : hid_buffer[i] = k
        /\ KeyFound(prev_keys, k) <=> \E i \in 1 .. Slots : prev_keys[i] = k
    BY <1>2, Found
  <2>2. QED BY <1>2, <2>1 DEF DownAfter
<1>7. Told'  BY <1>1, <1>2, <1>6 DEF Told
<1>8. QED BY <1>3, <1>4, <1>5, <1>7 DEF KeyInv

\* An overwritten report stays one.
LEMMA OverwritesGrow ==
  ASSUME [Next]_vars, overwrites \in Nat, overwrites' = 0
  PROVE  overwrites = 0
BY DEF Next, Initialize, Deaf, Submit, Callback, NoData, OtherData, KeyboardCallback, Release,
       Press, Copy, Attach, Detach, Report, NoReport, OtherInterface, vars, ghosts

LEMMA CountNext == overwrites \in Nat /\ [Next]_vars => overwrites' \in Nat
BY DEF Next, Initialize, Deaf, Submit, Callback, NoData, OtherData, KeyboardCallback, Release,
       Press, Copy, Attach, Detach, Report, NoReport, OtherInterface, vars, ghosts

LEMMA KeyNext == KeyInv /\ [Next]_vars /\ overwrites' = 0 => KeyInv'
<1> SUFFICES ASSUME KeyInv, [Next]_vars, overwrites' = 0 PROVE KeyInv'  OBVIOUS
<1>1. CASE UNCHANGED vars
  BY <1>1 DEF vars, lowVars, keyVars, deviceVars, ghosts, KeyInv, TypeOK, Owner, Distinct,
              Told, DownAfter, ReleasesDone, PressesDone
<1>2. CASE Next
  BY <1>2, KeyOutside, KeyCalled, KeyReleased, KeyPressed, KeyCopied DEF Next, Callback
<1>3. QED BY <1>1, <1>2

\* The induction invariant: between and within reports the keys that the keyboard's
\* callback has told to be down are those of the report it is at, until another interface
\* overwrites one.
THEOREM KeyInvAlways == Spec => [](overwrites \in Nat /\ WholeInv)
<1>1. Init => overwrites \in Nat /\ WholeInv  BY KeyInit DEF Init, WholeInv
<1>2. overwrites \in Nat /\ WholeInv /\ [Next]_vars => (overwrites \in Nat /\ WholeInv)'
  BY CountNext, OverwritesGrow, KeyNext DEF WholeInv
<1>3. QED BY <1>1, <1>2, PTL DEF Spec

-----------------------------------------------------------------------------
(* What the application is told. *)

\* key_event_callback never tells of a press of a key that is down, nor of a release
\* of one that is up, in whatever slots the reports have the keys, with other devices
\* attached in between: the keys of the report before outlive the device.
THEOREM AlternateAlways == Spec => []Alternate
<1>1. ASSUME KeyInv, NEW k \in Keys  PROVE down[k] \in {0, 1}
  BY <1>1 DEF KeyInv, Told, DownAfter
<1>2. WholeInv => Alternate  BY <1>1 DEF Alternate, WholeInv
<1>3. QED BY <1>2, KeyInvAlways, PTL

\* When a report has been handled, the keys told to be down are exactly the keys in it,
\* also when another interface writes into the buffer between two reports.
THEOREM ToldIsReportedAlways == Spec => []ToldIsReported
<1>1. ASSUME KeyInv, callback = "none", NEW k \in Keys
      PROVE  (down[k] = 1) <=> KeyFound(reported, k)
  BY <1>1 DEF KeyInv, Told
<1>2. WholeInv => ToldIsReported  BY <1>1 DEF ToldIsReported, WholeInv
<1>3. QED BY <1>2, KeyInvAlways, PTL
=============================================================================
