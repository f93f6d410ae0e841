---------------------------- MODULE UsbMtpProofs ----------------------------
(***************************************************************************)
(* Proofs about UsbMtp, for every set of tasks and every bound on          *)
(* disconnects: the types, and that no start of the responder task is lost *)
(* (NoLostStart).  Then, while the device is up: an operation is carried   *)
(* out at most once (AtMostOnce), and as long as the device was not        *)
(* unplugged the responder task never ends (LiveWhileUp) and never sleeps  *)
(* without a transfer that will wake it (NoStuckWait), whatever resets,    *)
(* refused calls and late callbacks come in between; so that a freed       *)
(* handle is used only while the application stops the device              *)
(* (FreedOnlyInStop).                                                      *)
(***************************************************************************)
EXTENDS UsbMtp, TLAPS

-----------------------------------------------------------------------------
(* The notification. *)

LEMMA NotifyTypes ==
  ASSUME NEW n \in Notification
  PROVE  /\ SetReadBit(n) \in Notification
         /\ SetWriteBit(n) \in Notification
         /\ Give(n) \in Notification
         /\ AfterReadWait(n) \in Notification
         /\ AfterWriteWait(n) \in Notification
BY DEF Notification, SetReadBit, SetWriteBit, Give, AfterReadWait, AfterWriteWait

LEMMA ClearedIsZero == Cleared \in Notification /\ IsZero(Cleared) /\ ~Cleared.pending
BY DEF Cleared, Notification, IsZero

\* A notified task finds a value other than zero, whatever was there before.
LEMMA NotifyNotZero ==
  ASSUME NEW n \in Notification
  PROVE  ~IsZero(SetReadBit(n)) /\ ~IsZero(SetWriteBit(n)) /\ ~IsZero(Give(n))
<1>1. ~IsZero(SetReadBit(n)) /\ ~IsZero(SetWriteBit(n))
  BY DEF SetReadBit, SetWriteBit, IsZero
<1>2. CASE n.rd = FALSE
  <2>1. Give(n).rd = TRUE  BY <1>2 DEF Give
  <2>2. QED BY <1>1, <2>1 DEF IsZero
<1>3. CASE n.rd = TRUE /\ n.wr = FALSE
  <2>1. Give(n).wr = TRUE  BY <1>3 DEF Give
  <2>2. QED BY <1>1, <2>1 DEF IsZero
<1>4. CASE n.rd = TRUE /\ n.wr = TRUE
  <2>1. Give(n).high = n.high + 1  BY <1>4 DEF Give
  <2>2. n.high \in Nat  BY DEF Notification
  <2>3. Give(n).high # 0  BY <2>1, <2>2
  <2>4. QED BY <1>1, <2>3 DEF IsZero
<1>5. n.rd \in BOOLEAN /\ n.wr \in BOOLEAN  BY DEF Notification
<1>6. QED BY <1>1, <1>2, <1>3, <1>4, <1>5

-----------------------------------------------------------------------------
(* Types. *)

LEMMA FirstCallType ==
  ASSUME NEW kind \in Kinds
  PROVE  FirstCall(kind) \in ReadSites \cup WriteSites
BY DEF Kinds, FirstCall, ReadSites, WriteSites

USE DEF Goto, Call, Touch, appVars, busVars, taskVars, Between

LEMMA TypeTask ==
  ASSUME TypeOK, NEW t \in Tasks, TaskStep(t)
  PROVE  TypeOK'
<1>1. CASE WaitStart(t)  BY <1>1 DEF WaitStart, TypeOK, PCs, ReadSites, Statuses
<1>2. CASE Take(t)       BY <1>2, ClearedIsZero DEF Take, TypeOK, PCs
<1>3. CASE Check(t)      BY <1>3 DEF Check, TypeOK, PCs
<1>4. CASE Start(t)      BY <1>4 DEF Start, AfterCall, TypeOK, PCs, ReadSites, WriteSites
<1>5. CASE Refuse(t)
  <2>1. /\ note' \in [Tasks -> Notification]
        /\ rlen' \in [Tasks -> {"len", "stop", "exit", "unset"}]
        /\ stray' \in BOOLEAN
    <3>1. CASE site[t] \in ReadSites
      <4>1. PICK len \in {"exit", "stop"} : ReadCb(len)
        BY <1>5, <3>1 DEF Refuse, Command
      <4>2. QED BY <4>1, NotifyTypes DEF ReadCb, TypeOK, Live
    <3>2. CASE site[t] \notin ReadSites
      BY <1>5, <3>2, NotifyTypes DEF Refuse, WriteCb, TypeOK, Live
    <3>3. QED BY <3>1, <3>2
  <2>2. pc' \in [Tasks -> PCs] /\ site' \in [Tasks -> ReadSites \cup WriteSites]
    BY <1>5 DEF Refuse, AfterCall, TypeOK, PCs, ReadSites, WriteSites
  <2>3. QED BY <1>5, <2>1, <2>2 DEF Refuse, TypeOK
<1>6. CASE ReadWake(t)   BY <1>6, NotifyTypes DEF ReadWake, TypeOK, PCs
<1>7. CASE WriteWake(t)  BY <1>7, NotifyTypes DEF WriteWake, TypeOK, PCs, WriteSites
<1>8. CASE GotOperation(t)
  <2>1. CASE UNCHANGED <<site, buf, owed>>
    BY <1>8, <2>1 DEF GotOperation, TypeOK, PCs
  <2>2. CASE /\ buf[t] \in Kinds
             /\ Call(t, FirstCall(buf[t])) /\ Goto(t, "check")
             /\ buf' = [buf EXCEPT ![t] = AfterDispatch(buf[t])]
             /\ owed' = FALSE
    BY <1>8, <2>2, FirstCallType, ZenonT(40) DEF GotOperation, AfterDispatch, TypeOK, PCs
  <2>3. QED BY <1>8, <2>1, <2>2 DEF GotOperation
<1>9. CASE GotDataset(t) BY <1>9 DEF GotDataset, TypeOK, PCs, WriteSites
<1>10. CASE Exit(t)      BY <1>10 DEF Exit, TypeOK, PCs
<1>11. QED BY <1>1, <1>2, <1>3, <1>4, <1>5, <1>6, <1>7, <1>8, <1>9, <1>10 DEF TaskStep

LEMMA TypeHost ==
  ASSUME TypeOK, HostStep
  PROVE  TypeOK'
<1>1. ASSUME NEW content \in Kinds \cup {"other"}, BulkOut(content)
      PROVE  /\ armed' = NoTask /\ stray' \in BOOLEAN
             /\ buf' \in [Tasks -> Kinds \cup {"other"}]
             /\ rlen' \in [Tasks -> {"len", "stop", "exit", "unset"}]
             /\ note' \in [Tasks -> Notification]
  BY <1>1, NotifyTypes DEF BulkOut, TypeOK, Live
<1>2. CASE HostOperation BY <1>1, <1>2 DEF HostOperation, TypeOK
<1>3. CASE HostDataset   BY <1>1, <1>3 DEF HostDataset, TypeOK
<1>4. CASE HostReceive   BY <1>4 DEF HostReceive, TypeOK
<1>5. QED BY <1>2, <1>3, <1>4 DEF HostStep

LEMMA TypeInterrupt ==
  ASSUME TypeOK, Interrupt
  PROVE  TypeOK'
<1>1. CASE BulkIn         BY <1>1, NotifyTypes, ZenonT(40) DEF BulkIn, WriteCb, TypeOK, Live
<1>2. CASE Reset          BY <1>2 DEF Reset, DropTransfers, TypeOK, Statuses
<1>3. CASE Configured
  <2>1. status' \in Statuses /\ isr' \in BOOLEAN
    <3>1. CASE status = "INIT"  BY <1>3, <3>1 DEF Configured, NeedWake, Statuses
    <3>2. CASE status # "INIT"  BY <1>3, <3>2 DEF Configured, NeedWake, TypeOK
    <3>3. QED BY <3>1, <3>2
  <2>2. QED BY <1>3, <2>1 DEF Configured, TypeOK
<1>4. CASE ConfiguredGive
  BY <1>4, NotifyTypes, ZenonT(40) DEF ConfiguredGive, GiveTask, TypeOK, Live
<1>5. CASE Disconnected
  BY <1>5, NotifyTypes DEF Disconnected, DropTransfers, GiveTask, TypeOK, Live
<1>6. QED BY <1>1, <1>2, <1>3, <1>4, <1>5 DEF Interrupt

LEMMA TypeApp ==
  ASSUME TypeOK, AppStart \/ Close \/ AppStop
  PROVE  TypeOK'
<1>1. CASE InitStatus   BY <1>1 DEF InitStatus, TypeOK, Statuses, AppPCs
<1>2. CASE CreateTask
  <2>1. PICK t \in Tasks :
          /\ newest' = t
          /\ Goto(t, "wait") /\ Call(t, "op")
          /\ note' = [note EXCEPT ![t] = Cleared]
          /\ rlen' = [rlen EXCEPT ![t] = "unset"]
          /\ buf' = [buf EXCEPT ![t] = "other"]
    BY <1>2 DEF CreateTask
  <2>2. note' \in [Tasks -> Notification]  BY <2>1, ClearedIsZero DEF TypeOK
  <2>3. pc' \in [Tasks -> PCs] /\ site' \in [Tasks -> ReadSites \cup WriteSites]
    BY <2>1 DEF TypeOK, PCs, ReadSites
  <2>4. QED BY <1>2, <2>1, <2>2, <2>3, ZenonT(40) DEF CreateTask, TypeOK, AppPCs
<1>3. CASE AssignHandle BY <1>3 DEF AssignHandle, TypeOK, AppPCs
<1>4. CASE Connect      BY <1>4 DEF Connect, TypeOK, AppPCs
<1>5. CASE Close        BY <1>5 DEF Close, StatusBefore, TypeOK, Statuses, AppPCs
<1>6. CASE CloseRunning BY <1>6 DEF CloseRunning, TypeOK, AppPCs, Live
<1>7. CASE CloseNotify  BY <1>7, NotifyTypes DEF CloseNotify, TypeOK, AppPCs, Live
<1>8. CASE CloseWaiting
  BY <1>8, NotifyTypes DEF CloseWaiting, GiveTask, TypeOK, AppPCs, Live
<1>9. CASE CloseOther   BY <1>9 DEF CloseOther, TypeOK, AppPCs
<1>10. CASE Deinitialize BY <1>10 DEF Deinitialize, DropTransfers, TypeOK, AppPCs
<1>11. CASE Pause       BY <1>11 DEF Pause, TypeOK, AppPCs
<1>12. CASE CreateNothing  BY <1>12 DEF CreateNothing, TypeOK, AppPCs
<1>13. QED
  BY <1>1, <1>2, <1>3, <1>4, <1>5, <1>6, <1>7, <1>8, <1>9, <1>10, <1>11, <1>12
  DEF AppStart, AppStop

LEMMA TypeInit == Init => TypeOK
<1>1. SUFFICES ASSUME Init PROVE TypeOK  OBVIOUS
<1>2. note \in [Tasks -> Notification]  BY <1>1, ClearedIsZero DEF Init
<1>3. pc \in [Tasks -> PCs] /\ site \in [Tasks -> ReadSites \cup WriteSites]
  BY <1>1 DEF Init, PCs, ReadSites
<1>4. QED BY <1>1, <1>2, <1>3 DEF Init, TypeOK, Statuses, Kinds, AppPCs

LEMMA TypeNext == TypeOK /\ [Next]_vars => TypeOK'
<1>1. SUFFICES ASSUME TypeOK, [Next]_vars PROVE TypeOK'  OBVIOUS
<1>2. CASE \E t \in Tasks : TaskStep(t)      BY <1>1, <1>2, TypeTask
<1>3. CASE HostStep                          BY <1>1, <1>3, TypeHost
<1>4. CASE Interrupt                         BY <1>1, <1>4, TypeInterrupt
<1>5. CASE AppStart \/ Close \/ AppStop      BY <1>1, <1>5, TypeApp
<1>6. CASE UNCHANGED vars                    BY <1>1, <1>6 DEF vars, TypeOK
<1>7. QED BY <1>1, <1>2, <1>3, <1>4, <1>5, <1>6 DEF Next

\* The device's variables keep their types in every behaviour.
THEOREM TypeCorrect == Spec => []TypeOK
BY TypeInit, TypeNext, PTL DEF Spec

-----------------------------------------------------------------------------
(* No start is lost. *)

\* A task that takes a step is the newest one, and app_main has gone on from
\* its creation; until s_handle is assigned it is in usb_wait_start.
LEMMA StepIsNewest ==
  ASSUME StartInv, NEW t \in Tasks, TaskStep(t)
  PROVE  /\ t = newest /\ app \notin Between
         /\ app \in {"assign", "connect"} => pc[t] = "wait" /\ status = "STOPPING"
         /\ pc[t] # "wait" => cur = t
<1>1. \/ pc[t] \in {"wait", "check", "start", "refuse", "got", "exit"}
      \/ pc[t] = "take" /\ ~IsZero(note[t])
      \/ pc[t] = "await" /\ note[t].pending
  BY DEF TaskStep, WaitStart, Take, Check, Start, Refuse, ReadWake, WriteWake,
         Notified, GotOperation, GotDataset, Exit
<1>2. ~Quiet(t)  BY <1>1 DEF Quiet
<1>3. t = newest /\ app \notin Between  BY <1>2 DEF StartInv, OthersQuiet
<1>4. app \in {"assign", "connect"} => pc[t] = "wait" /\ status = "STOPPING"
  BY <1>1, <1>3 DEF StartInv, HandleIsNewest
<1>5. app \in Connected \cup {"assign", "connect", "pause"}
  BY <1>3 DEF StartInv, TypeOK, AppPCs, Connected
<1>6. pc[t] # "wait" => cur = t
  BY <1>3, <1>4, <1>5 DEF StartInv, HandleIsNewest
<1>7. QED BY <1>3, <1>4, <1>6

\* A step that leaves app_main, the controller and the status alone, and
\* moves and notifies only the newest task, which does not go to sleep in
\* usb_wait_start.
LEMMA OnlyNewestMoves ==
  ASSUME StartInv, NEW t \in Tasks, t = newest,
         app \in Connected \cup {"pause"},
         UNCHANGED <<status, cur, newest, app, was, bus, isr>>,
         \A u \in Tasks \ {t} : pc'[u] = pc[u] /\ note'[u] = note[u],
         pc'[t] # "take"
  PROVE  NoLostStart' /\ OthersQuiet' /\ HandleIsNewest' /\ AppPlaces'
<1>1. NoLostStart'  BY DEF StartInv, NoLostStart
<1>2. OthersQuiet'  BY DEF StartInv, OthersQuiet, Quiet, Connected
<1>3. HandleIsNewest'  BY DEF StartInv, HandleIsNewest, Connected
<1>4. AppPlaces'  BY DEF StartInv, AppPlaces
<1>5. QED BY <1>1, <1>2, <1>3, <1>4

LEMMA StartTask ==
  ASSUME StartInv, NEW t \in Tasks, TaskStep(t)
  PROVE  NoLostStart' /\ OthersQuiet' /\ HandleIsNewest' /\ AppPlaces'
<1>1. /\ t = newest /\ app \notin Between
      /\ app \in {"assign", "connect"} => pc[t] = "wait" /\ status = "STOPPING"
      /\ pc[t] # "wait" => cur = t
  BY StepIsNewest
<1>2. TypeOK  BY DEF StartInv
<1>3. CASE WaitStart(t)
  <2>1. CASE status = "STOPPING"
    <3>1. /\ status' = "INIT" /\ pc' = [pc EXCEPT ![t] = "take"]
          /\ UNCHANGED <<note, cur, newest, app, was, bus, isr>>
      BY <1>3, <2>1 DEF WaitStart
    <3>2. app \in {"up", "assign", "connect"}
      BY <1>1, <2>1 DEF StartInv, AppPlaces, TypeOK, AppPCs
    <3>3. NoLostStart'  BY <3>1 DEF NoLostStart
    <3>4. OthersQuiet'  BY <1>1, <3>1, <3>2 DEF StartInv, OthersQuiet, Quiet
    <3>5. HandleIsNewest'
      BY <1>1, <1>2, <3>1 DEF StartInv, HandleIsNewest, TypeOK
    <3>6. AppPlaces'  BY <3>1, <3>2 DEF StartInv, AppPlaces, Connected
    <3>7. QED BY <3>3, <3>4, <3>5, <3>6
  <2>2. CASE status # "STOPPING"
    <3>1. app \in Connected \cup {"pause"}
      BY <1>1, <1>2, <1>3, <2>2 DEF WaitStart, TypeOK, AppPCs, Connected
    <3>2. /\ UNCHANGED <<status, cur, newest, app, was, bus, isr, note>>
          /\ pc' = [pc EXCEPT ![t] = "check"]
      BY <1>3, <2>2 DEF WaitStart
    <3>3. QED BY <1>1, <1>2, <3>1, <3>2, OnlyNewestMoves DEF TypeOK
  <2>3. QED BY <2>1, <2>2
<1>4. CASE ~WaitStart(t)
  <2>1. app \in Connected \cup {"pause"} /\ cur = t
    <3>1. pc[t] # "wait"
      BY <1>4 DEF TaskStep, Take, Check, Start, Refuse, ReadWake, WriteWake,
                  GotOperation, GotDataset, Exit
    <3>2. QED BY <1>1, <1>2, <3>1 DEF TypeOK, AppPCs, Connected
  <2>2. UNCHANGED <<status, cur, newest, app, was, bus, isr>>
    BY <1>4 DEF TaskStep, Take, Check, Start, Refuse, ReadWake, WriteWake,
                GotOperation, GotDataset, Exit, busVars
  <2>3. \A u \in Tasks \ {t} : pc'[u] = pc[u]
    BY <1>2, <1>4 DEF TaskStep, Take, Check, Start, Refuse, ReadWake, WriteWake,
                      GotOperation, GotDataset, Exit, AfterCall, TypeOK
  <2>4. \A u \in Tasks \ {t} : note'[u] = note[u]
    BY <1>2, <1>4, <2>1 DEF TaskStep, Take, Check, Start, Refuse, ReadWake, WriteWake,
                      GotOperation, GotDataset, Exit, ReadCb, WriteCb, TypeOK
  <2>5. pc'[t] # "take"
    BY <1>2, <1>4 DEF TaskStep, Take, Check, Start, Refuse, ReadWake, WriteWake,
                      GotOperation, GotDataset, Exit, AfterCall, TypeOK
  <2>6. QED BY <1>1, <2>1, <2>2, <2>3, <2>4, <2>5, OnlyNewestMoves
<1>5. QED BY <1>3, <1>4

\* The interrupt notifies s_handle, which is the newest task: a sleeping one
\* wakes, and the others are not touched.
LEMMA NotifyNewest ==
  ASSUME StartInv, cur = newest, newest \in Tasks,
         NEW n \in Notification, ~IsZero(n),
         note' = IF Live(cur) THEN [note EXCEPT ![cur] = n] ELSE note,
         UNCHANGED <<pc, newest>>
  PROVE  /\ \A t \in Tasks : t # newest => UNCHANGED <<pc[t], note[t]>>
         /\ \A t \in Tasks : pc'[t] = "take" /\ IsZero(note'[t]) =>
              pc[t] = "take" /\ t # newest
<1>1. \A t \in Tasks : t # newest => pc'[t] = pc[t] /\ note'[t] = note[t]
  BY DEF StartInv, TypeOK
<1>2. ASSUME pc'[newest] = "take" PROVE note'[newest] = n
  BY <1>2, SlotAssumption DEF Live, StartInv, TypeOK
<1>3. QED BY <1>1, <1>2

LEMMA StartInterrupt ==
  ASSUME StartInv, Interrupt \/ HostStep
  PROVE  NoLostStart' /\ OthersQuiet' /\ HandleIsNewest' /\ AppPlaces'
<1>1. TypeOK  BY DEF StartInv
<1>2. app \in Connected /\ cur = newest /\ newest \in Tasks
  <2>1. app \in Connected
    BY DEF StartInv, AppPlaces, Interrupt, HostStep, HostOperation, HostDataset,
           HostReceive, BulkIn, Reset, Configured, ConfiguredGive, Disconnected,
           OutReady, Idle
  <2>2. QED BY <2>1 DEF StartInv, HandleIsNewest, Connected
<1>3. UNCHANGED <<cur, newest, app, was, pc>>
  BY DEF Interrupt, HostStep, HostOperation, HostDataset, HostReceive, BulkIn, Reset,
         Configured, ConfiguredGive, Disconnected
<1>4. ASSUME UNCHANGED note \/ \E n \in Notification :
        /\ ~IsZero(n)
        /\ note' = IF Live(cur) THEN [note EXCEPT ![cur] = n] ELSE note
      PROVE  OthersQuiet'
  <2>1. \A t \in Tasks : t # newest => pc'[t] = pc[t] /\ note'[t] = note[t]
    BY <1>1, <1>2, <1>3, <1>4, NotifyNewest DEF TypeOK
  <2>2. QED BY <1>2, <1>3, <2>1 DEF StartInv, OthersQuiet, Quiet, Connected
<1>5. HandleIsNewest'  BY <1>2, <1>3 DEF HandleIsNewest, Connected
<1>6. CASE Reset \/ Configured \/ HostReceive
  <2>1. UNCHANGED note  BY <1>6 DEF Reset, Configured, HostReceive
  <2>2. OthersQuiet'  BY <1>4, <2>1
  <2>3. NoLostStart'
    <3>1. CASE Reset  BY <1>3, <2>1, <3>1 DEF Reset, StartInv, NoLostStart
    <3>2. CASE Configured  BY <1>3, <2>1, <3>2 DEF Configured, NeedWake, StartInv, NoLostStart
    <3>3. CASE HostReceive
      BY <1>3, <2>1, <3>3 DEF HostReceive, StartInv, NoLostStart
    <3>4. QED BY <1>6, <3>1, <3>2, <3>3
  <2>4. AppPlaces'
    <3>1. app # "up" => status = "CLOSE"
      BY <1>2 DEF StartInv, AppPlaces, Connected
    <3>2. bus' # "off" /\ (app # "up" => status' = "CLOSE")
      BY <1>6, <3>1 DEF Reset, Configured, NeedWake, HostReceive, Idle
    <3>3. QED BY <1>2, <1>3, <3>2 DEF AppPlaces, Connected
  <2>5. QED BY <1>5, <2>2, <2>3, <2>4
<1>7. CASE BulkIn \/ ConfiguredGive \/ Disconnected \/ HostOperation \/ HostDataset
  <2>1. PICK n \in Notification :
        /\ ~IsZero(n)
        /\ note' = IF Live(cur) THEN [note EXCEPT ![cur] = n] ELSE note
    <3>1. note[cur] \in Notification  BY <1>1, <1>2 DEF TypeOK
    <3>2. CASE BulkIn
      <4>1. note' = IF Live(cur) THEN [note EXCEPT ![cur] = SetWriteBit(note[cur])]
                    ELSE note
        BY <3>2 DEF BulkIn, WriteCb
      <4>2. QED BY <3>1, <4>1, NotifyTypes, NotifyNotZero
    <3>3. CASE ConfiguredGive \/ Disconnected
      <4>1. note' = IF Live(cur) THEN [note EXCEPT ![cur] = Give(note[cur])] ELSE note
        BY <3>3 DEF ConfiguredGive, Disconnected, GiveTask
      <4>2. QED BY <3>1, <4>1, NotifyTypes, NotifyNotZero
    <3>4. CASE HostOperation \/ HostDataset
      <4>1. note' = IF Live(cur) THEN [note EXCEPT ![cur] = SetReadBit(note[cur])]
                    ELSE note
        BY <3>4 DEF HostOperation, HostDataset, BulkOut
      <4>2. QED BY <3>1, <4>1, NotifyTypes, NotifyNotZero
    <3>5. QED BY <1>7, <3>2, <3>3, <3>4
  <2>2. OthersQuiet'  BY <1>4, <2>1
  <2>3. NoLostStart'
    <3>1. ASSUME NEW t \in Tasks, pc'[t] = "take", IsZero(note'[t]) PROVE FALSE
      <4>1. pc[t] = "take" /\ t # newest
        BY <1>2, <1>3, <2>1, <3>1, NotifyNewest
      <4>2. QED BY <4>1 DEF StartInv, OthersQuiet, Quiet
    <3>2. QED BY <3>1 DEF NoLostStart
  <2>4. AppPlaces'
    <3>1. UNCHANGED status /\ bus' # "off"
      BY <1>2, <1>7 DEF BulkIn, ConfiguredGive, Disconnected, HostOperation,
        HostDataset, OutReady, Idle, StartInv, AppPlaces
    <3>2. QED BY <1>2, <1>3, <3>1 DEF StartInv, AppPlaces
  <2>5. QED BY <1>5, <2>2, <2>3, <2>4
<1>8. QED BY <1>6, <1>7 DEF Interrupt, HostStep

LEMMA StartApp ==
  ASSUME StartInv, AppStart \/ Close \/ AppStop
  PROVE  NoLostStart' /\ OthersQuiet' /\ HandleIsNewest' /\ AppPlaces'
<1>1. TypeOK  BY DEF StartInv
<1>2. CASE InitStatus
  <2>1. \A t \in Tasks : Quiet(t)  BY <1>2 DEF InitStatus, StartInv, OthersQuiet
  <2>2. NoLostStart' /\ OthersQuiet'
    BY <1>2, <2>1 DEF InitStatus, NoLostStart, OthersQuiet, Quiet
  <2>3. HandleIsNewest' /\ AppPlaces'
    BY <1>2 DEF InitStatus, HandleIsNewest, AppPlaces, Connected, busVars, StartInv
  <2>4. QED BY <2>2, <2>3
<1>3. CASE CreateTask
  <2>1. PICK t \in Tasks : newest' = t /\ Goto(t, "wait")
                           /\ note' = [note EXCEPT ![t] = Cleared]
    BY <1>3 DEF CreateTask
  <2>2. \A u \in Tasks : Quiet(u)  BY <1>3 DEF CreateTask, StartInv, OthersQuiet
  <2>3. /\ pc'[t] = "wait" /\ note'[t] = Cleared
        /\ \A u \in Tasks \ {t} : pc'[u] = pc[u] /\ note'[u] = note[u]
    BY <1>1, <2>1 DEF TypeOK
  <2>4. NoLostStart'  BY <2>2, <2>3 DEF NoLostStart, Quiet
  <2>5. OthersQuiet'
    BY <1>3, <2>1, <2>2, <2>3 DEF CreateTask, OthersQuiet, Quiet
  <2>6. HandleIsNewest'
    BY <1>3, <2>1, <2>3, ClearedIsZero
    DEF CreateTask, HandleIsNewest, StartInv, AppPlaces, Connected
  <2>7. AppPlaces'
    BY <1>3 DEF CreateTask, AppPlaces, StartInv, Connected, busVars
  <2>8. QED BY <2>4, <2>5, <2>6, <2>7
<1>4. CASE AssignHandle \/ Connect
  <2>1. UNCHANGED <<status, newest, pc, note, isr>>
    BY <1>4 DEF AssignHandle, Connect, busVars
  <2>2. \A t \in Tasks : t # newest => Quiet(t)
    BY DEF StartInv, OthersQuiet
  <2>3. pc[newest] = "take" => status = "INIT"
    BY <1>4 DEF AssignHandle, Connect, StartInv, HandleIsNewest
  <2>4. NoLostStart'  BY <2>1, <2>2, <2>3 DEF NoLostStart, Quiet
  <2>5. OthersQuiet'
    BY <1>4, <2>1, <2>2 DEF AssignHandle, Connect, OthersQuiet, Quiet
  <2>6. HandleIsNewest'
    BY <1>4, <2>1 DEF AssignHandle, Connect, StartInv, HandleIsNewest, Connected
  <2>7. AppPlaces'
    BY <1>4, <2>1 DEF AssignHandle, Connect, StartInv, AppPlaces, Connected, busVars
  <2>8. QED BY <2>4, <2>5, <2>6, <2>7
<1>5. CASE Close
  <2>1. NoLostStart'  BY <1>5 DEF Close, StatusBefore, StartInv, NoLostStart, busVars
  <2>2. OthersQuiet'  BY <1>5 DEF Close, StartInv, OthersQuiet, Quiet
  <2>3. HandleIsNewest'
    BY <1>5 DEF Close, StartInv, HandleIsNewest, Connected
  <2>4. AppPlaces'
    BY <1>5 DEF Close, StartInv, AppPlaces, Connected, busVars
  <2>5. QED BY <2>1, <2>2, <2>3, <2>4
<1>6. CASE CloseRunning \/ CloseOther
  <2>1. /\ UNCHANGED <<status, cur, newest, was, pc, note, bus, isr>>
        /\ app = "closing" /\ was # "INIT" /\ app' \in {"notify", "stopped"}
    BY <1>6 DEF CloseRunning, CloseOther, busVars
  <2>2. NoLostStart'  BY <2>1 DEF StartInv, NoLostStart
  <2>3. OthersQuiet'  BY <2>1 DEF StartInv, OthersQuiet, Quiet
  <2>4. HandleIsNewest'  BY <2>1 DEF StartInv, HandleIsNewest, Connected
  <2>5. AppPlaces'  BY <2>1 DEF StartInv, AppPlaces, Connected
  <2>6. QED BY <2>2, <2>3, <2>4, <2>5
<1>7. CASE CloseNotify \/ CloseWaiting
  <2>1. /\ UNCHANGED <<status, cur, newest, was, pc, bus, isr>>
        /\ app \in {"closing", "notify"} /\ app' = "stopped"
    BY <1>7 DEF CloseNotify, CloseWaiting, busVars
  <2>2. cur = newest /\ newest \in Tasks
    BY <2>1 DEF StartInv, HandleIsNewest, Connected
  <2>3. PICK n \in Notification :
          /\ ~IsZero(n)
          /\ note' = IF Live(cur) THEN [note EXCEPT ![cur] = n] ELSE note
    <3>1. note[cur] \in Notification  BY <1>1, <2>2 DEF TypeOK
    <3>2. CASE CloseNotify
      <4>1. note' = IF Live(cur) THEN [note EXCEPT ![cur] = SetReadBit(note[cur])]
                    ELSE note
        BY <3>2 DEF CloseNotify
      <4>2. QED BY <3>1, <4>1, NotifyTypes, NotifyNotZero
    <3>3. CASE CloseWaiting
      <4>1. note' = IF Live(cur) THEN [note EXCEPT ![cur] = Give(note[cur])] ELSE note
        BY <3>3 DEF CloseWaiting, GiveTask
      <4>2. QED BY <3>1, <4>1, NotifyTypes, NotifyNotZero
    <3>4. QED BY <1>7, <3>2, <3>3
  <2>4. /\ \A t \in Tasks : t # newest => pc'[t] = pc[t] /\ note'[t] = note[t]
        /\ \A t \in Tasks : pc'[t] = "take" /\ IsZero(note'[t]) =>
              pc[t] = "take" /\ t # newest
    BY <2>1, <2>2, <2>3, NotifyNewest
  <2>5. NoLostStart'
    BY <2>4 DEF StartInv, NoLostStart, OthersQuiet, Quiet
  <2>6. OthersQuiet'  BY <2>1, <2>4 DEF StartInv, OthersQuiet, Quiet
  <2>7. HandleIsNewest'  BY <2>1 DEF StartInv, HandleIsNewest, Connected
  <2>8. AppPlaces'  BY <2>1 DEF StartInv, AppPlaces, Connected
  <2>9. QED BY <2>5, <2>6, <2>7, <2>8
<1>8. CASE Deinitialize
  <2>1. UNCHANGED <<status, cur, newest, pc, note, isr>>
    BY <1>8 DEF Deinitialize
  <2>2. \A t \in Tasks : ~(pc[t] = "take" /\ IsZero(note[t]))
    BY <1>8 DEF Deinitialize, StartInv, NoLostStart, AppPlaces
  <2>3. NoLostStart'  BY <2>1, <2>2 DEF NoLostStart
  <2>4. OthersQuiet'
    BY <1>8, <2>1 DEF Deinitialize, StartInv, OthersQuiet, Quiet
  <2>5. HandleIsNewest'
    BY <1>8, <2>1 DEF Deinitialize, StartInv, HandleIsNewest, Connected
  <2>6. AppPlaces'
    BY <1>8, <2>1 DEF Deinitialize, StartInv, AppPlaces, Connected
  <2>7. QED BY <2>3, <2>4, <2>5, <2>6
<1>9. CASE Pause
  <2>1. UNCHANGED <<status, newest, pc, note, bus, isr, was>>
    BY <1>9 DEF Pause, busVars
  <2>2. \A t \in Tasks : ~(pc[t] = "take" /\ IsZero(note[t]))
    BY <1>9 DEF Pause, StartInv, NoLostStart, AppPlaces, Connected
  <2>3. \A t \in Tasks : Quiet(t)
    BY <1>9, <2>2, SlotAssumption DEF Pause, Runnable, Live, Blocked, Quiet
  <2>4. NoLostStart' /\ OthersQuiet'
    BY <2>1, <2>2, <2>3 DEF NoLostStart, OthersQuiet, Quiet
  <2>5. HandleIsNewest' /\ AppPlaces'
    BY <1>9, <2>1 DEF Pause, StartInv, HandleIsNewest, AppPlaces, Connected
  <2>6. QED BY <2>4, <2>5
<1>10. CASE CreateNothing
  <2>1. /\ UNCHANGED <<status, cur, newest, pc, note, bus, isr>>
        /\ app = "create" /\ app' = "crashed"
    BY <1>10 DEF CreateNothing
  <2>2. \A t \in Tasks : Quiet(t)  BY <2>1 DEF StartInv, OthersQuiet
  <2>3. NoLostStart' /\ OthersQuiet'
    BY <2>1, <2>2 DEF NoLostStart, OthersQuiet, Quiet
  <2>4. HandleIsNewest' /\ AppPlaces'
    BY <2>1 DEF StartInv, HandleIsNewest, AppPlaces, Connected
  <2>5. QED BY <2>3, <2>4
<1>11. QED
  BY <1>2, <1>3, <1>4, <1>5, <1>6, <1>7, <1>8, <1>9, <1>10 DEF AppStart, AppStop

LEMMA StartInit == Init => StartInv
<1>1. SUFFICES ASSUME Init PROVE StartInv  OBVIOUS
<1>2. \A t \in Tasks : Quiet(t) /\ pc[t] # "take"  BY <1>1 DEF Init, Quiet
<1>3. NoLostStart /\ OthersQuiet  BY <1>2 DEF NoLostStart, OthersQuiet
<1>4. HandleIsNewest /\ AppPlaces
  BY <1>1 DEF Init, HandleIsNewest, AppPlaces, Connected
<1>5. QED BY <1>1, <1>3, <1>4, TypeInit DEF StartInv

LEMMA StartNext == StartInv /\ [Next]_vars => StartInv'
<1>1. SUFFICES ASSUME StartInv, [Next]_vars PROVE StartInv'  OBVIOUS
<1>2. TypeOK'  BY <1>1, TypeNext DEF StartInv
<1>3. CASE \E t \in Tasks : TaskStep(t)  BY <1>1, <1>2, <1>3, StartTask DEF StartInv
<1>4. CASE HostStep \/ Interrupt  BY <1>1, <1>2, <1>4, StartInterrupt DEF StartInv
<1>5. CASE AppStart \/ Close \/ AppStop  BY <1>1, <1>2, <1>5, StartApp DEF StartInv
<1>6. CASE UNCHANGED vars
  BY <1>1, <1>2, <1>6 DEF vars, StartInv, NoLostStart, OthersQuiet, HandleIsNewest,
                          AppPlaces, Quiet
<1>7. QED BY <1>1, <1>3, <1>4, <1>5, <1>6 DEF Next

\* In every behaviour only the newest task runs, s_handle is its handle from
\* usbd_initialize on, and it sleeps in usb_wait_start only as NoLostStart says.
THEOREM StartInvariant == Spec => []StartInv
BY StartInit, StartNext, PTL DEF Spec

\* A task asleep in usb_wait_start is never forgotten: CONFIGURED will still
\* wake it, or usbd_mtp_deinit is about to.
THEOREM StartNeverLost == Spec => []NoLostStart
<1>1. StartInv => NoLostStart  BY DEF StartInv
<1>2. QED BY <1>1, StartInvariant, PTL

-----------------------------------------------------------------------------
(* The life of a device. *)

USE DEF Goto, Call, Touch, appVars, busVars, taskVars, Between

-----------------------------------------------------------------------------
(***************************************************************************)
(* Operations.                                                             *)
(***************************************************************************)

\* What the newest task's buffer has is an operation only until it is dispatched;
\* and while a dataset is read, whose operation is still there.
OnceInv ==
  app \notin Between =>
    /\ buf[newest] \in Kinds => owed \/ site[newest] = "dataset"
    /\ pc[newest] = "wait" => site[newest] = "op"

LEMMA OnceTask ==
  ASSUME StartInv, OnceInv, NEW t \in Tasks, TaskStep(t)
  PROVE  OnceInv'
<1>1. TypeOK /\ t = newest /\ app \notin Between
      /\ UNCHANGED <<newest, app>>
  BY StepIsNewest DEF StartInv, TaskStep, WaitStart, Take, Check, Start, Refuse, ReadWake,
                      WriteWake, GotOperation, GotDataset, Exit
<1>2. /\ buf[t] \in Kinds => owed \/ site[t] = "dataset"
      /\ pc[t] = "wait" => site[t] = "op"
  BY <1>1 DEF OnceInv
<1>3. SUFFICES /\ buf'[t] \in Kinds => owed' \/ site'[t] = "dataset"
               /\ pc'[t] = "wait" => site'[t] = "op"
  BY <1>1 DEF OnceInv
<1>4. "other" \notin Kinds  BY DEF Kinds
<1>5. CASE WaitStart(t)  BY <1>1, <1>2, <1>5 DEF WaitStart, TypeOK
<1>6. CASE Take(t) \/ Check(t) \/ ReadWake(t) \/ Exit(t)
  BY <1>1, <1>2, <1>6 DEF Take, Check, ReadWake, Exit, TypeOK
<1>7. CASE Start(t) \/ Refuse(t)
  BY <1>1, <1>2, <1>7 DEF Start, Refuse, AfterCall, TypeOK
<1>8. CASE WriteWake(t)
  <2>1. site[t] # "dataset" /\ pc'[t] = "check" /\ UNCHANGED <<buf, owed>>
    BY <1>1, <1>8 DEF WriteWake, WriteSites, TypeOK
  <2>2. QED BY <1>2, <2>1
<1>9. CASE GotOperation(t)
  <2>1. CASE UNCHANGED <<site, buf, owed>>
    BY <1>1, <1>2, <1>9, <2>1 DEF GotOperation, TypeOK
  <2>2. CASE /\ buf[t] \in Kinds
             /\ Call(t, FirstCall(buf[t])) /\ Goto(t, "check")
             /\ buf' = [buf EXCEPT ![t] = AfterDispatch(buf[t])]
    <3>1. buf'[t] \in Kinds => buf[t] = "dataout"
      BY <1>1, <1>4, <2>2 DEF AfterDispatch, TypeOK
    <3>2. QED BY <1>1, <2>2, <3>1 DEF FirstCall, TypeOK
  <2>3. QED BY <1>9, <2>1, <2>2 DEF GotOperation
<1>10. CASE GotDataset(t)  BY <1>1, <1>4, <1>10 DEF GotDataset, TypeOK
<1>11. QED BY <1>5, <1>6, <1>7, <1>8, <1>9, <1>10 DEF TaskStep

LEMMA OnceOther ==
  ASSUME StartInv, OnceInv,
         HostStep \/ Interrupt \/ AppStart \/ Close \/ AppStop \/ UNCHANGED vars
  PROVE  OnceInv'
<1>1. CASE HostOperation
  BY <1>1 DEF HostOperation, OnceInv
<1>2. CASE HostDataset
  <2>1. UNCHANGED <<newest, app, pc, site, owed>>  BY <1>2 DEF HostDataset
  <2>2. buf' = buf \/ buf' = [buf EXCEPT ![armed] = "other"]
    BY <1>2 DEF HostDataset, BulkOut
  <2>3. "other" \notin Kinds /\ buf \in [Tasks -> Kinds \cup {"other"}]
    BY DEF Kinds, StartInv, TypeOK
  <2>4. app \notin Between => newest \in Tasks  BY DEF StartInv, HandleIsNewest
  <2>5. newest \in Tasks => (buf'[newest] \in Kinds => buf[newest] \in Kinds)
    BY <2>2, <2>3
  <2>6. QED BY <2>1, <2>4, <2>5 DEF OnceInv
<1>3. CASE CreateTask
  <2>1. PICK t \in Tasks : newest' = t /\ Goto(t, "wait") /\ Call(t, "op")
                           /\ buf' = [buf EXCEPT ![t] = "other"]
    BY <1>3 DEF CreateTask
  <2>2. buf'[t] \notin Kinds /\ site'[t] = "op"
    BY <2>1 DEF Kinds, StartInv, TypeOK
  <2>3. QED BY <2>1, <2>2 DEF OnceInv
<1>4. CASE InitStatus  BY <1>4 DEF InitStatus, OnceInv
<1>5. CASE Pause       BY <1>5 DEF Pause, OnceInv
<1>6. CASE \/ HostReceive \/ Interrupt \/ CreateNothing \/ AssignHandle \/ Connect \/ Close
           \/ CloseRunning \/ CloseNotify \/ CloseWaiting \/ CloseOther \/ Deinitialize
           \/ UNCHANGED vars
  <2>1. UNCHANGED <<newest, pc, site, buf, owed>>
        /\ (app' \notin Between => app \notin Between)
    BY <1>6 DEF HostReceive, Interrupt, BulkIn, Reset, Configured, ConfiguredGive,
         Disconnected, CreateNothing, AssignHandle, Connect, Close, CloseRunning,
         CloseNotify, CloseWaiting, CloseOther, Deinitialize, vars
  <2>2. QED BY <2>1 DEF OnceInv
<1>7. QED BY <1>1, <1>2, <1>3, <1>4, <1>5, <1>6 DEF HostStep, AppStart, AppStop

LEMMA OnceAlways == Spec => [](StartInv /\ OnceInv)
<1>1. Init => OnceInv  BY DEF Init, OnceInv
<1>2. StartInv /\ OnceInv /\ [Next]_vars => OnceInv'
  BY OnceTask, OnceOther DEF Next
<1>3. QED BY <1>1, <1>2, StartInvariant, PTL DEF Spec

\* An operation that was received once is dispatched at most once: no notification
\* that the task takes for the end of a read makes it look twice at a container.
THEOREM OperationAtMostOnce == Spec => AtMostOnce
<1> DEFINE Dispatched(t) ==
      pc[t] = "got" /\ site[t] = "op" /\ pc'[t] = "check" /\ site'[t] # "op"
<1>1. ASSUME StartInv, OnceInv, Next, NEW t \in Tasks, Dispatched(t)
      PROVE  owed
  <2>1. TypeOK  BY <1>1 DEF StartInv
  <2>2. TaskStep(t)
    <3>1. CASE \E u \in Tasks : TaskStep(u)
      <4>1. PICK u \in Tasks : TaskStep(u)  BY <3>1
      <4>2. u # t => pc'[t] = pc[t]
        BY <2>1, <4>1 DEF TaskStep, WaitStart, Take, Check, Start, AfterCall, Refuse,
             ReadWake, WriteWake, GotOperation, GotDataset, Exit, TypeOK
      <4>3. QED BY <1>1, <4>1, <4>2
    <3>2. CASE CreateTask
      BY <1>1, <2>1, <3>2 DEF CreateTask, TypeOK
    <3>3. CASE HostStep \/ Interrupt \/ (AppStart /\ ~CreateTask) \/ Close \/ AppStop
      <4>1. UNCHANGED pc
        BY <3>3 DEF HostStep, HostOperation, HostDataset, HostReceive, Interrupt, BulkIn,
             Reset, Configured, ConfiguredGive, Disconnected, AppStart, InitStatus,
             CreateNothing, AssignHandle, Connect, Close, AppStop, CloseRunning, CloseNotify,
             CloseWaiting, CloseOther, Deinitialize, Pause
      <4>2. QED BY <1>1, <4>1
    <3>4. QED BY <1>1, <3>1, <3>2, <3>3 DEF Next
  <2>3. GotOperation(t)
    BY <1>1, <2>2 DEF TaskStep, WaitStart, Take, Check, Start, Refuse, ReadWake, WriteWake,
                      GotDataset, Exit
  <2>4. buf[t] \in Kinds
    BY <1>1, <2>1, <2>3 DEF GotOperation, TypeOK
  <2>5. t = newest /\ app \notin Between  BY <1>1, <2>2, StepIsNewest
  <2>6. QED BY <1>1, <2>4, <2>5 DEF OnceInv
<1>2. StartInv /\ OnceInv /\ [Next]_vars =>
        [\A t \in Tasks : Dispatched(t) => owed]_vars
  BY <1>1
<1>3. QED BY <1>2, OnceAlways, PTL DEF Spec, AtMostOnce

-----------------------------------------------------------------------------
(***************************************************************************)
(* The task while the device is up and was never unplugged.                *)
(***************************************************************************)

\* Without a configuration there is no transfer.
BusIdle ==
  bus # "configured" => armed = NoTask /\ inflight = "none" /\ ~inDone /\ host = "idle"

Reading(t) == pc[t] = "await" /\ site[t] \in ReadSites

\* The task lives, and goes to sleep in usb_wait_start only to be woken by CONFIGURED,
\* which finds it there with nothing left from before.
Awake(t) ==
  /\ pc[t] \notin {"none", "dead", "exit"}
  /\ status # "CLOSE"
  /\ status = "RUN" => bus = "configured"
  /\ isr => status = "RUN"
  /\ isr \/ status = "INIT" => pc[t] = "take" /\ IsZero(note[t])
  /\ pc[t] \in {"wait", "refuse"} => status = "STOPPING"

\* No Give meets the bits of a read or a write.
Bits(t) ==
  /\ note[t].high = 0
  /\ note[t].rd => pc[t] = "take" \/ Reading(t)
  /\ pc[t] = "wait" => ~note[t].wr

\* async_read_len was set by what ended the read: by usb_read when it refused, which
\* the task then leaves the loop for, or by the end of a transfer.
Lengths(t) ==
  /\ rlen[t] # "exit"
  /\ rlen[t] = "stop" /\ site[t] = "op" =>
       /\ pc[t] = "await" /\ note[t].rd => status = "STOPPING"
       /\ pc[t] = "got" => status = "STOPPING" /\ ~note[t].wr
  /\ rlen[t] = "unset" =>
       /\ site[t] = "op" /\ pc[t] # "got"
       /\ pc[t] = "await" => ~note[t].rd
       /\ inflight = "none" /\ ~inDone

\* The OUT endpoint reads only for a task that waits for it; after a reset at most one
\* transfer is started, by a call that had seen RUN; and while the device runs a
\* waiting task has its transfer, or the end of it.
Transfers(t) ==
  /\ armed # NoTask => armed = t /\ Reading(t) /\ ~note[t].rd
  /\ status \in {"STOPPING", "INIT"} =>
       /\ ~inDone
       /\ pc[t] = "start" => inflight = "none" /\ armed = NoTask /\ host = "idle"
       /\ inflight # "none" => host = "idle" /\ armed = NoTask
  /\ status = "RUN" /\ pc[t] = "await" =>
       IF site[t] \in ReadSites THEN armed = t \/ (note[t].rd /\ note[t].pending)
                                ELSE note[t].pending \/ inflight # "none" \/ inDone

Up(t) == Awake(t) /\ Bits(t) /\ Lengths(t) /\ Transfers(t)

Undisturbed == app \in {"assign", "connect", "up"} /\ disconnects = 0

LifeInv == StartInv /\ BusIdle /\ (Undisturbed => Up(newest))

-----------------------------------------------------------------------------
(* The steps of the task. *)

USE DEF Reading

LEMMA BusIdleNext == StartInv /\ BusIdle /\ [Next]_vars => BusIdle'
<1> SUFFICES ASSUME StartInv, BusIdle, [Next]_vars PROVE BusIdle'  OBVIOUS
<1>1. CASE \E t \in Tasks : TaskStep(t)
  BY <1>1 DEF BusIdle, TaskStep, WaitStart, Take, Check, Start, Refuse, ReadWake, WriteWake,
              GotOperation, GotDataset, Exit, busVars
<1>2. CASE HostStep
  BY <1>2 DEF BusIdle, HostStep, HostOperation, HostDataset, HostReceive, OutReady
<1>3. CASE Interrupt
  BY <1>3 DEF BusIdle, Interrupt, BulkIn, Reset, Configured, ConfiguredGive, Disconnected,
              DropTransfers
<1>4. CASE AppStart \/ Close \/ AppStop
  BY <1>4 DEF BusIdle, AppStart, InitStatus, CreateTask, CreateNothing, AssignHandle, Connect,
              Close, AppStop, CloseRunning, CloseNotify, CloseWaiting, CloseOther,
              Deinitialize, Pause, DropTransfers, busVars, StartInv, AppPlaces, Connected
<1>5. CASE UNCHANGED vars  BY <1>5 DEF vars, BusIdle
<1>6. QED BY <1>1, <1>2, <1>3, <1>4, <1>5 DEF Next

LEMMA UpWait ==
  ASSUME TypeOK, NEW t \in Tasks, Up(t), WaitStart(t) \/ Take(t) \/ Check(t)
  PROVE  Up(t)'
<1>1. note[t] \in Notification /\ status \in Statuses  BY DEF TypeOK
<1>2. UNCHANGED <<rlen, isr, bus, armed, inflight, inDone, host>>
  BY DEF WaitStart, Take, Check, busVars
<1>3. CASE WaitStart(t)
  <2>1. /\ pc[t] = "wait" /\ status = "STOPPING" /\ status' = "INIT"
        /\ pc'[t] = "take" /\ site'[t] = "op" /\ note' = note
    BY <1>3 DEF WaitStart, Up, Awake, TypeOK
  <2>2. IsZero(note[t]) /\ ~isr /\ armed = NoTask
    BY <1>1, <2>1 DEF Up, Awake, Bits, Transfers, IsZero
  <2>3. QED BY <1>2, <2>1, <2>2 DEF Up, Awake, Bits, Lengths, Transfers, IsZero
<1>4. CASE Take(t)
  <2>1. /\ pc[t] = "take" /\ ~IsZero(note[t]) /\ pc'[t] = "check" /\ note'[t] = Cleared
        /\ UNCHANGED <<status, site>>
    BY <1>4 DEF Take, TypeOK
  <2>2. ~isr /\ status # "INIT" /\ armed = NoTask
    BY <2>1 DEF Up, Awake, Transfers
  <2>3. QED BY <1>2, <2>1, <2>2 DEF Up, Awake, Bits, Lengths, Transfers, Cleared
<1>5. CASE Check(t)
  <2>1. /\ pc[t] = "check" /\ pc'[t] = IF status = "RUN" THEN "start" ELSE "refuse"
        /\ UNCHANGED <<status, site, note>>
    BY <1>5 DEF Check, TypeOK
  <2>2. ~isr /\ status \in {"RUN", "STOPPING"} /\ armed = NoTask /\ ~note[t].rd
    BY <1>1, <2>1 DEF Up, Awake, Bits, Transfers, Statuses
  <2>3. QED BY <1>2, <2>1, <2>2 DEF Up, Awake, Bits, Lengths, Transfers
<1>6. QED BY <1>3, <1>4, <1>5

LEMMA UpStart ==
  ASSUME TypeOK, NEW t \in Tasks, Up(t), Start(t)
  PROVE  Up(t)'
<1>1. /\ pc[t] = "start" /\ site[t] \in ReadSites \cup WriteSites
      /\ \/ site[t] = "response" /\ pc'[t] = "check" /\ site'[t] = "op"
         \/ site[t] # "response" /\ pc'[t] = "await" /\ site'[t] = site[t]
      /\ UNCHANGED <<status, note, rlen, bus, inDone, isr, host>>
  BY DEF Start, AfterCall, TypeOK
<1>2. /\ armed' = IF bus = "configured" /\ site[t] \in ReadSites THEN t ELSE armed
      /\ inflight' = IF bus = "configured" /\ site[t] \in WriteSites
                     THEN site[t] ELSE inflight
  BY DEF Start
<1>3. ~isr /\ status # "INIT" /\ armed = NoTask /\ ~note[t].rd
  BY <1>1 DEF Up, Awake, Bits, Transfers
<1>4. "response" \notin ReadSites /\ ReadSites \cap WriteSites = {} /\ "op" \in ReadSites
      /\ "none" \notin WriteSites
  BY DEF ReadSites, WriteSites
<1>5. Awake(t)'  BY <1>1, <1>3 DEF Up, Awake
<1>6. Bits(t)'  BY <1>1, <1>3 DEF Up, Bits
<1>7. Lengths(t)'  BY <1>1, <1>2, <1>3, <1>4 DEF Up, Lengths
<1>8. Transfers(t)'
  BY <1>1, <1>2, <1>3, <1>4 DEF Up, Awake, Transfers
<1>9. QED BY <1>5, <1>6, <1>7, <1>8 DEF Up

LEMMA UpRefuse ==
  ASSUME TypeOK, NEW t \in Tasks, Up(t), cur = t, Refuse(t)
  PROVE  Up(t)'
<1>1. /\ pc[t] = "refuse" /\ status = "STOPPING" /\ Live(t)
      /\ site[t] \in ReadSites \cup WriteSites
      /\ \/ site[t] = "response" /\ pc'[t] = "check" /\ site'[t] = "op"
         \/ site[t] # "response" /\ pc'[t] = "await" /\ site'[t] = site[t]
      /\ UNCHANGED <<status, bus, armed, inflight, inDone, isr, host>>
  BY SlotAssumption DEF Refuse, AfterCall, TypeOK, Up, Awake, Live
<1>2. ~isr /\ armed = NoTask /\ ~note[t].rd  BY <1>1 DEF Up, Awake, Bits, Transfers
<1>3. ReadSites \cap WriteSites = {} /\ "op" \in ReadSites /\ "response" \in WriteSites
  BY DEF ReadSites, WriteSites
<1>4. CASE site[t] \in ReadSites
  <2>1. rlen'[t] = "stop" /\ note'[t] = SetReadBit(note[t])
    BY <1>1, <1>4 DEF Refuse, ReadCb, Command, TypeOK
  <2>2. note'[t].rd = TRUE /\ note'[t].high = note[t].high  BY <2>1 DEF SetReadBit
  <2>3. QED BY <1>1, <1>2, <1>3, <1>4, <2>1, <2>2 DEF Up, Awake, Bits, Lengths, Transfers
<1>5. CASE site[t] \in WriteSites
  <2>1. rlen' = rlen /\ note'[t] = SetWriteBit(note[t])
    BY <1>1, <1>3, <1>5 DEF Refuse, WriteCb, TypeOK
  <2>2. note'[t].rd = note[t].rd /\ note'[t].high = note[t].high
    BY <2>1 DEF SetWriteBit
  <2>3. rlen[t] # "unset"  BY <1>3, <1>5 DEF Up, Lengths
  <2>4. QED BY <1>1, <1>2, <1>3, <1>5, <2>1, <2>2, <2>3
            DEF Up, Awake, Bits, Lengths, Transfers
<1>6. QED BY <1>1, <1>4, <1>5

LEMMA UpWake ==
  ASSUME TypeOK, NEW t \in Tasks, Up(t), ReadWake(t) \/ WriteWake(t)
  PROVE  Up(t)'
<1>1. /\ pc[t] = "await" /\ note[t].pending /\ site[t] \in ReadSites \cup WriteSites
      /\ UNCHANGED <<status, rlen, bus, armed, inflight, inDone, isr, host>>
  BY DEF ReadWake, WriteWake, Notified, TypeOK, busVars
<1>2. ~isr /\ status # "INIT"  BY <1>1 DEF Up, Awake
<1>3. ReadSites \cap WriteSites = {} /\ "op" \in ReadSites  BY DEF ReadSites, WriteSites
<1>4. CASE ReadWake(t)
  <2>1. /\ site[t] \in ReadSites /\ site' = site /\ note'[t] = AfterReadWait(note[t])
        /\ pc'[t] = IF note[t].rd THEN "got" ELSE "await"
    BY <1>1, <1>4 DEF ReadWake, TypeOK
  <2>2. ~note'[t].rd /\ ~note'[t].wr /\ note'[t].high = note[t].high
    BY <2>1 DEF AfterReadWait
  <2>3. QED BY <1>1, <1>2, <1>3, <2>1, <2>2 DEF Up, Awake, Bits, Lengths, Transfers
<1>5. CASE WriteWake(t)
  <2>1. /\ site[t] \in WriteSites /\ site'[t] \in WriteSites /\ pc'[t] = "check"
        /\ note'[t] = AfterWriteWait(note[t])
    BY <1>5 DEF WriteWake, TypeOK, WriteSites
  <2>2. note'[t].rd = note[t].rd /\ note'[t].high = note[t].high
    BY <2>1 DEF AfterWriteWait
  <2>3. ~note[t].rd /\ armed = NoTask /\ rlen[t] # "unset"
    BY <1>1, <1>3, <2>1 DEF Up, Bits, Lengths, Transfers
  <2>4. QED BY <1>1, <1>2, <1>3, <2>1, <2>2, <2>3 DEF Up, Awake, Bits, Lengths, Transfers
<1>6. QED BY <1>4, <1>5

LEMMA UpGot ==
  ASSUME TypeOK, NEW t \in Tasks, Up(t), GotOperation(t) \/ GotDataset(t) \/ Exit(t)
  PROVE  Up(t)'
<1>1. /\ pc[t] = "got" /\ UNCHANGED <<status, note, rlen, bus, armed, inflight, inDone, isr,
                                       host>>
  BY DEF GotOperation, GotDataset, Exit, Up, Awake, busVars
<1>2. /\ ~isr /\ status # "INIT" /\ ~note[t].rd /\ armed = NoTask
      /\ rlen[t] \notin {"unset", "exit"}
  BY <1>1 DEF Up, Awake, Bits, Lengths, Transfers
<1>3. \/ pc'[t] = "wait" /\ rlen[t] = "stop" /\ site[t] = "op"
      \/ pc'[t] = "check"
  BY <1>1, <1>2 DEF GotOperation, GotDataset, Exit, TypeOK
<1>4. pc'[t] = "wait" => status = "STOPPING" /\ ~note[t].wr
  BY <1>1, <1>3 DEF Up, Lengths
<1>5. QED BY <1>1, <1>2, <1>3, <1>4 DEF Up, Awake, Bits, Lengths, Transfers

LEMMA UpTask ==
  ASSUME LifeInv, NEW t \in Tasks, TaskStep(t)
  PROVE  Undisturbed' => Up(newest)'
<1>1. TypeOK /\ t = newest  BY StepIsNewest DEF LifeInv, StartInv
<1>2. UNCHANGED <<newest, app, disconnects>>
  BY DEF TaskStep, WaitStart, Take, Check, Start, Refuse, ReadWake, WriteWake, GotOperation,
         GotDataset, Exit, busVars
<1>3. Undisturbed' => Undisturbed  BY <1>2 DEF Undisturbed
<1>4. SUFFICES ASSUME Undisturbed, Up(t) PROVE Up(t)'
  BY <1>1, <1>2, <1>3 DEF LifeInv, Up, Awake, Bits, Lengths, Transfers
<1>5. CASE Refuse(t)
  <2>1. cur = t  BY <1>5, StepIsNewest DEF LifeInv, Refuse
  <2>2. QED BY <1>1, <1>4, <1>5, <2>1, UpRefuse
<1>6. CASE ~Refuse(t)
  BY <1>1, <1>4, <1>6, UpWait, UpStart, UpWake, UpGot DEF TaskStep
<1>7. QED BY <1>5, <1>6

-----------------------------------------------------------------------------
(* The steps of host, interrupt and application. *)

LEMMA UpHost ==
  ASSUME TypeOK, BusIdle, NEW t \in Tasks, Up(t), cur = t, HostStep
  PROVE  Up(t)'
<1>1. UNCHANGED <<status, pc, site, isr, bus>> /\ Live(t)
  BY SlotAssumption DEF HostStep, HostOperation, HostDataset, HostReceive, Up, Awake, Live
<1>2. CASE HostReceive
  <2>1. /\ host = "listen" /\ inflight # "none" /\ inflight' = "none" /\ inDone' = TRUE
        /\ UNCHANGED <<note, rlen, armed>>
    BY <1>2 DEF HostReceive
  <2>2. status \notin {"STOPPING", "INIT"} /\ rlen[t] # "unset"
    BY <2>1 DEF Up, Lengths, Transfers
  <2>3. QED BY <1>1, <2>1, <2>2 DEF Up, Awake, Bits, Lengths, Transfers
<1>3. CASE HostOperation \/ HostDataset
  <2>1. /\ armed # NoTask /\ armed' = NoTask /\ rlen'[t] = "len"
        /\ note'[t] = SetReadBit(note[t]) /\ UNCHANGED <<inflight, inDone>>
    BY <1>1, <1>3 DEF HostOperation, HostDataset, OutReady, BulkOut, TypeOK
  <2>2. note'[t].rd = TRUE /\ note'[t].pending = TRUE /\ note'[t].high = note[t].high
    BY <2>1 DEF SetReadBit
  <2>3. Reading(t) /\ ~isr /\ status # "INIT"
    BY <2>1 DEF Up, Awake, Transfers
  <2>4. QED BY <1>1, <2>1, <2>2, <2>3 DEF Up, Awake, Bits, Lengths, Transfers
<1>4. QED BY <1>2, <1>3 DEF HostStep

LEMMA UpInterrupt ==
  ASSUME TypeOK, BusIdle, NEW t \in Tasks, Up(t), cur = t, Interrupt, ~Disconnected
  PROVE  Up(t)'
<1>1. UNCHANGED <<pc, site, rlen>> /\ Live(t) /\ note[t] \in Notification
      /\ status \in Statuses
  BY SlotAssumption DEF Interrupt, BulkIn, Reset, Configured, ConfiguredGive, Up, Awake, Live,
                        TypeOK
<1>2. CASE BulkIn
  <2>1. /\ inDone /\ inDone' = FALSE /\ ~isr /\ note'[t] = SetWriteBit(note[t])
        /\ UNCHANGED <<status, isr, bus, armed, inflight, host>>
    BY <1>1, <1>2 DEF BulkIn, WriteCb, Idle, TypeOK
  <2>2. note'[t].rd = note[t].rd /\ note'[t].pending = TRUE /\ note'[t].high = note[t].high
    BY <2>1 DEF SetWriteBit
  <2>3. status = "RUN" /\ rlen[t] # "unset"
    BY <1>1, <2>1 DEF Up, Awake, Lengths, Transfers, Statuses
  <2>4. QED BY <1>1, <2>1, <2>2, <2>3 DEF Up, Awake, Bits, Lengths, Transfers
<1>3. CASE Reset
  <2>1. /\ ~isr /\ ~inDone /\ armed' = NoTask /\ inflight' = "none" /\ host' = "idle"
        /\ status' = IF status = "INIT" THEN "INIT" ELSE "STOPPING"
        /\ UNCHANGED <<note, inDone, isr>>
    BY <1>1, <1>3 DEF Reset, Idle, DropTransfers, Up, Awake
  <2>2. QED BY <1>1, <2>1 DEF Up, Awake, Bits, Lengths, Transfers
<1>4. CASE Configured
  <2>1. /\ ~isr /\ bus = "attached" /\ bus' = "configured"
        /\ UNCHANGED <<note, armed, inflight, inDone, host>>
    BY <1>4 DEF Configured, Idle
  <2>2. status \in {"STOPPING", "INIT"}  BY <1>1, <2>1 DEF Up, Awake, Statuses
  <2>3. CASE status = "INIT"
    <3>1. status' = "RUN" /\ isr' = TRUE  BY <1>4, <2>3 DEF Configured, NeedWake
    <3>2. QED BY <1>1, <2>1, <2>3, <3>1 DEF Up, Awake, Bits, Lengths, Transfers
  <2>4. CASE status = "STOPPING"
    <3>1. UNCHANGED <<status, isr>>  BY <1>4, <2>4 DEF Configured, NeedWake
    <3>2. QED BY <1>1, <2>1, <2>4, <3>1 DEF Up, Awake, Bits, Lengths, Transfers
  <2>5. QED BY <2>2, <2>3, <2>4
<1>5. CASE ConfiguredGive
  <2>1. /\ isr /\ isr' = FALSE /\ note'[t] = Give(note[t])
        /\ UNCHANGED <<status, bus, armed, inflight, inDone, host>>
    BY <1>1, <1>5 DEF ConfiguredGive, GiveTask, TypeOK
  <2>2. pc[t] = "take" /\ IsZero(note[t]) /\ status = "RUN"  BY <2>1 DEF Up, Awake
  <2>3. note'[t].high = note[t].high  BY <2>1, <2>2 DEF Give, IsZero
  <2>4. QED BY <1>1, <2>1, <2>2, <2>3 DEF Up, Awake, Bits, Lengths, Transfers
<1>6. QED BY <1>2, <1>3, <1>4, <1>5 DEF Interrupt

LEMMA UpOther ==
  ASSUME LifeInv, HostStep \/ Interrupt
  PROVE  Undisturbed' => Up(newest)'
<1>1. /\ TypeOK /\ BusIdle /\ UNCHANGED <<newest, app>> /\ disconnects \in Nat
      /\ ~Disconnected => disconnects' = disconnects
      /\ Disconnected => disconnects' = disconnects + 1
  BY DEF LifeInv, StartInv, TypeOK, HostStep, HostOperation, HostDataset, HostReceive,
         Interrupt, BulkIn, Reset, Configured, ConfiguredGive, Disconnected
<1>2. app \in Connected
  BY DEF LifeInv, StartInv, AppPlaces, Interrupt, HostStep, HostOperation, HostDataset,
         HostReceive, BulkIn, Reset, Configured, ConfiguredGive, Disconnected, OutReady, Idle
<1>3. newest \in Tasks /\ cur = newest
  BY <1>2 DEF LifeInv, StartInv, HandleIsNewest, Connected
<1>4. SUFFICES ASSUME Undisturbed' PROVE Up(newest)'  OBVIOUS
<1>5. ~Disconnected /\ Up(newest)  BY <1>1, <1>4 DEF LifeInv, Undisturbed
<1>6. PICK t \in Tasks : t = newest  BY <1>3
<1>7. cur = t /\ Up(t)
  BY <1>3, <1>5, <1>6 DEF Up, Awake, Bits, Lengths, Transfers
<1>8. Up(t)'
  <2>1. CASE HostStep  BY <1>1, <1>7, <2>1, UpHost
  <2>2. CASE Interrupt  BY <1>1, <1>5, <1>7, <2>2, UpInterrupt
  <2>3. QED BY <2>1, <2>2
<1>9. QED BY <1>1, <1>6, <1>8 DEF Up, Awake, Bits, Lengths, Transfers

LEMMA UpApp ==
  ASSUME LifeInv, AppStart \/ Close \/ AppStop
  PROVE  Undisturbed' => Up(newest)'
<1>1. TypeOK  BY DEF LifeInv, StartInv
<1>2. CASE CreateTask
  <2>1. PICK t \in Tasks :
          /\ newest' = t /\ Goto(t, "wait") /\ Call(t, "op")
          /\ note' = [note EXCEPT ![t] = Cleared] /\ rlen' = [rlen EXCEPT ![t] = "unset"]
    BY <1>2 DEF CreateTask
  <2>2. /\ pc'[t] = "wait" /\ site'[t] = "op" /\ note'[t] = Cleared /\ rlen'[t] = "unset"
        /\ UNCHANGED <<status, bus, armed, inflight, inDone, isr, host>>
    BY <1>1, <1>2, <2>1 DEF CreateTask, TypeOK, busVars
  <2>3. status = "STOPPING" /\ ~isr /\ armed = NoTask /\ inflight = "none" /\ ~inDone
    BY <1>2 DEF CreateTask, LifeInv, StartInv, AppPlaces, Connected, BusIdle
  <2>4. Up(t)'  BY <2>2, <2>3 DEF Up, Awake, Bits, Lengths, Transfers, Cleared
  <2>5. QED BY <2>1, <2>4 DEF Up, Awake, Bits, Lengths, Transfers
<1>3. CASE AssignHandle \/ Connect
  <2>1. /\ UNCHANGED <<status, newest, pc, site, note, rlen, armed, inflight, inDone, isr,
                        host, disconnects>>
        /\ app \in {"assign", "connect"} /\ status \in {"STOPPING", "INIT"}
    BY <1>3 DEF AssignHandle, Connect, busVars, LifeInv, StartInv, HandleIsNewest
  <2>2. Undisturbed' => Up(newest)  BY <2>1 DEF LifeInv, Undisturbed
  <2>3. QED BY <2>1, <2>2 DEF Up, Awake, Bits, Lengths, Transfers
<1>4. CASE InitStatus \/ CreateNothing \/ Close \/ AppStop
  BY <1>4 DEF Undisturbed, InitStatus, CreateNothing, Close, AppStop, CloseRunning,
              CloseNotify, CloseWaiting, CloseOther, Deinitialize, Pause
<1>5. QED BY <1>2, <1>3, <1>4 DEF AppStart

LEMMA LifeNext == LifeInv /\ [Next]_vars => LifeInv'
<1> SUFFICES ASSUME LifeInv, [Next]_vars PROVE LifeInv'  OBVIOUS
<1>1. StartInv' /\ BusIdle'  BY StartNext, BusIdleNext DEF LifeInv
<1>2. CASE UNCHANGED vars
  <2>1. Undisturbed' => Up(newest)'
    BY <1>2 DEF LifeInv, vars, Undisturbed, Up, Awake, Bits, Lengths, Transfers
  <2>2. QED BY <1>1, <2>1 DEF LifeInv
<1>3. CASE Next
  <2>1. Undisturbed' => Up(newest)'  BY <1>3, UpTask, UpOther, UpApp DEF Next
  <2>2. QED BY <1>1, <2>1 DEF LifeInv
<1>4. QED BY <1>2, <1>3

LEMMA LifeInit == Init => LifeInv
<1>1. Init => BusIdle /\ ~Undisturbed  BY DEF Init, BusIdle, Undisturbed
<1>2. QED BY <1>1, StartInit DEF LifeInv

\* The induction invariant holds in every state.
THEOREM LifeInvariant == Spec => []LifeInv
BY LifeInit, LifeNext, PTL DEF Spec

\* The responder task ends only when the application stops the device, however often
\* the host resets it: usb_read never leaves the task with a length of 0, nor with one
\* that was never stored.
THEOREM TaskOutlivesResets == Spec => []LiveWhileUp
<1>1. ASSUME LifeInv  PROVE LiveWhileUp
  <2>1. SUFFICES ASSUME app = "up", disconnects = 0 PROVE Live(cur) /\ pc[cur] # "exit"
    BY DEF LiveWhileUp
  <2>2. cur = newest /\ newest \in Tasks
    BY <1>1, <2>1 DEF LifeInv, StartInv, HandleIsNewest, Connected
  <2>3. pc[newest] \notin {"none", "dead", "exit"}
    BY <1>1, <2>1 DEF LifeInv, Undisturbed, Up, Awake
  <2>4. QED BY <2>2, <2>3, SlotAssumption DEF Live
<1>2. QED BY <1>1, LifeInvariant, PTL

\* A device that runs never has its task asleep in a read or a write for which no
\* transfer is under way, also when the callback of a response comes late and is
\* taken for the end of another write.
THEOREM NoWaitIsStuck == Spec => []NoStuckWait
<1>1. ASSUME LifeInv  PROVE NoStuckWait
  <2>1. SUFFICES ASSUME status = "RUN", app = "up", disconnects = 0, pc[cur] = "await",
                        ~note[cur].pending
                 PROVE  IF site[cur] \in ReadSites THEN armed = cur
                        ELSE inflight # "none" \/ inDone
    BY DEF NoStuckWait
  <2>2. cur = newest  BY <1>1, <2>1 DEF LifeInv, StartInv, HandleIsNewest, Connected
  <2>3. QED BY <1>1, <2>1, <2>2 DEF LifeInv, Undisturbed, Up, Transfers
<1>2. QED BY <1>1, LifeInvariant, PTL

-----------------------------------------------------------------------------
(***************************************************************************)
(* Freed memory.                                                           *)
(***************************************************************************)

\* While the device is up and was not unplugged, the handle the interrupt uses and the
\* buffer the OUT endpoint reads into are those of the living task.
LEMMA UsedIsLive ==
  ASSUME LifeInv, app = "up", disconnects = 0
  PROVE  Live(cur) /\ (armed # NoTask => Live(armed))
<1>1. cur = newest /\ newest \in Tasks
  BY DEF LifeInv, StartInv, HandleIsNewest, Connected
<1>2. pc[newest] \notin {"none", "dead"} /\ (armed # NoTask => armed = newest)
  BY DEF LifeInv, Undisturbed, Up, Awake, Transfers
<1>3. QED BY <1>1, <1>2, SlotAssumption DEF Live

LEMMA FreedNext == LifeInv /\ FreedOnlyInStop /\ [Next]_vars => FreedOnlyInStop'
<1> DEFINE Stopping == app \in {"closing", "notify", "stopped"}
<1> SUFFICES ASSUME LifeInv, FreedOnlyInStop, [Next]_vars, stray'
             PROVE  Stopping' \/ disconnects' > 0
  BY DEF FreedOnlyInStop
<1>1. disconnects \in Nat  BY DEF LifeInv, StartInv, TypeOK
<1>2. CASE UNCHANGED vars  BY <1>2 DEF vars, FreedOnlyInStop
<1>3. CASE Next
  <2>1. ~stray  BY <1>3 DEF Next
  <2>2. CASE \E t \in Tasks : TaskStep(t)
    <3>1. PICK t \in Tasks : TaskStep(t)  BY <2>2
    <3>2. Refuse(t) /\ ~Live(cur)
      BY <2>1, <3>1 DEF TaskStep, WaitStart, Take, Check, Start, Refuse, ReadCb, WriteCb,
           ReadWake, WriteWake, GotOperation, GotDataset, Exit
    <3>3. pc[t] = "refuse" /\ cur = t
      BY <3>1, <3>2, StepIsNewest DEF LifeInv, Refuse
    <3>4. QED BY <3>2, <3>3, SlotAssumption DEF Live
  <2>3. CASE HostStep \/ Interrupt
    <3>1. app \in Connected
      BY <2>3 DEF LifeInv, StartInv, AppPlaces, Interrupt, HostStep, HostOperation,
           HostDataset, HostReceive, BulkIn, Reset, Configured, ConfiguredGive,
           Disconnected, OutReady, Idle
    <3>2. app' = app /\ (disconnects' = disconnects \/ disconnects' = disconnects + 1)
      BY <2>3 DEF Interrupt, HostStep, HostOperation, HostDataset, HostReceive, BulkIn,
           Reset, Configured, ConfiguredGive, Disconnected
    <3>3. Disconnected => disconnects' = disconnects + 1  BY DEF Disconnected
    <3>4. ~Disconnected => ~Live(cur) \/ (armed # NoTask /\ ~Live(armed))
      BY <2>1, <2>3 DEF Interrupt, HostStep, HostOperation, HostDataset, HostReceive,
           OutReady, BulkOut, BulkIn, WriteCb, Reset, Configured, ConfiguredGive, GiveTask
    <3>5. ~Disconnected => app # "up" \/ disconnects # 0  BY <3>4, UsedIsLive
    <3>6. QED BY <1>1, <3>1, <3>2, <3>3, <3>5 DEF Connected
  <2>4. CASE AppStart \/ Close
    <3>1. UNCHANGED stray
      BY <2>4 DEF AppStart, InitStatus, CreateTask, CreateNothing, AssignHandle, Connect,
           Close
    <3>2. QED BY <2>1, <3>1
  <2>5. CASE AppStop
    BY <2>1, <2>5 DEF AppStop, CloseRunning, CloseNotify, CloseWaiting, CloseOther,
         Deinitialize, Pause
  <2>6. QED BY <1>3, <2>2, <2>3, <2>4, <2>5 DEF Next
<1>4. QED BY <1>2, <1>3

\* While the device runs and is not unplugged, neither interrupt nor application uses a
\* handle or a buffer that the task has freed: that happens only between usbd_mtp_deinit,
\* after which the task frees them in its own time, and the end of usbd_deinitialize.
THEOREM FreedOnlyInStopAlways == Spec => []FreedOnlyInStop
<1>1. Init => FreedOnlyInStop  BY DEF Init, FreedOnlyInStop
<1>2. QED BY <1>1, FreedNext, LifeInvariant, PTL DEF Spec
=============================================================================
