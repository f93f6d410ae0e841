------------------------------- MODULE UsbMtp -------------------------------
(***************************************************************************)
(* The MTP device's USB glue (usb_mtp.c) with the responder task it drives *)
(* (esp_mtp.c, esp_mtp_task) and the example that starts and stops both    *)
(* (device_mtp_main.c, app_main).                                          *)
(*                                                                         *)
(* Four kinds of actors interleave here: the responder task, which runs    *)
(* wait_start, read and write; the USB interrupt, which runs the endpoint  *)
(* callbacks and mtp_notify_handler; app_main, which initialises and       *)
(* de-initialises the device in a loop; and the host.  They share          *)
(* s_mtp_status, s_handle (with s_mtp_task_handle, which always names the  *)
(* same task), the task's notification value and async_read_len.           *)
(*                                                                         *)
(* An operation is reduced to its transfer phases: no data, data to the    *)
(* host (a data transfer, perhaps a zero-length one, a response), or data  *)
(* from the host (a dataset is read, then a response is sent).  What the   *)
(* operations do with files is left to other modules.                      *)
(***************************************************************************)
EXTENDS TaskNotify, FiniteSets

CONSTANTS
  Tasks,          \* heap slots for a handle and its task; a freed one is reused
  NoTask,
  MaxDisconnects  \* bound on USBD_EVENT_DISCONNECTED

ASSUME SlotAssumption == NoTask \notin Tasks
ASSUME BoundAssumption == MaxDisconnects \in Nat

VARIABLES
  status,      \* s_mtp_status
  cur,         \* s_handle and s_mtp_task_handle
  newest,      \* the handle esp_mtp_init has made, before it is assigned
  pc, site,    \* of each task: where it is, and in which call of read or write
  note,        \* of each task: its notification
  rlen,        \* of each handle: async_read_len
  buf,         \* of each handle: what the container in buff is
  app, was,    \* app_main: where it is; the status usbd_mtp_deinit saved
  bus,         \* the device controller
  armed,       \* the handle whose buffer the OUT endpoint reads into
  inflight,    \* the transfer the IN endpoint is sending
  inDone,      \* an IN transfer ended and its callback has not run
  isr,         \* mtp_notify_handler still owes its task a Give
  host,        \* the host's phase of the transaction
  disconnects, \* USBD_EVENT_DISCONNECTED so far
  owed,        \* ghost: an operation was received and not dispatched
  stray        \* ghost: a freed handle or buffer was used

taskVars == <<pc, site, note, rlen, buf>>
appVars  == <<cur, newest, app, was>>
busVars  == <<bus, armed, inflight, inDone, isr, host, disconnects>>
vars == <<status, cur, newest, pc, site, note, rlen, buf, app, was, bus, armed,
          inflight, inDone, isr, host, disconnects, owed, stray>>

Kinds == {"nodata", "datain", "dataout"}
ReadSites == {"op", "dataset"}
WriteSites == {"data", "zlp", "response"}
Statuses == {"CLOSE", "INIT", "RUN", "STOPPING"}

PCs == {"none", "wait", "take", "check", "start", "refuse", "await", "got",
        "exit", "dead"}
AppPCs == {"off", "create", "crashed", "assign", "connect", "up", "closing", "notify",
           "stopped", "pause"}

TypeOK ==
  /\ status \in Statuses
  /\ cur \in Tasks \cup {NoTask}
  /\ newest \in Tasks \cup {NoTask}
  /\ pc \in [Tasks -> PCs]
  /\ site \in [Tasks -> ReadSites \cup WriteSites]
  /\ note \in [Tasks -> Notification]
  /\ rlen \in [Tasks -> {"len", "stop", "exit", "unset"}]
  /\ buf \in [Tasks -> Kinds \cup {"other"}]
  /\ app \in AppPCs
  /\ was \in Statuses
  /\ bus \in {"off", "detached", "attached", "configured"}
  /\ armed \in Tasks \cup {NoTask}
  /\ inflight \in WriteSites \cup {"none"}
  /\ inDone \in BOOLEAN
  /\ isr \in BOOLEAN
  /\ host \in {"idle", "send", "listen"}
  /\ disconnects \in Nat
  /\ owed \in BOOLEAN
  /\ stray \in BOOLEAN

Init ==
  /\ status = "CLOSE" /\ cur = NoTask /\ newest = NoTask
  /\ pc = [t \in Tasks |-> "none"]
  /\ site = [t \in Tasks |-> "op"]
  /\ note = [t \in Tasks |-> Cleared]
  /\ rlen = [t \in Tasks |-> "unset"]
  /\ buf = [t \in Tasks |-> "other"]
  /\ app = "off" /\ was = "CLOSE"
  /\ bus = "off" /\ armed = NoTask /\ inflight = "none"
  /\ inDone = FALSE /\ isr = FALSE /\ host = "idle" /\ disconnects = 0
  /\ owed = FALSE /\ stray = FALSE

Live(t) == t # NoTask /\ pc[t] \notin {"none", "dead"}

\* The task waits for a notification.
Blocked(t) == \/ pc[t] = "take" /\ IsZero(note[t])
              \/ pc[t] = "await" /\ ~note[t].pending

Runnable(t) == Live(t) /\ ~Blocked(t)

(***************************************************************************)
(* What esp_mtp_read_async_cb and esp_mtp_write_async_cb do to s_handle,   *)
(* and a Give to s_mtp_task_handle.  Each uses freed memory when the       *)
(* handle's task has ended: what follows is undefined, so nothing follows  *)
(* the step that sets the ghost.                                           *)
(***************************************************************************)
Touch == stray' = (stray \/ ~Live(cur))

ReadCb(len) ==
  /\ Touch
  /\ rlen' = IF Live(cur) THEN [rlen EXCEPT ![cur] = len] ELSE rlen
  /\ note' = IF Live(cur) THEN [note EXCEPT ![cur] = SetReadBit(@)] ELSE note

WriteCb ==
  /\ Touch
  /\ note' = IF Live(cur) THEN [note EXCEPT ![cur] = SetWriteBit(@)] ELSE note

GiveTask ==
  /\ Touch
  /\ note' = IF Live(cur) THEN [note EXCEPT ![cur] = Give(@)] ELSE note

Goto(t, label) == pc' = [pc EXCEPT ![t] = label]
Call(t, where) == site' = [site EXCEPT ![t] = where]

-----------------------------------------------------------------------------
(* The responder task. *)

\* usb_wait_start, up to the blocking call.
WaitStart(t) ==
  /\ pc[t] = "wait"
  /\ IF status = "STOPPING"
     THEN status' = "INIT" /\ Goto(t, "take")
     ELSE Goto(t, "check") /\ UNCHANGED status
  /\ Call(t, "op")
  /\ UNCHANGED <<note, rlen, buf, appVars, busVars, owed, stray>>

\* ulTaskNotifyTake(pdTRUE, portMAX_DELAY) returns.
Take(t) ==
  /\ pc[t] = "take" /\ ~IsZero(note[t])
  /\ note' = [note EXCEPT ![t] = Cleared]
  /\ Goto(t, "check")
  /\ UNCHANGED <<status, site, rlen, buf, appVars, busVars, owed, stray>>

\* usb_read and usb_write: the first, unlocked look at s_mtp_status.
Check(t) ==
  /\ pc[t] = "check"
  /\ Goto(t, IF status = "RUN" THEN "start" ELSE "refuse")
  /\ UNCHANGED <<status, site, note, rlen, buf, appVars, busVars, owed, stray>>

\* A response is not waited for: the task goes on to read an operation.
AfterCall(t) ==
  IF site[t] = "response"
  THEN Goto(t, "check") /\ Call(t, "op")
  ELSE Goto(t, "await") /\ UNCHANGED site

\* usbd_ep_start_read, or usbd_ep_start_write.  On an endpoint that is not
\* open it returns an error, which nobody reads.
Start(t) ==
  /\ pc[t] = "start"
  /\ AfterCall(t)
  /\ armed' = IF bus = "configured" /\ site[t] \in ReadSites THEN t ELSE armed
  /\ inflight' = IF bus = "configured" /\ site[t] \in WriteSites
                 THEN site[t] ELSE inflight
  /\ UNCHANGED <<status, note, rlen, buf, appVars, bus, inDone, isr, host,
                 disconnects, owed, stray>>

\* Mutated forms: the status is passed itself; a bus reset is taken for the end.
CommandIsStatus == status
CommandAfterReset == IF status = "INIT" THEN "stop" ELSE "exit"
Command == IF status = "CLOSE" THEN "exit" ELSE "stop"

\* The second look at s_mtp_status decides the length, and the callback of
\* s_handle is called in place of the transfer.
Refuse(t) ==
  /\ pc[t] = "refuse"
  /\ AfterCall(t)
  /\ IF site[t] \in ReadSites THEN ReadCb(Command) ELSE WriteCb /\ UNCHANGED rlen
  /\ UNCHANGED <<status, buf, appVars, busVars, owed>>

\* xTaskNotifyWait after a read: again until the read bit was set.
ReadWake(t) ==
  /\ pc[t] = "await" /\ site[t] \in ReadSites /\ note[t].pending
  /\ note' = [note EXCEPT ![t] = AfterReadWait(@)]
  /\ IF note[t].rd THEN Goto(t, "got") ELSE UNCHANGED pc
  /\ UNCHANGED <<status, site, rlen, buf, appVars, busVars, owed, stray>>

\* Mutated form: the task does not wait.
NotifiedOrNot(t) == TRUE
Notified(t) == note[t].pending

\* xTaskNotifyWait after a write: any notification ends it.
\* check_usb_len_mps_and_send_end adds a zero-length transfer for some lengths.
WriteWake(t) ==
  /\ pc[t] = "await" /\ site[t] \in WriteSites /\ Notified(t)
  /\ note' = [note EXCEPT ![t] = AfterWriteWait(@)]
  /\ \E next \in IF site[t] = "data" THEN {"zlp", "response"} ELSE {"response"} :
       Call(t, next)
  /\ Goto(t, "check")
  /\ UNCHANGED <<status, rlen, buf, appVars, busVars, owed, stray>>

\* Mutated form: the dataset is not read before the response.
FirstCallNoDataset(kind) == IF kind = "datain" THEN "data" ELSE "response"

\* The first transfer of an operation, by its kind.
FirstCall(kind) ==
  IF kind = "nodata" THEN "response" ELSE IF kind = "datain" THEN "data" ELSE "dataset"

\* The operation overwrites the container's type, unless it reads a dataset
\* first.  Mutated form: the type is left alone.
KeepsOperation(kind) == kind
AfterDispatch(kind) == IF kind = "dataout" THEN kind ELSE "other"

\* esp_mtp_task looks at the length: an uninitialised async_read_len is any
\* of the three cases, and equal to container->len in none of them.
GotOperation(t) ==
  /\ pc[t] = "got" /\ site[t] = "op"
  /\ \/ /\ rlen[t] \in {"exit", "unset"}
        /\ Goto(t, "exit")
        /\ UNCHANGED <<site, buf, owed>>
     \/ /\ rlen[t] \in {"stop", "unset"}
        /\ Goto(t, "wait")
        /\ UNCHANGED <<site, buf, owed>>
     \/ /\ rlen[t] = "unset" \/ (rlen[t] = "len" /\ buf[t] \notin Kinds)
        /\ Goto(t, "check")
        /\ UNCHANGED <<site, buf, owed>>
     \/ /\ rlen[t] = "len" /\ buf[t] \in Kinds
        /\ Goto(t, "check") /\ Call(t, FirstCall(buf[t]))
        /\ buf' = [buf EXCEPT ![t] = AfterDispatch(@)]
        /\ owed' = FALSE
  /\ UNCHANGED <<status, note, rlen, appVars, busVars, stray>>

\* send_object_info and send_object do not look at the length.
GotDataset(t) ==
  /\ pc[t] = "got" /\ site[t] = "dataset"
  /\ Call(t, "response") /\ Goto(t, "check")
  /\ buf' = [buf EXCEPT ![t] = "other"]
  /\ UNCHANGED <<status, note, rlen, appVars, busVars, owed, stray>>

\* free(handle) and vTaskDelete(NULL).
Exit(t) ==
  /\ pc[t] = "exit"
  /\ Goto(t, "dead")
  /\ UNCHANGED <<status, site, note, rlen, buf, appVars, busVars, owed, stray>>

TaskStep(t) ==
  \/ WaitStart(t) \/ Take(t) \/ Check(t) \/ Start(t) \/ Refuse(t)
  \/ ReadWake(t) \/ WriteWake(t) \/ GotOperation(t) \/ GotDataset(t) \/ Exit(t)

-----------------------------------------------------------------------------
(* The USB interrupt and the host behind it. *)

\* The interrupt is free to start a handler.
Idle == bus # "off" /\ ~isr

\* An OUT transfer ended: usbd_mtp_bulk_out.
BulkOut(content) ==
  /\ armed' = NoTask
  /\ buf' = IF Live(armed) THEN [buf EXCEPT ![armed] = content] ELSE buf
  /\ rlen' = IF Live(cur) THEN [rlen EXCEPT ![cur] = "len"] ELSE rlen
  /\ note' = IF Live(cur) THEN [note EXCEPT ![cur] = SetReadBit(@)] ELSE note
  /\ stray' = (stray \/ ~Live(armed) \/ ~Live(cur))

\* The callback of the IN transfer before may still be due.
OutReady == Idle /\ bus = "configured" /\ armed # NoTask

HostOperation ==
  /\ OutReady /\ host = "idle"
  /\ \E kind \in Kinds :
       /\ BulkOut(kind)
       /\ host' = IF kind = "dataout" THEN "send" ELSE "listen"
  /\ owed' = TRUE
  /\ UNCHANGED <<status, appVars, pc, site, bus, inflight, inDone, isr, disconnects>>

HostDataset ==
  /\ OutReady /\ host = "send"
  /\ BulkOut("other") /\ host' = "listen"
  /\ UNCHANGED <<status, appVars, pc, site, bus, inflight, inDone, isr,
                 disconnects, owed>>

\* The host takes the IN transfer; its callback has still to run.
HostReceive ==
  /\ Idle /\ bus = "configured" /\ host = "listen"
  /\ inflight # "none" /\ ~inDone
  /\ host' = IF inflight = "response" THEN "idle" ELSE "listen"
  /\ inflight' = "none" /\ inDone' = TRUE
  /\ UNCHANGED <<status, appVars, taskVars, bus, armed, isr, disconnects, owed, stray>>

\* Mutated form: the task is not notified.
BulkInSilent ==
  /\ Idle /\ inDone
  /\ inDone' = FALSE
  /\ UNCHANGED <<status, appVars, taskVars, bus, armed, inflight, isr, host,
                 disconnects, owed, stray>>

\* usbd_mtp_bulk_in.
BulkIn ==
  /\ Idle /\ inDone
  /\ inDone' = FALSE
  /\ WriteCb
  /\ UNCHANGED <<status, appVars, pc, site, rlen, buf, bus, armed, inflight,
                 isr, host, disconnects, owed>>

\* The controller drops its transfers and closes the endpoints.
DropTransfers == armed' = NoTask /\ inflight' = "none" /\ host' = "idle"

\* USBD_EVENT_RESET: when the device is plugged in, or at the host's will.
Reset ==
  /\ Idle /\ ~inDone
  /\ bus' = "attached" /\ DropTransfers
  /\ status' = IF status \notin {"CLOSE", "INIT"} THEN "STOPPING" ELSE status
  /\ UNCHANGED <<appVars, taskVars, inDone, isr, disconnects, owed, stray>>

\* need_wake.  Mutated forms: nobody is woken; RUN is set after a bus reset too.
NeverWake == isr' = FALSE /\ status' = IF status = "INIT" THEN "RUN" ELSE status
WakeFromStopping ==
  IF status \in {"INIT", "STOPPING"} THEN status' = "RUN" /\ isr' = TRUE
                                     ELSE UNCHANGED <<status, isr>>
NeedWake ==
  IF status = "INIT" THEN status' = "RUN" /\ isr' = TRUE
                     ELSE UNCHANGED <<status, isr>>

\* USBD_EVENT_CONFIGURED, up to the end of the critical section.
Configured ==
  /\ Idle /\ bus = "attached"
  /\ bus' = "configured"
  /\ NeedWake
  /\ UNCHANGED <<appVars, taskVars, armed, inflight, inDone, host, disconnects,
                 owed, stray>>

\* need_wake: vTaskNotifyGiveFromISR.
ConfiguredGive ==
  /\ isr /\ isr' = FALSE
  /\ GiveTask
  /\ UNCHANGED <<status, appVars, pc, site, rlen, buf, bus, armed, inflight,
                 inDone, host, disconnects, owed>>

\* USBD_EVENT_DISCONNECTED.
Disconnected ==
  /\ Idle /\ ~inDone /\ bus \in {"attached", "configured"}
  /\ disconnects < MaxDisconnects
  /\ disconnects' = disconnects + 1
  /\ bus' = "detached" /\ DropTransfers
  /\ GiveTask
  /\ UNCHANGED <<status, appVars, pc, site, rlen, buf, inDone, isr, owed>>

-----------------------------------------------------------------------------
(* app_main: usbd_mtp_init_intf, usbd_initialize, and the stop and restart. *)

InitStatus ==
  /\ app = "off" /\ app' = "create"
  /\ status' = "STOPPING"
  /\ UNCHANGED <<cur, newest, was, taskVars, busVars, owed, stray>>

\* esp_mtp_init: the handle comes from malloc, and the task may run before
\* esp_mtp_init returns.
CreateTask ==
  /\ app = "create" /\ app' = "assign"
  /\ \E t \in Tasks :
       /\ ~Live(t)
       /\ newest' = t
       /\ Goto(t, "wait") /\ Call(t, "op")
       /\ note' = [note EXCEPT ![t] = Cleared]
       /\ rlen' = [rlen EXCEPT ![t] = "unset"]
       /\ buf' = [buf EXCEPT ![t] = "other"]
  /\ owed' = FALSE
  /\ UNCHANGED <<status, cur, was, busVars, stray>>

\* malloc or xTaskCreate fails: usbd_mtp_init_intf looks up the task of no handle, and
\* nothing comes after that.
CreateNothing ==
  /\ app = "create" /\ app' = "crashed"
  /\ UNCHANGED <<status, cur, newest, was, taskVars, busVars, owed, stray>>

\* Mutated form: s_handle is not assigned anew.
AssignNothing ==
  /\ app = "assign" /\ app' = "connect"
  /\ UNCHANGED <<status, cur, newest, was, taskVars, busVars, owed, stray>>

AssignHandle ==
  /\ app = "assign" /\ app' = "connect"
  /\ cur' = newest
  /\ UNCHANGED <<status, newest, was, taskVars, busVars, owed, stray>>

\* usbd_initialize.
Connect ==
  /\ app = "connect" /\ app' = "up"
  /\ bus' = "detached"
  /\ UNCHANGED <<status, cur, newest, was, taskVars, armed, inflight, inDone,
                 isr, host, disconnects, owed, stray>>

\* Mutated form: the status is saved after it was overwritten.
StatusAfter == "CLOSE"
StatusBefore == status

\* usbd_mtp_deinit, the critical section; app_main waits for nothing but the time.
Close ==
  /\ app = "up" /\ app' = "closing"
  /\ was' = StatusBefore /\ status' = "CLOSE"
  /\ UNCHANGED <<cur, newest, taskVars, busVars, owed, stray>>

\* Mutated form: the task is notified before the length is stored.
CloseRunningNotifiesFirst ==
  /\ app = "closing" /\ was = "RUN" /\ app' = "notify"
  /\ Touch
  /\ note' = IF Live(cur) THEN [note EXCEPT ![cur] = SetReadBit(@)] ELSE note
  /\ UNCHANGED <<status, cur, newest, was, pc, site, rlen, buf, busVars, owed>>

\* ... then, by the saved status: the exit length, a Give, or nothing.
CloseRunning ==
  /\ app = "closing" /\ was = "RUN" /\ app' = "notify"
  /\ Touch
  /\ rlen' = IF Live(cur) THEN [rlen EXCEPT ![cur] = "exit"] ELSE rlen
  /\ UNCHANGED <<status, cur, newest, was, pc, site, note, buf, busVars, owed>>

CloseNotify ==
  /\ app = "notify" /\ app' = "stopped"
  /\ Touch
  /\ note' = IF Live(cur) THEN [note EXCEPT ![cur] = SetReadBit(@)] ELSE note
  /\ UNCHANGED <<status, cur, newest, was, pc, site, rlen, buf, busVars, owed>>

\* Mutated form: the sleeping task is not woken.
CloseWaitingSilent ==
  /\ app = "closing" /\ was = "INIT" /\ app' = "stopped"
  /\ UNCHANGED <<status, cur, newest, was, taskVars, busVars, owed, stray>>

CloseWaiting ==
  /\ app = "closing" /\ was = "INIT" /\ app' = "stopped"
  /\ GiveTask
  /\ UNCHANGED <<status, cur, newest, was, pc, site, rlen, buf, busVars, owed>>

CloseOther ==
  /\ app = "closing" /\ was \notin {"RUN", "INIT"} /\ app' = "stopped"
  /\ UNCHANGED <<status, cur, newest, was, taskVars, busVars, owed, stray>>

\* usbd_deinitialize waits for the interrupt's handler.
Deinitialize ==
  /\ app = "stopped" /\ app' = "pause" /\ ~isr
  /\ bus' = "off" /\ DropTransfers /\ inDone' = FALSE
  /\ UNCHANGED <<status, cur, newest, was, taskVars, isr, disconnects, owed, stray>>

\* vTaskDelay(500 / portTICK_PERIOD_MS).  Half a second is taken to be enough
\* for the old task to end, or to block for good.
Pause ==
  /\ app = "pause" /\ app' = "off"
  /\ \A t \in Tasks : ~Runnable(t)
  /\ UNCHANGED <<status, cur, newest, was, taskVars, busVars, owed, stray>>

AppStart == InitStatus \/ CreateTask \/ CreateNothing \/ AssignHandle \/ Connect
AppStop == CloseRunning \/ CloseNotify \/ CloseWaiting \/ CloseOther
           \/ Deinitialize \/ Pause

-----------------------------------------------------------------------------
HostStep == HostOperation \/ HostDataset \/ HostReceive
Interrupt == BulkIn \/ Reset \/ Configured \/ ConfiguredGive \/ Disconnected

Next ==
  /\ ~stray
  /\ \/ \E t \in Tasks : TaskStep(t)
     \/ HostStep \/ Interrupt \/ AppStart \/ Close \/ AppStop

Spec == Init /\ [][Next]_vars

-----------------------------------------------------------------------------
(* Properties. *)

\* A task that sleeps in usb_wait_start can still be started: the status is
\* INIT, so that CONFIGURED will wake it, or its wake-up is on its way.
NoLostStart ==
  \A t \in Tasks :
    pc[t] = "take" /\ IsZero(note[t]) =>
      \/ status = "INIT"
      \/ isr
      \/ app = "closing" /\ was = "INIT"

\* While the device runs, the task never sleeps in a read or write for which
\* no transfer is under way: nothing would ever end it.  An unplugging is
\* excepted: its Give can add one to the read bit, which makes it the write bit.
NoStuckWait ==
  status = "RUN" /\ app = "up" /\ disconnects = 0
      /\ pc[cur] = "await" /\ ~note[cur].pending =>
    IF site[cur] \in ReadSites THEN armed = cur ELSE inflight # "none" \/ inDone

\* The responder task ends only when the application stops the device; unless it
\* was unplugged, when the Give counts as a read that ended, and async_read_len
\* may never have been set.
LiveWhileUp == app = "up" /\ disconnects = 0 => Live(cur) /\ pc[cur] # "exit"

\* The example stops and starts the device and looks at what memory is left in use:
\* neither interrupt nor application uses a handle or a buffer that the task has freed.
NoUseAfterFree == ~stray

\* ... except between usbd_mtp_deinit, which says CLOSE before it uses the handle, and
\* the end of usbd_deinitialize, until which the interrupt uses it: while the device
\* runs nobody does, whatever the host resets and whenever callbacks come; but for an
\* unplugging, which may end the task.
FreedOnlyInStop == stray => app \in {"closing", "notify", "stopped"} \/ disconnects > 0

\* A write is started only when the transfer before it has ended and its
\* callback has run: usb_write does not wait for the response it sent last.
NoOverlappedWrite ==
  \A t \in Tasks :
    status = "RUN" /\ pc[t] = "start" /\ site[t] \in WriteSites =>
      inflight = "none" /\ ~inDone

\* An operation received once is carried out at most once, whatever
\* notifications the task took for the end of a read.
AtMostOnce ==
  [][\A t \in Tasks :
       (pc[t] = "got" /\ site[t] = "op" /\ pc'[t] = "check" /\ site'[t] # "op")
         => owed]_vars

-----------------------------------------------------------------------------
(***************************************************************************)
(* Why NoLostStart holds: an invariant that every step preserves.          *)
(***************************************************************************)

\* The task does nothing and nothing will make it.
Quiet(t) == pc[t] \in {"none", "dead"} \/ (pc[t] = "await" /\ ~note[t].pending)

Connected == {"up", "closing", "notify", "stopped"}
Between == {"off", "create", "crashed"}

\* Only the newest task can run, and none can between two lives of the device.
OthersQuiet ==
  \A t \in Tasks : t # newest \/ app \in Between => Quiet(t)

\* From usbd_initialize on s_handle is the newest handle; before that the
\* new task goes no further than usb_wait_start.
HandleIsNewest ==
  /\ app \notin Between => newest \in Tasks
  /\ app \in Connected \cup {"connect", "pause"} => cur = newest
  /\ app \in {"assign", "connect"} =>
       /\ IsZero(note[newest])
       /\ \/ pc[newest] = "wait" /\ status = "STOPPING"
          \/ pc[newest] = "take" /\ status = "INIT"

\* What app_main's place says of the status and of the controller.
AppPlaces ==
  /\ app \in {"closing", "notify", "stopped", "pause", "off"} => status = "CLOSE"
  /\ app \in {"create", "crashed"} => status = "STOPPING"
  /\ bus # "off" <=> app \in Connected
  /\ isr => app \in Connected

\* The induction invariant of NoLostStart: only the newest task runs, the
\* handle the interrupt notifies is that task's, and it sleeps only as
\* NoLostStart says.
StartInv == TypeOK /\ NoLostStart /\ OthersQuiet /\ HandleIsNewest /\ AppPlaces
=============================================================================
