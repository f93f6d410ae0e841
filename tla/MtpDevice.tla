----------------------------- MODULE MtpDevice ------------------------------
(***************************************************************************)
(* The MTP device as a whole: UsbMtp over the low level that gives it PHY  *)
(* and interrupt (LowLevel).  Without them usbd_initialize goes on, and    *)
(* the device lives its life unseen by any host.                           *)
(*                                                                         *)
(* What the device promises is Responder.  Nothing in the code orders host *)
(* and application with the device's own task and interrupt, and some of   *)
(* what they do in an unlucky moment breaks a promise.  A ghost remembers  *)
(* which of it happened in the present life of the device, and each        *)
(* property names what it cannot bear:                                     *)
(*                                                                         *)
(*   reset    USBD_EVENT_RESET met a running device;                       *)
(*   early    CONFIGURED met a task that was not yet in usb_wait_start;    *)
(*   late     the OUT callback came before the callback of the response    *)
(*            that went before, which only a second core can tell apart;   *)
(*   overlap  a write was started over one whose callback had not run;     *)
(*   hasty    the device was stopped while it worked, or was asked while   *)
(*            it was stopped;                                              *)
(*   torn     usbd_mtp_deinit ran between the two halves of CONFIGURED's   *)
(*            handler, and the Give met the bit of a read that was over.   *)
(***************************************************************************)
EXTENDS UsbMtp, LowLevel

CONSTANT MaxBreaks  \* bound on what host, interrupt and application do of these
ASSUME BreakAssumption == MaxBreaks \in Nat

VARIABLES
  trouble,  \* ghost: which of these happened in this life
  breaks    \* how many host, interrupt and application made in any life

lowVars == <<phy, intr>>
ghosts == <<trouble, breaks>>
deviceVars == <<vars, lowVars, ghosts>>

Troubles == {"reset", "early", "late", "overlap", "hasty", "torn"}

DeviceInit == Init /\ NothingHeld /\ trouble = {} /\ breaks = 0

-----------------------------------------------------------------------------
(* The steps of UsbMtp with what they do here. *)

\* As in UsbMtp, nothing follows the use of freed memory.
Alone(A) == ~stray /\ A /\ UNCHANGED <<lowVars, ghosts>>

\* There is no interrupt, and no host sees the device, without the low level.
Seen(A) == phy /\ intr /\ ~stray /\ A /\ UNCHANGED lowVars

When(condition, what) == IF condition THEN {what} ELSE {}

\* The step of host, interrupt or application makes this trouble, which may be none.
Makes(what) ==
  /\ trouble' = trouble \cup what
  /\ breaks' = IF what \subseteq trouble THEN breaks ELSE breaks + 1
  /\ breaks' <= MaxBreaks

\* The task of a running device starts a write before the last one is over.
Overlaps(t) ==
  /\ status = "RUN" /\ pc[t] = "start" /\ site[t] \in WriteSites
  /\ inflight # "none" \/ inDone

DeviceTask(t) ==
  /\ ~stray /\ TaskStep(t)
  /\ trouble' = trouble \cup When(Overlaps(t), "overlap")
  /\ UNCHANGED <<lowVars, breaks>>

DeviceOperation ==
  Seen(HostOperation) /\ Makes(When(inDone, "late") \cup When(app # "up", "hasty"))
DeviceDataset == Seen(HostDataset) /\ Makes(When(inDone, "late"))
DeviceReceive == Seen(HostReceive) /\ UNCHANGED ghosts
DeviceBulkIn == Seen(BulkIn) /\ UNCHANGED ghosts

\* USBD_EVENT_RESET sets STOPPING in a running device, and wakes nobody; for one that
\* was configured too early the host begins anew.
DeviceReset ==
  /\ Seen(Reset)
  /\ IF status = "RUN" THEN Makes({"reset"})
                       ELSE trouble' = trouble \ {"early"} /\ UNCHANGED breaks

\* A configuration that finds STOPPING starts nobody.
DeviceConfigured == Seen(Configured) /\ Makes(When(status = "STOPPING", "early"))
DeviceGive == Seen(ConfiguredGive) /\ UNCHANGED ghosts

\* A new life begins.
DeviceInitStatus ==
  /\ ~stray /\ InitStatus
  /\ trouble' = {}
  /\ UNCHANGED <<lowVars, breaks>>

\* Nothing is under way, and the task sleeps until it is told.
AtRest == host = "idle" /\ ~inDone /\ ~isr /\ Blocked(cur)

DeviceClose ==
  /\ ~stray /\ Close /\ UNCHANGED lowVars
  /\ Makes(When(~AtRest, "hasty") \cup When(isr, "torn"))

\* usbd_initialize and usbd_deinitialize.
DeviceConnect == ~stray /\ Connect /\ LowLevelInit /\ UNCHANGED ghosts
DeviceDeinitialize == ~stray /\ Deinitialize /\ LowLevelDeinit /\ UNCHANGED ghosts

DeviceStart ==
  \/ DeviceInitStatus \/ Alone(CreateTask) \/ Alone(CreateNothing)
  \/ Alone(AssignHandle) \/ DeviceConnect

DeviceStop ==
  \/ Alone(CloseRunning) \/ Alone(CloseNotify) \/ Alone(CloseWaiting)
  \/ Alone(CloseOther) \/ DeviceDeinitialize \/ Alone(Pause)

\* Unplugging is left to UsbMtp alone.
DeviceNext ==
  \/ \E t \in Tasks : DeviceTask(t)
  \/ DeviceOperation \/ DeviceDataset \/ DeviceReceive
  \/ DeviceBulkIn \/ DeviceReset \/ DeviceConfigured \/ DeviceGive
  \/ DeviceStart \/ DeviceClose \/ DeviceStop

\* The scheduler runs every ready task, the interrupt is served, delays end,
\* and a host that began a transaction goes on with it.  Nothing makes the
\* host plug in, configure, ask or reset, nor the application close.
Fairness ==
  /\ \A t \in Tasks : WF_deviceVars(DeviceTask(t))
  /\ WF_deviceVars(DeviceBulkIn)
  /\ WF_deviceVars(DeviceGive)
  /\ WF_deviceVars(DeviceDataset)
  /\ WF_deviceVars(DeviceReceive)
  /\ WF_deviceVars(DeviceStart)
  /\ WF_deviceVars(DeviceStop)

DeviceSpec == DeviceInit /\ [][DeviceNext]_deviceVars /\ Fairness

-----------------------------------------------------------------------------
(* Properties. *)

\* A write is started only when the transfer before it has ended and its callback has
\* run, as long as no callback was late: usb_write does not wait for the response it
\* sent last, whose notification can end the wait of the next write.
OverlapOnlyIfLate == "late" \notin trouble => NoOverlappedWrite

\* While the device is up and was not reset as it ran, a response is sent only while the
\* host waits for one, also when a write was taken for ended too soon.
ResponseExpected ==
  app = "up" /\ "reset" \notin trouble /\ inflight = "response" => host = "listen"

\* A configured device comes to wait for an operation, unless the configuration came too
\* early for its task and the host does not try again, or it is reset while it runs: from
\* then on it is silent until its next life.
Started ==
  (bus = "configured" /\ app = "up")
    ~> (armed = cur \/ app # "up" \/ trouble \cap {"reset", "early"} # {})

\* Once the device was stopped, its task ends and the handle is freed, whatever the task
\* was doing; unless a reset left it asleep, or a Give spoilt the end of its read.
TeardownEnds ==
  app = "stopped" /\ trouble \cap {"reset", "torn"} = {} ~> ~Live(cur)

-----------------------------------------------------------------------------
(* The refinement. *)

\* The application is done with the device when usbd_deinitialize has returned and the
\* task has ended, and at the latest when it initialises it again.
DeviceState ==
  IF stray THEN "lost"
  ELSE IF app = "up" THEN "up"
  ELSE IF app \in Connected \/ (app = "pause" /\ Live(cur)) THEN "stopping"
  ELSE "down"

\* What the controller makes of two transfers at once is not known.
Sound == DeviceState = "down" \/ trouble \cap {"reset", "overlap", "hasty"} = {}

Request ==
  IF ~Sound \/ host = "idle" THEN "none" ELSE IF owed THEN "received" ELSE "answering"

Promise == INSTANCE Responder WITH
  device <- DeviceState, sound <- Sound, request <- Request

\* One request at a time, carried out once and then answered, by a device that
\* ends when it is stopped and starts again.
KeepsPromise == Promise!Spec
=============================================================================
