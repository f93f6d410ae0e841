-------------------------- MODULE MtpDeviceProofs ---------------------------
(***************************************************************************)
(* Proofs about MtpDevice, for every host, every order of the interrupt's  *)
(* callbacks and every moment at which the application stops the device.   *)
(* The steps of the device are steps of UsbMtp, so that what is proved of  *)
(* UsbMtp holds of the device.  While the device runs, the calls of its    *)
(* task follow the host's transaction (Running); so writes overlap only    *)
(* after a late callback, a response is sent only to a host that waits for *)
(* it, and the device does nothing that Responder does not allow.          *)
(***************************************************************************)
EXTENDS MtpDevice, UsbMtpProofs

-----------------------------------------------------------------------------
(***************************************************************************)
(* The induction invariant.                                                *)
(***************************************************************************)

Alive == app \in {"assign", "connect", "up"}
Closing == app \in {"closing", "notify", "stopped"}

\* Nothing is on its way on the bus.
BusQuiet == armed = NoTask /\ inflight = "none" /\ ~inDone /\ host = "idle"

\* While the application stops a device that was at rest, nothing comes from the
\* host, and the task sleeps until it is told.
Down ==
  "hasty" \notin trouble =>
    /\ Closing => host = "idle" /\ ~inDone /\ ~isr
    /\ app \in {"closing", "notify"} => Live(newest) /\ Blocked(newest)

\* A device that was never reset as it ran has no transfer before it is started.
Still(t) ==
  "reset" \notin trouble /\ status \in {"STOPPING", "INIT"} =>
    BusQuiet /\ pc[t] = IF status = "INIT" THEN "take" ELSE "wait"

\* No callback of an earlier transfer is outstanding, unless one came late.
Punctual == "late" \notin trouble => ~inDone

\* The response to the last operation may still be on its way to the host.
Before ==
  \/ host = "listen" /\ inflight = "response" /\ ~owed /\ Punctual
  \/ host = "idle" /\ inflight = "none"

\* Nothing is under way to the host, but for what a late callback made the task leave
\* behind; and it is not a response.
Clear ==
  /\ inflight # "response"
  /\ "late" \notin trouble => inflight = "none" /\ ~inDone

\* An operation, or its dataset, was received, and the host waits for what follows.
Asked(t) ==
  /\ armed = NoTask /\ Clear
  /\ rlen[t] = "len" /\ buf[t] \in Kinds /\ owed
  /\ host = IF buf[t] = "dataout" THEN "send" ELSE "listen"

\* The host expects this.
Sent(phase) == armed = NoTask /\ Clear /\ host = phase /\ ~owed

\* The task is about to start a transfer.
Turn(t, phase) == Sent(phase) /\ ("late" \notin trouble => ~note[t].pending)

\* The host may send its dataset.
Awaited == Clear /\ host = "send" /\ ~owed

\* The transfer is on its way to the host, or its end to the task.
Written(t) ==
  /\ armed = NoTask /\ host = "listen" /\ ~owed
  /\ inflight # "response"
  /\ "late" \notin trouble =>
       \/ inflight = site[t] /\ ~inDone /\ ~note[t].pending
       \/ inflight = "none" /\ inDone /\ ~note[t].pending
       \/ inflight = "none" /\ ~inDone /\ note[t].pending

Received(t) == pc[t] = "got" \/ (pc[t] = "await" /\ note[t].rd)

\* Where host and controller are while the task is in a call of read or write.
Phase(t) ==
  /\ site[t] = "op" => IF Received(t) THEN Asked(t) ELSE Before
  /\ site[t] = "dataset" =>
       IF Received(t) THEN Sent("listen")
       ELSE IF pc[t] = "await" THEN Awaited ELSE Turn(t, "send")
  /\ site[t] \in WriteSites => IF pc[t] = "await" THEN Written(t) ELSE Turn(t, "listen")

\* A started device.
Running(t) == status = "RUN" =>
  /\ Phase(t)
  /\ pc[t] = "take" => BusQuiet
  /\ pc[t] = "got" /\ "late" \notin trouble => ~note[t].pending

Steady(t) ==
  /\ Still(t) /\ Running(t)
  /\ pc[t] = "take" => site[t] = "op"
  /\ site[t] = "response" => pc[t] # "await"

DeviceInv ==
  /\ disconnects = 0
  /\ stray => Closing /\ "hasty" \in trouble
  /\ Down
  /\ Alive => Steady(newest)

\* A life begins untroubled.
Unbroken == app \in {"create", "assign", "connect"} => trouble = {}

-----------------------------------------------------------------------------
(* A step of the device is a step of UsbMtp, but never an unplugging. *)

USE DEF Goto, Call, Touch, appVars, busVars, taskVars, Reading, Between

UsbStep ==
  \/ \E t \in Tasks : TaskStep(t)
  \/ HostStep \/ BulkIn \/ Reset \/ Configured \/ ConfiguredGive
  \/ AppStart \/ Close \/ AppStop

LEMMA DeviceStepIsUsbStep == DeviceNext => UsbStep /\ ~stray
BY DEF DeviceNext, UsbStep, Alone, Seen, DeviceTask, DeviceOperation, DeviceDataset,
       DeviceReceive, HostStep, DeviceBulkIn, DeviceReset, DeviceConfigured, DeviceGive,
       DeviceStart, DeviceInitStatus, DeviceConnect, AppStart, DeviceClose, DeviceStop,
       DeviceDeinitialize, AppStop

LEMMA UsbStepIsNext == UsbStep /\ ~stray => Next /\ disconnects' = disconnects
<1>1. UsbStep /\ ~stray => Next
  BY DEF UsbStep, Next, Interrupt
<1>2. UsbStep => disconnects' = disconnects
  BY DEF UsbStep, TaskStep, WaitStart, Take, Check, Start, Refuse, ReadWake, WriteWake,
         GotOperation, GotDataset, Exit, HostStep, HostOperation, HostDataset, HostReceive,
         BulkIn, Reset, Configured, ConfiguredGive, AppStart, InitStatus, CreateTask,
         CreateNothing, AssignHandle, Connect, Close, AppStop, CloseRunning, CloseNotify,
         CloseWaiting, CloseOther, Deinitialize, Pause
<1>3. QED BY <1>1, <1>2

LEMMA DeviceIsUsb == [DeviceNext]_deviceVars => [Next]_vars
BY DeviceStepIsUsbStep, UsbStepIsNext DEF deviceVars, vars

LEMMA DeviceLife == DeviceSpec => [](LifeInv /\ FreedOnlyInStop)
<1>1. DeviceInit => LifeInv /\ FreedOnlyInStop
  BY LifeInit DEF DeviceInit, Init, FreedOnlyInStop
<1>2. LifeInv /\ FreedOnlyInStop /\ [DeviceNext]_deviceVars => (LifeInv /\ FreedOnlyInStop)'
  BY DeviceIsUsb, LifeNext, FreedNext
<1>3. QED BY <1>1, <1>2, PTL DEF DeviceSpec

\* Within a life the ghost forgets nothing but a configuration that came too early.
Remembers == \A what \in Troubles \ {"early"} : what \in trouble => what \in trouble'


LEMMA DeviceRemembers ==
  ASSUME DeviceNext, ~DeviceInitStatus
  PROVE  Remembers
BY DEF DeviceNext, Alone, Seen, Makes, DeviceTask, DeviceOperation, DeviceDataset,
       DeviceReceive, DeviceBulkIn, DeviceReset, DeviceConfigured, DeviceGive,
       DeviceStart, DeviceConnect, DeviceClose, DeviceStop, DeviceDeinitialize, ghosts,
       Remembers

USE DEF Troubles

-----------------------------------------------------------------------------
(* The steps of the task. *)

\* Before it is started, a task that was never stopped by a reset only goes to sleep.
LEMMA SteadyStopped ==
  ASSUME TypeOK, NEW t \in Tasks, Up(t), Steady(t), TaskStep(t), status # "RUN", Remembers
  PROVE  Steady(t)'
<1>1. status \in {"STOPPING", "INIT"} /\ status' \in {"STOPPING", "INIT"}
  BY DEF Up, Awake, TypeOK, Statuses, TaskStep, WaitStart, Take, Check, Start, Refuse,
         ReadWake, WriteWake, GotOperation, GotDataset, Exit
<1>2. Still(t)'
  <2> SUFFICES ASSUME "reset" \notin trouble'
               PROVE  BusQuiet' /\ pc'[t] = IF status' = "INIT" THEN "take" ELSE "wait"
    BY DEF Still
  <2>1. BusQuiet /\ pc[t] = IF status = "INIT" THEN "take" ELSE "wait"
    BY <1>1 DEF Remembers, Steady, Still
  <2>2. status = "INIT" => IsZero(note[t])
    BY DEF Up, Awake
  <2>3. WaitStart(t) /\ status = "STOPPING"
    BY <1>1, <2>1, <2>2 DEF TaskStep, WaitStart, Take, Check, Start, Refuse, ReadWake,
                            WriteWake, GotOperation, GotDataset, Exit
  <2>4. QED BY <2>1, <2>3 DEF WaitStart, TypeOK, BusQuiet
<1>3. Running(t)'
  BY <1>1 DEF Running
<1>4. /\ pc'[t] = "take" => site'[t] = "op"
      /\ site'[t] = "response" => pc'[t] # "await"
  BY DEF TypeOK, Steady, TaskStep, WaitStart, Take, Check, Start, Refuse, ReadWake, WriteWake,
         GotOperation, GotDataset, Exit, AfterCall, WriteSites, ReadSites
<1>5. QED BY <1>2, <1>3, <1>4 DEF Steady

LEMMA SteadyCheck ==
  ASSUME TypeOK, NEW t \in Tasks, Up(t), Steady(t), status = "RUN", Take(t) \/ Check(t),
         Remembers
  PROVE  Steady(t)'
<1>1. UNCHANGED <<status, site, rlen, buf, bus, armed, inflight, inDone, host, owed>>
      /\ ("late" \in trouble => "late" \in trouble')
  BY DEF Take, Check, Remembers
<1>2. CASE Take(t)
  <2>1. pc[t] = "take" /\ pc'[t] = "check" /\ site[t] = "op" /\ BusQuiet
    BY <1>2 DEF Take, TypeOK, Steady, Running
  <2>2. Before'
    BY <1>1, <2>1 DEF BusQuiet, Before
  <2>3. Phase(t)'
    BY <1>1, <2>1, <2>2 DEF Phase, Received, WriteSites
  <2>4. QED BY <1>1, <2>1, <2>3 DEF Steady, Still, Running
<1>3. CASE Check(t)
  <2>1. pc[t] = "check" /\ pc'[t] = "start" /\ note' = note
    BY <1>3 DEF Check, TypeOK
  <2>2. Phase(t)'
    BY <1>1, <2>1 DEF Steady, Running, Phase, Received, Before, Punctual, Turn, Sent, Clear
  <2>3. QED BY <1>1, <2>1, <2>2 DEF Steady, Still, Running
<1>4. QED BY <1>2, <1>3

LEMMA SteadyStart ==
  ASSUME TypeOK, NEW t \in Tasks, Up(t), Steady(t), status = "RUN", Start(t), Remembers
  PROVE  Steady(t)'
<1>1. /\ pc[t] = "start" /\ bus = "configured" /\ site[t] \in ReadSites \cup WriteSites
      /\ \/ site[t] = "response" /\ pc'[t] = "check" /\ site'[t] = "op"
         \/ site[t] # "response" /\ pc'[t] = "await" /\ site'[t] = site[t]
      /\ UNCHANGED <<status, note, rlen, buf, bus, inDone, host, owed>>
      /\ ("late" \in trouble => "late" \in trouble')
  BY DEF Start, AfterCall, TypeOK, Up, Awake, Remembers
<1>2. /\ armed' = IF site[t] \in ReadSites THEN t ELSE armed
      /\ inflight' = IF site[t] \in WriteSites THEN site[t] ELSE inflight
      /\ ~note[t].rd
  BY <1>1 DEF Start, Up, Bits
<1>3. Phase(t) /\ ~Received(t)
  BY <1>1 DEF Steady, Running, Received
<1>4. Phase(t)'
  <2>1. CASE site[t] = "op"
    BY <1>1, <1>2, <1>3, <2>1 DEF Phase, Received, Before, Punctual, ReadSites, WriteSites
  <2>2. CASE site[t] = "dataset"
    BY <1>1, <1>2, <1>3, <2>2
       DEF Phase, Received, Turn, Sent, Clear, Awaited, ReadSites, WriteSites
  <2>3. CASE site[t] = "response"
    <3>1. host' = "listen" /\ inflight' = "response" /\ ~owed' /\ Punctual'
      BY <1>1, <1>2, <1>3, <2>3 DEF Phase, Turn, Sent, Clear, Punctual, WriteSites
    <3>2. Before' /\ ~Received(t)'
      BY <1>1, <2>3, <3>1 DEF Before, Received
    <3>3. QED BY <1>1, <2>3, <3>2 DEF Phase, WriteSites
  <2>4. CASE site[t] \in {"data", "zlp"}
    <3>1. Turn(t, "listen") /\ site[t] \in WriteSites /\ site[t] \notin ReadSites
      BY <1>1, <1>3, <2>4 DEF Phase, WriteSites, ReadSites
    <3>2. Written(t)'
      BY <1>1, <1>2, <2>4, <3>1 DEF Turn, Sent, Clear, Written
    <3>3. QED BY <1>1, <2>4, <3>2 DEF Phase
  <2>5. QED BY <1>1, <2>1, <2>2, <2>3, <2>4 DEF ReadSites, WriteSites
<1>5. QED BY <1>1, <1>4 DEF Steady, Still, Running

LEMMA SteadyWake ==
  ASSUME TypeOK, NEW t \in Tasks, Up(t), Steady(t), status = "RUN",
         ReadWake(t) \/ WriteWake(t), Remembers
  PROVE  Steady(t)'
<1>1. /\ pc[t] = "await" /\ note[t].pending /\ site[t] \in ReadSites \cup WriteSites
      /\ UNCHANGED <<status, rlen, buf, bus, armed, inflight, inDone, host, owed>>
      /\ ("late" \in trouble => "late" \in trouble')
  BY DEF ReadWake, WriteWake, Notified, TypeOK, Remembers
<1>2. Phase(t)
  BY DEF Steady, Running
<1>3. CASE ReadWake(t)
  <2>1. /\ site[t] \in ReadSites /\ site' = site /\ note'[t] = AfterReadWait(note[t])
        /\ pc'[t] = IF note[t].rd THEN "got" ELSE "await"
    BY <1>1, <1>3 DEF ReadWake, TypeOK
  <2>2. ~note'[t].rd /\ ~note'[t].pending
    BY <2>1 DEF AfterReadWait
  <2>3. Received(t)' <=> Received(t)
    BY <1>1, <2>1, <2>2 DEF Received
  <2>4. site[t] \in {"op", "dataset"}
    BY <2>1 DEF ReadSites
  <2>5. Phase(t)'
    BY <1>1, <1>2, <2>1, <2>3, <2>4
       DEF Phase, Asked, Before, Punctual, Sent, Clear, Awaited, Received, WriteSites
  <2>6. QED BY <1>1, <2>1, <2>2, <2>4, <2>5 DEF Steady, Still, Running
<1>4. CASE WriteWake(t)
  <2>1. /\ site[t] \in WriteSites /\ site'[t] \in {"zlp", "response"} /\ pc'[t] = "check"
        /\ note'[t] = AfterWriteWait(note[t])
    BY <1>4 DEF WriteWake, TypeOK
  <2>2. ~note'[t].pending /\ Written(t)
    BY <1>1, <1>2, <2>1 DEF AfterWriteWait, Phase
  <2>3. Turn(t, "listen")'
    BY <1>1, <2>2 DEF Written, Turn, Sent, Clear
  <2>4. Phase(t)'
    BY <2>1, <2>3 DEF Phase, WriteSites
  <2>5. QED BY <1>1, <2>1, <2>4 DEF Steady, Still, Running
<1>5. QED BY <1>3, <1>4

LEMMA SteadyGot ==
  ASSUME TypeOK, NEW t \in Tasks, Up(t), Steady(t), status = "RUN",
         GotOperation(t) \/ GotDataset(t), Remembers
  PROVE  Steady(t)'
<1>1. /\ pc[t] = "got" /\ Received(t) /\ Phase(t)
      /\ ("late" \notin trouble => ~note[t].pending)
      /\ ("late" \in trouble => "late" \in trouble')
      /\ UNCHANGED <<status, note, rlen, bus, armed, inflight, inDone, host>>
  BY DEF GotOperation, GotDataset, Steady, Running, Received, Remembers
<1>2. CASE GotOperation(t)
  <2>1. site[t] = "op" /\ Asked(t)
    BY <1>1, <1>2 DEF GotOperation, Phase
  <2>2. /\ pc'[t] = "check" /\ site'[t] = FirstCall(buf[t]) /\ owed' = FALSE
    BY <1>2, <2>1 DEF GotOperation, Asked, TypeOK
  <2>3. Phase(t)'
    <3>1. CASE buf[t] = "dataout"
      <4>1. Turn(t, "send")' /\ site'[t] = "dataset"
        BY <1>1, <2>1, <2>2, <3>1 DEF Asked, Turn, Sent, Clear, FirstCall
      <4>2. QED BY <2>2, <4>1 DEF Phase, Received, WriteSites
    <3>2. CASE buf[t] # "dataout"
      <4>1. Turn(t, "listen")' /\ site'[t] \in {"response", "data"}
        BY <1>1, <2>1, <2>2, <3>2 DEF Asked, Turn, Sent, Clear, FirstCall, Kinds
      <4>2. QED BY <2>2, <4>1 DEF Phase, WriteSites
    <3>3. QED BY <3>1, <3>2
  <2>4. QED BY <1>1, <2>2, <2>3 DEF Steady, Still, Running
<1>3. CASE GotDataset(t)
  <2>1. site[t] = "dataset" /\ pc'[t] = "check" /\ site'[t] = "response" /\ owed' = owed
    BY <1>3 DEF GotDataset, TypeOK
  <2>2. Turn(t, "listen")'
    BY <1>1, <2>1 DEF Phase, Turn, Sent, Clear
  <2>3. Phase(t)'
    BY <2>1, <2>2 DEF Phase, WriteSites
  <2>4. QED BY <1>1, <2>1, <2>3 DEF Steady, Still, Running
<1>4. QED BY <1>2, <1>3

LEMMA SteadyTask ==
  ASSUME TypeOK, NEW t \in Tasks, Up(t), Steady(t), TaskStep(t), Remembers
  PROVE  Steady(t)'
<1>1. CASE status # "RUN"
  BY <1>1, SteadyStopped
<1>2. CASE status = "RUN"
  <2>1. ~WaitStart(t) /\ ~Refuse(t) /\ ~Exit(t)
    BY <1>2 DEF WaitStart, Refuse, Exit, Up, Awake
  <2>2. QED BY <1>2, <2>1, SteadyCheck, SteadyStart, SteadyWake, SteadyGot DEF TaskStep
<1>3. QED BY <1>1, <1>2

-----------------------------------------------------------------------------
(* The steps of host and interrupt. *)

LEMMA SteadyHost ==
  ASSUME TypeOK, BusIdle, NEW t \in Tasks, Up(t), cur = t, Steady(t), Remembers,
         HostStep, (HostOperation \/ HostDataset) /\ inDone => "late" \in trouble'
  PROVE  Steady(t)'
<1>1. /\ UNCHANGED <<status, pc, site, bus>> /\ Live(t) /\ bus = "configured"
      /\ ("late" \in trouble => "late" \in trouble')
      /\ ("reset" \in trouble => "reset" \in trouble')
  BY SlotAssumption DEF HostStep, HostOperation, HostDataset, HostReceive, OutReady, Up, Awake,
                        Live, Remembers
<1>2. CASE status # "RUN"
  <2>1. inflight = "none" /\ armed = NoTask => FALSE
    BY DEF HostStep, HostOperation, HostDataset, HostReceive, OutReady
  <2>2. "reset" \in trouble
    BY <1>2, <2>1 DEF Steady, Still, BusQuiet, Up, Awake, TypeOK, Statuses
  <2>3. QED BY <1>1, <1>2, <2>2 DEF Steady, Still, Running
<1>3. CASE status = "RUN" /\ (HostOperation \/ HostDataset)
  <2>1. /\ armed = t /\ pc[t] = "await" /\ site[t] \in ReadSites /\ ~note[t].rd
    BY <1>3 DEF HostOperation, HostDataset, OutReady, Up, Transfers
  <2>2. /\ armed' = NoTask /\ rlen'[t] = "len" /\ note'[t] = SetReadBit(note[t])
        /\ UNCHANGED <<inflight, inDone>> /\ (inDone => "late" \in trouble')
    BY <1>1, <1>3 DEF HostOperation, HostDataset, BulkOut, TypeOK
  <2>3. Received(t)' /\ ~Received(t) /\ Phase(t)
    BY <1>1, <1>3, <2>1, <2>2 DEF Received, SetReadBit, Steady, Running
  <2>4. Phase(t)'
    <3>1. CASE HostOperation
      <4>1. site[t] = "op"
        BY <2>1, <2>3, <3>1 DEF HostOperation, Phase, Awaited, ReadSites
      <4>2. PICK kind \in Kinds :
              /\ BulkOut(kind)
              /\ host' = IF kind = "dataout" THEN "send" ELSE "listen"
        BY <3>1 DEF HostOperation
      <4>3. buf'[t] = kind
        BY <1>1, <2>1, <4>2 DEF BulkOut, TypeOK
      <4>4. inflight = "none" /\ owed' = TRUE
        BY <2>3, <3>1, <4>1 DEF Phase, Before, HostOperation
      <4>5. Asked(t)'
        BY <2>1, <2>2, <4>2, <4>3, <4>4 DEF Asked, Clear
      <4>6. QED BY <1>1, <2>3, <4>1, <4>5 DEF Phase, WriteSites
    <3>2. CASE HostDataset
      <4>1. site[t] = "dataset" /\ Awaited
        BY <2>1, <2>3, <3>2 DEF HostDataset, Phase, Before, ReadSites
      <4>2. Sent("listen")'
        BY <1>1, <2>2, <3>2, <4>1 DEF HostDataset, Awaited, Sent, Clear
      <4>3. QED BY <1>1, <2>3, <4>1, <4>2 DEF Phase, WriteSites
    <3>3. QED BY <1>3, <3>1, <3>2
  <2>5. QED BY <1>1, <1>3, <2>1, <2>4 DEF Steady, Still, Running
<1>4. CASE status = "RUN" /\ HostReceive
  <2>1. /\ host = "listen" /\ inflight # "none" /\ ~inDone /\ Phase(t)
        /\ host' = IF inflight = "response" THEN "idle" ELSE "listen"
        /\ inflight' = "none" /\ inDone' = TRUE
        /\ UNCHANGED <<rlen, buf, note, armed, owed>>
    BY <1>4 DEF HostReceive, Steady, Running
  <2>2. pc[t] # "take"
    BY <1>4, <2>1 DEF Steady, Running, BusQuiet
  <2>3. Phase(t)'
    <3>1. CASE site[t] = "op"
      <4>1. CASE Received(t)
        BY <1>1, <2>1, <3>1, <4>1 DEF Phase, Asked, Clear, Received, WriteSites
      <4>2. CASE ~Received(t)
        BY <1>1, <2>1, <3>1, <4>2 DEF Phase, Before, Received, WriteSites
      <4>3. QED BY <4>1, <4>2
    <3>2. CASE site[t] = "dataset"
      BY <1>1, <2>1, <3>2 DEF Phase, Sent, Clear, Awaited, Turn, Received, WriteSites
    <3>3. CASE site[t] \in WriteSites /\ pc[t] = "await"
      <4>1. Written(t) /\ site[t] # "response"
        BY <2>1, <3>3 DEF Phase, Steady
      <4>2. Written(t)'
        BY <1>1, <2>1, <4>1 DEF Written
      <4>3. QED BY <1>1, <3>3, <4>2 DEF Phase, WriteSites
    <3>4. CASE site[t] \in WriteSites /\ pc[t] # "await"
      <4>1. Turn(t, "listen")'
        BY <1>1, <2>1, <3>4 DEF Phase, Turn, Sent, Clear
      <4>2. QED BY <1>1, <3>4, <4>1 DEF Phase, WriteSites
    <3>5. QED BY <3>1, <3>2, <3>3, <3>4 DEF TypeOK, ReadSites
  <2>4. QED BY <1>1, <1>4, <2>1, <2>2, <2>3 DEF Steady, Still, Running
<1>5. QED BY <1>2, <1>3, <1>4 DEF HostStep

LEMMA SteadyBulkIn ==
  ASSUME TypeOK, NEW t \in Tasks, Up(t), cur = t, Steady(t), Remembers, BulkIn
  PROVE  Steady(t)'
<1>1. /\ UNCHANGED <<pc, site, rlen, buf, owed, status, bus, armed, inflight, host>>
      /\ Live(t) /\ inDone /\ inDone' = FALSE /\ note'[t] = SetWriteBit(note[t])
      /\ ("late" \in trouble => "late" \in trouble')
      /\ ("reset" \in trouble => "reset" \in trouble')
  BY SlotAssumption DEF BulkIn, WriteCb, Up, Awake, Live, TypeOK, Remembers
<1>2. note'[t].pending = TRUE /\ note'[t].rd = note[t].rd
  BY <1>1 DEF SetWriteBit
<1>3. CASE status # "RUN"
  BY <1>1, <1>3 DEF Steady, Still, Running, BusQuiet
<1>4. CASE status = "RUN"
  <2>1. Phase(t) /\ pc[t] # "take"
    BY <1>1, <1>4 DEF Steady, Running, BusQuiet
  <2>2. pc[t] = "got" => "late" \in trouble'
    BY <1>1, <2>1
       DEF Phase, Received, Asked, Sent, Clear, TypeOK, ReadSites, WriteSites, Turn
  <2>3. Phase(t)'
    <3>1. CASE site[t] = "op"
      BY <1>1, <1>2, <2>1, <3>1
         DEF Phase, Received, Asked, Clear, Before, Punctual, WriteSites
    <3>2. CASE site[t] = "dataset"
      BY <1>1, <1>2, <2>1, <3>2
         DEF Phase, Received, Sent, Clear, Awaited, Turn, WriteSites
    <3>3. CASE site[t] \in WriteSites /\ pc[t] = "await"
      <4>1. Written(t)
        BY <2>1, <3>3 DEF Phase
      <4>2. Written(t)'
        BY <1>1, <1>2, <4>1 DEF Written
      <4>3. QED BY <1>1, <3>3, <4>2 DEF Phase, WriteSites
    <3>4. CASE site[t] \in WriteSites /\ pc[t] # "await"
      <4>1. Turn(t, "listen")'
        BY <1>1, <2>1, <3>4 DEF Phase, Turn, Sent, Clear
      <4>2. QED BY <1>1, <3>4, <4>1 DEF Phase, WriteSites
    <3>5. QED BY <3>1, <3>2, <3>3, <3>4 DEF TypeOK, ReadSites
  <2>4. QED BY <1>1, <1>4, <2>1, <2>2, <2>3 DEF Steady, Still, Running
<1>5. QED BY <1>3, <1>4

LEMMA SteadyInterrupt ==
  ASSUME TypeOK, BusIdle, NEW t \in Tasks, Up(t), cur = t, Steady(t), Remembers,
         Reset \/ Configured \/ ConfiguredGive,
         Reset /\ status = "RUN" => "reset" \in trouble'
  PROVE  Steady(t)'
<1>1. /\ UNCHANGED <<pc, site, rlen, buf, owed>> /\ Live(t)
      /\ status \in {"RUN", "STOPPING", "INIT"}
      /\ ("late" \in trouble => "late" \in trouble')
      /\ ("reset" \in trouble => "reset" \in trouble')
  BY SlotAssumption DEF Reset, Configured, ConfiguredGive, Up, Awake, Live, TypeOK,
                        Statuses, Remembers
<1>2. CASE Reset
  <2>1. /\ status' = IF status = "INIT" THEN "INIT" ELSE "STOPPING"
        /\ armed' = NoTask /\ inflight' = "none" /\ ~inDone' /\ host' = "idle"
        /\ (status = "RUN" => "reset" \in trouble')
    BY <1>1, <1>2 DEF Reset, DropTransfers
  <2>2. QED BY <1>1, <2>1 DEF Steady, Still, Running, BusQuiet
<1>3. CASE Configured
  <2>1. /\ BusQuiet /\ UNCHANGED <<note, armed, inflight, inDone, host>>
        /\ status \in {"STOPPING", "INIT"}
    BY <1>1, <1>3 DEF Configured, BusIdle, BusQuiet, Up, Awake
  <2>2. CASE status = "STOPPING"
    <3>1. status' = "STOPPING"
      BY <1>3, <2>2 DEF Configured, NeedWake
    <3>2. QED BY <1>1, <2>1, <2>2, <3>1 DEF Steady, Still, Running, BusQuiet
  <2>3. CASE status = "INIT"
    <3>1. status' = "RUN" /\ pc[t] = "take" /\ site[t] = "op"
      BY <1>3, <2>3 DEF Configured, NeedWake, Up, Awake, Steady
    <3>2. Before' /\ ~Received(t)' /\ BusQuiet'
      BY <1>1, <2>1, <3>1 DEF BusQuiet, Before, Received
    <3>3. Phase(t)'
      BY <1>1, <3>1, <3>2 DEF Phase, WriteSites
    <3>4. QED BY <1>1, <3>1, <3>2, <3>3 DEF Steady, Still, Running
  <2>4. QED BY <2>1, <2>2, <2>3
<1>4. CASE ConfiguredGive
  <2>1. UNCHANGED <<status, bus, armed, inflight, inDone, host>> /\ isr
    BY <1>4 DEF ConfiguredGive
  <2>2. status = "RUN" /\ pc[t] = "take" /\ site[t] = "op" /\ BusQuiet
    BY <2>1 DEF Up, Awake, Steady, Running
  <2>3. Before' /\ ~Received(t)'
    BY <1>1, <2>1, <2>2 DEF BusQuiet, Before, Received
  <2>4. Phase(t)'
    BY <1>1, <2>2, <2>3 DEF Phase, WriteSites
  <2>5. QED BY <1>1, <2>1, <2>2, <2>4 DEF Steady, Still, Running, BusQuiet
<1>5. QED BY <1>2, <1>3, <1>4

-----------------------------------------------------------------------------
(* All steps. *)

\* What the invariants say of the handle the interrupt and the application use.
LEMMA HandleIsAlive ==
  ASSUME LifeInv, DeviceInv
  PROVE  /\ TypeOK /\ BusIdle
         /\ app \notin Between => newest \in Tasks
         /\ app \in Connected => cur = newest
         /\ Alive => Up(newest) /\ Steady(newest)
         /\ app = "up" => Live(cur)
<1>1. /\ TypeOK /\ BusIdle
      /\ app \notin Between => newest \in Tasks
      /\ app \in Connected => cur = newest
  BY DEF LifeInv, StartInv, HandleIsNewest
<1>2. Alive => Up(newest) /\ Steady(newest)
  BY DEF LifeInv, DeviceInv, Undisturbed, Alive
<1>3. app = "up" => Live(newest)
  BY <1>1, <1>2, SlotAssumption DEF Alive, Up, Awake, Live
<1>4. QED BY <1>1, <1>2, <1>3 DEF Connected

\* Host and interrupt act only while there is a controller.
LEMMA BusIsConnected ==
  ASSUME LifeInv, HostStep \/ BulkIn \/ Reset \/ Configured \/ ConfiguredGive
  PROVE  app \in Connected /\ UNCHANGED <<app, cur, newest, pc>>
BY DEF LifeInv, StartInv, AppPlaces, HostStep, HostOperation, HostDataset, HostReceive,
       OutReady, BulkIn, Reset, Configured, ConfiguredGive, Idle

\* Only what comes from the host to a device that is stopped, or a device that was
\* stopped at work, makes the interrupt or the application use what the task has freed.
LEMMA StrayNext ==
  ASSUME LifeInv, DeviceInv, DeviceNext, stray'
  PROVE  Closing' /\ "hasty" \in trouble'
<1>1. UsbStep /\ ~stray /\ Next /\ disconnects' = 0
  BY DeviceStepIsUsbStep, UsbStepIsNext DEF DeviceInv
<1>2. Closing'
  BY <1>1, FreedNext DEF DeviceInv, FreedOnlyInStop, Closing
<1>3. SUFFICES ASSUME "hasty" \notin trouble' PROVE FALSE
  BY <1>2
<1>4. CASE DeviceInitStatus
  BY <1>1, <1>4 DEF DeviceInitStatus, InitStatus
<1>5. CASE ~DeviceInitStatus
  <2>1. /\ Closing => host = "idle" /\ ~inDone /\ ~isr
        /\ app \in {"closing", "notify"} => Live(newest)
    BY <1>3, <1>5, DeviceRemembers DEF Remembers, DeviceInv, Down
  <2>2. app \in Connected => cur = newest
    BY HandleIsAlive
  <2>3. CASE \E t \in Tasks : DeviceTask(t)
    <3>1. PICK t \in Tasks : TaskStep(t)
      BY <2>3 DEF DeviceTask
    <3>2. Refuse(t) /\ ~Live(cur)
      BY <1>1, <3>1 DEF TaskStep, WaitStart, Take, Check, Start, Refuse, ReadCb, WriteCb,
           ReadWake, WriteWake, GotOperation, GotDataset, Exit
    <3>3. pc[t] = "refuse" /\ cur = t
      BY <3>1, <3>2, StepIsNewest DEF LifeInv, Refuse
    <3>4. QED BY <3>2, <3>3, SlotAssumption DEF Live
  <2>4. CASE DeviceOperation
    <3>1. app' = app
      BY <2>4 DEF DeviceOperation, Seen, HostOperation
    <3>2. QED BY <1>2, <1>3, <2>4, <3>1 DEF DeviceOperation, Makes, When, Closing
  <2>5. CASE DeviceDataset \/ DeviceReceive \/ DeviceBulkIn \/ DeviceGive
    BY <1>1, <1>2, <2>1, <2>5 DEF DeviceDataset, DeviceReceive, DeviceBulkIn, DeviceGive, Seen,
         HostDataset, HostReceive, BulkIn, ConfiguredGive, Closing
  <2>6. CASE DeviceReset \/ DeviceConfigured \/ DeviceStart \/ DeviceClose
    BY <1>1, <2>6 DEF DeviceReset, DeviceConfigured, DeviceStart, DeviceClose, Seen, Alone, Reset,
         Configured, DeviceInitStatus, InitStatus, CreateTask, CreateNothing, AssignHandle,
         DeviceConnect, Connect, Close
  <2>7. CASE DeviceStop
    BY <1>1, <2>1, <2>2, <2>7 DEF DeviceStop, Alone, CloseRunning, CloseNotify, CloseWaiting,
         GiveTask, CloseOther, DeviceDeinitialize, Deinitialize, Pause, Connected
  <2>8. QED BY <2>3, <2>4, <2>5, <2>6, <2>7 DEF DeviceNext
<1>6. QED BY <1>4, <1>5

LEMMA SteadySame ==
  ASSUME NEW t \in Tasks, t = newest
  PROVE  (Steady(newest) => Steady(t)) /\ (Up(newest) => Up(t))
BY DEF Steady, Still, Running, Phase, Received, Asked, Turn, Sent, Written, Up, Awake, Bits,
       Lengths, Transfers

LEMMA SteadyNext ==
  ASSUME LifeInv, DeviceInv, DeviceNext
  PROVE  Alive' => Steady(newest)'
<1>1. /\ TypeOK /\ BusIdle
      /\ app \in Connected => cur = newest
      /\ Alive => newest \in Tasks /\ Up(newest) /\ Steady(newest)
  BY HandleIsAlive DEF Alive
<1>2. CASE \/ \E t \in Tasks : DeviceTask(t)
           \/ DeviceOperation \/ DeviceDataset \/ DeviceReceive
           \/ DeviceBulkIn \/ DeviceReset \/ DeviceConfigured \/ DeviceGive
  <2>1. UNCHANGED <<app, newest>>
    BY <1>2, BusIsConnected DEF DeviceTask, DeviceOperation, DeviceDataset, DeviceReceive,
         DeviceBulkIn, DeviceReset, DeviceConfigured, DeviceGive, Seen, HostStep,
         TaskStep, WaitStart, Take, Check, Start, Refuse, ReadWake, WriteWake,
         GotOperation, GotDataset, Exit
  <2>2. SUFFICES ASSUME Alive PROVE Steady(newest)'
    BY <2>1 DEF Alive
  <2>3. PICK t \in Tasks : t = newest
    BY <1>1, <2>2
  <2>4. Up(t) /\ Steady(t)
    BY <1>1, <2>2, <2>3, SteadySame
  <2>5. Remembers
    <3>1. ~DeviceInitStatus
      BY <2>2 DEF DeviceInitStatus, InitStatus, Alive
    <3>2. QED BY <3>1, DeviceRemembers
  <2>6. app \in Connected => cur = t
    BY <1>1, <2>3
  <2>7. Steady(t)'
    <3>1. CASE \E u \in Tasks : DeviceTask(u)
      <4>1. PICK u \in Tasks : TaskStep(u)
        BY <3>1 DEF DeviceTask
      <4>2. TaskStep(t)
        BY <2>3, <4>1, StepIsNewest DEF LifeInv
      <4>3. QED BY <1>1, <2>4, <2>5, <4>2, SteadyTask
    <3>2. CASE DeviceOperation \/ DeviceDataset
      <4>1. HostStep /\ (inDone => "late" \in trouble')
        BY <3>2 DEF DeviceOperation, DeviceDataset, Seen, HostStep, Makes, When
      <4>2. QED BY <1>1, <2>4, <2>5, <2>6, <4>1, BusIsConnected, SteadyHost
    <3>3. CASE DeviceReceive
      <4>1. HostStep /\ ~inDone
        BY <3>3 DEF DeviceReceive, Seen, HostStep, HostReceive
      <4>2. QED BY <1>1, <2>4, <2>5, <2>6, <4>1, BusIsConnected, SteadyHost
    <3>4. CASE DeviceBulkIn
      <4>1. BulkIn
        BY <3>4 DEF DeviceBulkIn, Seen
      <4>2. QED BY <1>1, <2>4, <2>5, <2>6, <4>1, BusIsConnected, SteadyBulkIn
    <3>5. CASE DeviceReset
      <4>1. Reset /\ (status = "RUN" => "reset" \in trouble')
        BY <3>5 DEF DeviceReset, Seen, Makes
      <4>2. QED BY <1>1, <2>4, <2>5, <2>6, <4>1, BusIsConnected, SteadyInterrupt
    <3>6. CASE DeviceConfigured \/ DeviceGive
      <4>1. (Configured \/ ConfiguredGive) /\ (Reset => bus' = "attached")
        BY <3>6 DEF DeviceConfigured, DeviceGive, Seen, Reset
      <4>2. Configured => bus' = "configured"
        BY DEF Configured
      <4>3. Reset /\ ConfiguredGive => FALSE
        BY DEF Reset, ConfiguredGive, Idle
      <4>4. ~Reset
        BY <4>1, <4>2, <4>3
      <4>5. QED BY <1>1, <2>4, <2>5, <2>6, <4>1, <4>4, BusIsConnected, SteadyInterrupt
    <3>7. QED BY <1>2, <3>1, <3>2, <3>3, <3>4, <3>5, <3>6
  <2>8. QED BY <2>1, <2>3, <2>7 DEF Steady, Still, Running, Phase, Received, Asked, Turn, Sent,
                                    Written
<1>3. CASE DeviceStart /\ CreateTask
  <2>1. status = "STOPPING" /\ status' = "STOPPING" /\ BusQuiet /\ BusQuiet'
    BY <1>1, <1>3 DEF CreateTask, LifeInv, StartInv, AppPlaces, Connected, BusIdle, BusQuiet
  <2>2. PICK t \in Tasks : newest' = t /\ Goto(t, "wait") /\ Call(t, "op")
    BY <1>3 DEF CreateTask
  <2>3. pc'[t] = "wait" /\ site'[t] = "op"
    BY <1>1, <2>2 DEF TypeOK
  <2>4. QED BY <2>1, <2>2, <2>3 DEF Steady, Still, Running
<1>4. CASE Alone(AssignHandle) \/ DeviceConnect
  <2>1. /\ Alive /\ status # "RUN" /\ trouble' = trouble
        /\ UNCHANGED <<status, newest, pc, site, armed, inflight, inDone, host>>
    BY <1>4 DEF Alone, ghosts, DeviceConnect, AssignHandle, Connect, Alive, LifeInv, StartInv,
                HandleIsNewest
  <2>2. QED BY <1>1, <2>1 DEF Steady, Still, Running, BusQuiet
<1>5. CASE DeviceInitStatus \/ Alone(CreateNothing) \/ DeviceClose \/ DeviceStop
  BY <1>5 DEF DeviceInitStatus, InitStatus, CreateNothing, Alone, DeviceClose, Close, DeviceStop,
              CloseRunning, CloseNotify, CloseWaiting, CloseOther, DeviceDeinitialize,
              Deinitialize, Pause, Alive
<1>6. QED BY <1>2, <1>3, <1>4, <1>5 DEF DeviceNext, DeviceStart, Alone

LEMMA DownNext ==
  ASSUME LifeInv, DeviceInv, DeviceNext
  PROVE  Down'
<1> SUFFICES ASSUME "hasty" \notin trouble'
             PROVE  /\ Closing' => (host = "idle" /\ ~inDone /\ ~isr)'
                    /\ app' \in {"closing", "notify"} => Live(newest)' /\ Blocked(newest)'
  BY DEF Down
<1>1. /\ TypeOK /\ (app \in Connected => cur = newest)
      /\ app \notin Between => newest \in Tasks
      /\ app = "up" => Live(cur)
      /\ Closing => status = "CLOSE"
  BY HandleIsAlive DEF LifeInv, StartInv, AppPlaces, Closing
<1>2. CASE DeviceStart
  BY <1>2 DEF DeviceStart, DeviceInitStatus, InitStatus, Alone, CreateTask, CreateNothing,
              AssignHandle, DeviceConnect, Connect, Closing
<1>3. CASE DeviceClose
  <2>1. AtRest /\ app = "up" /\ UNCHANGED <<newest, pc, note, host, isr, inDone>>
    BY <1>3 DEF DeviceClose, Makes, When, Close
  <2>2. cur = newest
    BY <1>1, <2>1 DEF Connected
  <2>3. QED BY <1>1, <2>1, <2>2 DEF AtRest, Live, Blocked
<1>4. CASE ~DeviceStart /\ ~DeviceClose
  <2>1. /\ Closing => host = "idle" /\ ~inDone /\ ~isr
        /\ app \in {"closing", "notify"} => Live(newest) /\ Blocked(newest)
    BY <1>4, DeviceRemembers DEF DeviceStart, Remembers, DeviceInv, Down
  <2>2. CASE \E t \in Tasks : DeviceTask(t)
    <3>1. PICK t \in Tasks : TaskStep(t)
      BY <2>2 DEF DeviceTask
    <3>2. t = newest /\ ~Blocked(t)
      BY <3>1, StepIsNewest DEF LifeInv, TaskStep, WaitStart, Take, Check, Start, Refuse,
           ReadWake, WriteWake, Notified, GotOperation, GotDataset, Exit, Blocked
    <3>3. UNCHANGED <<app, newest, isr, inDone, host>>
      BY <3>1 DEF TaskStep, WaitStart, Take, Check, Start, Refuse, ReadWake, WriteWake,
                  GotOperation, GotDataset, Exit
    <3>4. app \notin {"closing", "notify"}
      BY <2>1, <3>2 DEF Blocked
    <3>5. QED BY <2>1, <3>3, <3>4 DEF Closing
  <2>3. CASE DeviceOperation \/ DeviceDataset \/ DeviceReceive \/ DeviceBulkIn \/ DeviceGive
    <3>1. app' = app /\ ~Closing
      BY <2>1, <2>3 DEF DeviceOperation, DeviceDataset, DeviceReceive, DeviceBulkIn, DeviceGive,
           Seen, Makes, When, HostOperation, HostDataset, HostReceive, BulkIn, ConfiguredGive,
           Closing
    <3>2. QED BY <3>1 DEF Closing
  <2>4. CASE DeviceReset \/ DeviceConfigured
    <3>1. /\ UNCHANGED <<app, newest, pc, note, inDone>>
          /\ host' \in {host, "idle"}
          /\ Closing => isr' = isr
      BY <1>1, <2>4 DEF DeviceReset, DeviceConfigured, Seen, Reset, Configured, DropTransfers,
                        NeedWake
    <3>2. QED BY <2>1, <3>1 DEF Closing, Live, Blocked
  <2>5. CASE DeviceStop
    <3>1. CASE Alone(CloseRunning)
      BY <2>1, <3>1 DEF Alone, CloseRunning, Closing, Live, Blocked
    <3>2. CASE Alone(CloseNotify) \/ Alone(CloseWaiting) \/ Alone(CloseOther)
      BY <2>1, <3>2 DEF Alone, CloseNotify, CloseWaiting, CloseOther, Closing
    <3>3. CASE DeviceDeinitialize \/ Alone(Pause)
      BY <3>3 DEF DeviceDeinitialize, Deinitialize, Alone, Pause, Closing
    <3>4. QED BY <2>5, <3>1, <3>2, <3>3 DEF DeviceStop
  <2>6. QED BY <1>4, <2>2, <2>3, <2>4, <2>5 DEF DeviceNext
<1>5. QED BY <1>2, <1>3, <1>4

\* In every state of the device, whatever troubles it met, the calls of its task follow
\* the host's transaction while it runs, and it uses freed memory only where it was
\* stopped at work or asked while it was stopped.
THEOREM DeviceInvariant == DeviceSpec => [](LifeInv /\ DeviceInv)
<1>1. DeviceInit => DeviceInv
  BY DEF DeviceInit, Init, DeviceInv, Down, Alive, Closing
<1>2. LifeInv /\ DeviceInv /\ [DeviceNext]_deviceVars => DeviceInv'
  <2> SUFFICES ASSUME LifeInv, DeviceInv, [DeviceNext]_deviceVars PROVE DeviceInv'
    OBVIOUS
  <2>1. CASE DeviceNext
    <3>1. disconnects' = 0
      BY <2>1, DeviceStepIsUsbStep, UsbStepIsNext DEF DeviceInv
    <3>2. QED BY <2>1, <3>1, StrayNext, SteadyNext, DownNext DEF DeviceInv
  <2>2. CASE UNCHANGED deviceVars
    BY <2>2 DEF deviceVars, vars, ghosts, DeviceInv, Down, Alive, Closing, Live, Blocked, Steady,
         Still, Running, Phase, Received, Asked, Before, Punctual, Sent, Clear, Awaited, Turn,
         Written, BusQuiet
  <2>3. QED BY <2>1, <2>2
<1>3. QED BY <1>1, <1>2, DeviceLife, PTL DEF DeviceSpec

\* A device that runs is up, and its task's calls follow the host's transaction.
LEMMA RunningPhase ==
  ASSUME LifeInv, DeviceInv, status = "RUN"
  PROVE  newest \in Tasks /\ Phase(newest) /\ TypeOK /\ app = "up"
         /\ \A t \in Tasks : pc[t] = "start" => t = newest
<1>1. app = "up"
  BY DEF LifeInv, StartInv, AppPlaces, HandleIsNewest, TypeOK, AppPCs
<1>2. newest \in Tasks /\ Phase(newest) /\ TypeOK
  BY <1>1, HandleIsAlive DEF Alive, Steady, Running
<1>3. \A t \in Tasks : pc[t] = "start" => t = newest
  BY DEF LifeInv, StartInv, OthersQuiet, Quiet
<1>4. QED BY <1>1, <1>2, <1>3

\* Two writes overlap only in a life in which a callback came late: although nobody
\* waits for the end of a response, usb_write is otherwise called only when the
\* transfer before it has ended and its callback has run; resets, configurations that
\* come too early and a stop at any moment do not change that.
THEOREM OverlapOnlyIfLateAlways == DeviceSpec => []OverlapOnlyIfLate
<1>1. ASSUME LifeInv, DeviceInv PROVE OverlapOnlyIfLate
  <2> SUFFICES ASSUME "late" \notin trouble, NEW t \in Tasks, status = "RUN",
                      pc[t] = "start", site[t] \in WriteSites
               PROVE  inflight = "none" /\ ~inDone
    BY DEF OverlapOnlyIfLate, NoOverlappedWrite
  <2>1. t = newest /\ Phase(newest)
    BY <1>1, RunningPhase
  <2>2. QED BY <2>1 DEF Phase, Turn, Sent, Clear
<1>2. QED BY <1>1, DeviceInvariant, PTL

\* A response is on its way only while the host waits for one, also when a late
\* callback made the task start it over a write that had not ended.
THEOREM ResponseExpectedAlways == DeviceSpec => []ResponseExpected
<1>1. ASSUME LifeInv, DeviceInv PROVE ResponseExpected
  <2> SUFFICES ASSUME app = "up", "reset" \notin trouble, inflight = "response"
               PROVE  host = "listen"
    BY DEF ResponseExpected
  <2>1. CASE status = "RUN"
    <3>1. Phase(newest) /\ site[newest] \in ReadSites \cup WriteSites
      BY <1>1, <2>1, RunningPhase DEF TypeOK
    <3>2. QED BY <3>1
              DEF Phase, Asked, Before, Sent, Clear, Awaited, Turn, Written, ReadSites
  <2>2. CASE status # "RUN"
    BY <1>1, <2>2, HandleIsAlive
       DEF Alive, Steady, Still, BusQuiet, Up, Awake, TypeOK, Statuses
  <2>3. QED BY <2>1, <2>2
<1>2. QED BY <1>1, DeviceInvariant, PTL

-----------------------------------------------------------------------------
(***************************************************************************)
(* The device does nothing that Responder does not allow.                  *)
(***************************************************************************)

PromiseInv == LifeInv /\ DeviceInv /\ Unbroken

Calm == trouble \cap {"reset", "overlap", "hasty"} = {}

\* The steps of Responder, with its variables replaced.
LEMMA PromiseSteps ==
  /\ DeviceState' = DeviceState /\ Sound' = Sound /\ Request' = Request
       => [Promise!Next]_(Promise!vars)
  /\ DeviceState = "down" /\ DeviceState' = "up" /\ Sound' = Sound /\ Request' = Request
       => Promise!Next
  /\ DeviceState = "up" /\ Request = "none" /\ Sound /\ Request' = "received"
       /\ DeviceState' = DeviceState /\ Sound' = Sound
       => Promise!Next
  /\ Request = "received" /\ Request' = "answering"
       /\ DeviceState' = DeviceState /\ Sound' = Sound
       => Promise!Next
  /\ Request = "answering" /\ Request' = "none"
       /\ DeviceState' = DeviceState /\ Sound' = Sound
       => Promise!Next
  /\ Sound' = FALSE /\ Request' = "none" /\ DeviceState' = DeviceState
       => Promise!Next
  /\ DeviceState = "up" /\ Request = "none" /\ DeviceState' = "stopping"
       /\ Sound' = Sound /\ Request' = Request
       => Promise!Next
  /\ DeviceState = "up" /\ DeviceState' = "stopping" /\ Sound' = FALSE /\ Request' = "none"
       => Promise!Next
  /\ DeviceState = "stopping" /\ DeviceState' = "down" /\ Sound' = TRUE /\ Request' = "none"
       => Promise!Next
  /\ DeviceState = "stopping" /\ DeviceState' = "lost" /\ Sound' = FALSE /\ Request' = "none"
       => Promise!Next
BY DEF Promise!Next, Promise!vars, Promise!Start, Promise!Ask, Promise!CarryOut,
       Promise!Answer, Promise!Break, Promise!Stop, Promise!End, Promise!Lose

\* What the refinement mapping makes of a state.
LEMMA Mapping ==
  /\ Sound \in BOOLEAN
  /\ DeviceState = "down" => Sound = TRUE
  /\ Calm => Sound = TRUE
  /\ DeviceState # "down" /\ ~Calm => Sound = FALSE /\ Request = "none"
  /\ host = "idle" => Request = "none"
  /\ stray => DeviceState = "lost"
BY DEF Sound, Calm, Request, DeviceState

LEMMA MappingNext ==
  /\ Sound' \in BOOLEAN
  /\ DeviceState' = "down" => Sound' = TRUE
  /\ Calm' => Sound' = TRUE
  /\ DeviceState' # "down" /\ ~Calm' => Sound' = FALSE /\ Request' = "none"
  /\ host' = "idle" => Request' = "none"
  /\ stray' => DeviceState' = "lost"
BY DEF Sound, Calm, Request, DeviceState

\* The host has a request only while the device is up and runs, or it was broken.
LEMMA RequestsOfRunning ==
  ASSUME LifeInv, DeviceInv
  PROVE  /\ app \notin Connected => host = "idle"
         /\ host # "idle" /\ Calm => app = "up" /\ status = "RUN"
<1>1. app \notin Connected => host = "idle"
  BY DEF LifeInv, BusIdle, StartInv, AppPlaces
<1>2. ASSUME host # "idle", Calm PROVE app = "up" /\ status = "RUN"
  <2>1. "hasty" \notin trouble /\ "reset" \notin trouble
    BY <1>2 DEF Calm
  <2>2. app = "up"
    BY <1>1, <1>2, <2>1 DEF DeviceInv, Down, Closing, Connected
  <2>3. status = "RUN"
    BY <1>2, <2>1, <2>2, HandleIsAlive
       DEF Alive, Steady, Still, BusQuiet, Up, Awake, TypeOK, Statuses
  <2>4. QED BY <2>2, <2>3
<1>3. QED BY <1>1, <1>2

\* A step that uses freed memory loses the device.
LEMMA PromiseLost ==
  ASSUME PromiseInv, DeviceInv', ~stray, stray', app \in {"closing", "notify", "stopped"}
  PROVE  Promise!Next
<1>1. DeviceState = "stopping" /\ DeviceState' = "lost"
  BY DEF DeviceState, Connected
<1>2. ~Calm'
  BY DEF DeviceInv, Calm
<1>3. QED BY <1>1, <1>2, MappingNext, PromiseSteps

LEMMA PromiseTask ==
  ASSUME PromiseInv, DeviceInv', NEW t \in Tasks, DeviceTask(t)
  PROVE  [Promise!Next]_(Promise!vars)
<1>1. /\ UNCHANGED <<app, cur, host>> /\ TypeOK /\ pc[t] \notin {"none", "dead"}
      /\ TaskStep(t) /\ ~stray
      /\ trouble' = IF Overlaps(t) THEN trouble \cup {"overlap"} ELSE trouble
  BY DEF PromiseInv, LifeInv, StartInv, DeviceTask, When, TaskStep, WaitStart, Take, Check,
         Start, Refuse, ReadWake, WriteWake, GotOperation, GotDataset, Exit
<1>2. t = newest
  BY <1>1, StepIsNewest DEF PromiseInv, LifeInv
<1>3. ~stray'
  BY <1>1, <1>2, StepIsNewest, SlotAssumption
     DEF PromiseInv, LifeInv, TaskStep, WaitStart, Take, Check, Start, Refuse, ReadCb, WriteCb,
         ReadWake, WriteWake, GotOperation, GotDataset, Exit, Live
<1>4. CASE Exit(t)
  <2>1. pc[t] = "exit" /\ pc'[t] = "dead" /\ trouble' = trouble /\ owed' = owed
    BY <1>1, <1>4 DEF Exit, TypeOK, Overlaps
  <2>2. cur = t /\ app \notin Between
    BY <1>1, <2>1, StepIsNewest DEF PromiseInv, LifeInv
  <2>3. app \in {"closing", "notify", "stopped", "pause"}
    BY <1>1, <1>2, <2>1, <2>2, StepIsNewest, HandleIsAlive
       DEF PromiseInv, LifeInv, Alive, Up, Awake, TypeOK, AppPCs
  <2>4. CASE app = "pause"
    <3>1. DeviceState = "stopping" /\ DeviceState' = "down"
      BY <1>1, <1>3, <2>1, <2>2, <2>4, SlotAssumption DEF DeviceState, Live, Connected
    <3>2. host' = "idle"
      BY <1>1, <2>4, RequestsOfRunning DEF PromiseInv, Connected
    <3>3. QED BY <3>1, <3>2, MappingNext, PromiseSteps
  <2>5. CASE app # "pause"
    <3>1. DeviceState = "stopping" /\ DeviceState' = "stopping"
      BY <1>1, <1>3, <2>3, <2>5 DEF DeviceState, Connected
    <3>2. Sound' = Sound /\ Request' = Request
      BY <1>1, <2>1, <3>1 DEF Sound, Request
    <3>3. QED BY <3>1, <3>2, PromiseSteps
  <2>6. QED BY <2>4, <2>5
<1>5. CASE ~Exit(t)
  <2>1. \A u \in Tasks : pc'[u] \in {"none", "dead"} <=> pc[u] \in {"none", "dead"}
    BY <1>1, <1>5 DEF TypeOK, TaskStep, WaitStart, Take, Check, Start, AfterCall, Refuse,
         ReadWake, WriteWake, GotOperation, GotDataset
  <2>2. Live(cur)' <=> Live(cur)
    BY <1>1, <2>1 DEF Live, TypeOK
  <2>3. DeviceState' = DeviceState
    BY <1>1, <1>3, <2>2 DEF DeviceState
  <2>4. CASE Overlaps(t)
    <3>1. app = "up" /\ ~Calm'
      BY <1>1, <2>4, RunningPhase DEF PromiseInv, Overlaps, Calm
    <3>2. DeviceState' # "down"
      BY <1>1, <1>3, <3>1 DEF DeviceState
    <3>3. QED BY <2>3, <3>1, <3>2, MappingNext, PromiseSteps
  <2>5. CASE ~Overlaps(t) /\ (host = "idle" \/ owed' = owed \/ ~Sound)
    <3>1. Sound' = Sound
      BY <1>1, <2>3, <2>5 DEF Sound
    <3>2. Request' = Request
      BY <1>1, <2>5, <3>1 DEF Request
    <3>3. QED BY <2>3, <3>1, <3>2, PromiseSteps
  <2>6. CASE ~Overlaps(t) /\ host # "idle" /\ owed' # owed /\ Sound
    <3>1. GotOperation(t) /\ owed' = FALSE
      BY <1>1, <1>5, <2>6 DEF TaskStep, WaitStart, Take, Check, Start, Refuse, ReadWake,
           WriteWake, GotOperation, GotDataset
    <3>2. Calm
      BY <1>1, <2>6, RequestsOfRunning
         DEF PromiseInv, Sound, Calm, DeviceState, Connected
    <3>3. app = "up" /\ status = "RUN"
      BY <2>6, <3>2, RequestsOfRunning DEF PromiseInv
    <3>4. Asked(t)
      BY <1>2, <3>1, <3>3, RunningPhase DEF PromiseInv, Phase, Received, GotOperation
    <3>5. Sound' = Sound
      BY <1>1, <2>3, <2>6 DEF Sound
    <3>6. Request = "received" /\ Request' = "answering"
      BY <1>1, <2>6, <3>1, <3>4, <3>5 DEF Request, Asked
    <3>7. QED BY <2>3, <3>5, <3>6, PromiseSteps
  <2>7. QED BY <2>4, <2>5, <2>6
<1>6. QED BY <1>4, <1>5

LEMMA PromiseHost ==
  ASSUME PromiseInv, DeviceInv', DeviceOperation \/ DeviceDataset \/ DeviceReceive
  PROVE  [Promise!Next]_(Promise!vars)
<1>1. /\ app \in Connected /\ UNCHANGED <<app, cur, pc>> /\ ~stray
  BY BusIsConnected DEF PromiseInv, DeviceOperation, DeviceDataset, DeviceReceive, Seen, HostStep
<1>2. CASE stray'
  BY <1>1, <1>2, PromiseLost DEF DeviceInv, Closing
<1>3. CASE ~stray' /\ ~Calm'
  <2>1. DeviceState' = DeviceState /\ DeviceState' # "down"
    BY <1>1, <1>3 DEF DeviceState, Live
  <2>2. QED BY <1>3, <2>1, MappingNext, PromiseSteps
<1>4. CASE ~stray' /\ Calm'
  <2>1. DeviceState' = DeviceState /\ DeviceState # "down"
    BY <1>1, <1>4 DEF DeviceState, Live
  <2>2. Calm /\ Sound = TRUE /\ Sound' = TRUE
    BY <1>4, Mapping, MappingNext
       DEF DeviceOperation, DeviceDataset, DeviceReceive, Makes, ghosts, Calm
  <2>3. CASE DeviceOperation
    <3>1. /\ app = "up" /\ host = "idle" /\ host' # "idle" /\ owed' = TRUE
      BY <1>4, <2>3 DEF DeviceOperation, Seen, Makes, When, Calm, HostOperation
    <3>2. DeviceState = "up" /\ Request = "none" /\ Request' = "received"
      BY <1>1, <2>2, <3>1 DEF DeviceState, Request
    <3>3. QED BY <2>1, <2>2, <3>2, PromiseSteps
  <2>4. CASE DeviceDataset
    <3>1. Request' = Request
      BY <2>2, <2>4 DEF DeviceDataset, Seen, HostDataset, Request
    <3>2. QED BY <2>1, <2>2, <3>1, PromiseSteps
  <2>5. CASE DeviceReceive
    <3>1. host = "listen" /\ inflight # "none" /\ owed' = owed
          /\ host' = IF inflight = "response" THEN "idle" ELSE "listen"
      BY <2>5 DEF DeviceReceive, Seen, HostReceive
    <3>2. Phase(newest) /\ site[newest] \in ReadSites \cup WriteSites
      BY <2>2, <3>1, RequestsOfRunning, RunningPhase DEF PromiseInv, TypeOK
    <3>3. CASE inflight = "response"
      <4>1. ~owed
        BY <3>2, <3>3
           DEF Phase, Asked, Before, Sent, Clear, Awaited, Turn, Written, ReadSites
      <4>2. Request = "answering" /\ Request' = "none"
        BY <2>2, <3>1, <3>3, <4>1 DEF Request
      <4>3. QED BY <2>1, <2>2, <4>2, PromiseSteps
    <3>4. CASE inflight # "response"
      <4>1. Request' = Request
        BY <2>2, <3>1, <3>4 DEF Request
      <4>2. QED BY <2>1, <2>2, <4>1, PromiseSteps
    <3>5. QED BY <3>3, <3>4
  <2>6. QED BY <2>3, <2>4, <2>5
<1>5. QED BY <1>2, <1>3, <1>4

LEMMA PromiseInterrupt ==
  ASSUME PromiseInv, DeviceInv', DeviceReset \/ DeviceBulkIn \/ DeviceConfigured \/ DeviceGive
  PROVE  [Promise!Next]_(Promise!vars)
<1>1. app \in Connected /\ UNCHANGED <<app, cur, pc, owed>> /\ ~stray
  BY BusIsConnected DEF PromiseInv, DeviceReset, DeviceBulkIn, DeviceConfigured, DeviceGive, Seen,
                        Reset, BulkIn, Configured, ConfiguredGive
<1>2. CASE stray'
  BY <1>1, <1>2, PromiseLost DEF DeviceInv, Closing
<1>3. CASE ~stray'
  <2>1. DeviceState' = DeviceState /\ DeviceState # "down"
    BY <1>1, <1>3 DEF DeviceState, Live
  <2>2. CASE ~Calm'
    BY <2>1, <2>2, MappingNext, PromiseSteps
  <2>3. CASE Calm' /\ (DeviceBulkIn \/ DeviceConfigured \/ DeviceGive)
    <3>1. host' = host /\ (Calm' <=> Calm)
      BY <2>3 DEF DeviceBulkIn, DeviceConfigured, DeviceGive, Seen, BulkIn, Configured,
                  ConfiguredGive, Makes, When, ghosts, Calm
    <3>2. Sound' = Sound
      BY <2>1, <2>3, <3>1, Mapping, MappingNext
    <3>3. Request' = Request
      BY <1>1, <3>1, <3>2 DEF Request
    <3>4. QED BY <2>1, <3>2, <3>3, PromiseSteps
  <2>4. CASE Calm' /\ DeviceReset
    <3>1. host' = "idle" /\ status # "RUN" /\ Calm
      BY <2>4 DEF DeviceReset, Seen, Reset, DropTransfers, Makes, Calm
    <3>2. host = "idle"
      BY <3>1, RequestsOfRunning DEF PromiseInv
    <3>3. QED BY <2>1, <2>4, <3>1, <3>2, Mapping, MappingNext, PromiseSteps
  <2>5. QED BY <2>2, <2>3, <2>4
<1>4. QED BY <1>2, <1>3

LEMMA PromiseStart ==
  ASSUME PromiseInv, DeviceStart
  PROVE  [Promise!Next]_(Promise!vars)
<1>1. host = "idle" /\ host' = "idle" /\ ~stray /\ ~stray'
  BY RequestsOfRunning
     DEF PromiseInv, DeviceStart, Alone, DeviceInitStatus, DeviceConnect, InitStatus, CreateTask,
         CreateNothing, AssignHandle, Connect, Connected
<1>2. CASE DeviceConnect
  <2>1. app = "connect" /\ app' = "up" /\ Calm /\ Calm'
    BY <1>2 DEF DeviceConnect, Connect, ghosts, PromiseInv, Unbroken, Calm
  <2>2. DeviceState = "down" /\ DeviceState' = "up"
    BY <1>1, <2>1 DEF DeviceState, Connected
  <2>3. QED BY <1>1, <2>1, <2>2, Mapping, MappingNext, PromiseSteps
<1>3. CASE ~DeviceConnect
  <2>1. DeviceState = "down" /\ DeviceState' = "down"
    BY <1>1, <1>3 DEF DeviceStart, Alone, DeviceInitStatus, InitStatus, CreateTask, CreateNothing,
         AssignHandle, DeviceState, Connected
  <2>2. QED BY <1>1, <2>1, Mapping, MappingNext, PromiseSteps
<1>4. QED BY <1>2, <1>3

LEMMA PromiseClose ==
  ASSUME PromiseInv, DeviceClose
  PROVE  [Promise!Next]_(Promise!vars)
<1>1. /\ app = "up" /\ app' = "closing" /\ UNCHANGED <<host, owed>> /\ ~stray /\ ~stray'
  BY DEF DeviceClose, Close
<1>2. DeviceState = "up" /\ DeviceState' = "stopping"
  BY <1>1 DEF DeviceState, Connected
<1>3. CASE Calm'
  <2>1. host = "idle" /\ Calm
    BY <1>3 DEF DeviceClose, Makes, When, AtRest, Calm
  <2>2. QED BY <1>1, <1>2, <1>3, <2>1, Mapping, MappingNext, PromiseSteps
<1>4. CASE ~Calm'
  BY <1>2, <1>4, MappingNext, PromiseSteps
<1>5. QED BY <1>3, <1>4

LEMMA PromiseStop ==
  ASSUME PromiseInv, DeviceInv', DeviceStop
  PROVE  [Promise!Next]_(Promise!vars)
<1>1. ~stray /\ UNCHANGED <<cur, pc, owed, trouble>> /\ (host' = host \/ host' = "idle")
  BY DEF DeviceStop, Alone, ghosts, CloseRunning, CloseNotify, CloseWaiting, CloseOther,
         DeviceDeinitialize, Deinitialize, DropTransfers, Pause
<1>2. host # "idle" => app \in Connected /\ (Calm => app = "up")
  BY RequestsOfRunning DEF PromiseInv
<1>3. CASE Alone(CloseRunning) \/ Alone(CloseNotify) \/ Alone(CloseWaiting) \/ Alone(CloseOther)
  <2>1. app \in {"closing", "notify", "stopped"} /\ app' \in {"notify", "stopped"} /\ host' = host
    BY <1>3 DEF Alone, CloseRunning, CloseNotify, CloseWaiting, CloseOther
  <2>2. CASE stray'
    BY <1>1, <2>1, <2>2, PromiseLost
  <2>3. CASE ~stray'
    <3>1. DeviceState = "stopping" /\ DeviceState' = "stopping"
      BY <1>1, <2>1, <2>3 DEF DeviceState, Connected
    <3>2. Sound' = Sound /\ Request' = Request
      BY <1>1, <2>1, <3>1 DEF Sound, Request
    <3>3. QED BY <3>1, <3>2, PromiseSteps
  <2>4. QED BY <2>2, <2>3
<1>4. CASE DeviceDeinitialize
  <2>1. app = "stopped" /\ app' = "pause" /\ ~stray' /\ host' = "idle"
    BY <1>1, <1>4 DEF DeviceDeinitialize, Deinitialize, DropTransfers
  <2>2. DeviceState = "stopping" /\ DeviceState' \in {"stopping", "down"}
    BY <1>1, <2>1 DEF DeviceState, Connected
  <2>3. CASE DeviceState' = "down"
    BY <2>1, <2>2, <2>3, MappingNext, PromiseSteps
  <2>4. CASE DeviceState' = "stopping"
    <3>1. Sound' = Sound
      BY <1>1, <2>2, <2>4 DEF Sound
    <3>2. Request = "none" /\ Request' = "none"
      BY <1>2, <2>1, <2>2, Mapping, MappingNext
    <3>3. QED BY <2>2, <2>4, <3>1, <3>2, PromiseSteps
  <2>5. QED BY <2>2, <2>3, <2>4
<1>5. CASE Alone(Pause)
  <2>1. app = "pause" /\ app' = "off" /\ ~stray' /\ host = "idle" /\ host' = "idle"
    BY <1>1, <1>2, <1>5 DEF Alone, Pause, Connected
  <2>2. DeviceState \in {"stopping", "down"} /\ DeviceState' = "down"
    BY <1>1, <2>1 DEF DeviceState, Connected
  <2>3. QED BY <2>1, <2>2, Mapping, MappingNext, PromiseSteps
<1>6. QED BY <1>3, <1>4, <1>5 DEF DeviceStop

LEMMA UnbrokenNext ==
  ASSUME LifeInv, Unbroken, [DeviceNext]_deviceVars
  PROVE  Unbroken'
<1> DEFINE Starting == app \in {"create", "assign", "connect"}
<1>1. CASE DeviceInitStatus
  BY <1>1 DEF DeviceInitStatus, Unbroken
<1>2. CASE \E t \in Tasks : DeviceTask(t)
  <2>1. PICK t \in Tasks : DeviceTask(t)
    BY <1>2
  <2>2. app' = app /\ (Overlaps(t) => app = "up")
    BY <2>1 DEF DeviceTask, TaskStep, WaitStart, Take, Check, Start, Refuse, ReadWake, WriteWake,
         GotOperation, GotDataset, Exit, Overlaps, LifeInv, StartInv, AppPlaces, HandleIsNewest,
         TypeOK, AppPCs
  <2>3. QED BY <2>1, <2>2 DEF DeviceTask, When, Unbroken
<1>3. CASE \/ DeviceOperation \/ DeviceDataset \/ DeviceReceive
           \/ DeviceBulkIn \/ DeviceReset \/ DeviceConfigured \/ DeviceGive
  <2>1. app' = app /\ app \in Connected
    BY <1>3, BusIsConnected DEF DeviceOperation, DeviceDataset, DeviceReceive, DeviceBulkIn,
         DeviceReset, DeviceConfigured, DeviceGive, Seen, HostStep
  <2>2. QED BY <2>1 DEF Unbroken, Connected
<1>4. CASE DeviceClose \/ DeviceStop
  <2>1. ~Starting'
    BY <1>4 DEF DeviceClose, Close, DeviceStop, Alone, CloseRunning, CloseNotify, CloseWaiting,
         CloseOther, DeviceDeinitialize, Deinitialize, Pause
  <2>2. QED BY <2>1 DEF Unbroken
<1>5. CASE (DeviceStart /\ ~DeviceInitStatus) \/ UNCHANGED deviceVars
  <2>1. trouble' = trouble /\ (Starting' => Starting)
    BY <1>5 DEF DeviceStart, Alone, CreateTask, CreateNothing, AssignHandle, DeviceConnect,
         Connect, ghosts, deviceVars, vars
  <2>2. QED BY <2>1 DEF Unbroken
<1>6. QED BY <1>1, <1>2, <1>3, <1>4, <1>5 DEF DeviceNext

\* The safety part of KeepsPromise: one operation at a time, carried out once, after it
\* was received and before it is answered; every step of the device is one that
\* Responder allows, or none of its.
THEOREM PromiseIsSafe == DeviceSpec => Promise!Init /\ [][Promise!Next]_(Promise!vars)
<1>1. DeviceInit => Promise!Init /\ Unbroken
  BY DEF DeviceInit, Init, Promise!Init, DeviceState, Sound, Request, Unbroken, Connected
<1>2. LifeInv /\ Unbroken /\ [DeviceNext]_deviceVars => Unbroken'
  BY UnbrokenNext
<1>3. PromiseInv /\ DeviceInv' /\ [DeviceNext]_deviceVars => [Promise!Next]_(Promise!vars)
  <2> SUFFICES ASSUME PromiseInv, DeviceInv', [DeviceNext]_deviceVars
               PROVE  [Promise!Next]_(Promise!vars)
    OBVIOUS
  <2>1. CASE DeviceNext
    BY <2>1, PromiseTask, PromiseHost, PromiseInterrupt, PromiseStart, PromiseClose, PromiseStop
       DEF DeviceNext
  <2>2. CASE UNCHANGED deviceVars
    <3>1. UNCHANGED <<app, cur, pc, host, owed, stray, trouble>>
      BY <2>2 DEF deviceVars, vars, ghosts
    <3>2. DeviceState' = DeviceState /\ Sound' = Sound /\ Request' = Request
      BY <3>1 DEF DeviceState, Live, Sound, Request
    <3>3. QED BY <3>2, PromiseSteps
  <2>3. QED BY <2>1, <2>2
<1>4. DeviceSpec => [](LifeInv /\ DeviceInv)
  BY DeviceInvariant
<1>5. QED BY <1>1, <1>2, <1>3, <1>4, PTL DEF DeviceSpec, PromiseInv
=============================================================================
