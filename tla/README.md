# Verification of esp_cherryusb

TLA+ modules, TLC runs and TLAPS proofs for the code of this repository: the
ESP-IDF port of the CherryUSB stack with its examples. The stack itself
(CherryUSB) is a git submodule and FreeRTOS is part of ESP-IDF; neither is in the
repository, so both appear only as the environment that the code uses.

## 1. Inventory

Paths: `MTP/` is `src/examples/device/cherryusb_device_mtp/`, `mtp/` is
`MTP/components/esp_mtp/`.

| part | state | operations | module |
|---|---|---|---|
| MTP USB glue, `mtp/usb_mtp.c` | `s_mtp_status`, `s_handle`, `s_mtp_task_handle` | `usb_wait_start`, `usb_read`, `usb_write`, endpoint callbacks, `mtp_notify_handler`, `usbd_mtp_init_intf`, `usbd_mtp_deinit` | `UsbMtp`, `MtpDevice` |
| MTP responder, `mtp/esp_mtp.c` | the handle: buffer, `async_read_len`, task, handle list | `esp_mtp_task` and an operation each for twelve requests | `UsbMtp` (transfer phases), `GetObject`, `SendObject`, `Datasets` |
| handle list, `mtp/esp_mtp_helper.c` | blocks of 64 entries, `count` | add, find, clean, fill_handle_array | `MtpStore` |
| string and date conversion, `mtp/esp_mtp_helper.c` | none | UTF-8 to UTF-16 and back, dates | `Utf`, `Datasets` |
| MTP application, `MTP/main/device_mtp_main.c` | none of its own | start, run ten seconds, stop, half a second, again | `UsbMtp`, `MtpDevice` |
| CDC example, `device_cdc_main.c` | `write_buffer`, `write_buffer_len`, `ep_tx_busy_flag` | poll and send; OUT and IN callbacks; events | `CdcEcho` |
| HID host example, `host_hid_main.c` | `hid_buffer`, `prev_keys`, mouse position | report callbacks, thread per interface | `HidHost` |
| OS abstraction, `additions/osal/usb_osal_idf.c` | FreeRTOS objects | threads, semaphores, mutexes, queues, timers, critical section | threads in `HidHost` |
| low level, `additions/esp_cherryusb.c` | `s_phy_handle`, `s_interrupt_handle` | init and deinit for device and host | `LowLevel` |
| SD card set-up, configuration, build, component test | - | - | not modelled |

How they interact. The responder is one task. It calls `wait_start`, `read` and
`write` of the glue; the glue starts transfers of the stack, and the stack's
interrupt calls the endpoint callbacks, which store `async_read_len` and notify
the task. `app_main` starts and stops all of this while the task and the
interrupt run. What the three share: `s_mtp_status` (under a spinlock in five
places, without it in `usb_read` and `usb_write`), `s_handle` (no lock),
`async_read_len` (no lock), and the task's notification value, which carries a
read bit, a write bit and the counting "give" at once. The CDC example shares a
buffer, a length and a flag between `app_main` and the interrupt, without a lock.

What is hard: the interleavings of task, interrupt and `app_main`; a reset, an
unplug or a stop at any moment, with the handle freed by the task while others
hold it; the end of data phases (short packets, empty packets); one buffer that
is filled and sent at the same time. `PROJECT.json` lists each hazard at its line.

What makes each part correct:

- glue and responder: a configured device comes to read; every operation is answered
  once; a stopped task ends and frees its handle; no wait for a transfer that nobody
  started; no transfer over another;
- download: the bytes of the file in order, the announced length, a short packet at
  the end and only there;
- upload: the file on the card as it was sent, success only when it is complete;
- handle list: a handle names what is on the card, one handle per object, listings
  that agree with the card;
- datasets and names: a host that goes through them by their counts finds every
  field; a name is cut between characters only; what is announced is understood;
- CDC echo: every message back, in order, and none in another's place;
- HID keyboard: events that alternate and add up to the last report.

## 2. Modules

| module | models | extends |
|---|---|---|
| `TaskNotify` | a FreeRTOS task notification as this code uses it | |
| `UsbMtp` | `usb_mtp.c`, the loop of `esp_mtp_task`, `app_main` of the example, interrupt, host | `TaskNotify` |
| `LowLevel` | `esp_cherryusb.c`: PHY and interrupt | |
| `MtpDevice` | the MTP device over its low level, life after life; fairness and liveness | `UsbMtp`, `LowLevel` |
| `Responder` | abstract: what the device promises its host and application | |
| `ByteStream` | abstract: what a download and an upload promise | |
| `GetObject` | `_get_object_common`, `check_usb_len_mps_and_send_end`, `get_partial_object` | |
| `SendObject` | `send_object_info`, `send_object` with the main loop around them | |
| `MtpStore` | handle list and card under listing, upload, deletion, end of session | |
| `Utf` | the conversions of names | |
| `Datasets` | what the responder tells of itself, its storage and an object, and what it understands of an announced object | `Utf` |
| `CdcEcho` | the CDC example | |
| `HidHost` | the HID host example over its low level | `LowLevel` |
| `UsbMtpProofs` | types of `UsbMtp`, no start lost, and the life of a device | `UsbMtp` |
| `MtpDeviceProofs` | `MtpDevice`, its safety as a `Responder` included | `MtpDevice`, `UsbMtpProofs` |
| `GetObjectProofs` | `GetObject`, as a `ByteStream` included | `GetObject` |
| `SendObjectProofs` | `SendObject`, as a `ByteStream` included | `SendObject` |
| `MtpStoreProofs` | `MtpStore` | `MtpStore` |
| `DatasetsProofs` | `Datasets`, with what the loops of `Utf` compute | `Datasets` |
| `CdcEchoProofs` | `CdcEcho` | `CdcEcho` |
| `HidHostProofs` | the keyboard of `HidHost` | `HidHost` |
| `MC...` | values of the constants for the runs | the module they name |

**UsbMtp.** `status` is `s_mtp_status`; `cur` is `s_handle` (assigned together with
the task handle); `newest` is the handle that `esp_mtp_init` has returned and
`usbd_mtp_init_intf` has not assigned yet. A member of `Tasks` is a piece of heap that
holds a handle and its task; a freed one can be allocated again, which is how a late
interrupt may meet a new handle at an old address. `pc`, `site`, `note`, `rlen` belong
to the task: `usb_wait_start` is `WaitStart` (set INIT under the lock) and `Take`
(sleep); `usb_read` and `usb_write` are `Check` (first read of the status, without
lock) and `Start`/`Refuse` (the second read, and the effect), because an interrupt may
change the status in between; then `await` the notification. `ReadWake` and
`WriteWake` are the two loops over `xTaskNotifyWait`, with the bits they clear and the
bits they leave. The interrupt's handlers are one action each, except that CONFIGURED
releases its lock before it notifies (`Configured`, `ConfiguredGive`). `usbd_mtp_deinit`
is `Close` (under the lock), then per saved status a store of the exit length and a
notification (`CloseRunning`, `CloseNotify`), a notification (`CloseWaiting`) or
nothing (`CloseOther`). It comes at any moment, as `app_main` waits for nothing but the
time. When `malloc` or `xTaskCreate` fails there is no handle to look the task up in, and
nothing comes after that (`CreateNothing`). The use of freed memory sets the ghost
`stray`, and no step follows it. The operations are reduced to what they transfer; what they do
with files is in the other modules.

**MtpDevice** composes `UsbMtp` with `LowLevel`: `usbd_initialize` takes PHY and
interrupt, each of which may fail and neither of which anybody looks at, and
`usbd_deinitialize` gives them back. Without both there is no interrupt, so the steps of
interrupt and host are the ones of `UsbMtp` under `Seen`. Host, interrupt and application
do what they can do in `UsbMtp`, and some of it in an unlucky moment breaks what one would
like to promise. The ghost `trouble` remembers which of these happened in the present life:

- `reset`: a bus reset met a running device, which then stays silent (line 82 of
  `usb_mtp.c`);
- `early`: CONFIGURED met a task that was not yet in `usb_wait_start`, and is lost until the
  next reset (line 89);
- `late`: an operation's OUT callback came before the IN callback of the response that went
  before (two cores), so that its notification can end the wait of the next write (line 84 of
  `esp_mtp.c`);
- `overlap`: a write was started over one whose callback had not run;
- `hasty`: the device was stopped while it worked, or asked while it was stopped (line 195 of
  `usb_mtp.c`);
- `torn`: `usbd_mtp_deinit` ran between the two halves of CONFIGURED's handler (two cores),
  so that the handler's Give turns the task's read bit into the write bit (line 94).

Each property names the trouble it excepts, and no other: without the excuse the same run
finds a violation (but for `overlap`, see section 3). A new life begins with none. The
module states the fairness and everything that must happen in the end.

**Responder** and **ByteStream** are the promises. `Responder` has a device that is
down, up or stopping, and one request that is received, carried out and answered; a
connection that is broken promises nothing more, and such a device may be lost when it is
stopped (it used freed memory).
`KeepsPromise` in `MtpDevice` maps `app` and the task's life to the device, and `host`
and `owed` to the request. `ByteStream` carries bytes in order and tells one result,
"ok" only when all are there; `CarriesTheFile` in `GetObject` maps it to what the host
got (header included), in `SendObject` to what the card got and what the host was told.

**GetObject** and **SendObject** keep one buffer, place by place, scaled down: a header
of one byte, packets of two, halves of four. `buff[p]` is the byte of the data
container that place `p` holds, so that a byte overwritten too early, skipped or
doubled shows in `delivered` (the host's) or `file` (the card's). Each file access,
each start of a transfer and each wait is a step of the task; each packet is a step of
the controller. In `SendObject` a bus reset may come at any moment: from then on
`usb_read` and `usb_write` return at once, and only a read that the reset dropped keeps
the task waiting (`LeftWaiting`). `Stamp` is the path for `utime`, which is put together
in the buffer of a response that may not have been fetched yet.

**MtpStore.** `entries[i]` is the entry of handle `i`; `PathOf` is the recursion of
`esp_mtp_file_list_find`. The card is a set of paths. Only the responder task touches
either, so that an operation is one action; errors that change nothing are `Refused`.
Three ghosts name the cases in which handles and card part: `dropped`, handles of
deleted objects; `revived`, the host used one of those; `partial`, folders the list came
to know in part, because an object was sent into them before they were listed or
because an entry could not be added. A deletion leaves what it cannot delete (`kept`, any
set of the objects below: `unlink`, `rmdir` and `opendir` may fail), what has too long a
path, and the folders on the way there; it answers OK whatever is left.

**Utf** and **Datasets.** A dataset is the sequence of its bytes. `Room` is the byte
through which the room for a string is handed to the conversion; `Utf16` and `Utf8` are
the two conversions, a loop each, whose rounds `Rounds` carries out: a name may take
hundreds of them. The responder's four datasets are built
field by field, with the fixed texts abstracted to their lengths and the dates to
strings of fifteen characters. A name is a sequence of characters, each with its bytes on
the card and its unit for the host, or with none when it takes four bytes or is broken off
(`HasUnit`, `HasNone`): names that FatFs writes, in which no character takes more bytes
than it needs. In the other direction `Understood` goes through an
announced dataset by its counts, and `StaleBytes` are what may lie behind its end. The
properties go through the bytes as a host does (`NextTimes`), independently of how they
were built. Of an announcement they assume (`AnnouncementAssumption`) that its strings have
a count of a byte, and that its keywords, which hosts leave empty, do not spell a date one
byte further on (`Spells`: fourteen or more units, of which the first fifteen all have a
low byte of 0). An absent date has no terminator, so that the code looks at the next
string's bytes in its place.

A date is taken as the same date when it comes back: `strptime` and `mktime` undo
`localtime_r` and the formatting. `strptime` leaves `tm_isdst` unset, which `mktime` would
look at in a time zone with summer time only; nothing in the repository sets a time zone.

**LowLevel.** Device and host mode go through the same steps over the same two handles,
so that one module serves `MtpDevice` and `HidHost`. It has no properties of its own.

**CdcEcho.** `app_main`'s loop line by line (`Poll`, `Mark`, `StartWrite`, `Clear`,
`Spin`), each callback one action. `writeBuf` holds, per byte, the number of the
message it came from. The ghosts `overlapped`, `erased` and `cut` name what excuses
a lost echo: the host sent on without waiting, a message came between
`usbd_ep_start_write` and the line after it, a reset came in the middle of an echo.

**HidHost.** The keyboard's callback slot by slot (`Release`, `Press`, `Copy`), so that
the controller could refill `hid_buffer` in between if the transfer were submitted too
early. `down[k]` counts presses less releases. The stack is initialised once; a failure
of the low level leaves a host that finds no device (`Deaf`). The thread of a device may
not be created, the device may go while the thread is still at its requests, and the stack may
refuse a transfer (`refused`), which nobody notices. All interfaces share `hid_buffer`: any
keyboard may have another one, whose reports come into the buffer at any moment
(`OtherInterface`). The ghost `overwrites` counts those that came over a keyboard's report
which was not done with, and what the keyboard is claimed to tell ends with the first.

## 3. Runs

| run | instance | states | shows |
|---|---|---|---|
| `steady` | 2 slots, 2 troubles made by host, interrupt or application, low level failures | 204 000 | over any number of lives: writes overlap only after a late callback, responses come only when expected; every request carried out and answered once, every device started, every task ended, each but for the trouble it names: the device implements `Responder` |
| `replug` | 2 slots; resets, one unplugging, late IN callbacks, stop at any time | 1 550 000 | types; no start lost, its inductive invariant, no operation carried out twice; until the first unplugging no wait without a transfer, a running device keeps its task, and a freed handle is used only while the device is stopped |
| `stop` | the same, no unplugging | | **violation**: a handle is used after it was freed |
| `stream` | every size 0 to 14 and every part inside; halves of 4; any file read fails | 8 000 | lengths, packets and transfers of a download, and an answer; it implements `ByteStream`: the bytes in order, success only for all of them |
| `to_end` | an offset to the end of the file | | **violation**: no answer |
| `upload` | every size 0 to 14, folders; failing writes, odd hosts, a reset | 7 500 | lengths, reads and handle of an upload, and an answer; it implements `ByteStream`: the bytes in order, success only for all of them |
| `listing` | every card of at most 2 objects and a path too deep, 2 names, depth 2, 3 handles; any host, no memory, deletions that fail | 208 000 | the card stays a tree, handles and listings agree with it |
| `blocks` | blocks of 2 entries | | **violation**: a listing of the root misses objects |
| `datasets` | names of 0 to 255 bytes around every limit, all sizes of characters | 580 | datasets whole, names and dates told and understood, copies kept |
| `echo` | 3 messages of 0 to 3 bytes, packets of 2, any host, a reset | 101 000 | no message in another's place but the one that overwrote it, no transfer over another, echoes in order, none lost without an excuse |
| `erased` | the same | | **violation**: a message is never echoed |
| `keys` | 2 keys, 2 slots; replugging between devices and refused transfers at any moment, another interface that overwrites one report, low level failures | 137 000 | events alternate and add up to the report, until one is overwritten; a device is asked again after a NAK and after a report |

`TypeOK` of `GetObject`, `CdcEcho` and `HidHost` holds in their runs' instances too (the last
until a report is overwritten); it is proved, and the runs spend their properties on behaviour.

Why the bounds are enough. Two heap slots: one task ends while the next is made, which the
half second in `app_main` separates; a task that a reset leaves asleep keeps its slot, so
that the second such life is the last one of a run. Two troubles: each alone, every pair,
and one in each of two lives. One unplugging: the status machine forgets everything of the
connection before, and the counter exists only to keep the endless plugging finite. Files
of 14 with halves of 4: no part, one, two (both halves), three (the first half again) and
a remainder, each with lengths at, below and above a multiple of the packet and of the
half. Two names and depth two: files beside folders, files in folders, and, of depth
three, the ones whose path no longer fits. Blocks of two: the size of a block is a
constant of the source (64), and nothing but the position of an entry in its block depends
on it; where blocks are not the question they are left at 64. Names: the constants of the
source (254 bytes on the way in, 101 units on the way out, 68 or 101 with both dates) are
kept, and the lengths of the run lie on both sides of each, with one, two and three bytes
a character and a character without a unit at the start, in the middle and at the end.
Three messages: one echoed, one pending, one that arrives in between. Two keys in two
slots: full reports, moves between slots, in both orders, and rollover. One overwritten
report: what comes after it is not claimed anything of but that the device is asked again.

Switches of the environment, all constants:

- `MaxBreaks`, `MaxDisconnects` (UsbMtp, MtpDevice): bounds on what makes trouble, in all
  lives together, and on unplugging. The notification of an unplugging can be lost or be
  taken for a read that ended (hazard at line 99), hence `NoStuckWait`, `LiveWhileUp` and
  `FreedOnlyInStop` name `disconnects = 0`, and `MtpDevice` has no unplugging.
- There is no switch for the order of host, task, callbacks and application: the host
  configures, resets and asks when it likes, an IN callback may run after the next OUT
  callback, and the application stops at any moment. `overlap` is excepted from
  `KeepsPromise` because what the controller does with a second transfer on an endpoint is
  not in the repository; the model lets it take the place of the first.
- `Prefetch` (GetObject): how much of a transfer the controller has taken when the next
  file read ends. The interleaving of the file read with the transfer is bounded from
  below by it: the last twelve bytes of a half are the first of the other, and the copy of
  the tail relies on the controller being ahead by a header (`PrefetchAssumption`): twelve
  bytes of a packet while the card is read. No line of the repository bounds the card's or
  the controller's speed, so that this stays an assumption. A file read that fails on the
  first part is followed by a wait that nothing ends (`FirstReadFailed`).
- `StoreFails`, `OddHost`, `MayReset` (SendObject): failing card writes; a host that
  sends another operation or a wrong header; a bus reset. The last twelve bytes of the
  buffer, which only the main loop's reads could use, are left out.
- `AllocFails` (MtpStore): an allocation that fails. `Cards` are finite trees
  (`CardAssumption`).
- `MaxOverwrites` (HidHost): bound on the reports that another interface overwrites.
- `MaxResets`, `BufferLen` (CdcEcho): bound on the bus resets; the size of
  `write_buffer`, which the callback is never given more than.

`CHECK_DEADLOCK FALSE` stands where the system may really stop: a responder whose device
is not connected or was lost, an application that found no memory, an echo loop after
the last message or after a reset in mid-transfer, a request that is never answered.

Fairness. Tasks: FreeRTOS runs a ready task, and nothing of higher priority in the
example computes for ever. Callbacks: a served interrupt runs to its end. The host is
fair only in going on with a transaction it began (it sends its dataset, takes what is
sent); nothing makes it plug in, configure or ask. `app_main` is fair because
`vTaskDelay` returns. All fairness is weak.

## 4. Findings

- `to_end` (`esp_mtp.c:476`): GetPartialObject from an offset to the end of the file
  waits for a transfer that was not started, and is never answered.
- `blocks` (`esp_mtp_helper.c:234`): with more than one block of entries a listing looks
  into the wrong block.
- `stop` (`usb_mtp.c:196`): `usbd_mtp_deinit` sets CLOSE and uses the handle after that; a
  task that is not asleep sees CLOSE first, frees the handle and ends.
- `erased` (`device_cdc_main.c:108`): the length of a message that arrives after the
  start of the transfer before it is reset to zero.

Some more behaviours have no line of the repository against them and are kept as
hazards or named exceptions: a file read that fails on the first part of a download is
never answered (`FirstReadFailed`); `MTP_OPERATION_CLOSE_SESSION` is listed as supported
and not dispatched, so that it is refused like an unknown operation; an upload that
fills its last half to the brim leaves an empty packet which the main loop takes for
`ESP_MTP_STOP_CMD`, so that the session's handles are forgotten (`ToTheBrim` in
`SendObject`); a stop of a device that was reset while it ran, or that is being configured,
leaves its task asleep and its memory taken (`reset` and `torn`); a callback that comes late
lets a write start over another (`late`); a host that configures too early is not served
before its next reset (`early`); the room for a date passes through a `uint8_t`
(`esp_mtp.c:389`), so that after a name of 69 to 84 units the modification date, of 85 to 99
both dates, and of 100 the creation date is cut or empty although the buffer has room
(`LeavesRoom` in `Datasets`; longer names are cut at 101 units, and both dates are whole); the
two interfaces of a keyboard, as the one in the HID example's README has, share `hid_buffer`,
and the report of one is overwritten by the other's (`overwrites` in `HidHost`); the comment
at line 288 of `host_hid_main.c` says of that buffer "test with only one buffer, if you have
more hid class, modify by yourself".

## 5. Proofs

The theorems hold for every value of the constants that the named assumptions allow:
any set of heap slots, any bound, any size of header, packet, half, block and file, any
card. They use those assumptions only (`SlotAssumption`, `BoundAssumption` of `UsbMtp`;
`BreakAssumption` of `MtpDevice`; `SizeAssumption`,
`PrefetchAssumption`, `RequestAssumption` of `GetObject`; and so on), which the runs
evaluate. A theorem that needs more says so after ASSUME. Each inductive invariant was
checked by TLC on the instances of section 3 before it was proved (of `ListInv` all but
`OnePath`, which TLC cannot enumerate).

| component | proved | by which invariant |
|---|---|---|
| `UsbMtp` | `TypeCorrect`, `StartInvariant`, `StartNeverLost` (`NoLostStart`) | `StartInv` |
| `UsbMtp` | `OperationAtMostOnce` (`AtMostOnce`) | `OnceInv` |
| `UsbMtp` | `TaskOutlivesResets` (`LiveWhileUp`), `NoWaitIsStuck` (`NoStuckWait`), `FreedOnlyInStopAlways` (`FreedOnlyInStop`) | `LifeInv` |
| `MtpDevice` | `DeviceInvariant`, `OverlapOnlyIfLateAlways`, `ResponseExpectedAlways`, `PromiseIsSafe` | `DeviceInv` with `LifeInv` |
| `GetObject` | `TypeCorrect`, `OneTransferAlways`, `DownloadIsAStream` (`CarriesTheFile`), `ShortAtEndOnlyAlways`, `CompleteAlways` | `DownloadInv` |
| `SendObject` | `TypeCorrect`, `HandleIntactAlways`, `OneReadAlways`, `NoStrayStopAlways`, `UploadIsAStream` | `UploadInv` |
| `MtpStore` | `TypeCorrect`, `HandlesStayValid` (`HandleValid`) | `TreeInv` |
| `MtpStore`, one block | `NoTwoHandlesEver` (`NoTwoHandles`), `ListingsAreExact` (`ListingExact`) | `ListInv` |
| `Datasets` | `DatasetsWalkEnds` (`WalkEnds`), `DatasetsObjectTold` (`ObjectTold`), `DatasetsAnnouncedTaken` (`AnnouncedTaken`), `DatasetsCopyKept` (`CopyKept`) | `Carried` |
| `CdcEcho` | `OneTransferAlways`, `EchoesFreshAlways`, `EchoesInOrderAlways` | `EchoInv`, `FreshInv`, `InOrder` |
| `HidHost` | `AlternateAlways`, `ToldIsReportedAlways` | `KeyInv`, as long as nothing was overwritten (`WholeInv`) |

**UsbMtp, the start.** `NoLostStart` alone is not inductive: from an arbitrary state the
notification could go to another handle than the one that sleeps, or an old task could
change the status behind the new one's back. `StartInv` adds that only the newest task
can move (`OthersQuiet`), that `s_handle` is that task's from `usbd_initialize` on and
that a new task cannot get past `usb_wait_start` before (`HandleIsNewest`), and what
`app_main`'s place says about status and controller (`AppPlaces`). The proof has one
lemma per actor: a task's step, the interrupt and host, the application. `Pause` assumes
that the old task has ended or is blocked when `app_main` initialises again; the proof
rests on it. It is the half second at line 154 of `device_mtp_main.c`.

**UsbMtp, the life of a device.** That an operation is dispatched once needs that a
container in the buffer is an operation only until it is dispatched (`OnceInv`), and
`StartInv` for who may dispatch. `LifeInv` says of the newest task, while the application
runs the device and until the first unplugging, which status, bits and length it can
meet at each of its places: after a reset at most one transfer is started, by a call
that had seen RUN, and what it leaves is gone when the task is woken again. It holds for
hosts of any pace and for late IN callbacks; a running task's wait always has its
transfer, the end of it, or its notification. While the device is up
the handle that the interrupt uses and the one whose buffer is read into are the living
task's, from which `FreedOnlyInStopAlways` follows.

**MtpDevice.** A step of the device is one of `UsbMtp`, so `LifeInv` holds in every life.
Nothing is assumed of host, callbacks and application. `DeviceInv` gives each place of a
running task the phase of controller and host that belongs to it (`Phase`), and nothing on the
bus to one that is not started and was not reset (`Still`). What a late callback can leave
behind - a notification too many, a transfer of the write before - is in it as well: the parts
of a phase that speak of those are conditioned on `late`, the others hold whatever order the
callbacks come in, which is why `ResponseExpectedAlways` and `PromiseIsSafe` do not need to
except it. Without `late` no write can start over another, which is `OverlapOnlyIfLateAlways`.
A device that is stopped at rest (`Down`) sleeps until it is told, and memory is used after it
was freed only while the application closes a device that was not (`hasty`). `PromiseIsSafe` is the
safety part of `KeepsPromise`: initial states map to initial states, and every step is one of
`Responder` or none.

**GetObject.** `DownloadInv` has the sizes at each place of the loop (`Progress`), whose
turn it is (`Turns`), that a transfer under way lies in the half that is not being read
into (`Halves`), and the number of the byte that each place of the buffer holds
(`Filled`, `Stream`): the header's length of bytes that two parts share must have been
taken before the read that replaces them, which is `PrefetchAssumption`. From it the
download implements `ByteStream`. `CompleteAlways` assumes that every request has
offset 0 or an offset inside its file; of other requests the code announces the length
of the file and sends nothing, which is the finding `to_end`.

**SendObject.** `UploadInv` relates host and responder (where the host is when the
responder is at each of its places, `Phases`), the reads and what a read may leave
(`Reads`, `Lengths`), the bytes in each half (`Contents`), and how much of the file is
on the card, in the buffer and to come (`OnCard`, which also holds after a failing
write). `UploadIsAStream` is `Spec => Abstract!Spec`, all of `CarriesTheFile` but the
fairness of its result. Failing writes, odd hosts and a reset at any moment are
included.

**MtpStore.** `PathOf` is recursive. That it has a value needs no induction over the
handles: the responder's steps are the induction, in that that exactly one function fits
the recursion, and that its values are paths, is an invariant (`OnePath`), which a step
that adds entries keeps because their parents are older (`FitsLonger`). `HandlesStayValid`
assumes `MaxEntries <= ParentRange` (the hazard at line 159 of `esp_mtp_helper.c` is what
happens beyond). `NoTwoHandlesEver` and `ListingsAreExact` also assume `MaxEntries <=
BlockSize`, a session whose handles fit one block of 64: with more the listing looks into
the wrong block, which is the finding `blocks`. `ListInv` adds to the two properties that,
as long as the host leaves the handles of deleted objects alone, a live entry is in a live
folder (a deletion takes the children of what it removes, but for what has a path too long
for the buffer and the folders on the way there: `RemainingUp`), and that a folder of
which the list has an entry is there as a whole, unless it is marked as known in part
(`WholeFolders`). The directory's names in any order, all or the first few, are counted
with the library's facts about finite sets (`ListedNames`).

**Datasets.** The invariant `Carried` only says which dataset the buffer holds and of what
`made` is made; the proof is about what the operators compute, for names, dates and sizes
of any length. The library's induction theorems take an operator, which the provers
cannot instantiate. `Least` (every set of numbers has a least one) does without:
`Induction` follows for sets of numbers, and with it that exactly one function fits the
recursion of `Rounds` (`IteratesOnce`), so that the states of a loop are known when each
leads to the next (`RoundsReach`). On this rest, from the bottom:

- a number, a unit and a string are read as they were written (`NumberRead`,
  `StringRead`), also when more is put behind them (`StringKept`);
- one round of either conversion: `UnitAtUnit` (the bytes of a unit are the unit again,
  by its three lengths), `UnitAtNone`, `PutUnit`; all rounds: `NameTold` (the units of the
  characters before the first without one, as many as there is room for) and `Utf8Are`
  (`FittingName`, whole characters);
- texts that are added one after the other, each cut by the room that its place leaves
  (`HeldStrings`, `CutsAre`), and a host that goes by the counts (`WalkAre`);
- each dataset as a whole: `ObjectInfoAre`, `StorageInfoAre`, `DeviceInfoAre`,
  `AnnouncedAre`; and what `send_object_info` makes of it: `AnnouncedMade`, `CopyMade`,
  with `TimeStamp` for a date and `TimeAbsent` for one that is left out.

They assume of names and announcements what section 2 says (`StampAssumption`,
`ObjectAssumption`, `AnnouncementAssumption`), and of the sizes that the buffer has 4096
bytes for a dataset and the room passes through eight bits (`SizeAssumption`).

**CdcEcho.** `EchoInv`: the busy flag covers every transfer and its callback
(`TransferOwned`), and every echo, done, under way or due, has a message of its own
(`Counted`). For a host that waits for its echo and is not cut by a reset, `EchoOfOne`
follows the newest message from the buffer through the transfers to the host. For any other
host `FreshInv` says which messages each byte of the buffer and of the echo under way can come
from: all are later than what was echoed, but for the last echo's own message when it was
fetched in another's place and its length is still to be sent.

**HidHost.** `KeyInv`: the buffer is the callback's until the transfer is submitted again
(`Owner`), and, of each key, what was told after so many slots of the report before and
so many of the new one (`Told`). Keys are distinct in a keyboard's report (`Distinct`). From
the first report that another interface overwrites nothing is claimed (`WholeInv`).

Only model-checked:

- everything that must happen in the end (`Started`, `TeardownEnds`, the liveness of
  `Responder` and of `ByteStream`, `Answered`, `AskedAgain`, `SpinEnds`, and the echoes
  that arrive, `EchoesAllButErased`): the prover handles neither fairness nor ENABLED.

Every invariant and every action property of the runs is also a theorem, under the
assumptions that it names. The four properties of the runs with a violation are false.

## 6. Not modelled, and the plan

Not modelled:

- the class request handler, `open_session`, `get_thumb`: no state;
- `usb_osal_idf.c` but for threads: wrappers of FreeRTOS that only the stack calls, and
  how it calls them is not in the repository. (Read on its own, `usb_osal_timer_delete`
  frees what a timer that is just expiring may still use, and `usb_osal_timer_create`
  keeps its memory when the timer cannot be made.)
- `usb_hc_low_level_deinit`: the device's line by line, without a caller;
- the number of handles that fit the buffer when a folder is listed (hazard at line 286
  of `esp_mtp.c`);
- what the controller does with a second transfer on an endpoint (`overlap`), and a time zone
  with summer time;
- SD card set-up (a fixed sequence of driver calls), configuration, linker files, the
  empty component test; the mouse's counters, which are only printed.

What stays open:

1. `ListingExact` without the bound of one block, for the listings that the block's
   look-up still gets right (a folder whose handle and children lie in the first block).
2. The liveness properties stay with TLC.
