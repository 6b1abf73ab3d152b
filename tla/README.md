# A TLA+ model of the modem download tools

`mdmfastboot` is a Windows MFC program that operators in a factory or a repair shop use to put
firmware on Qualcomm based modems (the *MIFI* platform) and routers (the *CPE* platform). Its own
code is in `src/mdmfastboot` (the application) and `src/src` (the libraries it shares with the
other tools of the repository). This directory models the parts of it that decide whether a device
ends up with the right firmware, checks them with TLC and proves their main properties with TLAPS.

## 1. Inventory

For each component: its state, its operations, whom it talks to, what is hard about it, and what
makes it correct.

### Port scheduler — `mdmfastboot/PST.cpp`, `PST.h`, handlers of `mdmfastbootDlg.cpp`
* State: `PSTManager` holds `m_bWork` and one `UsbWorkData` per UI port: `stat` (IDLE, WORKING,
  SWITCH, FINISH, ...), the `usb` handle, `mActiveDevIntf`, `mMapDevIntf` (the slot a port is bound
  to), the manual-reset event `mDevSwitchEvt`, and the worker thread `work`.
* Operations: on the UI thread `SetWork`, `HandleComDevice`, `EnumerateAdbDevice`,
  `HandleDeviceRemoved`, `FlashDeviceDone`, `ScheduleDeviceWork`, `Reset`; on a worker
  `RunMiFiPST` with `WaitForDevSwitchEvt`, `SetInfo`, `Finish`.
* Interactions: window messages from Windows (arrival, removal) and from the workers (FLASH_DONE);
  workers and the UI thread share ports and devices without any lock.
* Hard: the interleaving of the UI thread with the workers, modems that leave and come back in
  another mode, timeouts, cables pulled at any time.
* Correct when: one port per device, one live worker for every working port, no signal without a
  device, no use of a freed handle or of a NULL device, the UI thread never stuck, every modem served.

### Device coordinator and USB handles — `src/device.cpp`, `src/usb_windows.cpp`
* State: the list `mDevintfList` of `DeviceInterfaces` (slot, the interfaces seen so far,
  attached or not) and `handle_list`, the open USB handles.
* Operations: `AddDevice`, `SetIntf`, `GetValidDevice`, `GetDevice`, `RemoveDevice`, `Reset`,
  `find_devices`, `usb_close`.
* Hard: one modem shows up as several interfaces, and again after a reboot; pointers are copied into
  ports and threads.
* Correct when: one object per slot and nobody holds one that was removed.

### Fastboot session — `mdmfastboot/fastbootflash.cpp`
* State: the action list (download, command, query), the position in it, `flashed_size`.
* Operations: `fb_queue_display`, `fb_queue_flash`, `fb_execute_queue`, `_command_send`,
  `check_response`, `fb_download_data`.
* Interactions: text commands and four-letter answers (OKAY, FAIL, DATA, INFO) with the bootloader.
* Hard: INFO lines in between, refusals at every step, a short grant, the cable.
* Correct when: a partition only ever gets its own image, whole, in the order of the package; the
  two sides stay in step; the session ends; what the port shows is what happened.

### Image download over the serial port — `src/hostdl.cpp` on `src/pkt.cpp`, `src/serialport.cpp`
* State: the entry of `FileBufMap`, the address within it, the retry counters; the port's buffers.
* Operations: `SendDummyData`, `SendHelloPacket`, `SendSecMode`, `SendPrtnTbl`,
  `SendOpenPacketUsePrtn`, `SendWritePacket`, `SendClosePacket`, `SendResetCmd`, `GetAck`.
* Interactions: HDLC frames with the programmer that Sahara loaded.
* Hard: timeouts against late answers, resends of what was already done, an answer nobody reads,
  errors the code decided to ignore.
* Correct when: what the host takes for written is written, in its own partition, in order; the
  download ends with any device.

### Sahara — `src/saharacmd.cpp` under `mdmfastboot/DiagPST.cpp`
* State: where the dialogue stands, the offset and length served last, whether the modem is in
  emergency mode, the serial port with its buffers.
* Operations: the probes of `RequestDeviceStatus`, the command mode of `checkIfPackageMatchDlMode`,
  `SwitchToDLoadMode`, and `DownloadPrg_9X07` with its loop over READ_DATA.
* Interactions: packets with the boot ROM of the modem, which sends HELLO only once by itself.
* Hard: every `Send` purges what has arrived; a read that times out succeeds with no bytes, and the
  code goes on with what its buffers held; the end of the transfer is a guess.
* Correct when: a modem only runs a whole programmer, a modem in time always gets it, every loop
  ends, and no packet is copied into a structure shorter than it.

### DIAG flow — `mdmfastboot/DiagPST.cpp`, `flash_image` in `src/ConfigIni.cpp`
* State: per worker a copy of the package's file map with its `isDownload` flags, the result of the
  checks, the pieces of `custom_info.xml` written. The package itself, `flash_image`, with its own
  flags and `mDiagDlImgSize`, is shared by all workers without a lock.
* Operations: `DownloadCheck`, `RunTimeDiag`, `DownloadPrg`, `DownloadImages`, and
  `flash_image::GetDiagDlImgSize`, which changes the shared flags.
* Hard: phases that go on after a failure, several workers on one package, answers that name
  neither the request nor the offset they belong to.
* Correct when: a modem gets the boot images and nothing else, only after it was checked, and with
  the whole of `custom_info.xml`; every worker ends.

### DMSS programmer — `src/dlprg.cpp`
Only `SendNopCmd` is called (`DiagPST.cpp:129`), as the probe for a modem in DMSS mode. It is an
alternative in `Sahara` and `DiagFlow`; the download of the older chips is dead code.

### Diagnostic commands — `src/diagcmd.cpp`, `jrddiagcmd.cpp`, `jrdmmidiag.cpp`, `custdata.cpp`
One request and one answer per function with byte offsets; a few file loops (EFS read and write).

### CPE flow — `RunTelnetServer`, `CPEModemPST` in `PST.cpp`; `src/telnet.cpp`, `NicManager.cpp`
* State: the one UI port, the telnet threads, the modem behind the router with its device object
  and its two handles (adb and fastboot).
* Operations: Start and Stop, `RunTelnetServer`, `CPEModemPST`, `RunMiFiPST` with
  `WaitForDevSwitchEvt`, the UI thread's handling of arrivals, removals and OPENWRT_UPDATED.
* Hard: nothing ends a telnet thread; worker and UI thread both enumerate devices; the modem goes
  from adb to the bootloader while the session waits; Stop and Start at any time.
* Correct when: one session at a time works on the port, and every session comes to its report.

### HTTP download server — `src/CMiniHttpDownloadServer.cpp`
* State: `m_ServerWork`, `m_ServerPort`, the socket, the critical section `mStatusCs`.
* Operations: start, bind to the first free port, listen, accept, stop, `IsServerWorks`.
* Hard: every Start makes another server thread; the flag is set under a lock that the Stop which
  clears it does not take; `listen` may fail after `m_ServerPort` was moved.
* Correct when: a server that says it works is there.

### adb host — `src/adbhost.cpp`, `transport_usb.cpp`, `adb_auth_host.cpp`, `mdmfastboot/AdbPST.cpp`
* State: the stream of the current call, the growing buffer of `handle_shell_response`, the rest of
  a packet in `packet_buffer`, the file copied.
* Operations: `connect`, `shell`, `reboot_bootloader`, `sync_push`, `sync_pull`, `close_remote`.
* Hard: the arithmetic of the buffer's growth and what `realloc` does with it, DATA cut into packets at any byte, a call that fails
  in the middle and leaves its rest to the next one, a device that leaves the bus.
* Correct when: the buffer holds what is put into it, the output and the files come over whole and
  in order, and a call ends.

### Not part of the model
Parsers (the rest of `ConfigIni`, `ImgUnpack`, `XmlParser`, `QcnParser`), logging and utilities, painting and
settings; the separate tools `OpenWrtProgrammer`, `ZigBeeFlashProgrammer`, `FreeportLiveDeploy`,
`GetProfile`, `CPEReliabilityTool`, `deviceswitch`, `autorun`; vendored code in `libs`,
`InstallPacket` and `tftpd32`. The reasons are in `PROJECT.json`, under `components`.

## 2. Modules

| module | models | kind |
|---|---|---|
| `FlashPlan` | what any flashing session promises about the partitions | abstract specification |
| `Fastboot` | `fastbootflash.cpp` and its use in `RunMiFiPST` | component, implements `FlashPlan` |
| `FastbootProofs` | theorems about `Fastboot` | proofs |
| `HostDl` | `hostdl.cpp` over `pkt.cpp` and `serialport.cpp`, as `DiagPST::DownloadImages` drives it | component, implements `FlashPlan` |
| `HostDlProofs` | theorems about `HostDl` | proofs |
| `DevicePool` | `device.cpp`, `find_devices` | component, extended by `PortScheduler` |
| `PortScheduler` | `PST.cpp` and the dialog's handlers | composition of ports, workers and devices |
| `PortSchedulerProofs` | theorems about `PortScheduler` and `DevicePool` | proofs |
| `Sahara` | `saharacmd.cpp` over `serialport.cpp`, as one run of `DiagPST` drives it | component |
| `SaharaProofs` | theorems about `Sahara` | proofs |
| `DiagFlow` | `DiagPST.cpp` in several workers, `GetDiagDlImgSize` | composition of workers on one package |
| `DiagFlowProofs` | theorems about `DiagFlow` | proofs |
| `AdbHost` | `adbhost.cpp` over `transport_usb.cpp` | component |
| `AdbHostProofs` | theorems about the types and the buffer of `AdbHost` | proofs |
| `AdbStreamProofs` | theorems about the output of a shell and the files copied in `AdbHost`, extends `AdbHostProofs` | proofs |
| `CpeFlow` | the router update of `PST.cpp` and the file server | composition of UI thread, sessions, servers, modem |
| `CpeFlowProofs` | theorems about `CpeFlow` | proofs |
| `MC...` | small instances of `Fastboot`, `HostDl`, `PortScheduler`, `Sahara`, `DiagFlow`, `AdbHost`, `CpeFlow` | TLC |

`Sahara`, `HostDl` and `Fastboot` are the detail of single steps of `DiagFlow` (`DownloadPrg`,
`DLoadImages`, `FlashDone`), which takes every outcome they may have; `DiagFlow` is in turn the
detail of the DIAG step of `PortScheduler`.

### Fastboot
`queue` is the action list of `queue_action`; `pos` the action `fb_execute_queue` is at; `pc` where
the worker is in `_command_send` and `check_response`: *status* (waiting for the answer to a
command), *data*, *final* (the answer after the data). `out` and `inp` are the two bulk pipes: one
message each, as the host never sends before it has read. The bootloader (external) has a staging
buffer `staged` and its partitions `content`. A blob of bytes is the image it was cut from and its
length: that is all the properties tell apart. A failed action ends the queue (`ActionDone`), but
`Report` shows *Device updated* whatever happened, as the code does.

### HostDl
`tx` holds commands on their way to the programmer, `rx` frames in the receive buffer of the port.
`Send` drops `rx` and any number of the last commands of `tx`: `CSerialPort::Send` purges both
buffers, and how much of an earlier command the driver had already passed on is not known. The
programmer answers the command at the head of `tx`; the answer can be garbled, a command lost, and
log lines put in between, `MaxNoise` times in all. A timeout of the host is possible whenever `rx`
is empty, so every answer can be late. Each frame carries, beside what is on the wire, the image it
is about: the host never reads that field, the properties do.

The retry loops of `SendHelloPacket`, `SendSecMode`, `SendOpenPacketUsePrtn` and `SendClosePacket`
never come round in the code: `NeedResend` asks for results with which the function has returned
before. So these actions try once, and only the outer HELLO loop and the loop of `SendWritePacket`
are `Retry` in the model.

### DevicePool and PortScheduler
`heap` are the `DeviceInterfaces` objects and `mDevintfList` the list of them; `bus` is what is
plugged in (external): the mode and the identity of the modem in each slot. The UI thread handles
one message at a time. The two loops of `ScheduleDeviceWork` are split into the reads and writes a
worker can come between, as no lock is held: the head of the loop (`SchedulePort`), the look for a
device (`PickDevice`), the look at the port (`LookAtPort`, lines 315 to 324), then statement by
statement `SetDevSwitchEvt` (status, test of the device, handle, attach, event), `SetDevice` (device,
handle, attach, status) and `Start` (thread, then the port's record of it). `ui` says where it is,
with the port, its item and the device it found. A worker's steps are split where another thread can
see a difference: `WaitForDevSwitchEvt` closes the handle, detaches the device and then waits;
`Finish` sets the status and then cleans. A fastboot session is one step here, with module
`Fastboot` as its detail, and the DIAG download is one step that succeeds or fails. A NULL
dereference, of a worker (`Crash`) or of the UI thread (`ScheduleCrash`), sets `crashed`; a use of
freed memory either crashes or goes on with what the memory still holds.

The UI thread and a worker can meet on one port, in two ways (`Race`): `SetDevice` is called for a
port whose worker is inside `Finish`, before its `Clean`; or a worker's `Clean` runs while the UI
thread is between its look at the port and the end of `SetDevSwitchEvt` or `Start`. `raced` records
that it happened and changes nothing. The code is wrong in both places (*Known behaviours* below);
the invariants about pairing say that there are no others: each holds until the first `Race`, and a
crash has one before it.

### Sahara
`pc` and `n` are the place in the dialogue and the turns of the loop there; `tx` and `rx` the packets
under way. The modem (external) has a state `dst`, the requests it is going to make (`plan`) and
what it got for each so far (`mem`); while it waits for data, whatever bytes come first are the data
it asked for. It may be late (`prompt` false: any timeout may come first), leave the bus on its way
into Sahara, repeat a request, ask for more than the port can send, or be unplugged. `Send` purges
`rx` and, for a modem that is late, may drop what was not passed on yet. `ServeRead` and `LeaveLoop` are the
body and the end of the READ_DATA loop, with the ways in which the code takes a transfer for
finished. Packets are kinds with an offset and a length; only the sizes of the packets and of
the structure they are copied to are kept as numbers.

### DiagFlow
`shared` and `size` are the package's flags and `mDiagDlImgSize`; `wk[w].flags` is the copy a worker
makes, file by file (`CopyMap`), while others clear flags (`SizeLoop`) and add up the size
(`SizeAdd`), each turn of these loops being a step. The checks and preparations are one action per
function of `DiagPST`, with the code's treatment of their results: where a result is overwritten or
ignored the action goes on. `custom_info.xml` is written piece by piece with timeouts, late answers,
pieces that are sent again when the port fails (`SendAgain`) and attempts that begin anew. `force` is chosen freely: `m_bForceMode` is never initialised.

### AdbHost
Calls follow one another on one object. A byte is its call and position, a header of the sync
protocol one element. `response`, `allocated` and `capacity` are the bytes, the size and the belief
about the free space in `handle_shell_response`, `memory` what its allocations have come to: a `realloc`
may find room where the buffer is (`Collect`), move it (`GrowMoved`), after which the `memset` at
line 382 goes through the old pointer and ends the program, hits nothing or the new buffer, or fail
(`GrowFailed`), which leaves the stream open and the next call to meet its packets. `packet` is what `readx` left of a packet. The
daemon (external) cuts its output and its DATA in any way, refuses a service, fails in the middle of
a file, closes the stream or leaves the bus; it waits for the OKAY of its WRTE, the host does not.

### CpeFlow
`session` are the telnet threads, `server` the server threads with the fields they share. `heap` are
device objects, `list` the one in the coordinator's list, `handle_list` the handles on the two
interfaces of the modem. A session's steps are split where the UI thread can see a difference: the
handle is closed, the port marked SWITCH, the device detached, then comes the wait. A server thread
binds, listens (or fails to, with `m_ServerPort` moved already), announces itself and loops; the
first three are under `mStatusCs`, for which other servers and `IsServerWorks` wait. A click is
handled in the code's order, `Click` (the port), `StopHttpServer` (the flag), `SendClose`
(CLOSE_SERVER), `ResetCoordinator` (the device list) and for Start `SetWork` (the threads), and
sessions and servers run between these steps. The operator may click at any time at which no message
waits. The telnet dialogue, an adb reboot and a fastboot session are single steps that succeed or
fail, and so is `SetDevSwitchEvt` here: `PortScheduler` has its statements. `Crash` is enabled where
a step would follow NULL or freed memory; for freed memory the step itself is possible too. `calm`
is history: when the session asked for the server no click was being handled and no other session
worked, and neither has come since. `crossed` is history too: a `Run` set the work flag after the
`StopHttpServer` that ends it had cleared it.

## 3. Runs

| run | question | result |
|---|---|---|
| `fastboot_session` | three images, the second not needed, sizes 2 and 1, INFO lines, refusals, short grants, torn writes, unplugging | order, staging, step, progress and end hold |
| `fastboot_updated` | does *Device updated* mean updated? | **violated** |
| `hostdl_download` | lost, late, garbled, refused, repeated, unplugged | nothing is taken for written that is not; the download ends |
| `ports_single` | one port that keeps to one slot, modems unplugged and Start/Stop clicked at any time | one object per slot; the first modem is served, unless stopped or pulled out |
| `ports_multi` | two ports, two slots, both modes, any interleaving and any timing, until the UI thread and a worker meet on one port | owners, devices, handles, events and workers stay paired |
| `ports_hang` | fixed map, a modem in a second slot | UI thread in an endless loop, **violated** |
| `sahara` | modems in either mode, late, away, repeating, oversize, unplugged | only a whole programmer runs, a modem in time gets it, the dialogue ends |
| `diag_flow` | two workers, modems of every mode, four packages | boot images, checks and custom_info.xml come out right; workers end |
| `adb` | three calls on one host, output and files cut in any way, refusals, a device that leaves, memory that moves or fails | the buffer's arithmetic; output and files while memory is sound; calls of `shell` end |
| `cpe` | Start, Stop, Start at any time: two sessions, two file servers, a modem from adb to fastboot | every session that was not disturbed ends, and has a server |
| `cpe_thread` | *one thread only*? | a Stop while the port is switching lets a second session in, **violated** |
| `cpe_adb_again` | the modem shows adb once more and stays away | the wait never times out, **violated** |

Each violated property is what a comment, a message or a test in the code says; `findings` in
`PROJECT.json` quotes it and says how the code gets there. `SessionEnds` is the same property in
`cpe` and in `cpe_adb_again`: it holds of a modem that goes from adb to the bootloader directly and
fails of the detour that the loop was written for.

### Known behaviours
What modelling showed beside these, and what the properties therefore do not claim. They have no
run of their own.

* *Ports.* A port whose worker is inside `Finish`, between lines 1179 and `Clean`, is neither free nor
  working, and `ScheduleDeviceWork` passes over working ports only (`PST.cpp:310`): it gets a device
  and a second worker, and the first one's `Clean` takes both away. `SetDevSwitchEvt` tests
  `mActiveDevIntf` at `PST.cpp:1069` and uses it at 1070 and 1072 without a lock: a worker that timed
  out may reach `Clean` in between, and the use is one of NULL; so is that of `Start` at line 1167, after
  a worker that failed at once. In the instance of `ports_multi` TLC reaches each of these within 40
  steps when `raced` is left out of the invariants. Afterwards a port may be left WORKING with no
  worker, until its modem is unplugged or Stop is clicked. While a modem restarts, the arrival of another one signals the waiting worker with a NULL
  handle (`PST.cpp:320`). The next modem in the slot of a finished one is not served: `Finish`
  cleaned the port, so that its removal finds no port, and `AddDevice` refuses its successor
  (`PST.cpp:1190`). `WM_QUIT` is posted to a worker without a message loop; such a worker may finish
  the port of the next modem (`PST.cpp:534`).
* *Image download.* A CLOSE that the programmer answers with *Close failed* is taken for a success,
  on purpose (`hostdl.cpp` 637 and 940): `flushed` may lack an image of a download that succeeded, and
  `FlushedWhole` only says that nothing partial is flushed. `SendPrtnTbl` rejects one status only
  (`hostdl.cpp:1097`). The percentage overflows for large images (`hostdl.cpp:776`).
* *Sahara.* The offsets of READ_DATA are not compared with the length of the image
  (`saharacmd.cpp:443`). A modem that leaves the bus uses up the attempts at HELLO at once, as they do
  not wait for a port that is not there; its HELLO is then read where READ_DATA is expected, whose
  structure is shorter. `CopyFits` is about modems that stay.
* *DIAG flow.* `m_bForceMode` and `m_bEraseSimlock` are never initialised (`DiagPST.h:87`). A package
  without fastboot images divides by zero (`DiagPST.cpp:781`). A late answer to a piece of
  `custom_info.xml` is taken for that of the next piece. An empty `custom_info.xml` is written for
  ever. A normal modem that stays silent is taken for one in emergency mode. Two workers in
  `GetDiagDlImgSize` may double or halve the size, which only moves the progress bar.
* *adb.* After a `realloc` that moves the buffer, the `memset` at `adbhost.cpp:382` still goes through
  the old pointer and writes outside of the new buffer. `BufferFits` is about the `memcpy` and the
  arithmetic, and says nothing of that. When an allocation fails, the stream stays open and its packets reach the next call on the
  host (`adbhost.cpp` 360 and 385): `ShellWhole` and `FilesInOrder` are said of hosts that had the
  memory they asked for. `readx` reads at most one packet. `sync_recv` closes a NULL file when the device fails before the
  file was created. The result of `write_data_file` is ignored. `close_remote` waits without a limit
  for a device that says nothing. `shell` returns 0 when the device has gone.
* *CPE.* Stop during the modem's update frees objects in use, and the session that goes on with them
  may crash the program or loop (`Disputed`). An arrival between the check of the handle and its
  closing is closed at once. A removal of adb that is handled before the port is marked SWITCH frees
  the device under the session. `StopHttpServer` clears the work flag without `mStatusCs` and then
  sends CLOSE_SERVER: a `Run` that listens but has yet to set the flag (`CMiniHttpDownloadServer.cpp`
  398 against 502) ends at the CLOSE_SERVER all the same, with the flag set, and from then on sessions
  are let through with nobody listening (`crossed`; `ServerReady` is said of the rest).
  `m_ServerPort` moves before the socket listens, and stays moved when `listen` fails or while a
  second server is about to listen on it: `ServerReady` says that a server listens, not on which port. A Stop or Start between the question and the fetch, minutes apart, stops the server
  that the router is told to fetch from. Start while the port is WAITING_CLOSE is absorbed without a
  message. `sysupgrade` is started whatever `wget` did, and the result of the fastboot session is
  ignored. Worker and UI thread both change the device list (`PST.cpp:792`); in the model an
  enumeration is one step.

### Bounds
* Packages have three images with one that is passed over, so that "the next one" differs from
  "one more", one image of two units (bytes or packets), so that it can be partial, and an image
  before and after it. Two disturbances (`MaxNoise`, `MaxInfo`) are enough for a resend whose first
  copy was executed and one more fault while its late answer is around; with `MaxResend = 3` the
  retry loop can both succeed on its last turn and end. For the safety properties of `Fastboot` and
  `HostDl` the bounds do not matter in the end: they are proved for all values, also that images are
  whole when the bootloader grants what it is asked for; `fastboot_session` lets it grant less.
* Two ports, two slots and two modems give every pair of owners. Three threads are one more than
  the ports, for a worker that outlives its job. One click starts the tool; two let it be stopped.
* `Unplugging` and `InTime` separate the questions. `ports_single`, which checks liveness, assumes
  `InTime` (a modem is away longer than its worker needs to begin to wait, which is a few statements,
  and shorter than the worker's timeout); the operator pulls out modems at any time and clicks twice,
  and one worker thread makes `AfxBeginThread` fail. `ports_multi` drops `InTime`. It follows a
  behaviour up to the first `Race`: its constraint, `NotRaced`, leaves out only states of which its
  invariants say nothing. What happens to ports after a race is kept in by `ports_single`, which has
  no constraint.
* `sahara` has fewer turns than the code (2, 2 and 3 for 3, 4 and 5): enough that an attempt can
  fail, the next succeed and the last one end the loop, and that one loop has more turns than
  another. The same properties also hold with the code's numbers (825,244 states). A plan of three
  requests comes back to its first range; one repeats a request at once; one exceeds `MaxSend`.
* `diag_flow` has two workers, as many as it takes for one to clear a flag while another copies the
  map. One package has a `custom_info.xml` of two pieces, so that one can be lost, one has two boot
  images, one an empty `custom_info.xml` and one nothing for fastboot. `UseAdb` is TRUE, which
  contains the paths of the other configuration. `MaxSends = 2` for the code's ten: one failed send
  and one more.
* `adb` has packets of three elements, so that a shell's output of seven needs two growths of the
  buffer and can fail at either, a file of three needs two DATA in some cuts and fits one in others.
  Three calls let the rest of one be found by a later one. The proofs are for every size.
* `cpe` has two sessions and three clicks (Start, Stop, Start), so that two sessions and two servers
  overlap, two rounds of looking for the modem, and one TCP port, so that a second server may find
  none. `ServerReady` and the types hold as well with a second TCP port and one round (2.4 million
  states, too many for a run kept here). `InTime` keeps what the modem does out of the moments
  between two adjacent waits of its session; it does not restrict the operator. `cpe_thread` needs
  three clicks and no fairness.
* The port, adb and CPE runs do not check deadlock: when all modems are done and nobody plugs in
  another one the system rests, and so it does when the calls or clicks are used up. Sessions and
  downloads have an explicit step for their end and are checked for deadlock.

### Fairness
* `HostDl`: weak fairness of the host only. Every wait has a timeout, so `DownloadEnds` holds with a
  programmer that never says a word.
* `Fastboot`: also weak fairness of the bootloader. `usb_read` repeats a read that timed out without
  a limit, so the end of a session rests on a bootloader that answers or leaves the bus.
* `PortScheduler`: the message loop and every thread run again and again, a modem that restarts
  comes back, and the operator presses Start. Plugging in, unplugging and timeouts are not fair.
* `Sahara`: the worker, and a modem that handles what it gets. In the model the timeout of a read
  waits for a modem that answers in time (`prompt`), so that such a modem has to take its steps; a
  late or unplugged one owes nothing, and the dialogue ends with it all the same.
* `DiagFlow`: each worker. Every wait for a modem has a timeout.
* `AdbHost`: the host within a call, and the device; `read_packet` waits without a limit.
* `CpeFlow`: each session and each server weakly, the message loop strongly (`InTime` may keep a
  message out of some moments). Nothing of the modem, the router or the operator.

### Mutants
Each property of a passing run has a mutant: a plausible slip in the code (a counter that is not
advanced, a comparison of addresses that is dropped, a queue that goes on after a failure) under
which TLC finds the property violated. They stand before the definition they mutate.

## 4. Proofs

All theorems hold for every package and every limit; the assumptions are the types of the constants
(`FilesAssumption`, `LimitsAssumption`, `AdbAssumption`, `DiagAssumption`, `SaharaAssumption`,
`CpeAssumption`, `PoolAssumption`, `PortsAssumption`, and those of `Fastboot`). TLC was asked about the inductive invariants on small instances
before they were proved.

**Fastboot.** `FlashStaged` and `InStep` are not inductive: whether the buffer holds the image of a
flash command depends on the action before it in the queue and on how its exchange went. `IndInv`
adds `QueueShape` (a flash of an image directly follows its download, images in order),
`ExchangeShape` (which of the pipes is in use, and what for, at each `pc`), `BufferReady` (what is
staged at the flash) and `PastFlashes` (what the partitions hold for the actions behind `pos`).
`Inductive` proves it; `TypeCorrect`, `FlashStagedAlways` and `InStepAlways` follow.
`SessionFollowsPlan` shows that each step is a step of `FlashPlan` or leaves the partitions alone:
with whole images (`Exact`) for a bootloader that grants what it is asked for, and for one that
grants less (`ShortGrant`) with images that may be cut short, but are never mixed up or out of order.

`ProgressHonest` needs more: the bar is a running sum, and what it says of the partitions depends on
which images the sum runs over. `ProgressInd` adds to `IndInv` that the queue holds the images of
the package in its order and leaves none out (`QueueOrder`, `NoneBetween`), that the counter is
`BytesUpTo` of the image before the action at `pos` (`Counted`), and that the bar is `BytesUpTo` of
a flash that is past or that ended the session (`Shown`). `BytesUpTo` is a recursive function;
that it exists, that it satisfies its equation and that it grows are lemmas (`SumsExist`,
`SumsAgree`, `BytesEquation`, `BytesGrow`), each proved from a least counterexample (`Least`, from
the well-foundedness of the natural numbers) because the library's induction rule takes an
operator as its parameter. `ProgressInductive` proves `ProgressInd`; `ProgressHonestAlways` follows,
since the sum grows at every image that is not empty and `PastFlashes` says what is behind it.

**HostDl.** The claim is that a late answer is never taken for the one the host waits for. The
reason is in three facts that `IndInv` adds. `LoopShape`: in SendWritePacket the open partition is
that of the current image, and only writes are on their way. `CommandShape`: a write on its way is
for the open partition and has nothing but writes before it; an OPEN is the last command, and its
answer is not there yet. `AnswerShape`: an answer to a write means that its packet is held; the
answer to an OPEN is there only when nothing is on its way any more, with no answer to a write
behind it. It is the last one that makes the shared address space of the images safe: the packets
of all images are numbered from 0 and an answer does not say which image it belongs to, but when
`SendWritePacket` begins, every earlier answer has been dropped with the purge or comes before that
of the OPEN. Beside these three, `CloseShape` says that a CLOSE on its way finds its
partition complete. `Inductive` proves `IndInv`; `TypeCorrect`, `AckedIsHeldAlways`,
`OwnPartitionAlways` and `FlushedWholeAlways` follow, and `DownloadFollowsPlan` shows that the download implements
`FlashPlan`.

**AdbHost.** `BufferFits` says that the `memcpy` of `handle_shell_response` never goes behind its
allocation and that its belief about the free space is exact, whichever way a `realloc` goes. It says
nothing of the `memset` before it, which is wrong (*Known behaviours*). `AdbInd` adds `AdbTypeOK` (a
packet never holds more than `MaxPayload`, which is what makes one growth enough for any packet) and
`OneClose` (a sync call in progress has exactly one `close_remote` before it, so that `closes` stays
in its range). `AdbTypeCorrect` and `ShellBufferFits` hold for every size of packets, files and
outputs and any number of calls.

A theorem of its own, `ShellWholeAlways` in `AdbStreamProofs`, says that the output of a shell is
whole, on a host whose memory was sound: a failed allocation leaves a stream open, after which nothing
below holds. What a shell reads may be spoilt by what an earlier call left unread, so the argument is that
nothing is left: `Stage` says, for each point of a call and as long as the device is on the bus,
which packets are under way in both directions. Between calls there is nothing to read and the
device owes nothing (`AtRest`). `SyncFlow` is what makes that true after a push or a pull that
failed anywhere: CLSE is the last packet of a stream, and `close_remote` returns only on CLSE. A
stream that is refused is closed in the same way. So `connect` reads the answer to its own CNXN and
`open_service` to its own OPEN, and `Counted` splits the output in three parts, in the response, in
the one WRTE under way and in the device, whose numbers follow one another. Off the bus both
directions are empty and the response keeps its part.

`FilesInOrderAlways`, in the same module, says that files are copied whole and in order. `FilesInd`
adds to that invariant what a call of the sync protocol has under way (`Course`, on the bus) and what
the host knows whatever happens to the device (`Filed`). `close_remote` does not empty
`packet_buffer`, so a call may begin with the rest of a packet of an earlier one. `Statless` is why
that is harmless: from the first answer on a stream carries no other STAT, so the rest has none, and a
call that meets it where it expects STAT closes its stream at once; one that goes on has an empty
buffer (`StatFlow`). For a pull, `PullFlow` is about the elements ahead of the host, in the
buffer, in the one WRTE under way and in the device, taken as one sequence: a tally gives the length
of the local file after each of them, every DATA moves it by the bytes that follow, numbered from
there (`Chain`), the device has them all (`Complete`), and the tally ends where `RECV` is reading.
How the device cuts this into packets changes nothing in the sequence. Off the bus only the buffer is left, a
prefix of the sequence and so a chain too. For a push, `PushFlow` follows the queue that
`write_data_file` fills at once: what the device holds of SEND is where piece `j` ends (`Ends`), and the
queue goes on with piece `j + 1` (`Line`); after DONE, no OKAY is in the device, on the way or in the
buffer unless the file is stored (`Honest`). A call that returned 0 leaves nothing but QUIT behind
(`OnlyQuit`), so the file stays what it is. No induction over data is needed: each step
moves the boundary by one piece, and the lemmas on sequences say what `\o`, `SubSeq` and `Tail` do to a chain.

**DiagFlow.** Several workers change the flags of the package without a lock. `RightImages` rests on
`BootShared`: the only flags that `GetDiagDlImgSize` clears are those of files that are no boot
images, so each copy a worker takes, at any moment, has all boot images flagged (`Copied`), and
what `DownloadImages` unflags in the copy makes them the only ones. `CheckedFirst` and `XmlWhole`
need `Passed`, which records at each `pc` what the checks so far have established, through the
attempts that fail and the jumps over whole phases; `Pieces` adds that an attempt to write
`custom_info.xml` has written what it believes, if no answer was late. Any number of workers.

**Sahara.** `RunsOnlyWhole` is delicate because the host ends the transfer on a guess and because a
DONE may be taken for data. `Sent` and `Asked` say that at most one request and one piece of data
are under way and that they belong together, and that DONE is the last packet of all; `Collected`
says that the modem holds a prefix of what it asked for as long as anything may still come: a DONE
taken for data spoils the memory, but then nothing comes that could start it. `CopyFits` needs in
addition where the one HELLO of the modem is (`Fit`): for a modem that answers in time it has been
read or purged before READ_DATA is expected. Any sequence of requests, any number of attempts.

**CpeFlow.** `CpeTypeCorrect`: every pointer of a port or a session is NULL or an object that was
allocated, and a server binds a port it may try, for any number of sessions, clicks and TCP ports. It
is inductive as it stands. `ServerReadyAlways` says that a session which was let through undisturbed has
a server that listens until its fetch, as long as no `Run` has crossed a stop. `ReadyInd` has three
parts. `CalmIdle`: a session is calm only while no click is handled, so every stop finds none.
`FlagHonest`: unless crossed, a set flag means a server that is past setting it and got no
CLOSE_SERVER, and between `StopHttpServer` and `SendClose` the flag is clear, so that the CLOSE which
follows hits no server that the flag speaks of. `CalmServed`: a calm session that is not at its report
finds the flag set. A server leaves only by a clear flag or a CLOSE, which is why nothing else of its
loop matters. `OneThreadOnly` is false, and `SessionEnds` is liveness.

**PortScheduler.** `PortsTypeOK` and `OneObject` hold for all constants, with any number of clicks and
modems pulled out at any time. `PortsInd` adds `Placed` (where the loops of `ScheduleDeviceWork` stand,
and that a running thread has a port) to them; the work is in `AddDevice`, which appends objects
for the slots that have none, and in `RemoveDevice`.

`OneOwner`, `WorkingAttached`, `NoCrash`, `FreshSignal` and `PortHasWorker` are proved under `Calm`:
one Start, no modem pulled out, `FlashDirect` set; any number of ports, slots, modems and threads, any
arrivals, timings and outcomes of the workers. Without `Calm` a removal or a Stop takes a device away
from a worker, as under *Known behaviours*. A `Race` is not assumed away: `CalmInductive` says that
`CalmInd` holds until the first one, so each lemma about a step of the UI thread or of a worker has to show
either that the step keeps it or that the step is recorded as a race. The parts of `CalmInd`:

* `Looked`, `Chosen`, `Ends`, `Gives` (together `UIOK`): what the UI thread read of a port and of a device
  earlier in `ScheduleDeviceWork`, `SetDevSwitchEvt`, `SetDevice` or `Start` is still so at the later
  statement, as far as it needs to be. Nothing locks the port: a worker may start its wait, time out or
  set the status of `Finish` in between, and only its `Clean`, which is a `Race`, breaks this.
* `Holds`, `Owned`, `OneWorker`, `Stage`: a port that uses its device has it attached and alone, and
  its one worker is where the port's state allows. `Stage` also says that the manual-reset event is
  clear for a worker that has yet to wait.
* `InOrder`, `FreshLast`, `MapServed`: the hard part. The device that ends a switch has to be the
  port's own, though the code looks for any device that waits in the slot of the port's map. `Clean`
  sets the map to the slot of the first modem that the port took from download mode to its bootloader,
  and ports get modems in download mode in the order of the list, so a port that is switching
  (`Diagging`) is mapped to a slot whose device had its turn (`MapServed`), or to none.
* `DeviceOK`, `PortOK`, `Begun`: which handles and flags go with which state, before and after Start.

**Only model-checked.** Liveness (`SessionEnds`, `DownloadEnds`, `UIResponsive`, `FirstUnitServed`,
`DialogueEnds`, `PrgRuns`, `FlowEnds`, `ShellEnds`): fairness and ENABLED are out of the prover's
reach. Every invariant of the passing runs is proved, those of `ports_multi` under `Calm`; the violated
ones are TLC's alone.

## 5. Not modelled, and the plan

Done: `FlashPlan`, `Fastboot`, `HostDl`, `DevicePool`, `PortScheduler`, then `Sahara`, `DiagFlow`,
`AdbHost`, `CpeFlow`, and the proofs above. What is left of the program's own code, and why:

* *Framing* (`src/pkt.cpp`: escapes and CRC) and the byte layouts of the diagnostic commands: data
  without control. A checked `Hdlc` as pure operators against a reference definition is possible.
* *Requests nothing calls*: the 9X25 download and most of `diagcmd.cpp`, `jrdmmidiag.cpp`,
  `custdata.cpp`, `dlprg.cpp`. They are dead in this program.
* *adb*: authentication is a signature and an answer; copies of directories repeat `push` and `pull`.
* *CPE*: the telnet dialogue is a list of prompts and commands whose failure ends the session in the
  same way at every place; requests to the file server are pure I/O on one connection.
* *Parsers, logging, painting, settings*: no state that another part waits for.
* *Other tools and vendored code*: `OpenWrtProgrammer`, `ZigBeeFlashProgrammer` and the small tools are
  separate programs around vendors' libraries; `libs`, `QMSL`, `tftpd32` and the installers, by far
  most of the lines of the repository, are not the program's own code.

Next: `Hdlc`.
