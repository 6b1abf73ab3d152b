--------------------------- MODULE PortScheduler ----------------------------
(***************************************************************************)
(* The download ports of the MIFI tool: PSTManager and UsbWorkData          *)
(* (mdmfastboot/PST.cpp) between the dialog's message loop                  *)
(* (mdmfastboot/mdmfastbootDlg.cpp) and the worker threads (RunMiFiPST).    *)
(*                                                                         *)
(* The UI thread handles one message at a time; what ScheduleDeviceWork     *)
(* reads and writes of a port is one step each, because the workers change  *)
(* the ports and devices without any lock: a look at a port, then           *)
(* SetDevSwitchEvt's, SetDevice's or Start's statements.  A worker takes    *)
(* its modem from download mode to the bootloader, waits for it to come     *)
(* back, flashes it and releases the port.  A worker's fastboot session is  *)
(* one step here (module Fastboot is its detail).  A step that dereferences *)
(* NULL crashes the program; one that uses freed memory may crash it, or go *)
(* on with what the memory still holds.                                     *)
(***************************************************************************)
EXTENDS DevicePool

CONSTANTS
    NPorts,        \* GetPortNum(): UI ports
    PortDevFixed,  \* GetPortDevFixedFlag(): a port keeps to one USB slot
    MaxThreads,    \* bound: worker threads AfxBeginThread can start at a time
    MaxClicks,     \* bound: clicks on the Start/Stop button
    PlugModes,     \* modes modems are plugged in with: "diag", "fastboot"
    Unplugging,    \* operator unplugs a modem: "never", when "done", or "any" time
    InTime         \* TRUE: a modem needs longer to reboot than its worker to wait for
                   \* it, and less than the worker's timeout

ASSUME PortsAssumption ==
    /\ NPorts \in Nat /\ MaxThreads \in Nat /\ MaxClicks \in Nat
    /\ PortDevFixed \in BOOLEAN /\ InTime \in BOOLEAN
    /\ PlugModes \subseteq {"diag", "fastboot"}
    /\ Unplugging \in {"never", "done", "any"}

VARIABLES
    m_bWork,   \* the tool is started
    port,      \* UsbWorkData of each port
    ui,        \* where the UI thread is: a handler, or ScheduleDeviceWork's loops
               \* with the port, its device's slot and the device it found
    msgs,      \* window messages not handled yet
    thr,       \* the worker threads
    clicks,    \* clicks on Start/Stop so far
    outcome,   \* what became of each modem
    crashed,   \* the process died
    raced      \* history: the UI thread and a worker were on one port at once (see Race)

schedVars == <<m_bWork, port, ui, msgs, thr, clicks, outcome, crashed>>
vars == <<poolVars, schedVars, raced>>

Port == 1..NPorts
Thread == 1..MaxThreads

\* UsbWorkData after Clean.  mMapDevIntf survives it.
Cleaned(w) == [w EXCEPT !.stat = "IDLE", !.usb = "null", !.active = 0, !.evt = FALSE,
                              !.work = FALSE]

Idle == [pc |-> "idle", i |-> 0, item |-> 0, dev |-> 0]
NoThread == [pc |-> "none", port |-> 0, dev |-> 0, usb |-> "null", ok |-> FALSE]
Msg(k, s) == [kind |-> k, slot |-> s]

Steps == {"none", "begin", "diag", "setflash", "close", "detach", "wait", "check",
          "flash", "finish", "clean", "mark"}

UISteps == {"idle", "start", "port", "pick", "look", "set", "signal", "test", "usb", "attach",
            "status", "event", "begin", "work"}

PortsTypeOK ==
    /\ PoolTypeOK
    /\ m_bWork \in BOOLEAN /\ crashed \in BOOLEAN /\ raced \in BOOLEAN /\ clicks \in 0..MaxClicks
    /\ port \in [Port -> [stat : {"IDLE", "WORKING", "SWITCH", "FINISH", "WAITING_CLOSE"},
                          usb : Pointer, active : {0} \cup DOMAIN heap,
                          map : {0} \cup Slot, evt : BOOLEAN, work : BOOLEAN]]
    /\ ui \in [pc : UISteps, i : 0..(NPorts + 1), item : {0} \cup Slot,
               dev : {0} \cup DOMAIN heap]
    /\ msgs \in Seq([kind : {"com", "fastboot", "removed", "done"}, slot : {0} \cup Slot])
    /\ thr \in [Thread -> [pc : Steps, port : {0} \cup Port, dev : {0} \cup DOMAIN heap,
                           usb : Pointer, ok : BOOLEAN]]
    /\ outcome \in [1..MaxUnits -> {"absent", "waiting", "flashed", "failed"}]

Init ==
    /\ PoolInit
    /\ m_bWork = FALSE /\ crashed = FALSE /\ raced = FALSE /\ clicks = 0
    /\ port = [p \in Port |-> [stat |-> "IDLE", usb |-> "null", active |-> 0,
                               map |-> 0, evt |-> FALSE, work |-> FALSE]]
    /\ ui = Idle /\ msgs = <<>> /\ outcome = [u \in 1..MaxUnits |-> "absent"]
    /\ thr = [t \in Thread |-> NoThread]

-----------------------------------------------------------------------------
(* usb_close frees the handle of a slot: every copy of the pointer, in the  *)
(* objects, the ports and the threads' stacks, is stale from then on.       *)

SlotOf(i) == IF i = 0 THEN 0 ELSE heap[i].slot
UsbSlot(w) == IF w.usb = "live" THEN SlotOf(w.active) ELSE 0

StalePorts(s) ==
    [q \in Port |-> IF SlotOf(port[q].active) = s THEN [port[q] EXCEPT !.usb = Stale(@)]
                                                  ELSE port[q]]
StaleThreads(s) ==
    [t \in Thread |-> IF SlotOf(thr[t].dev) = s THEN [thr[t] EXCEPT !.usb = Stale(@)]
                                                ELSE thr[t]]
usb_close(s) == handle_list' = [r \in Slot |-> IF r = s THEN 0 ELSE handle_list[r]]

-----------------------------------------------------------------------------
(* ScheduleDeviceWork, on the UI thread. *)

\* At the loop over the ports.
AtPort(i) == [pc |-> "port", i |-> i, item |-> 0, dev |-> 0]

\* Entered at the end of a message handler.
ScheduleDeviceWork == ui' = IF m_bWork THEN AtPort(1) ELSE Idle

\* Mutant: one port is passed over.
SkipPort == ui' = AtPort(ui.i + 2)

NextPort == ui' = AtPort(ui.i + 1)

\* What the loop remembers of a port: its map, or else its device.
ItemOf(w) == IF w.map # 0 THEN w.map ELSE SlotOf(w.active)

\* Mutant: a working port is scheduled like any other.
ScheduleAnyPort ==
    /\ ui.pc = "port"
    /\ ui' = IF ui.i > NPorts THEN Idle ELSE [ui EXCEPT !.pc = "pick", !.item = ItemOf(port[ui.i])]
    /\ UNCHANGED <<poolVars, m_bWork, port, msgs, thr, clicks, outcome, crashed>>

\* The head of the loop over the ports.
SchedulePort ==
    /\ ui.pc = "port"
    /\ \/ ui.i > NPorts /\ ui' = Idle
       \/ ui.i <= NPorts /\ port[ui.i].stat = "WORKING" /\ NextPort
       \/ ui.i <= NPorts /\ port[ui.i].stat # "WORKING"
          /\ ui' = [ui EXCEPT !.pc = "pick", !.item = ItemOf(port[ui.i])]
    /\ UNCHANGED <<poolVars, m_bWork, port, msgs, thr, clicks, outcome, crashed>>

\* The head of the while loop: the first device that waits for a port, if there is one.
PickDevice ==
    /\ ui.pc = "pick"
    /\ IF GetValidDevice = 0 THEN NextPort
                             ELSE ui' = [ui EXCEPT !.pc = "look", !.dev = GetValidDevice]
    /\ UNCHANGED <<poolVars, m_bWork, port, msgs, thr, clicks, outcome, crashed>>

\* The while loop's looks at the port.  A device that is not the one of a switching port, or
\* not the one a port keeps to, is passed over: the loop finds it again at once.
LookAtPort ==
    LET own == SlotOf(ui.dev) = ui.item
        switching == port[ui.i].stat = "SWITCH"
    IN  /\ ui.pc = "look"
        /\ \/ switching /\ ui.item # 0 /\ own
              /\ ui' = [ui EXCEPT !.pc = "signal", !.item = 0, !.dev = 0]
           \/ ~switching /\ (~PortDevFixed \/ ui.item = 0 \/ own)
              /\ ui' = [ui EXCEPT !.pc = "set", !.item = 0]
           \/ ~own /\ ui.item # 0 /\ (switching \/ PortDevFixed)
              /\ ui' = [ui EXCEPT !.pc = "pick", !.dev = 0]
        /\ UNCHANGED <<poolVars, m_bWork, port, msgs, thr, clicks, outcome, crashed>>

MyUIPort == port[ui.i]

\* SetDevSwitchEvt for the port's own device, first its two statements before the device.
SetDevSwitchEvt ==
    /\ ui.pc = "signal"
    /\ port' = [port EXCEPT ![ui.i].stat = "WORKING"]
    /\ ui' = [ui EXCEPT !.pc = "test"]
    /\ UNCHANGED <<poolVars, m_bWork, msgs, thr, clicks, outcome, crashed>>

TestActive ==
    /\ ui.pc = "test"
    /\ ui' = [ui EXCEPT !.pc = IF MyUIPort.active = 0 THEN "event" ELSE "usb"]
    /\ UNCHANGED <<poolVars, m_bWork, port, msgs, thr, clicks, outcome, crashed>>

\* SetDevice for the device that was found; ui.dev tells it from SetDevSwitchEvt below.
SetDevice ==
    /\ ui.pc = "set"
    /\ port' = [port EXCEPT ![ui.i].active = ui.dev]
    /\ ui' = [ui EXCEPT !.pc = "usb"]
    /\ UNCHANGED <<poolVars, m_bWork, msgs, thr, clicks, outcome, crashed>>

\* Both then look for the handle and attach the device; SetDevice makes the port a working
\* one at last.
UpdateUsbHandle ==
    /\ ui.pc = "usb" /\ MyUIPort.active # 0
    /\ port' = [port EXCEPT ![ui.i].usb = GetUsbHandle(heap[MyUIPort.active])]
    /\ ui' = [ui EXCEPT !.pc = "attach"]
    /\ UNCHANGED <<poolVars, m_bWork, msgs, thr, clicks, outcome, crashed>>

AfterAttach == ui' = [ui EXCEPT !.pc = IF ui.dev = 0 THEN "event" ELSE "status"]

\* Mutant: the device is not marked as attached.
SkipAttach ==
    /\ ui.pc = "attach" /\ MyUIPort.active # 0
    /\ AfterAttach
    /\ UNCHANGED <<poolVars, m_bWork, port, msgs, thr, clicks, outcome, crashed>>

SetAttachStatus ==
    /\ ui.pc = "attach" /\ MyUIPort.active # 0
    /\ heap' = [heap EXCEPT ![MyUIPort.active].att = TRUE]
    /\ AfterAttach
    /\ UNCHANGED <<bus, handle_list, mDevintfList, m_bWork, port, msgs, thr, clicks, outcome,
                   crashed>>

SetStatus ==
    /\ ui.pc = "status"
    /\ port' = [port EXCEPT ![ui.i].stat = "WORKING"]
    /\ ui' = [ui EXCEPT !.pc = "begin"]
    /\ UNCHANGED <<poolVars, m_bWork, msgs, thr, clicks, outcome, crashed>>

\* The end of SetDevSwitchEvt.
SetEvent ==
    /\ ui.pc = "event"
    /\ port' = [port EXCEPT ![ui.i].evt = TRUE]
    /\ NextPort
    /\ UNCHANGED <<poolVars, m_bWork, msgs, thr, clicks, outcome, crashed>>

FreeThreads == {t \in Thread : thr[t].pc = "none"}

\* Start: the thread runs before the port knows of it.
AfxBeginThread ==
    /\ ui.pc = "begin" /\ FreeThreads # {}
    /\ thr' = [thr EXCEPT ![Min(FreeThreads)] = [NoThread EXCEPT !.pc = "begin", !.port = ui.i]]
    /\ ui' = [ui EXCEPT !.pc = "work"]
    /\ UNCHANGED <<poolVars, m_bWork, port, msgs, clicks, outcome, crashed>>

\* No thread can be started: the port is cleaned, the device stays attached.
StartFails ==
    /\ ui.pc = "begin" /\ FreeThreads = {} /\ MyUIPort.active # 0
    /\ port' = [port EXCEPT ![ui.i] = Cleaned(@)]
    /\ NextPort
    /\ UNCHANGED <<poolVars, m_bWork, msgs, thr, clicks, outcome, crashed>>

\* The thread was started; the log names the port's device.
Start ==
    /\ ui.pc = "work" /\ MyUIPort.active # 0
    /\ port' = [port EXCEPT ![ui.i].work = TRUE]
    /\ NextPort
    /\ UNCHANGED <<poolVars, m_bWork, msgs, thr, clicks, outcome, crashed>>

\* The pointers the UI thread's next step follows that may be bad: the item of a switching
\* port that has neither a map nor a device, the port's device where it is NULL or freed,
\* the handle usb_set_work writes to.
BadUIPointer ==
    CASE ui.pc = "look" -> MyUIPort.stat = "SWITCH" /\ ui.item = 0
      [] ui.pc \in {"usb", "work"} -> MyUIPort.active \notin Listed
      [] ui.pc = "attach" -> MyUIPort.usb = "dead" \/ MyUIPort.active \notin Listed
      [] ui.pc = "begin" -> /\ FreeThreads = {}
                            /\ MyUIPort.usb = "dead" \/ MyUIPort.active \notin Listed
      [] OTHER -> FALSE

ScheduleCrash ==
    /\ BadUIPointer
    /\ crashed' = TRUE
    /\ UNCHANGED <<poolVars, m_bWork, port, ui, msgs, thr, clicks, outcome>>

Schedule ==
    \/ SchedulePort \/ PickDevice \/ LookAtPort
    \/ SetDevSwitchEvt \/ TestActive \/ SetDevice \/ UpdateUsbHandle \/ SetAttachStatus
    \/ SetStatus \/ SetEvent \/ AfxBeginThread \/ StartFails \/ Start \/ ScheduleCrash

-----------------------------------------------------------------------------
(* Window messages: OnDeviceChange and OnDeviceInfo. *)

Receive(k) == ui.pc = "idle" /\ msgs # <<>> /\ Head(msgs).kind = k /\ msgs' = Tail(msgs)

HandleComDevice ==
    /\ Receive("com")
    /\ IF m_bWork
       THEN /\ AddDevice(InMode("diag"), "diag")
            /\ IF \E s \in InMode("diag") : ~Refused(s) THEN ScheduleDeviceWork
                                                        ELSE UNCHANGED ui
       ELSE UNCHANGED <<heap, mDevintfList, ui>>
    /\ UNCHANGED <<bus, handle_list, m_bWork, port, thr, clicks, outcome, crashed>>

EnumerateAdbDevice ==
    /\ Receive("fastboot")
    /\ IF m_bWork
       THEN /\ find_devices
            /\ AddDevice(Found, "fastboot")
            /\ IF \E s \in Found : ~Refused(s) THEN ScheduleDeviceWork
                                                            ELSE UNCHANGED ui
       ELSE UNCHANGED <<heap, mDevintfList, handle_list, ui>>
    /\ UNCHANGED <<bus, m_bWork, port, thr, clicks, outcome, crashed>>

\* FindUsbWorkData: the port that has the device in the slot, 0 for none.
FindUsbWorkData(s) ==
    LET hits == {p \in Port : SlotOf(port[p].active) = s /\ port[p].stat # "IDLE"}
    IN  IF GetDevice(s) = 0 \/ hits = {} THEN 0 ELSE Min(hits)

\* An interface of the bootloader left the bus.  A working port is cleaned and its
\* device freed; WM_QUIT does not reach a worker, which has no message loop.
HandleDeviceRemoved ==
    /\ Receive("removed")
    /\ LET p == FindUsbWorkData(Head(msgs).slot)
           closed == IF p # 0 /\ port[p].stat = "WORKING" THEN UsbSlot(port[p]) ELSE 0
       IN  IF p # 0 /\ (port[p].stat = "WORKING" \/ (port[p].stat = "FINISH" /\ PortDevFixed))
           THEN /\ usb_close(closed)
                /\ RemoveDevice(StaleIn(heap, closed), port[p].active)
                /\ port' = [StalePorts(closed) EXCEPT ![p] = Cleaned(@)]
                /\ thr' = StaleThreads(closed)
                /\ ScheduleDeviceWork
           ELSE UNCHANGED <<handle_list, heap, mDevintfList, port, thr, ui>>
    /\ UNCHANGED <<bus, m_bWork, clicks, outcome, crashed>>

FlashDeviceDone ==
    /\ Receive("done")
    /\ IF PortDevFixed THEN UNCHANGED ui ELSE ScheduleDeviceWork
    /\ UNCHANGED <<poolVars, m_bWork, port, thr, clicks, outcome, crashed>>

\* UsbWorkData::Reset on every port, DeviceCoordinator::Reset.
ResetPort(w) ==
    CASE w.stat = "WORKING" /\ ~w.work -> [w EXCEPT !.stat = "WAITING_CLOSE"]
      [] w.stat \in {"IDLE", "WAITING_CLOSE"} -> w
      [] OTHER -> Cleaned(w)

Reset ==
    /\ port' = [p \in Port |-> ResetPort(port[p])]
    /\ ResetPool

\* The Start button: SetWorkStatus(TRUE) ends in SetWork, which enumerates.
OnStart ==
    /\ ui.pc = "idle" /\ ~m_bWork /\ clicks < MaxClicks
    /\ clicks' = clicks + 1
    /\ Reset
    /\ m_bWork' = TRUE /\ ui' = [ui EXCEPT !.pc = "start"]
    /\ UNCHANGED <<bus, handle_list, msgs, thr, outcome, crashed>>

\* SetWork: serial ports are looked for only when no bootloader is found, and only
\* then is work scheduled.
SetWork ==
    /\ ui.pc = "start"
    /\ find_devices
    /\ IF Found # {}
       THEN AddDevice(Found, "fastboot") /\ ui' = Idle
       ELSE /\ AddDevice(InMode("diag"), "diag")
            /\ IF InMode("diag") # {} THEN ScheduleDeviceWork ELSE ui' = Idle
    /\ UNCHANGED <<bus, m_bWork, port, msgs, thr, clicks, outcome, crashed>>

\* The Stop button.  The result of SetWorkStatus is ignored: when the operator takes
\* back the stop at its second question, the ports are reset all the same.
OnStop ==
    /\ ui.pc = "idle" /\ m_bWork /\ clicks < MaxClicks
    /\ clicks' = clicks + 1
    /\ \/ m_bWork' = FALSE
       \/ (\E p \in Port : port[p].stat = "WORKING") /\ UNCHANGED m_bWork
    /\ Reset
    /\ UNCHANGED <<bus, handle_list, ui, msgs, thr, outcome, crashed>>

Messages == HandleComDevice \/ EnumerateAdbDevice \/ HandleDeviceRemoved \/ FlashDeviceDone
            \/ SetWork

-----------------------------------------------------------------------------
(* A worker thread: RunMiFiPST. *)

Goto(t, step) == thr' = [thr EXCEPT ![t].pc = step]
MyPort(t) == port[thr[t].port]
Report(u, how) == outcome' = [outcome EXCEPT ![u] = how]
UnitOf(t) == bus[heap[thr[t].dev].slot].unit

Begin(t) ==
    /\ thr[t].pc = "begin" /\ MyPort(t).active # 0
    /\ thr' = [thr EXCEPT ![t].dev = MyPort(t).active,
                          ![t].pc = IF heap[MyPort(t).active].status = "PLUGIN" THEN "diag"
                                    ELSE "check"]
    /\ UNCHANGED <<poolVars, m_bWork, port, ui, msgs, clicks, outcome, crashed>>

\* DiagPST: with the images it needs downloaded the modem restarts.  DownloadPrg
\* reports success after some failures too, and then nothing restarts.
DiagDownload(t) ==
    /\ thr[t].pc = "diag"
    /\ Goto(t, "setflash")
    /\ \/ /\ bus[heap[thr[t].dev].slot].mode = "diag"
          /\ bus' = [bus EXCEPT ![heap[thr[t].dev].slot].mode = "reset"]
       \/ UNCHANGED bus
    /\ UNCHANGED <<handle_list, heap, mDevintfList, m_bWork, port, ui, msgs, clicks,
                   outcome, crashed>>

DiagFails(t) ==
    /\ thr[t].pc = "diag"
    /\ Goto(t, "finish")
    /\ IF UnitOf(t) = 0 THEN UNCHANGED outcome ELSE Report(UnitOf(t), "failed")
    /\ UNCHANGED <<poolVars, m_bWork, port, ui, msgs, clicks, crashed>>

EnterFlash(t) ==
    /\ thr[t].pc = "setflash"
    /\ heap' = [heap EXCEPT ![thr[t].dev].status = "FLASH"]
    /\ Goto(t, "close")
    /\ UNCHANGED <<bus, handle_list, mDevintfList, m_bWork, port, ui, msgs, clicks,
                   outcome, crashed>>

\* WaitForDevSwitchEvt: the port is given up before the device is.
BeginSwitch(t) ==
    /\ thr[t].pc = "close"
    /\ LET s == UsbSlot(MyPort(t))
       IN  /\ usb_close(s)
           /\ heap' = StaleIn(heap, s)
           /\ port' = [StalePorts(s) EXCEPT ![thr[t].port] =
                          [@ EXCEPT !.usb = "null", !.stat = "SWITCH"]]
           /\ thr' = [StaleThreads(s) EXCEPT ![t].pc = "detach"]
    /\ UNCHANGED <<bus, mDevintfList, m_bWork, ui, msgs, clicks, outcome, crashed>>

Detach(t) ==
    /\ thr[t].pc = "detach" /\ MyPort(t).active # 0
    /\ heap' = [heap EXCEPT ![MyPort(t).active].att = FALSE]
    /\ Goto(t, "wait")
    /\ UNCHANGED <<bus, handle_list, mDevintfList, m_bWork, port, ui, msgs, clicks,
                   outcome, crashed>>

Signalled(t) ==
    /\ thr[t].pc = "wait" /\ MyPort(t).evt /\ MyPort(t).active # 0
    /\ Goto(t, "check")
    /\ UNCHANGED <<poolVars, m_bWork, port, ui, msgs, clicks, outcome, crashed>>

\* Mutant: the default argument of WaitForDevSwitchEvt, INFINITE.
WaitForever(t) == FALSE

\* The modem is off the bus for good, as far as the 100 seconds tell.
Timeout(t) ==
    /\ thr[t].pc = "wait" /\ ~MyPort(t).evt
    /\ InTime => InMode("reset") = {} /\ msgs = <<>> /\ ui = Idle
    /\ Goto(t, "check")
    /\ UNCHANGED <<poolVars, m_bWork, port, ui, msgs, clicks, outcome, crashed>>

\* No handle: the port reports the error.  With one, a device in any state but
\* DEVICE_FLASH ends the thread without a word.
CheckHandle(t) ==
    /\ thr[t].pc = "check"
    /\ thr' = [thr EXCEPT ![t].usb = MyPort(t).usb,
                          ![t].pc = CASE MyPort(t).usb = "null" -> "finish"
                                      [] MyPort(t).usb # "null" /\ heap[thr[t].dev].status = "FLASH"
                                           -> "flash"
                                      [] OTHER -> "none"]
    /\ IF MyPort(t).usb = "null" /\ UnitOf(t) # 0 THEN Report(UnitOf(t), "failed")
                                                  ELSE UNCHANGED outcome
    /\ UNCHANGED <<poolVars, m_bWork, port, ui, msgs, clicks, crashed>>

\* The fastboot session.  It succeeds only with the modem the handle was opened on;
\* FLASH_DONE is reported whatever its result.
FlashImages(t) ==
    /\ thr[t].pc = "flash"
    /\ thr' = [thr EXCEPT ![t].pc = "finish", ![t].ok = TRUE]
    /\ LET s == heap[thr[t].dev].slot
       IN  IF bus[s].unit = 0 THEN UNCHANGED outcome
           ELSE \/ /\ bus[s].mode = "fastboot" /\ thr[t].usb = "live"
                   /\ handle_list[s] = bus[s].unit
                   /\ Report(bus[s].unit, "flashed")
                \/ Report(bus[s].unit, "failed")
    /\ UNCHANGED <<poolVars, m_bWork, port, ui, msgs, clicks, crashed>>

\* Finish, in two steps: the port is in USB_STAT_FINISH between them.
Finish(t) ==
    /\ thr[t].pc = "finish"
    /\ LET w == MyPort(t)
           a == w.active
       IN  port' = [port EXCEPT ![thr[t].port] =
               [w EXCEPT !.stat = "FINISH",
                         !.map = IF w.map = 0 /\ a # 0 /\ heap[a].diag /\ heap[a].fb
                                 THEN SlotOf(a) ELSE w.map]]
    /\ Goto(t, "clean")
    /\ UNCHANGED <<poolVars, m_bWork, ui, msgs, clicks, outcome, crashed>>

\* Mutant: the switch event is left signalled.
KeepEvent(t) ==
    /\ thr[t].pc = "clean"
    /\ LET s == UsbSlot(MyPort(t))
       IN  /\ usb_close(s)
           /\ heap' = StaleIn(heap, s)
           /\ port' = [StalePorts(s) EXCEPT ![thr[t].port] =
                         [@ EXCEPT !.stat = "IDLE", !.usb = "null", !.active = 0, !.work = FALSE]]
           /\ thr' = [StaleThreads(s) EXCEPT ![t] =
                         IF thr[t].ok THEN [thr[t] EXCEPT !.pc = "mark"] ELSE NoThread]
    /\ msgs' = Append(msgs, Msg("done", 0))
    /\ UNCHANGED <<bus, mDevintfList, m_bWork, ui, clicks, outcome, crashed>>

\* Mutant: a finished device is detached from its port.
DetachAndClean(t) ==
    /\ thr[t].pc = "clean"
    /\ LET s == UsbSlot(MyPort(t))
           a == MyPort(t).active
       IN  /\ usb_close(s)
           /\ heap' = IF a = 0 THEN heap ELSE [StaleIn(heap, s) EXCEPT ![a].att = FALSE]
           /\ port' = [StalePorts(s) EXCEPT ![thr[t].port] = Cleaned(@)]
           /\ thr' = [StaleThreads(s) EXCEPT ![t] =
                         IF thr[t].ok THEN [thr[t] EXCEPT !.pc = "mark"] ELSE NoThread]
    /\ msgs' = Append(msgs, Msg("done", 0))
    /\ UNCHANGED <<bus, mDevintfList, m_bWork, ui, clicks, outcome, crashed>>

CloseAndClean(t) ==
    /\ thr[t].pc = "clean"
    /\ LET s == UsbSlot(MyPort(t))
       IN  /\ usb_close(s)
           /\ heap' = StaleIn(heap, s)
           /\ port' = [StalePorts(s) EXCEPT ![thr[t].port] = Cleaned(@)]
           /\ thr' = [StaleThreads(s) EXCEPT ![t] =
                         IF thr[t].ok THEN [thr[t] EXCEPT !.pc = "mark"] ELSE NoThread]
    /\ msgs' = Append(msgs, Msg("done", 0))
    /\ UNCHANGED <<bus, mDevintfList, m_bWork, ui, clicks, outcome, crashed>>

MarkRemoved(t) ==
    /\ thr[t].pc = "mark"
    /\ heap' = [heap EXCEPT ![thr[t].dev].status = "REMOVED"]
    /\ thr' = [thr EXCEPT ![t] = NoThread]
    /\ UNCHANGED <<bus, handle_list, mDevintfList, m_bWork, port, ui, msgs, clicks,
                   outcome, crashed>>

Worker(t) ==
    \/ Begin(t) \/ DiagDownload(t) \/ DiagFails(t) \/ EnterFlash(t) \/ BeginSwitch(t)
    \/ Detach(t) \/ Signalled(t) \/ Timeout(t) \/ CheckHandle(t) \/ FlashImages(t)
    \/ Finish(t) \/ CloseAndClean(t) \/ MarkRemoved(t)

\* The pointers a worker's next step follows that may be bad: the port's device
\* where it is NULL or freed, the thread's own device, a handle that was closed.
BadActive(t) == MyPort(t).active \notin Listed
BadPointer(t) ==
    CASE thr[t].pc \in {"begin", "detach"} -> BadActive(t)
      [] thr[t].pc = "wait" -> MyPort(t).evt /\ BadActive(t)
      [] thr[t].pc \in {"diag", "setflash", "mark"} -> thr[t].dev \notin Listed
      [] thr[t].pc = "check" -> MyPort(t).usb # "null" /\ thr[t].dev \notin Listed
      [] thr[t].pc = "flash" -> thr[t].usb = "dead"
      [] thr[t].pc = "finish" -> MyPort(t).active # 0 /\ BadActive(t)
      [] thr[t].pc \in {"close", "clean"} -> MyPort(t).usb = "dead"
      [] OTHER -> FALSE

Crash(t) ==
    /\ BadPointer(t)
    /\ crashed' = TRUE
    /\ UNCHANGED <<poolVars, m_bWork, port, ui, msgs, thr, clicks, outcome>>

-----------------------------------------------------------------------------
(* Modems and the operator (external). *)

Arrived(m) == IF m = "diag" THEN "com" ELSE "fastboot"

Spare == {u \in 1..MaxUnits : outcome[u] = "absent"}

PlugIn(s, m) ==
    /\ bus[s].mode = "empty" /\ Spare # {}
    /\ bus' = [bus EXCEPT ![s] = [mode |-> m, unit |-> Min(Spare)]]
    /\ Report(Min(Spare), "waiting")
    /\ msgs' = Append(msgs, Msg(Arrived(m), 0))
    /\ UNCHANGED <<handle_list, heap, mDevintfList, m_bWork, port, ui, thr, clicks, crashed>>

Rebooted(s) ==
    /\ bus[s].mode = "reset"
    /\ InTime => ~\E t \in Thread : /\ thr[t].pc \in {"setflash", "close", "detach"}
                                    /\ SlotOf(thr[t].dev) = s
    /\ bus' = [bus EXCEPT ![s].mode = "fastboot"]
    /\ msgs' = Append(msgs, Msg("fastboot", 0))
    /\ UNCHANGED <<handle_list, heap, mDevintfList, m_bWork, port, ui, thr, clicks,
                   outcome, crashed>>

\* Only the bootloader's interface is registered for removal notifications.
Unplug(s) ==
    /\ bus[s].mode # "empty"
    /\ \/ Unplugging = "any"
       \/ Unplugging = "done" /\ outcome[bus[s].unit] # "waiting"
          /\ \A t \in Thread : thr[t].pc = "none" \/ SlotOf(thr[t].dev) # s
    /\ bus' = [bus EXCEPT ![s] = [mode |-> "empty", unit |-> 0]]
    /\ msgs' = IF bus[s].mode = "fastboot" THEN Append(msgs, Msg("removed", s)) ELSE msgs
    /\ UNCHANGED <<handle_list, heap, mDevintfList, m_bWork, port, ui, thr, clicks,
                   outcome, crashed>>

-----------------------------------------------------------------------------
\* Two ways the UI thread and the worker of a port meet on it: ScheduleDeviceWork gives a
\* device to a port whose worker is inside Finish, before Clean; or a worker's Clean runs
\* while the UI thread is between its look at the port and the end of SetDevSwitchEvt or
\* Start.
FinishRace == ui.pc = "set" /\ ui'.pc = "usb" /\ port[ui.i].stat = "FINISH"
CleanRace ==
    /\ ui.pc \in {"signal", "test", "usb", "attach", "status", "event", "begin", "work"}
    /\ \E t \in Thread : thr[t].pc = "clean" /\ thr'[t].pc # "clean" /\ thr[t].port = ui.i
Race == FinishRace \/ CleanRace

\* raced only records: no step depends on it.
Step(A) == ~crashed /\ A /\ raced' = (raced \/ Race)

Running ==
    \/ Schedule \/ Messages \/ OnStart \/ OnStop
    \/ \E t \in Thread : Worker(t) \/ Crash(t)
    \/ \E s \in Slot : Rebooted(s) \/ Unplug(s) \/ \E m \in PlugModes : PlugIn(s, m)

Next == Step(Running)

Spec == Init /\ [][Next]_vars

\* The message loop and every thread get the processor again and again, a modem that
\* restarts comes back, and the operator presses Start.
Fairness ==
    /\ WF_vars(Step(Schedule \/ Messages))
    /\ WF_vars(Step(OnStart))
    /\ \A t \in Thread : WF_vars(Step(Worker(t) \/ Crash(t)))
    /\ \A s \in Slot : WF_vars(Step(Rebooted(s)))

FairSpec == Spec /\ Fairness

-----------------------------------------------------------------------------
(* Properties.  The code keeps the first five until one of its two races (Race) happens.  *)
(* After one of them it breaks each: a port in USB_STAT_FINISH gets a second worker, and  *)
(* SetDevSwitchEvt uses a device that is NULL since it tested it (PST.cpp 1069).          *)

\* No two ports work on the same device object: GetValidDevice never hands out what
\* SetDevice or SetDevSwitchEvt attached, whatever the workers attach and detach
\* while ScheduleDeviceWork walks over the ports.
OneOwner ==
    ~raced => \A p, q \in Port :
        /\ p # q /\ port[p].active # 0
        /\ port[p].stat = "WORKING" /\ port[q].stat = "WORKING"
        => port[p].active # port[q].active

\* The device of a working port is in the list and attached, so that AddDevice leaves it
\* alone and no other port gets it; but for the port whose switch SetDevSwitchEvt is ending.
WorkingAttached ==
    ~raced => \A p \in Port :
        /\ port[p].stat = "WORKING"
        /\ ~(ui.i = p /\ ui.pc \in {"test", "usb", "attach"})
        => port[p].active \in Listed /\ heap[port[p].active].att

\* No step of RunMiFiPST or ScheduleDeviceWork follows a NULL pointer, a freed device or a
\* closed handle, unless the UI thread and a worker met on a port before.
NoCrash == crashed => raced

\* The manual-reset switch event, which only Clean resets, is never left over from an
\* earlier device: a worker that has yet to wait finds it reset.
FreshSignal ==
    ~raced => \A t \in Thread : thr[t].pc \in {"begin", "diag", "setflash", "close", "detach"} =>
        ~MyPort(t).evt

WorkersOf(p) == {t \in Thread : thr[t].port = p /\ thr[t].pc \notin {"none", "mark"}}

\* A port is busy exactly while one worker thread works for it, or is about to be started:
\* none is left busy for good.
PortHasWorker ==
    ~raced => \A p \in Port :
        /\ port[p].stat = "IDLE" => WorkersOf(p) = {}
        /\ port[p].stat # "IDLE" => \/ \E t \in Thread : WorkersOf(p) = {t}
                                    \/ WorkersOf(p) = {} /\ ui.i = p /\ ui.pc = "begin"

\* A modem has one object: the arrivals of its serial port and of its bootloader meet
\* in the one AddDevice made first, so that the port that restarted it finds it again.
OneObject == \A i, j \in Listed : heap[i].slot = heap[j].slot => i = j

\* Every pass of ScheduleDeviceWork ends and the message loop gets back to its messages.
UIResponsive == (ui # Idle) ~> (ui = Idle \/ crashed)

\* The first modem plugged into a started tool is flashed or reported as failed, unless the
\* operator clicks Stop or pulls it out first.
Left(u) == \A s \in Slot : bus[s].unit # u
FirstUnitServed ==
    (outcome[1] = "waiting" /\ m_bWork)
        ~> (outcome[1] \in {"flashed", "failed"} \/ clicks > 1 \/ Left(1))
==============================================================================
