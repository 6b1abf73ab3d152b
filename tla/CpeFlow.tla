------------------------------- MODULE CpeFlow -------------------------------
(***************************************************************************)
(* The update of a CPE router (mdmfastboot/PST.cpp, HH70 and HH40): the     *)
(* Start button starts the file server (src/src/CMiniHttpDownloadServer.cpp)*)
(* and a telnet session (RunTelnetServer).  The session makes the router    *)
(* pass its modem's USB to the PC, takes the modem from adb to the          *)
(* bootloader and flashes it (CPEModemPST, RunMiFiPST), then lets the       *)
(* router fetch its own image from the file server.                         *)
(*                                                                         *)
(* One UI port and one modem.  The UI thread, the sessions and the servers  *)
(* share the port, the device list and the server's fields without a lock   *)
(* (the server's critical section apart).  Device objects are heap memory:  *)
(* a step that follows a freed pointer crashes the program, or goes on with *)
(* what the memory still holds; one that follows NULL crashes it.           *)
(* On this platform IsUseAdbShell() is TRUE: AddDevice also updates a       *)
(* device that is attached to a port.                                       *)
(***************************************************************************)
EXTENDS Naturals, Sequences, FiniteSets

CONSTANTS
    Sessions,     \* telnet threads, and as many server threads (a bound)
    MaxClicks,    \* bound: clicks on Start/Stop
    MaxSeeks,     \* the 30 rounds of 2 s in which CPEModemPST looks for a modem
    Ports,        \* TCP ports Run tries when m_ServerPort, 80 at first, is taken: 800..887
    FlashDirect,  \* GetFlashDirectFlag()
    InTime,       \* TRUE: what the modem does falls into its session's waits.  Its arrival
                  \* is handled before it is told to restart, or while the session waits,
                  \* not in the moments between two waits; it leaves the bus after the
                  \* session began to wait for it, or has reported
    Reenumerate   \* TRUE: on its way down the modem may show its adb interface again

ASSUME CpeAssumption ==
    /\ IsFiniteSet(Sessions) /\ MaxClicks \in Nat /\ MaxSeeks \in Nat
    /\ Ports \subseteq Nat /\ 80 \notin Ports
    /\ {FlashDirect, InTime, Reenumerate} \subseteq BOOLEAN

VARIABLES
    m_bWork,      \* the tool is started
    ui,           \* where the UI thread is in a click, and which one it is
    port,         \* the UsbWorkData of the port
    heap,         \* every DeviceInterfaces object allocated so far
    list,         \* mDevCoordinator's list: the modem's object, 0 for none
    handle_list,  \* the open handle on either interface, stale when the modem left it
    bus,          \* what the modem shows on the PC's USB
    again,        \* it has shown its adb interface again
    session,      \* the telnet threads
    server,       \* the server threads, m_ServerWork, m_ServerPort; and whether Run ever set
                  \* m_ServerWork after the StopHttpServer that ends it cleared it (history)
    msgs,         \* window messages not handled yet
    clicks,       \* clicks so far
    crashed       \* the process died

uiVars == <<m_bWork, ui, msgs, clicks>>
devVars == <<heap, list, handle_list>>
modemVars == <<bus, again>>
vars == <<uiVars, port, devVars, modemVars, session, server, crashed>>

Intf == {"adb", "fb"}
Pointer == {"null", "live", "dead"}
Object == [adb : Pointer, fb : Pointer, status : {"UNKNOW", "PLUGIN", "CHECK", "FLASH", "REMOVED"},
           att : BOOLEAN]

ModemSteps == {"mifi", "reboot", "setflash", "close", "null", "detach", "wait", "check", "flash"}
UISteps == {"idle", "stop", "close", "devices", "work"}
SessionSteps == {"none", "begin", "mark", "nic", "server", "works", "telnet", "enum", "seek",
                 "fetch", "upgrade", "report"} \cup ModemSteps
NoSession == [pc |-> "none", dev |-> 0, seeks |-> 0, looped |-> FALSE, calm |-> FALSE]
ServerSteps == {"none", "begin", "bound", "listening", "loop", "accept"}
AllPorts == {80} \cup Ports
NoServer == [pc |-> "none", sock |-> 0, close |-> FALSE]

CpeTypeOK ==
    /\ m_bWork \in BOOLEAN /\ crashed \in BOOLEAN /\ again \in BOOLEAN
    /\ ui \in [pc : UISteps, start : BOOLEAN] /\ clicks \in 0..MaxClicks
    /\ heap \in Seq(Object) /\ list \in 0..Len(heap)
    /\ port \in [stat : {"IDLE", "WORKING", "SWITCH", "WAITING_CLOSE"},
                 usb : {"null", "dead"} \cup Intf, active : 0..Len(heap), evt : BOOLEAN]
    /\ handle_list \in [Intf -> {"none", "open", "stale"}]
    /\ bus \in {"off", "adb", "leaving", "reset", "fastboot", "restarting"}
    /\ session \in [Sessions -> [pc : SessionSteps, dev : 0..Len(heap), seeks : 0..MaxSeeks,
                                 looped : BOOLEAN, calm : BOOLEAN]]
    /\ server \in [thr : [Sessions -> [pc : ServerSteps, sock : {0} \cup AllPorts,
                                       close : BOOLEAN]],
                   work : BOOLEAN, port : AllPorts, crossed : BOOLEAN]
    /\ msgs \in Seq({"arrival", "adb removed", "fb removed", "updated"})

Init ==
    /\ m_bWork = FALSE /\ crashed = FALSE /\ again = FALSE /\ clicks = 0
    /\ ui = [pc |-> "idle", start |-> FALSE]
    /\ port = [stat |-> "IDLE", usb |-> "null", active |-> 0, evt |-> FALSE]
    /\ heap = <<>> /\ list = 0 /\ handle_list = [k \in Intf |-> "none"]
    /\ bus = "off" /\ msgs = <<>>
    /\ session = [s \in Sessions |-> NoSession]
    /\ server = [thr |-> [s \in Sessions |-> NoServer], work |-> FALSE, port |-> 80,
                 crossed |-> FALSE]

-----------------------------------------------------------------------------
(* Devices and handles. *)

Least(S) == CHOOSE x \in S : \A y \in S : x <= y

\* The interface the modem shows.
Present == CASE bus \in {"adb", "leaving"} -> "adb"
             [] bus \in {"fastboot", "restarting"} -> "fb"
             [] OTHER -> "none"

\* find_devices: opens what is present, unless a handle of that name is in the list.
find_devices ==
    handle_list' = [k \in Intf |-> IF k = Present /\ handle_list[k] = "none" THEN "open"
                                                                          ELSE handle_list[k]]

\* SetIntf with the handle, and what EnumerateAdbDevice makes of the status.
SetIntf(o) ==
    IF Present = "adb" THEN [o EXCEPT !.adb = "live"]
    ELSE [o EXCEPT !.fb = "live",
                   !.status = IF @ = "CHECK" \/ (FlashDirect /\ @ = "PLUGIN") THEN "FLASH" ELSE @]

NewObject == [adb |-> "null", fb |-> "null", status |-> "PLUGIN", att |-> FALSE]

\* The list after AddDevice.
Added == IF list = 0 THEN Append(heap, SetIntf(NewObject))
                     ELSE [heap EXCEPT ![list] = SetIntf(@)]

\* EnumerateAdbDevice without scheduling.
Enumerates == m_bWork /\ Present # "none"
EnumerateAdbDevice ==
    /\ IF m_bWork THEN find_devices ELSE UNCHANGED handle_list
    /\ list' = IF Enumerates /\ list = 0 THEN Len(heap) + 1 ELSE list

GetUsbHandle(o) ==
    CASE o.fb # "null" /\ o.status \in {"PLUGIN", "FLASH"} -> IF o.fb = "live" THEN "fb" ELSE "dead"
      [] /\ ~(o.fb # "null" /\ o.status \in {"PLUGIN", "FLASH"})
         /\ o.adb # "null" /\ o.status \in {"PLUGIN", "CHECK"}
           -> IF o.adb = "live" THEN "adb" ELSE "dead"
      [] OTHER -> "null"

Stale(ptr) == IF ptr = "live" THEN "dead" ELSE ptr

\* The objects after usb_close of the handle on interface k.
Closed(k) == [i \in DOMAIN heap |->
                 CASE k = "adb" -> [heap[i] EXCEPT !.adb = Stale(@)]
                   [] k = "fb" -> [heap[i] EXCEPT !.fb = Stale(@)]
                   [] OTHER -> heap[i]]
usb_close(k) == handle_list' = [j \in Intf |-> IF j = k THEN "none" ELSE handle_list[j]]

\* UsbWorkData::Clean.
Clean(w) == [w EXCEPT !.stat = "IDLE", !.usb = "null", !.active = 0, !.evt = FALSE]

\* IsIdle, in the sessions' non-parallel mode.
IsIdle == port.stat \notin {"WORKING", "SWITCH"}

\* UsbWorkData::Reset.  A session has no work thread of its port's: while it works it
\* is asked to close.
ResetPort(w) ==
    CASE w.stat = "WORKING" -> [w EXCEPT !.stat = "WAITING_CLOSE"]
      [] w.stat = "SWITCH" -> Clean(w)
      [] OTHER -> w

\* DeviceCoordinator::Reset frees the objects.
ResetDevices ==
    /\ heap' = [i \in DOMAIN heap |-> IF i = list THEN [heap[i] EXCEPT !.status = "UNKNOW"]
                                                  ELSE heap[i]]
    /\ list' = 0

-----------------------------------------------------------------------------
(* The file server. *)

Listening == {t \in Sessions : server.thr[t].pc \in {"listening", "loop", "accept"}}
Taken == {server.thr[t].sock : t \in Sessions}

\* Run holds mStatusCs from its beginning until it has set m_ServerWork.
Locked == \E t \in Sessions : server.thr[t].pc \in {"bound", "listening"}

ServerGoes(t, step) == server' = [server EXCEPT !.thr[t].pc = step]
ServerGone(t) == server' = [server EXCEPT !.thr[t] = NoServer]

\* Run: BindPort on m_ServerPort, then on the others in turn.  Another program may hold
\* a port; without one, or without a socket, Run ends.
Bind(t) ==
    /\ server.thr[t].pc = "begin" /\ ~Locked
    /\ \E free \in SUBSET (AllPorts \ Taken) :
          LET p == IF server.port \in free THEN server.port ELSE Least(free \cap Ports) IN
          IF server.port \in free \/ free \cap Ports # {}
          THEN server' = [server EXCEPT !.thr[t].pc = "bound", !.thr[t].sock = p, !.port = p]
          ELSE ServerGone(t)
    /\ UNCHANGED <<uiVars, port, devVars, modemVars, session, crashed>>

\* listen; when it fails Run ends, and m_ServerPort stays what BindPort made it.
Listen(t) ==
    /\ server.thr[t].pc = "bound"
    /\ ServerGoes(t, "listening") \/ ServerGone(t)
    /\ UNCHANGED <<uiVars, port, devVars, modemVars, session, crashed>>

\* m_ServerWork is set, whatever came in through the socket since.
Announce(t) ==
    /\ server.thr[t].pc = "listening"
    /\ server' = [server EXCEPT !.thr[t].pc = "loop", !.work = TRUE,
                                !.crossed = @ \/ server.thr[t].close \/ ui.pc = "close"]
    /\ UNCHANGED <<uiVars, port, devVars, modemVars, session, crashed>>

\* The head of the accept loop.
While(t) ==
    /\ server.thr[t].pc = "loop"
    /\ IF server.work THEN ServerGoes(t, "accept") ELSE ServerGone(t)
    /\ UNCHANGED <<uiVars, port, devVars, modemVars, session, crashed>>

\* CLOSE_SERVER ends the loop: its socket is closed.
ServerEnds(t) ==
    /\ server.thr[t].pc = "accept" /\ server.thr[t].close
    /\ ServerGone(t)
    /\ UNCHANGED <<uiVars, port, devVars, modemVars, session, crashed>>

\* A file is asked for and sent, or the request is refused.  With m_ServerWork set accept
\* follows again.
Serve(t) ==
    /\ server.thr[t].pc = "accept" /\ ~server.work
    /\ ServerGone(t)
    /\ UNCHANGED <<uiVars, port, devVars, modemVars, session, crashed>>

-----------------------------------------------------------------------------
(* The UI thread.  Posted messages are handled before clicks. *)

In(steps) == {s \in Sessions : session[s].pc \in steps}

Idle == ui.pc = "idle"
MayClick == Idle /\ clicks < MaxClicks /\ msgs = <<>>

\* calm tells a session that no Reset came between and no other one works beside it.
Disturbed == [s \in Sessions |-> [session[s] EXCEPT !.calm = FALSE]]

Spare == {s \in Sessions : session[s].pc = "none" /\ server.thr[s].pc = "none"}

\* A click on Start (SetWorkStatus) or on Stop, confirmed, begins with PSTManager::Reset:
\* the port is first.  When the operator takes Stop back at the second question the port
\* is reset all the same.
Click(start) ==
    /\ MayClick /\ m_bWork = ~start
    /\ IF start THEN UNCHANGED m_bWork /\ Spare # {}
                ELSE m_bWork' = FALSE \/ (~IsIdle /\ m_bWork' = TRUE)
    /\ ui' = [pc |-> "stop", start |-> start] /\ clicks' = clicks + 1
    /\ port' = ResetPort(port) /\ session' = Disturbed
    /\ UNCHANGED <<msgs, devVars, modemVars, server, crashed>>

UIGoes(step) == ui' = [ui EXCEPT !.pc = step] /\ UNCHANGED <<msgs, clicks>>

\* Mutant: the server stopped last time still counts as working.
KeepWorking ==
    /\ ui.pc = "stop"
    /\ UIGoes(IF server.work THEN "close" ELSE "devices")
    /\ UNCHANGED <<m_bWork, port, devVars, modemVars, session, server, crashed>>

\* StopHttpServer clears m_ServerWork without mStatusCs,
StopHttpServer ==
    /\ ui.pc = "stop"
    /\ server' = [server EXCEPT !.work = FALSE]
    /\ UIGoes(IF server.work THEN "close" ELSE "devices")
    /\ UNCHANGED <<m_bWork, port, devVars, modemVars, session, crashed>>

\* then sends CLOSE_SERVER to whoever listens on m_ServerPort now.
SendClose ==
    /\ ui.pc = "close"
    /\ server' = [server EXCEPT !.thr = [t \in Sessions |->
                      IF t \in Listening /\ @[t].sock = server.port
                      THEN [@[t] EXCEPT !.close = TRUE] ELSE @[t]]]
    /\ UIGoes("devices")
    /\ UNCHANGED <<m_bWork, port, devVars, modemVars, session, crashed>>

\* DeviceCoordinator::Reset.
ResetCoordinator ==
    /\ ui.pc = "devices"
    /\ ResetDevices /\ session' = Disturbed
    /\ UIGoes(IF ui.start THEN "work" ELSE "idle")
    /\ UNCHANGED <<m_bWork, port, handle_list, modemVars, server, crashed>>

\* SetWork(TRUE): the threads.
SetWork ==
    /\ ui.pc = "work"
    /\ m_bWork' = TRUE
    /\ \E s \in Spare :
          /\ session' = [session EXCEPT ![s] = [NoSession EXCEPT !.pc = "begin"]]
          /\ server' = [server EXCEPT !.thr[s] = [NoServer EXCEPT !.pc = "begin"]]
    /\ UIGoes("idle")
    /\ UNCHANGED <<port, devVars, modemVars, crashed>>

Clicking == StopHttpServer \/ SendClose \/ ResetCoordinator \/ SetWork

Receive(m) ==
    /\ Idle /\ msgs # <<>> /\ Head(msgs) = m /\ msgs' = Tail(msgs)
    /\ UNCHANGED <<ui, clicks>>

\* Mutant: the new handle is not fetched.
SignalOnly(w, hp) == [w EXCEPT !.stat = "WORKING", !.evt = TRUE]

\* SetDevSwitchEvt.
SetDevSwitchEvt(w, hp) ==
    [w EXCEPT !.stat = "WORKING", !.evt = TRUE,
              !.usb = IF w.active = 0 THEN @ ELSE GetUsbHandle(hp[w.active])]

\* An adb or fastboot interface arrived: EnumerateAdbDevice, and ScheduleDeviceWork
\* when it found one.
DeviceArrival ==
    /\ Receive("arrival") /\ UNCHANGED m_bWork
    /\ InTime => In({"check", "close", "null", "detach"}) = {}
    /\ EnumerateAdbDevice
    /\ LET hp == IF Enumerates THEN Added ELSE heap
       IN  IF Enumerates /\ port.stat = "SWITCH"
           THEN /\ port' = SetDevSwitchEvt(port, hp)
                /\ heap' = IF port.active = 0 THEN hp ELSE [hp EXCEPT ![port.active].att = TRUE]
           ELSE heap' = hp /\ UNCHANGED port
    /\ UNCHANGED <<modemVars, session, server, crashed>>

\* HandleDeviceRemoved: FindUsbWorkData finds the port by its device (the bootloader's
\* path also matches an adb interface in that slot); only a working port is given up
\* and its device freed.
HandleDeviceRemoved(k) ==
    /\ Receive(IF k = "adb" THEN "adb removed" ELSE "fb removed") /\ UNCHANGED m_bWork
    /\ IF /\ list # 0 /\ port.active = list /\ port.stat = "WORKING"
          /\ k = "adb" => heap[list].adb # "null"
       THEN /\ usb_close(port.usb)
            /\ heap' = [Closed(port.usb) EXCEPT ![list] =
                           [adb |-> "null", fb |-> "null", status |-> "UNKNOW", att |-> FALSE]]
            /\ list' = 0
            /\ port' = Clean(port)
       ELSE UNCHANGED <<devVars, port>>
    /\ UNCHANGED <<modemVars, session, server, crashed>>

\* OnDeviceInfo(OPENWRT_UPDATED): SetWork(FALSE).
OpenwrtUpdated ==
    /\ Receive("updated") /\ m_bWork' = FALSE
    /\ UNCHANGED <<port, devVars, modemVars, session, server, crashed>>

Messages == DeviceArrival \/ (\E k \in Intf : HandleDeviceRemoved(k)) \/ OpenwrtUpdated

-----------------------------------------------------------------------------
(* A telnet session: RunTelnetServer. *)

Goto(s, step) == session' = [session EXCEPT ![s].pc = step]

\* A port that an earlier session has yet to close ends this one without a word.
Begin(s) ==
    /\ session[s].pc = "begin"
    /\ Goto(s, IF port.stat = "WAITING_CLOSE" THEN "none" ELSE "mark")
    /\ UNCHANGED <<uiVars, port, devVars, modemVars, server, crashed>>

Mark(s) ==
    /\ session[s].pc = "mark"
    /\ port' = [Clean(port) EXCEPT !.stat = "WORKING"]
    /\ session' = [Disturbed EXCEPT ![s].pc = "nic"]
    /\ UNCHANGED <<uiVars, devVars, modemVars, server, crashed>>

\* The addresses of the router and of this host.
FindGateway(s) ==
    /\ session[s].pc = "nic"
    /\ \E found \in BOOLEAN : Goto(s, IF found THEN "server" ELSE "report")
    /\ UNCHANGED <<uiVars, port, devVars, modemVars, server, crashed>>

Alone(s) == \A r \in Sessions \ {s} : session[r].pc \in {"none", "begin"}

\* IsServerWorks passes through mStatusCs, then reads m_ServerWork.
PassLock(s) ==
    /\ session[s].pc = "server" /\ ~Locked
    /\ Goto(s, "works")
    /\ UNCHANGED <<uiVars, port, devVars, modemVars, server, crashed>>

IsServerWorks(s) ==
    /\ session[s].pc = "works"
    /\ session' = [session EXCEPT ![s].pc = IF server.work THEN "telnet" ELSE "report",
                                  ![s].calm = Idle /\ Alone(s)]
    /\ UNCHANGED <<uiVars, port, devVars, modemVars, server, crashed>>

\* ConnectServer, the login and the commands that switch the modem's USB to the PC.
Telnet(s) ==
    /\ session[s].pc = "telnet"
    /\ \E connected \in BOOLEAN : Goto(s, IF connected THEN "enum" ELSE "report")
    /\ UNCHANGED <<uiVars, port, devVars, modemVars, server, crashed>>

\* CPEModemPST enumerates on this thread.
Enumerate(s) ==
    /\ session[s].pc = "enum"
    /\ EnumerateAdbDevice
    /\ heap' = IF Enumerates THEN Added ELSE heap
    /\ Goto(s, "seek")
    /\ UNCHANGED <<uiVars, port, modemVars, server, crashed>>

\* GetValidDevice for an adb or a fastboot interface.
Valid(k) ==
    /\ list # 0 /\ ~heap[list].att /\ heap[list].status \in {"PLUGIN", "CHECK", "FLASH"}
    /\ (IF k = "adb" THEN heap[list].adb ELSE heap[list].fb) # "null"

\* A modem was found: SetDevice, then RunMiFiPST up to its handle.
TakeDevice(s) ==
    /\ session[s].pc = "seek"
    /\ Valid("adb") \/ (Valid("fb") /\ ~IsIdle /\ FlashDirect /\ session[s].seeks < MaxSeeks)
    /\ LET o == [heap[list] EXCEPT !.att = TRUE,
                                   !.status = IF @ = "PLUGIN" THEN "CHECK" ELSE @]
       IN  /\ heap' = [heap EXCEPT ![list] = o]
           /\ port' = [port EXCEPT !.stat = "WORKING", !.active = list, !.usb = GetUsbHandle(o)]
    /\ session' = [session EXCEPT ![s].pc = "mifi", ![s].dev = list, ![s].seeks = 0]
    /\ UNCHANGED <<uiVars, list, handle_list, modemVars, server, crashed>>

\* Mutant: the rounds are not counted against the limit.
SeekOn(s) ==
    /\ session[s].pc = "seek" /\ ~Valid("adb") /\ ~Valid("fb") /\ ~IsIdle
    /\ ~(port.evt /\ port.active = 0)
    /\ session' = [session EXCEPT ![s].seeks = @ + 1]
    /\ UNCHANGED <<uiVars, port, devVars, modemVars, server, crashed>>

SeekAgain(s) ==
    /\ session[s].pc = "seek" /\ ~Valid("adb") /\ ~Valid("fb") /\ ~IsIdle
    /\ session[s].seeks < MaxSeeks
    /\ ~(port.evt /\ port.active = 0)
    /\ session' = [session EXCEPT ![s].seeks = @ + 1]
    /\ UNCHANGED <<uiVars, port, devVars, modemVars, server, crashed>>

\* Stopped by the operator, no modem in time, or one already in its bootloader.
SeekFails(s) ==
    /\ session[s].pc = "seek" /\ ~Valid("adb")
    /\ IsIdle \/ session[s].seeks = MaxSeeks \/ (Valid("fb") /\ ~FlashDirect)
    /\ Goto(s, "report")
    /\ UNCHANGED <<uiVars, port, devVars, modemVars, server, crashed>>

RunMiFiPST(s) ==
    /\ session[s].pc = "mifi"
    /\ Goto(s, CASE port.usb = "null" -> "report"
                 [] port.usb # "null" /\ heap[session[s].dev].status = "CHECK" -> "reboot"
                 [] OTHER -> "check")
    /\ UNCHANGED <<uiVars, port, devVars, modemVars, server, crashed>>

\* AdbPST::Reboot, whose result nobody looks at (module AdbHost is its detail).
AdbReboot(s) ==
    /\ session[s].pc = "reboot"
    /\ InTime => msgs = <<>>
    /\ \/ port.usb = "adb" /\ handle_list["adb"] = "open" /\ bus = "adb" /\ bus' = "leaving"
       \/ UNCHANGED bus
    /\ Goto(s, "setflash")
    /\ UNCHANGED <<uiVars, port, devVars, again, server, crashed>>

EnterFlash(s) ==
    /\ session[s].pc = "setflash"
    /\ heap' = [heap EXCEPT ![session[s].dev].status = "FLASH"]
    /\ Goto(s, "close")
    /\ UNCHANGED <<uiVars, port, list, handle_list, modemVars, server, crashed>>

\* WaitForDevSwitchEvt: the handle is closed, the port given up, the device let go.
CloseHandle(s) ==
    /\ session[s].pc = "close"
    /\ usb_close(port.usb) /\ heap' = Closed(port.usb)
    /\ port' = [port EXCEPT !.usb = IF @ = "null" THEN @ ELSE "dead"]
    /\ Goto(s, "null")
    /\ UNCHANGED <<uiVars, list, modemVars, server, crashed>>

SwitchPort(s) ==
    /\ session[s].pc = "null"
    /\ port' = [port EXCEPT !.usb = "null", !.stat = "SWITCH"]
    /\ Goto(s, "detach")
    /\ UNCHANGED <<uiVars, devVars, modemVars, server, crashed>>

Detach(s) ==
    /\ session[s].pc = "detach" /\ port.active # 0
    /\ heap' = [heap EXCEPT ![port.active].att = FALSE]
    /\ Goto(s, "wait")
    /\ UNCHANGED <<uiVars, port, list, handle_list, modemVars, server, crashed>>

\* The event is manual-reset: waiting does not reset it.
Signalled(s) ==
    /\ session[s].pc = "wait" /\ port.evt /\ port.active # 0
    /\ Goto(s, "check")
    /\ UNCHANGED <<uiVars, port, devVars, modemVars, server, crashed>>

\* The first wait's timeout is not looked at, the loop's ends the update.
Timeout(s) ==
    /\ session[s].pc = "wait" /\ ~port.evt
    /\ Goto(s, IF session[s].looped THEN "report" ELSE "check")
    /\ UNCHANGED <<uiVars, port, devVars, modemVars, server, crashed>>

\* The loop that waits for the bootloader's handle, then the state of the device.
CheckHandle(s) ==
    /\ session[s].pc = "check"
    /\ session' = [session EXCEPT
                      ![s].looped = (port.usb = "null"),
                      ![s].pc = CASE port.usb = "null" -> "close"
                                  [] port.usb # "null" /\ heap[session[s].dev].status = "FLASH"
                                       -> "flash"
                                  [] OTHER -> "fetch"]
    /\ UNCHANGED <<uiVars, port, devVars, modemVars, server, crashed>>

\* The fastboot session (module Fastboot), whose result nobody looks at.
FlashImages(s) ==
    /\ session[s].pc = "flash"
    /\ heap' = [heap EXCEPT ![session[s].dev].status = "REMOVED"]
    /\ session' = [session EXCEPT ![s].pc = "fetch", ![s].dev = 0]
    /\ UNCHANGED <<uiVars, port, list, handle_list, modemVars, server, crashed>>

\* The router is told to fetch from m_ServerPort, and to upgrade whatever it got.
Fetch(s) ==
    /\ session[s].pc = "fetch"
    /\ Goto(s, "upgrade")
    /\ UNCHANGED <<uiVars, port, devVars, modemVars, server, crashed>>

\* RebootFastboot has a device with a bootloader and a handle.
CanReboot == port.active # 0 /\ heap[port.active].fb # "null" /\ port.usb # "null"

\* sysupgrade's output tells the end, or stops for too long; after an upgrade the
\* modem is restarted.
Upgrade(s) ==
    /\ session[s].pc = "upgrade"
    /\ \E done \in BOOLEAN :
          IF done /\ CanReboot /\ bus = "fastboot" /\ handle_list["fb"] = "open"
          THEN bus' = "restarting" ELSE UNCHANGED bus
    /\ Goto(s, "report")
    /\ UNCHANGED <<uiVars, port, devVars, again, server, crashed>>

\* SetInfo(OPENWRT_UPDATED): Finish, then the message to the dialog.  A package without
\* images for the router is reported before the port is marked.
Report(s) ==
    /\ session[s].pc \in {"mark", "report"}
    /\ usb_close(port.usb) /\ heap' = Closed(port.usb)
    /\ port' = Clean(port)
    /\ msgs' = Append(msgs, "updated")
    /\ session' = [session EXCEPT ![s] = NoSession]
    /\ UNCHANGED <<m_bWork, ui, clicks, list, modemVars, server, crashed>>

Session(s) ==
    \/ Begin(s) \/ Mark(s) \/ FindGateway(s) \/ PassLock(s) \/ IsServerWorks(s) \/ Telnet(s)
    \/ Enumerate(s) \/ TakeDevice(s) \/ SeekAgain(s) \/ SeekFails(s)
    \/ RunMiFiPST(s) \/ AdbReboot(s) \/ EnterFlash(s)
    \/ CloseHandle(s) \/ SwitchPort(s) \/ Detach(s) \/ Signalled(s) \/ Timeout(s)
    \/ CheckHandle(s) \/ FlashImages(s) \/ Fetch(s) \/ Upgrade(s) \/ Report(s)

\* The pointers that a step follows and that may be bad: the port's device where it is
\* NULL or freed, the session's own device, a handle that was closed.
BadActive == port.active = 0 \/ port.active # list
BadPointer(s) ==
    CASE session[s].pc = "seek" -> port.evt /\ port.active = 0
      [] session[s].pc \in {"mifi", "reboot", "setflash", "flash"} ->
            session[s].dev # list \/ port.usb = "dead"
      [] session[s].pc \in {"detach", "wait"} ->
            BadActive /\ (session[s].pc = "wait" => port.evt)
      [] session[s].pc \in {"close", "report"} ->
            port.usb = "dead" \/ (session[s].pc = "report" /\ port.active \notin {0, list})
      [] session[s].pc = "upgrade" -> port.active \notin {0, list}
      [] OTHER -> FALSE

\* The UI thread signals a port whose device was freed, or looks at its path.
BadMessage ==
    /\ Idle /\ msgs # <<>> /\ port.active \notin {0, list}
    /\ CASE Head(msgs) = "arrival" -> Enumerates /\ port.stat = "SWITCH"
         [] Head(msgs) \in {"adb removed", "fb removed"} -> list # 0
         [] OTHER -> FALSE

Crash ==
    /\ BadMessage \/ \E s \in Sessions : BadPointer(s)
    /\ crashed' = TRUE
    /\ UNCHANGED <<uiVars, port, devVars, modemVars, session, server>>

-----------------------------------------------------------------------------
(* The modem (external). *)

\* With its USB switched to the PC the modem appears, in normal mode or left in its
\* bootloader.
ModemAppears ==
    /\ bus = "off" /\ In({"enum", "seek"}) # {}
    /\ bus' \in {"adb", "fastboot"} /\ msgs' = Append(msgs, "arrival")
    /\ UNCHANGED <<m_bWork, ui, clicks, port, devVars, again, session, server, crashed>>

\* The handle on an interface that leaves stays in the list until it is closed.
Gone(k) == handle_list' = [handle_list EXCEPT ![k] = IF @ = "open" THEN "stale" ELSE @]

ModemLeaves ==
    /\ bus = "leaving"
    /\ InTime => In({"reboot", "setflash", "close", "null", "detach"}) = {}
    /\ bus' = "reset" /\ msgs' = Append(msgs, "adb removed") /\ Gone("adb")
    /\ UNCHANGED <<m_bWork, ui, clicks, port, heap, list, again, session, server, crashed>>

ModemRestarts ==
    /\ bus = "restarting"
    /\ InTime => In({"report"}) = {}
    /\ bus' = "off" /\ msgs' = Append(msgs, "fb removed") /\ Gone("fb")
    /\ UNCHANGED <<m_bWork, ui, clicks, port, heap, list, again, session, server, crashed>>

\* The bootloader's interface appears, or (HH70) the adb interface once more before it.
ModemReturns ==
    /\ bus = "reset"
    /\ bus' \in {"fastboot"} \cup (IF Reenumerate /\ ~again THEN {"leaving"} ELSE {})
    /\ again' = (again \/ bus' = "leaving")
    /\ msgs' = Append(msgs, "arrival")
    /\ UNCHANGED <<m_bWork, ui, clicks, port, devVars, session, server, crashed>>

Modem == ModemAppears \/ ModemLeaves \/ ModemRestarts \/ ModemReturns

-----------------------------------------------------------------------------
Server(t) == Bind(t) \/ Listen(t) \/ Announce(t) \/ While(t) \/ ServerEnds(t)

Next ==
    /\ ~crashed
    /\ \/ \E s \in Sessions : Session(s)
       \/ \E start \in BOOLEAN : Click(start)
       \/ Clicking \/ Messages \/ Modem \/ Crash
       \/ \E t \in Sessions : Server(t) \/ Serve(t)

Spec == Init /\ [][Next]_vars

\* The message loop and every thread get the processor again and again: a click and a
\* message are handled, the message even if InTime keeps it out of some moments, and NULL
\* is followed.  Nothing is assumed of the modem, the router or the operator.
Fairness ==
    /\ SF_vars(~crashed /\ Messages)
    /\ WF_vars(~crashed /\ Clicking)
    /\ WF_vars(~crashed /\ Crash)
    /\ \A s \in Sessions : /\ WF_vars(~crashed /\ Session(s))
                          /\ WF_vars(~crashed /\ Server(s))

FairSpec == Spec /\ Fairness

-----------------------------------------------------------------------------
(* Properties. *)

\* What "add for HH70 one thread only" (SetInfo, PST.cpp) claims: Stop and Start never put
\* a second session on the port of one that works.  Reset asks only a working port to
\* close: one that waits for its modem in USB_STAT_SWITCH is cleaned, and the next Start
\* finds it idle.
OneThreadOnly == Cardinality({s \in Sessions : session[s].pc \notin {"none", "begin"}}) <= 1

\* A session that IsServerWorks let through has a server that listens until it told the
\* router to fetch, unless a click or a second session came between.  Which port is another
\* matter: a second server thread, about to listen, moves m_ServerPort.  StopHttpServer
\* clears m_ServerWork without the lock under which Run sets it: nothing is said once a Run
\* that had yet to set the flag got a CLOSE_SERVER, as it sets it all the same and then ends.
ServerReady ==
    ~server.crossed => \A s \in Sessions :
        session[s].calm /\ session[s].pc # "report" => Listening # {}

\* Every session comes to its report: no modem that stays away, comes late or comes back
\* in any order keeps WaitForDevSwitchEvt's loop and CPEModemPST's going for ever, and
\* Stop ends them.  Not said of the update of a session whose device Stop freed, or that
\* shared its port with a second session.
Disputed(s) == session[s].pc \in ModemSteps /\ ~session[s].calm
SessionEnds ==
    \A s \in Sessions :
        (session[s].pc # "none") ~> (session[s].pc = "none" \/ Disputed(s) \/ crashed)
==============================================================================
