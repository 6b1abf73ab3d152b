---------------------------- MODULE CpeFlowProofs ----------------------------
(***************************************************************************)
(* Proofs about CpeFlow, for any number of sessions, clicks, rounds and     *)
(* TCP ports: the type invariant, and that a session which was let through  *)
(* has a server that listens until its fetch.                               *)
(***************************************************************************)
EXTENDS CpeFlow, WellFoundedInduction, TLAPS

\* The types that depend on the objects allocated so far.
Index(n) == 0..n
PortRec(n) == [stat : {"IDLE", "WORKING", "SWITCH", "WAITING_CLOSE"},
               usb : {"null", "dead"} \cup Intf, active : Index(n), evt : BOOLEAN]
SessionRec(n) == [pc : SessionSteps, dev : Index(n), seeks : 0..MaxSeeks,
                  looped : BOOLEAN, calm : BOOLEAN]
Thread == [pc : ServerSteps, sock : {0} \cup AllPorts, close : BOOLEAN]
ServerRec == [thr : [Sessions -> Thread], work : BOOLEAN, port : AllPorts, crossed : BOOLEAN]
Message == {"arrival", "adb removed", "fb removed", "updated"}

\* CpeTypeOK in these words, one conjunct for each variable.
Types ==
    /\ m_bWork \in BOOLEAN /\ crashed \in BOOLEAN /\ again \in BOOLEAN
    /\ ui \in [pc : UISteps, start : BOOLEAN] /\ clicks \in 0..MaxClicks
    /\ heap \in Seq(Object) /\ list \in Index(Len(heap))
    /\ port \in PortRec(Len(heap))
    /\ handle_list \in [Intf -> {"none", "open", "stale"}]
    /\ bus \in {"off", "adb", "leaving", "reset", "fastboot", "restarting"}
    /\ session \in [Sessions -> SessionRec(Len(heap))]
    /\ server \in ServerRec
    /\ msgs \in Seq(Message)

LEMMA TypesAre == Types <=> CpeTypeOK
BY DEF Types, CpeTypeOK, Index, PortRec, SessionRec, Thread, ServerRec, Message

-----------------------------------------------------------------------------
(* The heap, and the values made from it. *)

\* A function like a sequence is one of the same length.
LEMMA SameLength ==
    ASSUME NEW S, NEW h \in Seq(S), NEW g, DOMAIN g = DOMAIN h, \A i \in DOMAIN h : g[i] \in S,
           g = [i \in DOMAIN g |-> g[i]]
    PROVE  g \in Seq(S) /\ Len(g) = Len(h)
<1>1. Len(h) \in Nat /\ DOMAIN h = 1..Len(h)
  OBVIOUS
<1>2. g \in [1..Len(h) -> S]
  BY <1>1
<1> QED BY <1>1, <1>2

\* An object put in another's place.
LEMMA Put ==
    ASSUME NEW S, NEW h \in Seq(S), NEW i, NEW r, i \in DOMAIN h => r \in S
    PROVE  [h EXCEPT ![i] = r] \in Seq(S) /\ Len([h EXCEPT ![i] = r]) = Len(h)
<1> DEFINE g == [h EXCEPT ![i] = r]
<1>1. DOMAIN g = DOMAIN h /\ g = [j \in DOMAIN g |-> g[j]]
  OBVIOUS
<1>2. \A j \in DOMAIN h : g[j] \in S
  OBVIOUS
<1> HIDE DEF g
<1>3. g \in Seq(S) /\ Len(g) = Len(h)
  BY <1>1, <1>2, SameLength
<1> QED BY <1>3 DEF g

LEMMA SetIntfType == ASSUME NEW o \in Object PROVE SetIntf(o) \in Object
BY DEF SetIntf, Object, Pointer

LEMMA AddedType ==
    ASSUME Types
    PROVE  /\ Added \in Seq(Object)
           /\ Len(Added) = IF list = 0 THEN Len(heap) + 1 ELSE Len(heap)
<1>1. NewObject \in Object
  BY DEF NewObject, Object, Pointer
<1>2. CASE list = 0
  <2>1. SetIntf(NewObject) \in Object
    BY <1>1, SetIntfType
  <2> QED BY <1>2, <2>1 DEF Added, Types
<1>3. CASE list # 0
  <2>1. list \in DOMAIN heap => heap[list] \in Object
    BY DEF Types
  <2>2. list \in DOMAIN heap => SetIntf(heap[list]) \in Object
    BY <2>1, SetIntfType
  <2>3. heap \in Seq(Object)
    BY DEF Types
  <2> DEFINE r == SetIntf(heap[list])
  <2>4. Added = [heap EXCEPT ![list] = r]
    BY <1>3 DEF Added
  <2> HIDE DEF r
  <2>5. list \in DOMAIN heap => r \in Object
    BY <2>2 DEF r
  <2> QED BY <1>3, <2>3, <2>4, <2>5, Put
<1> QED BY <1>2, <1>3

LEMMA HandleType == ASSUME NEW o PROVE GetUsbHandle(o) \in {"null", "dead"} \cup Intf
BY DEF GetUsbHandle, Intf

LEMMA ClosedType ==
    ASSUME Types, NEW k
    PROVE  Closed(k) \in Seq(Object) /\ Len(Closed(k)) = Len(heap)
<1>1. DOMAIN Closed(k) = DOMAIN heap /\ Closed(k) = [j \in DOMAIN Closed(k) |-> Closed(k)[j]]
  BY DEF Closed
<1>2. ASSUME NEW i \in DOMAIN heap PROVE Closed(k)[i] \in Object
  <2>1. heap[i] \in Object
    BY DEF Types
  <2>2. CASE k = "adb"
    <3>1. Closed(k)[i] = [heap[i] EXCEPT !.adb = Stale(@)]
      BY <2>2 DEF Closed
    <3> QED BY <2>1, <3>1 DEF Stale, Object, Pointer
  <2>3. CASE k = "fb"
    <3>1. Closed(k)[i] = [heap[i] EXCEPT !.fb = Stale(@)]
      BY <2>3 DEF Closed
    <3> QED BY <2>1, <3>1 DEF Stale, Object, Pointer
  <2>4. CASE k \notin {"adb", "fb"}
    <3>1. Closed(k)[i] = heap[i]
      BY <2>4 DEF Closed
    <3> QED BY <2>1, <3>1
  <2> QED BY <2>2, <2>3, <2>4
<1>3. heap \in Seq(Object)
  BY DEF Types
<1> QED BY <1>1, <1>2, <1>3, SameLength

\* More objects: the older values keep their types.
LEMMA Grown ==
    ASSUME NEW m \in Nat, NEW n \in Nat, m <= n
    PROVE  /\ Index(m) \subseteq Index(n)
           /\ PortRec(m) \subseteq PortRec(n)
           /\ SessionRec(m) \subseteq SessionRec(n)
           /\ [Sessions -> SessionRec(m)] \subseteq [Sessions -> SessionRec(n)]
<1>1. Index(m) \subseteq Index(n)
  BY DEF Index
<1>2. PortRec(m) \subseteq PortRec(n)
  BY <1>1 DEF PortRec
<1>3. SessionRec(m) \subseteq SessionRec(n)
  BY <1>1 DEF SessionRec
<1> QED BY <1>1, <1>2, <1>3

LEMMA CleanType ==
    ASSUME NEW n \in Nat, NEW w \in PortRec(n)
    PROVE  Clean(w) \in PortRec(n) /\ ResetPort(w) \in PortRec(n)
<1>1. 0 \in Index(n)
  BY DEF Index
<1>2. Clean(w) \in PortRec(n)
  BY <1>1 DEF Clean, PortRec
<1> QED BY <1>2 DEF ResetPort, PortRec

LEMMA CloseType ==
    ASSUME Types, NEW k, usb_close(k)
    PROVE  handle_list' \in [Intf -> {"none", "open", "stale"}]
BY DEF Types, usb_close

LEMMA EnumerateType ==
    ASSUME Types, EnumerateAdbDevice
    PROVE  /\ handle_list' \in [Intf -> {"none", "open", "stale"}]
           /\ list' \in Index(Len(IF Enumerates THEN Added ELSE heap))
           /\ (IF Enumerates THEN Added ELSE heap) \in Seq(Object)
           /\ Len(IF Enumerates THEN Added ELSE heap) \in {Len(heap), Len(heap) + 1}
<1>1. handle_list' \in [Intf -> {"none", "open", "stale"}]
  BY DEF Types, EnumerateAdbDevice, find_devices
<1>2. Len(heap) \in Nat /\ heap \in Seq(Object) /\ list \in 0..Len(heap)
  BY DEF Types, Index
<1>3. list' = IF Enumerates /\ list = 0 THEN Len(heap) + 1 ELSE list
  BY DEF EnumerateAdbDevice
<1> QED BY <1>1, <1>2, <1>3, AddedType DEF Index

-----------------------------------------------------------------------------
(* The file server. *)

\* Least finds the least number of a set.
LEMMA LeastIn ==
    ASSUME NEW S, S \subseteq Nat, S # {}
    PROVE  Least(S) \in S
<1>1. PICK x \in S : \A y \in S : ~(<<y, x>> \in OpToRel(<, Nat))
  BY NatLessThanWellFounded, WFMin
<1>2. ASSUME NEW y \in S PROVE x <= y
  <2>1. <<y, x>> \in Nat \X Nat /\ <<y, x>>[1] = y /\ <<y, x>>[2] = x
    OBVIOUS
  <2>2. y < x => <<y, x>> \in OpToRel(<, Nat)
    BY <2>1 DEF OpToRel
  <2>3. ~(y < x)
    BY <1>1, <2>2
  <2>4. x \in Nat /\ y \in Nat
    OBVIOUS
  <2> QED BY <2>3, <2>4
<1> QED BY <1>2 DEF Least

-----------------------------------------------------------------------------
(* Type correctness, action by action. *)

\* The parts of Types after a step; the heap may have one object more.
LEMMA FromParts ==
    ASSUME Types,
           m_bWork' \in BOOLEAN, crashed' \in BOOLEAN, again' \in BOOLEAN,
           ui' \in [pc : UISteps, start : BOOLEAN], clicks' \in 0..MaxClicks,
           heap' \in Seq(Object), Len(heap') \in {Len(heap), Len(heap) + 1},
           list' \in Index(Len(heap')), port' \in PortRec(Len(heap)),
           handle_list' \in [Intf -> {"none", "open", "stale"}],
           bus' \in {"off", "adb", "leaving", "reset", "fastboot", "restarting"},
           session' \in [Sessions -> SessionRec(Len(heap))],
           server' \in ServerRec, msgs' \in Seq(Message)
    PROVE  Types'
<1>1. Len(heap) \in Nat /\ Len(heap') \in Nat /\ Len(heap) <= Len(heap')
  BY DEF Types
<1>2. port' \in PortRec(Len(heap')) /\ session' \in [Sessions -> SessionRec(Len(heap'))]
  BY <1>1, Grown
<1> QED BY <1>2 DEF Types

\* A step of a session that leaves everything but the session and the port alone.
LEMMA PortStep ==
    ASSUME Types, port' \in PortRec(Len(heap)),
           session' \in [Sessions -> SessionRec(Len(heap))],
           UNCHANGED <<uiVars, devVars, modemVars, server, crashed>>
    PROVE  Types'
<1>1. /\ m_bWork' = m_bWork /\ ui' = ui /\ msgs' = msgs /\ clicks' = clicks /\ heap' = heap
      /\ list' = list /\ handle_list' = handle_list /\ bus' = bus /\ again' = again
      /\ server' = server /\ crashed' = crashed
  BY DEF uiVars, devVars, modemVars
<1> QED BY <1>1 DEF Types

\* Every session step leads to a step.
LEMMA GotoType ==
    ASSUME Types, NEW s \in Sessions, NEW step \in SessionSteps, Goto(s, step)
    PROVE  session' \in [Sessions -> SessionRec(Len(heap))]
BY DEF Types, SessionRec, Goto

LEMMA Steps ==
    /\ {"none", "begin", "mark", "nic", "server", "works", "telnet", "enum", "seek", "fetch", "upgrade",
        "report", "mifi", "reboot", "setflash", "close", "null", "detach", "wait", "check",
        "flash"} = SessionSteps
BY DEF SessionSteps, ModemSteps

LEMMA DisturbedType ==
    ASSUME Types PROVE Disturbed \in [Sessions -> SessionRec(Len(heap))]
<1>1. \A s \in Sessions : session[s] \in SessionRec(Len(heap))
  BY DEF Types
<1>2. \A s \in Sessions : [session[s] EXCEPT !.calm = FALSE] \in SessionRec(Len(heap))
  BY <1>1 DEF SessionRec
<1> QED BY <1>2 DEF Disturbed

LEMMA QuietTypes ==
    ASSUME Types, NEW s \in Sessions,
           \/ Begin(s) \/ FindGateway(s) \/ PassLock(s) \/ Telnet(s) \/ SeekFails(s)
           \/ RunMiFiPST(s)
           \/ Signalled(s) \/ Timeout(s) \/ Fetch(s) \/ SwitchPort(s) \/ Mark(s)
           \/ IsServerWorks(s) \/ SeekAgain(s) \/ CheckHandle(s)
    PROVE  Types'
<1>1. CASE Begin(s) \/ FindGateway(s) \/ PassLock(s) \/ Telnet(s) \/ SeekFails(s) \/ RunMiFiPST(s)
           \/ Signalled(s) \/ Timeout(s) \/ Fetch(s)
  <2>1. UNCHANGED <<uiVars, port, devVars, modemVars, server, crashed>>
    BY <1>1 DEF Begin, FindGateway, PassLock, Telnet, SeekFails, RunMiFiPST, Signalled, Timeout, Fetch
  <2>2. \E step \in SessionSteps : Goto(s, step)
    <3>1. CASE Begin(s) BY <3>1, Steps DEF Begin
    <3>2. CASE FindGateway(s) BY <3>2, Steps DEF FindGateway
    <3>3. CASE Telnet(s) BY <3>3, Steps DEF Telnet
    <3>9. CASE PassLock(s) BY <3>9, Steps DEF PassLock
    <3>4. CASE SeekFails(s) BY <3>4, Steps DEF SeekFails
    <3>5. CASE RunMiFiPST(s)
      <4>1. CASE port.usb = "null" BY <3>5, <4>1, Steps DEF RunMiFiPST
      <4>2. CASE port.usb # "null" /\ heap[session[s].dev].status = "CHECK"
        BY <3>5, <4>2, Steps DEF RunMiFiPST
      <4>3. CASE port.usb # "null" /\ heap[session[s].dev].status # "CHECK"
        BY <3>5, <4>3, Steps DEF RunMiFiPST
      <4> QED BY <4>1, <4>2, <4>3
    <3>6. CASE Signalled(s) BY <3>6, Steps DEF Signalled
    <3>7. CASE Timeout(s) BY <3>7, Steps DEF Timeout
    <3>8. CASE Fetch(s) BY <3>8, Steps DEF Fetch
    <3> QED BY <1>1, <3>1, <3>2, <3>3, <3>4, <3>5, <3>6, <3>7, <3>8, <3>9
  <2>3. session' \in [Sessions -> SessionRec(Len(heap))]
    BY <2>2, GotoType
  <2>4. port' \in PortRec(Len(heap))
    BY <2>1 DEF Types
  <2> QED BY <2>1, <2>3, <2>4, PortStep
<1>2. CASE SwitchPort(s) \/ Mark(s)
  <2>1. UNCHANGED <<uiVars, devVars, modemVars, server, crashed>>
    BY <1>2 DEF SwitchPort, Mark
  <2>2. Len(heap) \in Nat /\ port \in PortRec(Len(heap))
    BY DEF Types
  <2>3. port' \in PortRec(Len(heap))
    <3>1. CASE SwitchPort(s) BY <2>2, <3>1 DEF SwitchPort, PortRec
    <3>2. CASE Mark(s)
      <4>1. Clean(port) \in PortRec(Len(heap))
        BY <2>2, CleanType
      <4> QED BY <3>2, <4>1 DEF Mark, PortRec
    <3> QED BY <1>2, <3>1, <3>2
  <2>4. session' \in [Sessions -> SessionRec(Len(heap))]
    <3>1. CASE SwitchPort(s)
      BY <3>1, GotoType, Steps DEF SwitchPort
    <3>2. CASE Mark(s)
      BY <3>2, DisturbedType, Steps DEF Mark, SessionRec
    <3> QED BY <1>2, <3>1, <3>2
  <2> QED BY <2>1, <2>3, <2>4, PortStep
<1>3. CASE IsServerWorks(s) \/ SeekAgain(s) \/ CheckHandle(s)
  <2>1. UNCHANGED <<uiVars, port, devVars, modemVars, server, crashed>>
    BY <1>3 DEF IsServerWorks, SeekAgain, CheckHandle
  <2>2. session \in [Sessions -> SessionRec(Len(heap))] /\ session[s] \in SessionRec(Len(heap))
    BY DEF Types
  <2>3. session' \in [Sessions -> SessionRec(Len(heap))]
    <3>1. CASE IsServerWorks(s)
      <4>1. PICK step \in SessionSteps : session' = [session EXCEPT ![s].pc = step,
                                                                    ![s].calm = (Idle /\ Alone(s))]
        BY <3>1, Steps DEF IsServerWorks
      <4> DEFINE calm == Idle /\ Alone(s)
      <4>2. calm \in BOOLEAN
        BY DEF Idle, Alone
      <4> HIDE DEF calm
      <4>3. session' = [session EXCEPT ![s].pc = step, ![s].calm = calm]
        BY <4>1 DEF calm
      <4> HIDE DEF Alone
      <4> QED BY <2>2, <4>2, <4>3 DEF SessionRec
    <3>2. CASE SeekAgain(s)
      <4>1. session[s].seeks \in 0..MaxSeeks /\ session[s].seeks < MaxSeeks
        BY <2>2, <3>2 DEF SeekAgain, SessionRec
      <4>2. session[s].seeks + 1 \in 0..MaxSeeks
        BY <4>1, CpeAssumption
      <4> QED BY <2>2, <3>2, <4>2 DEF SeekAgain, SessionRec
    <3>3. CASE CheckHandle(s)
      <4>1. PICK step \in SessionSteps, looped \in BOOLEAN :
               session' = [session EXCEPT ![s].looped = looped, ![s].pc = step]
        <5> DEFINE step == CASE port.usb = "null" -> "close"
                             [] port.usb # "null" /\ heap[session[s].dev].status = "FLASH" -> "flash"
                             [] OTHER -> "fetch"
        <5>1. step \in SessionSteps
          <6>1. CASE port.usb = "null" BY <6>1, Steps
          <6>2. CASE port.usb # "null" /\ heap[session[s].dev].status = "FLASH" BY <6>2, Steps
          <6>3. CASE port.usb # "null" /\ heap[session[s].dev].status # "FLASH" BY <6>3, Steps
          <6> QED BY <6>1, <6>2, <6>3
        <5> DEFINE looped == (port.usb = "null")
        <5>2. looped \in BOOLEAN
          OBVIOUS
        <5>3. session' = [session EXCEPT ![s].looped = looped, ![s].pc = step]
          BY <3>3 DEF CheckHandle
        <5> QED BY <5>1, <5>2, <5>3
      <4> QED BY <2>2, <4>1 DEF SessionRec
    <3> QED BY <1>3, <3>1, <3>2, <3>3
  <2>4. port' \in PortRec(Len(heap))
    BY <2>1 DEF Types
  <2> QED BY <2>1, <2>3, <2>4, PortStep
<1> QED BY <1>1, <1>2, <1>3

\* A step of a session that changes an object, the handles or the modem.
LEMMA ObjectTypes ==
    ASSUME Types, NEW s \in Sessions,
           \/ EnterFlash(s) \/ Detach(s) \/ FlashImages(s) \/ CloseHandle(s)
           \/ Enumerate(s) \/ AdbReboot(s) \/ Upgrade(s)
    PROVE  Types'
<1> USE DEF uiVars, devVars, modemVars
<1>0. /\ Len(heap) \in Nat /\ heap \in Seq(Object) /\ port \in PortRec(Len(heap))
      /\ \A i \in DOMAIN heap : heap[i] \in Object
  BY DEF Types
<1>1. ASSUME NEW i, NEW r, i \in DOMAIN heap => r \in Object, heap' = [heap EXCEPT ![i] = r],
             UNCHANGED <<uiVars, port, list, handle_list, modemVars, server, crashed>>,
             NEW step \in SessionSteps, Goto(s, step)
      PROVE  Types'
  <2>1. heap' \in Seq(Object) /\ Len(heap') = Len(heap)
    BY <1>0, <1>1, Put
  <2>2. session' \in [Sessions -> SessionRec(Len(heap))]
    BY <1>1, GotoType
  <2> QED BY <1>1, <2>1, <2>2 DEF Types
<1>2. CASE EnterFlash(s)
  <2> DEFINE i == session[s].dev
             r == [heap[i] EXCEPT !.status = "FLASH"]
  <2>1. i \in DOMAIN heap => r \in Object
    BY <1>0 DEF Object
  <2>2. heap' = [heap EXCEPT ![i] = r]
    BY <1>2 DEF EnterFlash
  <2>3. Goto(s, "close") /\ UNCHANGED <<uiVars, port, list, handle_list, modemVars, server, crashed>>
    BY <1>2 DEF EnterFlash
  <2> HIDE DEF i, r
  <2> QED BY <1>1, <2>1, <2>2, <2>3, Steps
<1>3. CASE FlashImages(s)
  <2> DEFINE i == session[s].dev
             r == [heap[i] EXCEPT !.status = "REMOVED"]
  <2>1. i \in DOMAIN heap => r \in Object
    BY <1>0 DEF Object
  <2>2. heap' = [heap EXCEPT ![i] = r]
    BY <1>3 DEF FlashImages
  <2>3. /\ session' = [session EXCEPT ![s].pc = "fetch", ![s].dev = 0]
        /\ UNCHANGED <<uiVars, port, list, handle_list, modemVars, server, crashed>>
    BY <1>3 DEF FlashImages
  <2> HIDE DEF i, r
  <2>4. heap' \in Seq(Object) /\ Len(heap') = Len(heap)
    BY <1>0, <2>1, <2>2, Put
  <2>5. session' \in [Sessions -> SessionRec(Len(heap))]
    <3>1. session[s] \in SessionRec(Len(heap)) /\ 0 \in Index(Len(heap)) /\ "fetch" \in SessionSteps
      BY <1>0, Steps DEF Types, Index
    <3>2. session \in [Sessions -> SessionRec(Len(heap))]
      BY DEF Types
    <3> QED BY <2>3, <3>1, <3>2 DEF SessionRec
  <2> QED BY <2>3, <2>4, <2>5 DEF Types
<1>4. CASE Detach(s)
  <2> DEFINE i == port.active
             r == [heap[i] EXCEPT !.att = FALSE]
  <2>1. i \in DOMAIN heap => r \in Object
    BY <1>0 DEF Object
  <2>2. heap' = [heap EXCEPT ![i] = r]
    BY <1>4 DEF Detach
  <2>3. Goto(s, "wait") /\ UNCHANGED <<uiVars, port, list, handle_list, modemVars, server, crashed>>
    BY <1>4 DEF Detach
  <2> HIDE DEF i, r
  <2> QED BY <1>1, <2>1, <2>2, <2>3, Steps
<1>5. CASE CloseHandle(s)
  <2>1. /\ usb_close(port.usb) /\ heap' = Closed(port.usb) /\ Goto(s, "null")
        /\ port' = [port EXCEPT !.usb = IF @ = "null" THEN @ ELSE "dead"]
        /\ UNCHANGED <<uiVars, list, modemVars, server, crashed>>
    BY <1>5 DEF CloseHandle
  <2>2. heap' \in Seq(Object) /\ Len(heap') = Len(heap)
    BY <2>1, ClosedType
  <2>3. port' \in PortRec(Len(heap))
    BY <1>0, <2>1 DEF PortRec
  <2>4. session' \in [Sessions -> SessionRec(Len(heap))]
    BY <2>1, GotoType, Steps
  <2>5. handle_list' \in [Intf -> {"none", "open", "stale"}]
    BY <2>1, CloseType
  <2> QED BY <2>1, <2>2, <2>3, <2>4, <2>5 DEF Types
<1>6. CASE Enumerate(s)
  <2>1. /\ EnumerateAdbDevice /\ heap' = (IF Enumerates THEN Added ELSE heap)
        /\ Goto(s, "seek") /\ UNCHANGED <<uiVars, port, modemVars, server, crashed>>
    BY <1>6 DEF Enumerate
  <2>2. session' \in [Sessions -> SessionRec(Len(heap))]
    BY <2>1, GotoType, Steps
  <2>3. /\ handle_list' \in [Intf -> {"none", "open", "stale"}] /\ list' \in Index(Len(heap'))
        /\ heap' \in Seq(Object) /\ Len(heap') \in {Len(heap), Len(heap) + 1}
    BY <2>1, EnumerateType
  <2>4. /\ m_bWork' \in BOOLEAN /\ crashed' \in BOOLEAN /\ again' \in BOOLEAN
        /\ ui' \in [pc : UISteps, start : BOOLEAN] /\ clicks' \in 0..MaxClicks
        /\ port' \in PortRec(Len(heap)) /\ server' \in ServerRec
        /\ bus' \in {"off", "adb", "leaving", "reset", "fastboot", "restarting"}
        /\ msgs' \in Seq(Message)
    BY <2>1 DEF Types
  <2> QED BY <2>2, <2>3, <2>4, FromParts
<1>7. CASE AdbReboot(s) \/ Upgrade(s)
  <2>1. /\ UNCHANGED <<uiVars, port, devVars, again, server, crashed>>
        /\ bus' \in {bus, "leaving", "restarting"}
    BY <1>7 DEF AdbReboot, Upgrade
  <2>2. \E step \in SessionSteps : Goto(s, step)
    BY <1>7, Steps DEF AdbReboot, Upgrade
  <2>3. session' \in [Sessions -> SessionRec(Len(heap))]
    BY <2>2, GotoType
  <2> QED BY <2>1, <2>3 DEF Types
<1> QED BY <1>2, <1>3, <1>4, <1>5, <1>6, <1>7

LEMMA TakeTypes ==
    ASSUME Types, NEW s \in Sessions, TakeDevice(s)
    PROVE  Types'
<1> USE DEF uiVars, modemVars
<1> DEFINE o == [heap[list] EXCEPT !.att = TRUE, !.status = IF @ = "PLUGIN" THEN "CHECK" ELSE @]
           usb == GetUsbHandle(o)
<1>1. /\ heap' = [heap EXCEPT ![list] = o]
      /\ port' = [port EXCEPT !.stat = "WORKING", !.active = list, !.usb = usb]
      /\ session' = [session EXCEPT ![s].pc = "mifi", ![s].dev = list, ![s].seeks = 0]
      /\ UNCHANGED <<uiVars, list, handle_list, modemVars, server, crashed>>
  BY DEF TakeDevice
<1>2. /\ heap \in Seq(Object) /\ \A i \in DOMAIN heap : heap[i] \in Object
      /\ port \in PortRec(Len(heap)) /\ list \in Index(Len(heap))
      /\ session \in [Sessions -> SessionRec(Len(heap))]
  BY DEF Types
<1>3. list \in DOMAIN heap => o \in Object
  BY <1>2 DEF Object
<1>4. usb \in {"null", "dead"} \cup Intf
  BY HandleType
<1> HIDE DEF o, usb
<1>5. heap' \in Seq(Object) /\ Len(heap') = Len(heap)
  BY <1>1, <1>2, <1>3, Put
<1>6. port' \in PortRec(Len(heap))
  BY <1>1, <1>2, <1>4 DEF PortRec
<1>7. session' \in [Sessions -> SessionRec(Len(heap))]
  <2> DEFINE n == Len(heap)
             r == [session[s] EXCEPT !.pc = "mifi", !.dev = list, !.seeks = 0]
  <2>1. "mifi" \in SessionSteps
    BY Steps
  <2>2. session[s] \in SessionRec(n) /\ list \in Index(n) /\ 0 \in 0..MaxSeeks
    BY <1>2, CpeAssumption
  <2> HIDE DEF n
  <2>3. r \in SessionRec(n)
    BY <2>1, <2>2 DEF SessionRec
  <2>4. session' = [session EXCEPT ![s] = r]
    BY <1>1, <1>2
  <2> HIDE DEF r
  <2> QED BY <1>2, <2>3, <2>4 DEF n
<1> QED BY <1>1, <1>5, <1>6, <1>7 DEF Types

\* A message appended to the queue of messages.
LEMMA AppendMessage ==
    ASSUME NEW q \in Seq(Message), NEW e \in Message
    PROVE  /\ Append(q, e) \in Seq(Message)
           /\ Len(Append(q, e)) = Len(q) + 1
           /\ \A i \in 1..Len(q) : Append(q, e)[i] = q[i]
           /\ Append(q, e)[Len(q) + 1] = e
OBVIOUS

\* The same for each message the coordinator posts, and the queue after one is taken.
LEMMA Posted ==
    ASSUME NEW q \in Seq(Message), NEW m \in {"arrival", "adb removed", "fb removed", "updated"}
    PROVE  /\ Append(q, m) \in Seq(Message)
           /\ Len(Append(q, m)) = Len(q) + 1
           /\ \A i \in 1..Len(q) : Append(q, m)[i] = q[i]
           /\ Append(q, m)[Len(q) + 1] = m
<1>1. m \in Message
  BY DEF Message
<1> QED BY Zenon, <1>1, AppendMessage

LEMMA Taken1 ==
    ASSUME NEW q \in Seq(Message), q # <<>>
    PROVE  /\ Tail(q) \in Seq(Message) /\ Head(q) = q[1] /\ Len(q) >= 1
           /\ Len(Tail(q)) = Len(q) - 1
           /\ \A i \in 1..Len(Tail(q)) : Tail(q)[i] = q[i + 1]
OBVIOUS

LEMMA NoSessionType == ASSUME NEW n \in Nat PROVE NoSession \in SessionRec(n)
<1>1. 0 \in Index(n) /\ 0 \in 0..MaxSeeks
  BY CpeAssumption DEF Index
<1> QED BY <1>1, Steps DEF NoSession, SessionRec

LEMMA ReportTypes ==
    ASSUME Types, NEW s \in Sessions, Report(s)
    PROVE  Types'
<1> USE DEF uiVars, modemVars
<1>1. /\ usb_close(port.usb) /\ heap' = Closed(port.usb) /\ port' = Clean(port)
      /\ msgs' = Append(msgs, "updated") /\ session' = [session EXCEPT ![s] = NoSession]
      /\ UNCHANGED <<m_bWork, ui, clicks, list, modemVars, server, crashed>>
  BY DEF Report
<1>2. Len(heap) \in Nat /\ port \in PortRec(Len(heap)) /\ msgs \in Seq(Message)
  BY DEF Types
<1>3. heap' \in Seq(Object) /\ Len(heap') = Len(heap)
  BY <1>1, ClosedType
<1>4. port' \in PortRec(Len(heap))
  BY <1>1, <1>2, CleanType
<1>5. session' \in [Sessions -> SessionRec(Len(heap))]
  BY <1>1, <1>2, NoSessionType DEF Types
<1>6. handle_list' \in [Intf -> {"none", "open", "stale"}]
  BY <1>1, CloseType
<1>7. msgs' \in Seq(Message)
  BY <1>1, <1>2, Posted
<1> QED BY <1>1, <1>3, <1>4, <1>5, <1>6, <1>7 DEF Types

LEMMA ResetTypes ==
    ASSUME Types, ResetDevices
    PROVE  /\ heap' \in Seq(Object) /\ Len(heap') = Len(heap)
           /\ list' \in Index(Len(heap))
<1>1. /\ Len(heap) \in Nat /\ heap \in Seq(Object)
      /\ \A i \in DOMAIN heap : heap[i] \in Object
  BY DEF Types
<1>2. list' = 0
  BY DEF ResetDevices
<1>3. heap' = [i \in DOMAIN heap |-> IF i = list THEN [heap[i] EXCEPT !.status = "UNKNOW"]
                                                ELSE heap[i]]
  BY DEF ResetDevices
<1>4. \A i \in DOMAIN heap : heap'[i] \in Object
  <2> SUFFICES ASSUME NEW i \in DOMAIN heap PROVE heap'[i] \in Object
    OBVIOUS
  <2>1. heap[i] \in Object
    BY <1>1
  <2> QED BY <1>3, <2>1 DEF Object
<1>5. DOMAIN heap' = DOMAIN heap /\ heap' = [i \in DOMAIN heap' |-> heap'[i]]
  BY <1>3
<1>6. heap' \in Seq(Object) /\ Len(heap') = Len(heap)
  BY <1>1, <1>4, <1>5, SameLength
<1>7. 0 \in Index(Len(heap))
  BY <1>1 DEF Index
<1> QED BY <1>2, <1>6, <1>7

LEMMA ClickTypes ==
    ASSUME Types, NEW start \in BOOLEAN, Click(start)
    PROVE  Types'
<1>1. clicks' \in 0..MaxClicks
  <2>1. clicks' = clicks + 1 /\ clicks < MaxClicks
    BY DEF Click, MayClick
  <2> QED BY <2>1, CpeAssumption DEF Types
<1>2. m_bWork' \in BOOLEAN
  BY DEF Types, Click
<1>3. ui' \in [pc : UISteps, start : BOOLEAN]
  BY DEF Click, UISteps
<1>4. Len(heap) \in Nat /\ port' \in PortRec(Len(heap))
  BY CleanType DEF Types, Click
<1>5. session' \in [Sessions -> SessionRec(Len(heap))]
  BY DisturbedType DEF Click
<1>6. UNCHANGED <<msgs, devVars, modemVars, server, crashed>>
  BY DEF Click
<1> QED BY <1>1, <1>2, <1>3, <1>4, <1>5, <1>6 DEF Types, devVars, modemVars

\* Every step of a click leads to a step.
LEMMA UIType ==
    ASSUME Types, NEW step \in UISteps, UIGoes(step)
    PROVE  ui' \in [pc : UISteps, start : BOOLEAN] /\ UNCHANGED <<msgs, clicks>>
BY DEF Types, UIGoes

LEMMA ClickingTypes ==
    ASSUME Types, Clicking
    PROVE  Types'
<1> USE DEF devVars, modemVars
<1>0. /\ UISteps = {"idle", "stop", "close", "devices", "work"}
      /\ server \in ServerRec /\ Len(heap) \in Nat
  BY DEF UISteps, Types
<1>1. ui' \in [pc : UISteps, start : BOOLEAN] /\ UNCHANGED <<msgs, clicks>>
  <2>1. \E step \in UISteps : UIGoes(step)
    BY <1>0 DEF Clicking, StopHttpServer, SendClose, ResetCoordinator, SetWork
  <2> QED BY <2>1, UIType
<1>2. CASE StopHttpServer
  <2>1. server' \in ServerRec
    BY <1>0, <1>2 DEF StopHttpServer, ServerRec
  <2>2. UNCHANGED <<m_bWork, port, devVars, modemVars, session, crashed>>
    BY <1>2 DEF StopHttpServer
  <2> QED BY <1>1, <2>1, <2>2 DEF Types
<1>3. CASE SendClose
  <2> DEFINE thr == [t \in Sessions |-> IF t \in Listening /\ server.thr[t].sock = server.port
                                       THEN [server.thr[t] EXCEPT !.close = TRUE]
                                       ELSE server.thr[t]]
  <2>1. \A t \in Sessions : server.thr[t] \in Thread
    BY <1>0 DEF ServerRec
  <2>2. \A t \in Sessions : [server.thr[t] EXCEPT !.close = TRUE] \in Thread
    BY <2>1 DEF Thread
  <2>3. thr \in [Sessions -> Thread]
    BY <2>1, <2>2
  <2>4. server' = [server EXCEPT !.thr = thr]
    BY <1>3 DEF SendClose
  <2> HIDE DEF thr
  <2>5. server' \in ServerRec
    BY <1>0, <2>3, <2>4 DEF ServerRec
  <2>6. UNCHANGED <<m_bWork, port, devVars, modemVars, session, crashed>>
    BY <1>3 DEF SendClose
  <2> QED BY <1>1, <2>5, <2>6 DEF Types
<1>4. CASE ResetCoordinator
  <2>1. /\ ResetDevices /\ session' = Disturbed
        /\ UNCHANGED <<m_bWork, port, handle_list, modemVars, server, crashed>>
    BY <1>4 DEF ResetCoordinator
  <2>2. /\ heap' \in Seq(Object) /\ Len(heap') = Len(heap) /\ list' \in Index(Len(heap))
        /\ session' \in [Sessions -> SessionRec(Len(heap))]
    BY <2>1, ResetTypes, DisturbedType
  <2> QED BY <1>1, <2>1, <2>2 DEF Types
<1>5. CASE SetWork
  <2>1. PICK s \in Sessions :
           /\ session' = [session EXCEPT ![s] = [NoSession EXCEPT !.pc = "begin"]]
           /\ server' = [server EXCEPT !.thr[s] = [NoServer EXCEPT !.pc = "begin"]]
    BY <1>5 DEF SetWork, Spare
  <2>2. NoSession \in SessionRec(Len(heap))
    BY <1>0, NoSessionType
  <2>3. [NoSession EXCEPT !.pc = "begin"] \in SessionRec(Len(heap))
    BY <2>2, Steps DEF SessionRec
  <2>4. session' \in [Sessions -> SessionRec(Len(heap))]
    BY <2>1, <2>3 DEF Types
  <2>5. [NoServer EXCEPT !.pc = "begin"] \in Thread
    BY DEF NoServer, Thread, ServerSteps
  <2>6. server' \in ServerRec
    BY <1>0, <2>1, <2>5 DEF ServerRec
  <2>7. m_bWork' = TRUE /\ UNCHANGED <<port, devVars, modemVars, crashed>>
    BY <1>5 DEF SetWork
  <2> QED BY <1>1, <2>4, <2>6, <2>7 DEF Types
<1> QED BY <1>2, <1>3, <1>4, <1>5 DEF Clicking

LEMMA ArrivalTypes ==
    ASSUME Types, DeviceArrival
    PROVE  Types'
<1> DEFINE hp == IF Enumerates THEN Added ELSE heap
<1>1. /\ EnumerateAdbDevice /\ msgs # <<>> /\ msgs' = Tail(msgs)
      /\ UNCHANGED <<m_bWork, ui, clicks, modemVars, session, server, crashed>>
  BY DEF DeviceArrival, Receive
<1>2. IF Enumerates /\ port.stat = "SWITCH"
      THEN /\ port' = SetDevSwitchEvt(port, hp)
           /\ heap' = IF port.active = 0 THEN hp ELSE [hp EXCEPT ![port.active].att = TRUE]
      ELSE heap' = hp /\ UNCHANGED port
  BY DEF DeviceArrival
<1>3. /\ handle_list' \in [Intf -> {"none", "open", "stale"}] /\ list' \in Index(Len(hp))
      /\ hp \in Seq(Object) /\ Len(hp) \in {Len(heap), Len(heap) + 1}
  BY <1>1, EnumerateType
<1> HIDE DEF hp
<1>4. port \in PortRec(Len(heap)) /\ msgs \in Seq(Message)
  BY DEF Types
<1>5. port' \in PortRec(Len(heap))
  <2>1. GetUsbHandle(hp[port.active]) \in {"null", "dead"} \cup Intf
    BY HandleType
  <2>2. SetDevSwitchEvt(port, hp) \in PortRec(Len(heap))
    BY <1>4, <2>1 DEF SetDevSwitchEvt, PortRec
  <2> QED BY <1>2, <1>4, <2>2
<1>6. heap' \in Seq(Object) /\ Len(heap') = Len(hp)
  <2> DEFINE i == port.active
             r == [hp[i] EXCEPT !.att = TRUE]
  <2>1. i \in DOMAIN hp => r \in Object
    <3>1. i \in DOMAIN hp => hp[i] \in Object
      BY <1>3
    <3> QED BY <3>1 DEF Object
  <2>2. heap' = hp \/ heap' = [hp EXCEPT ![i] = r]
    BY <1>2
  <2> HIDE DEF i, r
  <2> QED BY <1>3, <2>1, <2>2, Put
<1>7. msgs' \in Seq(Message)
  BY <1>1, <1>4, Taken1
<1>8. /\ m_bWork' \in BOOLEAN /\ crashed' \in BOOLEAN /\ again' \in BOOLEAN
      /\ ui' \in [pc : UISteps, start : BOOLEAN] /\ clicks' \in 0..MaxClicks
      /\ server' \in ServerRec
      /\ bus' \in {"off", "adb", "leaving", "reset", "fastboot", "restarting"}
      /\ session' \in [Sessions -> SessionRec(Len(heap))]
  BY <1>1 DEF Types, modemVars
<1> QED BY <1>3, <1>5, <1>6, <1>7, <1>8, FromParts

LEMMA RemovedTypes ==
    ASSUME Types, NEW k \in Intf, HandleDeviceRemoved(k)
    PROVE  Types'
<1>1. /\ msgs # <<>> /\ msgs' = Tail(msgs)
      /\ UNCHANGED <<m_bWork, ui, clicks, modemVars, session, server, crashed>>
  BY DEF HandleDeviceRemoved, Receive
<1>2. Len(heap) \in Nat /\ port \in PortRec(Len(heap)) /\ msgs \in Seq(Message)
  BY DEF Types
<1>3. msgs' \in Seq(Message)
  BY <1>1, <1>2, Taken1
<1>4. CASE UNCHANGED <<devVars, port>>
  BY <1>1, <1>3, <1>4 DEF Types, devVars, modemVars
<1>5. CASE /\ usb_close(port.usb)
           /\ heap' = [Closed(port.usb) EXCEPT ![list] =
                          [adb |-> "null", fb |-> "null", status |-> "UNKNOW", att |-> FALSE]]
           /\ list' = 0
           /\ port' = Clean(port)
  <2> DEFINE h == Closed(port.usb)
             r == [adb |-> "null", fb |-> "null", status |-> "UNKNOW", att |-> FALSE]
  <2>1. r \in Object
    BY DEF Object, Pointer
  <2>2. h \in Seq(Object) /\ Len(h) = Len(heap)
    BY ClosedType
  <2>3. heap' = [h EXCEPT ![list] = r] /\ usb_close(port.usb) /\ list' = 0 /\ port' = Clean(port)
    BY <1>5
  <2> HIDE DEF h, r
  <2>4. heap' \in Seq(Object) /\ Len(heap') = Len(heap)
    BY <2>1, <2>2, <2>3, Put
  <2>5. port' \in PortRec(Len(heap)) /\ handle_list' \in [Intf -> {"none", "open", "stale"}]
    BY <1>2, <2>3, CleanType, CloseType
  <2>6. list' \in Index(Len(heap))
    BY <1>2, <2>3 DEF Index
  <2> QED BY <1>1, <1>3, <2>4, <2>5, <2>6 DEF Types, modemVars
<1> QED BY <1>4, <1>5 DEF HandleDeviceRemoved

LEMMA OtherTypes ==
    ASSUME Types, OpenwrtUpdated \/ Modem \/ Crash
    PROVE  Types'
<1> USE DEF uiVars, devVars, modemVars
<1>0. msgs \in Seq(Message)
  BY DEF Types
<1>1. CASE OpenwrtUpdated
  <2>1. msgs' \in Seq(Message)
    BY <1>0, <1>1, Taken1 DEF OpenwrtUpdated, Receive
  <2> QED BY <1>1, <2>1 DEF Types, OpenwrtUpdated, Receive
<1>2. CASE Crash
  BY <1>2 DEF Types, Crash
<1>3. CASE Modem
  <2>1. msgs' \in Seq(Message)
    BY <1>0, <1>3, Posted DEF Modem, ModemAppears, ModemLeaves, ModemRestarts, ModemReturns
  <2>2. bus' \in {"off", "adb", "leaving", "reset", "fastboot", "restarting"}
    BY <1>3 DEF Modem, ModemAppears, ModemLeaves, ModemRestarts, ModemReturns
  <2>3. again' \in BOOLEAN
    BY <1>3 DEF Types, Modem, ModemAppears, ModemLeaves, ModemRestarts, ModemReturns
  <2>4. handle_list' \in [Intf -> {"none", "open", "stale"}]
    BY <1>3 DEF Types, Modem, ModemAppears, ModemLeaves, ModemRestarts, ModemReturns, Gone
  <2>5. UNCHANGED <<m_bWork, ui, clicks, port, heap, list, session, server, crashed>>
    BY <1>3 DEF Modem, ModemAppears, ModemLeaves, ModemRestarts, ModemReturns
  <2> QED BY <2>1, <2>2, <2>3, <2>4, <2>5 DEF Types
<1> QED BY <1>1, <1>2, <1>3

LEMMA ServerTypes ==
    ASSUME Types, NEW t \in Sessions, Server(t) \/ Serve(t)
    PROVE  Types'
<1>1. UNCHANGED <<uiVars, port, devVars, modemVars, session, crashed>>
  BY DEF Server, Bind, Listen, Announce, While, ServerEnds, Serve
<1>2. server \in ServerRec
  BY DEF Types
<1>3. NoServer \in Thread
  BY DEF NoServer, Thread, ServerSteps
<1>4. server' \in ServerRec
  <2>1. ASSUME NEW step \in ServerSteps, ServerGoes(t, step)
        PROVE  server' \in ServerRec
    BY <1>2, <2>1 DEF ServerGoes, ServerRec, Thread
  <2>2. CASE ServerGone(t)
    BY <1>2, <1>3, <2>2 DEF ServerGone, ServerRec
  <2>3. CASE Announce(t)
    BY <1>2, <2>3 DEF Announce, ServerRec, Thread, ServerSteps
  <2>4. CASE Bind(t)
    <3>1. PICK free \in SUBSET (AllPorts \ Taken) :
             LET p == IF server.port \in free THEN server.port ELSE Least(free \cap Ports) IN
             IF server.port \in free \/ free \cap Ports # {}
             THEN server' = [server EXCEPT !.thr[t].pc = "bound", !.thr[t].sock = p, !.port = p]
             ELSE ServerGone(t)
      BY <2>4 DEF Bind
    <3> DEFINE p == IF server.port \in free THEN server.port ELSE Least(free \cap Ports)
    <3>2. free \cap Ports # {} => Least(free \cap Ports) \in free \cap Ports
      BY LeastIn, CpeAssumption
    <3>3. server.port \in free \/ free \cap Ports # {} => p \in AllPorts
      BY <3>2 DEF AllPorts
    <3>4. \/ ServerGone(t)
          \/ /\ p \in AllPorts
             /\ server' = [server EXCEPT !.thr[t].pc = "bound", !.thr[t].sock = p, !.port = p]
      BY <3>1, <3>3
    <3> HIDE DEF p
    <3>5. CASE p \in AllPorts /\ server' = [server EXCEPT !.thr[t].pc = "bound",
                                                         !.thr[t].sock = p, !.port = p]
      <4> DEFINE r == [server.thr[t] EXCEPT !.pc = "bound", !.sock = p]
      <4>1. r \in Thread
        BY <1>2, <3>5 DEF ServerRec, Thread, ServerSteps
      <4>2. server' = [server EXCEPT !.thr = [server.thr EXCEPT ![t] = r], !.port = p]
        BY <1>2, <3>5 DEF ServerRec
      <4> HIDE DEF r
      <4>3. [server.thr EXCEPT ![t] = r] \in [Sessions -> Thread]
        BY <1>2, <4>1 DEF ServerRec
      <4> QED BY <1>2, <3>5, <4>2, <4>3 DEF ServerRec
    <3> QED BY <2>2, <3>4, <3>5
  <2>5. CASE Listen(t) \/ While(t) \/ ServerEnds(t) \/ Serve(t)
    BY <2>1, <2>2, <2>5 DEF Listen, While, ServerEnds, Serve, ServerSteps
  <2> QED BY <2>3, <2>4, <2>5 DEF Server
<1> QED BY <1>1, <1>4 DEF Types, uiVars, devVars, modemVars

LEMMA TypesInit == Init => Types
<1> SUFFICES ASSUME Init PROVE Types
  OBVIOUS
<1>1. heap = <<>> /\ Len(heap) = 0 /\ heap \in Seq(Object)
  BY DEF Init
<1>2. list \in Index(Len(heap)) /\ clicks \in 0..MaxClicks
  BY <1>1, CpeAssumption DEF Init, Index
<1>3. port \in PortRec(Len(heap))
  <2>1. 0 \in Index(Len(heap))
    BY <1>1 DEF Index
  <2> QED BY <2>1 DEF Init, PortRec
<1>4. session \in [Sessions -> SessionRec(Len(heap))]
  BY <1>1, NoSessionType DEF Init
<1>5. server \in ServerRec /\ ui \in [pc : UISteps, start : BOOLEAN]
  <2>1. NoServer \in Thread
    BY DEF NoServer, Thread, ServerSteps
  <2> QED BY <2>1 DEF Init, ServerRec, AllPorts, UISteps
<1>6. msgs \in Seq(Message)
  BY DEF Init
<1> QED BY <1>1, <1>2, <1>3, <1>4, <1>5, <1>6 DEF Init, Types

LEMMA TypesNext == Types /\ [Next]_vars => Types'
<1> SUFFICES ASSUME Types, [Next]_vars PROVE Types'
  OBVIOUS
<1>1. CASE \E s \in Sessions : Session(s)
  BY <1>1, QuietTypes, ObjectTypes, TakeTypes, ReportTypes DEF Session
<1>2. CASE (\E start \in BOOLEAN : Click(start)) \/ Clicking \/ Messages \/ Modem \/ Crash
  BY <1>2, ClickTypes, ClickingTypes, ArrivalTypes, RemovedTypes, OtherTypes DEF Messages
<1>3. CASE \E t \in Sessions : Server(t) \/ Serve(t)
  BY <1>3, ServerTypes
<1>4. CASE UNCHANGED vars
  BY <1>4 DEF vars, uiVars, devVars, modemVars, Types
<1> QED BY <1>1, <1>2, <1>3, <1>4 DEF Next

\* Every variable keeps its type: the sessions' devices and the port's are objects that
\* were allocated, the port Run binds is one it may try, CPEModemPST's rounds stay within
\* their limit.
THEOREM CpeTypeCorrect == Spec => []CpeTypeOK
<1>1. Spec => []Types
  BY TypesInit, TypesNext, PTL DEF Spec
<1> QED BY <1>1, TypesAre, PTL

-----------------------------------------------------------------------------
(* A session that was let through has a server. *)

\* The flag means a server that stays; the click that cleared it has yet to send its
\* CLOSE_SERVER, and nothing set it since.
Serving(t) == server.thr[t].pc \in {"loop", "accept"} /\ ~server.thr[t].close
FlagHonest ==
    /\ server.work => \E t \in Sessions : Serving(t)
    /\ ui.pc = "close" => ~server.work

\* A session is calm only while no click is handled, which is why its flag stays set.
CalmIdle == \A s \in Sessions : session[s].calm => ui.pc = "idle"
CalmServed == \A s \in Sessions : session[s].calm /\ session[s].pc # "report" => server.work

ReadyInd == CalmIdle /\ (~server.crossed => FlagHonest /\ CalmServed)

\* What a step does to a session: it keeps it, or takes it on, or it is calm no more.
Quieter ==
    \A r \in Sessions :
        session'[r].calm => \/ session'[r] = session[r]
                            \/ session[r].calm /\ session[r].pc # "report"

LEMMA QuietReady ==
    ASSUME ReadyInd, Quieter, UNCHANGED <<ui, server>>
    PROVE  ReadyInd'
BY DEF ReadyInd, CalmIdle, CalmServed, FlagHonest, Serving, Quieter

LEMMA OneSession ==
    ASSUME Types, NEW s \in Sessions, session[s].pc # "report",
           \A r \in Sessions \ {s} : session'[r] = session[r],
           session'[s].calm = session[s].calm
    PROVE  Quieter
BY DEF Quieter

LEMMA DisturbedQuiet ==
    ASSUME Types, NEW r \in Sessions
    PROVE  Disturbed[r].calm = FALSE
BY DEF Types, SessionRec, Disturbed

LEMMA SessionReady ==
    ASSUME Types, ReadyInd, NEW s \in Sessions, Session(s)
    PROVE  ReadyInd'
<1>1. /\ session \in [Sessions -> SessionRec(Len(heap))]
      /\ session[s] \in SessionRec(Len(heap)) /\ server.crossed \in BOOLEAN
  BY DEF Types, ServerRec
<1>2. CASE IsServerWorks(s)
  <2>1. UNCHANGED <<ui, server>> /\ session[s].pc = "works"
    BY <1>2 DEF IsServerWorks, uiVars
  <2>2. \A r \in Sessions \ {s} : session'[r] = session[r]
    BY <1>1, <1>2 DEF IsServerWorks
  <2>3. session'[s].calm => ui.pc = "idle"
    BY <1>1, <1>2 DEF IsServerWorks, SessionRec, Idle
  <2>4. session'[s].pc # "report" => server.work
    BY <1>1, <1>2 DEF IsServerWorks, SessionRec
  <2> QED BY <2>1, <2>2, <2>3, <2>4 DEF ReadyInd, CalmIdle, CalmServed, FlagHonest, Serving
<1>3. CASE Mark(s)
  <2>1. UNCHANGED <<ui, server>>
    BY <1>3 DEF Mark, uiVars
  <2>2. \A r \in Sessions : session'[r].calm = FALSE
    BY <1>3, DisturbedQuiet, DisturbedType DEF Mark, SessionRec
  <2> QED BY <2>1, <2>2, QuietReady DEF Quieter
<1>4. CASE Report(s)
  <2>1. UNCHANGED <<ui, server>>
    BY <1>4 DEF Report
  <2>2. session' = [session EXCEPT ![s] = NoSession]
    BY <1>4 DEF Report
  <2>3. \A r \in Sessions : session'[r].calm => session'[r] = session[r]
    BY <1>1, <2>2 DEF NoSession
  <2> QED BY <2>1, <2>3, QuietReady DEF Quieter
<1>5. CASE ~IsServerWorks(s) /\ ~Mark(s) /\ ~Report(s)
  <2>1. UNCHANGED <<ui, server>> /\ session[s].pc # "report"
    BY <1>5 DEF Session, Begin, FindGateway, PassLock, Telnet, Enumerate, TakeDevice, SeekAgain,
       SeekFails, RunMiFiPST, AdbReboot, EnterFlash, CloseHandle, SwitchPort, Detach, Signalled,
       Timeout, CheckHandle, FlashImages, Fetch, Upgrade, uiVars
  <2>2. \/ \E step : session' = [session EXCEPT ![s].pc = step]
        \/ \E step, d, n : session' = [session EXCEPT ![s].pc = step, ![s].dev = d, ![s].seeks = n]
        \/ \E step, d : session' = [session EXCEPT ![s].pc = step, ![s].dev = d]
        \/ \E step, l : session' = [session EXCEPT ![s].looped = l, ![s].pc = step]
        \/ \E n : session' = [session EXCEPT ![s].seeks = n]
    <3>1. CASE TakeDevice(s) BY <3>1 DEF TakeDevice
    <3>2. CASE FlashImages(s) BY <3>2 DEF FlashImages
    <3>3. CASE CheckHandle(s) BY <3>3 DEF CheckHandle
    <3>4. CASE SeekAgain(s) BY <3>4 DEF SeekAgain
    <3>5. CASE ~TakeDevice(s) /\ ~FlashImages(s) /\ ~CheckHandle(s) /\ ~SeekAgain(s)
      BY <1>5, <3>5 DEF Session, Begin, FindGateway, PassLock, Telnet, Enumerate, SeekFails,
         RunMiFiPST, AdbReboot, EnterFlash, CloseHandle, SwitchPort, Detach, Signalled, Timeout,
         Fetch, Upgrade, Goto
    <3> QED BY <3>1, <3>2, <3>3, <3>4, <3>5
  <2>3. /\ \A r \in Sessions \ {s} : session'[r] = session[r]
        /\ session'[s].calm = session[s].calm
    BY <1>1, <2>2 DEF SessionRec
  <2> QED BY <2>1, <2>3, OneSession, QuietReady
<1> QED BY <1>2, <1>3, <1>4, <1>5

LEMMA UIReady ==
    ASSUME Types, ReadyInd,
           (\E start \in BOOLEAN : Click(start)) \/ Clicking
    PROVE  ReadyInd'
<1>1. /\ server \in ServerRec /\ ui \in [pc : UISteps, start : BOOLEAN]
      /\ session \in [Sessions -> SessionRec(Len(heap))]
  BY DEF Types
<1>2. CASE \E start \in BOOLEAN : Click(start)
  <2>1. server' = server /\ ui'.pc = "stop" /\ session' = Disturbed
    BY <1>2 DEF Click
  <2>2. \A r \in Sessions : session'[r].calm = FALSE
    BY <2>1, DisturbedQuiet
  <2> QED BY <2>1, <2>2 DEF ReadyInd, CalmIdle, CalmServed, FlagHonest, Serving
<1>3. CASE StopHttpServer
  <2>1. /\ ui.pc = "stop" /\ session' = session
        /\ server' = [server EXCEPT !.work = FALSE] /\ ui'.pc \in {"close", "devices"}
    BY <1>1, <1>3 DEF StopHttpServer, UIGoes
  <2>2. server'.work = FALSE /\ server'.crossed = server.crossed
    BY <1>1, <2>1 DEF ServerRec
  <2>3. \A r \in Sessions : session[r].calm # TRUE
    BY <2>1 DEF ReadyInd, CalmIdle
  <2> QED BY <2>1, <2>2, <2>3 DEF ReadyInd, CalmIdle, CalmServed, FlagHonest
<1>4. CASE SendClose
  <2>1. ui.pc = "close" /\ session' = session /\ ui'.pc = "devices"
    BY <1>1, <1>4 DEF SendClose, UIGoes
  <2>2. server'.work = server.work /\ server'.crossed = server.crossed
    BY <1>1, <1>4 DEF SendClose, ServerRec
  <2>3. \A r \in Sessions : session[r].calm # TRUE
    BY <2>1 DEF ReadyInd, CalmIdle
  <2> QED BY <2>1, <2>2, <2>3 DEF ReadyInd, CalmIdle, CalmServed, FlagHonest
<1>5. CASE ResetCoordinator
  <2>1. server' = server /\ ui'.pc # "close" /\ session' = Disturbed
    BY <1>1, <1>5 DEF ResetCoordinator, UIGoes
  <2>2. \A r \in Sessions : session'[r].calm = FALSE
    BY <2>1, DisturbedQuiet
  <2> QED BY <2>1, <2>2 DEF ReadyInd, CalmIdle, CalmServed, FlagHonest, Serving
<1>6. CASE SetWork
  <2>1. PICK s \in Spare :
          /\ session' = [session EXCEPT ![s] = [NoSession EXCEPT !.pc = "begin"]]
          /\ server' = [server EXCEPT !.thr[s] = [NoServer EXCEPT !.pc = "begin"]]
    BY <1>6 DEF SetWork
  <2>2. ui.pc = "work" /\ ui'.pc = "idle"
    BY <1>1, <1>6 DEF SetWork, UIGoes
  <2>3. server'.work = server.work /\ server'.crossed = server.crossed
    BY <1>1, <2>1 DEF ServerRec
  <2>4. \A r \in Sessions : ~session'[r].calm
    <3>1. \A r \in Sessions : session[r].calm \in BOOLEAN /\ session[r].calm # TRUE
      BY <1>1, <2>2 DEF ReadyInd, CalmIdle, SessionRec
    <3> QED BY <1>1, <2>1, <3>1 DEF NoSession
  <2>5. \A t \in Sessions : Serving(t) => Serving(t)'
    BY <1>1, <2>1 DEF Serving, Spare, ServerRec
  <2> QED BY <2>2, <2>3, <2>4, <2>5 DEF ReadyInd, CalmIdle, CalmServed, FlagHonest
<1> QED BY <1>2, <1>3, <1>4, <1>5, <1>6 DEF Clicking

LEMMA MessageReady ==
    ASSUME ReadyInd, Messages \/ Modem \/ Crash
    PROVE  ReadyInd'
<1>1. UNCHANGED <<ui, server, session>>
  BY DEF Messages, DeviceArrival, HandleDeviceRemoved, OpenwrtUpdated, Receive, Modem, ModemAppears,
     ModemLeaves, ModemRestarts, ModemReturns, Crash, uiVars
<1> QED BY <1>1 DEF ReadyInd, CalmIdle, CalmServed, FlagHonest, Serving

LEMMA ServerStepReady ==
    ASSUME Types, ReadyInd, NEW t \in Sessions, Server(t) \/ Serve(t)
    PROVE  ReadyInd'
<1>1. /\ server \in ServerRec /\ server.thr \in [Sessions -> Thread] /\ server.thr[t] \in Thread
      /\ server.crossed \in BOOLEAN
  BY DEF Types, ServerRec
<1>2. UNCHANGED <<ui, session>>
  BY DEF Server, Bind, Listen, Announce, While, ServerEnds, Serve, uiVars
<1>3. ASSUME server'.work = server.work, server'.crossed = server.crossed,
             server.work => \A r \in Sessions : Serving(r) => Serving(r)'
      PROVE  ReadyInd'
  BY <1>2, <1>3 DEF ReadyInd, CalmIdle, CalmServed, FlagHonest
<1>4. CASE Announce(t)
  <2>1. /\ server' = [server EXCEPT !.thr[t].pc = "loop", !.work = TRUE,
                                    !.crossed = @ \/ server.thr[t].close \/ ui.pc = "close"]
    BY <1>4 DEF Announce
  <2>2. /\ server'.work = TRUE
        /\ server'.crossed = (server.crossed \/ server.thr[t].close \/ ui.pc = "close")
        /\ server'.thr[t].pc = "loop" /\ server'.thr[t].close = server.thr[t].close
    BY <1>1, <2>1 DEF ServerRec, Thread
  <2>3. ~server'.crossed => Serving(t)' /\ ui'.pc # "close"
    BY <1>2, <2>2 DEF Serving
  <2> QED BY <1>2, <2>2, <2>3 DEF ReadyInd, CalmIdle, CalmServed, FlagHonest
<1>5. CASE Bind(t)
  <2>1. server.thr[t].pc = "begin"
    BY <1>5 DEF Bind
  <2>2. /\ server'.work = server.work /\ server'.crossed = server.crossed
        /\ \A r \in Sessions \ {t} : server'.thr[r] = server.thr[r]
    <3>1. \/ \E p : server' = [server EXCEPT !.thr[t].pc = "bound", !.thr[t].sock = p, !.port = p]
          \/ server' = [server EXCEPT !.thr[t] = NoServer]
      BY <1>5 DEF Bind, ServerGone
    <3> QED BY <1>1, <3>1 DEF ServerRec
  <2>3. \A r \in Sessions : Serving(r) => Serving(r)'
    BY <2>1, <2>2 DEF Serving
  <2> QED BY <1>3, <2>2, <2>3
<1>6. CASE Listen(t) \/ ServerEnds(t) \/ Serve(t)
  <2>1. ~Serving(t) \/ ~server.work
    BY <1>6 DEF Listen, ServerEnds, Serve, Serving
  <2>2. /\ server'.work = server.work /\ server'.crossed = server.crossed
        /\ \A r \in Sessions \ {t} : server'.thr[r] = server.thr[r]
    BY <1>1, <1>6 DEF Listen, ServerEnds, Serve, ServerGoes, ServerGone, ServerRec
  <2>3. server.work => \A r \in Sessions : Serving(r) => Serving(r)'
    BY <2>1, <2>2 DEF Serving
  <2> QED BY <1>3, <2>2, <2>3
<1>7. CASE While(t)
  <2>1. /\ server'.work = server.work /\ server'.crossed = server.crossed
        /\ \A r \in Sessions \ {t} : server'.thr[r] = server.thr[r]
    BY <1>1, <1>7 DEF While, ServerGoes, ServerGone, ServerRec
  <2>2. server.work => /\ server'.thr[t].pc = "accept"
                       /\ server'.thr[t].close = server.thr[t].close
    BY <1>1, <1>7 DEF While, ServerGoes, ServerRec, Thread
  <2>3. server.work => \A r \in Sessions : Serving(r) => Serving(r)'
    BY <2>1, <2>2 DEF Serving
  <2> QED BY <1>3, <2>1, <2>3
<1> QED BY <1>4, <1>5, <1>6, <1>7 DEF Server

LEMMA ReadyInit == Init => ReadyInd
BY DEF Init, ReadyInd, CalmIdle, CalmServed, FlagHonest, NoSession

LEMMA ReadyNext == Types /\ ReadyInd /\ [Next]_vars => ReadyInd'
<1> SUFFICES ASSUME Types, ReadyInd, [Next]_vars PROVE ReadyInd'
  OBVIOUS
<1>1. CASE UNCHANGED vars
  BY <1>1 DEF vars, uiVars, ReadyInd, CalmIdle, CalmServed, FlagHonest, Serving
<1> QED BY <1>1, SessionReady, UIReady, MessageReady, ServerStepReady DEF Next

\* For any number of sessions, clicks and TCP ports: as long as no Run set the work flag
\* after the StopHttpServer that ends it, a session that was let through while no click was
\* handled, and was not disturbed since, has a server that listens until it told the router
\* to fetch.
THEOREM ServerReadyAlways == Spec => []ServerReady
<1>1. ReadyInd => ServerReady
  BY DEF ReadyInd, CalmServed, FlagHonest, Serving, ServerReady, Listening
<1>2. Spec => []Types
  BY TypesInit, TypesNext, PTL DEF Spec
<1> QED BY <1>1, <1>2, ReadyInit, ReadyNext, PTL DEF Spec
==============================================================================
