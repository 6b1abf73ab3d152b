------------------------------- MODULE Sahara --------------------------------
(***************************************************************************)
(* The Sahara dialogue of one DiagPST run: src/saharacmd.cpp over the       *)
(* serial port, as driven by RequestDeviceStatus, checkIfPackageMatchDlMode *)
(* and DownloadPrg of mdmfastboot/DiagPST.cpp.                              *)
(*                                                                         *)
(* A modem in emergency mode has sent HELLO when its port is opened and     *)
(* waits for HELLO_RSP; a modem in normal mode enters Sahara when it gets   *)
(* DIAG_DLOAD_F, with or without leaving the bus.  The host probes the      *)
(* modem, checks its mobile id in command mode (emergency only), sends      *)
(* DIAG_DLOAD_F, answers HELLO and serves READ_DATA requests until it takes *)
(* the transfer for finished, then sends DONE.                              *)
(*                                                                         *)
(* Every Send purges what has arrived, so a HELLO is often lost; a read     *)
(* that times out succeeds with no bytes, and the code goes on with what    *)
(* its buffers held before.  The modem is external: one packet per read, at *)
(* most one answer per packet, and in the transfer whatever bytes come      *)
(* first are the data it asked for.                                         *)
(***************************************************************************)
EXTENDS Integers, Sequences

CONSTANTS
    Plans,       \* request sequences a modem may make: offsets and lengths
    ProbeRounds, \* rounds of EfsOpHello and SendNopCmd (3)
    HelloTries,  \* reads for HELLO and for READY in RequestDeviceStatus (4)
    PrgTries,    \* reads for HELLO in DownloadPrg_9X07 (5)
    MaxSend,     \* PORT_DATA_MAX_SIZE
    MaxResend    \* bound: HELLOs the modem sends again for a packet it
                 \* does not expect

VARIABLES
    pc,          \* where the worker thread is
    n,           \* attempts made in the current loop
    emergency,   \* m_blDownloadMode
    handle,      \* the serial port: "ok", "stale" (its device left) or "closed"
    cmd,         \* the client command being executed: mobile id or version
    lastReq,     \* readDataOffSet and readDataLength
    first,       \* no READ_DATA has been received by the loop yet
    overflow,    \* a packet was copied into a structure shorter than it
    tx, rx,      \* packets on their way to and from the modem
    dst,         \* modem: what it waits for
    plan,        \* modem: the requests it makes
    mem,         \* modem: what it got for each request so far
    resent,      \* modem: HELLOs sent again
    matches,     \* modem: its mobile id is the one of the package
    link,        \* modem: on the bus, "away" while it restarts, or unplugged
    leaves,      \* modem: leaves the bus on its way into Sahara
    prompt       \* modem: answers within the port's timeout

hostVars == <<pc, n, emergency, handle, cmd, lastReq, first, overflow>>
devVars == <<dst, plan, mem, resent, matches, link, leaves, prompt>>
vars == <<hostVars, tx, rx, devVars>>

ASSUME SaharaAssumption ==
    /\ \A p \in Plans : p \in Seq([off : Nat, len : Nat \ {0}]) /\ p # <<>>
    /\ ProbeRounds \in Nat \ {0} /\ HelloTries \in Nat \ {0}
    /\ PrgTries \in Nat \ {0} /\ MaxSend \in Nat /\ MaxResend \in Nat

Range0 == [off |-> 0, len |-> 0]
Ranges == [off : Nat, len : Nat]
Pkt(k) == [kind |-> k, at |-> Range0]
Ask(r) == [kind |-> "READ_DATA", at |-> r]
Data(r) == [kind |-> "DATA", at |-> r]

HostKinds == {"LOCK", "EFS_HELLO", "NOP", "DLOAD", "HELLO_RSP", "HELLO_RSP_CMD",
              "EXECUTE", "EXECUTE_DATA", "SWITCH_MODE", "DATA", "DONE"}
DiagKinds == {"LOCK_RSP", "EFS_RSP", "DLOAD_RSP"}
DevKinds == DiagKinds \cup {"HELLO", "READY", "EXECUTE_RSP", "CLIENT_DATA",
             "READ_DATA", "END_TRANSFER", "DONE_RSP"}

\* Bytes of a packet of the modem, and of the structure it is copied into.
PktSize == [k \in DevKinds |->
    CASE k = "HELLO" -> 48 [] k = "READ_DATA" -> 20
      [] k \in {"END_TRANSFER", "EXECUTE_RSP"} -> 16 [] k = "DONE_RSP" -> 12
      [] OTHER -> 8]
sahara_read_data_type == 20

Init ==
    /\ pc = "enable" /\ n = 0 /\ emergency = FALSE /\ handle = "ok"
    /\ cmd = "mobile id" /\ lastReq = Range0 /\ first = TRUE
    /\ overflow = FALSE
    /\ dst \in {"diag", "hello"}
    /\ tx = <<>> /\ rx \in {<<>>, <<Pkt("HELLO")>>}
    /\ rx # <<>> => dst = "hello"
    /\ plan \in Plans /\ mem = <<>> /\ resent = 0
    /\ matches \in BOOLEAN /\ link = "up"
    /\ leaves \in BOOLEAN /\ prompt \in BOOLEAN

-----------------------------------------------------------------------------
(* The serial port. *)

\* CSerialPort::Send purges both buffers before it writes.  A packet that has
\* not reached the receive buffer yet survives, and so does one of the host's
\* that the driver has passed on, which it has to a prompt modem.
Purge == rx' \in {<<>>, rx}

Written(p) ==
    \E passed \in 0 .. Len(tx) :
        /\ prompt => passed = Len(tx)
        /\ tx' = Append(SubSeq(tx, 1, passed), p)

Send(p) ==
    IF handle = "ok" THEN Purge /\ Written(p) ELSE UNCHANGED <<tx, rx>>

\* CSerialPort::Receive: a packet, a failure, or no bytes at the timeout.
\* A prompt modem has answered by then.
Arrived == handle = "ok" /\ rx # <<>>
Got(k) == Arrived /\ Head(rx).kind = k
PortError == handle # "ok"
TimedOut ==
    /\ handle = "ok" /\ rx = <<>>
    /\ prompt => tx = <<>> /\ dst # "boot"
\* No packet of kind k, though the read did not fail.
Missed(k) == (Arrived /\ ~Got(k)) \/ TimedOut

\* Uninit and Init of the packet layer: opening the port purges it too.
Reopen ==
    /\ handle' = IF link = "up" THEN "ok" ELSE "closed"
    /\ Purge

\* Leave the loop of attempts the host is in, or try again.
Retry(limit, again, next) ==
    IF n + 1 < limit THEN pc' = again /\ n' = n + 1
                     ELSE pc' = next /\ n' = 0

Goto(next) == pc' = next /\ n' = 0

kept == <<cmd, lastReq, first, overflow>>

-----------------------------------------------------------------------------
(* DownloadCheck: EnableDiagServer, RequestDeviceStatus. *)

\* RcvDIAGPkt: a read that ends with a DIAG frame, or when nothing comes any
\* more; every other packet of the modem is read on the way.
DiagRead(next) ==
    \/ /\ Arrived /\ rx' = Tail(rx)
       /\ IF Head(rx).kind \in DiagKinds THEN Goto(next)
                                         ELSE UNCHANGED <<pc, n>>
    \/ (TimedOut \/ PortError) /\ Goto(next) /\ UNCHANGED rx

\* EnableDiagServer and DisableDiagServer; their results are not looked at.
SendLock ==
    /\ pc \in {"enable", "disable"} /\ Send(Pkt("LOCK"))
    /\ Goto(IF pc = "enable" THEN "enabled" ELSE "disabled")
    /\ UNCHANGED <<emergency, handle, kept, devVars>>

ReadLock ==
    /\ pc \in {"enabled", "disabled"}
    /\ DiagRead(IF pc = "enabled" THEN "probe" ELSE "dload")
    /\ UNCHANGED <<emergency, handle, kept, tx, devVars>>

\* RequestDeviceStatus asks in turn in DIAG (EfsOpHello) and in DMSS
\* (SendNopCmd) frames.  A modem in Sahara knows neither.
SendProbe ==
    /\ pc = "probe" /\ Send(Pkt(IF n % 2 = 0 THEN "EFS_HELLO" ELSE "NOP"))
    /\ pc' = "probed"
    /\ UNCHANGED <<n, emergency, handle, kept, devVars>>

\* The read for NOP looks for an HDLC frame and reads everything else.
ReadProbe ==
    /\ pc = "probed"
    /\ \/ /\ Got("EFS_RSP") /\ n % 2 = 0
          /\ rx' = Tail(rx) /\ Goto("dload") /\ UNCHANGED emergency
       \/ /\ Arrived /\ ~(Got("EFS_RSP") /\ n % 2 = 0)
          /\ ~(Head(rx).kind \in DiagKinds /\ n % 2 = 0)
          /\ rx' = Tail(rx) /\ UNCHANGED <<pc, n, emergency>>
       \/ /\ \/ /\ Arrived /\ n % 2 = 0
                /\ Head(rx).kind \in DiagKinds \ {"EFS_RSP"}
                /\ rx' = Tail(rx)
             \/ (TimedOut \/ PortError) /\ UNCHANGED rx
          /\ Retry(2 * ProbeRounds, "probe", "hello")
          /\ emergency' = (pc' = "hello")
    /\ UNCHANGED <<handle, kept, tx, devVars>>

\* GetHelloAckCmdInDlMode, in the loop that tries it `limit' times.  After a
\* failed read the port is opened again and closed.
HelloInDlMode(limit, again, got, missed) ==
    \/ /\ Got("HELLO")
       /\ rx' = Tail(rx) /\ Goto(got) /\ UNCHANGED handle
    \/ /\ Missed("HELLO")
       /\ Reopen /\ Retry(limit, again, missed)
    \/ /\ PortError
       /\ handle' = "closed" /\ Purge /\ Retry(limit, again, missed)

\* The loop's failure is forgotten: DownloadCheck overwrites it with the
\* result of the next check.
ReadHello ==
    /\ pc = "hello"
    /\ HelloInDlMode(HelloTries, "hello", "toCmd", "exec")
    /\ UNCHANGED <<emergency, kept, tx, devVars>>

switchToCmdMode ==
    /\ pc = "toCmd" /\ Send(Pkt("HELLO_RSP_CMD"))
    /\ Goto(IF handle = "ok" THEN "ready" ELSE "exec")
    /\ UNCHANGED <<emergency, handle, kept, devVars>>

GetCmdReadyRsp ==
    /\ pc = "ready"
    /\ \/ /\ Got("READY")
          /\ rx' = Tail(rx) /\ Goto("exec") /\ UNCHANGED handle
       \/ /\ Missed("READY") \/ PortError
          /\ Reopen /\ Retry(HelloTries, "ready", "exec")
    /\ UNCHANGED <<emergency, kept, tx, devVars>>

-----------------------------------------------------------------------------
(* checkIfPackageMatchDlMode: the mobile id, then the firmware version.     *)

CmdExecute ==
    /\ pc = "exec" /\ Send(Pkt("EXECUTE")) /\ Goto("execRsp")
    /\ UNCHANGED <<emergency, handle, kept, devVars>>

\* The check is over: a failed or unmatched mobile id returns false at once,
\* the version's result does not matter.  In emergency mode RunMiFiPST goes on
\* to DownloadPrg all the same.
CheckFailed == Goto(IF cmd = "mobile id" THEN "disable" ELSE "switch")

\* After a packet of another kind, or a timeout, the length comes from what
\* the packet buffer held before: positive or not.
GetCmdExecuteRspPkt ==
    /\ pc = "execRsp"
    /\ \/ /\ Got("EXECUTE_RSP")
          /\ rx' = Tail(rx) /\ Goto("execData") /\ UNCHANGED handle
       \/ /\ Missed("EXECUTE_RSP")
          /\ Reopen /\ (Goto("execData") \/ CheckFailed)
       \/ PortError /\ Reopen /\ CheckFailed
    /\ UNCHANGED <<emergency, kept, tx, devVars>>

CmdExecuteDataPkt ==
    /\ pc = "execData" /\ Send(Pkt("EXECUTE_DATA")) /\ Goto("clientData")
    /\ UNCHANGED <<emergency, handle, kept, devVars>>

\* saharaReceive and what follows: a timeout leaves stale bytes, which are
\* not the mobile id of the package.
saharaReceive ==
    /\ pc = "clientData"
    /\ \/ /\ Got("CLIENT_DATA")
          /\ cmd = "mobile id" /\ matches
          /\ rx' = Tail(rx) /\ cmd' = "version" /\ Goto("exec")
          /\ UNCHANGED handle
       \/ /\ Arrived /\ ~(/\ Head(rx).kind = "CLIENT_DATA"
                          /\ cmd = "mobile id" /\ matches)
          /\ rx' = Tail(rx) /\ CheckFailed /\ UNCHANGED <<handle, cmd>>
       \/ TimedOut /\ CheckFailed /\ UNCHANGED <<handle, cmd, rx>>
       \/ PortError /\ Reopen /\ CheckFailed /\ UNCHANGED cmd
    /\ UNCHANGED <<emergency, lastReq, first, overflow, tx, devVars>>

saharaswitchMode ==
    /\ pc = "switch" /\ Send(Pkt("SWITCH_MODE")) /\ Goto("dload")
    /\ UNCHANGED <<emergency, handle, kept, devVars>>

-----------------------------------------------------------------------------
(* DownloadPrg and DownloadPrg_9X07. *)

SwitchToDLoadMode ==
    /\ pc = "dload" /\ Send(Pkt("DLOAD"))
    /\ Goto(IF handle = "ok" THEN "dloadRsp" ELSE "prgHello")
    /\ UNCHANGED <<emergency, handle, kept, devVars>>

\* Mutant: the answer to DIAG_DLOAD_F is not waited for.
SkipDLoadRsp ==
    /\ pc = "dloadRsp" /\ Goto("prgHello")
    /\ UNCHANGED <<emergency, handle, kept, tx, rx, devVars>>

\* The answer is read as a DIAG frame: whatever else comes is read with it.
DLoadModeRsp ==
    /\ pc = "dloadRsp" /\ DiagRead("prgHello")
    /\ UNCHANGED <<emergency, handle, kept, tx, devVars>>

\* Mutant: a modem that was not heard is not answered.
StopWithoutHello ==
    /\ pc = "prgHello"
    /\ \/ emergency /\ HelloInDlMode(PrgTries, "prgHello", "helloRsp", "end")
       \/ /\ ~emergency /\ Got("HELLO")
          /\ rx' = Tail(rx) /\ Goto("helloRsp") /\ UNCHANGED handle
       \/ /\ ~emergency
          /\ Missed("HELLO") \/ PortError
          /\ Reopen /\ Retry(PrgTries, "prgHello", "end")
    /\ UNCHANGED <<emergency, kept, tx, devVars>>

\* GetHelloAckCmd in normal mode, GetHelloAckCmdInDlMode in emergency mode;
\* HELLO_RSP follows whether or not HELLO was seen.
GetHelloAckCmd ==
    /\ pc = "prgHello"
    /\ \/ emergency /\ HelloInDlMode(PrgTries, "prgHello", "helloRsp", "helloRsp")
       \/ /\ ~emergency /\ Got("HELLO")
          /\ rx' = Tail(rx) /\ Goto("helloRsp") /\ UNCHANGED handle
       \/ /\ ~emergency
          /\ Missed("HELLO") \/ PortError
          /\ Reopen /\ Retry(PrgTries, "prgHello", "helloRsp")
    /\ UNCHANGED <<emergency, kept, tx, devVars>>

SaharaHelloRsp ==
    /\ pc = "helloRsp" /\ Send(Pkt("HELLO_RSP")) /\ Goto("serve")
    /\ UNCHANGED <<emergency, handle, kept, devVars>>

\* Bytes of the packet that Receive hands over: rsp_ptr->length shrinks to
\* the size of the packet received first.
Received == IF first \/ PktSize[Head(rx).kind] <= sahara_read_data_type
            THEN PktSize[Head(rx).kind] ELSE sahara_read_data_type

\* Mutant: the request is remembered after the data went out for the last one.
ServeLast ==
    /\ pc = "serve"
    /\ Got("READ_DATA") /\ Head(rx).at # lastReq
    /\ Written(Data(IF first THEN Head(rx).at ELSE lastReq))
    /\ rx' = Tail(rx) /\ lastReq' = Head(rx).at /\ first' = FALSE
    /\ UNCHANGED <<pc, n, emergency, handle, cmd, overflow, devVars>>

\* Mutant: the length is left as "none yet".
RememberOffset ==
    /\ pc = "serve" /\ Got("READ_DATA") /\ Head(rx).at # lastReq
    /\ Written(Data(Head(rx).at))
    /\ rx' = Tail(rx) /\ first' = FALSE
    /\ lastReq' = [Head(rx).at EXCEPT !.len = -1]
    /\ UNCHANGED <<pc, n, emergency, handle, cmd, overflow, devVars>>

\* A request that differs from the last one: copied from the image at the
\* modem's offset, sent as raw bytes.  Send refuses too many of them, which
\* nobody notices.
ServeRead ==
    /\ pc = "serve"
    /\ Got("READ_DATA") /\ Head(rx).at # lastReq
    /\ IF Head(rx).at.len <= MaxSend THEN Written(Data(Head(rx).at))
                                    ELSE UNCHANGED tx
    /\ rx' \in {<<>>, Tail(rx)} /\ lastReq' = Head(rx).at /\ first' = FALSE
    /\ UNCHANGED <<pc, n, emergency, handle, cmd, overflow, devVars>>

\* Mutant: the host waits on when nothing comes.
WaitOn ==
    /\ pc = "serve"
    /\ \/ /\ Arrived
          /\ Head(rx).kind = "READ_DATA" => Head(rx).at = lastReq
          /\ rx' = Tail(rx) /\ Goto("done")
          /\ overflow' = (overflow \/ Received > sahara_read_data_type)
       \/ PortError /\ Goto("done") /\ UNCHANGED <<rx, overflow>>
    /\ UNCHANGED <<emergency, handle, cmd, lastReq, first, tx, devVars>>

\* Every other way out of the loop: the last request again, a timeout (the
\* structure still holds the last request), another packet, a failed read.
\* All of them end in SaharaDone, and in EOK.
LeaveLoop ==
    /\ pc = "serve"
    /\ \/ /\ Arrived
          /\ Head(rx).kind = "READ_DATA" => Head(rx).at = lastReq
          /\ rx' = Tail(rx)
          /\ overflow' = (overflow \/ Received > sahara_read_data_type)
       \/ (TimedOut \/ PortError) /\ UNCHANGED <<rx, overflow>>
    /\ Goto("done")
    /\ UNCHANGED <<emergency, handle, cmd, lastReq, first, tx, devVars>>

SaharaDone ==
    /\ pc = "done" /\ Send(Pkt("DONE")) /\ Goto("end")
    /\ UNCHANGED <<emergency, handle, kept, devVars>>

-----------------------------------------------------------------------------
(* The modem.  External. *)

Answer(p, next) == rx' = Append(rx, p) /\ dst' = next
Silent == UNCHANGED <<rx, dst>>

\* A packet it does not expect: ignored, or answered with another HELLO.
Unexpected(next) ==
    \/ Silent /\ UNCHANGED resent
    \/ /\ resent < MaxResend /\ resent' = resent + 1
       /\ Answer(Pkt("HELLO"), next)

\* The bytes that answer the current request, and the next request.
TakeData(p) ==
    /\ mem' = Append(mem, IF p.kind = "DATA" THEN p.at ELSE Range0)
    /\ IF Len(mem') < Len(plan) THEN Answer(Ask(plan[Len(mem') + 1]), "wait")
                                ELSE Answer(Pkt("END_TRANSFER"), "end")

ModemTakes ==
    /\ tx # <<>> /\ link = "up" /\ tx' = Tail(tx)
    /\ LET p == Head(tx) IN
       \/ /\ dst = "diag" /\ UNCHANGED <<mem, resent>>
          /\ CASE p.kind = "LOCK" -> Answer(Pkt("LOCK_RSP"), "diag")
               [] p.kind = "EFS_HELLO" -> Answer(Pkt("EFS_RSP"), "diag")
               [] p.kind = "DLOAD" -> Answer(Pkt("DLOAD_RSP"), "boot")
               [] OTHER -> Silent
       \/ /\ dst = "hello" /\ UNCHANGED mem
          /\ CASE p.kind = "HELLO_RSP" ->
                     Answer(Ask(plan[1]), "wait") /\ UNCHANGED resent
               [] p.kind = "HELLO_RSP_CMD" ->
                     Answer(Pkt("READY"), "cmd") /\ UNCHANGED resent
               [] OTHER -> Unexpected("hello")
       \/ /\ dst = "cmd" /\ UNCHANGED mem
          /\ CASE p.kind = "EXECUTE" ->
                     Answer(Pkt("EXECUTE_RSP"), "cmd") /\ UNCHANGED resent
               [] p.kind = "EXECUTE_DATA" ->
                     Answer(Pkt("CLIENT_DATA"), "cmd") /\ UNCHANGED resent
               [] p.kind = "SWITCH_MODE" ->
                     Answer(Pkt("HELLO"), "hello") /\ UNCHANGED resent
               [] OTHER -> Unexpected("hello")
       \/ /\ dst = "wait" /\ TakeData(p) /\ UNCHANGED resent
       \/ /\ dst = "end" /\ UNCHANGED <<mem, resent>>
          /\ IF p.kind = "DONE" THEN Answer(Pkt("DONE_RSP"), "run") ELSE Silent
       \/ dst \in {"boot", "run"} /\ Silent /\ UNCHANGED <<mem, resent>>
    /\ UNCHANGED <<hostVars, plan, matches, link, leaves, prompt>>

ModemLeaves ==
    /\ dst = "boot" /\ link = "up" /\ leaves
    /\ link' = "away" /\ handle' = IF handle = "ok" THEN "stale" ELSE handle
    /\ tx' = <<>> /\ rx' = <<>>
    /\ UNCHANGED <<pc, n, emergency, kept, dst, plan, mem, resent, matches,
                   leaves, prompt>>

ModemBoots ==
    /\ dst = "boot" /\ link # "gone"
    /\ link' = "up" /\ Answer(Pkt("HELLO"), "hello")
    /\ UNCHANGED <<hostVars, tx, plan, mem, resent, matches, leaves, prompt>>

Unplug ==
    /\ link # "gone" /\ pc # "end"
    /\ link' = "gone" /\ handle' = IF handle = "ok" THEN "stale" ELSE handle
    /\ tx' = <<>> /\ rx' = <<>>
    /\ UNCHANGED <<pc, n, emergency, kept, dst, plan, mem, resent, matches,
                   leaves, prompt>>

-----------------------------------------------------------------------------
Host ==
    \/ SendLock \/ ReadLock \/ SendProbe \/ ReadProbe \/ ReadHello
    \/ switchToCmdMode \/ GetCmdReadyRsp \/ CmdExecute \/ GetCmdExecuteRspPkt
    \/ CmdExecuteDataPkt \/ saharaReceive \/ saharaswitchMode \/ SwitchToDLoadMode \/ DLoadModeRsp \/ GetHelloAckCmd
    \/ SaharaHelloRsp \/ ServeRead \/ LeaveLoop \/ SaharaDone

Modem == ModemTakes \/ ModemBoots

Finished == pc = "end" /\ UNCHANGED vars

Next == Host \/ Modem \/ ModemLeaves \/ Unplug \/ Finished

Spec == Init /\ [][Next]_vars

\* The worker thread runs; a modem that is there handles what it gets.
FairSpec == Spec /\ WF_vars(Host) /\ WF_vars(Modem)

-----------------------------------------------------------------------------
(* Properties. *)

\* Types of the host's and the modem's state.
SaharaTypeOK ==
    /\ pc \in {"enable", "enabled", "disable", "disabled", "probe",
               "probed", "hello", "toCmd", "ready", "exec", "execRsp",
               "execData", "clientData", "switch", "dload", "dloadRsp",
               "prgHello", "helloRsp", "serve", "done", "end"}
    /\ n \in Nat /\ emergency \in BOOLEAN
    /\ handle \in {"ok", "stale", "closed"} /\ cmd \in {"mobile id", "version"}
    /\ lastReq \in Ranges /\ first \in BOOLEAN /\ overflow \in BOOLEAN
    /\ tx \in Seq([kind : HostKinds, at : Ranges])
    /\ rx \in Seq([kind : DevKinds, at : Ranges])
    /\ dst \in {"diag", "boot", "hello", "cmd", "wait", "end", "run"}
    /\ plan \in Plans /\ mem \in Seq(Ranges) /\ resent \in 0 .. MaxResend
    /\ matches \in BOOLEAN /\ link \in {"up", "away", "gone"}
    /\ leaves \in BOOLEAN /\ prompt \in BOOLEAN

\* A modem runs the programmer only when it got, for each of its requests,
\* the bytes of the image it asked for: no DONE, HELLO_RSP or DIAG frame was
\* taken for data and no request was answered with the bytes of another one,
\* however late the modem is and however the host's loop ended.
RunsOnlyWhole == dst = "run" => mem = plan

\* A modem that answers within the timeout and stays on the bus never has a
\* HELLO read where READ_DATA is expected, whose structure is shorter: each
\* HELLO is read as such, or with the answer to DIAG_DLOAD_F, or purged.  (A
\* modem that leaves the bus uses up the attempts at once: they do not wait
\* for a port that is not there.)
CopyFits == prompt /\ ~leaves => ~overflow

\* The dialogue ends, whatever the modem does: each loop is bounded, and the
\* one that serves READ_DATA by the modem's requests.
DialogueEnds == <>(pc = "end")

\* A modem that stays on the bus, answers in time, has the mobile id of the
\* package if it is asked for it, makes no request longer than the port's limit
\* and never the same one twice in a row ends up running the programmer: also
\* when every HELLO was purged.
NoRepeat(p) == \A i \in 1 .. Len(p) - 1 : p[i] # p[i + 1]
Short(p) == \A i \in DOMAIN p : p[i].len <= MaxSend

PrgRuns ==
    [](link = "up" /\ prompt /\ NoRepeat(plan) /\ Short(plan) /\ (emergency => matches))
        => <>(dst = "run")

=============================================================================
