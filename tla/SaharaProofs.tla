---------------------------- MODULE SaharaProofs -----------------------------
(***************************************************************************)
(* Theorems about Sahara, for every sequence of requests, every number of   *)
(* attempts and a modem that is as late as it likes.                        *)
(***************************************************************************)
EXTENDS Sahara, TLAPS

Pcs == {"enable", "enabled", "disable", "disabled", "probe", "probed", "hello",
        "toCmd", "ready", "exec", "execRsp", "execData", "clientData", "switch",
        "dload", "dloadRsp", "prgHello", "helloRsp", "serve", "done", "end"}

HostPkts == [kind : HostKinds, at : Ranges]
DevPkts == [kind : DevKinds, at : Ranges]

\* The worker after HELLO_RSP, and the modem before it.
Late == {"serve", "done", "end"}
Early == {"diag", "boot", "hello", "cmd"}

\* What the worker sends before HELLO_RSP.
Before == {"LOCK", "EFS_HELLO", "NOP", "DLOAD", "HELLO_RSP_CMD", "EXECUTE",
           "EXECUTE_DATA", "SWITCH_MODE"}

\* The steps of the worker up to HELLO_RSP.
EarlyHost ==
    \/ SendLock \/ ReadLock \/ SendProbe \/ ReadProbe \/ ReadHello
    \/ switchToCmdMode \/ GetCmdReadyRsp \/ CmdExecute \/ GetCmdExecuteRspPkt
    \/ CmdExecuteDataPkt \/ saharaReceive \/ saharaswitchMode
    \/ SwitchToDLoadMode \/ DLoadModeRsp \/ GetHelloAckCmd

\* What the host does to its receive buffer: purge it, leave it, read from it.
RxKept == rx' = <<>> \/ rx' = rx \/ (rx # <<>> /\ rx' = Tail(rx))
TxKept(K) == tx' = tx \/ \E k \in K : Written(Pkt(k))

HostTypes ==
    /\ pc \in Pcs /\ n \in Nat /\ emergency \in BOOLEAN
    /\ handle \in {"ok", "stale", "closed"} /\ cmd \in {"mobile id", "version"}
    /\ lastReq \in Ranges /\ first \in BOOLEAN /\ overflow \in BOOLEAN

-----------------------------------------------------------------------------
(* The inductive invariant. *)

PrefixOf(s, t) == Len(s) <= Len(t) /\ \A i \in 1 .. Len(s) : s[i] = t[i]

NoRead == \A i \in 1 .. Len(rx) : rx[i].kind # "READ_DATA"

\* What is on its way to the modem.  DONE is the last packet of all, HELLO_RSP
\* the last one before the transfer.  Data answers the request that the modem
\* waits on, and there is no other.
Sent ==
    \A i \in 1 .. Len(tx) :
      /\ tx[i].kind = "DONE" => i = Len(tx) /\ pc = "end"
      /\ tx[i].kind = "HELLO_RSP" =>
            /\ pc \in Late /\ dst \in Early
            /\ \A j \in 1 .. Len(tx) : j > i => tx[j].kind = "DONE"
      /\ tx[i].kind = "DATA" =>
            /\ pc \in Late /\ dst = "wait" /\ i = 1 /\ tx[i].at = plan[Len(mem) + 1]
            /\ pc = "end" \/ NoRead
      /\ dst \notin Early => tx[i].kind \in {"DATA", "DONE"}

\* What is on its way to a host that still reads: at most the current request.
Asked ==
    pc # "end" =>
      \A i \in 1 .. Len(rx) :
        rx[i].kind = "READ_DATA" =>
            dst = "wait" /\ rx[i].at = plan[Len(mem) + 1] /\ i = Len(rx)

\* What the modem has: as long as something may come, the data it asked for.
\* A DONE that was taken for data spoils it, but nothing comes after DONE.
Collected ==
    /\ dst \in Early => mem = <<>>
    /\ dst \in {"wait", "end"} /\ (pc # "end" \/ tx # <<>>) => PrefixOf(mem, plan)
    /\ dst = "wait" => Len(mem) < Len(plan)
    /\ dst = "end" => Len(mem) = Len(plan)
    /\ dst = "run" => mem = plan
    /\ pc \notin Late => dst \in Early

WholeInd == SaharaTypeOK /\ Sent /\ Asked /\ Collected

-----------------------------------------------------------------------------
(* Sequences. *)

LEMMA TailOf ==
    ASSUME NEW S, NEW s \in Seq(S), s # <<>>
    PROVE  /\ Head(s) = s[1] /\ s[1] \in S /\ Tail(s) \in Seq(S)
           /\ Len(s) \in Nat /\ Len(s) > 0 /\ Len(Tail(s)) = Len(s) - 1
           /\ \A i \in 1 .. Len(s) - 1 : Tail(s)[i] = s[i + 1]
OBVIOUS

LEMMA AppendTo ==
    ASSUME NEW S, NEW s \in Seq(S), NEW e \in S
    PROVE  /\ Append(s, e) \in Seq(S) /\ Len(s) \in Nat
           /\ Len(Append(s, e)) = Len(s) + 1 /\ Append(s, e)[Len(s) + 1] = e
           /\ \A i \in 1 .. Len(s) : Append(s, e)[i] = s[i]
OBVIOUS

LEMMA PrefixIs ==
    ASSUME NEW S, NEW s \in Seq(S), NEW k \in 0 .. Len(s)
    PROVE  /\ SubSeq(s, 1, k) \in Seq(S) /\ Len(SubSeq(s, 1, k)) = k
           /\ \A i \in 1 .. k : SubSeq(s, 1, k)[i] = s[i]
OBVIOUS

LEMMA EmptyIs ==
    ASSUME NEW S, NEW s \in Seq(S), Len(s) = 0
    PROVE  s = <<>>
OBVIOUS

LEMMA AppendPair ==
    ASSUME NEW a, NEW b
    PROVE  Append(<<a>>, b) = <<a, b>>
<1> DEFINE S == {a, b}
           s == Append(<<a>>, b)
<1>1. <<a>> \in Seq(S) /\ Len(<<a>>) = 1 /\ <<a>>[1] = a /\ b \in S
  OBVIOUS
<1>2. /\ s \in Seq(S) /\ Len(s) = 2 /\ s[2] = b
      /\ \A i \in 1 .. 1 : s[i] = <<a>>[i]
  BY <1>1, AppendTo
<1>3. s[1] = a
  BY <1>1, <1>2
<1> HIDE DEF s, S
<1>4. s = <<a, b>>
  BY <1>2, <1>3
<1> QED
  BY <1>4 DEF s

\* A packet without a range.
LEMMA PktType ==
    /\ \A k \in HostKinds : Pkt(k) \in HostPkts /\ Pkt(k).kind = k
    /\ \A k \in DevKinds : Pkt(k) \in DevPkts /\ Pkt(k).kind = k
    /\ Before \subseteq HostKinds
BY DEF Pkt, HostPkts, DevPkts, Range0, Ranges, Before, HostKinds

\* CSerialPort::Send: what is before the new packet was there before.
LEMMA WrittenIs ==
    ASSUME tx \in Seq(HostPkts), NEW p \in HostPkts, Written(p)
    PROVE  \E passed \in 0 .. Len(tx) :
             /\ tx' \in Seq(HostPkts) /\ Len(tx') = passed + 1 /\ tx'[passed + 1] = p
             /\ \A i \in 1 .. passed : tx'[i] = tx[i]
             /\ prompt => passed = Len(tx)
<1>1. PICK passed \in 0 .. Len(tx) : /\ prompt => passed = Len(tx)
                                     /\ tx' = Append(SubSeq(tx, 1, passed), p)
  BY DEF Written
<1> DEFINE s == SubSeq(tx, 1, passed)
<1>2. s \in Seq(HostPkts) /\ Len(s) = passed /\ \A i \in 1 .. passed : s[i] = tx[i]
  BY PrefixIs
<1> HIDE DEF s
<1>3. tx' = Append(s, p)
  BY <1>1 DEF s
<1> QED
  BY <1>1, <1>2, <1>3, AppendTo

-----------------------------------------------------------------------------
(* Types. *)

LEMMA InitTypes == Init => SaharaTypeOK
<1> SUFFICES ASSUME Init PROVE SaharaTypeOK
  OBVIOUS
<1>1. tx = <<>> /\ mem = <<>> /\ (rx = <<>> \/ rx = <<Pkt("HELLO")>>)
  BY Zenon DEF Init
<1>2. Pkt("HELLO") \in DevPkts
  BY PktType DEF DevKinds
<1>3. tx \in Seq(HostPkts) /\ mem \in Seq(Ranges)
  BY <1>1
<1>4. rx \in Seq(DevPkts)
  <2> DEFINE h == Pkt("HELLO")
  <2>1. <<h>> \in Seq(DevPkts) /\ <<>> \in Seq(DevPkts)
    <3> HIDE DEF h
    <3>1. h \in DevPkts
      BY <1>2 DEF h
    <3> QED
      BY <3>1
  <2> QED
    BY <1>1, <2>1
<1>5. Range0 \in Ranges
  BY DEF Range0, Ranges
<1>6. 0 \in 0 .. MaxResend /\ 0 \in Nat
  BY SaharaAssumption
<1> QED
  BY <1>3, <1>4, <1>5, <1>6, Zenon DEF Init, SaharaTypeOK, HostPkts, DevPkts

\* RcvDIAGPkt.
LEMMA DiagReadIs ==
    ASSUME NEW next, DiagRead(next)
    PROVE  RxKept /\ (\/ pc' = next /\ n' = 0
                      \/ pc' = pc /\ n' = n)
<1>1. CASE Arrived /\ rx' = Tail(rx)
  BY <1>1, Zenon DEF DiagRead, Arrived, RxKept, Goto
<1>2. CASE Goto(next) /\ UNCHANGED rx
  BY <1>2, Zenon DEF RxKept, Goto
<1> QED
  BY <1>1, <1>2, Zenon DEF DiagRead

LEMMA PurgeIs == Purge => RxKept /\ (rx' = <<>> \/ rx' = rx)
BY Zenon DEF Purge, RxKept

\* A read that consumes a packet.
LEMMA ReadIs == Arrived /\ rx' = Tail(rx) => RxKept
BY Zenon DEF Arrived, RxKept

LEMMA RetryIs ==
    ASSUME NEW limit, NEW again, NEW next, Retry(limit, again, next)
    PROVE  (pc' = again /\ n' = n + 1) \/ (pc' = next /\ n' = 0)
BY Zenon DEF Retry

LEMMA ReopenIs == Reopen => RxKept /\ handle' \in {"ok", "closed"}
BY PurgeIs, Zenon DEF Reopen

LEMMA HelloIs ==
    ASSUME NEW limit, NEW again, NEW got, NEW missed,
           HelloInDlMode(limit, again, got, missed)
    PROVE  /\ RxKept /\ handle' \in {"ok", "closed", handle}
           /\ \/ pc' = again /\ n' = n + 1
              \/ pc' \in {got, missed} /\ n' = 0
<1>1. CASE Got("HELLO") /\ rx' = Tail(rx) /\ Goto(got) /\ UNCHANGED handle
  BY <1>1, ReadIs, Zenon DEF Got, Goto
<1>2. CASE Reopen /\ Retry(limit, again, missed)
  BY <1>2, ReopenIs, RetryIs
<1>3. CASE handle' = "closed" /\ Purge /\ Retry(limit, again, missed)
  BY <1>3, PurgeIs, RetryIs
<1> QED
  BY <1>1, <1>2, <1>3, Zenon DEF HelloInDlMode

\* What the early steps change, apart from the two queues: the host's
\* variables only, and not in the direction of HELLO_RSP.
LEMMA EarlyShape ==
    ASSUME SaharaTypeOK, EarlyHost
    PROVE  /\ HostTypes' /\ UNCHANGED devVars /\ RxKept /\ TxKept(Before)
           /\ pc \notin Late /\ pc' \notin Late
           /\ UNCHANGED <<lastReq, first, overflow>>
<1>0. HostTypes /\ n \in Nat /\ n + 1 \in Nat /\ emergency \in BOOLEAN /\ pc \in Pcs
  <2>1. HostTypes
    BY DEF SaharaTypeOK, HostTypes, Pcs
  <2>2. n \in Nat /\ emergency \in BOOLEAN /\ pc \in Pcs
    BY <2>1 DEF HostTypes
  <2> QED
    BY <2>1, <2>2
\* The steps that send.
<1> DEFINE Sends(k) ==
      /\ Send(Pkt(k)) /\ pc' \in Pcs \ Late /\ n' \in Nat /\ pc \notin Late
      /\ UNCHANGED <<emergency, handle, kept, devVars>>
<1>s. ASSUME NEW k \in Before, Sends(k)
      PROVE  /\ HostTypes' /\ UNCHANGED devVars /\ RxKept /\ TxKept(Before)
             /\ pc \notin Late /\ pc' \notin Late
             /\ UNCHANGED <<lastReq, first, overflow>>
  <2>1. RxKept /\ TxKept(Before)
    BY <1>s, PurgeIs, Zenon DEF Send, TxKept, RxKept
  <2> QED
    BY <1>0, <1>s, <2>1 DEF HostTypes, kept
<1> HIDE DEF Sends
<1>1. CASE SendLock
  <2>1. Sends("LOCK")
    BY <1>1 DEF SendLock, Goto, Pcs, Late, Sends
  <2> QED
    BY <1>s, <2>1 DEF Before
<1>3. CASE SendProbe
  <2>1. CASE Send(Pkt("EFS_HELLO"))
    <3>1. Sends("EFS_HELLO")
      BY <1>0, <1>3, <2>1 DEF SendProbe, Pcs, Late, HostTypes, Sends
    <3> QED
      BY <1>s, <3>1 DEF Before
  <2>2. CASE Send(Pkt("NOP"))
    <3>1. Sends("NOP")
      BY <1>0, <1>3, <2>2 DEF SendProbe, Pcs, Late, HostTypes, Sends
    <3> QED
      BY <1>s, <3>1 DEF Before
  <2> QED
    BY <1>3, <2>1, <2>2 DEF SendProbe
<1>6. CASE switchToCmdMode
  <2>1. Sends("HELLO_RSP_CMD")
    BY <1>6 DEF switchToCmdMode, Goto, Pcs, Late, Sends
  <2> QED
    BY <1>s, <2>1 DEF Before
<1>8. CASE CmdExecute
  <2>1. Sends("EXECUTE")
    BY <1>8 DEF CmdExecute, Goto, Pcs, Late, Sends
  <2> QED
    BY <1>s, <2>1 DEF Before
<1>10. CASE CmdExecuteDataPkt
  <2>1. Sends("EXECUTE_DATA")
    BY <1>10 DEF CmdExecuteDataPkt, Goto, Pcs, Late, Sends
  <2> QED
    BY <1>s, <2>1 DEF Before
<1>12. CASE saharaswitchMode
  <2>1. Sends("SWITCH_MODE")
    BY <1>12 DEF saharaswitchMode, Goto, Pcs, Late, Sends
  <2> QED
    BY <1>s, <2>1 DEF Before
<1>13. CASE SwitchToDLoadMode
  <2>1. Sends("DLOAD")
    BY <1>13 DEF SwitchToDLoadMode, Goto, Pcs, Late, Sends
  <2> QED
    BY <1>s, <2>1 DEF Before
\* The steps that read.
<1> DEFINE Reads ==
      /\ RxKept /\ pc' \in Pcs \ Late /\ n' \in Nat /\ pc \notin Late
      /\ handle' \in {"ok", "closed", handle} /\ emergency' \in BOOLEAN
      /\ cmd' \in {cmd, "version"} /\ UNCHANGED <<lastReq, first, overflow, tx, devVars>>
<1>r. ASSUME Reads
      PROVE  /\ HostTypes' /\ UNCHANGED devVars /\ RxKept /\ TxKept(Before)
             /\ pc \notin Late /\ pc' \notin Late
             /\ UNCHANGED <<lastReq, first, overflow>>
  BY <1>0, <1>r DEF HostTypes, TxKept
<1> HIDE DEF Reads
<1>2. CASE ReadLock
  <2>f. pc \in {"enabled", "disabled"} /\ UNCHANGED <<emergency, kept, tx, devVars>>
    BY <1>2 DEF ReadLock
  <2>1. Reads
    <3>1. DiagRead("probe") \/ DiagRead("dload")
      BY <1>2 DEF ReadLock
    <3>2. RxKept /\ (\/ pc' \in {"probe", "dload"} /\ n' = 0
                     \/ pc' = pc /\ n' = n)
      BY <3>1, DiagReadIs
    <3>3. UNCHANGED handle
      BY <1>2 DEF ReadLock
    <3> QED
      BY <1>0, <2>f, <3>2, <3>3 DEF kept, Pcs, Late, Reads
  <2> QED
    BY <1>r, <2>1
<1>4. CASE ReadProbe
  <2>f. pc = "probed" /\ UNCHANGED <<handle, kept, tx, devVars>>
    BY <1>4 DEF ReadProbe
  <2>1. RxKept
    BY <1>4, ReadIs, Zenon DEF ReadProbe, Got, RxKept
  <2>2. /\ \/ pc' \in {"dload", "hello"} /\ n' = 0
           \/ pc' = pc /\ n' = n
           \/ pc' = "probe" /\ n' = n + 1
    BY <1>4, RetryIs DEF ReadProbe, Goto
  <2>4. emergency' \in BOOLEAN
    BY <1>0, <1>4 DEF ReadProbe
  <2>3. Reads
    BY <1>0, <2>f, <2>1, <2>2, <2>4 DEF kept, Pcs, Late, Reads
  <2> QED
    BY <1>r, <2>3
<1>5. CASE ReadHello
  <2>f. pc \in {"hello"} /\ UNCHANGED <<emergency, kept, tx, devVars>>
    BY <1>5 DEF ReadHello
  <2>1. Reads
    <3>1. /\ RxKept /\ handle' \in {"ok", "closed", handle}
          /\ \/ pc' = "hello" /\ n' = n + 1
             \/ pc' \in {"toCmd", "exec"} /\ n' = 0
      BY <1>5, HelloIs DEF ReadHello
    <3> QED
      BY <1>0, <2>f, <3>1 DEF kept, Pcs, Late, Reads
  <2> QED
    BY <1>r, <2>1
<1>7. CASE GetCmdReadyRsp
  <2>f. pc \in {"ready"} /\ UNCHANGED <<emergency, kept, tx, devVars>>
    BY <1>7 DEF GetCmdReadyRsp
  <2>1. RxKept /\ handle' \in {"ok", "closed", handle}
    BY <1>7, ReadIs, ReopenIs DEF GetCmdReadyRsp, Got
  <2>2. \/ pc' = "exec" /\ n' = 0
        \/ pc' = "ready" /\ n' = n + 1
    BY <1>7, RetryIs DEF GetCmdReadyRsp, Goto
  <2>3. Reads
    BY <1>0, <2>f, <2>1, <2>2 DEF kept, Pcs, Late, Reads
  <2> QED
    BY <1>r, <2>3
<1>9. CASE GetCmdExecuteRspPkt
  <2>1. RxKept /\ handle' \in {"ok", "closed", handle}
    BY <1>9, ReadIs, ReopenIs DEF GetCmdExecuteRspPkt, Got
  <2>2. pc' \in {"execData", "disable", "switch"} /\ n' = 0
    BY <1>9 DEF GetCmdExecuteRspPkt, CheckFailed, Goto
  <2>3. Reads
    BY <1>0, <1>9, <2>1, <2>2 DEF GetCmdExecuteRspPkt, HostTypes, kept, Pcs, Late, Reads
  <2> QED
    BY <1>r, <2>3
<1>11. CASE saharaReceive
  <2>1. RxKept /\ handle' \in {"ok", "closed", handle}
    <3>1. CASE UNCHANGED rx
      BY <1>11, <3>1, ReopenIs DEF saharaReceive, RxKept
    <3> QED
      BY <1>11, <3>1, ReadIs, ReopenIs DEF saharaReceive, Got
  <2>2. pc' \in {"exec", "disable", "switch"} /\ n' = 0 /\ cmd' \in {cmd, "version"}
    BY <1>11 DEF saharaReceive, CheckFailed, Goto
  <2>3. Reads
    BY <1>0, <1>11, <2>1, <2>2 DEF saharaReceive, HostTypes, Pcs, Late, Reads
  <2> QED
    BY <1>r, <2>3
<1>14. CASE DLoadModeRsp
  <2>f. pc \in {"dloadRsp"} /\ UNCHANGED <<emergency, kept, tx, devVars>>
    BY <1>14 DEF DLoadModeRsp
  <2>1. Reads
    <3>1. DiagRead("prgHello") /\ UNCHANGED handle
      BY <1>14 DEF DLoadModeRsp
    <3>2. RxKept /\ (\/ pc' = "prgHello" /\ n' = 0
                     \/ pc' = pc /\ n' = n)
      BY <3>1, DiagReadIs
    <3> QED
      BY <1>0, <2>f, <3>1, <3>2 DEF kept, Pcs, Late, Reads
  <2> QED
    BY <1>r, <2>1
<1>15. CASE GetHelloAckCmd
  <2>f. pc \in {"prgHello"} /\ UNCHANGED <<emergency, kept, tx, devVars>>
    BY <1>15 DEF GetHelloAckCmd
  <2>1. /\ RxKept /\ handle' \in {"ok", "closed", handle}
        /\ \/ pc' = "prgHello" /\ n' = n + 1
           \/ pc' = "helloRsp" /\ n' = 0
    <3>1. CASE HelloInDlMode(PrgTries, "prgHello", "helloRsp", "helloRsp")
      BY <3>1, HelloIs
    <3>2. CASE Got("HELLO") /\ rx' = Tail(rx) /\ Goto("helloRsp") /\ UNCHANGED handle
      BY <3>2, ReadIs DEF Got, Goto
    <3>3. CASE Reopen /\ Retry(PrgTries, "prgHello", "helloRsp")
      BY <3>3, ReopenIs, RetryIs
    <3> QED
      BY <1>15, <3>1, <3>2, <3>3 DEF GetHelloAckCmd
  <2>2. Reads
    BY <1>0, <2>f, <2>1 DEF kept, Pcs, Late, Reads
  <2> QED
    BY <1>r, <2>2
<1> QED
  BY <1>1, <1>2, <1>3, <1>4, <1>5, <1>6, <1>7, <1>8, <1>9, <1>10, <1>11, <1>12, <1>13,
     <1>14, <1>15 DEF EarlyHost

\* What is left in the receive buffer was there, as far from its end.
LEMMA RxKeptIs ==
    ASSUME rx \in Seq(DevPkts), RxKept
    PROVE  /\ rx' \in Seq(DevPkts)
           /\ \A i \in 1 .. Len(rx') : \E j \in 1 .. Len(rx) :
                rx'[i] = rx[j] /\ Len(rx') - i = Len(rx) - j
<1>1. CASE rx' = <<>>
  BY <1>1
<1>2. CASE rx' = rx
  BY <1>2
<1>3. CASE rx # <<>> /\ rx' = Tail(rx)
  <2>1. /\ Tail(rx) \in Seq(DevPkts)
        /\ Len(rx) \in Nat /\ Len(rx) > 0 /\ Len(Tail(rx)) = Len(rx) - 1
        /\ \A i \in 1 .. Len(rx) - 1 : Tail(rx)[i] = rx[i + 1]
    BY <1>3, TailOf
  <2>2. rx' \in Seq(DevPkts) /\ Len(rx') = Len(rx) - 1
    BY <1>3, <2>1
  <2>3. ASSUME NEW i \in 1 .. Len(rx')
        PROVE  \E j \in 1 .. Len(rx) : rx'[i] = rx[j] /\ Len(rx') - i = Len(rx) - j
    <3>1. i + 1 \in 1 .. Len(rx) /\ Len(rx') - i = Len(rx) - (i + 1)
      BY <2>1, <2>2
    <3>2. rx'[i] = rx[i + 1]
      BY <1>3, <2>1, <2>2
    <3> QED
      BY <3>1, <3>2
  <2> QED
    BY <2>2, <2>3
<1> QED
  BY <1>1, <1>2, <1>3 DEF RxKept

\* What is in the transmit buffer was there, but for a packet at its end.
LEMMA WrittenKept ==
    ASSUME tx \in Seq(HostPkts), NEW p \in HostPkts, Written(p)
    PROVE  /\ tx' \in Seq(HostPkts) /\ Len(tx') \in Nat /\ Len(tx') > 0
           /\ tx'[Len(tx')] = p
           /\ \A i \in 1 .. Len(tx') :
                \/ i < Len(tx') /\ i \in 1 .. Len(tx) /\ tx'[i] = tx[i]
                \/ i = Len(tx') /\ tx'[i] = p
           /\ tx = <<>> => Len(tx') = 1
<1>1. PICK passed \in 0 .. Len(tx) :
         /\ tx' \in Seq(HostPkts) /\ Len(tx') = passed + 1 /\ tx'[passed + 1] = p
         /\ \A i \in 1 .. passed : tx'[i] = tx[i]
  BY WrittenIs
<1>2. Len(tx) \in Nat
  OBVIOUS
<1>3. ASSUME NEW i \in 1 .. Len(tx')
      PROVE  \/ i < Len(tx') /\ i \in 1 .. Len(tx) /\ tx'[i] = tx[i]
             \/ i = Len(tx') /\ tx'[i] = p
  <2>1. CASE i = passed + 1
    BY <1>1, <2>1
  <2>2. CASE i \in 1 .. passed
    BY <1>1, <1>2, <2>2
  <2> QED
    BY <1>1, <1>2, <2>1, <2>2
<1> QED
  BY <1>1, <1>2, <1>3

LEMMA TxKeptIs ==
    ASSUME tx \in Seq(HostPkts), TxKept(Before)
    PROVE  /\ tx' \in Seq(HostPkts)
           /\ \A i \in 1 .. Len(tx') : \/ i \in 1 .. Len(tx) /\ tx'[i] = tx[i]
                                       \/ tx'[i].kind \in Before
<1>1. CASE tx' = tx
  BY <1>1
<1>2. ASSUME NEW k \in Before, Written(Pkt(k))
      PROVE  /\ tx' \in Seq(HostPkts)
             /\ \A i \in 1 .. Len(tx') : \/ i \in 1 .. Len(tx) /\ tx'[i] = tx[i]
                                         \/ tx'[i].kind \in Before
  <2>1. Pkt(k) \in HostPkts /\ Pkt(k).kind = k
    BY PktType
  <2> QED
    BY <1>2, <2>1, WrittenKept
<1> QED
  BY <1>1, <1>2 DEF TxKept

\* The types, by parts.
LEMMA TypeParts ==
    SaharaTypeOK <=>
      /\ HostTypes /\ tx \in Seq(HostPkts) /\ rx \in Seq(DevPkts)
      /\ dst \in {"diag", "boot", "hello", "cmd", "wait", "end", "run"}
      /\ plan \in Plans /\ mem \in Seq(Ranges) /\ resent \in 0 .. MaxResend
      /\ matches \in BOOLEAN /\ link \in {"up", "away", "gone"}
      /\ leaves \in BOOLEAN /\ prompt \in BOOLEAN
BY DEF SaharaTypeOK, HostTypes, Pcs, HostPkts, DevPkts

\* A step of the host alone.
LEMMA HostTypesStep ==
    ASSUME SaharaTypeOK, HostTypes', tx' \in Seq(HostPkts), rx' \in Seq(DevPkts),
           UNCHANGED devVars
    PROVE  SaharaTypeOK'
BY TypeParts DEF devVars, SaharaTypeOK, HostTypes, Pcs, HostPkts, DevPkts

-----------------------------------------------------------------------------
(* RunsOnlyWhole: the steps. *)

LEMMA InitWhole == Init => WholeInd
<1> SUFFICES ASSUME Init PROVE WholeInd
  OBVIOUS
<1>1. SaharaTypeOK
  BY InitTypes
<1>2. tx = <<>> /\ mem = <<>> /\ (rx = <<>> \/ rx = <<Pkt("HELLO")>>)
  BY Zenon DEF Init
<1>3. pc = "enable" /\ dst \in Early
  BY DEF Init, Early
<1>4. \A i \in 1 .. Len(rx) : rx[i].kind # "READ_DATA"
  <2>1. Pkt("HELLO").kind = "HELLO"
    BY DEF Pkt
  <2> QED
    BY <1>2, <2>1
<1> QED
  BY <1>1, <1>2, <1>3, <1>4 DEF WholeInd, Sent, Asked, Collected, Early, Late

\* Before HELLO_RSP, nothing of the transfer is on its way.
LEMMA EarlyStep ==
    ASSUME WholeInd, EarlyHost
    PROVE  WholeInd'
<1>1. /\ HostTypes' /\ UNCHANGED devVars /\ RxKept /\ TxKept(Before)
      /\ pc \notin Late /\ pc' \notin Late
  BY EarlyShape DEF WholeInd
<1>2. tx \in Seq(HostPkts) /\ rx \in Seq(DevPkts)
  BY TypeParts DEF WholeInd
<1>3. /\ rx' \in Seq(DevPkts)
      /\ \A i \in 1 .. Len(rx') : \E j \in 1 .. Len(rx) : rx'[i] = rx[j]
  BY <1>1, <1>2, RxKeptIs
<1>4. /\ tx' \in Seq(HostPkts)
      /\ \A i \in 1 .. Len(tx') : \/ i \in 1 .. Len(tx) /\ tx'[i] = tx[i]
                                  \/ tx'[i].kind \in Before
  BY <1>1, <1>2, TxKeptIs
<1>5. SaharaTypeOK'
  BY <1>1, <1>3, <1>4, HostTypesStep DEF WholeInd
<1>6. dst \in Early /\ mem = <<>> /\ dst' = dst /\ mem' = mem /\ plan' = plan
  BY <1>1 DEF WholeInd, Collected, devVars
<1>7. \A i \in 1 .. Len(tx) : tx[i].kind \notin {"DONE", "HELLO_RSP", "DATA"}
  BY <1>1 DEF WholeInd, Sent, Late
<1>8. \A i \in 1 .. Len(rx) : rx[i].kind # "READ_DATA"
  BY <1>1, <1>6 DEF WholeInd, Asked, Late, Early
<1>9. \A i \in 1 .. Len(tx') : tx'[i].kind \notin {"DONE", "HELLO_RSP", "DATA"}
  BY <1>4, <1>7 DEF Before
<1>10. \A i \in 1 .. Len(rx') : rx'[i].kind # "READ_DATA"
  BY <1>3, <1>8
<1> QED
  BY <1>1, <1>5, <1>6, <1>9, <1>10 DEF WholeInd, Sent, Asked, Collected, Early, Late

\* HELLO_RSP goes out once.
LEMMA SaharaHelloRspStep ==
    ASSUME WholeInd, SaharaHelloRsp
    PROVE  WholeInd'
<1>1. tx \in Seq(HostPkts) /\ rx \in Seq(DevPkts) /\ HostTypes
  BY TypeParts DEF WholeInd
<1>2. pc = "helloRsp" /\ pc' = "serve" /\ n' = 0 /\ UNCHANGED <<emergency, handle, kept, devVars>>
  BY DEF SaharaHelloRsp, Goto
<1>3. Pkt("HELLO_RSP") \in HostPkts /\ Pkt("HELLO_RSP").kind = "HELLO_RSP"
  BY PktType DEF HostKinds
<1>4. RxKept /\ (tx' = tx \/ Written(Pkt("HELLO_RSP")))
  BY PurgeIs, Zenon DEF SaharaHelloRsp, Send, RxKept
<1>5. /\ rx' \in Seq(DevPkts)
      /\ \A i \in 1 .. Len(rx') : \E j \in 1 .. Len(rx) : rx'[i] = rx[j]
  BY <1>1, <1>4, RxKeptIs
<1>6. dst \in Early /\ mem = <<>> /\ dst' = dst /\ mem' = mem /\ plan' = plan
  BY <1>2 DEF WholeInd, Collected, devVars, Late
<1>7. \A i \in 1 .. Len(tx) : tx[i].kind \notin {"DONE", "HELLO_RSP", "DATA"}
  BY <1>2 DEF WholeInd, Sent, Late
<1>8. \A i \in 1 .. Len(rx) : rx[i].kind # "READ_DATA"
  BY <1>2, <1>6 DEF WholeInd, Asked, Early
<1>9. \A i \in 1 .. Len(rx') : rx'[i].kind # "READ_DATA"
  BY <1>5, <1>8
<1>10. /\ tx' \in Seq(HostPkts)
       /\ \A i \in 1 .. Len(tx') : /\ tx'[i].kind \notin {"DONE", "DATA"}
                                   /\ tx'[i].kind = "HELLO_RSP" => i = Len(tx')
  <2>1. CASE tx' = tx
    BY <1>1, <1>7, <2>1
  <2>2. CASE Written(Pkt("HELLO_RSP"))
    BY <1>1, <1>3, <1>7, <2>2, WrittenKept
  <2> QED
    BY <1>4, <2>1, <2>2
<1>11. SaharaTypeOK'
  <2>1. HostTypes'
    BY <1>1, <1>2 DEF HostTypes, kept, Pcs
  <2> QED
    BY <1>2, <1>5, <1>10, <2>1, HostTypesStep DEF WholeInd
<1>12. ASSUME NEW i \in 1 .. Len(tx'), NEW j \in 1 .. Len(tx'), j > i
       PROVE  i # Len(tx')
  BY <1>10, <1>12
<1> QED
  BY <1>2, <1>6, <1>9, <1>10, <1>11, <1>12 DEF WholeInd, Sent, Asked, Collected, Early, Late

\* The requests of a modem.
LEMMA PlanIs ==
    ASSUME plan \in Plans
    PROVE  /\ Len(plan) \in Nat /\ Len(plan) > 0 /\ plan \in Seq(Ranges)
           /\ \A i \in 1 .. Len(plan) : plan[i] \in Ranges
<1> DEFINE S == [off : Nat, len : Nat \ {0}]
<1>1. plan \in Seq(S) /\ plan # <<>>
  BY SaharaAssumption
<1>2. S \subseteq Ranges
  BY DEF Ranges
<1> HIDE DEF S
<1>3. \A i \in 1 .. Len(plan) : plan[i] \in Ranges
  BY <1>1, <1>2
<1> QED
  BY <1>1, <1>3

\* Data goes out for the request that the modem waits on, when nothing else is
\* on its way to it.
LEMMA ServeReadStep ==
    ASSUME WholeInd, ServeRead
    PROVE  WholeInd'
<1>1. tx \in Seq(HostPkts) /\ rx \in Seq(DevPkts) /\ HostTypes /\ mem \in Seq(Ranges)
  BY TypeParts DEF WholeInd
<1> DEFINE r == Head(rx).at
<1>2. /\ pc = "serve" /\ rx # <<>> /\ Head(rx).kind = "READ_DATA"
      /\ tx' = tx \/ Written(Data(r))
      /\ rx' = <<>> \/ rx' = Tail(rx)
      /\ lastReq' = r /\ first' = FALSE
      /\ UNCHANGED <<pc, n, emergency, handle, cmd, overflow, devVars>>
  BY DEF ServeRead, Got, Arrived
<1>3. /\ Head(rx) = rx[1] /\ rx[1] \in DevPkts /\ Len(rx) \in Nat /\ Len(rx) > 0
      /\ Len(Tail(rx)) = Len(rx) - 1 /\ Tail(rx) \in Seq(DevPkts)
  BY <1>1, <1>2, TailOf
<1>4. dst = "wait" /\ r = plan[Len(mem) + 1] /\ 1 = Len(rx)
  <2>1. 1 \in 1 .. Len(rx) /\ rx[1].kind = "READ_DATA"
    BY <1>2, <1>3
  <2> QED
    BY <1>2, <1>3, <2>1 DEF WholeInd, Asked
<1>5. rx' \in Seq(DevPkts) /\ Len(rx') = 0
  <2>1. Len(Tail(rx)) = 0
    <3>1. Len(rx) = 1
      BY <1>4
    <3>2. Len(Tail(rx)) = Len(rx) - 1
      BY <1>3
    <3> QED
      BY <3>1, <3>2
  <2>2. CASE rx' = <<>>
    BY <2>2
  <2> QED
    BY <1>2, <1>3, <2>1, <2>2
<1>6. r \in Ranges
  BY <1>3 DEF DevPkts
<1>7. Data(r) \in HostPkts /\ Data(r).kind = "DATA" /\ Data(r).at = r
  BY <1>6 DEF Data, HostPkts, HostKinds
<1>8. tx = <<>>
  <2>1. ~NoRead
    BY <1>2, <1>3 DEF NoRead
  <2>2. ASSUME NEW i \in 1 .. Len(tx) PROVE FALSE
    BY <1>2, <1>4, <2>1 DEF WholeInd, Sent, Early
  <2> QED
    BY <1>1, <2>2
<1> HIDE DEF r
<1>9. /\ tx' \in Seq(HostPkts)
      /\ \A i \in 1 .. Len(tx') : i = 1 /\ tx'[i].kind = "DATA" /\ tx'[i].at = r
  <2>1. CASE tx' = tx
    BY <1>8, <2>1
  <2>2. CASE Written(Data(r))
    <3>1. tx' \in Seq(HostPkts) /\ Len(tx') = 1 /\ tx'[Len(tx')] = Data(r)
      BY <1>1, <1>7, <1>8, <2>2, WrittenKept
    <3> QED
      BY <1>7, <3>1
  <2> QED
    BY <1>2, <2>1, <2>2
<1>10. SaharaTypeOK'
  <2>1. HostTypes'
    BY <1>1, <1>2, <1>6 DEF HostTypes
  <2> QED
    BY <1>2, <1>5, <1>9, <2>1, HostTypesStep DEF WholeInd
<1>11. dst' = "wait" /\ mem' = mem /\ plan' = plan /\ pc' = "serve"
  BY <1>2, <1>4 DEF devVars
<1>12. NoRead' /\ Asked'
  BY <1>5 DEF NoRead, Asked
<1>13. Sent'
  BY <1>4, <1>9, <1>11, <1>12 DEF Sent, Late, Early
<1>14. Collected'
  BY <1>2, <1>4, <1>11 DEF WholeInd, Collected, Late, Early
<1> QED
  BY <1>10, <1>12, <1>13, <1>14 DEF WholeInd

LEMMA LeaveLoopStep ==
    ASSUME WholeInd, LeaveLoop
    PROVE  WholeInd'
<1>1. tx \in Seq(HostPkts) /\ rx \in Seq(DevPkts) /\ HostTypes
  BY TypeParts DEF WholeInd
<1>2. /\ pc = "serve" /\ pc' = "done" /\ n' = 0 /\ overflow' \in BOOLEAN
      /\ UNCHANGED <<emergency, handle, cmd, lastReq, first, tx, devVars>>
  BY <1>1 DEF LeaveLoop, Goto, HostTypes
<1>3. RxKept
  BY ReadIs, Zenon DEF LeaveLoop, RxKept
<1>4. /\ rx' \in Seq(DevPkts)
      /\ \A i \in 1 .. Len(rx') : \E j \in 1 .. Len(rx) :
           rx'[i] = rx[j] /\ Len(rx') - i = Len(rx) - j
  BY <1>1, <1>3, RxKeptIs
<1>5. SaharaTypeOK'
  <2>1. HostTypes'
    BY <1>1, <1>2 DEF HostTypes, Pcs
  <2> QED
    BY <1>1, <1>2, <1>4, <2>1, HostTypesStep DEF WholeInd
<1>6. dst' = dst /\ mem' = mem /\ plan' = plan /\ tx' = tx
  BY <1>2 DEF devVars
<1>7. NoRead => NoRead'
  BY <1>4 DEF NoRead
<1>8. Asked'
  <2> SUFFICES ASSUME NEW i \in 1 .. Len(rx'), rx'[i].kind = "READ_DATA"
               PROVE  dst = "wait" /\ rx'[i].at = plan[Len(mem) + 1] /\ i = Len(rx')
    BY <1>6 DEF Asked
  <2>1. PICK j \in 1 .. Len(rx) : rx'[i] = rx[j] /\ Len(rx') - i = Len(rx) - j
    BY <1>4
  <2>2. dst = "wait" /\ rx[j].at = plan[Len(mem) + 1] /\ j = Len(rx)
    BY <1>2, <2>1 DEF WholeInd, Asked
  <2>3. i = Len(rx')
    BY <1>1, <1>4, <2>1, <2>2
  <2> QED
    BY <2>1, <2>2, <2>3
<1>9. Sent'
  BY <1>2, <1>6, <1>7 DEF WholeInd, Sent, Late
<1>10. Collected'
  BY <1>2, <1>6 DEF WholeInd, Collected, Late
<1> QED
  BY <1>5, <1>8, <1>9, <1>10 DEF WholeInd

\* DONE is the last packet of the host.
LEMMA SaharaDoneStep ==
    ASSUME WholeInd, SaharaDone
    PROVE  WholeInd'
<1>1. tx \in Seq(HostPkts) /\ rx \in Seq(DevPkts) /\ HostTypes
  BY TypeParts DEF WholeInd
<1>2. pc = "done" /\ pc' = "end" /\ n' = 0 /\ UNCHANGED <<emergency, handle, kept, devVars>>
  BY DEF SaharaDone, Goto
<1>3. Pkt("DONE") \in HostPkts /\ Pkt("DONE").kind = "DONE"
  BY PktType DEF HostKinds
<1>4. RxKept /\ (tx' = tx \/ Written(Pkt("DONE")))
  BY PurgeIs, Zenon DEF SaharaDone, Send, RxKept
<1>5. rx' \in Seq(DevPkts)
  BY <1>1, <1>4, RxKeptIs
<1>6. \A i \in 1 .. Len(tx) : tx[i].kind # "DONE"
  BY <1>2 DEF WholeInd, Sent
<1>7. /\ tx' \in Seq(HostPkts)
      /\ \A i \in 1 .. Len(tx') : \/ i \in 1 .. Len(tx) /\ tx'[i] = tx[i]
                                  \/ i = Len(tx') /\ tx'[i].kind = "DONE"
  <2>1. CASE tx' = tx
    BY <1>1, <2>1
  <2>2. CASE Written(Pkt("DONE"))
    BY <1>1, <1>3, <2>2, WrittenKept
  <2> QED
    BY <1>4, <2>1, <2>2
<1>8. SaharaTypeOK'
  <2>1. HostTypes'
    BY <1>1, <1>2 DEF HostTypes, kept, Pcs
  <2> QED
    BY <1>2, <1>5, <1>7, <2>1, HostTypesStep DEF WholeInd
<1>9. dst' = dst /\ mem' = mem /\ plan' = plan
  BY <1>2 DEF devVars
<1>10. Sent'
  <2> SUFFICES ASSUME NEW i \in 1 .. Len(tx')
               PROVE  /\ tx'[i].kind = "DONE" => i = Len(tx')
                      /\ tx'[i].kind = "HELLO_RSP" =>
                           /\ dst \in Early
                           /\ \A j \in 1 .. Len(tx') : j > i => tx'[j].kind = "DONE"
                      /\ tx'[i].kind = "DATA" =>
                           dst = "wait" /\ i = 1 /\ tx'[i].at = plan[Len(mem) + 1]
                      /\ dst \notin Early => tx'[i].kind \in {"DATA", "DONE"}
    BY <1>2, <1>9 DEF Sent, Late
  <2>1. CASE i = Len(tx') /\ tx'[i].kind = "DONE"
    BY <2>1
  <2>2. CASE i \in 1 .. Len(tx) /\ tx'[i] = tx[i]
    <3>1. ASSUME tx'[i].kind = "HELLO_RSP", NEW j \in 1 .. Len(tx'), j > i
          PROVE  tx'[j].kind = "DONE"
      <4>1. CASE j = Len(tx') /\ tx'[j].kind = "DONE"
        BY <4>1
      <4>2. CASE j \in 1 .. Len(tx) /\ tx'[j] = tx[j]
        BY <2>2, <3>1, <4>2 DEF WholeInd, Sent
      <4> QED
        BY <1>7, <4>1, <4>2
    <3> QED
      BY <1>6, <2>2, <3>1 DEF WholeInd, Sent
  <2> QED
    BY <1>7, <2>1, <2>2
<1>11. Asked' /\ Collected'
  BY <1>2, <1>9 DEF WholeInd, Asked, Collected, Late
<1> QED
  BY <1>8, <1>10, <1>11 DEF WholeInd

-----------------------------------------------------------------------------
(* The modem. *)

\* A step of the modem alone.
LEMMA ModemTypesStep ==
    ASSUME SaharaTypeOK, UNCHANGED <<hostVars, plan, matches, link, leaves, prompt>>,
           tx' \in Seq(HostPkts), rx' \in Seq(DevPkts),
           dst' \in {"diag", "boot", "hello", "cmd", "wait", "end", "run"},
           mem' \in Seq(Ranges), resent' \in 0 .. MaxResend
    PROVE  SaharaTypeOK'
<1>1. HostTypes'
  BY TypeParts DEF hostVars, HostTypes
<1>2. /\ plan' \in Plans /\ matches' \in BOOLEAN /\ link' \in {"up", "away", "gone"}
      /\ leaves' \in BOOLEAN /\ prompt' \in BOOLEAN
  BY TypeParts
<1> QED
  BY <1>1, <1>2 DEF SaharaTypeOK, HostTypes, Pcs, HostPkts, DevPkts

\* One packet of the host's is taken.
LEMMA TxTail ==
    ASSUME tx \in Seq(HostPkts), tx # <<>>, tx' = Tail(tx)
    PROVE  /\ tx' \in Seq(HostPkts) /\ Len(tx) \in Nat /\ Len(tx) > 0
           /\ Len(tx') = Len(tx) - 1 /\ Head(tx) = tx[1] /\ tx[1] \in HostPkts
           /\ \A i \in 1 .. Len(tx') : i + 1 \in 1 .. Len(tx) /\ tx'[i] = tx[i + 1]
<1>1. /\ Head(tx) = tx[1] /\ tx[1] \in HostPkts /\ Tail(tx) \in Seq(HostPkts)
      /\ Len(tx) \in Nat /\ Len(tx) > 0 /\ Len(Tail(tx)) = Len(tx) - 1
      /\ \A i \in 1 .. Len(tx) - 1 : Tail(tx)[i] = tx[i + 1]
  BY TailOf
<1> QED
  BY <1>1

\* A modem that is not in the transfer takes a packet, or restarts.
LEMMA EarlyModemStep ==
    ASSUME WholeInd, UNCHANGED <<hostVars, plan, mem, matches, leaves, prompt>>,
           dst \in Early, dst' \in Early, SaharaTypeOK',
           rx' = rx \/ \E q \in DevPkts : q.kind # "READ_DATA" /\ rx' = Append(rx, q),
           tx' = tx \/ (tx # <<>> /\ tx' = Tail(tx))
    PROVE  WholeInd'
<1>1. tx \in Seq(HostPkts) /\ rx \in Seq(DevPkts)
  BY TypeParts DEF WholeInd
<1>2. pc' = pc /\ plan' = plan /\ mem' = mem
  BY DEF hostVars
<1>3. \A i \in 1 .. Len(tx) : tx[i].kind # "DATA"
  BY DEF WholeInd, Sent, Early
<1>4. pc = "end" \/ NoRead
  BY DEF WholeInd, Asked, NoRead, Early
<1>5. NoRead => NoRead'
  <2>1. CASE rx' = rx
    BY <2>1 DEF NoRead
  <2>2. ASSUME NEW q \in DevPkts, q.kind # "READ_DATA", rx' = Append(rx, q)
        PROVE  NoRead => NoRead'
    BY <1>1, <2>2, AppendTo DEF NoRead
  <2> QED
    BY <2>1, <2>2
<1>6. Asked'
  BY <1>2, <1>4, <1>5 DEF Asked, NoRead
<1>7. Sent'
  <2>1. CASE tx' = tx
    BY <1>2, <1>3, <2>1 DEF WholeInd, Sent
  <2>2. CASE tx # <<>> /\ tx' = Tail(tx)
    <3>1. /\ Len(tx) \in Nat /\ Len(tx') = Len(tx) - 1
          /\ \A i \in 1 .. Len(tx') : i + 1 \in 1 .. Len(tx) /\ tx'[i] = tx[i + 1]
      BY <1>1, <2>2, TxTail
    <3>2. ASSUME NEW i \in 1 .. Len(tx')
          PROVE  /\ tx'[i].kind = "DONE" => i = Len(tx') /\ pc = "end"
                 /\ tx'[i].kind # "DATA"
                 /\ tx'[i].kind = "HELLO_RSP" => pc \in Late
      <4>1. i + 1 \in 1 .. Len(tx) /\ tx'[i] = tx[i + 1]
        BY <3>1
      <4>2. tx[i + 1].kind = "DONE" => i + 1 = Len(tx) /\ pc = "end"
        BY <4>1 DEF WholeInd, Sent
      <4>3. tx[i + 1].kind = "HELLO_RSP" => pc \in Late
        BY <4>1 DEF WholeInd, Sent
      <4> QED
        BY <1>3, <3>1, <4>1, <4>2, <4>3
    <3>3. ASSUME NEW i \in 1 .. Len(tx'), NEW j \in 1 .. Len(tx'), j > i,
                 tx'[i].kind = "HELLO_RSP"
          PROVE  tx'[j].kind = "DONE"
      <4>1. /\ i + 1 \in 1 .. Len(tx) /\ tx'[i] = tx[i + 1]
            /\ j + 1 \in 1 .. Len(tx) /\ tx'[j] = tx[j + 1] /\ j + 1 > i + 1
        BY <3>1, <3>3
      <4>2. tx[i + 1].kind = "HELLO_RSP"
        BY <3>3, <4>1
      <4>3. tx[j + 1].kind = "DONE"
        BY <4>1, <4>2 DEF WholeInd, Sent
      <4> QED
        BY <4>1, <4>3
    <3> QED
      BY <1>2, <3>2, <3>3 DEF Sent
  <2> QED
    BY <2>1, <2>2
<1>8. Collected'
  BY <1>2 DEF WholeInd, Collected, Early
<1> QED
  BY <1>6, <1>7, <1>8 DEF WholeInd

\* What a modem outside the transfer answers with.
Outside(next) ==
    /\ dst' = next
    /\ rx' = rx \/ \E k \in DevKinds \ {"READ_DATA"} : rx' = Append(rx, Pkt(k))
    /\ resent' \in {resent, resent + 1} /\ resent' \in 0 .. MaxResend

LEMMA OutsideStep ==
    ASSUME WholeInd, NEW next \in Early, Outside(next), dst \in Early, UNCHANGED mem,
           UNCHANGED <<hostVars, plan, matches, leaves, prompt>>,
           link' \in {"up", "away", "gone"},
           tx' = tx \/ (tx # <<>> /\ tx' = Tail(tx))
    PROVE  WholeInd'
<1>1. /\ tx \in Seq(HostPkts) /\ rx \in Seq(DevPkts) /\ mem \in Seq(Ranges)
      /\ SaharaTypeOK
  BY TypeParts DEF WholeInd
<1>2. rx' = rx \/ \E q \in DevPkts : q.kind # "READ_DATA" /\ rx' = Append(rx, q)
  BY PktType DEF Outside
<1>3. rx' \in Seq(DevPkts)
  <2>1. CASE rx' = rx
    BY <1>1, <2>1
  <2>2. CASE \E q \in DevPkts : q.kind # "READ_DATA" /\ rx' = Append(rx, q)
    <3>1. PICK q \in DevPkts : rx' = Append(rx, q)
      BY <2>2
    <3>2. rx \in Seq(DevPkts)
      BY <1>1
    <3> QED BY <3>1, <3>2, AppendTo
  <2> QED BY <1>2, <2>1, <2>2
<1>4. tx' \in Seq(HostPkts)
  BY <1>1, TxTail
<1>5. SaharaTypeOK'
  <2>1. HostTypes'
    BY <1>1, TypeParts DEF hostVars, HostTypes
  <2>2. /\ plan' \in Plans /\ matches' \in BOOLEAN /\ leaves' \in BOOLEAN
        /\ prompt' \in BOOLEAN /\ mem' \in Seq(Ranges) /\ resent' \in 0 .. MaxResend
    BY <1>1, TypeParts DEF Outside
  <2>3. dst' \in {"diag", "boot", "hello", "cmd", "wait", "end", "run"}
    BY DEF Outside, Early
  <2> QED
    BY <1>3, <1>4, <2>1, <2>2, <2>3 DEF SaharaTypeOK, HostTypes, Pcs, HostPkts, DevPkts
<1>6. dst' \in Early
  BY DEF Outside
<1> QED
  BY <1>2, <1>5, <1>6, EarlyModemStep

\* ModemTakes before the transfer.
LEMMA TakesOutside ==
    ASSUME SaharaTypeOK, ModemTakes,
           \/ dst \in {"diag", "cmd", "boot"}
           \/ dst = "hello" /\ Head(tx).kind # "HELLO_RSP"
    PROVE  UNCHANGED mem /\ \E next \in Early : Outside(next)
<1> DEFINE p == Head(tx)
<1>1. resent \in 0 .. MaxResend /\ MaxResend \in Nat
  BY SaharaAssumption DEF SaharaTypeOK
<1>2. ASSUME NEW next, Unexpected(next), dst = next
      PROVE  Outside(next)
  BY <1>1, <1>2 DEF Unexpected, Silent, Answer, Outside, DevKinds
<1>3. ASSUME NEW k \in DevKinds \ {"READ_DATA"}, NEW next, Answer(Pkt(k), next),
             UNCHANGED resent
      PROVE  Outside(next)
  BY <1>1, <1>3 DEF Answer, Outside
<1>4. ASSUME Silent, UNCHANGED resent
      PROVE  Outside(dst)
  BY <1>1, <1>4 DEF Silent, Outside
<1>5. ASSUME NEW next, Unexpected(next)
      PROVE  Outside(next) \/ Outside(dst)
  BY <1>1, <1>5 DEF Unexpected, Silent, Answer, Outside, DevKinds
<1>6. CASE dst = "diag"
  <2>1. /\ UNCHANGED <<mem, resent>>
        /\ CASE p.kind = "LOCK" -> Answer(Pkt("LOCK_RSP"), "diag")
               [] p.kind = "EFS_HELLO" -> Answer(Pkt("EFS_RSP"), "diag")
               [] p.kind = "DLOAD" -> Answer(Pkt("DLOAD_RSP"), "boot")
               [] OTHER -> Silent
    BY <1>6 DEF ModemTakes
  <2>2. \/ Answer(Pkt("LOCK_RSP"), "diag") \/ Answer(Pkt("EFS_RSP"), "diag")
        \/ Answer(Pkt("DLOAD_RSP"), "boot") \/ Silent
    <3> HIDE DEF p
    <3> QED
      BY <2>1
  <2> QED
    BY <1>3, <1>4, <1>6, <2>1, <2>2 DEF DevKinds, DiagKinds, Early
<1>7. CASE dst = "hello" /\ p.kind # "HELLO_RSP"
  <2>1. /\ UNCHANGED mem
        /\ CASE p.kind = "HELLO_RSP" ->
                     Answer(Ask(plan[1]), "wait") /\ UNCHANGED resent
               [] p.kind = "HELLO_RSP_CMD" ->
                     Answer(Pkt("READY"), "cmd") /\ UNCHANGED resent
               [] OTHER -> Unexpected("hello")
    BY <1>7 DEF ModemTakes
  <2>2. (Answer(Pkt("READY"), "cmd") /\ UNCHANGED resent) \/ Unexpected("hello")
    <3>1. p.kind # "HELLO_RSP"
      BY <1>7
    <3> HIDE DEF p
    <3> QED
      BY <2>1, <3>1
  <2> QED
    BY <1>2, <1>3, <1>7, <2>1, <2>2 DEF DevKinds, Early
<1>8. CASE dst = "cmd"
  <2>1. /\ UNCHANGED mem
        /\ CASE p.kind = "EXECUTE" ->
                     Answer(Pkt("EXECUTE_RSP"), "cmd") /\ UNCHANGED resent
               [] p.kind = "EXECUTE_DATA" ->
                     Answer(Pkt("CLIENT_DATA"), "cmd") /\ UNCHANGED resent
               [] p.kind = "SWITCH_MODE" ->
                     Answer(Pkt("HELLO"), "hello") /\ UNCHANGED resent
               [] OTHER -> Unexpected("hello")
    BY <1>8 DEF ModemTakes
  <2>2. \/ Answer(Pkt("EXECUTE_RSP"), "cmd") /\ UNCHANGED resent
        \/ Answer(Pkt("CLIENT_DATA"), "cmd") /\ UNCHANGED resent
        \/ Answer(Pkt("HELLO"), "hello") /\ UNCHANGED resent
        \/ Unexpected("hello")
    <3> HIDE DEF p
    <3> QED
      BY <2>1
  <2> QED
    BY <1>3, <1>5, <1>8, <2>1, <2>2 DEF DevKinds, Early
<1>9. CASE dst = "boot"
  <2>1. Silent /\ UNCHANGED <<mem, resent>>
    BY <1>9 DEF ModemTakes
  <2> QED
    BY <1>4, <1>9, <2>1 DEF Early
<1> QED
  BY <1>6, <1>7, <1>8, <1>9

\* HELLO_RSP starts the transfer: nothing of it is on its way yet.
LEMMA TakesHelloRsp ==
    ASSUME WholeInd, ModemTakes, dst = "hello", Head(tx).kind = "HELLO_RSP"
    PROVE  WholeInd'
<1>1. /\ tx \in Seq(HostPkts) /\ rx \in Seq(DevPkts) /\ plan \in Plans
      /\ SaharaTypeOK /\ resent \in 0 .. MaxResend
  BY TypeParts DEF WholeInd
<1>2. /\ tx # <<>> /\ tx' = Tail(tx)
      /\ UNCHANGED <<hostVars, plan, matches, link, leaves, prompt, mem>>
  BY DEF ModemTakes
<1>3. Answer(Ask(plan[1]), "wait") /\ UNCHANGED resent
  BY DEF ModemTakes
<1> DEFINE q == Ask(plan[1])
<1>4. Len(plan) \in Nat /\ Len(plan) > 0 /\ plan[1] \in Ranges
  BY <1>1, PlanIs
<1>5. q \in DevPkts /\ q.kind = "READ_DATA" /\ q.at = plan[1]
  BY <1>4 DEF Ask, DevPkts, DevKinds
<1>6. dst' = "wait" /\ rx' = Append(rx, q)
  BY <1>3 DEF Answer
<1> HIDE DEF q
<1>7. /\ tx' \in Seq(HostPkts) /\ Len(tx) \in Nat /\ Len(tx) > 0
      /\ Len(tx') = Len(tx) - 1 /\ Head(tx) = tx[1]
      /\ \A i \in 1 .. Len(tx') : i + 1 \in 1 .. Len(tx) /\ tx'[i] = tx[i + 1]
  BY <1>1, <1>2, TxTail
<1>8. /\ pc \in Late
      /\ \A j \in 1 .. Len(tx) : j > 1 => tx[j].kind = "DONE"
  BY <1>7 DEF WholeInd, Sent
<1>9. mem = <<>> /\ Len(mem) = 0 /\ mem' = mem /\ plan' = plan /\ pc' = pc
      /\ mem \in Seq(Ranges)
  <2>1. mem = <<>>
    BY DEF WholeInd, Collected, Early
  <2> QED
    BY <1>2, <2>1 DEF hostVars
<1>10. /\ rx' \in Seq(DevPkts) /\ Len(rx) \in Nat /\ Len(rx') = Len(rx) + 1
       /\ rx'[Len(rx) + 1] = q /\ \A i \in 1 .. Len(rx) : rx'[i] = rx[i]
  BY <1>1, <1>5, <1>6, AppendTo
<1>11. Asked'
  <2> SUFFICES ASSUME pc # "end", NEW i \in 1 .. Len(rx'), rx'[i].kind = "READ_DATA"
               PROVE  rx'[i].at = plan[1] /\ i = Len(rx')
    BY <1>6, <1>9 DEF Asked
  <2>1. CASE i \in 1 .. Len(rx)
    BY <1>10, <2>1 DEF WholeInd, Asked
  <2>2. CASE i = Len(rx) + 1
    BY <1>5, <1>10, <2>2
  <2> QED
    BY <1>10, <2>1, <2>2
<1>12. ASSUME NEW i \in 1 .. Len(tx')
       PROVE  tx'[i].kind = "DONE" /\ i = Len(tx') /\ pc = "end"
  <2>1. i + 1 \in 1 .. Len(tx) /\ tx'[i] = tx[i + 1] /\ i + 1 > 1
    BY <1>7
  <2>2. tx[i + 1].kind = "DONE"
    BY <1>8, <2>1
  <2>3. i + 1 = Len(tx) /\ pc = "end"
    BY <2>1, <2>2 DEF WholeInd, Sent
  <2> QED
    BY <1>7, <2>1, <2>2, <2>3
<1>13. Sent'
  BY <1>6, <1>9, <1>12 DEF Sent, Early
<1>14. Collected'
  BY <1>4, <1>6, <1>8, <1>9 DEF Collected, PrefixOf, Early
<1>15. SaharaTypeOK'
  BY <1>1, <1>2, <1>3, <1>6, <1>7, <1>9, <1>10, ModemTypesStep
<1> QED
  BY <1>11, <1>13, <1>14, <1>15 DEF WholeInd

\* The next request, or the end of the transfer.
LEMMA TakeDataIs ==
    ASSUME plan \in Plans, mem \in Seq(Ranges), rx \in Seq(DevPkts), Len(mem) < Len(plan),
           NEW p \in HostPkts, TakeData(p)
    PROVE  \E e \in Ranges, q \in DevPkts :
             /\ e = (IF p.kind = "DATA" THEN p.at ELSE Range0)
             /\ mem' = Append(mem, e) /\ rx' = Append(rx, q)
             /\ \/ /\ Len(mem') < Len(plan) /\ dst' = "wait"
                   /\ q.kind = "READ_DATA" /\ q.at = plan[Len(mem') + 1]
                \/ /\ Len(mem') = Len(plan) /\ dst' = "end" /\ q.kind # "READ_DATA"
<1> DEFINE e == IF p.kind = "DATA" THEN p.at ELSE Range0
<1>1. e \in Ranges
  BY DEF HostPkts, Range0, Ranges
<1> HIDE DEF e
<1>2. mem' = Append(mem, e)
  BY DEF TakeData, e
<1>3. Len(mem) \in Nat /\ Len(mem') = Len(mem) + 1 /\ Len(plan) \in Nat
  BY <1>1, <1>2, AppendTo, PlanIs
<1>4. CASE Len(mem') < Len(plan)
  <2> DEFINE q == Ask(plan[Len(mem') + 1])
  <2>1. plan[Len(mem') + 1] \in Ranges
    <3>1. Len(mem') + 1 \in 1 .. Len(plan)
      BY <1>3, <1>4
    <3> QED
      BY <3>1, PlanIs
  <2>2. q \in DevPkts /\ q.kind = "READ_DATA" /\ q.at = plan[Len(mem') + 1]
    BY <2>1 DEF Ask, DevPkts, DevKinds
  <2>3. rx' = Append(rx, q) /\ dst' = "wait"
    BY <1>4 DEF TakeData, Answer
  <2> HIDE DEF q
  <2> QED
    BY <1>1, <1>2, <1>4, <2>2, <2>3 DEF e
<1>5. CASE ~(Len(mem') < Len(plan))
  <2> DEFINE q == Pkt("END_TRANSFER")
  <2>1. q \in DevPkts /\ q.kind = "END_TRANSFER"
    BY PktType DEF DevKinds
  <2>2. rx' = Append(rx, q) /\ dst' = "end"
    BY <1>5 DEF TakeData, Answer
  <2>3. Len(mem') = Len(plan)
    BY <1>3, <1>5
  <2> HIDE DEF q
  <2> QED
    BY <1>1, <1>2, <2>1, <2>2, <2>3 DEF e
<1> QED
  BY <1>4, <1>5

\* Data is what was asked for; DONE is followed by nothing.
LEMMA TakesData ==
    ASSUME WholeInd, ModemTakes, dst = "wait"
    PROVE  WholeInd'
<1>1. /\ tx \in Seq(HostPkts) /\ rx \in Seq(DevPkts) /\ plan \in Plans
      /\ SaharaTypeOK /\ resent \in 0 .. MaxResend /\ mem \in Seq(Ranges)
  BY TypeParts DEF WholeInd
<1>2. /\ tx # <<>> /\ tx' = Tail(tx) /\ TakeData(Head(tx))
      /\ UNCHANGED <<hostVars, plan, matches, link, leaves, prompt, resent>>
  BY DEF ModemTakes
<1>3. /\ tx' \in Seq(HostPkts) /\ Len(tx) \in Nat /\ Len(tx) > 0
      /\ Len(tx') = Len(tx) - 1 /\ Head(tx) = tx[1] /\ tx[1] \in HostPkts
      /\ \A i \in 1 .. Len(tx') : i + 1 \in 1 .. Len(tx) /\ tx'[i] = tx[i + 1]
  BY <1>1, <1>2, TxTail
<1> DEFINE p == tx[1]
<1>4. Len(mem) < Len(plan) /\ PrefixOf(mem, plan) /\ pc \in Late
  BY <1>2 DEF WholeInd, Collected, Early
<1>5. PICK e \in Ranges, q \in DevPkts :
             /\ e = (IF p.kind = "DATA" THEN p.at ELSE Range0)
             /\ mem' = Append(mem, e) /\ rx' = Append(rx, q)
             /\ \/ /\ Len(mem') < Len(plan) /\ dst' = "wait"
                   /\ q.kind = "READ_DATA" /\ q.at = plan[Len(mem') + 1]
                \/ /\ Len(mem') = Len(plan) /\ dst' = "end" /\ q.kind # "READ_DATA"
  BY <1>1, <1>2, <1>3, <1>4, TakeDataIs
<1>6. /\ mem' \in Seq(Ranges) /\ Len(mem) \in Nat /\ Len(mem') = Len(mem) + 1
      /\ mem'[Len(mem) + 1] = e /\ \A i \in 1 .. Len(mem) : mem'[i] = mem[i]
  BY <1>1, <1>5, AppendTo
<1>7. /\ rx' \in Seq(DevPkts) /\ Len(rx) \in Nat /\ Len(rx') = Len(rx) + 1
      /\ rx'[Len(rx) + 1] = q /\ \A i \in 1 .. Len(rx) : rx'[i] = rx[i]
  BY <1>1, <1>5, AppendTo
<1>8. pc' = pc /\ plan' = plan /\ Len(plan) \in Nat
  BY <1>1, <1>2, PlanIs DEF hostVars
<1>9. SaharaTypeOK'
  BY <1>1, <1>2, <1>3, <1>5, <1>6, <1>7, ModemTypesStep
<1>10. ASSUME NEW i \in 1 .. Len(tx')
       PROVE  tx'[i].kind = "DONE" /\ i = Len(tx') /\ pc = "end"
  <2>1. i + 1 \in 1 .. Len(tx) /\ tx'[i] = tx[i + 1] /\ i + 1 # 1
    BY <1>3
  <2>2. tx[i + 1].kind = "DONE"
    BY <2>1 DEF WholeInd, Sent, Early
  <2>3. i + 1 = Len(tx) /\ pc = "end"
    BY <2>1, <2>2 DEF WholeInd, Sent
  <2> QED
    BY <1>3, <2>1, <2>2, <2>3
<1>11. Sent'
  BY <1>5, <1>8, <1>10 DEF Sent, Early
<1>12. p.kind \in {"DATA", "DONE"}
  BY <1>3 DEF WholeInd, Sent, Early
<1>13. CASE p.kind = "DATA"
  <2>1. p.at = plan[Len(mem) + 1] /\ (pc = "end" \/ NoRead)
    BY <1>3, <1>13 DEF WholeInd, Sent
  <2>2. e = plan[Len(mem) + 1]
    BY <1>5, <1>13, <2>1
  <2>3. PrefixOf(mem', plan)
    <3> SUFFICES ASSUME NEW i \in 1 .. Len(mem')
                 PROVE  mem'[i] = plan[i]
      BY <1>5, <1>6, <1>8 DEF PrefixOf
    <3>1. CASE i = Len(mem) + 1
      BY <1>6, <2>2, <3>1
    <3>2. CASE i \in 1 .. Len(mem)
      BY <1>4, <1>6, <3>2 DEF PrefixOf
    <3> QED
      BY <1>6, <3>1, <3>2
  <2>4. Asked'
    <3> SUFFICES ASSUME pc # "end", NEW i \in 1 .. Len(rx'), rx'[i].kind = "READ_DATA"
                 PROVE  /\ dst' = "wait" /\ rx'[i].at = plan[Len(mem') + 1]
                        /\ i = Len(rx')
      BY <1>8 DEF Asked
    <3>1. CASE i \in 1 .. Len(rx)
      BY <1>7, <2>1, <3>1 DEF NoRead
    <3>2. CASE i = Len(rx) + 1
      BY <1>5, <1>7, <3>2
    <3> QED
      BY <1>7, <3>1, <3>2
  <2>5. Collected'
    BY <1>4, <1>5, <1>8, <2>3 DEF Collected, Early
  <2> QED
    BY <1>9, <1>11, <2>4, <2>5 DEF WholeInd
<1>14. CASE p.kind = "DONE"
  <2>1. 1 = Len(tx) /\ pc = "end"
    BY <1>3, <1>14 DEF WholeInd, Sent
  <2>2. tx' = <<>>
    <3>1. Len(tx) = 1
      BY <2>1
    <3>2. Len(tx') = Len(tx) - 1 /\ tx' \in Seq(HostPkts)
      BY <1>3
    <3>3. Len(tx') = 0
      BY <3>1, <3>2
    <3> QED
      BY <3>2, <3>3, EmptyIs
  <2>3. Asked' /\ Collected'
    BY <1>5, <1>8, <2>1, <2>2 DEF Asked, Collected, Early, Late
  <2> QED
    BY <1>9, <1>11, <2>3 DEF WholeInd
<1> QED
  BY <1>12, <1>13, <1>14

\* DONE finds the modem with every request answered.
LEMMA TakesDone ==
    ASSUME WholeInd, ModemTakes, dst \in {"end", "run"}
    PROVE  WholeInd'
<1>1. /\ tx \in Seq(HostPkts) /\ rx \in Seq(DevPkts) /\ plan \in Plans
      /\ SaharaTypeOK /\ resent \in 0 .. MaxResend /\ mem \in Seq(Ranges)
  BY TypeParts DEF WholeInd
<1>2. /\ tx # <<>> /\ tx' = Tail(tx)
      /\ UNCHANGED <<hostVars, plan, matches, link, leaves, prompt, resent, mem>>
  BY DEF ModemTakes
<1>3. /\ tx' \in Seq(HostPkts) /\ Len(tx) \in Nat /\ Len(tx) > 0
      /\ Len(tx') = Len(tx) - 1 /\ Head(tx) = tx[1]
  BY <1>1, <1>2, TxTail
<1>4. Head(tx).kind = "DONE" /\ 1 = Len(tx) /\ pc = "end"
  <2>1. 1 \in 1 .. Len(tx)
    BY <1>3
  <2>2. tx[1].kind \in {"DATA", "DONE"} /\ tx[1].kind # "DATA"
    BY <2>1 DEF WholeInd, Sent, Early
  <2> QED
    BY <1>3, <2>1, <2>2 DEF WholeInd, Sent
<1>5. tx' = <<>>
  <2>1. Len(tx) = 1
    BY <1>4
  <2>2. Len(tx') = 0
    BY <1>3, <2>1
  <2> QED
    BY <1>3, <2>2, EmptyIs
<1>6. mem = plan
  <2>1. CASE dst = "end"
    <3>1. Len(mem) = Len(plan) /\ PrefixOf(mem, plan)
      BY <1>2, <2>1 DEF WholeInd, Collected
    <3>2. plan \in Seq(Ranges)
      BY <1>1, PlanIs
    <3> QED
      BY <1>1, <3>1, <3>2 DEF PrefixOf
  <2>2. CASE dst = "run"
    BY <2>2 DEF WholeInd, Collected
  <2> QED
    BY <2>1, <2>2
<1>7. dst' = "run" /\ rx' \in Seq(DevPkts)
  <2>1. CASE dst = "end"
    <3>1. Answer(Pkt("DONE_RSP"), "run")
      BY <1>4, <2>1 DEF ModemTakes
    <3>2. Pkt("DONE_RSP") \in DevPkts
      BY PktType DEF DevKinds
    <3> QED
      BY <1>1, <3>1, <3>2, AppendTo DEF Answer
  <2>2. CASE dst = "run"
    BY <1>1, <2>2 DEF ModemTakes, Silent
  <2> QED
    BY <2>1, <2>2
<1>8. pc' = "end" /\ mem' = plan'
  BY <1>2, <1>4, <1>6 DEF hostVars
<1>9. SaharaTypeOK'
  BY <1>1, <1>2, <1>3, <1>7, ModemTypesStep
<1> QED
  BY <1>5, <1>7, <1>8, <1>9 DEF WholeInd, Sent, Asked, Collected, Early, Late

LEMMA ModemTakesStep ==
    ASSUME WholeInd, ModemTakes
    PROVE  WholeInd'
<1>1. /\ tx # <<>> /\ tx' = Tail(tx)
      /\ UNCHANGED <<hostVars, plan, matches, link, leaves, prompt>>
  BY DEF ModemTakes
<1>2. /\ dst \in {"diag", "boot", "hello", "cmd", "wait", "end", "run"}
      /\ SaharaTypeOK /\ link' \in {"up", "away", "gone"}
  BY <1>1 DEF WholeInd, SaharaTypeOK
<1>3. CASE \/ dst \in {"diag", "cmd", "boot"}
           \/ dst = "hello" /\ Head(tx).kind # "HELLO_RSP"
  <2>1. PICK next \in Early : Outside(next)
    BY <1>2, <1>3, TakesOutside
  <2>2. UNCHANGED mem
    BY <1>2, <1>3, TakesOutside
  <2>3. dst \in Early
    BY <1>3 DEF Early
  <2> QED
    BY <1>1, <1>2, <2>1, <2>2, <2>3, OutsideStep
<1> QED
  BY <1>2, <1>3, TakesHelloRsp, TakesData, TakesDone

LEMMA ModemBootsStep ==
    ASSUME WholeInd, ModemBoots
    PROVE  WholeInd'
<1>1. resent \in 0 .. MaxResend
  BY DEF WholeInd, SaharaTypeOK
<1>2. Outside("hello")
  BY <1>1 DEF ModemBoots, Answer, Outside, DevKinds
<1>3. dst \in Early /\ "hello" \in Early
  BY DEF ModemBoots, Early
<1> QED
  BY <1>2, <1>3, OutsideStep DEF ModemBoots

\* The modem leaves the bus, or is unplugged: both queues are lost.
LEMMA LostStep ==
    ASSUME WholeInd, ModemLeaves \/ Unplug
    PROVE  WholeInd'
<1>1. /\ tx' = <<>> /\ rx' = <<>> /\ link' \in {"away", "gone"}
      /\ handle' \in {"stale", handle}
      /\ UNCHANGED <<pc, n, emergency, kept, dst, plan, mem, resent, matches, leaves, prompt>>
  BY DEF ModemLeaves, Unplug
<1>2. dst = "boot" \/ pc # "end"
  BY DEF ModemLeaves, Unplug
<1>3. SaharaTypeOK'
  <2>1. HostTypes'
    BY <1>1, TypeParts DEF WholeInd, HostTypes, kept
  <2>2. /\ plan' \in Plans /\ matches' \in BOOLEAN /\ leaves' \in BOOLEAN
        /\ prompt' \in BOOLEAN /\ mem' \in Seq(Ranges) /\ resent' \in 0 .. MaxResend
        /\ dst' \in {"diag", "boot", "hello", "cmd", "wait", "end", "run"}
    BY <1>1, TypeParts DEF WholeInd
  <2>3. tx' \in Seq(HostPkts) /\ rx' \in Seq(DevPkts) /\ link' \in {"up", "away", "gone"}
    BY <1>1
  <2> QED
    BY <2>1, <2>2, <2>3 DEF SaharaTypeOK, HostTypes, Pcs, HostPkts, DevPkts
<1>4. Len(tx') = 0 /\ Len(rx') = 0
  BY <1>1
<1>5. Sent' /\ Asked'
  BY <1>4 DEF Sent, Asked
<1>6. Collected'
  BY <1>1, <1>2 DEF WholeInd, Collected, Early
<1> QED
  BY <1>3, <1>5, <1>6 DEF WholeInd

-----------------------------------------------------------------------------
(* The theorems. *)

LEMMA WholeStep == WholeInd /\ [Next]_vars => WholeInd'
<1> SUFFICES ASSUME WholeInd, [Next]_vars PROVE WholeInd'
  OBVIOUS
<1>1. CASE Host
  BY <1>1, EarlyStep, SaharaHelloRspStep, ServeReadStep, LeaveLoopStep, SaharaDoneStep
     DEF Host, EarlyHost
<1>2. CASE UNCHANGED vars
  <2>1. /\ pc' = pc /\ tx' = tx /\ rx' = rx /\ dst' = dst /\ plan' = plan /\ mem' = mem
        /\ UNCHANGED hostVars /\ UNCHANGED devVars
    BY <1>2 DEF vars, hostVars, devVars
  <2>2. SaharaTypeOK'
    <3>1. HostTypes'
      BY <2>1, TypeParts DEF WholeInd, HostTypes, hostVars
    <3> QED
      BY <2>1, <3>1, TypeParts, HostTypesStep DEF WholeInd
  <2>3. Sent' /\ Asked' /\ Collected'
    BY <2>1 DEF WholeInd, Sent, Asked, Collected, NoRead
  <2> QED
    BY <2>2, <2>3 DEF WholeInd
<1> QED
  BY <1>1, <1>2, ModemTakesStep, ModemBootsStep, LostStep DEF Next, Modem, Finished

\* The invariant of the transfer holds in every reachable state.
THEOREM WholeInductive == Spec => []WholeInd
BY InitWhole, WholeStep, PTL DEF Spec

\* The host's and the modem's state keep their types: in particular the
\* packets in both directions are ones the two sides know.
THEOREM SaharaTypeCorrect == Spec => []SaharaTypeOK
<1>1. WholeInd => SaharaTypeOK
  BY DEF WholeInd
<1> QED
  BY <1>1, WholeInductive, PTL

\* A modem runs the programmer only when each of its requests was answered
\* with the bytes of the image it asked for, however DownloadPrg_9X07 left its
\* loop and however late, long or repeated the requests are.
THEOREM RunsOnlyWholeAlways == Spec => []RunsOnlyWhole
<1>1. WholeInd => RunsOnlyWhole
  BY DEF WholeInd, Collected, RunsOnlyWhole
<1> QED
  BY <1>1, WholeInductive, PTL

-----------------------------------------------------------------------------
(* CopyFits: where a HELLO can be, with a modem that answers in time and     *)
(* stays on the bus unless it is unplugged.                                  *)

Calm == prompt = TRUE /\ leaves = FALSE

Quiet == tx = <<>> /\ rx = <<>>

\* One request and its one answer.
Exchange(p, a) == \/ tx = <<Pkt(p)>> /\ rx = <<>>
                  \/ tx = <<>> /\ rx = <<Pkt(a)>>

\* In normal mode every request of the host is answered before the next one.
InDiag ==
    /\ dst = "diag" /\ emergency = FALSE
    /\ \/ pc \in {"enable", "probe", "dload"} /\ n = 0 /\ Quiet
       \/ pc = "enabled" /\ Exchange("LOCK", "LOCK_RSP")
       \/ pc = "probed" /\ n = 0 /\ Exchange("EFS_HELLO", "EFS_RSP")
       \/ pc = "dloadRsp" /\ tx = <<Pkt("DLOAD")>> /\ rx = <<>>

\* On the way from DIAG to Sahara: one HELLO follows the answer.
Booting ==
    /\ emergency = FALSE /\ tx = <<>>
    /\ \/ dst = "boot" /\ pc = "dloadRsp" /\ rx = <<Pkt("DLOAD_RSP")>>
       \/ dst = "boot" /\ pc = "prgHello" /\ rx = <<>>
       \/ dst = "hello" /\ pc = "dloadRsp" /\ rx = <<Pkt("DLOAD_RSP"), Pkt("HELLO")>>
       \/ dst = "hello" /\ pc = "prgHello" /\ rx = <<Pkt("HELLO")>>

\* In Sahara, what the modem does not know brings at most HELLOs; a read that
\* ends with a timeout has read them all.
Noise == Before \ {"HELLO_RSP_CMD"}
AllHello == \A i \in 1 .. Len(rx) : rx[i].kind = "HELLO"
AllNoise == \A i \in 1 .. Len(tx) : tx[i].kind \in Noise
QuietPcs == {"probe", "hello", "dload", "prgHello", "helloRsp"}
NoisyPcs == {"enable", "enabled", "disable", "disabled", "probed", "exec",
             "execRsp", "execData", "clientData", "dloadRsp"}

InHello ==
    /\ dst = "hello" /\ AllHello /\ AllNoise
    /\ pc \in NoisyPcs \/ (pc \in QuietPcs /\ Quiet)

Answered ==
    pc = "serve" /\ dst = "hello" /\ rx = <<>> /\ tx = <<Pkt("HELLO_RSP")>>

NoHello == \A i \in 1 .. Len(rx) : rx[i].kind # "HELLO"

Transfer == pc \in Late /\ dst \in {"wait", "end", "run"} /\ NoHello

Gone == link = "gone" /\ handle # "ok" /\ Quiet
Live == link = "up" /\ handle = "ok" /\ (InDiag \/ Booting \/ InHello \/ Answered \/ Transfer)

Fit == cmd = "mobile id" /\ overflow = FALSE /\ (Gone \/ Live)

FitInd == WholeInd /\ (Calm => Fit)

\* A modem in time: a read that times out finds both queues empty.
LEMMA TimedOutIs == Calm /\ TimedOut => Quiet /\ dst # "boot"
BY DEF Calm, TimedOut, Quiet

LEMMA QuietSend ==
    ASSUME Calm, Quiet, handle = "ok", NEW k \in HostKinds, Send(Pkt(k))
    PROVE  tx' = <<Pkt(k)>> /\ rx' = <<>>
<1>1. Purge /\ Written(Pkt(k))
  BY DEF Send
<1>2. rx' = <<>>
  BY <1>1, PurgeIs DEF Quiet
<1>3. tx \in Seq(HostPkts) /\ tx = <<>> /\ Pkt(k) \in HostPkts
  BY PktType DEF Quiet
<1>4. tx' \in Seq(HostPkts) /\ Len(tx') = 1 /\ tx'[Len(tx')] = Pkt(k)
  BY <1>1, <1>3, WrittenKept
<1>5. tx' = <<Pkt(k)>>
  BY <1>4
<1> QED
  BY <1>2, <1>5

LEMMA InitFit == Init => Fit
<1> SUFFICES ASSUME Init PROVE Fit
  OBVIOUS
<1>1. tx = <<>> /\ (rx = <<>> \/ rx = <<Pkt("HELLO")>>) /\ pc = "enable" /\ n = 0
  BY Zenon DEF Init
<1>2. cmd = "mobile id" /\ overflow = FALSE /\ link = "up" /\ handle = "ok" /\ emergency = FALSE
  BY DEF Init
<1>3. CASE dst = "diag"
  <2>1. rx = <<>>
    BY <1>3, Zenon DEF Init
  <2> QED
    BY <1>1, <1>2, <1>3, <2>1 DEF Fit, Live, InDiag, Quiet
<1>4. CASE dst = "hello"
  <2>1. Pkt("HELLO").kind = "HELLO"
    BY DEF Pkt
  <2>2. AllHello /\ AllNoise
    BY <1>1, <2>1 DEF AllHello, AllNoise
  <2> QED
    BY <1>1, <1>2, <1>4, <2>2 DEF Fit, Live, InHello, NoisyPcs
<1> QED
  BY <1>3, <1>4 DEF Init

\* A modem that is gone stays so, and nothing comes from it.
LEMMA GoneStep ==
    ASSUME SaharaTypeOK, Fit, Gone, Host
    PROVE  Fit'
<1>1. link' = link /\ handle # "ok" /\ link # "up" /\ tx = <<>> /\ rx = <<>>
  BY DEF Gone, Quiet, Host, SendLock, ReadLock, SendProbe, ReadProbe, ReadHello,
     switchToCmdMode, GetCmdReadyRsp, CmdExecute, GetCmdExecuteRspPkt, CmdExecuteDataPkt,
     saharaReceive, saharaswitchMode, SwitchToDLoadMode, DLoadModeRsp, GetHelloAckCmd,
     SaharaHelloRsp, ServeRead, LeaveLoop, SaharaDone, devVars
<1>2. ~Arrived /\ \A k : ~Got(k)
  BY <1>1 DEF Arrived, Got
<1>3. \A p : Send(p) => tx' = tx /\ rx' = rx
  BY <1>1 DEF Send
<1>4. Purge => rx' = <<>>
  BY <1>1, PurgeIs
<1>5. Reopen => handle' = "closed" /\ rx' = <<>>
  BY <1>1, <1>4 DEF Reopen
<1>6. tx' = <<>> /\ rx' = <<>> /\ handle' # "ok" /\ cmd' = cmd /\ overflow' = overflow
  <2>1. CASE \/ SendLock \/ SendProbe \/ switchToCmdMode \/ CmdExecute \/ CmdExecuteDataPkt
             \/ saharaswitchMode \/ SwitchToDLoadMode \/ SaharaHelloRsp \/ SaharaDone
    BY <1>1, <1>3, <2>1 DEF SendLock, SendProbe, switchToCmdMode, CmdExecute,
       CmdExecuteDataPkt, saharaswitchMode, SwitchToDLoadMode, SaharaHelloRsp, SaharaDone, kept
  <2>2. CASE ReadLock \/ DLoadModeRsp
    BY <1>1, <1>2, <2>2 DEF ReadLock, DLoadModeRsp, DiagRead, kept
  <2>3. CASE ReadProbe
    BY <1>1, <1>2, <2>3 DEF ReadProbe, kept
  <2>4. CASE ReadHello \/ GetHelloAckCmd
    <3>1. \A limit, again, got, missed :
            HelloInDlMode(limit, again, got, missed) => handle' = "closed" /\ rx' = <<>>
      BY <1>2, <1>4, <1>5 DEF HelloInDlMode
    <3> QED
      BY <1>1, <1>2, <1>5, <2>4, <3>1 DEF ReadHello, GetHelloAckCmd, kept
  <2>5. CASE GetCmdReadyRsp \/ GetCmdExecuteRspPkt
    BY <1>1, <1>2, <1>5, <2>5 DEF GetCmdReadyRsp, GetCmdExecuteRspPkt, kept
  <2>6. CASE saharaReceive
    BY <1>1, <1>2, <1>5, <2>6 DEF saharaReceive
  <2>7. CASE ServeRead \/ LeaveLoop
    BY <1>1, <1>2, <2>7 DEF ServeRead, LeaveLoop
  <2> QED
    BY <2>1, <2>2, <2>3, <2>4, <2>5, <2>6, <2>7 DEF Host
<1> QED
  BY <1>1, <1>6 DEF Fit, Gone, Quiet

\* The host sends what a modem in Sahara does not know.
LEMMA NoisySend ==
    ASSUME SaharaTypeOK, Fit, Live, InHello, NEW k \in Noise, Send(Pkt(k)),
           pc' \in NoisyPcs, UNCHANGED <<handle, cmd, overflow, devVars>>
    PROVE  Fit'
<1>1. tx \in Seq(HostPkts) /\ rx \in Seq(DevPkts)
  BY TypeParts
<1>2. Purge /\ Written(Pkt(k))
  BY DEF Send, Live
<1>3. AllHello'
  BY <1>1, <1>2, PurgeIs, RxKeptIs DEF InHello, AllHello
<1>4. Pkt(k) \in HostPkts /\ Pkt(k).kind = k
  BY PktType DEF Noise
<1>5. AllNoise'
  BY <1>1, <1>2, <1>4, WrittenKept DEF InHello, AllNoise
<1> QED
  BY <1>3, <1>5 DEF Fit, Live, InHello, devVars

\* The host reads HELLOs, or nothing.
LEMMA NoisyRead ==
    ASSUME SaharaTypeOK, Fit, Live, InHello, RxKept, handle' = "ok",
           UNCHANGED <<tx, cmd, overflow, devVars>>,
           pc' \in NoisyPcs \/ (pc' \in QuietPcs /\ Quiet')
    PROVE  Fit'
<1>1. tx \in Seq(HostPkts) /\ rx \in Seq(DevPkts)
  BY TypeParts
<1>2. AllHello'
  BY <1>1, RxKeptIs DEF InHello, AllHello
<1>3. AllNoise'
  BY DEF InHello, AllNoise
<1> QED
  BY <1>2, <1>3 DEF Fit, Live, InHello, devVars

LEMMA HelloHead ==
    ASSUME SaharaTypeOK, InHello, Arrived
    PROVE  Head(rx).kind = "HELLO"
<1>1. rx \in Seq(DevPkts) /\ rx # <<>>
  BY TypeParts DEF Arrived
<1>2. Head(rx) = rx[1] /\ Len(rx) \in Nat /\ Len(rx) > 0
  BY <1>1, TailOf
<1> QED
  BY <1>2 DEF InHello, AllHello

LEMMA SendLockFit ==
    ASSUME SaharaTypeOK, Calm, Fit, Live, SendLock
    PROVE  Fit'
<1>1. /\ pc \in {"enable", "disable"} /\ Send(Pkt("LOCK")) /\ "LOCK" \in HostKinds
      /\ pc' = (IF pc = "enable" THEN "enabled" ELSE "disabled") /\ handle = "ok"
      /\ UNCHANGED <<emergency, handle, cmd, overflow, devVars>>
  BY DEF SendLock, Goto, kept, Live, HostKinds
<1>2. InDiag \/ InHello
  BY <1>1 DEF Live, Booting, Answered, Transfer, Late
<1>3. CASE InDiag
  <2>1. pc = "enable" /\ Quiet
    BY <1>1, <1>3 DEF InDiag
  <2>2. tx' = <<Pkt("LOCK")>> /\ rx' = <<>>
    BY <1>1, <2>1, QuietSend
  <2> QED
    BY <1>1, <1>3, <2>1, <2>2 DEF Fit, Live, InDiag, Exchange, devVars
<1>4. CASE InHello
  BY <1>1, <1>4, NoisySend DEF Noise, Before, NoisyPcs
<1> QED
  BY <1>2, <1>3, <1>4

\* A modem in DIAG is heard, one in Sahara is read until it is silent.
LEMMA DiagReadFit ==
    ASSUME SaharaTypeOK, Calm, Fit, Live, NEW next \in QuietPcs, DiagRead(next),
           pc \in NoisyPcs, InHello, UNCHANGED <<handle, cmd, overflow, tx, devVars>>
    PROVE  Fit'
<1>1. RxKept /\ (pc' = next \/ pc' = pc) /\ handle' = "ok"
  BY DiagReadIs DEF Live
<1>2. pc' = pc \/ Quiet'
  <2>1. CASE Arrived /\ rx' = Tail(rx)
    <3>1. Head(rx).kind = "HELLO"
      BY <2>1, HelloHead
    <3>2. ~TimedOut /\ ~PortError
      BY <2>1 DEF Arrived, TimedOut, PortError
    <3> QED
      BY <3>1, <3>2 DEF DiagRead, DiagKinds
  <2>2. CASE TimedOut /\ UNCHANGED rx
    BY <2>2, TimedOutIs DEF Quiet
  <2> QED
    BY <2>1, <2>2 DEF DiagRead, PortError, Live
<1> QED
  BY <1>1, <1>2, NoisyRead

\* The answer to a request in DIAG is read.
LEMMA AnswerRead ==
    ASSUME Calm, handle = "ok", NEW next, DiagRead(next), NEW p, NEW a \in DiagKinds,
           Exchange(p, a)
    PROVE  rx = <<Pkt(a)>> /\ tx = <<>> /\ rx' = <<>> /\ pc' = next /\ n' = 0
<1>1. ~TimedOut /\ ~PortError
  BY DEF Exchange, TimedOut, PortError, Calm
<1>2. Arrived /\ rx' = Tail(rx) /\ (Head(rx).kind \in DiagKinds => Goto(next))
  BY <1>1 DEF DiagRead
<1>3. rx = <<Pkt(a)>> /\ tx = <<>>
  BY <1>2 DEF Arrived, Exchange
<1>4. Pkt(a).kind = a
  BY DEF Pkt
<1>5. Head(rx) = Pkt(a) /\ Tail(rx) = <<>>
  BY <1>3
<1> QED
  BY <1>2, <1>3, <1>4, <1>5 DEF Goto

LEMMA ReadLockFit ==
    ASSUME SaharaTypeOK, Calm, Fit, Live, ReadLock
    PROVE  Fit'
<1>1. /\ pc \in {"enabled", "disabled"} /\ handle = "ok"
      /\ DiagRead(IF pc = "enabled" THEN "probe" ELSE "dload")
      /\ UNCHANGED <<emergency, handle, cmd, overflow, tx, devVars>>
  BY DEF ReadLock, kept, Live
<1>2. InDiag \/ InHello
  BY <1>1 DEF Live, Booting, Answered, Transfer, Late
<1>3. CASE InDiag
  <2>1. pc = "enabled" /\ Exchange("LOCK", "LOCK_RSP") /\ "LOCK_RSP" \in DiagKinds
    BY <1>1, <1>3 DEF InDiag, DiagKinds
  <2>2. DiagRead("probe")
    BY <1>1, <2>1
  <2>3. tx = <<>> /\ rx' = <<>> /\ pc' = "probe" /\ n' = 0
    BY <1>1, <2>1, <2>2, AnswerRead
  <2> QED
    BY <1>1, <1>3, <2>3 DEF Fit, Live, InDiag, Quiet, devVars
<1>4. CASE InHello
  BY <1>1, <1>4, DiagReadFit DEF QuietPcs, NoisyPcs
<1> QED
  BY <1>2, <1>3, <1>4

LEMMA SendProbeFit ==
    ASSUME SaharaTypeOK, Calm, Fit, Live, SendProbe
    PROVE  Fit'
<1>1. /\ pc = "probe" /\ handle = "ok" /\ pc' = "probed" /\ n' = n
      /\ Send(Pkt(IF n % 2 = 0 THEN "EFS_HELLO" ELSE "NOP"))
      /\ UNCHANGED <<emergency, handle, cmd, overflow, devVars>>
  BY DEF SendProbe, kept, Live
<1>2. InDiag \/ InHello
  BY <1>1 DEF Live, Booting, Answered, Transfer, Late
<1>3. CASE InDiag
  <2>1. n = 0 /\ Quiet
    BY <1>1, <1>3 DEF InDiag
  <2>2. Send(Pkt("EFS_HELLO")) /\ "EFS_HELLO" \in HostKinds
    BY <1>1, <2>1 DEF HostKinds
  <2>3. tx' = <<Pkt("EFS_HELLO")>> /\ rx' = <<>>
    BY <1>1, <2>1, <2>2, QuietSend
  <2> QED
    BY <1>1, <1>3, <2>1, <2>3 DEF Fit, Live, InDiag, Exchange, devVars
<1>4. CASE InHello
  <2>1. \E k \in Noise : Send(Pkt(k))
    BY <1>1 DEF Noise, Before
  <2> QED
    BY <1>1, <1>4, <2>1, NoisySend DEF NoisyPcs
<1> QED
  BY <1>2, <1>3, <1>4

LEMMA ReadProbeFit ==
    ASSUME SaharaTypeOK, Calm, Fit, Live, ReadProbe
    PROVE  Fit'
<1>1. /\ pc = "probed" /\ handle = "ok"
      /\ UNCHANGED <<handle, cmd, overflow, tx, devVars>>
  BY DEF ReadProbe, kept, Live
<1>2. InDiag \/ InHello
  BY <1>1 DEF Live, Booting, Answered, Transfer, Late
<1>3. CASE InDiag
  <2>1. n = 0 /\ Exchange("EFS_HELLO", "EFS_RSP")
    BY <1>1, <1>3 DEF InDiag
  <2>2. ~TimedOut /\ ~PortError
    BY <1>1, <2>1 DEF Exchange, TimedOut, PortError, Calm
  <2>3. Arrived
    BY <2>2 DEF ReadProbe, Got
  <2>4. rx = <<Pkt("EFS_RSP")>> /\ tx = <<>>
    BY <2>1, <2>3 DEF Arrived, Exchange
  <2>5. Pkt("EFS_RSP").kind = "EFS_RSP"
    BY DEF Pkt
  <2>6. Head(rx).kind = "EFS_RSP" /\ Tail(rx) = <<>> /\ n % 2 = 0
    BY <2>1, <2>4, <2>5
  <2>7. rx' = Tail(rx) /\ Goto("dload") /\ UNCHANGED emergency
    BY <2>2, <2>3, <2>6 DEF ReadProbe, Got
  <2> QED
    BY <1>1, <1>3, <2>4, <2>6, <2>7 DEF Fit, Live, InDiag, Quiet, Goto, devVars
<1>4. CASE InHello
  <2>1. CASE Arrived
    <3>1. Head(rx).kind = "HELLO"
      BY <1>4, <2>1, HelloHead
    <3>2. rx' = Tail(rx) /\ pc' = pc
      BY <1>1, <2>1, <3>1 DEF ReadProbe, Got, DiagKinds, TimedOut, PortError, Arrived
    <3> QED
      BY <1>1, <1>4, <2>1, <3>2, ReadIs, NoisyRead DEF NoisyPcs
  <2>2. CASE ~Arrived
    <3>1. TimedOut /\ UNCHANGED rx /\ Retry(2 * ProbeRounds, "probe", "hello")
      BY <1>1, <2>2 DEF ReadProbe, Got, PortError
    <3>2. pc' \in QuietPcs
      BY <3>1, RetryIs DEF QuietPcs
    <3>3. RxKept /\ Quiet'
      BY <1>1, <3>1, TimedOutIs DEF Quiet, RxKept
    <3> QED
      BY <1>1, <1>4, <3>2, <3>3, NoisyRead
  <2> QED
    BY <2>1, <2>2
<1> QED
  BY <1>2, <1>3, <1>4

\* After a timeout the port that is opened again is as silent as before.
LEMMA ReopenQuiet ==
    ASSUME Quiet, link = "up", Reopen, tx' = tx
    PROVE  handle' = "ok" /\ Quiet' /\ RxKept
BY PurgeIs DEF Reopen, Quiet, RxKept

\* A read for HELLO when there is none.
LEMMA HelloMissed ==
    ASSUME Calm, Live, Quiet, tx' = tx, NEW limit, NEW again, NEW got, NEW missed,
           HelloInDlMode(limit, again, got, missed)
    PROVE  handle' = "ok" /\ Quiet' /\ RxKept /\ pc' \in {again, missed}
<1>1. ~Got("HELLO") /\ ~PortError
  BY DEF Got, Arrived, Quiet, PortError, Live
<1>2. Reopen /\ Retry(limit, again, missed)
  BY <1>1 DEF HelloInDlMode
<1> QED
  BY <1>2, ReopenQuiet, RetryIs DEF Live

LEMMA ReadHelloFit ==
    ASSUME SaharaTypeOK, Calm, Fit, Live, ReadHello
    PROVE  Fit'
<1>1. /\ pc = "hello" /\ HelloInDlMode(HelloTries, "hello", "toCmd", "exec")
      /\ UNCHANGED <<cmd, overflow, tx, devVars>>
  BY DEF ReadHello, kept
<1>2. InHello /\ Quiet
  BY <1>1 DEF Live, InDiag, Booting, InHello, Answered, Transfer, Late, NoisyPcs
<1>3. handle' = "ok" /\ Quiet' /\ RxKept /\ pc' \in {"hello", "exec"}
  BY <1>1, <1>2, HelloMissed
<1> QED
  BY <1>1, <1>2, <1>3, NoisyRead DEF NoisyPcs, QuietPcs

\* Command mode is not reached: the HELLO it answers was read before.
LEMMA NoCommandMode ==
    ASSUME Live
    PROVE  ~switchToCmdMode /\ ~GetCmdReadyRsp /\ ~saharaswitchMode
BY DEF Live, switchToCmdMode, GetCmdReadyRsp, saharaswitchMode, InDiag, Booting, InHello,
       Answered, Transfer, Late, NoisyPcs, QuietPcs

LEMMA CmdExecuteFit ==
    ASSUME SaharaTypeOK, Fit, Live, CmdExecute \/ CmdExecuteDataPkt
    PROVE  Fit'
<1>1. /\ pc \in {"exec", "execData"} /\ pc' \in {"execRsp", "clientData"}
      /\ \E k \in Noise : Send(Pkt(k))
      /\ UNCHANGED <<handle, cmd, overflow, devVars>>
  BY DEF CmdExecute, CmdExecuteDataPkt, Goto, kept, Noise, Before
<1>2. InHello
  BY <1>1 DEF Live, InDiag, Booting, Answered, Transfer, Late
<1> QED
  BY <1>1, <1>2, NoisySend DEF NoisyPcs

LEMMA GetCmdExecuteRspPktFit ==
    ASSUME SaharaTypeOK, Calm, Fit, Live, GetCmdExecuteRspPkt
    PROVE  Fit'
<1>1. pc = "execRsp" /\ UNCHANGED <<cmd, overflow, tx, devVars>> /\ cmd = "mobile id"
  BY DEF GetCmdExecuteRspPkt, kept, Fit
<1>2. InHello
  BY <1>1 DEF Live, InDiag, Booting, Answered, Transfer, Late
<1>3. ~Got("EXECUTE_RSP") /\ ~PortError
  BY <1>2, HelloHead DEF Got, PortError, Live
<1>4. Reopen /\ pc' \in {"execData", "disable"}
  BY <1>1, <1>3 DEF GetCmdExecuteRspPkt, CheckFailed, Goto
<1>5. RxKept /\ handle' = "ok"
  BY <1>4, ReopenIs DEF Reopen, Live
<1> QED
  BY <1>1, <1>2, <1>4, <1>5, NoisyRead DEF NoisyPcs

LEMMA saharaReceiveFit ==
    ASSUME SaharaTypeOK, Calm, Fit, Live, saharaReceive
    PROVE  Fit'
<1>1. pc = "clientData" /\ UNCHANGED <<overflow, tx, devVars>> /\ cmd = "mobile id"
  BY DEF saharaReceive, Fit
<1>2. InHello
  BY <1>1 DEF Live, InDiag, Booting, Answered, Transfer, Late
<1>3. ~Got("CLIENT_DATA") /\ ~PortError
  BY <1>2, HelloHead DEF Got, PortError, Live
<1>4. /\ CheckFailed /\ UNCHANGED <<handle, cmd>>
      /\ (Arrived /\ rx' = Tail(rx)) \/ UNCHANGED rx
  BY <1>3 DEF saharaReceive
<1>5. RxKept
  BY <1>4, ReadIs DEF RxKept
<1>6. pc' = "disable" /\ handle' = "ok"
  BY <1>1, <1>4 DEF CheckFailed, Goto, Live
<1> QED
  BY <1>1, <1>2, <1>4, <1>5, <1>6, NoisyRead DEF NoisyPcs

LEMMA SwitchToDLoadModeFit ==
    ASSUME SaharaTypeOK, Calm, Fit, Live, SwitchToDLoadMode
    PROVE  Fit'
<1>1. /\ pc = "dload" /\ Send(Pkt("DLOAD")) /\ "DLOAD" \in HostKinds /\ pc' = "dloadRsp"
      /\ handle = "ok" /\ UNCHANGED <<emergency, handle, cmd, overflow, devVars>>
  BY DEF SwitchToDLoadMode, Goto, kept, Live, HostKinds
<1>2. InDiag \/ InHello
  BY <1>1 DEF Live, Booting, Answered, Transfer, Late
<1>3. CASE InDiag
  <2>1. Quiet
    BY <1>1, <1>3 DEF InDiag
  <2>2. tx' = <<Pkt("DLOAD")>> /\ rx' = <<>>
    BY <1>1, <2>1, QuietSend
  <2> QED
    BY <1>1, <1>3, <2>2 DEF Fit, Live, InDiag, devVars
<1>4. CASE InHello
  BY <1>1, <1>4, NoisySend DEF Noise, Before, NoisyPcs
<1> QED
  BY <1>2, <1>3, <1>4

\* The answer to DIAG_DLOAD_F is read, the HELLO after it is not.
LEMMA DLoadModeRspFit ==
    ASSUME SaharaTypeOK, Calm, Fit, Live, DLoadModeRsp
    PROVE  Fit'
<1>1. /\ pc = "dloadRsp" /\ handle = "ok" /\ DiagRead("prgHello")
      /\ UNCHANGED <<emergency, handle, cmd, overflow, tx, devVars>>
  BY DEF DLoadModeRsp, kept, Live
<1>2. InDiag \/ Booting \/ InHello
  BY <1>1 DEF Live, Answered, Transfer, Late
<1>3. CASE InDiag
  <2>1. tx = <<Pkt("DLOAD")>> /\ rx = <<>>
    BY <1>1, <1>3 DEF InDiag
  <2> QED
    BY <1>1, <2>1 DEF DiagRead, Arrived, TimedOut, PortError, Calm
<1>4. CASE Booting
  <2>1. Pkt("DLOAD_RSP").kind = "DLOAD_RSP"
    BY DEF Pkt
  <2>2. CASE dst = "boot" /\ rx = <<Pkt("DLOAD_RSP")>>
    <3>1. Head(rx) = Pkt("DLOAD_RSP") /\ Tail(rx) = <<>> /\ rx # <<>>
      BY <2>2
    <3>2. rx' = <<>> /\ Goto("prgHello")
      BY <1>1, <2>1, <3>1 DEF DiagRead, TimedOut, PortError, DiagKinds
    <3> QED
      BY <1>1, <1>4, <2>2, <3>2 DEF Fit, Live, Booting, Goto, devVars
  <2>3. CASE dst = "hello" /\ rx = <<Pkt("DLOAD_RSP"), Pkt("HELLO")>>
    <3>1. Head(rx) = Pkt("DLOAD_RSP") /\ Tail(rx) = <<Pkt("HELLO")>> /\ rx # <<>>
      BY <2>3
    <3>2. rx' = <<Pkt("HELLO")>> /\ Goto("prgHello")
      BY <1>1, <2>1, <3>1 DEF DiagRead, TimedOut, PortError, DiagKinds
    <3> QED
      BY <1>1, <1>4, <2>3, <3>2 DEF Fit, Live, Booting, Goto, devVars
  <2> QED
    BY <1>1, <1>4, <2>2, <2>3 DEF Booting
<1>5. CASE InHello
  BY <1>1, <1>5, DiagReadFit DEF QuietPcs, NoisyPcs
<1> QED
  BY <1>2, <1>3, <1>4, <1>5

\* ... but by GetHelloAckCmd, for which the host waits.
LEMMA GetHelloAckCmdFit ==
    ASSUME SaharaTypeOK, Calm, Fit, Live, GetHelloAckCmd
    PROVE  Fit'
<1>1. /\ pc = "prgHello" /\ handle = "ok" /\ link = "up"
      /\ UNCHANGED <<emergency, cmd, overflow, tx, devVars>>
  BY DEF GetHelloAckCmd, kept, Live
<1>2. Booting \/ InHello
  BY <1>1 DEF Live, InDiag, Answered, Transfer, Late
<1>3. CASE Booting
  <2>1. Pkt("HELLO").kind = "HELLO"
    BY DEF Pkt
  <2>2. CASE dst = "boot" /\ rx = <<>>
    BY <1>1, <1>3, <2>2 DEF GetHelloAckCmd, Booting, Got, Missed, Arrived, TimedOut, PortError, Calm
  <2>3. CASE dst = "hello" /\ rx = <<Pkt("HELLO")>>
    <3>1. Head(rx) = Pkt("HELLO") /\ Tail(rx) = <<>> /\ rx # <<>>
      BY <2>3
    <3>2. Got("HELLO") /\ ~Missed("HELLO") /\ ~PortError
      BY <1>1, <2>1, <3>1 DEF Got, Missed, Arrived, TimedOut, PortError
    <3>3. emergency = FALSE
      BY <1>3 DEF Booting
    <3>4. rx' = Tail(rx) /\ Goto("helloRsp") /\ UNCHANGED handle
      BY <3>2, <3>3 DEF GetHelloAckCmd
    <3>5. Quiet'
      BY <1>1, <1>3, <3>1, <3>4 DEF Booting, Quiet
    <3>6. AllHello' /\ AllNoise'
      BY <3>5 DEF Quiet, AllHello, AllNoise
    <3> QED
      BY <1>1, <2>3, <3>4, <3>5, <3>6 DEF Fit, Live, InHello, QuietPcs, Goto, devVars
  <2> QED
    BY <1>1, <1>3, <2>2, <2>3 DEF Booting
<1>4. CASE InHello
  <2>1. Quiet
    BY <1>1, <1>4 DEF InHello, NoisyPcs
  <2>2. handle' = "ok" /\ Quiet' /\ RxKept /\ pc' \in {"prgHello", "helloRsp"}
    <3>1. CASE HelloInDlMode(PrgTries, "prgHello", "helloRsp", "helloRsp")
      BY <1>1, <2>1, <3>1, HelloMissed
    <3>2. CASE Reopen /\ Retry(PrgTries, "prgHello", "helloRsp")
      BY <1>1, <2>1, <3>2, ReopenQuiet, RetryIs
    <3>3. ~Got("HELLO")
      BY <2>1 DEF Got, Arrived, Quiet
    <3> QED
      BY <3>1, <3>2, <3>3 DEF GetHelloAckCmd
  <2> QED
    BY <1>1, <1>4, <2>2, NoisyRead DEF QuietPcs
<1> QED
  BY <1>2, <1>3, <1>4

LEMMA SaharaHelloRspFit ==
    ASSUME SaharaTypeOK, Calm, Fit, Live, SaharaHelloRsp
    PROVE  Fit'
<1>1. /\ pc = "helloRsp" /\ Send(Pkt("HELLO_RSP")) /\ "HELLO_RSP" \in HostKinds
      /\ pc' = "serve" /\ handle = "ok" /\ UNCHANGED <<handle, cmd, overflow, devVars>>
  BY DEF SaharaHelloRsp, Goto, kept, Live, HostKinds
<1>2. dst = "hello" /\ Quiet
  BY <1>1 DEF Live, InDiag, Booting, InHello, Answered, Transfer, Late, NoisyPcs
<1>3. tx' = <<Pkt("HELLO_RSP")>> /\ rx' = <<>>
  BY <1>1, <1>2, QuietSend
<1> QED
  BY <1>1, <1>2, <1>3 DEF Fit, Live, Answered, devVars

\* In the transfer no packet is longer than the structure it is copied into.
LEMMA TransferFit ==
    ASSUME WholeInd, Calm, Fit, Live, ServeRead \/ LeaveLoop \/ SaharaDone
    PROVE  Fit'
<1>0. rx \in Seq(DevPkts)
  BY TypeParts DEF WholeInd
<1>1. pc \in Late /\ pc' \in Late /\ UNCHANGED <<handle, cmd, devVars>>
  BY DEF ServeRead, LeaveLoop, SaharaDone, Late, Goto, kept
<1>2. Answered \/ Transfer
  BY <1>1 DEF Live, InDiag, Booting, InHello, NoisyPcs, QuietPcs, Late
<1>3. ~Answered
  <2> SUFFICES ASSUME Answered PROVE FALSE
    OBVIOUS
  <2>1. ~Arrived /\ ~TimedOut /\ ~PortError
    BY DEF Answered, Arrived, TimedOut, PortError, Calm, Live
  <2> QED
    BY <2>1 DEF Answered, ServeRead, LeaveLoop, SaharaDone, Got
<1>4. RxKept
  <2>1. CASE ServeRead
    BY <2>1, Zenon DEF ServeRead, Got, Arrived, RxKept
  <2>2. CASE LeaveLoop
    BY <2>2, ReadIs, Zenon DEF LeaveLoop, RxKept
  <2>3. CASE SaharaDone
    BY <2>3, PurgeIs, Zenon DEF SaharaDone, Send, RxKept
  <2> QED
    BY <2>1, <2>2, <2>3
<1>5. NoHello'
  BY <1>0, <1>2, <1>3, <1>4, RxKeptIs DEF Transfer, NoHello
<1>6. overflow' = FALSE
  <2>1. CASE ServeRead \/ SaharaDone
    BY <2>1 DEF ServeRead, SaharaDone, kept, Fit
  <2>2. CASE LeaveLoop
    <3>1. CASE Arrived
      <4>1. Head(rx) = rx[1] /\ rx[1] \in DevPkts /\ Len(rx) \in Nat /\ Len(rx) > 0
        BY <1>0, <3>1, TailOf DEF Arrived
      <4>2. Head(rx).kind \in DevKinds /\ Head(rx).kind # "HELLO"
        BY <1>2, <1>3, <4>1 DEF DevPkts, Transfer, NoHello
      <4>3. \A k \in DevKinds : k # "HELLO" => PktSize[k] \in Nat /\ PktSize[k] <= 20
        BY DEF PktSize
      <4>4. Received \in Nat /\ Received <= 20
        BY <4>2, <4>3 DEF Received, sahara_read_data_type
      <4>5. ~(Received > sahara_read_data_type)
        BY <4>4 DEF sahara_read_data_type
      <4> QED
        BY <2>2, <4>5 DEF LeaveLoop, Fit
    <3>2. CASE ~Arrived
      BY <2>2, <3>2 DEF LeaveLoop, Fit
    <3> QED
      BY <3>1, <3>2
  <2> QED
    BY <2>1, <2>2
<1> QED
  BY <1>1, <1>2, <1>3, <1>5, <1>6 DEF Fit, Live, Transfer, devVars

\* The modem answers one request in DIAG.
LEMMA DiagTakesFit ==
    ASSUME Fit, Live, InDiag, ModemTakes
    PROVE  Fit'
<1>1. /\ tx # <<>> /\ tx' = Tail(tx) /\ UNCHANGED <<hostVars, link>>
      /\ CASE Head(tx).kind = "LOCK" -> Answer(Pkt("LOCK_RSP"), "diag")
           [] Head(tx).kind = "EFS_HELLO" -> Answer(Pkt("EFS_RSP"), "diag")
           [] Head(tx).kind = "DLOAD" -> Answer(Pkt("DLOAD_RSP"), "boot")
           [] OTHER -> Silent
  BY DEF ModemTakes, InDiag
<1>2. /\ pc' = pc /\ n' = n /\ emergency' = emergency /\ handle' = handle /\ link' = link
      /\ cmd' = cmd /\ overflow' = overflow
  BY <1>1 DEF hostVars
<1>3. \A k \in {"LOCK", "EFS_HELLO", "DLOAD"} :
        tx = <<Pkt(k)>> => Head(tx).kind = k /\ Tail(tx) = <<>>
  BY DEF Pkt
<1>4. \A a \in DevPkts : Append(<<>>, a) = <<a>>
  OBVIOUS
<1>5. /\ Pkt("LOCK_RSP") \in DevPkts /\ Pkt("EFS_RSP") \in DevPkts
      /\ Pkt("DLOAD_RSP") \in DevPkts
  BY PktType DEF DevKinds, DiagKinds
<1>6. CASE pc = "enabled"
  <2>1. tx = <<Pkt("LOCK")>> /\ rx = <<>>
    BY <1>1, <1>6 DEF InDiag, Exchange
  <2>2. Answer(Pkt("LOCK_RSP"), "diag") /\ tx' = <<>>
    BY <1>1, <1>3, <2>1
  <2>3. rx' = <<Pkt("LOCK_RSP")>> /\ dst' = "diag"
    BY <1>4, <1>5, <2>1, <2>2 DEF Answer
  <2> QED
    BY <1>2, <1>6, <2>2, <2>3 DEF Fit, Live, InDiag, Exchange
<1>7. CASE pc = "probed"
  <2>1. tx = <<Pkt("EFS_HELLO")>> /\ rx = <<>>
    BY <1>1, <1>7 DEF InDiag, Exchange
  <2>2. Answer(Pkt("EFS_RSP"), "diag") /\ tx' = <<>>
    BY <1>1, <1>3, <2>1
  <2>3. rx' = <<Pkt("EFS_RSP")>> /\ dst' = "diag"
    BY <1>4, <1>5, <2>1, <2>2 DEF Answer
  <2> QED
    BY <1>2, <1>7, <2>2, <2>3 DEF Fit, Live, InDiag, Exchange
<1>8. CASE pc = "dloadRsp"
  <2>1. tx = <<Pkt("DLOAD")>> /\ rx = <<>>
    BY <1>1, <1>8 DEF InDiag, Exchange
  <2>2. Answer(Pkt("DLOAD_RSP"), "boot") /\ tx' = <<>>
    BY <1>1, <1>3, <2>1
  <2>3. rx' = <<Pkt("DLOAD_RSP")>> /\ dst' = "boot"
    BY <1>4, <1>5, <2>1, <2>2 DEF Answer
  <2> QED
    BY <1>2, <1>8, <2>2, <2>3 DEF Fit, Live, InDiag, Booting
<1> QED
  BY <1>1, <1>6, <1>7, <1>8 DEF InDiag, Quiet

\* What it does not know in Sahara brings a HELLO, or nothing.
LEMMA HelloTakesFit ==
    ASSUME SaharaTypeOK, Fit, Live, InHello, ModemTakes
    PROVE  Fit'
<1>0. tx \in Seq(HostPkts) /\ rx \in Seq(DevPkts)
  BY TypeParts
<1>1. /\ tx # <<>> /\ tx' = Tail(tx) /\ UNCHANGED <<hostVars, link>> /\ dst = "hello"
  BY DEF ModemTakes, InHello
<1>2. /\ pc' = pc /\ handle' = handle /\ link' = link /\ cmd' = cmd /\ overflow' = overflow
  BY <1>1 DEF hostVars
<1>3. pc \in NoisyPcs
  BY <1>1 DEF InHello, Quiet
<1>4. /\ Len(tx) \in Nat /\ Len(tx) > 0 /\ Len(tx') = Len(tx) - 1 /\ Head(tx) = tx[1]
      /\ \A i \in 1 .. Len(tx') : i + 1 \in 1 .. Len(tx) /\ tx'[i] = tx[i + 1]
  BY <1>0, <1>1, TxTail
<1>5. Head(tx).kind \in Noise
  BY <1>4 DEF InHello, AllNoise
<1>6. AllNoise'
  BY <1>4 DEF InHello, AllNoise
<1>7. Unexpected("hello")
  <2>1. (CASE Head(tx).kind = "HELLO_RSP" ->
                     Answer(Ask(plan[1]), "wait") /\ UNCHANGED resent
           [] Head(tx).kind = "HELLO_RSP_CMD" ->
                     Answer(Pkt("READY"), "cmd") /\ UNCHANGED resent
           [] OTHER -> Unexpected("hello"))
    BY <1>1 DEF ModemTakes
  <2>2. Head(tx).kind \notin {"HELLO_RSP", "HELLO_RSP_CMD"}
    BY <1>5 DEF Noise, Before
  <2> QED
    BY <2>1, <2>2
<1>8. Pkt("HELLO") \in DevPkts /\ Pkt("HELLO").kind = "HELLO"
  BY PktType DEF DevKinds
<1>9. dst' = "hello" /\ AllHello'
  <2>1. CASE Silent
    BY <1>1, <2>1 DEF Silent, InHello, AllHello
  <2>2. CASE rx' = Append(rx, Pkt("HELLO")) /\ dst' = "hello"
    BY <1>0, <1>8, <2>2, AppendTo DEF InHello, AllHello
  <2> QED
    BY <1>7, <2>1, <2>2 DEF Unexpected, Answer
<1> QED
  BY <1>2, <1>3, <1>6, <1>9 DEF Fit, Live, InHello

\* HELLO_RSP is answered with the first request.
LEMMA AnsweredTakesFit ==
    ASSUME SaharaTypeOK, Fit, Live, Answered, ModemTakes
    PROVE  Fit'
<1>1. UNCHANGED <<hostVars, link>> /\ Head(tx).kind = "HELLO_RSP" /\ dst = "hello" /\ rx = <<>>
  BY DEF ModemTakes, Answered, Pkt
<1>2. /\ pc' = pc /\ handle' = handle /\ link' = link /\ cmd' = cmd /\ overflow' = overflow
  BY <1>1 DEF hostVars
<1>3. Answer(Ask(plan[1]), "wait")
  BY <1>1 DEF ModemTakes
<1>4. Ask(plan[1]).kind = "READ_DATA" /\ Ask(plan[1]) \in DevPkts
  <2>1. plan[1] \in Ranges
    BY TypeParts, PlanIs
  <2> QED
    BY <2>1 DEF Ask, DevPkts, DevKinds
<1>5. dst' = "wait" /\ rx' = Append(rx, Ask(plan[1]))
  BY <1>3 DEF Answer
<1>6. NoHello'
  <2> DEFINE q == Ask(plan[1])
  <2>1. q \in DevPkts /\ q.kind # "HELLO" /\ rx' = Append(<<>>, q)
    BY <1>1, <1>4, <1>5
  <2> HIDE DEF q
  <2> QED
    BY <2>1 DEF NoHello
<1> QED
  BY <1>2, <1>5, <1>6 DEF Fit, Live, Answered, Transfer, Late

\* From then on the modem sends no HELLO.
LEMMA TransferTakesFit ==
    ASSUME WholeInd, Fit, Live, Transfer, ModemTakes
    PROVE  Fit'
<1>0. rx \in Seq(DevPkts) /\ plan \in Plans /\ mem \in Seq(Ranges)
  BY TypeParts DEF WholeInd
<1>1. UNCHANGED <<hostVars, link>> /\ dst \in {"wait", "end", "run"} /\ tx # <<>>
  BY DEF ModemTakes, Transfer
<1>2. /\ pc' = pc /\ handle' = handle /\ link' = link /\ cmd' = cmd /\ overflow' = overflow
  BY <1>1 DEF hostVars
<1>3. /\ dst' \in {"wait", "end", "run"}
      /\ rx' = rx \/ \E q \in DevPkts : q.kind # "HELLO" /\ rx' = Append(rx, q)
  <2>1. CASE dst = "wait"
    <3>1. TakeData(Head(tx)) /\ mem' = Append(mem, IF Head(tx).kind = "DATA" THEN Head(tx).at ELSE Range0)
      BY <2>1 DEF ModemTakes, TakeData
    <3>2. CASE Len(mem') < Len(plan)
      <4> DEFINE q == Ask(plan[Len(mem') + 1])
      <4>1. rx' = Append(rx, q) /\ dst' = "wait"
        BY <3>1, <3>2 DEF TakeData, Answer
      <4>2. Len(mem') \in Nat /\ Len(plan) \in Nat
        <5>1. tx \in Seq(HostPkts)
          BY TypeParts DEF WholeInd
        <5>2. Head(tx) = tx[1] /\ tx[1] \in HostPkts
          BY <1>1, <5>1, TailOf
        <5>3. (IF Head(tx).kind = "DATA" THEN Head(tx).at ELSE Range0) \in Ranges
          BY <5>2 DEF HostPkts, Range0, Ranges
        <5>4. mem' \in Seq(Ranges)
          BY <1>0, <3>1, <5>3, AppendTo
        <5> QED
          BY <1>0, <5>4, PlanIs
      <4>3. plan[Len(mem') + 1] \in Ranges
        <5>1. Len(mem') + 1 \in 1 .. Len(plan)
          BY <3>2, <4>2
        <5> QED
          BY <1>0, <5>1, PlanIs
      <4>4. q \in DevPkts /\ q.kind = "READ_DATA"
        BY <4>3 DEF Ask, DevPkts, DevKinds
      <4> HIDE DEF q
      <4> QED
        BY <4>1, <4>4
    <3>3. CASE ~(Len(mem') < Len(plan))
      <4>1. rx' = Append(rx, Pkt("END_TRANSFER")) /\ dst' = "end"
        BY <3>1, <3>3 DEF TakeData, Answer
      <4>2. Pkt("END_TRANSFER") \in DevPkts /\ Pkt("END_TRANSFER").kind = "END_TRANSFER"
        BY PktType DEF DevKinds
      <4> QED
        BY <4>1, <4>2
    <3> QED
      BY <3>2, <3>3
  <2>2. CASE dst = "end"
    <3>1. Answer(Pkt("DONE_RSP"), "run") \/ Silent
      BY <2>2 DEF ModemTakes
    <3>2. Pkt("DONE_RSP") \in DevPkts /\ Pkt("DONE_RSP").kind = "DONE_RSP"
      BY PktType DEF DevKinds
    <3> QED
      BY <2>2, <3>1, <3>2 DEF Answer, Silent
  <2>3. CASE dst = "run"
    BY <2>3 DEF ModemTakes, Silent
  <2> QED
    BY <1>1, <2>1, <2>2, <2>3
<1>4. NoHello'
  <2>1. CASE rx' = rx
    BY <2>1 DEF Transfer, NoHello
  <2>2. ASSUME NEW q \in DevPkts, q.kind # "HELLO", rx' = Append(rx, q)
        PROVE  NoHello'
    BY <1>0, <2>2, AppendTo DEF Transfer, NoHello
  <2> QED
    BY <1>3, <2>1, <2>2
<1> QED
  BY <1>2, <1>3, <1>4 DEF Fit, Live, Transfer

LEMMA ModemFit ==
    ASSUME WholeInd, Calm, Fit, Modem \/ ModemLeaves \/ Unplug
    PROVE  Fit'
<1>1. CASE ModemTakes
  <2>1. Live
    BY <1>1 DEF Fit, Gone, ModemTakes
  <2>2. ~Booting
    BY <1>1 DEF ModemTakes, Booting
  <2> QED
    BY <1>1, <2>1, <2>2, DiagTakesFit, HelloTakesFit, AnsweredTakesFit, TransferTakesFit
       DEF WholeInd, Live
<1>2. CASE ModemBoots
  <2>1. /\ dst = "boot" /\ link' = "up" /\ rx' = Append(rx, Pkt("HELLO")) /\ dst' = "hello"
        /\ UNCHANGED <<hostVars, tx>>
    BY <1>2 DEF ModemBoots, Answer
  <2>2. Live /\ Booting
    BY <1>2 DEF Fit, Gone, Live, ModemBoots, InDiag, InHello, Answered, Transfer
  <2>3. /\ pc' = pc /\ handle' = handle /\ cmd' = cmd /\ overflow' = overflow
        /\ emergency' = emergency
    BY <2>1 DEF hostVars
  <2>4. Pkt("HELLO") \in DevPkts /\ Pkt("DLOAD_RSP") \in DevPkts
    BY PktType DEF DevKinds, DiagKinds
  <2>5. CASE pc = "dloadRsp" /\ rx = <<Pkt("DLOAD_RSP")>>
    <3>1. rx' = <<Pkt("DLOAD_RSP"), Pkt("HELLO")>>
      BY <2>1, <2>5, AppendPair
    <3> QED
      BY <2>1, <2>2, <2>3, <2>5, <3>1 DEF Fit, Live, Booting
  <2>6. CASE pc = "prgHello" /\ rx = <<>>
    <3>1. rx' = <<Pkt("HELLO")>>
      BY <2>1, <2>4, <2>6
    <3> QED
      BY <2>1, <2>2, <2>3, <2>6, <3>1 DEF Fit, Live, Booting
  <2> QED
    BY <2>1, <2>2, <2>5, <2>6 DEF Booting
<1>3. CASE ModemLeaves
  BY <1>3 DEF ModemLeaves, Calm
<1>4. CASE Unplug
  BY <1>4 DEF Unplug, Fit, Gone, Quiet, kept
<1> QED
  BY <1>1, <1>2, <1>3, <1>4 DEF Modem

LEMMA FitStep == FitInd /\ [Next]_vars => FitInd'
<1> SUFFICES ASSUME FitInd, [Next]_vars PROVE FitInd'
  OBVIOUS
<1>1. WholeInd' /\ WholeInd /\ SaharaTypeOK
  BY WholeStep DEF FitInd, WholeInd
<1>2. Calm' => Calm
  BY DEF Calm, Next, Host, Modem, Finished, vars, devVars, SendLock, ReadLock, SendProbe,
     ReadProbe, ReadHello, switchToCmdMode, GetCmdReadyRsp, CmdExecute, GetCmdExecuteRspPkt,
     CmdExecuteDataPkt, saharaReceive, saharaswitchMode, SwitchToDLoadMode, DLoadModeRsp,
     GetHelloAckCmd, SaharaHelloRsp, ServeRead, LeaveLoop, SaharaDone, ModemTakes,
     ModemBoots, ModemLeaves, Unplug
<1>3. ASSUME Calm, Fit PROVE Fit'
  <2>1. CASE Host
    <3>1. CASE Gone
      BY <1>1, <1>3, <2>1, <3>1, GoneStep
    <3>2. CASE Live
      BY <1>1, <1>3, <2>1, <3>2, SendLockFit, ReadLockFit, SendProbeFit, ReadProbeFit,
         ReadHelloFit, NoCommandMode, CmdExecuteFit, GetCmdExecuteRspPktFit,
         saharaReceiveFit, SwitchToDLoadModeFit, DLoadModeRspFit, GetHelloAckCmdFit,
         SaharaHelloRspFit, TransferFit DEF Host
    <3> QED
      BY <1>3, <3>1, <3>2 DEF Fit
  <2>2. CASE UNCHANGED vars
    BY <1>3, <2>2 DEF vars, hostVars, devVars, Fit, Gone, Live, Quiet, InDiag, Exchange,
       Booting, InHello, AllHello, AllNoise, Answered, Transfer, NoHello
  <2> QED
    BY <1>1, <1>3, <2>1, <2>2, ModemFit DEF Next, Finished
<1> QED
  BY <1>1, <1>2, <1>3 DEF FitInd

\* The structure that DownloadPrg_9X07 reads READ_DATA into is never overrun by
\* a HELLO of a modem that answers in time and stays on the bus: it has been
\* read or purged, whatever number of attempts the loops make.
THEOREM CopyFitsAlways == Spec => []CopyFits
<1>1. Init => FitInd
  BY InitWhole, InitFit DEF FitInd
<1>2. FitInd => CopyFits
  <2>1. FitInd => SaharaTypeOK
    BY DEF FitInd, WholeInd
  <2> QED
    BY <2>1 DEF FitInd, Fit, Calm, CopyFits, SaharaTypeOK
<1> QED
  BY <1>1, <1>2, FitStep, PTL DEF Spec

=============================================================================
