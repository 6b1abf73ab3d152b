------------------------------- MODULE HostDl --------------------------------
(***************************************************************************)
(* The download of the boot images over the serial port: CDLData            *)
(* (src/src/hostdl.cpp) as DiagPST::DownloadImages drives it, on top of the  *)
(* packet layer (pkt.cpp) and the serial port (serialport.cpp).             *)
(*                                                                         *)
(* The programmer that Sahara loaded into the modem takes one command at a  *)
(* time from the port and answers it.  The host sends a command, waits for  *)
(* one frame and gives up after a timeout; a write is sent again.  Every    *)
(* send first clears the receive buffer of the port, so an answer that came *)
(* too late is forgotten, unless it is later still and arrives after that.  *)
(* The programmer is external; it is modelled from what the host expects of *)
(* it.                                                                      *)
(***************************************************************************)
EXTENDS Integers, Sequences

CONSTANTS
    NImages,    \* entries of FileBufMap, in the order of the map
    Flagged,    \* entries with isDownload set, after CalculateImageLength
    Chunks,     \* Chunks[i]: packets of SEND_HOSTDL_PACKET_LEN bytes in entry i
    MaxDummy,   \* MAX_DUMMY_PACKET_NUM
    MaxHello,   \* MAX_HELLO_PACKET_NUM
    MaxResend,  \* MAX_RESEND
    MaxNoise    \* bound: commands lost, answers garbled and log lines

ASSUME FilesAssumption ==
    /\ NImages \in Nat
    /\ Flagged \subseteq 1..NImages
    /\ Chunks \in [1..NImages -> Nat]

ASSUME LimitsAssumption ==
    /\ MaxDummy \in Nat /\ MaxHello \in Nat /\ MaxResend \in Nat
    /\ MaxNoise \in Nat

VARIABLES
    pc,       \* what the host does next
    waiting,  \* it has sent the command of this step and is in GetAck
    tries,    \* the counter of the step's retry loop
    img,      \* the entry of FileBufMap the loop is at
    addr,     \* the packet of it that SendWritePacket is at
    tx,       \* commands on their way to the programmer
    rx,       \* frames in the receive buffer of the port
    link,     \* is the device on the bus
    table,    \* programmer: what it thinks of the partition table
    opened,   \* programmer: the open partition, 0 for none
    buffer,   \* programmer: which image each packet it holds for a partition is of
    flushed,  \* programmer: partitions it closed and wrote to the flash
    noise     \* disturbances so far

hostVars == <<pc, waiting, tries, img, addr>>
devVars == <<table, opened, buffer, flushed>>
vars == <<hostVars, tx, rx, link, devVars, noise>>

Images == 1..NImages
ToLoad == {i \in Flagged : Chunks[i] > 0}
Packets(i) == 0..(Chunks[i] - 1)

Steps == {"hello", "sec", "table", "open", "write", "close"}
Command == [op : Steps \cup {"reset"}, img : 0..NImages, addr : Nat]

\* A frame's img is not on the wire: it says what the programmer answered.
Kinds == {"HELLO_RSP", "SECURITY_MODE_RSP", "PARTITION_TABLE_RSP", "TABLE_DIFFERS",
          "TABLE_BAD", "OPEN_MULTI_RSP", "STREAM_WRITE_RSP", "CLOSE_RSP", "ERROR_RSP",
          "CMD_LOG", "CRC_invalid", "Close_failed", "garbled"}
Frame == [kind : Kinds, img : 0..NImages, addr : Nat]

Init ==
    /\ pc = "dummy" /\ waiting = FALSE /\ tries = 0 /\ img = 0 /\ addr = 0
    /\ tx = <<>> /\ rx = <<>> /\ link = "up"
    /\ table = "none" /\ opened = 0 /\ flushed = {}
    /\ buffer = [i \in Images |-> [a \in Packets(i) |-> 0]]
    /\ noise = 0

-----------------------------------------------------------------------------
(* The serial port and the packet layer. *)

Cmd(op) == [op |-> op, img |-> img, addr |-> addr]

\* PurgeComm drops what is in the receive buffer, and of the earlier commands those
\* that the driver still holds.
Send(op) ==
    /\ link = "up"
    /\ rx' = <<>>
    /\ \E sent \in 0..Len(tx) : tx' = Append(SubSeq(tx, 1, sent), Cmd(op))
    /\ UNCHANGED <<link, devVars, noise>>

NotSent == link = "gone" /\ UNCHANGED <<tx, rx, link, devVars, noise>>

\* GetAck takes one frame out of the receive buffer.
Receive ==
    /\ rx # <<>>
    /\ rx' = Tail(rx)
    /\ UNCHANGED <<tx, link, devVars, noise>>

\* GetAck fails: nothing came in time, a broken frame, an error.
NoAck ==
    \/ rx = <<>> /\ UNCHANGED <<tx, rx, link, devVars, noise>>
    \/ Receive /\ Head(rx).kind \in {"garbled", "ERROR_RSP", "CRC_invalid"}

Acked(kinds) == Receive /\ Head(rx).kind \in kinds

\* A frame that GetAck takes for an answer, but to something else.
Odd(kinds) ==
    Receive /\ Head(rx).kind \notin kinds \cup {"garbled", "ERROR_RSP", "CRC_invalid"}

-----------------------------------------------------------------------------
(* The host. *)

Enter(step) ==
    /\ pc' = step /\ waiting' = FALSE /\ tries' = 0
    /\ UNCHANGED <<img, addr>>

Fail == Enter("failed")

\* Mutant: the loop counter is not advanced.
RetryForever(max) ==
    /\ waiting' = FALSE
    /\ UNCHANGED <<pc, tries, img, addr>>

\* The next turn of a retry loop, or its end.
Retry(max) ==
    /\ waiting' = FALSE /\ tries' = tries + 1
    /\ pc' = IF tries + 1 < max THEN pc ELSE "failed"
    /\ UNCHANGED <<img, addr>>

Wait == waiting' = TRUE /\ UNCHANGED <<pc, tries, img, addr>>

\* The answer to the dummy packet, a HELLO, is never read.
SendDummyData ==
    /\ pc = "dummy"
    /\ \/ Send("hello") /\ Enter("hello")
       \/ NotSent /\ Retry(MaxDummy)

SendHelloPacket ==
    /\ pc = "hello"
    /\ \/ ~waiting /\ Send("hello") /\ Wait
       \/ ~waiting /\ NotSent /\ Retry(MaxHello)
       \/ waiting /\ Acked({"HELLO_RSP"}) /\ Enter("sec")
       \/ waiting /\ (NoAck \/ Odd({"HELLO_RSP"})) /\ Retry(MaxHello)

\* Its loop never comes round: the results NeedResend asks for are failures of GetAck,
\* and those return before.  The same is true of the loops of HELLO, OPEN and CLOSE.
SendSecMode ==
    /\ pc = "sec"
    /\ \/ ~waiting /\ Send("sec") /\ Wait
       \/ ~waiting /\ NotSent /\ Fail
       \/ waiting /\ Acked({"SECURITY_MODE_RSP"}) /\ Enter("table")
       \/ waiting /\ (NoAck \/ Odd({"SECURITY_MODE_RSP"})) /\ Fail

\* Of the programmer's verdicts only PARTI_TBL_DIFFERS is an error.
SendPrtnTbl ==
    /\ pc = "table"
    /\ \/ ~waiting /\ Send("table") /\ Wait
       \/ ~waiting /\ NotSent /\ Fail
       \/ waiting /\ Acked({"PARTITION_TABLE_RSP", "TABLE_BAD"}) /\ Enter("next")
       \/ waiting /\ (NoAck \/ Odd({"PARTITION_TABLE_RSP", "TABLE_BAD"})) /\ Fail

\* Mutant: the end of the map is missed by one.
NextEntry ==
    /\ pc = "next"
    /\ \/ img > NImages /\ Enter("reset")
       \/ /\ img <= NImages
          /\ img' = img + 1 /\ addr' = 0 /\ pc' = "open"
          /\ UNCHANGED <<waiting, tries>>
    /\ UNCHANGED <<tx, rx, link, devVars, noise>>

\* The loop over FileBufMap; entries that are not flagged or empty are passed over.
NextImage ==
    /\ pc = "next"
    /\ \/ /\ \A i \in ToLoad : i <= img
          /\ Enter("reset")
       \/ \E i \in ToLoad :
             /\ i > img
             /\ \A j \in ToLoad : j > img => i <= j
             /\ img' = i /\ addr' = 0 /\ pc' = "open"
             /\ UNCHANGED <<waiting, tries>>
    /\ UNCHANGED <<tx, rx, link, devVars, noise>>

\* Mutant: like CLOSE, any frame is taken for the answer.
OpenAnyAck ==
    /\ pc = "open"
    /\ \/ ~waiting /\ Send("open") /\ Wait
       \/ ~waiting /\ NotSent /\ Fail
       \/ waiting /\ Odd({}) /\ Enter("write")
       \/ waiting /\ NoAck /\ Fail

SendOpenPacketUsePrtn ==
    /\ pc = "open"
    /\ \/ ~waiting /\ Send("open") /\ Wait
       \/ ~waiting /\ NotSent /\ Fail
       \/ waiting /\ Acked({"OPEN_MULTI_RSP"}) /\ Enter("write")
       \/ waiting /\ (NoAck \/ Odd({"OPEN_MULTI_RSP"})) /\ Fail

\* Mutant: the last packet of an image is left out.
ShortImage ==
    /\ addr' = addr + 1
    /\ pc' = IF addr + 2 < Chunks[img] THEN "write" ELSE "close"
    /\ waiting' = FALSE /\ tries' = 0
    /\ UNCHANGED img

NextPacket ==
    /\ addr' = addr + 1
    /\ pc' = IF addr + 1 < Chunks[img] THEN "write" ELSE "close"
    /\ waiting' = FALSE /\ tries' = 0
    /\ UNCHANGED img

\* Mutant: the address in the answer is not compared.
AnyWriteAck ==
    /\ pc = "write"
    /\ \/ ~waiting /\ Send("write") /\ Wait
       \/ ~waiting /\ NotSent /\ Retry(MaxResend)
       \/ waiting /\ Acked({"STREAM_WRITE_RSP"}) /\ NextPacket
       \/ waiting /\ NoAck /\ Retry(MaxResend)
       \/ waiting /\ Odd({"STREAM_WRITE_RSP"}) /\ Fail

\* A packet is sent again after a timeout or an error, but any other answer than the
\* one to this packet ends the download.
SendWritePacket ==
    /\ pc = "write"
    /\ \/ ~waiting /\ Send("write") /\ Wait
       \/ ~waiting /\ NotSent /\ Retry(MaxResend)
       \/ waiting /\ Acked({"STREAM_WRITE_RSP"}) /\ Head(rx).addr = addr /\ NextPacket
       \/ waiting /\ NoAck /\ Retry(MaxResend)
       \/ /\ waiting
          /\ \/ Odd({"STREAM_WRITE_RSP"})
             \/ Acked({"STREAM_WRITE_RSP"}) /\ Head(rx).addr # addr
          /\ Fail

\* Any frame that is not an error is taken for the answer.
SendClosePacket ==
    /\ pc = "close"
    /\ \/ ~waiting /\ Send("close") /\ Wait
       \/ ~waiting /\ NotSent /\ Fail
       \/ waiting /\ Odd({}) /\ Enter("next")
       \/ waiting /\ NoAck /\ Fail

SendResetCmd ==
    /\ pc = "reset"
    /\ Send("reset") \/ NotSent
    /\ Enter("done")

Host ==
    \/ SendDummyData \/ SendHelloPacket \/ SendSecMode \/ SendPrtnTbl \/ NextImage
    \/ SendOpenPacketUsePrtn \/ SendWritePacket \/ SendClosePacket \/ SendResetCmd

-----------------------------------------------------------------------------
(* The programmer in the modem (external). *)

Serving(op) == link = "up" /\ tx # <<>> /\ Head(tx).op = op

Rsp(kind) == [kind |-> kind, img |-> Head(tx).img, addr |-> Head(tx).addr]

\* The answer to the command at the head of tx, which may be garbled on its way.
Answer(kind) ==
    /\ tx' = Tail(tx)
    /\ \/ rx' = Append(rx, Rsp(kind)) /\ UNCHANGED noise
       \/ /\ noise < MaxNoise /\ noise' = noise + 1
          /\ rx' = Append(rx, Rsp("garbled"))
    /\ UNCHANGED <<hostVars, link>>

DevHello == Serving("hello") /\ Answer("HELLO_RSP") /\ UNCHANGED devVars

DevSec == Serving("sec") /\ Answer("SECURITY_MODE_RSP") /\ UNCHANGED devVars

DevTable ==
    /\ Serving("table")
    /\ \/ Answer("PARTITION_TABLE_RSP") /\ table' = "accepted"
       \/ Answer("TABLE_DIFFERS") /\ table' = "rejected"
       \/ Answer("TABLE_BAD") /\ table' = "rejected"
    /\ UNCHANGED <<opened, buffer, flushed>>

DevOpen ==
    /\ Serving("open")
    /\ Answer("OPEN_MULTI_RSP")
    /\ opened' = Head(tx).img
    /\ UNCHANGED <<table, buffer, flushed>>

DevWrite ==
    /\ Serving("write") /\ opened # 0 /\ Head(tx).addr \in Packets(opened)
    /\ Answer("STREAM_WRITE_RSP")
    /\ buffer' = [buffer EXCEPT ![opened] = [@ EXCEPT ![Head(tx).addr] = Head(tx).img]]
    /\ UNCHANGED <<table, opened, flushed>>

DevClose ==
    /\ Serving("close")
    /\ \/ Answer("CLOSE_RSP") /\ flushed' = flushed \cup {opened}
       \/ Answer("Close_failed") /\ UNCHANGED flushed
    /\ opened' = 0
    /\ UNCHANGED <<table, buffer>>

DevReset ==
    /\ Serving("reset")
    /\ link' = "gone" /\ tx' = <<>> /\ rx' = <<>>
    /\ UNCHANGED <<hostVars, devVars, noise>>

\* It refuses a command, without a change of its state.
DevRefuse ==
    /\ \E op \in Steps : Serving(op)
    /\ Answer("ERROR_RSP") \/ Answer("CRC_invalid")
    /\ UNCHANGED devVars

\* A command does not get through.
DevLose ==
    /\ link = "up" /\ tx # <<>> /\ noise < MaxNoise
    /\ tx' = Tail(tx) /\ noise' = noise + 1
    /\ UNCHANGED <<hostVars, rx, link, devVars>>

\* A line of the programmer's log.
DevLog ==
    /\ link = "up" /\ noise < MaxNoise
    /\ rx' = Append(rx, [kind |-> "CMD_LOG", img |-> 0, addr |-> 0])
    /\ noise' = noise + 1
    /\ UNCHANGED <<hostVars, tx, link, devVars>>

Unplug ==
    /\ link = "up" /\ link' = "gone" /\ tx' = <<>> /\ rx' = <<>>
    /\ UNCHANGED <<hostVars, devVars, noise>>

Device ==
    \/ DevHello \/ DevSec \/ DevTable \/ DevOpen \/ DevWrite \/ DevClose \/ DevReset
    \/ DevRefuse \/ DevLose \/ DevLog \/ Unplug

Done == pc \in {"done", "failed"} /\ UNCHANGED vars

Next == Host \/ Device \/ Done

Spec == Init /\ [][Next]_vars

\* Nothing is asked of the programmer: every wait of the host has a timeout.
FairSpec == Spec /\ WF_vars(Host)

-----------------------------------------------------------------------------
(* Properties. *)

TypeOK ==
    /\ pc \in Steps \cup {"dummy", "next", "reset", "done", "failed"}
    /\ waiting \in BOOLEAN /\ tries \in Nat
    /\ img \in 0..NImages /\ addr \in Nat
    /\ tx \in Seq(Command) /\ rx \in Seq(Frame) /\ link \in {"up", "gone"}
    /\ table \in {"none", "accepted", "rejected"} /\ opened \in 0..NImages
    /\ DOMAIN buffer = Images
    /\ \A i \in Images : buffer[i] \in [Packets(i) -> 0..NImages]
    /\ flushed \subseteq 0..NImages /\ noise \in Nat

Held(i) == \A a \in Packets(i) : buffer[i][a] = i

\* An image the host is done with is in the programmer's buffers, packet for packet, and
\* so is the part of the current one it has got answers for: no answer that is late, for
\* an earlier packet or for an earlier image is taken for the one to the packet just
\* sent, although a packet is sent and answered more than once and the answer to the
\* dummy HELLO is never read.
AckedIsHeld ==
    /\ \A i \in ToLoad : i < img \/ pc \in {"reset", "done"} => Held(i)
    /\ pc \in {"write", "close"} => \A a \in Packets(img) : a < addr => buffer[img][a] = img

\* No packet of one image gets into the partition of another, whatever is sent twice, lost
\* or answered late around the CLOSE of one and the OPEN of the next.
OwnPartition == \A i \in Images : \A a \in Packets(i) : buffer[i][a] \in {0, i}

\* The programmer writes only whole images to the flash: when a CLOSE gets to it, every packet
\* of the open partition is there, although the host may take a log line for the answer to
\* CLOSE and go on to the next OPEN while the CLOSE is still on its way.
FlushedWhole == \A i \in flushed \ {0} : Held(i)

\* What the device holds of each image, for the abstract specification.
Content ==
    [i \in Images |->
        CASE \A a \in Packets(i) : buffer[i][a] = 0 -> [img |-> 0, bytes |-> 0]
          [] Chunks[i] > 0 /\ Held(i) -> [img |-> i, bytes |-> Chunks[i]]
          [] OTHER -> [img |-> -1, bytes |-> 0]]

Plan == INSTANCE FlashPlan WITH Need <- ToLoad, Size <- Chunks, Exact <- TRUE,
                            content <- Content

\* The images get to the device in the order of the map, each only after the ones before
\* it are complete.
FollowsPlan == Plan!PlanSpec

\* The download ends, also with a programmer that is silent, slow or unplugged.
DownloadEnds == <>(pc \in {"done", "failed"})

-----------------------------------------------------------------------------
(* The inductive invariant behind the theorems of HostDlProofs.             *)

Asking == (pc = "open" /\ waiting) \/ pc = "failed"

\* Where the loop over FileBufMap is.
LoopShape ==
    /\ img = 0 \/ img \in ToLoad
    /\ pc \in {"dummy", "hello", "sec", "table"} => img = 0
    /\ pc \in {"open", "write", "close"} => img \in ToLoad
    /\ pc = "open" => addr = 0
    /\ pc = "write" => addr < Chunks[img]
    /\ pc = "close" => addr = Chunks[img]
    /\ pc = "next" => \A i \in ToLoad : i <= img => Held(i)
    /\ pc = "write" => opened = img /\ \A k \in DOMAIN tx : tx[k].op = "write"

\* The commands on their way: writes are for the open partition, and nothing that opens or
\* closes one is ahead of them; an OPEN is the last command, and not answered yet.
CommandShape ==
    \A k \in DOMAIN tx :
        /\ tx[k].op = "write" =>
              /\ tx[k].img = opened /\ opened \in ToLoad /\ opened <= img
              /\ tx[k].addr \in Packets(opened)
              /\ \A m \in 1..(k - 1) : tx[m].op = "write"
        /\ tx[k].op = "open" =>
              /\ k = Len(tx) /\ tx[k].img = img /\ Asking
              /\ \A m \in DOMAIN rx : rx[m].kind # "OPEN_MULTI_RSP"

\* The answers not read yet: the answer to a write means that the packet is held, the one to
\* an OPEN that nothing is on its way and that no answer to a write is behind it.
AnswerShape ==
    \A k \in DOMAIN rx :
        /\ rx[k].kind = "STREAM_WRITE_RSP" =>
              /\ rx[k].img \in Images /\ rx[k].addr \in Packets(rx[k].img)
              /\ buffer[rx[k].img][rx[k].addr] = rx[k].img
              /\ pc = "write" => rx[k].img = img
        /\ rx[k].kind = "OPEN_MULTI_RSP" =>
              /\ tx = <<>> /\ opened = img /\ Asking
              /\ \A m \in (k + 1)..Len(rx) :
                    rx[m].kind \notin {"OPEN_MULTI_RSP", "STREAM_WRITE_RSP"}

\* What a CLOSE closes is complete.
CloseShape ==
    /\ pc = "close" => opened \in {0, img}
    /\ \A k \in DOMAIN tx : tx[k].op = "close" /\ opened # 0 => Held(opened)

WriteInv == TypeOK /\ AckedIsHeld /\ OwnPartition /\ LoopShape /\ CommandShape /\ AnswerShape

IndInv == WriteInv /\ FlushedWhole /\ CloseShape
==============================================================================
