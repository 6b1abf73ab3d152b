---------------------------- MODULE HostDlProofs -----------------------------
(***************************************************************************)
(* Theorems about HostDl, for every package, every retry limit and every   *)
(* number of disturbances.                                                  *)
(***************************************************************************)
EXTENDS HostDl, SequenceTheorems, TLAPS

-----------------------------------------------------------------------------
(* Sequences, by position. *)

LEMMA Behind ==
    \A n \in Nat : \A k \in 1..n : \A m \in (k + 1)..n : m \in 1..n
  OBVIOUS

LEMMA TailFacts ==
    ASSUME NEW S, NEW s \in Seq(S), s # <<>>
    PROVE  /\ Len(s) \in Nat /\ Len(s) >= 1 /\ DOMAIN s = 1..Len(s) /\ 1 \in DOMAIN s
           /\ Head(s) = s[1] /\ s[1] \in S
           /\ Tail(s) \in Seq(S) /\ Len(Tail(s)) = Len(s) - 1
           /\ DOMAIN Tail(s) = 1..(Len(s) - 1)
           /\ \A k \in DOMAIN Tail(s) : k + 1 \in DOMAIN s /\ Tail(s)[k] = s[k + 1]
<1>1. Len(s) \in Nat /\ DOMAIN s = 1..Len(s)
  BY LenProperties
<1>2. Len(s) >= 1
  BY <1>1, EmptySeq
<1>6. Head(s) = s[1]
  BY <1>2
<1>3. Head(s) = s[1] /\ s[1] \in S
  BY <1>1, <1>2, <1>6, ElementOfSeq
<1>4. Tail(s) \in Seq(S) /\ Len(Tail(s)) = Len(s) - 1
      /\ \A k \in 1..(Len(s) - 1) : Tail(s)[k] = s[k + 1]
  BY HeadTailProperties
<1>5. DOMAIN Tail(s) = 1..(Len(s) - 1)
  BY <1>4, LenProperties
<1> QED
  BY <1>1, <1>2, <1>3, <1>4, <1>5

LEMMA AppendFacts ==
    ASSUME NEW S, NEW s \in Seq(S), NEW e \in S
    PROVE  /\ Len(s) \in Nat /\ DOMAIN s = 1..Len(s)
           /\ Append(s, e) \in Seq(S) /\ Len(Append(s, e)) = Len(s) + 1
           /\ DOMAIN Append(s, e) = 1..(Len(s) + 1)
           /\ \A k \in 1..Len(s) : Append(s, e)[k] = s[k]
           /\ Append(s, e)[Len(s) + 1] = e
  BY AppendProperties, LenProperties

LEMMA SendFacts ==
    ASSUME NEW S, NEW s \in Seq(S), NEW e \in S, NEW n \in 0..Len(s),
           NEW t, t = Append(SubSeq(s, 1, n), e)
    PROVE  /\ t \in Seq(S) /\ Len(t) = n + 1 /\ DOMAIN t = 1..(n + 1)
           /\ \A k \in 1..n : k \in DOMAIN s /\ t[k] = s[k]
           /\ t[n + 1] = e
           /\ n \in Nat
<1>1. Len(s) \in Nat /\ DOMAIN s = 1..Len(s)
  BY LenProperties
<1>2. /\ SubSeq(s, 1, n) \in Seq(S)
      /\ Len(SubSeq(s, 1, n)) = n
      /\ \A k \in 1..n : SubSeq(s, 1, n)[k] = s[k]
  BY <1>1, SubSeqProperties
<1> QED
  BY <1>1, <1>2, AppendFacts

-----------------------------------------------------------------------------
(* Types. *)

LEMMA ConstantFacts ==
    /\ ToLoad \subseteq Images /\ ToLoad \subseteq Flagged /\ Images \subseteq 0..NImages
    /\ \A i \in Images : Chunks[i] \in Nat
    /\ \A i \in ToLoad : Chunks[i] \in Nat /\ Chunks[i] > 0
    /\ NImages \in Nat
<1>1. NImages \in Nat /\ Flagged \subseteq Images /\ Chunks \in [Images -> Nat]
  BY FilesAssumption DEF Images
<1>2. Images \subseteq 0..NImages
  BY <1>1 DEF Images
<1>3. ToLoad \subseteq Flagged /\ \A i \in ToLoad : Chunks[i] > 0
  BY DEF ToLoad
<1> QED
  BY <1>1, <1>2, <1>3

LEMMA SendTyped ==
    ASSUME TypeOK, NEW op \in Steps \cup {"reset"}, Send(op)
    PROVE  tx' \in Seq(Command) /\ rx' \in Seq(Frame) /\ Cmd(op) \in Command
<1>1. Cmd(op) \in Command
  BY DEF TypeOK, Cmd, Command
<1>2. tx \in Seq(Command)
  BY DEF TypeOK
<1>3. PICK n \in 0..Len(tx) : tx' = Append(SubSeq(tx, 1, n), Cmd(op))
  BY DEF Send
<1>4. tx' \in Seq(Command)
  BY <1>1, <1>2, <1>3, SendFacts
<1>5. rx' \in Seq(Frame)
  BY EmptySeq DEF Send
<1> QED
  BY <1>1, <1>4, <1>5

LEMMA ReceiveTyped ==
    ASSUME TypeOK, Receive
    PROVE  tx' \in Seq(Command) /\ rx' \in Seq(Frame)
  BY TailFacts DEF TypeOK, Receive

LEMMA NoAckTyped ==
    ASSUME TypeOK, NoAck
    PROVE  tx' \in Seq(Command) /\ rx' \in Seq(Frame)
  BY ReceiveTyped DEF TypeOK, NoAck

LEMMA AnswerTyped ==
    ASSUME TypeOK, tx # <<>>, NEW kind \in Kinds, Answer(kind)
    PROVE  /\ tx' \in Seq(Command) /\ rx' \in Seq(Frame) /\ noise' \in Nat
           /\ Head(tx) = tx[1] /\ tx[1] \in Command
           /\ Rsp(kind) \in Frame /\ Rsp("garbled") \in Frame
<1>1. tx \in Seq(Command) /\ rx \in Seq(Frame) /\ noise \in Nat
  BY DEF TypeOK
<1>2. Head(tx) = tx[1] /\ tx[1] \in Command /\ Tail(tx) \in Seq(Command)
  BY <1>1, TailFacts
<1>3. Rsp(kind) \in Frame /\ Rsp("garbled") \in Frame
  BY <1>2 DEF Rsp, Frame, Command, Kinds
<1>4. rx' \in Seq(Frame)
  <2>1. Append(rx, Rsp(kind)) \in Seq(Frame) /\ Append(rx, Rsp("garbled")) \in Seq(Frame)
    BY <1>1, <1>3, AppendProperties
  <2> QED
    BY <2>1 DEF Answer
<1>5. noise' \in Nat
  BY <1>1, LimitsAssumption DEF Answer
<1> QED
  BY <1>2, <1>3, <1>4, <1>5 DEF Answer

\* TypeOK in two halves: the host's own variables, and the rest.
HostTyped ==
    /\ pc \in Steps \cup {"dummy", "next", "reset", "done", "failed"}
    /\ waiting \in BOOLEAN /\ tries \in Nat
    /\ img \in 0..NImages /\ addr \in Nat

WorldTyped ==
    /\ tx \in Seq(Command) /\ rx \in Seq(Frame) /\ link \in {"up", "gone"}
    /\ table \in {"none", "accepted", "rejected"} /\ opened \in 0..NImages
    /\ DOMAIN buffer = Images
    /\ \A i \in Images : buffer[i] \in [Packets(i) -> 0..NImages]
    /\ flushed \subseteq 0..NImages /\ noise \in Nat

LEMMA TypeHalves == TypeOK <=> HostTyped /\ WorldTyped
  BY DEF TypeOK, HostTyped, WorldTyped

\* The world after a step of the host.
LEMMA WorldAfterHost ==
    ASSUME TypeOK,
           \/ \E op \in Steps \cup {"reset"} : Send(op)
           \/ NotSent \/ Receive \/ NoAck
           \/ UNCHANGED <<tx, rx, link, devVars, noise>>
    PROVE  WorldTyped'
<1>1. tx' \in Seq(Command) /\ rx' \in Seq(Frame)
  BY SendTyped, ReceiveTyped, NoAckTyped DEF NotSent, TypeOK
<1>2. UNCHANGED <<link, devVars, noise>>
  BY DEF Send, NotSent, Receive, NoAck
<1> QED
  BY <1>1, <1>2 DEF devVars, TypeOK, WorldTyped

\* The host's variables after the ends of a step.
LEMMA EnterTyped ==
    ASSUME HostTyped, NEW step \in Steps \cup {"next", "reset", "done", "failed"}, Enter(step)
    PROVE  HostTyped'
  BY DEF HostTyped, Enter

LEMMA RetryTyped ==
    ASSUME HostTyped, NEW max, Retry(max)
    PROVE  HostTyped'
<1>1. tries' \in Nat /\ img' \in 0..NImages /\ addr' \in Nat
  BY DEF HostTyped, Retry
<1>2. pc' \in {pc, "failed"} /\ waiting' = FALSE
  BY DEF Retry
<1> QED
  BY <1>1, <1>2 DEF HostTyped

LEMMA WaitTyped ==
    ASSUME HostTyped, Wait
    PROVE  HostTyped'
  BY DEF HostTyped, Wait

LEMMA HostTypeStep ==
    ASSUME TypeOK, Host
    PROVE  TypeOK'
<1>0. HostTyped
  BY TypeHalves
<1>1. CASE SendDummyData
  <2>1. HostTyped'
    BY <1>0, <1>1, EnterTyped, RetryTyped DEF SendDummyData, Steps
  <2>2. WorldTyped'
    BY <1>1, WorldAfterHost DEF SendDummyData, Steps
  <2> QED
    BY <2>1, <2>2 DEF TypeOK, HostTyped, WorldTyped
<1>2. CASE SendHelloPacket
  <2>1. HostTyped'
    BY <1>0, <1>2, EnterTyped, RetryTyped, WaitTyped DEF SendHelloPacket, Steps
  <2>2. WorldTyped'
    BY <1>2, WorldAfterHost DEF SendHelloPacket, Steps, Acked, Odd
  <2> QED
    BY <2>1, <2>2 DEF TypeOK, HostTyped, WorldTyped
<1>3. CASE SendSecMode
  <2>1. HostTyped'
    BY <1>0, <1>3, EnterTyped, WaitTyped DEF SendSecMode, Steps, Fail
  <2>2. WorldTyped'
    BY <1>3, WorldAfterHost DEF SendSecMode, Steps, Acked, Odd
  <2> QED
    BY <2>1, <2>2 DEF TypeOK, HostTyped, WorldTyped
<1>4. CASE SendPrtnTbl
  <2>1. HostTyped'
    BY <1>0, <1>4, EnterTyped, WaitTyped DEF SendPrtnTbl, Steps, Fail
  <2>2. WorldTyped'
    BY <1>4, WorldAfterHost DEF SendPrtnTbl, Steps, Acked, Odd
  <2> QED
    BY <2>1, <2>2 DEF TypeOK, HostTyped, WorldTyped
<1>5. CASE NextImage
  <2>1. HostTyped'
    <3>1. CASE Enter("reset")
      BY <1>0, <3>1, EnterTyped
    <3>2. CASE ~Enter("reset")
      BY <1>0, <1>5, <3>2, ConstantFacts DEF NextImage, HostTyped, Steps
    <3> QED
      BY <3>1, <3>2
  <2>2. WorldTyped'
    BY <1>5, WorldAfterHost DEF NextImage
  <2> QED
    BY <2>1, <2>2 DEF TypeOK, HostTyped, WorldTyped
<1>6. CASE SendOpenPacketUsePrtn
  <2>1. HostTyped'
    BY <1>0, <1>6, EnterTyped, WaitTyped DEF SendOpenPacketUsePrtn, Steps, Fail
  <2>2. WorldTyped'
    BY <1>6, WorldAfterHost DEF SendOpenPacketUsePrtn, Steps, Acked, Odd
  <2> QED
    BY <2>1, <2>2 DEF TypeOK, HostTyped, WorldTyped
<1>7. CASE SendWritePacket
  <2>1. HostTyped'
    <3>1. CASE NextPacket
      <4>1. addr' \in Nat /\ tries' \in Nat /\ img' \in 0..NImages
        BY <1>0, <3>1 DEF NextPacket, HostTyped
      <4>2. pc' \in {"write", "close"} /\ waiting' = FALSE
        BY <3>1 DEF NextPacket
      <4> QED
        BY <4>1, <4>2 DEF HostTyped, Steps
    <3>2. CASE ~NextPacket
      BY <1>0, <1>7, <3>2, EnterTyped, RetryTyped, WaitTyped DEF SendWritePacket, Fail
    <3> QED
      BY <3>1, <3>2
  <2>2. WorldTyped'
    BY <1>7, WorldAfterHost DEF SendWritePacket, Steps, Acked, Odd
  <2> QED
    BY <2>1, <2>2 DEF TypeOK, HostTyped, WorldTyped
<1>8. CASE SendClosePacket
  <2>1. HostTyped'
    BY <1>0, <1>8, EnterTyped, WaitTyped DEF SendClosePacket, Fail
  <2>2. WorldTyped'
    BY <1>8, WorldAfterHost DEF SendClosePacket, Steps, Odd
  <2> QED
    BY <2>1, <2>2 DEF TypeOK, HostTyped, WorldTyped
<1>9. CASE SendResetCmd
  <2>1. HostTyped'
    BY <1>0, <1>9, EnterTyped DEF SendResetCmd
  <2>2. WorldTyped'
    BY <1>9, WorldAfterHost DEF SendResetCmd
  <2> QED
    BY <2>1, <2>2 DEF TypeOK, HostTyped, WorldTyped
<1> QED
  BY <1>1, <1>2, <1>3, <1>4, <1>5, <1>6, <1>7, <1>8, <1>9 DEF Host

LEMMA DeviceTypeStep ==
    ASSUME TypeOK, Device
    PROVE  TypeOK'
<1>0. HostTyped /\ WorldTyped
  BY TypeHalves
<1>1. HostTyped'
  <2>1. UNCHANGED hostVars
    BY DEF Device, DevHello, DevSec, DevTable, DevOpen, DevWrite, DevClose, DevReset, DevRefuse,
           DevLose, DevLog, Unplug, Answer
  <2> QED
    BY <1>0, <2>1 DEF hostVars, HostTyped
<1>a. ASSUME tx # <<>>, NEW kind \in Kinds, Answer(kind)
      PROVE  /\ tx' \in Seq(Command) /\ rx' \in Seq(Frame) /\ noise' \in Nat /\ link' = link
             /\ Head(tx).img \in 0..NImages /\ Head(tx).addr \in Nat
  BY <1>a, AnswerTyped DEF Answer, Command
<1>2. CASE DevHello \/ DevSec \/ DevRefuse
  BY <1>0, <1>1, <1>2, <1>a
  DEF DevHello, DevSec, DevRefuse, Serving, Kinds, TypeOK, HostTyped, WorldTyped, devVars
<1>3. CASE DevTable
  BY <1>0, <1>1, <1>3, <1>a DEF DevTable, Serving, Kinds, TypeOK, HostTyped, WorldTyped
<1>4. CASE DevOpen
  BY <1>0, <1>1, <1>4, <1>a DEF DevOpen, Serving, Kinds, TypeOK, HostTyped, WorldTyped
<1>5. CASE DevWrite
  <2>1. opened \in Images /\ Head(tx).addr \in Packets(opened) /\ Head(tx).img \in 0..NImages
    BY <1>0, <1>5, <1>a DEF DevWrite, Serving, Kinds, WorldTyped, Images
  <2>2. DOMAIN buffer' = Images /\ \A i \in Images : buffer'[i] \in [Packets(i) -> 0..NImages]
    BY <1>0, <1>5, <2>1 DEF DevWrite, WorldTyped
  <2> QED
    BY <1>0, <1>1, <1>5, <1>a, <2>2 DEF DevWrite, Serving, Kinds, TypeOK, HostTyped, WorldTyped
<1>6. CASE DevClose
  <2>1. opened' \in 0..NImages /\ flushed' \subseteq 0..NImages
    <3>1. opened' = 0 /\ flushed' \subseteq flushed \cup {opened}
      BY <1>6 DEF DevClose
    <3>2. 0 \in 0..NImages
      BY ConstantFacts
    <3>3. opened \in 0..NImages /\ flushed \subseteq 0..NImages
      BY <1>0 DEF WorldTyped
    <3> QED
      BY <3>1, <3>2, <3>3
  <2> QED
    BY <1>0, <1>1, <1>6, <1>a, <2>1 DEF DevClose, Serving, Kinds, TypeOK, HostTyped, WorldTyped
<1>7. CASE DevReset \/ Unplug
  BY <1>0, <1>1, <1>7, EmptySeq DEF DevReset, Unplug, devVars, TypeOK, HostTyped, WorldTyped
<1>8. CASE DevLose
  BY <1>0, <1>1, <1>8, TailFacts DEF DevLose, devVars, TypeOK, HostTyped, WorldTyped
<1>9. CASE DevLog
  <2>1. [kind |-> "CMD_LOG", img |-> 0, addr |-> 0] \in Frame
    BY ConstantFacts DEF Frame, Kinds
  <2>2. rx' \in Seq(Frame)
    BY <1>0, <1>9, <2>1, AppendProperties DEF DevLog, WorldTyped
  <2> QED
    BY <1>0, <1>1, <1>9, <2>2 DEF DevLog, devVars, TypeOK, HostTyped, WorldTyped
<1> QED
  BY <1>2, <1>3, <1>4, <1>5, <1>6, <1>7, <1>8, <1>9 DEF Device

LEMMA TypeStep ==
    ASSUME TypeOK, [Next]_vars
    PROVE  TypeOK'
<1>1. CASE UNCHANGED vars
  BY <1>1 DEF vars, hostVars, devVars, TypeOK
<1> QED
  BY <1>1, HostTypeStep, DeviceTypeStep DEF Next, Done

-----------------------------------------------------------------------------
(* Steps of the host. *)

LEMMA InitWrite == Init => WriteInv
<1> SUFFICES ASSUME Init PROVE WriteInv
  OBVIOUS
<1>1. tx = <<>> /\ rx = <<>> /\ DOMAIN tx = {} /\ DOMAIN rx = {}
  BY DEF Init
<1>2. TypeOK
  <2>1. tx \in Seq(Command) /\ rx \in Seq(Frame)
    BY <1>1, EmptySeq
  <2>2. 0 \in 0..NImages /\ 0 \in Nat
    BY ConstantFacts
  <2>3. DOMAIN buffer = Images /\ \A i \in Images : buffer[i] \in [Packets(i) -> 0..NImages]
    BY <2>2 DEF Init
  <2>4. img \in 0..NImages /\ addr \in Nat /\ tries \in Nat /\ opened \in 0..NImages
        /\ noise \in Nat
    BY <2>2 DEF Init
  <2> QED
    BY <2>1, <2>3, <2>4 DEF Init, TypeOK, Steps
<1>3. \A i \in ToLoad : i > 0 /\ ~(i < 0)
  BY ConstantFacts DEF Images
<1>4. AckedIsHeld
  BY <1>3 DEF Init, AckedIsHeld
<1>5. OwnPartition
  BY DEF Init, OwnPartition
<1>6. LoopShape
  BY DEF Init, LoopShape
<1>7. CommandShape /\ AnswerShape
  BY <1>1 DEF CommandShape, AnswerShape
<1> QED
  BY <1>2, <1>4, <1>5, <1>6, <1>7 DEF WriteInv

\* The host reads a frame, or none, and stays on its side of an OPEN.
LEMMA ReadShape ==
    ASSUME WriteInv, UNCHANGED <<img, tx, devVars>>,
           rx' = rx \/ (rx # <<>> /\ rx' = Tail(rx)),
           pc' = "write" => pc = "write",
           Asking => Asking'
    PROVE  CommandShape' /\ AnswerShape'
<1>0. UNCHANGED <<opened, buffer>>
  BY DEF devVars
<1>1. CASE rx' = rx
  BY <1>0, <1>1 DEF WriteInv, CommandShape, AnswerShape
<1>2. CASE rx # <<>> /\ rx' = Tail(rx)
  <2>1. /\ Len(rx) \in Nat /\ Len(rx') = Len(rx) - 1 /\ DOMAIN rx = 1..Len(rx)
        /\ DOMAIN rx' = 1..(Len(rx) - 1)
        /\ \A k \in DOMAIN rx' : k \in Int /\ k + 1 \in DOMAIN rx /\ rx'[k] = rx[k + 1]
    BY <1>2, TailFacts DEF WriteInv, TypeOK
  <2>2. CommandShape'
    BY <1>0, <2>1 DEF WriteInv, CommandShape
  <2>3. ASSUME NEW k \in DOMAIN rx'
        PROVE  /\ (rx[k + 1].kind = "STREAM_WRITE_RSP" =>
                    /\ rx[k + 1].img \in Images /\ rx[k + 1].addr \in Packets(rx[k + 1].img)
                    /\ buffer[rx[k + 1].img][rx[k + 1].addr] = rx[k + 1].img
                    /\ pc = "write" => rx[k + 1].img = img)
               /\ (rx[k + 1].kind = "OPEN_MULTI_RSP" =>
                    /\ tx = <<>> /\ opened = img /\ Asking
                    /\ \A m \in (k + 2)..Len(rx) :
                          rx[m].kind \notin {"OPEN_MULTI_RSP", "STREAM_WRITE_RSP"})
    <3>1. k \in Int /\ k + 1 \in DOMAIN rx /\ (k + 1) + 1 = k + 2
      BY <2>1
    <3> QED
      BY <3>1 DEF WriteInv, AnswerShape
  <2>4. ASSUME NEW k \in DOMAIN rx', NEW m \in (k + 1)..Len(rx')
        PROVE  m + 1 \in (k + 2)..Len(rx) /\ rx'[m] = rx[m + 1]
    BY <2>1
  <2>5. AnswerShape'
    BY <1>0, <2>1, <2>3, <2>4 DEF AnswerShape
  <2> QED
    BY <2>2, <2>5
<1> QED
  BY <1>1, <1>2

\* The host sends a command.
LEMMA SendShape ==
    ASSUME WriteInv, NEW op \in Steps \cup {"reset"}, Send(op), ~Asking, UNCHANGED img,
           op = "write" => pc = "write",
           op = "open" => Asking'
    PROVE  /\ CommandShape' /\ AnswerShape'
           /\ op = "write" => \A k \in DOMAIN tx' : tx'[k].op = "write"
<1>1. rx' = <<>> /\ DOMAIN rx' = {} /\ UNCHANGED <<opened, buffer>>
  BY DEF Send, devVars
<1>2. AnswerShape'
  BY <1>1 DEF AnswerShape
<1>3. tx \in Seq(Command) /\ Cmd(op) \in Command
  BY SendTyped DEF WriteInv, TypeOK
<1>4. PICK n \in 0..Len(tx) : tx' = Append(SubSeq(tx, 1, n), Cmd(op))
  BY DEF Send
<1>5. /\ n \in Nat /\ Len(tx') = n + 1 /\ DOMAIN tx' = 1..(n + 1)
      /\ \A k \in 1..n : k \in DOMAIN tx /\ tx'[k] = tx[k]
      /\ tx'[n + 1] = Cmd(op)
  BY <1>3, <1>4, SendFacts
<1>6. Cmd(op).op = op /\ Cmd(op).img = img /\ Cmd(op).addr = addr
  BY DEF Cmd
<1>7. pc = "write" => /\ opened = img /\ img \in ToLoad /\ addr \in Packets(img)
                      /\ \A k \in DOMAIN tx : tx[k].op = "write"
  <2>1. pc = "write" => /\ opened = img /\ img \in ToLoad /\ addr < Chunks[img]
                        /\ \A k \in DOMAIN tx : tx[k].op = "write"
    BY DEF WriteInv, LoopShape
  <2>2. img \in ToLoad /\ addr < Chunks[img] => addr \in Packets(img)
    BY ConstantFacts DEF WriteInv, TypeOK, Packets
  <2> QED
    BY <2>1, <2>2
<1>8. img \in Int
  BY DEF WriteInv, TypeOK
<1>9. ASSUME NEW k \in DOMAIN tx', tx'[k].op = "write"
      PROVE  /\ tx'[k].img = opened /\ opened \in ToLoad /\ opened <= img
             /\ tx'[k].addr \in Packets(opened)
             /\ \A m \in 1..(k - 1) : tx'[m].op = "write"
  <2>1. CASE k \in 1..n
    <3>1. k \in DOMAIN tx /\ tx'[k] = tx[k] /\ \A m \in 1..(k - 1) : tx'[m] = tx[m]
      BY <1>5, <2>1
    <3> QED
      BY <1>9, <3>1 DEF WriteInv, CommandShape
  <2>2. CASE k = n + 1
    <3>1. op = "write" /\ tx'[k] = Cmd(op)
      BY <1>5, <1>6, <1>9, <2>2
    <3>2. \A m \in 1..(k - 1) : tx'[m].op = "write"
      BY <1>5, <1>7, <2>2, <3>1
    <3> QED
      BY <1>6, <1>7, <1>8, <3>1, <3>2
  <2> QED
    BY <1>5, <2>1, <2>2
<1>10. ASSUME NEW k \in DOMAIN tx', tx'[k].op = "open"
       PROVE  k = Len(tx') /\ tx'[k].img = img /\ Asking'
  <2>1. CASE k \in 1..n
    BY <1>5, <1>10, <2>1 DEF WriteInv, CommandShape
  <2>2. CASE k = n + 1
    BY <1>5, <1>6, <1>10, <2>2
  <2> QED
    BY <1>5, <2>1, <2>2
<1>11. CommandShape'
  BY <1>1, <1>9, <1>10 DEF CommandShape
<1>12. op = "write" => \A k \in DOMAIN tx' : tx'[k].op = "write"
  BY <1>5, <1>6, <1>7
<1> QED
  BY <1>2, <1>11, <1>12

\* The host stays where it is in the loop over the images, or gives up.
LEMMA LoopKept ==
    ASSUME WriteInv, UNCHANGED <<img, addr, devVars>>,
           \/ pc' \in {pc, "failed"}
           \/ pc = "reset" /\ pc' = "done"
           \/ /\ pc \in {"dummy", "hello", "sec", "table"}
              /\ pc' \in {"dummy", "hello", "sec", "table"},
           pc' = "write" => \A k \in DOMAIN tx' : tx'[k].op = "write"
    PROVE  AckedIsHeld' /\ OwnPartition' /\ LoopShape'
<1>1. UNCHANGED <<opened, buffer>> /\ \A i : Held(i)' <=> Held(i)
  BY DEF devVars, Held
<1>2. OwnPartition'
  BY <1>1 DEF WriteInv, OwnPartition
<1>3. AckedIsHeld'
  BY <1>1 DEF WriteInv, AckedIsHeld
<1>4. LoopShape'
  BY <1>1 DEF WriteInv, LoopShape
<1> QED
  BY <1>2, <1>3, <1>4

\* A step of the host before, after or beside the loop.
LEMMA OutsideStep ==
    ASSUME WriteInv, TypeOK', UNCHANGED <<img, addr, devVars>>, ~Asking,
           \/ \E op \in {"hello", "sec", "table", "close", "reset"} : Send(op)
           \/ UNCHANGED tx /\ (rx' = rx \/ (rx # <<>> /\ rx' = Tail(rx))),
           pc # "write",
           \/ pc' \in {pc, "failed"}
           \/ pc = "reset" /\ pc' = "done"
           \/ /\ pc \in {"dummy", "hello", "sec", "table"}
              /\ pc' \in {"dummy", "hello", "sec", "table"}
    PROVE  WriteInv'
<1>1. AckedIsHeld' /\ OwnPartition' /\ LoopShape'
  BY LoopKept
<1>2. CASE \E op \in {"hello", "sec", "table", "close", "reset"} : Send(op)
  BY <1>1, <1>2, SendShape DEF WriteInv, Steps
<1>3. CASE UNCHANGED tx /\ (rx' = rx \/ (rx # <<>> /\ rx' = Tail(rx)))
  BY <1>1, <1>3, ReadShape DEF WriteInv
<1> QED
  BY <1>2, <1>3

\* The host gives up.
LEMMA FailStep ==
    ASSUME WriteInv, TypeOK', UNCHANGED <<img, addr, devVars, tx>>, pc' = "failed",
           rx' = rx \/ (rx # <<>> /\ rx' = Tail(rx))
    PROVE  WriteInv'
<1>1. AckedIsHeld' /\ OwnPartition' /\ LoopShape'
  BY LoopKept
<1>2. CommandShape' /\ AnswerShape'
  BY ReadShape DEF Asking
<1> QED
  BY <1>1, <1>2 DEF WriteInv

\* What the pieces of the host's steps do to the wire.
LEMMA WireFacts ==
    /\ NotSent => UNCHANGED <<tx, devVars>> /\ rx' = rx
    /\ NoAck => UNCHANGED <<tx, devVars>> /\ (rx' = rx \/ (rx # <<>> /\ rx' = Tail(rx)))
    /\ \A kinds : Acked(kinds) => UNCHANGED <<tx, devVars>> /\ rx # <<>> /\ rx' = Tail(rx)
    /\ \A kinds : Odd(kinds) => UNCHANGED <<tx, devVars>> /\ rx # <<>> /\ rx' = Tail(rx)
    /\ \A op : Send(op) => UNCHANGED devVars
  BY DEF NotSent, NoAck, Acked, Odd, Receive, Send

LEMMA DummyStep ==
    ASSUME WriteInv, TypeOK', SendDummyData
    PROVE  WriteInv'
<1>1. pc = "dummy" /\ ~Asking
  BY DEF SendDummyData, Asking
<1>2. UNCHANGED <<img, addr>> /\ pc' \in {"dummy", "hello", "failed"}
  BY <1>1 DEF SendDummyData, Enter, Retry
<1>3. Send("hello") \/ NotSent
  BY DEF SendDummyData
<1> QED
  BY <1>1, <1>2, <1>3, OutsideStep, WireFacts

LEMMA HelloStep ==
    ASSUME WriteInv, TypeOK', SendHelloPacket
    PROVE  WriteInv'
<1>1. pc = "hello" /\ ~Asking
  BY DEF SendHelloPacket, Asking
<1>2. UNCHANGED <<img, addr>> /\ pc' \in {"hello", "sec", "failed"}
  BY <1>1 DEF SendHelloPacket, Enter, Retry, Wait
<1>3. Send("hello") \/ NotSent \/ NoAck \/ Acked({"HELLO_RSP"}) \/ Odd({"HELLO_RSP"})
  BY DEF SendHelloPacket
<1> QED
  BY <1>1, <1>2, <1>3, OutsideStep, WireFacts

LEMMA SecStep ==
    ASSUME WriteInv, TypeOK', SendSecMode
    PROVE  WriteInv'
<1>1. pc = "sec" /\ ~Asking
  BY DEF SendSecMode, Asking
<1>2. UNCHANGED <<img, addr>> /\ pc' \in {"sec", "table", "failed"}
  BY <1>1 DEF SendSecMode, Enter, Wait, Fail
<1>3. \/ Send("sec") \/ NotSent \/ NoAck
      \/ Acked({"SECURITY_MODE_RSP"}) \/ Odd({"SECURITY_MODE_RSP"})
  BY DEF SendSecMode
<1> QED
  BY <1>1, <1>2, <1>3, OutsideStep, WireFacts

LEMMA TableStep ==
    ASSUME WriteInv, TypeOK', SendPrtnTbl
    PROVE  WriteInv'
<1>1. pc = "table" /\ ~Asking /\ img = 0
  BY DEF SendPrtnTbl, Asking, WriteInv, LoopShape
<1>2. UNCHANGED <<img, addr>>
  BY DEF SendPrtnTbl, Enter, Wait, Fail
<1>3. CASE pc' = "next"
  <2>1. Acked({"PARTITION_TABLE_RSP", "TABLE_BAD"})
    BY <1>1, <1>3 DEF SendPrtnTbl, Enter, Wait, Fail
  <2>2. CommandShape' /\ AnswerShape'
    BY <1>1, <1>2, <1>3, <2>1, ReadShape, WireFacts
  <2>3. UNCHANGED buffer
    BY <2>1, WireFacts DEF devVars
  <2>4. \A i \in ToLoad : ~(i < 0) /\ ~(i <= 0)
    BY ConstantFacts DEF Images
  <2>5. AckedIsHeld' /\ OwnPartition' /\ LoopShape'
    BY <1>1, <1>2, <1>3, <2>3, <2>4 DEF WriteInv, AckedIsHeld, OwnPartition, LoopShape
  <2> QED
    BY <2>2, <2>5 DEF WriteInv
<1>4. CASE pc' # "next"
  <2>1. pc' \in {"table", "failed"}
    BY <1>1, <1>4 DEF SendPrtnTbl, Enter, Wait, Fail
  <2>2. \/ Send("table") \/ NotSent \/ NoAck
        \/ Acked({"PARTITION_TABLE_RSP", "TABLE_BAD"})
        \/ Odd({"PARTITION_TABLE_RSP", "TABLE_BAD"})
    BY DEF SendPrtnTbl
  <2> QED
    BY <1>1, <1>2, <2>1, <2>2, OutsideStep, WireFacts
<1> QED
  BY <1>3, <1>4

LEMMA NextStep ==
    ASSUME WriteInv, TypeOK', NextImage
    PROVE  WriteInv'
<1>1. pc = "next" /\ ~Asking
  BY DEF NextImage, Asking
<1>2. UNCHANGED <<tx, rx, opened, buffer>> /\ \A i : Held(i)' <=> Held(i)
  BY DEF NextImage, devVars, Held
<1>3. OwnPartition'
  BY <1>2 DEF WriteInv, OwnPartition
<1>4. \A i \in ToLoad : i <= img => Held(i)
  BY <1>1 DEF WriteInv, LoopShape
<1>5. img \in Int /\ img' \in Int /\ ToLoad \subseteq Int
  BY ConstantFacts DEF WriteInv, TypeOK
<1>6. CASE Enter("reset") /\ \A i \in ToLoad : i <= img
  <2>1. pc' = "reset" /\ UNCHANGED <<img, addr>>
    BY <1>6 DEF Enter
  <2>2. AckedIsHeld' /\ LoopShape'
    BY <1>2, <1>4, <1>6, <2>1 DEF WriteInv, AckedIsHeld, LoopShape
  <2>3. CommandShape' /\ AnswerShape'
    BY <1>1, <1>2, <2>1 DEF WriteInv, CommandShape, AnswerShape
  <2> QED
    BY <1>3, <2>2, <2>3 DEF WriteInv
<1>7. CASE \E i \in ToLoad :
              /\ i > img
              /\ \A j \in ToLoad : j > img => i <= j
              /\ img' = i /\ addr' = 0 /\ pc' = "open"
              /\ UNCHANGED <<waiting, tries>>
  <2>1. /\ img' \in ToLoad /\ img' > img /\ addr' = 0 /\ pc' = "open"
        /\ \A j \in ToLoad : j > img => img' <= j
    BY <1>7
  <2>2. \A j \in ToLoad : j < img' => j <= img
    BY <1>5, <2>1
  <2>3. AckedIsHeld'
    BY <1>2, <1>4, <2>1, <2>2 DEF AckedIsHeld
  <2>4. Chunks[img'] > 0
    BY <2>1, ConstantFacts
  <2>5. LoopShape'
    BY <2>1, <2>4 DEF LoopShape
  <2>6. \A k \in DOMAIN tx :
           /\ tx[k].op # "open"
           /\ tx[k].op = "write" => opened <= img /\ opened \in ToLoad
    BY <1>1 DEF WriteInv, CommandShape
  <2>7. \A k \in DOMAIN tx : tx[k].op = "write" => opened <= img'
    <3>1. opened \in Int
      BY DEF WriteInv, TypeOK
    <3> QED
      BY <1>5, <2>1, <2>6, <3>1
  <2>8. CommandShape'
    BY <1>2, <2>6, <2>7 DEF WriteInv, CommandShape
  <2>9. AnswerShape'
    BY <1>1, <1>2, <2>1 DEF WriteInv, AnswerShape
  <2> QED
    BY <1>3, <2>3, <2>5, <2>8, <2>9 DEF WriteInv
<1> QED
  BY <1>6, <1>7 DEF NextImage

LEMMA OpenStep ==
    ASSUME WriteInv, TypeOK', SendOpenPacketUsePrtn
    PROVE  WriteInv'
<1>1. pc = "open" /\ UNCHANGED <<img, addr>>
  BY DEF SendOpenPacketUsePrtn, Enter, Wait, Fail
<1>2. CASE ~waiting /\ Send("open") /\ Wait
  <2>1. ~Asking /\ Asking' /\ pc' = pc
    BY <1>1, <1>2 DEF Asking, Wait
  <2>2. CommandShape' /\ AnswerShape'
    BY <1>1, <1>2, <2>1, SendShape DEF Steps
  <2>3. AckedIsHeld' /\ OwnPartition' /\ LoopShape'
    BY <1>1, <1>2, <2>1, LoopKept, WireFacts
  <2> QED
    BY <2>2, <2>3 DEF WriteInv
<1>3. CASE Acked({"OPEN_MULTI_RSP"}) /\ Enter("write")
  <2>1. rx # <<>> /\ rx' = Tail(rx) /\ Head(rx).kind = "OPEN_MULTI_RSP"
        /\ UNCHANGED <<tx, devVars>> /\ pc' = "write"
    BY <1>3 DEF Acked, Receive, Enter
  <2>2. /\ Len(rx) \in Nat /\ Len(rx) >= 1 /\ 1 \in DOMAIN rx /\ Head(rx) = rx[1]
        /\ DOMAIN rx' = 1..(Len(rx) - 1)
        /\ \A k \in DOMAIN rx' : k + 1 \in 2..Len(rx) /\ rx'[k] = rx[k + 1]
    <3>1. rx \in Seq(Frame)
      BY DEF WriteInv, TypeOK
    <3> QED
      BY <2>1, <3>1, TailFacts
  <2>3. /\ tx = <<>> /\ opened = img
        /\ \A m \in 2..Len(rx) : rx[m].kind \notin {"OPEN_MULTI_RSP", "STREAM_WRITE_RSP"}
    BY <2>1, <2>2 DEF WriteInv, AnswerShape
  <2>4. DOMAIN tx' = {} /\ UNCHANGED <<opened, buffer>> /\ \A i : Held(i)' <=> Held(i)
    BY <2>1, <2>3 DEF devVars, Held
  <2>5. CommandShape'
    BY <2>4 DEF CommandShape
  <2>6. AnswerShape'
    BY <2>2, <2>3 DEF AnswerShape
  <2>7. LoopShape'
    <3>1. img \in ToLoad /\ addr < Chunks[img]
      BY <1>1, ConstantFacts DEF WriteInv, LoopShape
    <3> QED
      BY <1>1, <2>1, <2>3, <2>4, <3>1 DEF WriteInv, LoopShape
  <2>8. OwnPartition'
    BY <2>4 DEF WriteInv, OwnPartition
  <2>9. AckedIsHeld'
    <3>1. addr = 0 /\ img \in Images
      BY <1>1, ConstantFacts DEF WriteInv, LoopShape
    <3>2. \A a \in Packets(img) : ~(a < 0)
      BY <3>1, ConstantFacts DEF Packets
    <3> QED
      BY <1>1, <2>1, <2>4, <3>1, <3>2 DEF WriteInv, AckedIsHeld
  <2> QED
    BY <2>5, <2>6, <2>7, <2>8, <2>9 DEF WriteInv
<1>4. CASE Fail /\ (NotSent \/ NoAck \/ Odd({"OPEN_MULTI_RSP"}))
  BY <1>1, <1>4, FailStep, WireFacts DEF Fail, Enter
<1> QED
  BY <1>2, <1>3, <1>4 DEF SendOpenPacketUsePrtn

\* The answer the host takes for the one to its packet means that the device holds it.
LEMMA WriteAcked ==
    ASSUME WriteInv, pc = "write", Acked({"STREAM_WRITE_RSP"}), Head(rx).addr = addr
    PROVE  buffer[img][addr] = img /\ addr \in Packets(img)
<1>1. rx \in Seq(Frame) /\ rx # <<>> /\ Head(rx).kind = "STREAM_WRITE_RSP"
  BY DEF WriteInv, TypeOK, Acked, Receive
<1>2. 1 \in DOMAIN rx /\ Head(rx) = rx[1]
  BY <1>1, TailFacts
<1> QED
  BY <1>1, <1>2 DEF WriteInv, AnswerShape

LEMMA WriteStep ==
    ASSUME WriteInv, TypeOK', SendWritePacket
    PROVE  WriteInv'
<1>1. pc = "write" /\ ~Asking /\ img \in ToLoad /\ addr < Chunks[img] /\ opened = img
      /\ \A k \in DOMAIN tx : tx[k].op = "write"
  BY DEF SendWritePacket, Asking, WriteInv, LoopShape
<1>2. CASE Send("write") /\ Wait
  <2>1. pc' = pc /\ UNCHANGED <<img, addr>>
    BY <1>2 DEF Wait
  <2>2. CommandShape' /\ AnswerShape' /\ \A k \in DOMAIN tx' : tx'[k].op = "write"
    BY <1>1, <1>2, <2>1, SendShape DEF Steps
  <2>3. AckedIsHeld' /\ OwnPartition' /\ LoopShape'
    BY <1>2, <2>1, <2>2, LoopKept, WireFacts
  <2> QED
    BY <2>2, <2>3 DEF WriteInv
<1>3. CASE Retry(MaxResend) /\ (NotSent \/ NoAck)
  <2>1. pc' \in {pc, "failed"} /\ UNCHANGED <<img, addr>>
    BY <1>3 DEF Retry
  <2>2. CommandShape' /\ AnswerShape'
    BY <1>1, <1>3, <2>1, ReadShape, WireFacts
  <2>3. AckedIsHeld' /\ OwnPartition' /\ LoopShape'
    BY <1>1, <1>3, <2>1, LoopKept, WireFacts
  <2> QED
    BY <2>2, <2>3 DEF WriteInv
<1>4. CASE Acked({"STREAM_WRITE_RSP"}) /\ Head(rx).addr = addr /\ NextPacket
  <2>1. UNCHANGED <<tx, opened, buffer>> /\ \A i : Held(i)' <=> Held(i)
    BY <1>4, WireFacts DEF devVars, Held
  <2>2. buffer[img][addr] = img
    BY <1>1, <1>4, WriteAcked
  <2>3. addr \in Nat /\ Chunks[img] \in Nat /\ img \in Images
    BY <1>1, ConstantFacts DEF WriteInv, TypeOK
  <2>4. UNCHANGED img /\ addr' = addr + 1 /\ pc' \in {"write", "close"}
    BY <1>4 DEF NextPacket
  <2>5. /\ pc' = "write" => addr' < Chunks[img]
        /\ pc' = "close" => addr' = Chunks[img]
    <3>1. CASE addr + 1 < Chunks[img]
      BY <1>4, <3>1 DEF NextPacket
    <3>2. CASE ~(addr + 1 < Chunks[img])
      <4>1. addr + 1 = Chunks[img]
        BY <1>1, <2>3, <3>2
      <4> QED
        BY <1>4, <3>2, <4>1 DEF NextPacket
    <3> QED
      BY <3>1, <3>2
  <2>6. CommandShape' /\ AnswerShape'
    BY <1>1, <1>4, <2>1, <2>4, ReadShape, WireFacts
  <2>7. OwnPartition'
    BY <2>1 DEF WriteInv, OwnPartition
  <2>8. \A a \in Packets(img) : a < addr + 1 => buffer[img][a] = img
    <3>1. \A a \in Packets(img) : a < addr + 1 => a < addr \/ a = addr
      BY <2>3 DEF Packets
    <3> QED
      BY <1>1, <2>2, <3>1 DEF WriteInv, AckedIsHeld
  <2>9. AckedIsHeld'
    BY <1>1, <2>1, <2>4, <2>8 DEF WriteInv, AckedIsHeld
  <2>10. LoopShape'
    BY <1>1, <2>1, <2>4, <2>5 DEF WriteInv, LoopShape
  <2> QED
    BY <2>6, <2>7, <2>9, <2>10 DEF WriteInv
<1>5. CASE Fail /\ (Odd({"STREAM_WRITE_RSP"}) \/ Acked({"STREAM_WRITE_RSP"}))
  BY <1>5, FailStep, WireFacts DEF Fail, Enter
<1> QED
  BY <1>2, <1>3, <1>4, <1>5 DEF SendWritePacket

LEMMA CloseStep ==
    ASSUME WriteInv, TypeOK', SendClosePacket
    PROVE  WriteInv'
<1>1. pc = "close" /\ ~Asking /\ UNCHANGED <<img, addr>>
  BY DEF SendClosePacket, Asking, Enter, Wait, Fail
<1>2. CASE Send("close") /\ Wait
  BY <1>1, <1>2, OutsideStep, WireFacts DEF Wait
<1>3. CASE Odd({}) /\ Enter("next")
  <2>1. pc' = "next" /\ UNCHANGED <<opened, buffer>> /\ \A i : Held(i)' <=> Held(i)
    BY <1>3, WireFacts DEF Enter, devVars, Held
  <2>2. img \in ToLoad /\ img \in Images /\ addr = Chunks[img]
    BY <1>1, ConstantFacts DEF WriteInv, LoopShape
  <2>3. Held(img)
    <3>1. \A a \in Packets(img) : a < addr
      BY <2>2, ConstantFacts DEF Packets
    <3> QED
      BY <1>1, <3>1 DEF WriteInv, AckedIsHeld, Held
  <2>4. \A i \in ToLoad : i <= img => i < img \/ i = img
    BY <2>2, ConstantFacts DEF Images
  <2>5. \A i \in ToLoad : i <= img => Held(i)
    BY <2>3, <2>4 DEF WriteInv, AckedIsHeld
  <2>6. AckedIsHeld' /\ OwnPartition' /\ LoopShape'
    BY <1>1, <2>1, <2>2, <2>5 DEF WriteInv, AckedIsHeld, OwnPartition, LoopShape
  <2>7. CommandShape' /\ AnswerShape'
    BY <1>1, <1>3, <2>1, ReadShape, WireFacts
  <2> QED
    BY <2>6, <2>7 DEF WriteInv
<1>4. CASE Fail /\ (NotSent \/ NoAck)
  BY <1>1, <1>4, FailStep, WireFacts DEF Fail, Enter
<1> QED
  BY <1>2, <1>3, <1>4 DEF SendClosePacket

LEMMA ResetStep ==
    ASSUME WriteInv, TypeOK', SendResetCmd
    PROVE  WriteInv'
<1>1. pc = "reset" /\ ~Asking
  BY DEF SendResetCmd, Asking
<1>2. UNCHANGED <<img, addr>> /\ pc' = "done"
  BY DEF SendResetCmd, Enter
<1>3. Send("reset") \/ NotSent
  BY DEF SendResetCmd
<1> QED
  BY <1>1, <1>2, <1>3, OutsideStep, WireFacts

-----------------------------------------------------------------------------
(* Steps of the programmer. *)

\* A step that opens, closes and writes nothing: a command is gone, a frame is there.
LEMMA QuietStep ==
    ASSUME WriteInv, TypeOK', UNCHANGED <<hostVars, opened, buffer>>,
           tx' = tx \/ (tx # <<>> /\ tx' = Tail(tx)),
           \/ rx' = rx
           \/ \E f \in Frame : /\ f.kind \notin {"OPEN_MULTI_RSP", "STREAM_WRITE_RSP"}
                               /\ rx' = Append(rx, f)
    PROVE  WriteInv'
<1>0. UNCHANGED <<pc, waiting, img, addr, opened, buffer>> /\ (Asking' <=> Asking)
  BY DEF hostVars, Asking
<1>1. tx \in Seq(Command) /\ rx \in Seq(Frame) /\ Len(rx) \in Nat /\ DOMAIN rx = 1..Len(rx)
  BY LenProperties DEF WriteInv, TypeOK
<1>2. PICK d \in {0, 1} :
         /\ d = 1 => tx # <<>>
         /\ Len(tx) \in Nat /\ Len(tx') = Len(tx) - d /\ DOMAIN tx = 1..Len(tx)
         /\ DOMAIN tx' = 1..(Len(tx) - d)
         /\ \A k \in DOMAIN tx' : k + d \in DOMAIN tx /\ tx'[k] = tx[k + d]
         /\ tx = <<>> => tx' = <<>>
  <2>1. CASE tx' = tx
    <3>1. Len(tx) \in Nat /\ DOMAIN tx = 1..Len(tx)
      BY <1>1, LenProperties
    <3>2. /\ Len(tx') = Len(tx) - 0 /\ DOMAIN tx' = 1..(Len(tx) - 0)
          /\ \A k \in DOMAIN tx' : k + 0 \in DOMAIN tx /\ tx'[k] = tx[k + 0]
      BY <2>1, <3>1
    <3> WITNESS 0 \in {0, 1}
    <3> QED
      BY <2>1, <3>1, <3>2
  <2>2. CASE tx # <<>> /\ tx' = Tail(tx)
    <3> WITNESS 1 \in {0, 1}
    <3> QED
      BY <1>1, <2>2, TailFacts
  <2> QED
    BY <2>1, <2>2
<1>3. /\ \A k \in DOMAIN rx' : \/ k \in DOMAIN rx /\ rx'[k] = rx[k]
                               \/ rx'[k].kind \notin {"OPEN_MULTI_RSP", "STREAM_WRITE_RSP"}
      /\ Len(rx') \in Nat /\ DOMAIN rx' = 1..Len(rx')
  <2>1. CASE rx' = rx
    BY <1>1, <2>1
  <2>2. CASE \E f \in Frame : /\ f.kind \notin {"OPEN_MULTI_RSP", "STREAM_WRITE_RSP"}
                              /\ rx' = Append(rx, f)
    <3>1. PICK f \in Frame : /\ f.kind \notin {"OPEN_MULTI_RSP", "STREAM_WRITE_RSP"}
                            /\ rx' = Append(rx, f)
      BY <2>2
    <3>2. /\ Len(rx') = Len(rx) + 1 /\ DOMAIN rx' = 1..(Len(rx) + 1)
          /\ \A k \in 1..Len(rx) : rx'[k] = rx[k]
          /\ rx'[Len(rx) + 1] = f
      <4>1. rx \in Seq(Frame)
        BY <1>1
      <4> QED
        BY <3>1, <4>1, AppendFacts
    <3>3. \A k \in DOMAIN rx' : k \in 1..Len(rx) \/ k = Len(rx) + 1
      BY <1>1, <3>2
    <3>4. Len(rx') \in Nat /\ DOMAIN rx' = 1..Len(rx')
      BY <1>1, <3>2
    <3> QED
      BY <1>1, <3>1, <3>2, <3>3, <3>4
  <2> QED
    BY <2>1, <2>2
<1>4. AckedIsHeld' /\ OwnPartition'
  BY <1>0 DEF WriteInv, AckedIsHeld, OwnPartition, Held
<1>5. LoopShape'
  BY <1>0, <1>2 DEF WriteInv, LoopShape, Held
<1>6. ASSUME NEW k \in DOMAIN tx', tx'[k].op = "write"
      PROVE  /\ tx'[k].img = opened /\ opened \in ToLoad /\ opened <= img
             /\ tx'[k].addr \in Packets(opened)
             /\ \A m \in 1..(k - 1) : tx'[m].op = "write"
  <2>1. k + d \in DOMAIN tx /\ tx[k + d].op = "write" /\ tx'[k] = tx[k + d]
    BY <1>2, <1>6
  <2>2. \A m \in 1..(k - 1) : m + d \in 1..(k + d - 1) /\ tx'[m] = tx[m + d]
    BY <1>2
  <2>3. /\ tx[k + d].img = opened /\ opened \in ToLoad /\ opened <= img
        /\ tx[k + d].addr \in Packets(opened)
        /\ \A m \in 1..(k + d - 1) : tx[m].op = "write"
    <3>1. PICK q \in DOMAIN tx : q = k + d
      BY <2>1
    <3>2. /\ tx[q].img = opened /\ opened \in ToLoad /\ opened <= img
          /\ tx[q].addr \in Packets(opened)
          /\ \A m \in 1..(q - 1) : tx[m].op = "write"
      BY <2>1, <3>1 DEF WriteInv, CommandShape
    <3> QED
      BY <3>1, <3>2
  <2> QED
    BY <2>1, <2>2, <2>3, SMTT(30)
<1>7. ASSUME NEW k \in DOMAIN tx', tx'[k].op = "open"
      PROVE  /\ k = Len(tx') /\ tx'[k].img = img /\ Asking
             /\ \A m \in DOMAIN rx' : rx'[m].kind # "OPEN_MULTI_RSP"
  <2>1. k + d \in DOMAIN tx /\ tx[k + d].op = "open" /\ tx'[k] = tx[k + d]
    BY <1>2, <1>7
  <2>2. /\ k + d = Len(tx) /\ tx[k + d].img = img /\ Asking
        /\ \A m \in DOMAIN rx : rx[m].kind # "OPEN_MULTI_RSP"
    BY <2>1 DEF WriteInv, CommandShape
  <2>3. k = Len(tx')
    BY <1>2, <2>2
  <2>4. \A m \in DOMAIN rx' : rx'[m].kind # "OPEN_MULTI_RSP"
    BY <1>3, <2>2
  <2> QED
    BY <2>1, <2>2, <2>3, <2>4
<1>8. CommandShape'
  BY <1>0, <1>6, <1>7 DEF CommandShape
<1>9. AnswerShape'
  <2>1. ASSUME NEW k \in DOMAIN rx', rx'[k].kind = "OPEN_MULTI_RSP",
               NEW m \in (k + 1)..Len(rx')
        PROVE  rx'[m].kind \notin {"OPEN_MULTI_RSP", "STREAM_WRITE_RSP"}
    <3>1. k \in DOMAIN rx /\ rx[k].kind = "OPEN_MULTI_RSP"
      BY <1>3, <2>1
    <3>2. m \in DOMAIN rx'
      <4>1. Len(rx') \in Nat /\ DOMAIN rx' = 1..Len(rx')
        BY <1>3
      <4> QED
        BY <4>1, Behind
    <3>3. CASE m \in DOMAIN rx /\ rx'[m] = rx[m]
      <4>1. m \in (k + 1)..Len(rx)
        BY <1>1, <3>3
      <4> QED
        BY <3>1, <3>3, <4>1 DEF WriteInv, AnswerShape
    <3> QED
      BY <1>3, <3>2, <3>3
  <2>2. ASSUME NEW k \in DOMAIN rx', rx'[k].kind = "OPEN_MULTI_RSP"
        PROVE  tx' = <<>> /\ opened = img /\ Asking
    BY <1>2, <1>3, <2>2 DEF WriteInv, AnswerShape
  <2>3. ASSUME NEW k \in DOMAIN rx', rx'[k].kind = "STREAM_WRITE_RSP"
        PROVE  /\ rx'[k].img \in Images /\ rx'[k].addr \in Packets(rx'[k].img)
               /\ buffer[rx'[k].img][rx'[k].addr] = rx'[k].img
               /\ pc = "write" => rx'[k].img = img
    BY <1>3, <2>3 DEF WriteInv, AnswerShape
  <2> QED
    BY <1>0, <2>1, <2>2, <2>3 DEF AnswerShape
<1> QED
  BY <1>4, <1>5, <1>8, <1>9 DEF WriteInv

\* The answer to a command that opens, closes and writes nothing.
LEMMA QuietAnswer ==
    ASSUME WriteInv, TypeOK', tx # <<>>, NEW kind \in Kinds, Answer(kind),
           kind \notin {"OPEN_MULTI_RSP", "STREAM_WRITE_RSP"}, UNCHANGED <<opened, buffer>>
    PROVE  WriteInv'
<1>1. Rsp(kind) \in Frame /\ Rsp("garbled") \in Frame
  BY AnswerTyped DEF WriteInv
<1>2. Rsp(kind).kind = kind /\ Rsp("garbled").kind = "garbled"
  BY DEF Rsp
<1> QED
  BY <1>1, <1>2, QuietStep DEF Answer

\* The head of tx, by position.
LEMMA ServingHead ==
    ASSUME WriteInv, NEW op, Serving(op)
    PROVE  /\ tx # <<>> /\ Head(tx) = tx[1] /\ 1 \in DOMAIN tx /\ tx[1].op = op
           /\ Len(tx) \in Nat /\ DOMAIN tx = 1..Len(tx) /\ Len(Tail(tx)) = Len(tx) - 1
           /\ DOMAIN Tail(tx) = 1..(Len(tx) - 1)
           /\ \A k \in DOMAIN Tail(tx) : k \in Int /\ k + 1 \in DOMAIN tx /\ Tail(tx)[k] = tx[k + 1]
<1>1. tx \in Seq(Command) /\ tx # <<>>
  BY DEF WriteInv, TypeOK, Serving
<1> QED
  BY <1>1, TailFacts DEF Serving

LEMMA DevOpenStep ==
    ASSUME WriteInv, TypeOK', DevOpen
    PROVE  WriteInv'
<1>0. Serving("open") /\ Answer("OPEN_MULTI_RSP") /\ UNCHANGED <<buffer, hostVars>>
      /\ tx' = Tail(tx)
  BY DEF DevOpen, Answer
<1>1. UNCHANGED <<pc, waiting, img, addr, buffer>> /\ (Asking' <=> Asking)
  BY <1>0 DEF hostVars, Asking
<1>2. /\ Len(tx) = 1 /\ tx[1].img = img /\ Asking
      /\ \A m \in DOMAIN rx : rx[m].kind # "OPEN_MULTI_RSP"
  BY <1>0, ServingHead DEF WriteInv, CommandShape
<1>3. tx' = <<>> /\ DOMAIN tx' = {}
  <2>1. Len(tx') = 0 /\ tx' \in Seq(Command)
    BY <1>0, <1>2, ServingHead DEF TypeOK
  <2> QED
    BY <2>1, EmptySeq
<1>4. opened' = img
  BY <1>0, <1>2, ServingHead DEF DevOpen
<1>5. CommandShape'
  BY <1>3 DEF CommandShape
<1>6. AckedIsHeld' /\ OwnPartition'
  BY <1>1 DEF WriteInv, AckedIsHeld, OwnPartition, Held
<1>7. LoopShape'
  BY <1>1, <1>3, <1>4 DEF WriteInv, LoopShape, Held
<1>8. AnswerShape'
  <2>1. rx \in Seq(Frame) /\ Rsp("OPEN_MULTI_RSP") \in Frame /\ Rsp("garbled") \in Frame
    BY <1>0, AnswerTyped DEF WriteInv, TypeOK, Serving, Kinds
  <2>2. PICK f \in Frame : f.kind \in {"OPEN_MULTI_RSP", "garbled"} /\ rx' = Append(rx, f)
    <3>1. Rsp("OPEN_MULTI_RSP").kind = "OPEN_MULTI_RSP" /\ Rsp("garbled").kind = "garbled"
      BY DEF Rsp
    <3> QED
      BY <1>0, <2>1, <3>1 DEF Answer
  <2>3. /\ Len(rx) \in Nat /\ DOMAIN rx = 1..Len(rx) /\ Len(rx') = Len(rx) + 1
        /\ DOMAIN rx' = 1..(Len(rx) + 1)
        /\ \A k \in 1..Len(rx) : rx'[k] = rx[k]
        /\ rx'[Len(rx) + 1] = f
    BY <2>1, <2>2, AppendFacts
  <2>4. \A k \in DOMAIN rx' : (k \in DOMAIN rx /\ rx'[k] = rx[k]) \/ (k = Len(rx) + 1 /\ rx'[k] = f)
    BY <2>3
  <2>5. ASSUME NEW k \in DOMAIN rx', rx'[k].kind = "STREAM_WRITE_RSP"
        PROVE  /\ rx'[k].img \in Images /\ rx'[k].addr \in Packets(rx'[k].img)
               /\ buffer[rx'[k].img][rx'[k].addr] = rx'[k].img
               /\ pc = "write" => rx'[k].img = img
    BY <2>2, <2>4, <2>5 DEF WriteInv, AnswerShape
  <2>6. ASSUME NEW k \in DOMAIN rx', rx'[k].kind = "OPEN_MULTI_RSP"
        PROVE  (k + 1)..Len(rx') = {}
    <3>1. k = Len(rx) + 1
      BY <1>2, <2>4, <2>6
    <3> QED
      BY <2>3, <3>1
  <2> QED
    BY <1>1, <1>2, <1>3, <1>4, <2>5, <2>6 DEF AnswerShape
<1> QED
  BY <1>5, <1>6, <1>7, <1>8 DEF WriteInv

LEMMA DevCloseStep ==
    ASSUME WriteInv, TypeOK', DevClose
    PROVE  WriteInv'
<1>0. Serving("close") /\ UNCHANGED <<buffer, hostVars>> /\ tx' = Tail(tx)
      /\ \E kind \in {"CLOSE_RSP", "Close_failed"} : Answer(kind)
  BY DEF DevClose, Answer
<1>1. UNCHANGED <<pc, waiting, img, addr, buffer>> /\ (Asking' <=> Asking)
  BY <1>0 DEF hostVars, Asking
<1>2. \A k \in DOMAIN tx : tx[k].op # "write"
  <2>1. ASSUME NEW k \in DOMAIN tx, tx[k].op = "write"
        PROVE  FALSE
    <3>1. \A m \in 1..(k - 1) : tx[m].op = "write"
      BY <2>1 DEF WriteInv, CommandShape
    <3>2. k \in Nat /\ k >= 1 /\ tx[1].op = "close"
      BY <1>0, ServingHead
    <3>3. k # 1
      BY <2>1, <3>2
    <3>4. 1 \in 1..(k - 1)
      BY <3>2, <3>3
    <3> QED
      BY <3>1, <3>2, <3>4
  <2> QED
    BY <2>1
<1>3. pc # "write" /\ \A k \in DOMAIN rx : rx[k].kind # "OPEN_MULTI_RSP"
  BY <1>0, <1>2, ServingHead DEF WriteInv, LoopShape, AnswerShape
<1>4. AckedIsHeld' /\ OwnPartition'
  BY <1>1 DEF WriteInv, AckedIsHeld, OwnPartition, Held
<1>5. LoopShape'
  BY <1>1, <1>3 DEF WriteInv, LoopShape, Held
<1>6. \A k \in DOMAIN rx' : \/ k \in DOMAIN rx /\ rx'[k] = rx[k]
                            \/ rx'[k].kind \notin {"OPEN_MULTI_RSP", "STREAM_WRITE_RSP"}
  <2>1. PICK kind \in {"CLOSE_RSP", "Close_failed"} : Answer(kind)
    BY <1>0
  <2>2. rx \in Seq(Frame) /\ Rsp(kind) \in Frame /\ Rsp("garbled") \in Frame
    BY <1>0, <2>1, AnswerTyped DEF WriteInv, TypeOK, Serving, Kinds
  <2>3. PICK f \in Frame : /\ f.kind \notin {"OPEN_MULTI_RSP", "STREAM_WRITE_RSP"}
                           /\ rx' = Append(rx, f)
    <3>1. Rsp(kind).kind = kind /\ Rsp("garbled").kind = "garbled"
      BY DEF Rsp
    <3> QED
      BY <2>1, <2>2, <3>1 DEF Answer
  <2>4. /\ Len(rx) \in Nat /\ DOMAIN rx = 1..Len(rx)
        /\ DOMAIN rx' = 1..(Len(rx) + 1)
        /\ \A k \in 1..Len(rx) : rx'[k] = rx[k]
        /\ rx'[Len(rx) + 1] = f
    BY <2>2, <2>3, AppendFacts
  <2> QED
    BY <2>3, <2>4
<1>7. AnswerShape'
  BY <1>1, <1>3, <1>6 DEF WriteInv, AnswerShape
<1>8. CommandShape'
  <2>1. ASSUME NEW k \in DOMAIN tx'
        PROVE  /\ tx'[k].op # "write"
               /\ tx'[k].op = "open" => k = Len(tx') /\ tx'[k].img = img /\ Asking
    <3>1. k \in Int /\ k + 1 \in DOMAIN tx /\ tx'[k] = tx[k + 1]
          /\ Len(tx') = Len(tx) - 1 /\ Len(tx) \in Nat
      BY <1>0, ServingHead
    <3>2. tx[k + 1].op = "open" => k + 1 = Len(tx) /\ tx[k + 1].img = img /\ Asking
      BY <3>1 DEF WriteInv, CommandShape
    <3>3. k + 1 = Len(tx) => k = Len(tx')
      BY <3>1
    <3> QED
      BY <1>2, <3>1, <3>2, <3>3
  <2> QED
    BY <1>1, <1>3, <1>6, <2>1 DEF CommandShape
<1> QED
  BY <1>4, <1>5, <1>7, <1>8 DEF WriteInv

\* The packet at the head of tx goes to its own partition.
LEMMA WriteTarget ==
    ASSUME WriteInv, DevWrite
    PROVE  /\ tx[1].img = opened /\ opened \in ToLoad /\ opened \in Images /\ opened <= img
           /\ Head(tx) = tx[1] /\ tx[1].addr \in Packets(opened)
           /\ \A i \in Images : \A a \in Packets(i) :
                 buffer'[i][a] = IF i = opened /\ a = tx[1].addr THEN opened ELSE buffer[i][a]
<1>1. Serving("write")
  BY DEF DevWrite
<1>2. /\ tx[1].img = opened /\ opened \in ToLoad /\ opened \in Images /\ opened <= img
      /\ Head(tx) = tx[1] /\ tx[1].addr \in Packets(opened)
  BY <1>1, ServingHead, ConstantFacts DEF WriteInv, CommandShape
<1>3. buffer' = [buffer EXCEPT ![opened] = [@ EXCEPT ![tx[1].addr] = opened]]
  BY <1>2 DEF DevWrite
<1>4. DOMAIN buffer = Images /\ \A i \in Images : DOMAIN buffer[i] = Packets(i)
  BY DEF WriteInv, TypeOK
<1> QED
  BY <1>2, <1>3, <1>4

LEMMA DevWriteStep ==
    ASSUME WriteInv, TypeOK', DevWrite
    PROVE  WriteInv'
<1>0. Serving("write") /\ Answer("STREAM_WRITE_RSP") /\ UNCHANGED <<opened, hostVars>>
      /\ tx' = Tail(tx)
  BY DEF DevWrite, Answer
<1>1. UNCHANGED <<pc, waiting, img, addr, opened>> /\ (Asking' <=> Asking)
  BY <1>0 DEF hostVars, Asking
<1>2. \A i \in Images : \A a \in Packets(i) :
         /\ buffer[i][a] = i => buffer'[i][a] = i
         /\ buffer[i][a] \in {0, i} => buffer'[i][a] \in {0, i}
  BY WriteTarget
<1>3. \A i \in Images : Held(i) => Held(i)'
  BY <1>2 DEF Held
<1>4. OwnPartition'
  BY <1>2 DEF WriteInv, OwnPartition
<1>5. pc \in {"write", "close"} => img \in Images
  BY ConstantFacts DEF WriteInv, LoopShape
<1>6. AckedIsHeld'
  BY <1>1, <1>2, <1>3, <1>5, ConstantFacts DEF WriteInv, AckedIsHeld
<1>7. LoopShape'
  <2>1. pc = "write" => \A k \in DOMAIN tx' : tx'[k].op = "write"
    BY <1>0, ServingHead DEF WriteInv, LoopShape
  <2>2. pc = "next" => \A i \in ToLoad : i <= img => Held(i)'
    BY <1>3, ConstantFacts DEF WriteInv, LoopShape
  <2> QED
    BY <1>1, <2>1, <2>2 DEF WriteInv, LoopShape
<1>8. \A k \in DOMAIN rx : rx[k].kind # "OPEN_MULTI_RSP"
  BY <1>0, ServingHead DEF WriteInv, AnswerShape
<1>9. PICK f \in Frame :
         /\ f.kind \in {"STREAM_WRITE_RSP", "garbled"} /\ f.img = tx[1].img /\ f.addr = tx[1].addr
         /\ rx' = Append(rx, f)
  <2>1. Rsp("STREAM_WRITE_RSP") \in Frame /\ Rsp("garbled") \in Frame
    BY <1>0, AnswerTyped DEF WriteInv, Serving, Kinds
  <2>2. \A kind \in {"STREAM_WRITE_RSP", "garbled"} :
           Rsp(kind).kind = kind /\ Rsp(kind).img = tx[1].img /\ Rsp(kind).addr = tx[1].addr
    BY WriteTarget DEF Rsp
  <2> QED
    BY <1>0, <2>1, <2>2 DEF Answer
<1>10. \A k \in DOMAIN rx' : (k \in DOMAIN rx /\ rx'[k] = rx[k]) \/ rx'[k] = f
  <2>1. rx \in Seq(Frame)
    BY DEF WriteInv, TypeOK
  <2>2. /\ Len(rx) \in Nat /\ DOMAIN rx = 1..Len(rx)
        /\ DOMAIN rx' = 1..(Len(rx) + 1)
        /\ \A k \in 1..Len(rx) : rx'[k] = rx[k]
        /\ rx'[Len(rx) + 1] = f
    BY <1>9, <2>1, AppendFacts
  <2> QED
    BY <2>2
<1>11. AnswerShape'
  <2>1. \A k \in DOMAIN rx' : rx'[k].kind # "OPEN_MULTI_RSP"
    BY <1>8, <1>9, <1>10
  <2>2. ASSUME NEW k \in DOMAIN rx', rx'[k].kind = "STREAM_WRITE_RSP"
        PROVE  /\ rx'[k].img \in Images /\ rx'[k].addr \in Packets(rx'[k].img)
               /\ buffer'[rx'[k].img][rx'[k].addr] = rx'[k].img
               /\ pc = "write" => rx'[k].img = img
    <3>1. CASE k \in DOMAIN rx /\ rx'[k] = rx[k]
      BY <1>2, <2>2, <3>1 DEF WriteInv, AnswerShape
    <3>2. CASE rx'[k] = f
      <4>1. rx'[k].img = opened /\ rx'[k].addr = tx[1].addr
        BY <1>9, <3>2, WriteTarget
      <4>2. pc = "write" => opened = img
        BY DEF WriteInv, LoopShape
      <4> QED
        BY <4>1, <4>2, WriteTarget
    <3> QED
      BY <1>10, <3>1, <3>2
  <2> QED
    BY <1>1, <2>1, <2>2 DEF AnswerShape
<1>12. CommandShape'
  <2>1. ASSUME NEW k \in DOMAIN tx'
        PROVE  /\ tx'[k].op = "write" =>
                     /\ tx'[k].img = opened /\ opened \in ToLoad /\ opened <= img
                     /\ tx'[k].addr \in Packets(opened)
                     /\ \A m \in 1..(k - 1) : tx'[m].op = "write"
               /\ tx'[k].op = "open" => k = Len(tx') /\ tx'[k].img = img /\ Asking
    <3>1. k \in Int /\ k + 1 \in DOMAIN tx /\ tx'[k] = tx[k + 1]
          /\ Len(tx') = Len(tx) - 1 /\ Len(tx) \in Nat
      BY <1>0, ServingHead
    <3>2. /\ tx[k + 1].op = "open" => k + 1 = Len(tx) /\ tx[k + 1].img = img /\ Asking
          /\ tx[k + 1].op = "write" =>
                     /\ tx[k + 1].img = opened /\ opened \in ToLoad /\ opened <= img
                     /\ tx[k + 1].addr \in Packets(opened)
                     /\ \A m \in 1..((k + 1) - 1) : tx[m].op = "write"
      BY <3>1 DEF WriteInv, CommandShape
    <3>3. k + 1 = Len(tx) => k = Len(tx')
      BY <3>1
    <3>4. \A m \in 1..(k - 1) : m + 1 \in 1..((k + 1) - 1) /\ tx'[m] = tx[m + 1]
      BY <1>0, <3>1, ServingHead
    <3> QED
      BY <3>1, <3>2, <3>3, <3>4
  <2>2. \A k \in DOMAIN rx' : rx'[k].kind # "OPEN_MULTI_RSP"
    BY <1>8, <1>9, <1>10
  <2> QED
    BY <1>1, <2>1, <2>2 DEF CommandShape
<1> QED
  BY <1>4, <1>6, <1>7, <1>11, <1>12 DEF WriteInv

LEMMA DeviceStep ==
    ASSUME WriteInv, TypeOK', Device
    PROVE  WriteInv'
<1>1. CASE DevHello \/ DevSec \/ DevRefuse
  BY <1>1, QuietAnswer DEF DevHello, DevSec, DevRefuse, Serving, Kinds, devVars
<1>2. CASE DevTable
  BY <1>2, QuietAnswer DEF DevTable, Serving, Kinds
<1>3. CASE DevLose
  BY <1>3, QuietStep DEF DevLose, devVars
<1>4. CASE DevLog
  <2>1. [kind |-> "CMD_LOG", img |-> 0, addr |-> 0] \in Frame
    BY ConstantFacts DEF Frame, Kinds
  <2>2. [kind |-> "CMD_LOG", img |-> 0, addr |-> 0].kind
          \notin {"OPEN_MULTI_RSP", "STREAM_WRITE_RSP"}
    OBVIOUS
  <2> QED
    BY <1>4, <2>1, <2>2, QuietStep DEF DevLog, devVars
<1>5. CASE DevReset \/ Unplug
  <2>1. UNCHANGED <<hostVars, opened, buffer>> /\ tx' = <<>> /\ rx' = <<>>
        /\ DOMAIN tx' = {} /\ DOMAIN rx' = {}
    BY <1>5 DEF DevReset, Unplug, devVars
  <2>2. CommandShape' /\ AnswerShape'
    BY <2>1 DEF CommandShape, AnswerShape
  <2>3. AckedIsHeld' /\ OwnPartition' /\ LoopShape'
    BY <2>1 DEF WriteInv, hostVars, AckedIsHeld, OwnPartition, LoopShape, Held
  <2> QED
    BY <2>2, <2>3 DEF WriteInv
<1> QED
  BY <1>1, <1>2, <1>3, <1>4, <1>5, DevOpenStep, DevCloseStep, DevWriteStep DEF Device

LEMMA WriteInvStep == WriteInv /\ [Next]_vars => WriteInv'
<1> SUFFICES ASSUME WriteInv, [Next]_vars PROVE WriteInv'
  OBVIOUS
<1>1. TypeOK'
  BY TypeStep DEF WriteInv
<1>2. CASE Host
  BY <1>1, <1>2, DummyStep, HelloStep, SecStep, TableStep, NextStep, OpenStep, WriteStep,
     CloseStep, ResetStep DEF Host
<1>3. CASE UNCHANGED vars
  BY <1>3 DEF vars, hostVars, devVars, WriteInv, TypeOK, AckedIsHeld, OwnPartition, LoopShape,
              CommandShape, AnswerShape, Held, Asking
<1> QED
  BY <1>1, <1>2, <1>3, DeviceStep DEF Next, Done

-----------------------------------------------------------------------------
(* What a CLOSE closes. *)

LEMMA InitInd == Init => IndInv
<1> SUFFICES ASSUME Init PROVE IndInv
  OBVIOUS
<1>1. DOMAIN tx = {} /\ flushed = {} /\ pc = "dummy"
  BY DEF Init
<1> QED
  BY <1>1, InitWrite DEF IndInv, FlushedWhole, CloseShape

\* At the end of an image the device holds it.
LEMMA HeldAtClose ==
    ASSUME WriteInv, pc = "close"
    PROVE  Held(img)
<1>1. img \in Images /\ addr = Chunks[img]
  BY ConstantFacts DEF WriteInv, LoopShape
<1>2. \A a \in Packets(img) : a < addr
  BY <1>1, ConstantFacts DEF Packets
<1> QED
  BY <1>2 DEF WriteInv, AckedIsHeld, Held

LEMMA HostCloseStep ==
    ASSUME IndInv, Host
    PROVE  FlushedWhole' /\ CloseShape'
<1>1. UNCHANGED devVars
  BY WireFacts
  DEF Host, SendDummyData, SendHelloPacket, SendSecMode, SendPrtnTbl, NextImage,
      SendOpenPacketUsePrtn, SendWritePacket, SendClosePacket, SendResetCmd
<1>2. UNCHANGED <<opened, buffer, flushed>> /\ \A i : Held(i)' <=> Held(i)
  BY <1>1 DEF devVars, Held
<1>3. FlushedWhole'
  BY <1>2 DEF IndInv, FlushedWhole
<1>4. pc' = "close" => opened \in {0, img'}
  <2>1. CASE SendClosePacket
    BY <2>1 DEF SendClosePacket, Enter, Fail, Wait, IndInv, CloseShape
  <2>2. CASE SendWritePacket
    BY <2>2 DEF SendWritePacket, NextPacket, Retry, Enter, Fail, Wait, IndInv, WriteInv, LoopShape
  <2>3. CASE ~SendClosePacket /\ ~SendWritePacket
    <3>1. pc' # "close"
      BY <2>3 DEF Host, SendDummyData, SendHelloPacket, SendSecMode, SendPrtnTbl, NextImage,
                  SendOpenPacketUsePrtn, SendResetCmd, Retry, Enter, Fail, Wait
    <3> QED
      BY <3>1
  <2> QED
    BY <2>1, <2>2, <2>3
<1>5. \/ UNCHANGED tx
      \/ \E op \in Steps \cup {"reset"} : Send(op) /\ (op = "close" => pc = "close")
  BY WireFacts
  DEF Host, SendDummyData, SendHelloPacket, SendSecMode, SendPrtnTbl, NextImage, Steps,
      SendOpenPacketUsePrtn, SendWritePacket, SendClosePacket, SendResetCmd
<1>6. ASSUME NEW k \in DOMAIN tx', tx'[k].op = "close", opened # 0
      PROVE  Held(opened)
  <2>1. CASE UNCHANGED tx
    BY <1>6, <2>1 DEF IndInv, CloseShape
  <2>2. CASE \E op \in Steps \cup {"reset"} : Send(op) /\ (op = "close" => pc = "close")
    <3>1. PICK op \in Steps \cup {"reset"} : Send(op) /\ (op = "close" => pc = "close")
      BY <2>2
    <3>2. tx \in Seq(Command) /\ Cmd(op) \in Command
      BY <3>1, SendTyped DEF IndInv, WriteInv, TypeOK
    <3>3. PICK n \in 0..Len(tx) : tx' = Append(SubSeq(tx, 1, n), Cmd(op))
      BY <3>1 DEF Send
    <3>4. /\ n \in Nat /\ DOMAIN tx' = 1..(n + 1)
          /\ \A m \in 1..n : m \in DOMAIN tx /\ tx'[m] = tx[m]
          /\ tx'[n + 1] = Cmd(op)
      BY <3>2, <3>3, SendFacts
    <3>5. CASE k \in 1..n
      BY <1>6, <3>4, <3>5 DEF IndInv, CloseShape
    <3>6. CASE k = n + 1
      <4>1. op = "close"
        BY <1>6, <3>4, <3>6 DEF Cmd
      <4> QED
        BY <1>6, <3>1, <4>1, HeldAtClose DEF IndInv, CloseShape
    <3> QED
      BY <3>4, <3>5, <3>6
  <2> QED
    BY <1>5, <2>1, <2>2
<1>7. CloseShape'
  BY <1>2, <1>4, <1>6 DEF CloseShape
<1> QED
  BY <1>3, <1>7

LEMMA DeviceCloseStep ==
    ASSUME IndInv, Device
    PROVE  FlushedWhole' /\ CloseShape'
<1>1. UNCHANGED <<pc, img>>
  BY DEF Device, DevHello, DevSec, DevTable, DevOpen, DevWrite, DevClose, DevReset, DevRefuse,
         DevLose, DevLog, Unplug, Answer, hostVars
<1>2. flushed \subseteq 0..NImages /\ \A i \in Images : Held(i) => Held(i)'
  <2>1. CASE DevWrite
    BY <2>1, WriteTarget DEF IndInv, WriteInv, TypeOK, Held
  <2>2. CASE ~DevWrite
    <3>1. UNCHANGED buffer
      BY <2>2 DEF Device, DevHello, DevSec, DevTable, DevOpen, DevClose, DevReset, DevRefuse,
                  DevLose, DevLog, Unplug, devVars
    <3> QED
      BY <3>1 DEF IndInv, WriteInv, TypeOK, Held
  <2> QED
    BY <2>1, <2>2
<1>3. \A i \in 0..NImages : i # 0 => i \in Images
  BY ConstantFacts DEF Images
<1>4. \/ tx' = <<>>
      \/ UNCHANGED tx
      \/ tx # <<>> /\ tx' = Tail(tx)
  BY DEF Device, DevHello, DevSec, DevTable, DevOpen, DevWrite, DevClose, DevReset, DevRefuse,
         DevLose, DevLog, Unplug, Answer, Serving
<1>5. \A k \in DOMAIN tx' : \E m \in DOMAIN tx : tx'[k] = tx[m]
  <2>1. CASE tx' = <<>>
    <3>1. DOMAIN tx' = {}
      BY <2>1
    <3> QED
      BY <3>1
  <2>2. CASE UNCHANGED tx
    BY <2>2
  <2>3. CASE tx # <<>> /\ tx' = Tail(tx)
    <3>1. tx \in Seq(Command)
      BY DEF IndInv, WriteInv, TypeOK
    <3>2. \A k \in DOMAIN tx' : k + 1 \in DOMAIN tx /\ tx'[k] = tx[k + 1]
      BY <2>3, <3>1, TailFacts
    <3> QED
      BY <3>2
  <2> QED
    BY <1>4, <2>1, <2>2, <2>3
<1>6. CASE DevOpen
  <2>1. Serving("open") /\ UNCHANGED flushed /\ tx' = Tail(tx)
    BY <1>6 DEF DevOpen, Answer
  <2>2. Len(tx) = 1 /\ Asking
    BY <2>1, ServingHead DEF IndInv, WriteInv, CommandShape
  <2>3. DOMAIN tx' = {}
    <3>1. DOMAIN tx' = 1..(Len(tx) - 1)
      BY <2>1, ServingHead DEF IndInv
    <3> QED
      BY <2>2, <3>1
  <2>4. pc # "close"
    BY <2>2 DEF Asking
  <2> QED
    BY <1>1, <1>2, <1>3, <2>1, <2>3, <2>4 DEF IndInv, FlushedWhole, CloseShape
<1>7. CASE DevClose
  <2>1. Serving("close") /\ opened' = 0 /\ flushed' \subseteq flushed \cup {opened}
    BY <1>7 DEF DevClose
  <2>2. opened # 0 => Held(opened)
    BY <2>1, ServingHead DEF IndInv, CloseShape
  <2>3. opened \in 0..NImages
    BY DEF IndInv, WriteInv, TypeOK
  <2>4. FlushedWhole'
    BY <1>2, <1>3, <2>1, <2>2, <2>3 DEF IndInv, FlushedWhole
  <2> QED
    BY <2>1, <2>4 DEF CloseShape
<1>8. CASE ~DevOpen /\ ~DevClose
  <2>1. UNCHANGED <<opened, flushed>>
    BY <1>8 DEF Device, DevHello, DevSec, DevTable, DevWrite, DevReset, DevRefuse,
                DevLose, DevLog, Unplug, devVars
  <2>2. opened \in 0..NImages
    BY DEF IndInv, WriteInv, TypeOK
  <2>3. FlushedWhole'
    BY <1>2, <1>3, <2>1 DEF IndInv, FlushedWhole
  <2>4. ASSUME NEW k \in DOMAIN tx', tx'[k].op = "close", opened # 0
        PROVE  Held(opened)'
    <3>1. Held(opened)
      BY <1>5, <2>4 DEF IndInv, CloseShape
    <3> QED
      BY <1>2, <1>3, <2>1, <2>2, <2>4, <3>1 DEF Held
  <2>5. CloseShape'
    BY <1>1, <2>1, <2>4 DEF IndInv, CloseShape, Held
  <2> QED
    BY <2>3, <2>5
<1> QED
  BY <1>6, <1>7, <1>8

LEMMA IndStep == IndInv /\ [Next]_vars => IndInv'
<1> SUFFICES ASSUME IndInv, [Next]_vars PROVE IndInv'
  OBVIOUS
<1>1. WriteInv'
  BY WriteInvStep DEF IndInv
<1>2. CASE UNCHANGED vars
  BY <1>1, <1>2 DEF vars, hostVars, devVars, IndInv, FlushedWhole, CloseShape, Held
<1> QED
  BY <1>1, <1>2, HostCloseStep, DeviceCloseStep DEF Next, Done, IndInv

-----------------------------------------------------------------------------
(* The theorems. *)

\* The inductive invariant: where the loop of DLoad9X07ImagesUsePtn is, which commands can be
\* on their way to the programmer and which answers can be in the receive buffer.
THEOREM Inductive == Spec => []IndInv
  BY InitInd, IndStep, PTL DEF Spec

\* Every variable of the download of CDLData keeps its type; in particular the loop never
\* leaves FileBufMap.
THEOREM TypeCorrect == Spec => []TypeOK
<1>1. IndInv => TypeOK
  BY DEF IndInv, WriteInv
<1> QED
  BY <1>1, Inductive, PTL

\* What CDLData took for written is in the programmer's buffers, whatever was resent, lost
\* or answered late.
THEOREM AckedIsHeldAlways == Spec => []AckedIsHeld
<1>1. IndInv => AckedIsHeld
  BY DEF IndInv, WriteInv
<1> QED
  BY <1>1, Inductive, PTL

\* No packet of one image reaches the partition of another around CLOSE and OPEN.
THEOREM OwnPartitionAlways == Spec => []OwnPartition
<1>1. IndInv => OwnPartition
  BY DEF IndInv, WriteInv
<1> QED
  BY <1>1, Inductive, PTL

\* The programmer writes only whole images to the flash, however late a CLOSE gets to it.
THEOREM FlushedWholeAlways == Spec => []FlushedWhole
<1>1. IndInv => FlushedWhole
  BY DEF IndInv
<1> QED
  BY <1>1, Inductive, PTL

\* An image the device holds, seen from the plan.
LEMMA HeldContent ==
    ASSUME NEW i \in ToLoad, Held(i)
    PROVE  Content[i] = Plan!Whole(i)
<1>1. i \in Images /\ Chunks[i] > 0 /\ 0 \in Packets(i) /\ i # 0
  BY ConstantFacts DEF Images, Packets
<1>2. ~ \A a \in Packets(i) : buffer[i][a] = 0
  BY <1>1 DEF Held
<1> QED
  BY <1>1, <1>2 DEF Content, Plan!Whole

\* The download of CDLData implements FlashPlan: the images reach the device in the order of
\* FileBufMap, each after the ones before it are complete.
THEOREM DownloadFollowsPlan == Spec => FollowsPlan
<1>1. Init => Plan!PlanInit
  <2> SUFFICES ASSUME Init PROVE Plan!PlanInit
    OBVIOUS
  <2>1. \A i \in Images : \A a \in Packets(i) : buffer[i][a] = 0
    BY DEF Init
  <2>2. \A i \in Images : ~(Chunks[i] > 0 /\ Held(i))
    <3>1. \A i \in Images : Chunks[i] > 0 => 0 \in Packets(i) /\ i # 0
      BY ConstantFacts DEF Images, Packets
    <3> QED
      BY <2>1, <3>1 DEF Held
  <2>3. \A i \in Images : Content[i] = Plan!Stale
    BY <2>1, <2>2 DEF Content, Plan!Stale
  <2>4. Content = [i \in Images |-> Content[i]]
    BY DEF Content
  <2> QED
    BY <2>3, <2>4 DEF Plan!PlanInit, Images, Plan!Images
<1>2. IndInv /\ [Next]_vars => [Plan!PlanNext]_Content
  <2> SUFFICES ASSUME IndInv, [Next]_vars, Content' # Content
               PROVE  Plan!PlanNext
    OBVIOUS
  <2>1. buffer' # buffer
    BY DEF Content, Held
  <2>2. DevWrite
    <3>1. CASE Host
      BY <2>1, <3>1, WireFacts
      DEF Host, SendDummyData, SendHelloPacket, SendSecMode, SendPrtnTbl, NextImage,
          SendOpenPacketUsePrtn, SendWritePacket, SendClosePacket, SendResetCmd, devVars
    <3>2. CASE Device
      BY <2>1, <3>2
      DEF Device, DevHello, DevSec, DevTable, DevOpen, DevClose, DevReset, DevRefuse, DevLose,
          DevLog, Unplug, devVars
    <3> QED
      BY <2>1, <3>1, <3>2 DEF Next, Done, vars, devVars
  <2>3. /\ opened \in ToLoad /\ opened \in Images /\ opened <= img
        /\ tx[1].addr \in Packets(opened)
        /\ \A i \in Images : \A a \in Packets(i) :
              buffer'[i][a] = IF i = opened /\ a = tx[1].addr THEN opened ELSE buffer[i][a]
    BY <2>2, WriteTarget DEF IndInv
  <2>4. \A j \in ToLoad : j < opened => Content[j] = Plan!Whole(j)
    <3>1. \A j \in ToLoad : j < opened => j < img
      BY <2>3, ConstantFacts DEF Images, IndInv, WriteInv, TypeOK
    <3> QED
      BY <3>1, HeldContent DEF IndInv, WriteInv, AckedIsHeld
  <2>5. \A i \in Images : i # opened => Content'[i] = Content[i]
    BY <2>3 DEF Content, Held
  <2>6. Content'[opened] \in {Plan!Whole(opened), Plan!Torn}
    <3>1. opened # 0 /\ Chunks[opened] > 0
      BY <2>3, ConstantFacts DEF Images
    <3>2. ~ \A a \in Packets(opened) : buffer'[opened][a] = 0
      BY <2>3, <3>1
    <3> QED
      BY <2>3, <3>1, <3>2 DEF Content, Held, Plan!Whole, Plan!Torn
  <2>7. Content' = [Content EXCEPT ![opened] = Content'[opened]]
    <3>1. /\ Content = [i \in Images |-> Content[i]]
          /\ Content' = [i \in Images |-> Content'[i]]
      BY DEF Content
    <3> QED
      BY <2>5, <3>1
  <2>8. Plan!WritePartition(opened)
    BY <2>3, <2>4, <2>6, <2>7 DEF Plan!WritePartition, Plan!Copies
  <2> QED
    BY <2>3, <2>8 DEF Plan!PlanNext, Images, Plan!Images
<1> QED
  BY <1>1, <1>2, Inductive, PTL DEF Spec, FollowsPlan, Plan!PlanSpec
==============================================================================
