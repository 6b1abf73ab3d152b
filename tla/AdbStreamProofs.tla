--------------------------- MODULE AdbStreamProofs ---------------------------
(***************************************************************************)
(* What comes through the streams of adb (AdbHost), for any number of calls *)
(* of any kind on one object.                                               *)
(*                                                                         *)
(* The response of a shell command holds this command's bytes, in order     *)
(* and, as long as the device is there, all of them.  The argument: on the  *)
(* bus a call leaves nothing to read behind.  A call of the sync protocol   *)
(* returns on the CLSE of the device only, which is the last thing its      *)
(* stream writes; a shell returns on the CLSE that follows the output (it   *)
(* does not when it runs out of memory: that is where the argument, and     *)
(* what it shows, ends); a restart reads the one packet it causes.  So the  *)
(* first packet that a call reads answers its own CNXN, the second its own  *)
(* OPEN, and what handle_shell_response reads is the output.                *)
(*                                                                         *)
(* A file is copied whole and in order.  What an earlier call may leave is  *)
(* the rest of a packet in packet_buffer, in which there is no STAT: a call *)
(* that meets it there fails in sync_readmode.  One that goes on has an     *)
(* empty buffer and a stream of its own; then every DATA is followed by the *)
(* bytes it names, and no OKAY answers DONE before the file is stored.      *)
(***************************************************************************)
EXTENDS AdbHostProofs

-----------------------------------------------------------------------------
(* The invariant. *)

\* The bytes of call m from k + 1 on.
Numbered(s, m, k) == \A i \in 1 .. Len(s) : s[i] = <<"byte", m, k + i>>

Quiet(q) == \A i \in 1 .. Len(q) : q[i].cmd \in {"WRTE", "OKAY", "CLSE"}
Silent == dev.out = <<>> /\ dev.reading = -1

\* Between two calls.  What the device has yet to read it does not answer.
AtRest ==
    /\ toHost = <<>> /\ Silent
    /\ \/ dev.service = "none" /\ Quiet(toDev)
       \/ dev.service = "reboot" /\ toDev = <<>>

\* connect: CNXN is on its way, then its answer.
Asked ==
    /\ toHost = <<>> /\ Silent /\ toDev # <<>> /\ toDev[Len(toDev)] = Msg("CNXN")
    /\ dev.service \in {"none", "reboot"}
    /\ dev.service = "reboot" => Len(toDev) = 1
    /\ \A i \in 1 .. Len(toDev) - 1 : toDev[i].cmd \in {"WRTE", "OKAY", "CLSE"}
Connected == toDev = <<>> /\ toHost = <<Msg("CNXN")>> /\ dev = NoStream

\* The bytes of the output are in the response, in the packet under way and in the device.
Counted(r, d) ==
    /\ Numbered(r, call, 0) /\ Numbered(d, call, Len(r))
    /\ Numbered(dev.out, call, Len(r) + Len(d))
    /\ dev.wrote = Len(r) + Len(d) + Len(dev.out)

\* A shell's stream, with q left to read and r in the response: the shell may write; its
\* WRTE is under way; its OKAY is; the command has ended.
MayWrite(q, r) ==
    /\ dev.service = "shell" /\ dev.busy = FALSE /\ q = <<>> /\ toDev = <<>> /\ Counted(r, <<>>)
Wrote(q, r) ==
    /\ dev.service = "shell" /\ dev.busy = TRUE /\ Len(q) = 1 /\ q[1].cmd = "WRTE"
    /\ toDev = <<>> /\ Counted(r, q[1].data)
Answered(q, r) ==
    /\ dev.service = "shell" /\ dev.busy = TRUE /\ q = <<>> /\ toDev = <<Msg("OKAY")>>
    /\ Counted(r, <<>>)
Ended(q, r) ==
    /\ dev.service = "none" /\ q = <<Msg("CLSE")>> /\ toDev = <<>> /\ dev.out = <<>>
    /\ Counted(r, <<>>)
Output(q, r) ==
    /\ op = "shell" /\ dev.reading = -1
    /\ MayWrite(q, r) \/ Wrote(q, r) \/ Answered(q, r) \/ Ended(q, r)

\* open_service: OPEN is on its way, was refused, or the stream is open.
Opening == toDev = <<Packet("OPEN", <<Header(op, call)>>)>> /\ toHost = <<>> /\ dev = NoStream
Refused == toDev = <<>> /\ toHost = <<Msg("CLSE")>> /\ dev = NoStream
OpenedShell == toHost # <<>> /\ Head(toHost).cmd = "OKAY" /\ Output(Tail(toHost), <<>>)
OpenedOther ==
    /\ op # "shell" /\ toHost = <<Msg("OKAY")>> /\ toDev = <<>> /\ Silent /\ dev.service = op

\* A stream of the sync protocol, or one that is closed: CLSE is the last packet of the device.
SyncFlow ==
    /\ Quiet(toDev) /\ Quiet(toHost)
    /\ dev.service \in {"push", "pull", "none"}
    /\ dev.service = "none" => Silent
    /\ \A i \in 1 .. Len(toHost) :
           toHost[i].cmd = "CLSE" => i = Len(toHost) /\ dev.service = "none"

Streaming == Sync \cup Reading \cup {"closing", "waiting"}

Stage ==
    /\ pc = "idle" => AtRest
    /\ pc = "connect" => Asked \/ Connected
    /\ pc = "open" => Opening \/ Refused \/ OpenedShell \/ OpenedOther
    /\ pc = "shell" => Output(toHost, response)
    /\ pc \in Streaming => SyncFlow

\* What the response holds; a shell whose stream was refused has failed.
Whole ==
    /\ pc = "shell" => op = "shell" /\ Numbered(response, call, 0)
    /\ pc = "idle" /\ op = "shell" /\ ret = 0 /\ call > 0 =>
           Numbered(response, call, 0) /\ (onBus = TRUE => Len(response) = dev.wrote)
    /\ pc \in {"closing", "waiting"} /\ op = "shell" => ret = -1
    /\ pc \in Sync \cup Reading => op # "shell"

OffBus == onBus = FALSE => toDev = <<>> /\ toHost = <<>>

Calm == (onBus = TRUE => Stage) /\ Whole /\ OffBus
WholeInd == AdbInd /\ Calm

-----------------------------------------------------------------------------
(* Sequences. *)

LEMMA TailOf ==
    ASSUME NEW S, NEW q \in Seq(S), q # <<>>
    PROVE  /\ Tail(q) \in Seq(S) /\ Head(q) = q[1] /\ Len(q) \in Nat /\ Len(q) >= 1
           /\ Len(Tail(q)) = Len(q) - 1
           /\ \A i \in 1 .. Len(Tail(q)) : Tail(q)[i] = q[i + 1] /\ i + 1 \in 1 .. Len(q)
OBVIOUS

LEMMA JoinOf ==
    ASSUME NEW S, NEW s \in Seq(S), NEW t \in Seq(S)
    PROVE  /\ s \o t \in Seq(S) /\ Len(s) \in Nat /\ Len(t) \in Nat /\ Len(s \o t) = Len(s) + Len(t)
           /\ \A i \in 1 .. Len(s) : (s \o t)[i] = s[i]
           /\ \A i \in Len(s) + 1 .. Len(s) + Len(t) : (s \o t)[i] = t[i - Len(s)]
OBVIOUS

LEMMA OneOf ==
    ASSUME NEW S, NEW p \in S
    PROVE  /\ <<p>> \in Seq(S) /\ <<p>> # <<>> /\ Len(<<p>>) = 1 /\ Head(<<p>>) = p
           /\ Tail(<<p>>) = <<>> /\ <<>> \o <<p>> = <<p>> /\ <<p>>[1] = p
OBVIOUS

LEMMA LengthZero ==
    ASSUME NEW S, NEW q \in Seq(S), Len(q) = 0
    PROVE  q = <<>>
OBVIOUS

LEMMA LengthOne ==
    ASSUME NEW S, NEW q \in Seq(S), Len(q) = 1
    PROVE  q = <<q[1]>> /\ q[1] \in S /\ q # <<>> /\ Tail(q) = <<>> /\ Head(q) = q[1]
<1>1. q[1] \in S /\ q # <<>> /\ Head(q) = q[1]
  OBVIOUS
<1>2. Tail(q) \in Seq(S) /\ Len(Tail(q)) = 0
  BY <1>1, TailOf
<1>3. Tail(q) = <<>>
  BY <1>2, LengthZero
<1>4. q = [i \in 1 .. 1 |-> q[i]] /\ <<q[1]>> = [i \in 1 .. 1 |-> q[1]]
  OBVIOUS
<1>5. q = <<q[1]>>
  BY <1>4
<1> QED BY <1>1, <1>3, <1>5

LEMMA LastOf ==
    ASSUME NEW S, NEW q \in Seq(S), q # <<>>, Tail(q) = <<>>
    PROVE  Len(q) = 1
<1>1. Len(q) \in Nat /\ Len(Tail(q)) = Len(q) - 1 /\ Len(Tail(q)) = 0
  BY TailOf
<1> QED BY <1>1

LEMMA TwoOf ==
    ASSUME NEW S, NEW q \in Seq(S), Len(q) = 1, NEW p \in S
    PROVE  q \o <<p>> # <<>> /\ Head(q \o <<p>>) = Head(q) /\ Tail(q \o <<p>>) = <<p>>
<1> DEFINE t == q \o <<p>>
<1>1. /\ t \in Seq(S) /\ Len(t) = 2 /\ t[1] = q[1] /\ t[2] = p
  <2>1. <<p>> \in Seq(S) /\ Len(<<p>>) = 1 /\ <<p>>[1] = p
    BY OneOf
  <2> QED BY <2>1, JoinOf
<1>2. Head(q) = q[1]
  BY LengthOne
<1> HIDE DEF t
<1>3. t # <<>> /\ Head(t) = t[1] /\ Tail(t) \in Seq(S) /\ Len(Tail(t)) = 1 /\ Tail(t)[1] = t[2]
  <2>1. t # <<>>
    BY <1>1
  <2>2. /\ Head(t) = t[1] /\ Tail(t) \in Seq(S) /\ Len(Tail(t)) = Len(t) - 1
        /\ \A i \in 1 .. Len(Tail(t)) : Tail(t)[i] = t[i + 1]
    BY <1>1, <2>1, TailOf
  <2>3. Len(Tail(t)) = 1
    BY <1>1, <2>2
  <2>4. Tail(t)[1] = t[2]
    <3> DEFINE u == Tail(t)
               n == Len(u)
    <3>1. n = 1 /\ \A i \in 1 .. n : u[i] = t[i + 1]
      BY <2>2, <2>3
    <3> HIDE DEF u, n
    <3>2. 1 \in 1 .. n /\ 1 + 1 = 2
      BY <3>1
    <3>3. u[1] = t[1 + 1]
      BY <3>1, <3>2
    <3> QED BY <3>2, <3>3 DEF u
  <2> QED BY <2>1, <2>2, <2>3, <2>4
<1>4. Tail(t) = <<Tail(t)[1]>>
  BY <1>3, LengthOne
<1> QED BY <1>1, <1>2, <1>3, <1>4 DEF t

LEMMA NumberedJoin ==
    ASSUME NEW S, NEW s \in Seq(S), NEW t \in Seq(S), NEW m, NEW k \in Nat,
           Numbered(s, m, k), Numbered(t, m, k + Len(s))
    PROVE  Numbered(s \o t, m, k)
<1> DEFINE u == s \o t
           a == Len(s)
           b == Len(t)
<1>1. /\ a \in Nat /\ b \in Nat /\ Len(u) = a + b
      /\ \A i \in 1 .. a : u[i] = s[i]
      /\ \A i \in a + 1 .. a + b : u[i] = t[i - a]
  BY JoinOf
<1>2. ASSUME NEW i \in 1 .. a + b PROVE u[i] = <<"byte", m, k + i>>
  <2> HIDE DEF u
  <2>1. CASE i \in 1 .. a
    BY <1>1, <2>1 DEF Numbered
  <2>2. CASE i \in a + 1 .. a + b
    <3>1. i - a \in 1 .. b /\ k + a + (i - a) = k + i
      BY <1>1, <2>2
    <3>2. t[i - a] = <<"byte", m, k + a + (i - a)>>
      BY <3>1 DEF Numbered
    <3> QED BY <1>1, <2>2, <3>1, <3>2
  <2> QED BY <1>1, <2>1, <2>2
<1> QED BY <1>1, <1>2 DEF Numbered

LEMMA NumberedPart ==
    ASSUME NEW S, NEW s \in Seq(S), NEW m, NEW k \in Nat, Numbered(s, m, k), NEW n \in 1 .. Len(s)
    PROVE  /\ Numbered(SubSeq(s, 1, n), m, k)
           /\ Numbered(SubSeq(s, n + 1, Len(s)), m, k + n)
           /\ Len(SubSeq(s, 1, n)) = n /\ Len(SubSeq(s, n + 1, Len(s))) = Len(s) - n
<1> DEFINE a == SubSeq(s, 1, n)
           b == SubSeq(s, n + 1, Len(s))
<1>0. Len(s) \in Nat /\ n \in Nat /\ n >= 1 /\ n <= Len(s)
  OBVIOUS
<1>1. Len(a) = n /\ \A i \in 1 .. n : a[i] = s[i]
  BY <1>0
<1>2. Len(b) = Len(s) - n /\ \A i \in 1 .. Len(s) - n : b[i] = s[n + i]
  BY <1>0
<1> HIDE DEF a, b
<1>3. ASSUME NEW i \in 1 .. Len(a) PROVE a[i] = <<"byte", m, k + i>>
  <2>1. i \in 1 .. n /\ i \in 1 .. Len(s)
    BY <1>0, <1>1
  <2>2. s[i] = <<"byte", m, k + i>>
    BY <2>1 DEF Numbered
  <2> QED BY <1>1, <2>1, <2>2
<1>4. ASSUME NEW i \in 1 .. Len(b) PROVE b[i] = <<"byte", m, (k + n) + i>>
  <2>1. n + i \in 1 .. Len(s) /\ k + (n + i) = (k + n) + i
    BY <1>0, <1>2
  <2>2. s[n + i] = <<"byte", m, k + (n + i)>>
    BY <2>1 DEF Numbered
  <2> QED BY <1>2, <2>1, <2>2
<1> QED BY <1>1, <1>2, <1>3, <1>4 DEF Numbered, a, b

LEMMA NumberedBytes ==
    ASSUME NEW m \in Nat, NEW n \in Nat
    PROVE  Numbered(Bytes(m, n), m, 0) /\ Numbered(<<>>, m, n)
<1>1. Len(Bytes(m, n)) = n
  BY BytesType
<1>2. \A i \in 1 .. n : Bytes(m, n)[i] = <<"byte", m, 0 + i>>
  BY DEF Bytes
<1> QED BY <1>1, <1>2 DEF Numbered

LEMMA NumberedIs ==
    ASSUME NEW S, NEW s \in Seq(S), NEW m, Numbered(s, m, 0)
    PROVE  s = Bytes(m, Len(s))
<1>1. Len(s) \in Nat /\ s = [i \in 1 .. Len(s) |-> s[i]]
  OBVIOUS
<1>2. \A i \in 1 .. Len(s) : s[i] = <<"byte", m, i>>
  BY <1>1 DEF Numbered
<1> QED BY <1>1, <1>2 DEF Bytes

-----------------------------------------------------------------------------
(* The host. *)

\* What the invariant says of the types that the steps below need.
LEMMA Typed ==
    ASSUME AdbInd
    PROVE  /\ toDev \in Seq(Packets) /\ toHost \in Seq(Packets) /\ onBus \in BOOLEAN
           /\ call \in Nat /\ op \in Calls /\ response \in Seq(Elements) /\ dev \in DevType
           /\ dev.out \in Seq(Elements) /\ dev.wrote \in Nat
BY DEF AdbInd, AdbTypeOK, DevType

LEMMA MsgIs ==
    /\ Msg("CNXN").cmd = "CNXN" /\ Msg("CLSE").cmd = "CLSE" /\ Msg("OKAY").cmd = "OKAY"
    /\ Msg("zero").cmd = "zero"
BY DEF Msg, Packet

\* The host reads: what is there, or, off the bus, nothing.
LEMMA ReadIs ==
    ASSUME WholeInd, CanRead, Taken
    PROVE  /\ onBus = TRUE => toHost # <<>> /\ Got = Head(toHost) /\ toHost' = Tail(toHost)
           /\ onBus = FALSE => Got = Msg("zero") /\ toHost' = toHost
BY DEF CanRead, Taken, Got, WholeInd, Calm, OffBus

LEMMA SendIs ==
    ASSUME NEW ps, Send(ps)
    PROVE  (onBus = TRUE => toDev' = toDev \o ps) /\ (onBus = FALSE => toDev' = toDev)
BY DEF Send

LEMMA BeginCalm ==
    ASSUME WholeInd, Begin
    PROVE  Calm'
<1>0. AdbInd /\ Calm /\ toDev \in Seq(Packets) /\ onBus \in BOOLEAN
  BY Typed DEF WholeInd
<1>1. /\ pc = "idle" /\ pc' = "connect" /\ Send(<<Msg("CNXN")>>)
      /\ toHost' = toHost /\ onBus' = onBus /\ dev' = dev
  BY DEF Begin
<1>2. Whole'
  BY <1>1 DEF Whole, Sync, Reading
<1>3. OffBus'
  BY <1>0, <1>1, SendIs DEF Calm, OffBus
<1>4. CASE onBus = TRUE
  <2>1. AtRest
    BY <1>0, <1>1, <1>4 DEF Calm, Stage
  <2>2. toDev' = toDev \o <<Msg("CNXN")>>
    BY <1>1, <1>4, SendIs
  <2>3. <<Msg("CNXN")>> \in Seq(Packets) /\ Len(<<Msg("CNXN")>>) = 1
    BY Msgs, OneOf
  <2>4. /\ Len(toDev) \in Nat /\ Len(toDev') = Len(toDev) + 1
        /\ \A i \in 1 .. Len(toDev) : toDev'[i] = toDev[i]
        /\ toDev'[Len(toDev) + 1] = Msg("CNXN")
    BY <1>0, <2>2, <2>3, JoinOf
  <2>5. toDev' # <<>> /\ toDev'[Len(toDev')] = Msg("CNXN")
    BY <2>4
  <2>6. toDev = <<>> => Len(toDev') = 1
    BY <2>4
  <2>7. \A i \in 1 .. Len(toDev') - 1 : i \in 1 .. Len(toDev)
    BY <2>4
  <2>8. \A i \in 1 .. Len(toDev) : toDev[i].cmd \in {"WRTE", "OKAY", "CLSE"}
    BY <2>1 DEF AtRest, Quiet
  <2>9. Asked'
    BY <1>1, <2>1, <2>4, <2>5, <2>6, <2>7, <2>8 DEF Asked, AtRest, Silent
  <2> QED BY <1>1, <1>2, <1>3, <2>9 DEF Calm, Stage, Streaming, Sync, Reading
<1> QED BY <1>0, <1>1, <1>2, <1>3, <1>4 DEF Calm

LEMMA ConnectCalm ==
    ASSUME WholeInd, handle_connect_response
    PROVE  Calm'
<1>0. AdbInd /\ Calm /\ onBus \in BOOLEAN /\ op \in Calls /\ call \in Nat
  BY Typed DEF WholeInd
<1>1. /\ pc = "connect" /\ CanRead /\ Taken /\ onBus' = onBus /\ dev' = dev /\ op' = op /\ call' = call
      /\ \/ /\ Got.cmd = "CNXN" /\ pc' = "open"
            /\ Send(<<Packet("OPEN", <<Header(op, call)>>)>>)
         \/ Got.cmd # "CNXN" /\ pc' = "idle" /\ ret' = -1 /\ toDev' = toDev
  BY DEF handle_connect_response, Return
<1>2. Whole'
  BY <1>1 DEF Whole, Sync, Reading
<1>3. CASE onBus = FALSE
  <2>1. toHost' = toHost /\ toDev' = toDev
    BY <1>1, <1>3, ReadIs, SendIs
  <2> QED BY <1>0, <1>1, <1>2, <1>3, <2>1 DEF Calm, OffBus
<1>4. CASE onBus = TRUE
  <2>1. toHost # <<>> /\ Got = Head(toHost) /\ toHost' = Tail(toHost)
    BY <1>1, <1>4, ReadIs
  <2>2. Connected
    BY <1>0, <1>1, <1>4, <2>1 DEF Calm, Stage, Asked
  <2>3. Got = Msg("CNXN") /\ toHost' = <<>>
    BY <2>1, <2>2, Msgs, OneOf DEF Connected
  <2>4. pc' = "open" /\ Send(<<Packet("OPEN", <<Header(op, call)>>)>>)
    BY <1>1, <2>3, MsgIs
  <2>5. toDev' = <<>> \o <<Packet("OPEN", <<Header(op, call)>>)>>
    BY <1>4, <2>2, <2>4, SendIs DEF Connected
  <2>6. Packet("OPEN", <<Header(op, call)>>) \in Packets
    BY <1>0, RequestType DEF Cmds, Ids
  <2>7. toDev' = <<Packet("OPEN", <<Header(op, call)>>)>>
    BY <2>5, <2>6, OneOf
  <2>8. Opening'
    BY <1>1, <2>2, <2>3, <2>7 DEF Opening, Connected
  <2>9. Stage'
    BY <2>4, <2>8 DEF Stage, Streaming, Sync, Reading
  <2> QED BY <1>1, <1>2, <1>4, <2>9 DEF Calm, OffBus
<1> QED BY <1>0, <1>3, <1>4

LEMMA OpenCalm ==
    ASSUME WholeInd, handle_open_response, memory' = "sound"
    PROVE  Calm'
<1>0. AdbInd /\ Calm /\ onBus \in BOOLEAN /\ op \in Calls /\ call \in Nat /\ toHost \in Seq(Packets)
  BY Typed DEF WholeInd
<1>1. /\ pc = "open" /\ CanRead /\ Taken /\ onBus' = onBus /\ dev' = dev /\ op' = op /\ call' = call
  BY DEF handle_open_response
<1>2. CASE Got.cmd = "CLSE"
  <2>1. pc' = "closing" /\ (op = "shell" => ret' = -1) /\ Send(<<Msg("CLSE")>>)
    BY <1>2 DEF handle_open_response
  <2>2. Whole'
    BY <1>1, <2>1 DEF Whole, Sync, Reading
  <2>3. CASE onBus = FALSE
    BY <1>1, <1>2, <2>3, ReadIs, MsgIs
  <2>4. CASE onBus = TRUE
    <3>1. toHost # <<>> /\ Got = Head(toHost) /\ toHost' = Tail(toHost)
      BY <1>1, <2>4, ReadIs
    <3>2. Refused
      <4>1. Opening \/ Refused \/ OpenedShell \/ OpenedOther
        BY <1>0, <1>1, <2>4 DEF Calm, Stage
      <4>2. ~Opening /\ ~OpenedShell
        BY <1>2, <3>1 DEF Opening, OpenedShell
      <4>3. ~OpenedOther
        BY <1>2, <3>1, MsgIs, Msgs, OneOf DEF OpenedOther
      <4> QED BY <4>1, <4>2, <4>3
    <3>3. toHost' = <<>>
      BY <3>1, <3>2, Msgs, OneOf DEF Refused
    <3>4. toDev' = <<Msg("CLSE")>>
      BY <2>1, <2>4, <3>2, SendIs, Msgs, OneOf DEF Refused
    <3>5. Quiet(toDev') /\ Quiet(toHost')
      BY <3>3, <3>4, Msgs, MsgIs, OneOf DEF Quiet
    <3>6. dev'.service = "none" /\ Silent'
      BY <1>1, <3>2 DEF Refused, NoStream, Silent
    <3>7. SyncFlow'
      BY <3>3, <3>5, <3>6 DEF SyncFlow
    <3>8. Stage'
      BY <2>1, <3>7 DEF Stage
    <3> QED BY <1>1, <2>2, <2>4, <3>8 DEF Calm, OffBus
  <2> QED BY <1>0, <2>3, <2>4
<1>3. CASE Got.cmd # "CLSE"
  <2>1. toDev' = toDev
    BY <1>3 DEF handle_open_response
  <2>2. \/ op = "shell" /\ pc' = "shell" /\ response' = <<>>
        \/ op = "reboot" /\ pc' = "idle"
        \/ op \in Sync /\ pc' = op
    BY <1>0, <1>3 DEF handle_open_response, NewBuffer, NoMemory, Return, Calls, Sync
  <2>3. Whole'
    <3>1. Numbered(<<>>, call, 0)
      BY <1>0, NumberedBytes
    <3> QED BY <1>1, <2>2, <3>1 DEF Whole, Sync, Reading
  <2>4. CASE onBus = FALSE
    <3>1. toHost' = toHost
      BY <1>1, <2>4, ReadIs
    <3> QED BY <1>0, <1>1, <2>1, <2>3, <2>4, <3>1 DEF Calm, OffBus
  <2>5. CASE onBus = TRUE
    <3>1. toHost # <<>> /\ Got = Head(toHost) /\ toHost' = Tail(toHost)
      BY <1>1, <2>5, ReadIs
    <3>2. OpenedShell \/ OpenedOther
      <4>1. Opening \/ Refused \/ OpenedShell \/ OpenedOther
        BY <1>0, <1>1, <2>5 DEF Calm, Stage
      <4>2. ~Opening
        BY <3>1 DEF Opening
      <4>3. ~Refused
        BY <1>3, <3>1, MsgIs, Msgs, OneOf DEF Refused
      <4> QED BY <4>1, <4>2, <4>3
    <3>3. CASE OpenedShell
      <4>1. op = "shell" /\ Output(Tail(toHost), <<>>)
        BY <3>3 DEF OpenedShell, Output
      <4>2. pc' = "shell" /\ response' = <<>>
        BY <2>2, <4>1 DEF Sync
      <4>3. Output(toHost, response)'
        BY <1>1, <2>1, <3>1, <4>1, <4>2
           DEF Output, MayWrite, Wrote, Answered, Ended, Counted
      <4>4. Stage'
        BY <4>2, <4>3 DEF Stage, Streaming, Sync, Reading
      <4> QED BY <1>1, <2>3, <2>5, <4>4 DEF Calm, OffBus
    <3>4. CASE OpenedOther
      <4>1. toHost' = <<>>
        BY <3>1, <3>4, Msgs, OneOf DEF OpenedOther
      <4>2. Quiet(toDev') /\ Quiet(toHost')
        BY <2>1, <3>4, <4>1 DEF Quiet, OpenedOther
      <4>3. CASE op = "reboot"
        <5>1. AtRest'
          BY <1>1, <2>1, <3>4, <4>1, <4>3 DEF AtRest, OpenedOther, Silent
        <5> QED BY <1>1, <2>2, <2>3, <2>5, <4>3, <5>1
                DEF Calm, OffBus, Stage, Streaming, Sync, Reading
      <4>4. CASE op \in Sync
        <5>1. SyncFlow'
          BY <1>1, <3>4, <4>1, <4>2, <4>4 DEF SyncFlow, OpenedOther, Silent, Sync
        <5> QED BY <1>1, <2>2, <2>3, <2>5, <4>4, <5>1
                DEF Calm, OffBus, Stage, Streaming, Sync, Reading
      <4> QED BY <2>2, <3>4, <4>3, <4>4 DEF OpenedOther
    <3> QED BY <3>2, <3>3, <3>4
  <2> QED BY <1>0, <2>4, <2>5
<1> QED BY <1>2, <1>3

LEMMA ShellCalm ==
    ASSUME WholeInd, handle_shell_response, memory' = "sound"
    PROVE  Calm'
<1>0. /\ AdbInd /\ Calm /\ onBus \in BOOLEAN /\ call \in Nat /\ toHost \in Seq(Packets)
      /\ response \in Seq(Elements) /\ Len(response) \in Nat
  BY Typed DEF WholeInd
<1>1. /\ pc = "shell" /\ toHost # <<>> /\ Taken /\ onBus' = onBus /\ dev' = dev /\ op' = op
      /\ call' = call
  BY DEF handle_shell_response
<1>2. onBus = TRUE /\ Got = Head(toHost) /\ toHost' = Tail(toHost)
  BY <1>0, <1>1 DEF Calm, OffBus, Taken, Got
<1>3. Output(toHost, response) /\ op = "shell" /\ Numbered(response, call, 0)
  BY <1>0, <1>1, <1>2 DEF Calm, Stage, Whole
<1>4. <<Msg("OKAY")>> \in Seq(Packets) /\ <<>> \o <<Msg("OKAY")>> = <<Msg("OKAY")>>
  BY Msgs, OneOf
<1>5. CASE Wrote(toHost, response)
  <2> DEFINE d == toHost[1].data
  <2>1. /\ toHost[1].cmd = "WRTE" /\ toDev = <<>> /\ Counted(response, d) /\ Len(toHost) = 1
        /\ dev.service = "shell" /\ dev.busy = TRUE
    BY <1>5 DEF Wrote
  <2>2. Got = toHost[1] /\ toHost' = <<>> /\ toHost[1] \in Packets
    BY <1>0, <1>2, <2>1, LengthOne
  <2>3. response' = response \o d /\ Send(<<Msg("OKAY")>>) /\ pc' = pc /\ ret' = ret
    BY <2>1, <2>2 DEF handle_shell_response, Collect, GrowMoved, GrowFailed, NoMemory
  <2>4. toDev' = <<Msg("OKAY")>>
    BY <1>2, <1>4, <2>1, <2>3, SendIs
  <2>5. d \in Seq(Elements) /\ Len(d) \in Nat
    BY <2>2, PacketFields
  <2> HIDE DEF d
  <2>6. Numbered(response, call, 0) /\ Numbered(d, call, Len(response))
    BY <2>1 DEF Counted
  <2>7. Numbered(response', call, 0)
    <3>1. 0 \in Nat /\ 0 + Len(response) = Len(response)
      BY <1>0
    <3> QED BY <1>0, <2>3, <2>5, <2>6, <3>1, NumberedJoin
  <2>8. Len(response') = Len(response) + Len(d)
    BY <1>0, <2>3, <2>5
  <2>9. Counted(response, <<>>)'
    <3>1. Len(<<>>) = 0 /\ Len(response') + 0 = Len(response) + Len(d)
      BY <1>0, <2>5, <2>8
    <3>2. Numbered(<<>>, call, Len(response'))
      BY DEF Numbered
    <3> QED BY <1>1, <2>1, <2>7, <3>1, <3>2 DEF Counted
  <2>10. Output(toHost, response)'
    BY <1>1, <1>3, <2>1, <2>2, <2>4, <2>9 DEF Output, Answered
  <2>11. Stage'
    BY <1>1, <2>3, <2>10 DEF Stage, Streaming, Sync, Reading
  <2>12. Whole'
    BY <1>1, <1>3, <2>3, <2>7 DEF Whole, Sync, Reading
  <2> QED BY <1>1, <1>2, <2>11, <2>12 DEF Calm, OffBus
<1>6. CASE Ended(toHost, response)
  <2>1. toHost = <<Msg("CLSE")>> /\ toDev = <<>> /\ dev.out = <<>> /\ Counted(response, <<>>)
        /\ dev.service = "none"
    BY <1>6 DEF Ended
  <2>2. Got = Msg("CLSE") /\ toHost' = <<>>
    BY <1>2, <2>1, Msgs, OneOf
  <2>3. /\ pc' = "idle" /\ Send(<<Msg("OKAY")>>) /\ response' = response
    BY <2>2, MsgIs DEF handle_shell_response, Return, shellBuffer
  <2>4. toDev' = <<Msg("OKAY")>>
    BY <1>2, <1>4, <2>1, <2>3, SendIs
  <2>5. Quiet(toDev')
    BY <2>4, Msgs, MsgIs, OneOf DEF Quiet
  <2>6. AtRest'
    BY <1>1, <1>3, <2>1, <2>2, <2>5 DEF AtRest, Silent, Output
  <2>7. Len(response) = dev.wrote
    BY <1>0, <2>1 DEF Counted
  <2>8. Whole'
    BY <1>1, <1>3, <2>3, <2>7 DEF Whole, Sync, Reading
  <2>9. Stage'
    BY <2>3, <2>6 DEF Stage, Streaming, Sync, Reading
  <2> QED BY <1>1, <1>2, <2>8, <2>9 DEF Calm, OffBus
<1>7. ~MayWrite(toHost, response) /\ ~Answered(toHost, response)
  BY <1>1 DEF MayWrite, Answered
<1> QED BY <1>3, <1>5, <1>6, <1>7 DEF Output

LEMMA LostCalm ==
    ASSUME WholeInd, OutputLost
    PROVE  Calm'
<1>0. Calm /\ onBus \in BOOLEAN
  BY Typed DEF WholeInd
<1>1. /\ pc = "shell" /\ onBus = FALSE /\ pc' = "idle" /\ toDev' = toDev /\ toHost' = toHost
      /\ onBus' = onBus /\ op' = op /\ call' = call /\ response' = response
  BY <1>0 DEF OutputLost, Return, shellBuffer
<1>2. Whole'
  BY <1>0, <1>1 DEF Calm, Whole, Sync, Reading
<1> QED BY <1>0, <1>1, <1>2 DEF Calm, OffBus

\* A stream of the sync protocol goes on: the host writes and reads.
LEMMA FlowGoesOn ==
    ASSUME SyncFlow, toDev \in Seq(Packets), toHost \in Seq(Packets), dev' = dev,
           \/ toDev' = toDev
           \/ \E ps \in Seq(Packets) : Quiet(ps) /\ toDev' = toDev \o ps,
           toHost' = toHost \/ (toHost # <<>> /\ toHost' = Tail(toHost))
    PROVE  SyncFlow'
<1>1. Quiet(toDev')
  <2>1. CASE toDev' = toDev
    BY <2>1 DEF SyncFlow
  <2>2. ASSUME NEW ps \in Seq(Packets), Quiet(ps), toDev' = toDev \o ps PROVE Quiet(toDev')
    <3> DEFINE a == Len(toDev)
               b == Len(ps)
    <3>1. /\ a \in Nat /\ b \in Nat /\ Len(toDev') = a + b
          /\ \A i \in 1 .. a : toDev'[i] = toDev[i]
          /\ \A i \in a + 1 .. a + b : toDev'[i] = ps[i - a]
      BY <2>2, JoinOf
    <3> SUFFICES ASSUME NEW i \in 1 .. Len(toDev')
                 PROVE  toDev'[i].cmd \in {"WRTE", "OKAY", "CLSE"}
      BY DEF Quiet
    <3>2. \A j \in 1 .. a : toDev[j].cmd \in {"WRTE", "OKAY", "CLSE"}
      BY DEF SyncFlow, Quiet
    <3>3. \A j \in 1 .. b : ps[j].cmd \in {"WRTE", "OKAY", "CLSE"}
      BY <2>2 DEF Quiet
    <3> HIDE DEF a, b
    <3>4. i \in 1 .. a \/ (i \in a + 1 .. a + b /\ i - a \in 1 .. b)
      BY <3>1
    <3> QED BY <3>1, <3>2, <3>3, <3>4
  <2> QED BY <2>1, <2>2
<1>2. CASE toHost' = toHost
  BY <1>1, <1>2 DEF SyncFlow, Silent
<1>3. CASE toHost # <<>> /\ toHost' = Tail(toHost)
  <2>1. /\ Len(toHost) \in Nat /\ Len(toHost') = Len(toHost) - 1
        /\ \A i \in 1 .. Len(toHost') : toHost'[i] = toHost[i + 1] /\ i + 1 \in 1 .. Len(toHost)
    BY <1>3, TailOf
  <2>2. Quiet(toHost')
    BY <2>1 DEF SyncFlow, Quiet
  <2>3. ASSUME NEW i \in 1 .. Len(toHost'), toHost'[i].cmd = "CLSE"
        PROVE  i = Len(toHost') /\ dev.service = "none"
    <3>1. i + 1 = Len(toHost) /\ dev.service = "none"
      BY <2>1, <2>3 DEF SyncFlow
    <3>2. i = Len(toHost')
      BY <2>1, <3>1
    <3> QED BY <3>1, <3>2
  <2> QED BY <1>1, <2>2, <2>3 DEF SyncFlow, Silent
<1> QED BY <1>2, <1>3

LEMMA SyncCalm ==
    ASSUME WholeInd, pc \in Sync \cup Reading, pc' \in Sync \cup Reading \cup {"closing", "crashed"},
           op' = op, dev' = dev, onBus' = onBus,
           \/ toDev' = toDev
           \/ \E ps \in Seq(Packets) : Quiet(ps) /\ Send(ps),
           toHost' = toHost \/ (CanRead /\ Taken)
    PROVE  Calm'
<1>0. AdbInd /\ Calm /\ onBus \in BOOLEAN /\ toDev \in Seq(Packets) /\ toHost \in Seq(Packets)
  BY Typed DEF WholeInd
<1>1. op # "shell"
  BY <1>0 DEF Calm, Whole
<1>2. Whole'
  BY <1>1 DEF Whole, Sync, Reading
<1>3. CASE onBus = FALSE
  <2>1. toDev' = toDev
    BY <1>3, SendIs
  <2>2. toHost' = toHost
    BY <1>3, ReadIs
  <2> QED BY <1>0, <1>2, <1>3, <2>1, <2>2 DEF Calm, OffBus
<1>4. CASE onBus = TRUE
  <2>1. SyncFlow
    BY <1>0, <1>4 DEF Calm, Stage, Streaming
  <2>2. \/ toDev' = toDev
        \/ \E ps \in Seq(Packets) : Quiet(ps) /\ toDev' = toDev \o ps
    BY <1>4, SendIs
  <2>3. toHost' = toHost \/ (toHost # <<>> /\ toHost' = Tail(toHost))
    BY <1>4, ReadIs
  <2>4. SyncFlow'
    BY <1>0, <2>1, <2>2, <2>3, FlowGoesOn
  <2>5. Stage'
    BY <2>4 DEF Stage, Streaming, Sync, Reading
  <2> QED BY <1>2, <1>4, <2>5 DEF Calm, OffBus
<1> QED BY <1>0, <1>3, <1>4

\* What the host writes on such a stream.
LEMMA QuietOne ==
    ASSUME NEW p \in Packets, p.cmd \in {"WRTE", "OKAY", "CLSE"}
    PROVE  <<p>> \in Seq(Packets) /\ Quiet(<<p>>)
<1>1. <<p>> \in Seq(Packets) /\ Len(<<p>>) = 1 /\ <<p>>[1] = p
  BY OneOf
<1>2. \A i \in 1 .. 1 : i = 1
  OBVIOUS
<1> QED BY <1>1, <1>2 DEF Quiet

LEMMA QuietJoin ==
    ASSUME NEW p \in Seq(Packets), NEW q \in Seq(Packets), Quiet(p), Quiet(q)
    PROVE  p \o q \in Seq(Packets) /\ Quiet(p \o q)
<1> DEFINE r == p \o q
           a == Len(p)
           b == Len(q)
<1>1. /\ r \in Seq(Packets) /\ a \in Nat /\ b \in Nat /\ Len(r) = a + b
      /\ \A i \in 1 .. a : r[i] = p[i]
      /\ \A i \in a + 1 .. a + b : r[i] = q[i - a]
  BY JoinOf
<1>2. \A j \in 1 .. a : p[j].cmd \in {"WRTE", "OKAY", "CLSE"}
  BY DEF Quiet
<1>3. \A j \in 1 .. b : q[j].cmd \in {"WRTE", "OKAY", "CLSE"}
  BY DEF Quiet
<1> HIDE DEF r, a, b
<1>4. ASSUME NEW i \in 1 .. Len(r) PROVE r[i].cmd \in {"WRTE", "OKAY", "CLSE"}
  <2>1. i \in 1 .. a \/ (i \in a + 1 .. a + b /\ i - a \in 1 .. b)
    BY <1>1
  <2> QED BY <1>1, <1>2, <1>3, <2>1
<1> QED BY <1>1, <1>4 DEF Quiet, r

LEMMA QuietPackets ==
    /\ <<Msg("OKAY")>> \in Seq(Packets) /\ Quiet(<<Msg("OKAY")>>)
    /\ <<Msg("CLSE")>> \in Seq(Packets) /\ Quiet(<<Msg("CLSE")>>)
    /\ \A id \in Ids : /\ <<Packet("WRTE", <<Header(id, 0)>>)>> \in Seq(Packets)
                       /\ Quiet(<<Packet("WRTE", <<Header(id, 0)>>)>>)
    /\ <<Packet("WRTE", <<Header("QUIT", 0)>>), Msg("CLSE")>> \in Seq(Packets)
    /\ Quiet(<<Packet("WRTE", <<Header("QUIT", 0)>>), Msg("CLSE")>>)
<1>1. ASSUME NEW id \in Ids
      PROVE  /\ Packet("WRTE", <<Header(id, 0)>>) \in Packets
             /\ Packet("WRTE", <<Header(id, 0)>>).cmd = "WRTE"
  BY RequestType DEF Cmds, Packet
<1>2. <<Msg("OKAY")>> \in Seq(Packets) /\ Quiet(<<Msg("OKAY")>>)
  BY Msgs, MsgIs, QuietOne
<1>3. <<Msg("CLSE")>> \in Seq(Packets) /\ Quiet(<<Msg("CLSE")>>)
  BY Msgs, MsgIs, QuietOne
<1>4. ASSUME NEW id \in Ids
      PROVE  /\ <<Packet("WRTE", <<Header(id, 0)>>)>> \in Seq(Packets)
             /\ Quiet(<<Packet("WRTE", <<Header(id, 0)>>)>>)
  BY <1>1, QuietOne
<1>5. /\ <<Packet("WRTE", <<Header("QUIT", 0)>>), Msg("CLSE")>> \in Seq(Packets)
      /\ Quiet(<<Packet("WRTE", <<Header("QUIT", 0)>>), Msg("CLSE")>>)
  <2> DEFINE a == Packet("WRTE", <<Header("QUIT", 0)>>)
             b == Msg("CLSE")
  <2>1. a \in Packets /\ b \in Packets /\ a.cmd = "WRTE" /\ b.cmd = "CLSE"
    BY <1>1, Msgs, MsgIs DEF Ids
  <2> HIDE DEF a, b
  <2>2. /\ <<a, b>> \in Seq(Packets) /\ Len(<<a, b>>) = 2 /\ <<a, b>>[1] = a /\ <<a, b>>[2] = b
    BY <2>1
  <2>3. \A i \in 1 .. 2 : i = 1 \/ i = 2
    OBVIOUS
  <2>4. Quiet(<<a, b>>)
    BY <2>1, <2>2, <2>3 DEF Quiet
  <2> QED BY <2>2, <2>4 DEF a, b
<1> QED BY <1>2, <1>3, <1>4, <1>5

LEMMA QuietPieces ==
    ASSUME NEW data \in Seq(Elements), NEW n \in Nat \ {0}, n < MaxPayload
    PROVE  Quiet(Pieces(data, n))
<1>1. Pieces(data, n) \in Seq(Packets)
  BY PiecesType
<1>2. \A k \in DOMAIN Pieces(data, n) : Pieces(data, n)[k].cmd = "WRTE"
  BY DEF Pieces, Packet
<1>3. DOMAIN Pieces(data, n) = 1 .. Len(Pieces(data, n))
  BY <1>1
<1> QED BY <1>2, <1>3 DEF Quiet

\* The host wrote nothing, or packets that no call but this one answers.
Spoke == toDev' = toDev \/ \E ps \in Seq(Packets) : Quiet(ps) /\ Send(ps)

LEMMA CloseSpoke ==
    ASSUME NEW r, CloseRemote(r) \/ Quit(r)
    PROVE  pc' = "closing" /\ Spoke
BY QuietPackets DEF CloseRemote, Quit, Spoke

LEMMA FillCalm ==
    ASSUME WholeInd, FillBuffer
    PROVE  Calm'
<1>1. /\ pc \in Reading /\ CanRead /\ Taken /\ op' = op /\ dev' = dev /\ onBus' = onBus
  BY DEF FillBuffer
<1>2. /\ \/ pc' = pc /\ toDev' = toDev
         \/ pc' = pc /\ Send(<<Msg("OKAY")>>)
         \/ CloseRemote(1)
  BY DEF FillBuffer
<1>3. (pc' = pc \/ pc' = "closing") /\ Spoke
  BY <1>2, QuietPackets, CloseSpoke DEF Spoke
<1> QED BY <1>1, <1>3, SyncCalm DEF Spoke

LEMMA SyncBeginCalm ==
    ASSUME WholeInd, sync_begin
    PROVE  Calm'
<1>1. pc \in Sync /\ op' = op /\ dev' = dev /\ onBus' = onBus /\ toHost' = toHost
  BY DEF sync_begin
<1>2. \/ pc' = "stat" /\ Send(<<Packet("WRTE", <<Header("STAT", 0)>>)>>)
      \/ Quit(1)
  BY DEF sync_begin
<1>3. pc' \in {"stat", "closing"} /\ Spoke
  <2>1. "STAT" \in Ids
    BY DEF Ids
  <2> QED BY <1>2, <2>1, QuietPackets, CloseSpoke DEF Spoke
<1> QED BY <1>1, <1>3, SyncCalm DEF Spoke, Reading

LEMMA SendSpoke ==
    ASSUME WholeInd, sync_send
    PROVE  pc' = "status" /\ Spoke
<1>1. call \in Nat
  BY Typed DEF WholeInd
<1>2. PICK n \in 0 .. FileLen :
        /\ Send(<<Packet("WRTE", <<Header("SEND", 0)>>)>>
                \o Pieces(Bytes(call, n), SyncDataMax)
                \o <<Packet("WRTE", <<Header("DONE", 0)>>)>>)
        /\ pc' = "status"
  BY DEF sync_send
<1> DEFINE a == <<Packet("WRTE", <<Header("SEND", 0)>>)>>
           b == Pieces(Bytes(call, n), SyncDataMax)
           c == <<Packet("WRTE", <<Header("DONE", 0)>>)>>
<1>3. a \in Seq(Packets) /\ Quiet(a) /\ c \in Seq(Packets) /\ Quiet(c)
  BY QuietPackets DEF Ids
<1>4. n \in Nat /\ SyncDataMax \in Nat \ {0} /\ SyncDataMax < MaxPayload
  BY AdbAssumption DEF SyncDataMax
<1>5. b \in Seq(Packets) /\ Quiet(b)
  BY <1>1, <1>4, BytesType, PiecesType, QuietPieces
<1>6. Send((a \o b) \o c) /\ pc' = "status"
  BY <1>2
<1> HIDE DEF a, b, c
<1>7. (a \o b) \in Seq(Packets) /\ Quiet(a \o b)
  BY <1>3, <1>5, QuietJoin
<1>8. (a \o b) \o c \in Seq(Packets) /\ Quiet((a \o b) \o c)
  BY <1>3, <1>7, QuietJoin
<1> QED BY <1>6, <1>8 DEF Spoke

LEMMA ReadModeCalm ==
    ASSUME WholeInd, sync_readmode
    PROVE  Calm'
<1>1. pc = "stat" /\ op' = op /\ dev' = dev /\ onBus' = onBus /\ toHost' = toHost
  BY DEF sync_readmode
<1>2. \/ CloseRemote(1)
      \/ sync_send
      \/ pc' = "header" /\ Send(<<Packet("WRTE", <<Header("RECV", 0)>>)>>)
  BY DEF sync_readmode
<1>3. pc' \in {"closing", "status", "header"} /\ Spoke
  <2>1. "RECV" \in Ids
    BY DEF Ids
  <2> QED BY <1>2, <2>1, QuietPackets, CloseSpoke, SendSpoke DEF Spoke
<1> QED BY <1>1, <1>3, SyncCalm DEF Spoke, Reading

\* The steps that read from the packet that is there.
LEMMA TakeCalm ==
    ASSUME WholeInd, sync_send_status \/ ReadFailMsg \/ sync_recv_header \/ sync_recv_data
    PROVE  Calm'
<1>1. pc \in Reading /\ op' = op /\ dev' = dev /\ onBus' = onBus /\ toHost' = toHost
  BY DEF sync_send_status, ReadFailMsg, sync_recv_header, sync_recv_data, Reading
<1>2. CASE sync_send_status
  <2>1. Quit(0) \/ (pc' = "failmsg" /\ toDev' = toDev) \/ CloseRemote(1)
    BY <1>2 DEF sync_send_status
  <2>2. pc' \in {"failmsg", "closing"} /\ Spoke
    BY <2>1, CloseSpoke DEF Spoke
  <2> QED BY <1>1, <2>2, SyncCalm DEF Spoke, Reading
<1>3. CASE ReadFailMsg
  <2>1. pc' = "closing" /\ Spoke
    BY <1>3, CloseSpoke DEF ReadFailMsg
  <2> QED BY <1>1, <2>1, SyncCalm DEF Spoke
<1>4. CASE sync_recv_header
  <2>1. \/ Quit(0) \/ CloseRemote(1)
        \/ pc' \in {"data", "crashed", "failmsg"} /\ toDev' = toDev
    BY <1>4 DEF sync_recv_header
  <2>2. pc' \in {"data", "crashed", "failmsg", "closing"} /\ Spoke
    BY <2>1, CloseSpoke DEF Spoke
  <2> QED BY <1>1, <2>2, SyncCalm DEF Spoke, Reading
<1>5. CASE sync_recv_data
  <2>1. CloseRemote(1) \/ (pc' = "header" /\ toDev' = toDev)
    BY <1>5 DEF sync_recv_data
  <2>2. pc' \in {"header", "closing"} /\ Spoke
    BY <2>1, CloseSpoke DEF Spoke
  <2> QED BY <1>1, <2>2, SyncCalm DEF Spoke, Reading
<1> QED BY <1>2, <1>3, <1>4, <1>5

\* close_remote returns on the last packet of its stream.
LEMMA CloseCalm ==
    ASSUME WholeInd, close_remote
    PROVE  Calm'
<1>0. AdbInd /\ Calm /\ onBus \in BOOLEAN /\ toDev \in Seq(Packets) /\ toHost \in Seq(Packets)
  BY Typed DEF WholeInd
<1>1. /\ pc \in {"closing", "waiting"} /\ CanRead /\ Taken /\ op' = op /\ dev' = dev
      /\ onBus' = onBus /\ ret' = ret /\ call' = call /\ response' = response
  BY DEF close_remote, shellBuffer
<1>2. \/ pc' = "closing" /\ Send(<<Msg("CLSE")>>)
      \/ Got.cmd \in {"CLSE", "zero"} /\ pc' = "idle" /\ toDev' = toDev
      \/ pc' = "waiting" /\ toDev' = toDev
  BY DEF close_remote, AfterClose
<1>3. op = "shell" => ret' = -1
  BY <1>0, <1>1 DEF Calm, Whole
<1>4. Whole'
  BY <1>1, <1>2, <1>3 DEF Whole, Sync, Reading
<1>5. Spoke
  BY <1>2, QuietPackets DEF Spoke
<1>6. CASE onBus = FALSE
  <2>1. toDev' = toDev /\ toHost' = toHost
    BY <1>1, <1>5, <1>6, SendIs, ReadIs DEF Spoke
  <2> QED BY <1>0, <1>1, <1>4, <1>6, <2>1 DEF Calm, OffBus
<1>7. CASE onBus = TRUE
  <2>1. SyncFlow
    BY <1>0, <1>1, <1>7 DEF Calm, Stage, Streaming
  <2>2. toHost # <<>> /\ Got = Head(toHost) /\ toHost' = Tail(toHost)
    BY <1>1, <1>7, ReadIs
  <2>3. \/ toDev' = toDev
        \/ \E ps \in Seq(Packets) : Quiet(ps) /\ toDev' = toDev \o ps
    BY <1>5, <1>7, SendIs DEF Spoke
  <2>4. SyncFlow'
    BY <1>0, <1>1, <2>1, <2>2, <2>3, FlowGoesOn
  <2>5. CASE pc' \in {"closing", "waiting"}
    <3>1. Stage'
      BY <2>4, <2>5 DEF Stage, Streaming, Sync, Reading
    <3> QED BY <1>1, <1>4, <1>7, <3>1 DEF Calm, OffBus
  <2>6. CASE pc' = "idle"
    <3>1. Got.cmd \in {"CLSE", "zero"} /\ toDev' = toDev
      BY <1>2, <2>6
    <3>2. /\ Got = toHost[1] /\ Len(toHost) \in Nat /\ Len(toHost) >= 1
          /\ Len(toHost') = Len(toHost) - 1 /\ toHost' \in Seq(Packets)
      BY <1>0, <2>2, TailOf
    <3>3. 1 \in 1 .. Len(toHost)
      BY <3>2
    <3>4. Got.cmd = "CLSE"
      BY <2>1, <3>1, <3>2, <3>3 DEF SyncFlow, Quiet
    <3>5. 1 = Len(toHost) /\ dev.service = "none"
      BY <2>1, <3>2, <3>3, <3>4 DEF SyncFlow
    <3>6. toHost' = <<>>
      <4>1. toHost' = Tail(toHost) /\ toHost \in Seq(Packets) /\ Len(toHost) = 1
        BY <1>0, <2>2, <3>5
      <4> QED BY <4>1, LengthOne
    <3>7. AtRest'
      BY <1>1, <2>1, <3>1, <3>5, <3>6 DEF AtRest, SyncFlow, Silent
    <3>8. Stage'
      BY <2>6, <3>7 DEF Stage, Streaming, Sync, Reading
    <3> QED BY <1>1, <1>4, <1>7, <3>8 DEF Calm, OffBus
  <2> QED BY <1>2, <2>5, <2>6
<1> QED BY <1>0, <1>6, <1>7

-----------------------------------------------------------------------------
(* The device. *)

LEMMA DeviceFrame ==
    ASSUME WholeInd, Device
    PROVE  /\ onBus = TRUE /\ onBus' = TRUE /\ op' = op /\ pc' = pc /\ call' = call /\ ret' = ret
           /\ response' = response /\ closes' = closes /\ Stage
<1>1. UNCHANGED <<host, onBus>>
  BY DEF Device, DevConnect, DevOpen, DevOkay, DevSync, DevRead, DevWrite, DevExit, DevClose
<1>2. toDev # <<>> \/ onBus
  BY DEF Device, DevConnect, DevOpen, DevOkay, DevSync, DevRead, DevWrite, DevExit, DevClose
<1>3. Calm /\ onBus \in BOOLEAN
  BY Typed DEF WholeInd
<1>4. onBus = TRUE
  BY <1>2, <1>3 DEF Calm, OffBus
<1> QED BY <1>1, <1>3, <1>4 DEF Calm, host

\* What the device does with its record.
LEMMA OkayIs ==
    ASSUME WholeInd, DevOkay
    PROVE  /\ toDev # <<>> /\ Head(toDev).cmd = "OKAY" /\ toDev' = Tail(toDev) /\ toHost' = toHost
           /\ dev'.busy = FALSE /\ dev'.service = dev.service /\ dev'.out = dev.out
           /\ dev'.reading = dev.reading /\ dev'.wrote = dev.wrote
<1>1. dev \in DevType
  BY Typed DEF WholeInd
<1>2. dev' = [dev EXCEPT !.busy = FALSE]
  BY DEF DevOkay
<1>3. /\ dev'.busy = FALSE /\ dev'.service = dev.service /\ dev'.out = dev.out
      /\ dev'.reading = dev.reading /\ dev'.wrote = dev.wrote
  BY <1>1, <1>2 DEF DevType
<1> QED BY <1>3 DEF DevOkay, DevTake

LEMMA WriteIs ==
    ASSUME WholeInd, DevWrite
    PROVE  /\ toDev' = toDev /\ dev.busy = FALSE /\ dev.out # <<>>
           /\ \E n \in 1 .. Len(dev.out) :
                /\ toHost' = toHost \o <<Packet("WRTE", SubSeq(dev.out, 1, n))>>
                /\ Packet("WRTE", SubSeq(dev.out, 1, n)) \in Packets
                /\ dev'.out = SubSeq(dev.out, n + 1, Len(dev.out))
           /\ dev'.busy = TRUE /\ dev'.service = dev.service
           /\ dev'.reading = dev.reading /\ dev'.wrote = dev.wrote
<1>1. dev \in DevType /\ dev.out \in Seq(Elements) /\ dev.busy \in BOOLEAN
  BY Typed DEF WholeInd, DevType
<1>2. PICK n \in 1 .. MaxPayload :
        /\ n <= Len(dev.out)
        /\ Answer(<<Packet("WRTE", SubSeq(dev.out, 1, n))>>)
        /\ dev' = [dev EXCEPT !.busy = TRUE, !.out = SubSeq(@, n + 1, Len(@))]
  BY DEF DevWrite
<1>3. /\ dev'.busy = TRUE /\ dev'.service = dev.service
      /\ dev'.reading = dev.reading /\ dev'.wrote = dev.wrote
      /\ dev'.out = SubSeq(dev.out, n + 1, Len(dev.out))
  BY <1>1, <1>2 DEF DevType
<1>4. toDev' = toDev /\ dev.busy = FALSE
  BY <1>1 DEF DevWrite
<1>5. n \in Nat /\ n >= 1 /\ n <= MaxPayload /\ Len(dev.out) \in Nat /\ n \in 1 .. Len(dev.out)
  BY <1>1, <1>2, AdbAssumption
<1>6. dev.out # <<>>
  BY <1>5
<1>7. Packet("WRTE", SubSeq(dev.out, 1, n)) \in Packets
  <2> DEFINE d == SubSeq(dev.out, 1, n)
  <2>1. d \in Seq(Elements) /\ Len(d) = n
    BY <1>1, <1>5
  <2>2. d \in Content /\ d # <<>>
    BY <1>5, <2>1 DEF Content
  <2> HIDE DEF d
  <2>3. Packet("WRTE", d) \in Packets
    BY <2>2 DEF Packets, Packet, Cmds
  <2> QED BY <2>3 DEF d
<1> QED BY <1>2, <1>3, <1>4, <1>5, <1>6, <1>7 DEF Answer

LEMMA ExitIs ==
    ASSUME WholeInd, DevExit
    PROVE  /\ toDev' = toDev /\ toHost' = toHost \o <<Msg("CLSE")>>
           /\ dev.service = "shell" /\ dev.busy = FALSE /\ dev.out = <<>>
           /\ dev'.service = "none" /\ dev'.out = dev.out
           /\ dev'.reading = dev.reading /\ dev'.wrote = dev.wrote
<1>1. dev \in DevType /\ dev.busy \in BOOLEAN
  BY Typed DEF WholeInd, DevType
<1>2. dev' = [dev EXCEPT !.service = "none"]
  BY DEF DevExit
<1>3. /\ dev'.service = "none" /\ dev'.out = dev.out
      /\ dev'.reading = dev.reading /\ dev'.wrote = dev.wrote
  BY <1>1, <1>2 DEF DevType
<1> QED BY <1>1, <1>3 DEF DevExit, Answer

LEMMA CloseIs ==
    ASSUME WholeInd, DevClose
    PROVE  /\ toDev # <<>> /\ Head(toDev).cmd = "CLSE" /\ toDev' = Tail(toDev)
           /\ \/ toHost' = toHost /\ dev' = dev
              \/ /\ dev.service # "none" /\ toHost' = toHost \o <<Msg("CLSE")>>
                 /\ dev'.service = "none" /\ dev'.out = <<>> /\ dev'.reading = -1
<1>1. dev \in DevType
  BY Typed DEF WholeInd
<1>2. ASSUME dev' = [dev EXCEPT !.service = "none", !.out = <<>>, !.reading = -1]
      PROVE  dev'.service = "none" /\ dev'.out = <<>> /\ dev'.reading = -1
  BY <1>1, <1>2 DEF DevType
<1> QED BY <1>2 DEF DevClose, DevTake, Answer

\* Nothing to read, nothing to write: the device does nothing.
LEMMA Mute ==
    ASSUME WholeInd, toDev = <<>>, Silent, dev.service # "shell"
    PROVE  ~Device
<1>1. ~DevWrite
  BY WriteIs DEF Silent
<1>2. ~DevRead
  BY DEF DevRead, Silent
<1>3. ~DevExit
  BY DEF DevExit
<1> QED BY <1>1, <1>2, <1>3 DEF Device, DevConnect, DevOpen, DevOkay, DevSync, DevClose

LEMMA QuietTail ==
    ASSUME NEW q \in Seq(Packets), q # <<>>, Quiet(q)
    PROVE  Head(q).cmd \in {"WRTE", "OKAY", "CLSE"} /\ Quiet(Tail(q))
<1>1. /\ Head(q) = q[1] /\ Len(q) \in Nat /\ Len(q) >= 1
      /\ \A i \in 1 .. Len(Tail(q)) : Tail(q)[i] = q[i + 1] /\ i + 1 \in 1 .. Len(q)
  BY TailOf
<1>2. 1 \in 1 .. Len(q)
  BY <1>1
<1> QED BY <1>1, <1>2 DEF Quiet

LEMMA RestStep ==
    ASSUME WholeInd, Device, AtRest
    PROVE  AtRest' /\ dev'.wrote = dev.wrote
<1>0. toDev \in Seq(Packets)
  BY Typed DEF WholeInd
<1>1. Silent /\ dev.service # "shell" /\ toHost = <<>>
  BY DEF AtRest
<1>2. toDev # <<>> /\ Quiet(toDev) /\ dev.service = "none"
  BY <1>1, Mute DEF AtRest
<1>3. Head(toDev).cmd \in {"WRTE", "OKAY", "CLSE"} /\ Quiet(Tail(toDev))
  BY <1>0, <1>2, QuietTail
<1>4. ~DevRead /\ ~DevExit /\ ~DevWrite
  BY <1>1, WriteIs DEF DevRead, DevExit, Silent
<1>5. ~DevConnect /\ ~DevOpen
  BY <1>3 DEF DevConnect, DevOpen
<1>6. CASE DevOkay
  BY <1>1, <1>2, <1>3, <1>6, OkayIs DEF AtRest, Silent
<1>7. CASE DevSync
  <2>1. toDev' = Tail(toDev) /\ dev' = dev /\ toHost' = toHost
    BY <1>2, <1>7 DEF DevSync, DevTake
  <2> QED BY <1>1, <1>2, <1>3, <2>1 DEF AtRest, Silent
<1>8. CASE DevClose
  <2>1. toDev' = Tail(toDev) /\ dev' = dev /\ toHost' = toHost
    BY <1>2, <1>8, CloseIs
  <2> QED BY <1>1, <1>2, <1>3, <2>1 DEF AtRest, Silent
<1> QED BY <1>4, <1>5, <1>6, <1>7, <1>8 DEF Device

LEMMA ConnectStep ==
    ASSUME WholeInd, Device, Asked \/ Connected
    PROVE  Asked' \/ Connected'
<1>0. toDev \in Seq(Packets)
  BY Typed DEF WholeInd
<1>1. Asked
  <2>1. Connected => toDev = <<>> /\ Silent /\ dev.service # "shell"
    BY DEF Connected, NoStream, Silent
  <2> QED BY <2>1, Mute
<1>2. Silent /\ toHost = <<>> /\ toDev # <<>> /\ dev.service \in {"none", "reboot"}
  BY <1>1 DEF Asked
<1>3. ~DevRead /\ ~DevExit /\ ~DevWrite
  BY <1>2, WriteIs DEF DevRead, DevExit, Silent
<1> DEFINE t == Tail(toDev)
           n == Len(toDev)
<1>4. /\ t \in Seq(Packets) /\ n \in Nat /\ n >= 1 /\ Len(t) = n - 1 /\ Head(toDev) = toDev[1]
      /\ \A i \in 1 .. Len(t) : t[i] = toDev[i + 1]
  BY <1>0, <1>2, TailOf
<1>5. toDev[n] = Msg("CNXN") /\ (dev.service = "reboot" => n = 1)
  BY <1>1 DEF Asked
<1>6. \A i \in 1 .. n - 1 : toDev[i].cmd \in {"WRTE", "OKAY", "CLSE"}
  BY <1>1 DEF Asked
<1> HIDE DEF t, n
<1>7. n = 1 \/ 1 \in 1 .. n - 1
  BY <1>4
<1>8. n = 1 => Head(toDev).cmd = "CNXN"
  BY <1>4, <1>5, MsgIs
<1>9. n # 1 => Head(toDev).cmd \in {"WRTE", "OKAY", "CLSE"}
  BY <1>4, <1>6, <1>7
<1>10. ~DevOpen
  BY <1>8, <1>9 DEF DevOpen
<1>11. CASE DevConnect
  <2>1. n = 1
    BY <1>9, <1>11 DEF DevConnect
  <2>2. t = <<>>
    BY <1>4, <2>1
  <2>3. toHost' = <<Msg("CNXN")>>
    BY <1>2, <1>11, Msgs, OneOf DEF DevConnect, Answer
  <2> QED BY <1>11, <2>2, <2>3 DEF Connected, DevConnect, DevTake, t
<1>12. ASSUME Head(toDev).cmd # "CNXN", toDev' = Tail(toDev), toHost' = toHost,
              dev'.service = dev.service, dev'.out = dev.out, dev'.reading = dev.reading
       PROVE  Asked'
  <2>1. n # 1 /\ toDev' = t /\ dev.service = "none"
    BY <1>2, <1>5, <1>8, <1>12 DEF t
  <2>2. n - 1 \in 1 .. Len(t) /\ n - 1 + 1 = n /\ Len(t) \in Nat /\ Len(t) = n - 1 /\ Len(t) >= 1
    BY <1>4, <2>1
  <2>3. t[n - 1] = Msg("CNXN")
    BY <1>4, <1>5, <2>2
  <2>4. t # <<>> /\ t[Len(t)] = Msg("CNXN")
    BY <2>2, <2>3
  <2>5. \A i \in 1 .. Len(t) - 1 : i \in 1 .. Len(t) /\ i + 1 \in 1 .. n - 1
    BY <1>4, <2>2
  <2>6. \A i \in 1 .. Len(t) - 1 : t[i].cmd \in {"WRTE", "OKAY", "CLSE"}
    BY <1>4, <1>6, <2>5
  <2> QED BY <1>2, <1>12, <2>1, <2>4, <2>6 DEF Asked, Silent
<1>13. CASE DevOkay
  BY <1>12, <1>13, OkayIs
<1>14. Head(toDev).cmd # "CNXN" => dev.service = "none"
  BY <1>2, <1>5, <1>8
<1>15. CASE DevSync
  <2>1. toDev' = Tail(toDev) /\ dev' = dev /\ toHost' = toHost /\ Head(toDev).cmd # "CNXN"
    BY <1>14, <1>15 DEF DevSync, DevTake
  <2> QED BY <1>12, <2>1
<1>16. CASE DevClose
  <2>1. toDev' = Tail(toDev) /\ dev' = dev /\ toHost' = toHost /\ Head(toDev).cmd # "CNXN"
    BY <1>14, <1>16, CloseIs
  <2> QED BY <1>12, <2>1
<1> QED BY <1>3, <1>10, <1>11, <1>13, <1>15, <1>16 DEF Device

LEMMA Moved ==
    ASSUME NEW a \in Nat, NEW b \in Nat, NEW i \in a + 1 .. a + b, i - a = b
    PROVE  i = a + b
OBVIOUS

\* The device answers on an open stream of the sync protocol; with CLSE it closes it.
LEMMA FlowAnswers ==
    ASSUME SyncFlow, dev.service # "none", toDev \in Seq(Packets), toHost \in Seq(Packets),
           toDev' = toDev \/ (toDev # <<>> /\ toDev' = Tail(toDev)),
           NEW ps \in Seq(Packets), Quiet(ps), toHost' = toHost \o ps,
           dev'.service \in {"push", "pull", "none"}, dev'.service = "none" => Silent',
           \A i \in 1 .. Len(ps) : ps[i].cmd = "CLSE" => i = Len(ps) /\ dev'.service = "none"
    PROVE  SyncFlow'
<1>1. Quiet(toDev')
  BY QuietTail DEF SyncFlow
<1>2. Quiet(toHost')
  BY QuietJoin DEF SyncFlow
<1> DEFINE a == Len(toHost)
           b == Len(ps)
<1>3. /\ a \in Nat /\ b \in Nat /\ Len(toHost') = a + b
      /\ \A i \in 1 .. a : toHost'[i] = toHost[i]
      /\ \A i \in a + 1 .. a + b : toHost'[i] = ps[i - a]
  BY JoinOf
<1>4. \A i \in 1 .. a : toHost[i].cmd # "CLSE"
  BY DEF SyncFlow
<1>5. \A i \in 1 .. b : ps[i].cmd = "CLSE" => i = b /\ dev'.service = "none"
  OBVIOUS
<1> HIDE DEF a, b
<1>6. ASSUME NEW i \in 1 .. Len(toHost'), toHost'[i].cmd = "CLSE"
      PROVE  i = Len(toHost') /\ dev'.service = "none"
  <2>1. i \in 1 .. a \/ (i \in a + 1 .. a + b /\ i - a \in 1 .. b)
    BY <1>3
  <2>2. i \in a + 1 .. a + b /\ i - a \in 1 .. b
    BY <1>3, <1>4, <1>6, <2>1
  <2>3. i - a = b /\ dev'.service = "none"
    BY <1>3, <1>5, <1>6, <2>2
  <2>4. i = a + b
    BY <1>3, <2>2, <2>3, Moved
  <2> QED BY <1>3, <2>3, <2>4
<1> QED BY <1>1, <1>2, <1>6 DEF SyncFlow

\* The device reads, or prepares what it will write.
LEMMA FlowReads ==
    ASSUME SyncFlow, toDev \in Seq(Packets),
           toDev' = toDev \/ (toDev # <<>> /\ toDev' = Tail(toDev)),
           toHost' = toHost, dev'.service = dev.service, dev.service = "none" => Silent'
    PROVE  SyncFlow'
<1>1. Quiet(toDev')
  BY QuietTail DEF SyncFlow
<1> QED BY <1>1 DEF SyncFlow

LEMMA SyncIs ==
    ASSUME WholeInd, DevSync, dev.service \in Sync
    PROVE  /\ toDev # <<>> /\ toDev' = Tail(toDev)
           /\ dev'.service = dev.service \/ (dev'.service = "none" /\ Silent')
           /\ \/ toHost' = toHost \o <<Msg("OKAY")>>
              \/ toHost' = toHost \o <<Msg("OKAY"), Msg("CLSE")>> /\ dev'.service = "none"
<1> DEFINE h == Head(toDev).data[1][1]
           Reply(es) == dev' = [dev EXCEPT !.out = @ \o es]
<1>1. dev \in DevType
  BY Typed DEF WholeInd
<1>2. dev.service = "push" \/ dev.service = "pull"
  BY DEF Sync
<1>3. /\ toDev # <<>> /\ toDev' = Tail(toDev)
      /\ toHost' = toHost \o (IF h = "QUIT" THEN <<Msg("OKAY"), Msg("CLSE")>> ELSE <<Msg("OKAY")>>)
  BY <1>2 DEF DevSync, DevTake, Answer
<1>4. \/ h = "STAT" /\ \E mode \in {0, 1} : Reply(<<Header("STAT", mode)>>)
      \/ h = "SEND" /\ dev' = [dev EXCEPT !.sent = <<>>]
      \/ h = "DATA" /\ dev' = [dev EXCEPT !.sent = @ \o Tail(Head(toDev).data)]
      \/ h = "DONE" /\ dev' = [dev EXCEPT !.stored = dev.sent, !.out = @ \o <<Header("OKAY", 0)>>]
      \/ h = "DONE" /\ Reply(<<Header("FAIL", 1), Header("words", 0)>>)
      \/ h = "RECV" /\ dev' = [dev EXCEPT !.reading = 0]
      \/ dev' = [dev EXCEPT !.service = "none", !.out = <<>>, !.reading = -1]
  BY <1>2 DEF DevSync
<1>5. ASSUME NEW es, Reply(es) PROVE dev'.service = dev.service
  BY <1>1, <1>5 DEF DevType
<1>6. ASSUME NEW es, dev' = [dev EXCEPT !.sent = es] PROVE dev'.service = dev.service
  BY <1>1, <1>6 DEF DevType
<1>7. ASSUME NEW es, NEW fs, dev' = [dev EXCEPT !.stored = fs, !.out = @ \o es]
      PROVE  dev'.service = dev.service
  BY <1>1, <1>7 DEF DevType
<1>8. ASSUME dev' = [dev EXCEPT !.reading = 0] PROVE dev'.service = dev.service
  BY <1>1, <1>8 DEF DevType
<1>9. ASSUME dev' = [dev EXCEPT !.service = "none", !.out = <<>>, !.reading = -1]
      PROVE  dev'.service = "none" /\ Silent'
  BY <1>1, <1>9 DEF DevType, Silent
<1> HIDE DEF h, Reply
<1>10. dev'.service = dev.service \/ (dev'.service = "none" /\ Silent')
  <2>1. CASE h = "STAT" /\ \E mode \in {0, 1} : Reply(<<Header("STAT", mode)>>)
    BY <1>5, <2>1
  <2>2. CASE dev' = [dev EXCEPT !.sent = <<>>]
    BY <1>6, <2>2
  <2>3. CASE dev' = [dev EXCEPT !.sent = @ \o Tail(Head(toDev).data)]
    BY <1>6, <2>3
  <2>4. CASE dev' = [dev EXCEPT !.stored = dev.sent, !.out = @ \o <<Header("OKAY", 0)>>]
    BY <1>7, <2>4
  <2>5. CASE Reply(<<Header("FAIL", 1), Header("words", 0)>>)
    BY <1>5, <2>5
  <2>6. CASE dev' = [dev EXCEPT !.reading = 0]
    BY <1>8, <2>6
  <2>7. CASE dev' = [dev EXCEPT !.service = "none", !.out = <<>>, !.reading = -1]
    BY <1>9, <2>7
  <2> QED BY <1>4, <2>1, <2>2, <2>3, <2>4, <2>5, <2>6, <2>7
<1>11. h = "QUIT" => dev'.service = "none"
  BY <1>4, <1>9
<1> QED BY <1>3, <1>10, <1>11

LEMMA FlowStep ==
    ASSUME WholeInd, Device, SyncFlow
    PROVE  SyncFlow'
<1>0. toDev \in Seq(Packets) /\ toHost \in Seq(Packets) /\ dev \in DevType
  BY Typed DEF WholeInd
<1>1. /\ dev.service \in {"push", "pull", "none"} /\ (dev.service = "none" => Silent)
      /\ Quiet(toDev)
  BY DEF SyncFlow
<1>2. ~DevConnect /\ ~DevOpen
  <2>1. toDev # <<>> => Head(toDev).cmd \in {"WRTE", "OKAY", "CLSE"}
    BY <1>0, <1>1, QuietTail
  <2> QED BY <2>1 DEF DevConnect, DevOpen
<1>3. ~DevExit
  BY <1>1 DEF DevExit
<1>4. CASE DevOkay
  BY <1>0, <1>1, <1>4, OkayIs, FlowReads DEF Silent
<1>5. CASE DevSync
  <2>1. CASE dev.service = "none"
    <3>1. toDev # <<>> /\ toDev' = Tail(toDev) /\ dev' = dev /\ toHost' = toHost
      BY <1>5, <2>1 DEF DevSync, DevTake
    <3> QED BY <1>0, <1>1, <3>1, FlowReads DEF Silent
  <2>2. CASE dev.service \in Sync
    <3>1. /\ toDev # <<>> /\ toDev' = Tail(toDev) /\ dev'.service \in {"push", "pull", "none"}
          /\ dev.service # "none" /\ (dev'.service = "none" => Silent')
      BY <1>5, <2>2, SyncIs DEF Sync
    <3>2. CASE toHost' = toHost \o <<Msg("OKAY")>>
      <4>1. \A i \in 1 .. Len(<<Msg("OKAY")>>) : <<Msg("OKAY")>>[i].cmd # "CLSE"
        <5>1. Len(<<Msg("OKAY")>>) = 1 /\ <<Msg("OKAY")>>[1] = Msg("OKAY")
          BY Msgs, OneOf
        <5>2. \A i \in 1 .. 1 : i = 1
          OBVIOUS
        <5> QED BY <5>1, <5>2, MsgIs
      <4> QED BY <1>0, <3>1, <3>2, <4>1, QuietPackets, FlowAnswers
    <3>3. CASE toHost' = toHost \o <<Msg("OKAY"), Msg("CLSE")>> /\ dev'.service = "none"
      <4> DEFINE a == Msg("OKAY")
                 b == Msg("CLSE")
      <4>1. a \in Packets /\ b \in Packets /\ a.cmd = "OKAY" /\ b.cmd = "CLSE"
        BY Msgs, MsgIs
      <4>2. toHost' = toHost \o <<a, b>>
        BY <3>3
      <4> HIDE DEF a, b
      <4>3. <<a, b>> \in Seq(Packets) /\ Len(<<a, b>>) = 2 /\ <<a, b>>[1] = a /\ <<a, b>>[2] = b
        BY <4>1
      <4>4. \A i \in 1 .. 2 : i = 1 \/ i = 2
        OBVIOUS
      <4>5. Quiet(<<a, b>>)
        BY <4>1, <4>3, <4>4 DEF Quiet
      <4>6. \A i \in 1 .. Len(<<a, b>>) : <<a, b>>[i].cmd = "CLSE" => i = Len(<<a, b>>)
        BY <4>1, <4>3, <4>4
      <4> QED BY <1>0, <3>1, <3>3, <4>2, <4>3, <4>5, <4>6, FlowAnswers
    <3> QED BY <1>5, <2>2, <3>2, <3>3, SyncIs
  <2> QED BY <1>1, <2>1, <2>2 DEF Sync
<1>6. CASE DevRead
  <2>0. dev.reading >= 0 /\ toDev' = toDev /\ toHost' = toHost
    BY <1>6 DEF DevRead
  <2>1. dev.service # "none" /\ toDev' = toDev /\ toHost' = toHost
    <3>1. dev.reading # -1
      BY <2>0
    <3> QED BY <1>1, <2>0, <3>1 DEF Silent
  <2>2. ASSUME NEW es, NEW r, dev' = [dev EXCEPT !.reading = r, !.out = es]
        PROVE  dev'.service = dev.service
    BY <1>0, <2>2 DEF DevType
  <2>3. \E es, r : dev' = [dev EXCEPT !.reading = r, !.out = es]
    BY <1>6 DEF DevRead
  <2> QED BY <1>0, <2>1, <2>2, <2>3, FlowReads
<1>7. CASE DevWrite
  <2>1. /\ toDev' = toDev /\ dev.out # <<>> /\ dev'.service = dev.service
    BY <1>7, WriteIs
  <2>2. PICK n \in 1 .. Len(dev.out) :
               /\ toHost' = toHost \o <<Packet("WRTE", SubSeq(dev.out, 1, n))>>
               /\ Packet("WRTE", SubSeq(dev.out, 1, n)) \in Packets
    BY <1>7, WriteIs
  <2> DEFINE p == Packet("WRTE", SubSeq(dev.out, 1, n))
  <2>3. p.cmd = "WRTE" /\ p \in Packets /\ toHost' = toHost \o <<p>>
    BY <2>2 DEF Packet
  <2>4. dev.service # "none"
    BY <1>1, <2>1 DEF Silent
  <2> HIDE DEF p
  <2>5. <<p>> \in Seq(Packets) /\ Quiet(<<p>>) /\ Len(<<p>>) = 1 /\ <<p>>[1] = p
    BY <2>3, QuietOne, OneOf
  <2>6. \A i \in 1 .. Len(<<p>>) : <<p>>[i].cmd # "CLSE"
    <3>1. \A i \in 1 .. 1 : i = 1
      OBVIOUS
    <3> QED BY <2>3, <2>5, <3>1
  <2> QED BY <1>0, <1>1, <2>1, <2>3, <2>4, <2>5, <2>6, FlowAnswers
<1>8. CASE DevClose
  <2>1. CASE toHost' = toHost /\ dev' = dev
    BY <1>0, <1>1, <1>8, <2>1, CloseIs, FlowReads DEF Silent
  <2>2. CASE ~(toHost' = toHost /\ dev' = dev)
    <3>1. /\ dev.service # "none" /\ toHost' = toHost \o <<Msg("CLSE")>> /\ toDev # <<>>
          /\ dev'.service = "none" /\ Silent' /\ toDev' = Tail(toDev)
      BY <1>8, <2>2, CloseIs DEF Silent
    <3>2. Len(<<Msg("CLSE")>>) = 1
      BY Msgs, OneOf
    <3>3. \A i \in 1 .. Len(<<Msg("CLSE")>>) : i = Len(<<Msg("CLSE")>>)
      BY <3>2
    <3> QED BY <1>0, <3>1, <3>3, QuietPackets, FlowAnswers
  <2> QED BY <2>1, <2>2
<1> QED BY <1>2, <1>3, <1>4, <1>5, <1>6, <1>7, <1>8 DEF Device

\* OPEN is answered: refused, or the stream is open and its output is all in the device.
LEMMA OpenStep ==
    ASSUME WholeInd, Device, Opening
    PROVE  Refused' \/ OpenedShell' \/ OpenedOther'
<1> DEFINE p == Packet("OPEN", <<Header(op, call)>>)
<1>0. op \in Calls /\ call \in Nat
  BY Typed DEF WholeInd
<1>1. p \in Packets /\ p.cmd = "OPEN" /\ p.data = <<<<op, call>>>>
  BY <1>0, RequestType DEF Packet, Header, Cmds, Ids
<1>2. toDev = <<p>> /\ toHost = <<>> /\ dev = NoStream
  BY DEF Opening
<1>3. op' = op /\ call' = call
  BY DeviceFrame
<1> HIDE DEF p
<1>4. toDev # <<>> /\ Head(toDev) = p /\ Tail(toDev) = <<>>
  BY <1>1, <1>2, OneOf
<1>5. dev.service = "none" /\ dev.out = <<>> /\ dev.reading = -1 /\ dev.busy = FALSE
  BY <1>2 DEF NoStream
<1>6. ~DevRead /\ ~DevExit /\ ~DevWrite
  BY <1>5, WriteIs DEF DevRead, DevExit
<1>7. DevOpen
  BY <1>1, <1>4, <1>6 DEF Device, DevConnect, DevOkay, DevSync, DevClose
<1>8. toDev' = <<>>
  BY <1>4, <1>7 DEF DevOpen, DevTake
<1>9. Head(toDev).data[1] = <<op, call>>
  BY <1>1, <1>4
<1>10. \/ Answer(<<Msg("CLSE")>>) /\ dev' = dev
       \/ /\ Answer(<<Msg("OKAY")>>)
          /\ \E n \in IF op = "shell" THEN 0 .. MaxOutput ELSE {0} :
                dev' = [dev EXCEPT !.service = op, !.wrote = n, !.out = Bytes(call, n)]
  <2>1. <<op, call>>[1] = op /\ <<op, call>>[2] = call
    OBVIOUS
  <2>2. \/ Answer(<<Msg("CLSE")>>) /\ dev' = dev
        \/ /\ Answer(<<Msg("OKAY")>>)
           /\ \E n \in IF <<op, call>>[1] = "shell" THEN 0 .. MaxOutput ELSE {0} :
                 dev' = [dev EXCEPT !.service = <<op, call>>[1], !.wrote = n,
                                    !.out = Bytes(<<op, call>>[2], n)]
    BY <1>7, <1>9 DEF DevOpen
  <2> QED BY <2>1, <2>2
<1>11. CASE Answer(<<Msg("CLSE")>>) /\ dev' = dev
  BY <1>2, <1>8, <1>11, Msgs, OneOf DEF Answer, Refused
<1>12. ASSUME Answer(<<Msg("OKAY")>>), NEW n \in Nat, op # "shell" => n = 0,
              dev' = [dev EXCEPT !.service = op, !.wrote = n, !.out = Bytes(call, n)]
       PROVE  OpenedShell' \/ OpenedOther'
  <2>1. toHost' = <<Msg("OKAY")>>
    BY <1>2, <1>12, Msgs, OneOf DEF Answer
  <2>2. /\ dev'.service = op /\ dev'.wrote = n /\ dev'.out = Bytes(call, n)
        /\ dev'.busy = FALSE /\ dev'.reading = -1
    BY <1>2, <1>12 DEF NoStream
  <2>3. Bytes(call, n) \in Seq(Elements) /\ Len(Bytes(call, n)) = n
    BY <1>0, BytesType
  <2>4. CASE op = "shell"
    <3>1. toHost' # <<>> /\ Head(toHost').cmd = "OKAY" /\ Tail(toHost') = <<>>
      BY <2>1, Msgs, MsgIs, OneOf
    <3>2. /\ Numbered(<<>>, call, 0) /\ Numbered(Bytes(call, n), call, 0)
          /\ Len(<<>>) = 0 /\ 0 + 0 = 0 /\ n = 0 + 0 + n
      BY <1>0, <1>12, NumberedBytes
    <3>3. Counted(<<>>, <<>>)'
      BY <1>3, <2>2, <2>3, <3>2 DEF Counted
    <3>4. OpenedShell'
      BY <1>3, <1>8, <2>2, <2>4, <3>1, <3>3 DEF OpenedShell, Output, MayWrite
    <3> QED BY <3>4
  <2>5. CASE op # "shell"
    <3>1. dev'.out = <<>>
      BY <1>12, <2>2, <2>3, <2>5, LengthZero
    <3> QED BY <1>3, <1>8, <2>1, <2>2, <2>5, <3>1 DEF OpenedOther, Silent
  <2> QED BY <2>4, <2>5
<1>13. CASE ~(Answer(<<Msg("CLSE")>>) /\ dev' = dev)
  <2>1. Answer(<<Msg("OKAY")>>)
    BY <1>10, <1>13
  <2>2. PICK n \in IF op = "shell" THEN 0 .. MaxOutput ELSE {0} :
               dev' = [dev EXCEPT !.service = op, !.wrote = n, !.out = Bytes(call, n)]
    BY <1>10, <1>13
  <2>3. n \in Nat /\ (op # "shell" => n = 0)
    BY AdbAssumption
  <2> QED BY <1>12, <2>1, <2>2, <2>3
<1> QED BY <1>11, <1>13

\* What the device may do with the stream of a shell.
LEMMA OutputActs ==
    ASSUME WholeInd, Device, NEW q, NEW r, Output(q, r)
    PROVE  \/ Answered(q, r) /\ DevOkay
           \/ MayWrite(q, r) /\ (DevWrite \/ DevExit)
<1>1. dev.reading = -1
  BY DEF Output
<1>2. ~DevRead
  BY <1>1 DEF DevRead
<1>3. CASE MayWrite(q, r)
  BY <1>2, <1>3 DEF MayWrite, Device, DevConnect, DevOpen, DevOkay, DevSync, DevClose
<1>4. CASE Wrote(q, r)
  <2>1. toDev = <<>> /\ dev.busy = TRUE
    BY <1>4 DEF Wrote
  <2> QED BY <1>2, <2>1, WriteIs, ExitIs DEF Device, DevConnect, DevOpen, DevOkay, DevSync, DevClose
<1>5. CASE Answered(q, r)
  <2>1. toDev = <<Msg("OKAY")>> /\ dev.busy = TRUE
    BY <1>5 DEF Answered
  <2>2. Head(toDev).cmd = "OKAY"
    BY <2>1, Msgs, MsgIs, OneOf
  <2> QED BY <1>2, <1>5, <2>1, <2>2, WriteIs, ExitIs
          DEF Device, DevConnect, DevOpen, DevSync, DevClose
<1>6. CASE Ended(q, r)
  BY <1>1, <1>6, Mute DEF Ended, Silent
<1> QED BY <1>3, <1>4, <1>5, <1>6 DEF Output

LEMMA Parted ==
    ASSUME NEW a \in Nat, NEW b \in Nat, NEW n \in Nat, NEW w, w = a + b, NEW c, c = b - n
    PROVE  w = a + n + c
OBVIOUS

\* The bytes that a WRTE takes are the next ones.
LEMMA WriteCounts ==
    ASSUME WholeInd, DevWrite, NEW r \in Seq(Elements), Counted(r, <<>>)
    PROVE  \E p \in Packets :
             /\ p.cmd = "WRTE" /\ toHost' = toHost \o <<p>>
             /\ Numbered(r, call, 0) /\ Numbered(p.data, call, Len(r))
             /\ Numbered(dev'.out, call, Len(r) + Len(p.data))
             /\ dev'.wrote = Len(r) + Len(p.data) + Len(dev'.out)
<1>0. dev.out \in Seq(Elements) /\ Len(dev.out) \in Nat /\ Len(r) \in Nat
  BY Typed DEF WholeInd
<1>1. PICK n \in 1 .. Len(dev.out) :
        /\ toHost' = toHost \o <<Packet("WRTE", SubSeq(dev.out, 1, n))>>
        /\ Packet("WRTE", SubSeq(dev.out, 1, n)) \in Packets
        /\ dev'.out = SubSeq(dev.out, n + 1, Len(dev.out))
  BY WriteIs
<1>2. dev'.wrote = dev.wrote
  BY WriteIs
<1> DEFINE d == SubSeq(dev.out, 1, n)
           p == Packet("WRTE", d)
<1>3. p \in Packets /\ p.cmd = "WRTE" /\ p.data = d /\ toHost' = toHost \o <<p>>
  BY <1>1 DEF Packet
<1>4. /\ Numbered(r, call, 0) /\ Numbered(dev.out, call, Len(r)) /\ dev.wrote = Len(r) + Len(dev.out)
  <2>1. Len(<<>>) = 0 /\ Len(r) + 0 = Len(r)
    BY <1>0
  <2> QED BY <2>1 DEF Counted
<1>5. /\ Numbered(d, call, Len(r)) /\ Numbered(dev'.out, call, Len(r) + n)
      /\ Len(d) = n /\ Len(dev'.out) = Len(dev.out) - n
  BY <1>0, <1>1, <1>4, NumberedPart
<1> HIDE DEF d, p
<1>6. dev'.wrote = Len(r) + n + Len(dev'.out)
  <2>1. n \in Nat
    BY <1>0
  <2>2. dev'.wrote = Len(r) + Len(dev.out) /\ Len(dev'.out) = Len(dev.out) - n
    BY <1>2, <1>4, <1>5
  <2> DEFINE a == Len(r)
             b == Len(dev.out)
             c == Len(dev'.out)
             w == dev'.wrote
  <2>3. a \in Nat /\ b \in Nat /\ w = a + b /\ c = b - n
    BY <1>0, <2>2
  <2> HIDE DEF a, b, c, w
  <2>4. w = a + n + c
    BY <2>1, <2>3, Parted
  <2> QED BY <2>4 DEF a, b, c, w
<1> QED BY <1>3, <1>4, <1>5, <1>6

\* The device goes on with the output while handle_shell_response reads it.
LEMMA ShellStep ==
    ASSUME WholeInd, Device, Output(toHost, response)
    PROVE  Output(toHost, response)'
<1>0. response \in Seq(Elements) /\ toHost \in Seq(Packets)
  BY Typed DEF WholeInd
<1>1. op' = op /\ call' = call /\ response' = response
  BY DeviceFrame
<1>2. op = "shell" /\ dev.reading = -1
  BY DEF Output
<1>3. CASE Answered(toHost, response) /\ DevOkay
  <2>1. /\ toDev' = Tail(toDev) /\ toHost' = toHost
        /\ dev'.busy = FALSE /\ dev'.service = dev.service /\ dev'.out = dev.out
        /\ dev'.reading = dev.reading /\ dev'.wrote = dev.wrote
    BY <1>3, OkayIs
  <2>2. /\ dev.service = "shell" /\ toHost = <<>> /\ toDev = <<Msg("OKAY")>>
        /\ Counted(response, <<>>)
    BY <1>3 DEF Answered
  <2>3. toDev' = <<>>
    BY <2>1, <2>2, Msgs, OneOf
  <2>4. Counted(response, <<>>)'
    BY <1>1, <2>1, <2>2 DEF Counted
  <2>5. MayWrite(toHost, response)'
    BY <2>1, <2>2, <2>3, <2>4 DEF MayWrite
  <2> QED BY <1>1, <1>2, <2>1, <2>5 DEF Output
<1>4. CASE MayWrite(toHost, response) /\ DevWrite
  <2>1. /\ dev.service = "shell" /\ toHost = <<>> /\ toDev = <<>> /\ Counted(response, <<>>)
    BY <1>4 DEF MayWrite
  <2>2. /\ toDev' = toDev /\ dev'.busy = TRUE /\ dev'.service = dev.service
        /\ dev'.reading = dev.reading
    BY <1>4, WriteIs
  <2>3. PICK p \in Packets :
             /\ p.cmd = "WRTE" /\ toHost' = toHost \o <<p>>
             /\ Numbered(response, call, 0) /\ Numbered(p.data, call, Len(response))
             /\ Numbered(dev'.out, call, Len(response) + Len(p.data))
             /\ dev'.wrote = Len(response) + Len(p.data) + Len(dev'.out)
    BY <1>0, <1>4, <2>1, WriteCounts
  <2>4. toHost' = <<p>> /\ Len(toHost') = 1 /\ toHost'[1] = p
    BY <2>1, <2>3, OneOf
  <2>5. Counted(response, toHost[1].data)'
    BY <1>1, <2>3, <2>4 DEF Counted
  <2>6. Wrote(toHost, response)'
    BY <2>1, <2>2, <2>3, <2>4, <2>5 DEF Wrote
  <2> QED BY <1>1, <1>2, <2>2, <2>6 DEF Output
<1>5. CASE MayWrite(toHost, response) /\ DevExit
  <2>1. toHost = <<>> /\ toDev = <<>> /\ Counted(response, <<>>)
    BY <1>5 DEF MayWrite
  <2>2. /\ toDev' = toDev /\ toHost' = toHost \o <<Msg("CLSE")>> /\ dev.out = <<>>
        /\ dev'.service = "none" /\ dev'.out = dev.out
        /\ dev'.reading = dev.reading /\ dev'.wrote = dev.wrote
    BY <1>5, ExitIs
  <2>3. toHost' = <<Msg("CLSE")>>
    BY <2>1, <2>2, Msgs, OneOf
  <2>4. Counted(response, <<>>)'
    BY <1>1, <2>1, <2>2 DEF Counted
  <2>5. Ended(toHost, response)'
    BY <2>1, <2>2, <2>3, <2>4 DEF Ended
  <2> QED BY <1>1, <1>2, <2>2, <2>5 DEF Output
<1> QED BY <1>3, <1>4, <1>5, OutputActs

\* The same before handle_open_response has read the OKAY.
LEMMA OpenedStep ==
    ASSUME WholeInd, Device, OpenedShell
    PROVE  OpenedShell'
<1> DEFINE q == Tail(toHost)
<1>0. toHost \in Seq(Packets) /\ toHost # <<>> /\ Head(toHost).cmd = "OKAY" /\ Output(q, <<>>)
  BY Typed DEF WholeInd, OpenedShell
<1>1. op' = op /\ call' = call
  BY DeviceFrame
<1>2. op = "shell" /\ dev.reading = -1
  BY <1>0 DEF Output
<1>3. ASSUME NEW p \in Packets, toHost' = toHost \o <<p>>, q = <<>>
      PROVE  toHost' # <<>> /\ Head(toHost') = Head(toHost) /\ Tail(toHost') = <<p>>
  <2>1. Len(toHost) = 1
    BY <1>0, <1>3, LastOf
  <2> QED BY <1>0, <1>3, <2>1, TwoOf
<1>4. CASE Answered(q, <<>>) /\ DevOkay
  <2>1. /\ toDev' = Tail(toDev) /\ toHost' = toHost
        /\ dev'.busy = FALSE /\ dev'.service = dev.service /\ dev'.out = dev.out
        /\ dev'.reading = dev.reading /\ dev'.wrote = dev.wrote
    BY <1>4, OkayIs
  <2>2. dev.service = "shell" /\ q = <<>> /\ toDev = <<Msg("OKAY")>> /\ Counted(<<>>, <<>>)
    BY <1>4 DEF Answered
  <2>3. toDev' = <<>>
    BY <2>1, <2>2, Msgs, OneOf
  <2>4. Counted(<<>>, <<>>)'
    BY <1>1, <2>1, <2>2 DEF Counted
  <2>5. MayWrite(Tail(toHost), <<>>)'
    BY <2>1, <2>2, <2>3, <2>4 DEF MayWrite
  <2> QED BY <1>0, <1>1, <1>2, <2>1, <2>5 DEF Output, OpenedShell
<1>5. CASE MayWrite(q, <<>>) /\ DevWrite
  <2>1. dev.service = "shell" /\ q = <<>> /\ toDev = <<>> /\ Counted(<<>>, <<>>)
    BY <1>5 DEF MayWrite
  <2>2. /\ toDev' = toDev /\ dev'.busy = TRUE /\ dev'.service = dev.service
        /\ dev'.reading = dev.reading
    BY <1>5, WriteIs
  <2>3. <<>> \in Seq(Elements)
    OBVIOUS
  <2>4. PICK p \in Packets :
             /\ p.cmd = "WRTE" /\ toHost' = toHost \o <<p>>
             /\ Numbered(<<>>, call, 0) /\ Numbered(p.data, call, Len(<<>>))
             /\ Numbered(dev'.out, call, Len(<<>>) + Len(p.data))
             /\ dev'.wrote = Len(<<>>) + Len(p.data) + Len(dev'.out)
    BY <1>5, <2>1, <2>3, WriteCounts
  <2>5. toHost' # <<>> /\ Head(toHost').cmd = "OKAY" /\ Tail(toHost') = <<p>>
    BY <1>0, <1>3, <2>1, <2>4
  <2>6. Len(Tail(toHost')) = 1 /\ Tail(toHost')[1] = p
    BY <2>5, OneOf
  <2>7. Counted(<<>>, Tail(toHost)[1].data)'
    BY <1>1, <2>4, <2>6 DEF Counted
  <2>8. Wrote(Tail(toHost), <<>>)'
    BY <2>1, <2>2, <2>4, <2>6, <2>7 DEF Wrote
  <2> QED BY <1>1, <1>2, <2>2, <2>5, <2>8 DEF Output, OpenedShell
<1>6. CASE MayWrite(q, <<>>) /\ DevExit
  <2>1. q = <<>> /\ toDev = <<>> /\ Counted(<<>>, <<>>)
    BY <1>6 DEF MayWrite
  <2>2. /\ toDev' = toDev /\ toHost' = toHost \o <<Msg("CLSE")>> /\ dev.out = <<>>
        /\ dev'.service = "none" /\ dev'.out = dev.out
        /\ dev'.reading = dev.reading /\ dev'.wrote = dev.wrote
    BY <1>6, ExitIs
  <2>3. toHost' # <<>> /\ Head(toHost').cmd = "OKAY" /\ Tail(toHost') = <<Msg("CLSE")>>
    BY <1>0, <1>3, <2>1, <2>2, Msgs
  <2>4. Counted(<<>>, <<>>)'
    BY <1>1, <2>1, <2>2 DEF Counted
  <2>5. Ended(Tail(toHost), <<>>)'
    BY <2>1, <2>2, <2>3, <2>4 DEF Ended
  <2> QED BY <1>1, <1>2, <2>2, <2>3, <2>5 DEF Output, OpenedShell
<1> QED BY <1>0, <1>4, <1>5, <1>6, OutputActs

LEMMA DeviceCalm ==
    ASSUME WholeInd, Device
    PROVE  Calm'
<1>0. /\ onBus = TRUE /\ onBus' = TRUE /\ op' = op /\ pc' = pc /\ call' = call /\ ret' = ret
      /\ response' = response /\ Stage /\ Whole
  BY DeviceFrame DEF WholeInd, Calm
<1>1. pc = "idle" => AtRest' /\ dev'.wrote = dev.wrote
  BY <1>0, RestStep DEF Stage
<1>2. pc = "connect" => Asked' \/ Connected'
  BY <1>0, ConnectStep DEF Stage
<1>3. pc = "open" => Opening' \/ Refused' \/ OpenedShell' \/ OpenedOther'
  <2>1. Refused => toDev = <<>> /\ Silent /\ dev.service # "shell"
    BY DEF Refused, NoStream, Silent
  <2>2. OpenedOther => toDev = <<>> /\ Silent /\ dev.service # "shell"
    BY DEF OpenedOther
  <2>3. ~Refused /\ ~OpenedOther
    BY <2>1, <2>2, Mute
  <2> QED BY <1>0, <2>3, OpenStep, OpenedStep DEF Stage
<1>4. pc = "shell" => Output(toHost, response)'
  BY <1>0, ShellStep DEF Stage
<1>5. pc \in Streaming => SyncFlow'
  BY <1>0, FlowStep DEF Stage
<1>6. Stage'
  BY <1>0, <1>1, <1>2, <1>3, <1>4, <1>5 DEF Stage
<1>7. Whole'
  BY <1>0, <1>1 DEF Whole
<1> QED BY <1>0, <1>6, <1>7 DEF Calm, OffBus

-----------------------------------------------------------------------------
(* The theorem. *)

LEMMA WholeInit == Init => WholeInd
<1> SUFFICES ASSUME Init PROVE WholeInd
  OBVIOUS
<1>1. AdbInd
  BY InitInd
<1>2. /\ pc = "idle" /\ call = 0 /\ toDev = <<>> /\ toHost = <<>> /\ onBus = TRUE /\ dev = NoStream
  BY DEF Init
<1>3. AtRest
  BY <1>2 DEF AtRest, NoStream, Silent, Quiet
<1>4. Stage
  BY <1>2, <1>3 DEF Stage, Streaming, Sync, Reading
<1>5. Whole
  BY <1>2 DEF Whole, Sync, Reading
<1> QED BY <1>1, <1>2, <1>4, <1>5 DEF WholeInd, Calm, OffBus

\* What the allocator did is not forgotten.
LEMMA StaysSound ==
    ASSUME [Next]_vars, memory' = "sound"
    PROVE  memory = "sound"
<1>1. CASE Host
  <2>1. CASE handle_open_response
    BY <2>1 DEF handle_open_response, NewBuffer, NoMemory, shellBuffer
  <2>2. CASE handle_shell_response
    BY <2>2 DEF handle_shell_response, Collect, GrowMoved, GrowFailed, NoMemory, shellBuffer
  <2>3. CASE UNCHANGED shellBuffer
    BY <2>3 DEF shellBuffer
  <2> QED BY <1>1, <2>1, <2>2, <2>3
          DEF Host, Begin, handle_connect_response, OutputLost, FillBuffer, sync_begin,
              sync_readmode, sync_send_status, ReadFailMsg, sync_recv_header, sync_recv_data,
              close_remote
<1>2. CASE UNCHANGED host
  BY <1>2 DEF host
<1> QED BY <1>1, <1>2 DEF Next, Device, Leave, vars, DevConnect, DevOpen, DevOkay, DevSync,
                          DevRead, DevWrite, DevExit, DevClose

LEMMA WholeNext == WholeInd /\ [Next]_vars /\ memory' = "sound" => WholeInd'
<1> SUFFICES ASSUME WholeInd, [Next]_vars, memory' = "sound" PROVE WholeInd'
  OBVIOUS
<1>1. AdbInd'
  BY NextInd DEF WholeInd
<1>2. CASE Host
  <2>1. Calm'
    BY <1>2, BeginCalm, ConnectCalm, OpenCalm, ShellCalm, LostCalm, FillCalm, SyncBeginCalm,
       ReadModeCalm, TakeCalm, CloseCalm DEF Host
  <2> QED BY <1>1, <2>1 DEF WholeInd
<1>3. CASE Device
  BY <1>1, <1>3, DeviceCalm DEF WholeInd
<1>4. CASE Leave
  <2>1. onBus' = FALSE /\ toDev' = <<>> /\ toHost' = <<>> /\ UNCHANGED host /\ Whole
    BY <1>4 DEF Leave, WholeInd, Calm
  <2>2. Whole'
    BY <2>1 DEF Whole, host
  <2> QED BY <1>1, <2>1, <2>2 DEF WholeInd, Calm, OffBus
<1>5. CASE UNCHANGED vars
  <2>1. /\ call' = call /\ op' = op /\ pc' = pc /\ ret' = ret /\ response' = response
        /\ toDev' = toDev /\ toHost' = toHost /\ onBus' = onBus /\ dev' = dev
    BY <1>5 DEF vars, host
  <2>2. Whole' /\ OffBus'
    BY <2>1 DEF WholeInd, Calm, Whole, OffBus
  <2>3. onBus = TRUE => Stage
    BY DEF WholeInd, Calm
  <2>4. onBus' = TRUE => Stage'
    <3>1. (AtRest' <=> AtRest) /\ (Asked' <=> Asked) /\ (Connected' <=> Connected)
      BY <2>1 DEF AtRest, Asked, Connected, Silent
    <3>2. (Opening' <=> Opening) /\ (Refused' <=> Refused) /\ (OpenedOther' <=> OpenedOther)
      BY <2>1 DEF Opening, Refused, OpenedOther, Silent
    <3>3. OpenedShell' <=> OpenedShell
      BY <2>1 DEF OpenedShell, Output, MayWrite, Wrote, Answered, Ended, Counted
    <3>4. Output(toHost, response)' <=> Output(toHost, response)
      BY <2>1 DEF Output, MayWrite, Wrote, Answered, Ended, Counted
    <3>5. SyncFlow' <=> SyncFlow
      BY <2>1 DEF SyncFlow, Silent
    <3> QED BY <2>1, <2>3, <3>1, <3>2, <3>3, <3>4, <3>5 DEF Stage
  <2> QED BY <1>1, <2>2, <2>4 DEF WholeInd, Calm
<1> QED BY <1>2, <1>3, <1>4, <1>5 DEF Next

\* However the device cuts the output of a command into packets, and whatever calls of shell,
\* reboot_bootloader, sync_push and sync_pull came before on the same adbhost object, failed
\* and refused ones included, handle_shell_response collects the bytes of this command only,
\* in order, and all of them when shell returns 0 with the device still there; as long as malloc
\* and realloc gave memory and no realloc moved a buffer.
THEOREM ShellWholeAlways == Spec => []ShellWhole
<1> DEFINE Inv == AdbInd /\ (memory = "sound" => Calm)
<1>1. Inv => ShellWhole
  <2> SUFFICES ASSUME WholeInd, op = "shell", pc = "shell" \/ (pc = "idle" /\ ret = 0 /\ call > 0)
               PROVE  /\ response = Bytes(call, Len(response))
                      /\ pc = "idle" /\ onBus => Len(response) = dev.wrote
    BY DEF ShellWhole, WholeInd
  <2>1. response \in Seq(Elements) /\ onBus \in BOOLEAN /\ Whole
    BY Typed DEF WholeInd, Calm
  <2>2. Numbered(response, call, 0) /\ (pc = "idle" /\ onBus => Len(response) = dev.wrote)
    BY <2>1 DEF Whole
  <2> QED BY <2>1, <2>2, NumberedIs
<1>2. Init => Inv
  BY WholeInit DEF WholeInd
<1>3. Inv /\ [Next]_vars => Inv'
  BY NextInd, StaysSound, WholeNext DEF WholeInd
<1> QED BY <1>1, <1>2, <1>3, PTL DEF Spec

-----------------------------------------------------------------------------
(* Files.  A call of the sync protocol passes "stat" only with an empty     *)
(* packet buffer, so that what it reads from then on was written for it.    *)

Lacks(s, id) == \A i \in 1 .. Len(s) : s[i][1] # id
Request(id) == Packet("WRTE", <<Header(id, 0)>>)
IsStat(s) == Len(s) = 1 /\ s[1][1] = "STAT"

\* The device has the file.
Stored == diskOK = TRUE => dev.stored = Bytes(call, FileLen)

\* q holds answers and at most one WRTE, which bears w.
Bears(q, w) ==
    /\ \A i \in 1 .. Len(q) : q[i].cmd \in {"OKAY", "WRTE"}
    /\ \/ w = <<>> /\ \A i \in 1 .. Len(q) : q[i].cmd # "WRTE"
       \/ \E i \in 1 .. Len(q) :
             /\ q[i].cmd = "WRTE" /\ w = q[i].data
             /\ \A j \in 1 .. Len(q) : q[j].cmd = "WRTE" => j = i
Loads(q) == {<<>>} \cup {q[i].data : i \in 1 .. Len(q)}

\* The OKAY of the last WRTE is on its way, or the device may write.
Owed(rest) ==
    \/ dev.busy = TRUE /\ toDev = <<Msg("OKAY")>> \o rest
    \/ dev.busy = FALSE /\ toDev = rest

\* At most one WRTE of the device is under way or unanswered.
Window(w) ==
    \/ Owed(<<>>) /\ w = <<>>
    \/ dev.busy = TRUE /\ toDev = <<>> /\ w # <<>>

\* The stream before its first request.
Fresh ==
    /\ dev.service = op /\ dev.busy = FALSE /\ dev.sent = <<>> /\ Silent
    /\ toDev = <<>> /\ toHost = <<>>

\* STAT is on its way, answered, written or read; until then the packet may be the rest
\* of an earlier call, in which there is no STAT.
StatFlow(w) ==
    /\ dev.service = op /\ dev.reading = -1 /\ dev.sent = <<>> /\ Bears(toHost, w)
    /\ \/ /\ toDev = <<Request("STAT")>> /\ dev.busy = FALSE /\ w = <<>> /\ dev.out = <<>>
          /\ Lacks(packet, "STAT")
       \/ /\ toDev = <<>> /\ dev.busy = FALSE /\ w = <<>> /\ IsStat(dev.out)
          /\ Lacks(packet, "STAT")
       \/ /\ toDev = <<>> /\ dev.busy = TRUE /\ IsStat(w) /\ dev.out = <<>>
          /\ Lacks(packet, "STAT")
       \/ Owed(<<>>) /\ w = <<>> /\ dev.out = <<>> /\ IsStat(packet)

\* What a pull reads, s, with b bytes in the local file and d due of a DATA whose header
\* was read: every DATA is followed by as many bytes as it names.  c[i] is the length of
\* the local file when i elements have been read.
Tallies(s) == [0 .. Len(s) -> Nat]
Chunk(s, c, i, n, m) ==
    \A k \in 1 .. n : i + k <= Len(s) =>
        s[i + k] = <<"byte", m, c[i] + k>> /\ c[i + k] = c[i] + k
Chain(s, c, b, d, m) ==
    /\ c[0] = b /\ Chunk(s, c, 0, d, m)
    /\ \A i \in 1 .. Len(s) :
          s[i][1] = "DATA" => c[i] = c[i - 1] /\ Chunk(s, c, i, s[i][2], m)
Complete(s, d) ==
    d <= Len(s) /\ \A i \in 1 .. Len(s) : s[i][1] = "DATA" => i + s[i][2] <= Len(s)

Due == IF pc = "data" THEN need ELSE 0
Follows(s, c) == Chain(s, c, Len(local), Due, call)
Ahead(w) == packet \o (w \o dev.out)

PullFlow(w) ==
    /\ dev.service = "pull" /\ Bears(toHost, w)
    /\ \/ /\ Owed(<<Request("RECV")>>) /\ w = <<>> /\ dev.out = <<>> /\ dev.reading = -1
          /\ packet = <<>> /\ local = <<>> /\ pc = "header"
       \/ /\ Window(w)
          /\ Complete(Ahead(w), Due)
          /\ \E c \in Tallies(Ahead(w)) :
                /\ Follows(Ahead(w), c)
                /\ dev.reading # -1 =>
                      dev.reading \in Nat /\ c[Len(Ahead(w))] = dev.reading

\* A push: where piece k of the first n bytes ends; what the device has yet to read, SEND
\* perhaps, the pieces after the first j and DONE; it holds what the first j hold.
Ends(n, k) == IF SyncDataMax * k < n THEN SyncDataMax * k ELSE n
Line(q, ps, j) ==
    LET h == Len(q) - 1 - (Len(ps) - j) IN
    /\ h >= 0 /\ (h > 0 => j = 0)
    /\ \A i \in 1 .. h : q[i] \in {Msg("OKAY"), Request("SEND")}
    /\ \A i \in 1 .. Len(ps) - j : q[h + i] = ps[j + i]
    /\ q[Len(q)] = Request("DONE")
Sending(n, j) ==
    /\ diskOK = TRUE => n = FileLen
    /\ dev.sent = Bytes(call, Ends(n, j))
    /\ Line(toDev, Pieces(Bytes(call, n), SyncDataMax), j)

\* An OKAY to DONE is not there unless the file is.
Honest(s) == Lacks(s, "OKAY") \/ Stored

\* The answer to DONE is under way.
Replied ==
    /\ \A i \in 1 .. Len(toDev) : toDev[i].cmd = "OKAY"
    /\ Honest(packet) /\ Honest(dev.out)
    /\ \A i \in 1 .. Len(toHost) : toHost[i].cmd = "WRTE" => Honest(toHost[i].data)

PushFlow ==
    /\ dev.service = "push" /\ dev.reading = -1
    /\ \/ /\ packet = <<>> /\ dev.out = <<>> /\ Bears(toHost, <<>>)
          /\ \E n \in 0 .. FileLen :
                \E j \in 0 .. Len(Pieces(Bytes(call, n), SyncDataMax)) : Sending(n, j)
       \/ Replied

\* After the first answer there is no other STAT.
Statless ==
    /\ Lacks(dev.out, "STAT")
    /\ \A i \in 1 .. Len(toHost) : toHost[i].cmd = "WRTE" => Lacks(toHost[i].data, "STAT")
    /\ \A i \in 1 .. Len(toDev) : toDev[i].cmd = "WRTE" => toDev[i].data[1][1] # "STAT"

\* No request that stores a file is on its way.
OnlyQuit == \A i \in 1 .. Len(toDev) : toDev[i].cmd = "WRTE" => toDev[i].data[1][1] = "QUIT"

\* On the bus.
Course ==
    /\ pc \in Reading \ {"stat"} => Statless
    /\ pc = "open" /\ dev.service \in Sync => dev.busy = FALSE /\ dev.sent = <<>>
    /\ pc \in Sync => Fresh
    /\ pc = "stat" => \E w \in Loads(toHost) : StatFlow(w)
    /\ pc \in {"header", "data"} => \E w \in Loads(toHost) : PullFlow(w)
    /\ pc = "status" => PushFlow
    /\ pc \in {"closing", "waiting"} /\ op = "push" /\ ret = 0 => OnlyQuit

\* On the bus or not.
Filed ==
    /\ pc \in Sync => op = pc
    /\ pc \in {"header", "data"} => op = "pull" /\ \E c \in Tallies(packet) : Follows(packet, c)
    /\ pc = "status" => op = "push" /\ Honest(packet)
    /\ pc \in {"idle", "closing", "waiting"} /\ op = "push" /\ ret = 0 => Stored
    /\ pc # "stat" => Lacks(packet, "STAT")
    /\ pc = "stat" => op \in Sync /\ (Lacks(packet, "STAT") \/ IsStat(packet))
    /\ pc \in {"connect", "open", "stat"} \cup Sync => local = <<>>
    /\ Numbered(local, call, 0)

Ordered == (onBus = TRUE => Course) /\ Filed
FilesInd == WholeInd /\ Ordered

-----------------------------------------------------------------------------
(* Packets and their bearing. *)

LEMMA RequestIs ==
    ASSUME NEW id \in Ids
    PROVE  /\ Request(id) \in Packets /\ Request(id).cmd = "WRTE"
           /\ Request(id).data = <<<<id, 0>>>> /\ Request(id).data[1][1] = id
<1>1. Packet("WRTE", <<Header(id, 0)>>) \in Packets
  BY RequestType DEF Cmds
<1>2. <<<<id, 0>>>>[1][1] = id
  OBVIOUS
<1> QED BY <1>1, <1>2 DEF Request, Packet, Header

LEMMA BearsWhat ==
    ASSUME NEW q \in Seq(Packets), NEW w, Bears(q, w)
    PROVE  /\ w \in Seq(Elements) /\ w \in Loads(q)
           /\ w = <<>> => \A i \in 1 .. Len(q) : q[i].cmd = "OKAY"
           /\ \A i \in 1 .. Len(q) : q[i].cmd = "WRTE" => q[i].data = w
           /\ \A i \in 1 .. Len(q) : q[i].cmd \in {"OKAY", "WRTE"}
<1>1. \A i \in 1 .. Len(q) : /\ q[i].cmd \in {"OKAY", "WRTE"} /\ q[i].data \in Seq(Elements)
                             /\ q[i].cmd = "WRTE" => q[i].data # <<>>
  <2>1. \A i \in 1 .. Len(q) : q[i] \in Packets
    OBVIOUS
  <2> QED BY <2>1, PacketFields DEF Bears
<1>2. CASE w = <<>> /\ \A i \in 1 .. Len(q) : q[i].cmd # "WRTE"
  BY <1>1, <1>2 DEF Loads
<1>3. CASE \E i \in 1 .. Len(q) : /\ q[i].cmd = "WRTE" /\ w = q[i].data
                                  /\ \A j \in 1 .. Len(q) : q[j].cmd = "WRTE" => j = i
  BY <1>1, <1>3 DEF Loads
<1> QED BY <1>2, <1>3 DEF Bears

LEMMA BearsTail ==
    ASSUME NEW q \in Seq(Packets), NEW w, Bears(q, w), q # <<>>
    PROVE  /\ Head(q).cmd \in {"OKAY", "WRTE"}
           /\ Head(q).cmd = "OKAY" => Bears(Tail(q), w)
           /\ Head(q).cmd = "WRTE" => w = Head(q).data /\ w # <<>> /\ Bears(Tail(q), <<>>)
<1> DEFINE t == Tail(q)
<1>1. /\ Head(q) = q[1] /\ Len(q) \in Nat /\ 1 \in 1 .. Len(q) /\ Len(t) = Len(q) - 1 /\ Len(t) \in Nat
      /\ \A i \in 1 .. Len(t) : t[i] = q[i + 1] /\ i + 1 \in 1 .. Len(q)
  BY TailOf
<1>2. /\ \A i \in 1 .. Len(q) : q[i].cmd \in {"OKAY", "WRTE"}
      /\ \A i \in 1 .. Len(q) : q[i].cmd = "WRTE" => q[i].data = w
  BY BearsWhat
<1> HIDE DEF t
<1>3. \A i \in 1 .. Len(t) : t[i].cmd \in {"OKAY", "WRTE"}
  BY <1>1, <1>2
<1>4. ASSUME Head(q).cmd = "WRTE" PROVE w = Head(q).data /\ w # <<>> /\ Bears(t, <<>>)
  <2>1. q[1] \in Packets
    BY <1>1
  <2>2. w = Head(q).data /\ w # <<>>
    BY <1>1, <1>2, <1>4, <2>1, PacketFields
  <2>3. PICK i \in 1 .. Len(q) : \A j \in 1 .. Len(q) : q[j].cmd = "WRTE" => j = i
    BY <2>2 DEF Bears
  <2>4. \A k \in 1 .. Len(t) : k + 1 # 1
    BY <1>1
  <2>5. \A k \in 1 .. Len(t) : t[k].cmd # "WRTE"
    BY <1>1, <1>4, <2>3, <2>4
  <2> QED BY <1>3, <2>2, <2>5 DEF Bears
<1>5. ASSUME Head(q).cmd = "OKAY" PROVE Bears(t, w)
  <2>1. CASE w = <<>> /\ \A i \in 1 .. Len(q) : q[i].cmd # "WRTE"
    BY <1>1, <1>3, <2>1 DEF Bears
  <2>2. CASE \E i \in 1 .. Len(q) : /\ q[i].cmd = "WRTE" /\ w = q[i].data
                                    /\ \A j \in 1 .. Len(q) : q[j].cmd = "WRTE" => j = i
    <3>1. PICK i \in 1 .. Len(q) : /\ q[i].cmd = "WRTE" /\ w = q[i].data
                                   /\ \A j \in 1 .. Len(q) : q[j].cmd = "WRTE" => j = i
      BY <2>2
    <3>2. i # 1
      BY <1>1, <1>5, <3>1
    <3>3. i - 1 \in 1 .. Len(t) /\ (i - 1) + 1 = i
      BY <1>1, <3>2
    <3>4. t[i - 1] = q[i]
      BY <1>1, <3>3
    <3>5. ASSUME NEW j \in 1 .. Len(t), t[j].cmd = "WRTE" PROVE j = i - 1
      <4>1. j + 1 = i
        BY <1>1, <3>1, <3>5
      <4> QED BY <4>1
    <3> QED BY <1>3, <3>1, <3>3, <3>4, <3>5 DEF Bears
  <2> QED BY <2>1, <2>2 DEF Bears
<1> QED BY <1>1, <1>2, <1>4, <1>5 DEF t

\* The device answers a request, or writes.
LEMMA BearsMore ==
    ASSUME NEW q \in Seq(Packets), NEW w, Bears(q, w), NEW p \in Packets, NEW r, r = q \o <<p>>
    PROVE  /\ p.cmd = "OKAY" => Bears(r, w)
           /\ p.cmd = "WRTE" /\ w = <<>> => Bears(r, p.data)
<1>1. <<p>> \in Seq(Packets) /\ Len(<<p>>) = 1 /\ <<p>>[1] = p
  BY OneOf
<1> DEFINE n == Len(q)
<1>2. /\ n \in Nat /\ Len(r) = n + 1 /\ \A i \in 1 .. n : r[i] = q[i]
      /\ r[n + 1] = p
  <2>1. /\ Len(q) \in Nat /\ Len(q \o <<p>>) = Len(q) + 1
        /\ \A i \in 1 .. Len(q) : (q \o <<p>>)[i] = q[i]
        /\ \A i \in Len(q) + 1 .. Len(q) + 1 : (q \o <<p>>)[i] = <<p>>[i - Len(q)]
    BY <1>1, JoinOf
  <2>2. n + 1 \in Len(q) + 1 .. Len(q) + 1 /\ n + 1 - Len(q) = 1
    BY <2>1
  <2> QED BY <1>1, <2>1, <2>2
<1>3. \A i \in 1 .. n : q[i].cmd \in {"OKAY", "WRTE"}
  BY BearsWhat
<1>4. w = <<>> => \A i \in 1 .. n : q[i].cmd # "WRTE"
  BY BearsWhat
<1>5. \A i \in 1 .. Len(r) : i \in 1 .. n \/ i = n + 1
  BY <1>2
<1>6. \A i \in 1 .. n : i \in 1 .. Len(r) /\ i # n + 1
  BY <1>2
<1>7. n + 1 \in 1 .. Len(r)
  BY <1>2
<1>8. p.cmd \in {"OKAY", "WRTE"} => \A i \in 1 .. Len(r) : r[i].cmd \in {"OKAY", "WRTE"}
  BY <1>2, <1>3, <1>5
<1>9. ASSUME p.cmd = "WRTE", w = <<>> PROVE Bears(r, p.data)
  <2>1. \A j \in 1 .. Len(r) : r[j].cmd = "WRTE" => j = n + 1
    BY <1>2, <1>4, <1>5, <1>9
  <2> QED BY <1>2, <1>7, <1>8, <1>9, <2>1 DEF Bears
<1>10. ASSUME p.cmd = "OKAY" PROVE Bears(r, w)
  <2>1. CASE w = <<>> /\ \A i \in 1 .. n : q[i].cmd # "WRTE"
    BY <1>2, <1>5, <1>8, <1>10, <2>1 DEF Bears
  <2>2. CASE \E i \in 1 .. n : /\ q[i].cmd = "WRTE" /\ w = q[i].data
                               /\ \A j \in 1 .. n : q[j].cmd = "WRTE" => j = i
    <3>1. PICK i \in 1 .. n : /\ q[i].cmd = "WRTE" /\ w = q[i].data
                              /\ \A j \in 1 .. n : q[j].cmd = "WRTE" => j = i
      BY <2>2
    <3>2. r[i] = q[i] /\ i \in 1 .. Len(r)
      BY <1>2, <1>6
    <3>3. \A j \in 1 .. Len(r) : r[j].cmd = "WRTE" => j = i
      BY <1>2, <1>5, <1>10, <3>1
    <3> QED BY <1>8, <1>10, <3>1, <3>2, <3>3 DEF Bears
  <2> QED BY <2>1, <2>2 DEF Bears
<1> QED BY <1>9, <1>10

LEMMA BearsNone == Bears(<<>>, <<>>)
BY DEF Bears

LEMMA LacksParts ==
    ASSUME NEW s \in Seq(Elements), NEW id, Lacks(s, id), NEW n \in 0 .. Len(s)
    PROVE  Lacks(SubSeq(s, 1, n), id) /\ Lacks(SubSeq(s, n + 1, Len(s)), id)
<1>0. Len(s) \in Nat /\ n \in Nat /\ n <= Len(s)
  OBVIOUS
<1> DEFINE a == SubSeq(s, 1, n)
           b == SubSeq(s, n + 1, Len(s))
<1>1. Len(a) = n /\ \A i \in 1 .. n : a[i] = s[i]
  BY <1>0
<1>2. Len(b) = Len(s) - n /\ \A i \in 1 .. Len(s) - n : b[i] = s[n + i]
  BY <1>0
<1> HIDE DEF a, b
<1>3. \A i \in 1 .. n : i \in 1 .. Len(s)
  BY <1>0
<1>4. \A i \in 1 .. Len(s) - n : n + i \in 1 .. Len(s)
  BY <1>0
<1> QED BY <1>1, <1>2, <1>3, <1>4 DEF Lacks, a, b

LEMMA LacksJoin ==
    ASSUME NEW s \in Seq(Elements), NEW t \in Seq(Elements), NEW id, Lacks(s, id), Lacks(t, id)
    PROVE  Lacks(s \o t, id)
<1> DEFINE u == s \o t
           a == Len(s)
           b == Len(t)
<1>1. /\ a \in Nat /\ b \in Nat /\ Len(u) = a + b
      /\ \A i \in 1 .. a : u[i] = s[i]
      /\ \A i \in a + 1 .. a + b : u[i] = t[i - a]
  BY JoinOf
<1>2. \A i \in 1 .. a : s[i][1] # id
  BY DEF Lacks
<1>3. \A i \in 1 .. b : t[i][1] # id
  BY DEF Lacks
<1> HIDE DEF u, a, b
<1>4. \A i \in 1 .. Len(u) : i \in 1 .. a \/ (i \in a + 1 .. a + b /\ i - a \in 1 .. b)
  BY <1>1
<1> QED BY <1>1, <1>2, <1>3, <1>4 DEF Lacks, u

LEMMA LacksNone == \A id : Lacks(<<>>, id)
BY DEF Lacks

-----------------------------------------------------------------------------
(* Chains. *)

LEMMA DropOf ==
    ASSUME NEW s \in Seq(Elements), NEW k \in 0 .. Len(s)
    PROVE  /\ SubSeq(s, k + 1, Len(s)) \in Seq(Elements)
           /\ Len(SubSeq(s, k + 1, Len(s))) = Len(s) - k /\ Len(s) - k \in Nat
           /\ \A i \in 1 .. Len(s) - k : SubSeq(s, k + 1, Len(s))[i] = s[k + i]
<1>0. Len(s) \in Nat /\ k \in Nat /\ k <= Len(s)
  OBVIOUS
<1> QED BY <1>0

LEMMA SameSeq ==
    ASSUME NEW s \in Seq(Elements), NEW t \in Seq(Elements), Len(s) = Len(t),
           \A i \in 1 .. Len(s) : s[i] = t[i]
    PROVE  s = t
<1>1. s = [i \in 1 .. Len(s) |-> s[i]] /\ t = [i \in 1 .. Len(t) |-> t[i]]
  OBVIOUS
<1> QED BY <1>1

LEMMA DropJoin ==
    ASSUME NEW s \in Seq(Elements), NEW t \in Seq(Elements), NEW k \in 0 .. Len(s)
    PROVE  /\ SubSeq(s, k + 1, Len(s)) \o t = SubSeq(s \o t, k + 1, Len(s \o t))
           /\ k \in 0 .. Len(s \o t)
<1> DEFINE u == s \o t
           d == SubSeq(s, k + 1, Len(s))
           l == d \o t
           r == SubSeq(u, k + 1, Len(u))
           a == Len(s)
           b == Len(t)
<1>1. /\ u \in Seq(Elements) /\ a \in Nat /\ b \in Nat /\ Len(u) = a + b
      /\ \A i \in 1 .. a : u[i] = s[i]
      /\ \A i \in a + 1 .. a + b : u[i] = t[i - a]
  BY JoinOf
<1>2. d \in Seq(Elements) /\ Len(d) = a - k /\ \A i \in 1 .. a - k : d[i] = s[k + i]
  BY DropOf
<1>3. k \in 0 .. Len(u) /\ k \in Nat /\ k <= a
  BY <1>1
<1> HIDE DEF u, d
<1>4. r \in Seq(Elements) /\ Len(r) = a + b - k /\ \A i \in 1 .. a + b - k : r[i] = u[k + i]
  <2> DEFINE n == Len(u)
  <2>1. u \in Seq(Elements) /\ k \in 0 .. n
    BY <1>1, <1>3
  <2>2. r \in Seq(Elements) /\ Len(r) = n - k /\ \A i \in 1 .. n - k : r[i] = u[k + i]
    BY <2>1, DropOf
  <2> HIDE DEF r, n
  <2>3. n = a + b
    BY <1>1 DEF n
  <2> QED BY <2>2, <2>3
<1>5. /\ l \in Seq(Elements) /\ Len(l) = (a - k) + b
      /\ \A i \in 1 .. a - k : l[i] = d[i]
      /\ \A i \in (a - k) + 1 .. (a - k) + b : l[i] = t[i - (a - k)]
  <2> DEFINE c == Len(d)
  <2>1. /\ l \in Seq(Elements) /\ Len(l) = c + b
        /\ \A i \in 1 .. c : l[i] = d[i]
        /\ \A i \in c + 1 .. c + b : l[i] = t[i - c]
    BY <1>2, JoinOf
  <2>2. c = a - k
    BY <1>2
  <2> HIDE DEF c, l, a, b
  <2> QED BY <2>1, <2>2
<1> HIDE DEF a, b, l, r
<1>6. Len(l) = Len(r)
  BY <1>1, <1>3, <1>4, <1>5
<1>7. ASSUME NEW i \in 1 .. Len(l) PROVE l[i] = r[i]
  <2>0. i \in 1 .. a + b - k
    BY <1>1, <1>3, <1>5
  <2>1. CASE i \in 1 .. a - k
    <3>1. k + i \in 1 .. a
      BY <1>1, <1>3, <2>1
    <3> QED BY <1>1, <1>2, <1>4, <1>5, <2>0, <2>1, <3>1
  <2>2. CASE i \in (a - k) + 1 .. (a - k) + b
    <3>1. k + i \in a + 1 .. a + b /\ (k + i) - a = i - (a - k)
      BY <1>1, <1>3, <2>2
    <3> QED BY <1>1, <1>4, <1>5, <2>0, <2>2, <3>1
  <2> QED BY <1>1, <1>3, <1>5, <2>1, <2>2
<1>8. l = r
  BY <1>4, <1>5, <1>6, <1>7, SameSeq
<1> QED BY <1>3, <1>8 DEF l, r, u, d

\* The elements of a sequence, as numbers of headers.
LEMMA SizeOf ==
    ASSUME NEW s \in Seq(Elements), NEW i \in 1 .. Len(s)
    PROVE  s[i][2] \in Nat
<1>1. s[i] \in Elements
  OBVIOUS
<1> QED BY <1>1, ElementFields

LEMMA ChainPrefix ==
    ASSUME NEW s \in Seq(Elements), NEW t \in Seq(Elements), NEW c \in Tallies(s \o t),
           NEW b, NEW d \in Nat, NEW m, Chain(s \o t, c, b, d, m)
    PROVE  \E e \in Tallies(s) : Chain(s, e, b, d, m)
<1> DEFINE u == s \o t
           a == Len(s)
           e == [i \in 0 .. a |-> c[i]]
<1>1. /\ a \in Nat /\ Len(t) \in Nat /\ Len(u) = a + Len(t)
      /\ \A i \in 1 .. a : u[i] = s[i]
  BY JoinOf
<1> HIDE DEF u
<1>2. c \in [0 .. Len(u) -> Nat] /\ Chain(u, c, b, d, m)
  BY DEF Tallies, u
<1>3. \A i \in 0 .. a : i \in 0 .. Len(u)
  BY <1>1
<1>4. e \in Tallies(s) /\ \A i \in 0 .. a : e[i] = c[i]
  BY <1>2, <1>3 DEF Tallies
<1> HIDE DEF e
<1>5. ASSUME NEW i \in 0 .. a, NEW n \in Nat, Chunk(u, c, i, n, m)
      PROVE  Chunk(s, e, i, n, m)
  <2>1. ASSUME NEW k \in 1 .. n, i + k <= a
        PROVE  s[i + k] = <<"byte", m, e[i] + k>> /\ e[i + k] = e[i] + k
    <3>1. i + k \in 1 .. a /\ i + k \in 0 .. a /\ i + k <= Len(u)
      BY <1>1, <2>1
    <3>2. u[i + k] = <<"byte", m, c[i] + k>> /\ c[i + k] = c[i] + k
      BY <1>5, <3>1 DEF Chunk
    <3> QED BY <1>1, <1>4, <3>1, <3>2
  <2> QED BY <2>1 DEF Chunk
<1>6. e[0] = b /\ Chunk(s, e, 0, d, m)
  <2>1. 0 \in 0 .. a
    BY <1>1
  <2> QED BY <1>2, <1>4, <1>5, <2>1 DEF Chain
<1>7. ASSUME NEW i \in 1 .. a, s[i][1] = "DATA"
      PROVE  e[i] = e[i - 1] /\ Chunk(s, e, i, s[i][2], m)
  <2>1. i \in 1 .. Len(u) /\ i \in 0 .. a /\ i - 1 \in 0 .. a /\ u[i] = s[i]
    BY <1>1
  <2>2. s[i][2] \in Nat
    BY SizeOf
  <2>3. c[i] = c[i - 1] /\ Chunk(u, c, i, s[i][2], m)
    BY <1>2, <1>7, <2>1 DEF Chain
  <2> QED BY <1>4, <1>5, <2>1, <2>2, <2>3
<1>8. Chain(s, e, b, d, m)
  BY <1>6, <1>7 DEF Chain
<1> QED BY <1>4, <1>8

\* t takes the local file from a bytes to z.
Runs(t, a, d, m, z) == \E e \in Tallies(t) : Chain(t, e, a, d, m) /\ e[Len(t)] = z

\* The first k elements are read.
LEMMA ChainDrop ==
    ASSUME NEW s \in Seq(Elements), NEW c \in Tallies(s), NEW k \in 0 .. Len(s),
           NEW b, NEW d, NEW m, NEW t, NEW f \in Nat, Chain(s, c, b, d, m),
           t = SubSeq(s, k + 1, Len(s)), Chunk(s, c, k, f, m)
    PROVE  Runs(t, c[k], f, m, c[Len(s)])
<1> DEFINE a == Len(s)
           e == [i \in 0 .. a - k |-> c[k + i]]
<1>1. /\ t \in Seq(Elements) /\ Len(t) = a - k /\ a - k \in Nat /\ a \in Nat /\ k \in Nat
      /\ \A i \in 1 .. a - k : t[i] = s[k + i]
  BY DropOf
<1>2. c \in [0 .. a -> Nat]
  BY DEF Tallies
<1>3. \A i \in 0 .. a - k : k + i \in 0 .. a
  BY <1>1
<1>4. e \in Tallies(t) /\ \A i \in 0 .. a - k : e[i] = c[k + i]
  BY <1>1, <1>2, <1>3 DEF Tallies
<1> HIDE DEF e
<1>5. ASSUME NEW i \in 0 .. a - k, NEW n \in Nat, Chunk(s, c, k + i, n, m)
      PROVE  Chunk(t, e, i, n, m)
  <2>1. ASSUME NEW j \in 1 .. n, i + j <= Len(t)
        PROVE  t[i + j] = <<"byte", m, e[i] + j>> /\ e[i + j] = e[i] + j
    <3>1. i + j \in 1 .. a - k /\ i + j \in 0 .. a - k /\ (k + i) + j <= a /\ (k + i) + j = k + (i + j)
      BY <1>1, <2>1
    <3>2. s[(k + i) + j] = <<"byte", m, c[k + i] + j>> /\ c[(k + i) + j] = c[k + i] + j
      BY <1>5, <3>1 DEF Chunk
    <3> QED BY <1>1, <1>4, <3>1, <3>2
  <2> QED BY <2>1 DEF Chunk
<1>6. e[0] = c[k] /\ Chunk(t, e, 0, f, m)
  <2>1. 0 \in 0 .. a - k /\ k + 0 = k
    BY <1>1
  <2> QED BY <1>4, <1>5, <2>1
<1>7. ASSUME NEW i \in 1 .. Len(t), t[i][1] = "DATA"
      PROVE  e[i] = e[i - 1] /\ Chunk(t, e, i, t[i][2], m)
  <2>1. /\ k + i \in 1 .. a /\ i \in 0 .. a - k /\ i - 1 \in 0 .. a - k /\ t[i] = s[k + i]
        /\ k + (i - 1) = (k + i) - 1
    <3>1. i \in 1 .. a - k
      BY <1>1
    <3>2. t[i] = s[k + i]
      BY <1>1, <3>1
    <3> HIDE DEF a
    <3>3. /\ k + i \in 1 .. a /\ i \in 0 .. a - k /\ i - 1 \in 0 .. a - k
          /\ k + (i - 1) = (k + i) - 1
      BY <1>1, <3>1
    <3> QED BY <3>2, <3>3
  <2>2. s[k + i][2] \in Nat
    BY <2>1, SizeOf
  <2>3. c[k + i] = c[(k + i) - 1] /\ Chunk(s, c, k + i, s[k + i][2], m)
    BY <1>7, <2>1 DEF Chain
  <2> QED BY <1>1, <1>4, <1>5, <2>1, <2>2, <2>3
<1>8. Chain(t, e, c[k], f, m)
  BY <1>6, <1>7 DEF Chain
<1>9. e[Len(t)] = c[Len(s)]
  <2>1. a - k \in 0 .. a - k /\ k + (a - k) = a
    BY <1>1
  <2> QED BY <1>1, <1>4, <2>1
<1> QED BY <1>4, <1>8, <1>9 DEF Runs

LEMMA CompleteDrop ==
    ASSUME NEW s \in Seq(Elements), NEW k \in 0 .. Len(s), NEW d, NEW t, NEW f \in Nat,
           Complete(s, d), t = SubSeq(s, k + 1, Len(s)), k + f <= Len(s)
    PROVE  Complete(t, f)
<1> DEFINE a == Len(s)
<1>1. /\ t \in Seq(Elements) /\ Len(t) = a - k /\ a - k \in Nat /\ a \in Nat /\ k \in Nat
      /\ \A i \in 1 .. a - k : t[i] = s[k + i]
  BY DropOf
<1>2. ASSUME NEW i \in 1 .. Len(t), t[i][1] = "DATA" PROVE i + t[i][2] <= Len(t)
  <2>1. t[i] = s[k + i] /\ k + i \in 1 .. a
    <3>1. i \in 1 .. a - k
      BY <1>1
    <3>2. t[i] = s[k + i]
      BY <1>1, <3>1
    <3> HIDE DEF a
    <3> QED BY <1>1, <3>1, <3>2
  <2>2. s[k + i][2] \in Nat
    BY <2>1, SizeOf
  <2>3. (k + i) + s[k + i][2] <= a
    BY <1>2, <2>1 DEF Complete
  <2>4. i + s[k + i][2] <= a - k
    BY <1>1, <2>2, <2>3
  <2> QED BY <1>1, <2>1, <2>4
<1>3. f <= Len(t)
  BY <1>1
<1> QED BY <1>2, <1>3 DEF Complete

LEMMA JoinEmpty ==
    ASSUME NEW s \in Seq(Elements)
    PROVE  s \o <<>> = s /\ <<>> \o s = s
OBVIOUS

LEMMA JoinAssoc ==
    ASSUME NEW r \in Seq(Elements), NEW s \in Seq(Elements), NEW t \in Seq(Elements)
    PROVE  r \o (s \o t) = (r \o s) \o t
<1> DEFINE x == s \o t
           y == r \o s
           u == r \o x
           v == y \o t
           a == Len(r)
           b == Len(s)
           c == Len(t)
           xl == Len(x)
           yl == Len(y)
<1>1. /\ x \in Seq(Elements) /\ a \in Nat /\ b \in Nat /\ c \in Nat /\ xl = b + c
      /\ \A i \in 1 .. b : x[i] = s[i]
      /\ \A i \in b + 1 .. b + c : x[i] = t[i - b]
  BY JoinOf
<1>2. /\ y \in Seq(Elements) /\ yl = a + b
      /\ \A i \in 1 .. a : y[i] = r[i]
      /\ \A i \in a + 1 .. a + b : y[i] = s[i - a]
  BY JoinOf
<1> HIDE DEF x, y
<1>21. x \in Seq(Elements) /\ y \in Seq(Elements)
  BY <1>1, <1>2
<1>3. /\ u \in Seq(Elements) /\ Len(u) = a + xl
      /\ \A i \in 1 .. a : u[i] = r[i]
      /\ \A i \in a + 1 .. a + xl : u[i] = x[i - a]
  BY <1>21, JoinOf
<1>4. /\ v \in Seq(Elements) /\ Len(v) = yl + c
      /\ \A i \in 1 .. yl : v[i] = y[i]
      /\ \A i \in yl + 1 .. yl + c : v[i] = t[i - yl]
  BY <1>21, JoinOf
<1> HIDE DEF a, b, c, u, v, xl, yl
<1>5. Len(u) = Len(v) /\ Len(u) = a + b + c
  BY <1>1, <1>2, <1>3, <1>4
<1>6. ASSUME NEW i \in 1 .. Len(u) PROVE u[i] = v[i]
  <2>1. CASE i \in 1 .. a
    <3>1. i \in 1 .. yl
      BY <1>1, <1>2, <2>1
    <3> QED BY <1>2, <1>3, <1>4, <2>1, <3>1
  <2>2. CASE i \in a + 1 .. a + b
    <3>1. i \in 1 .. yl /\ i \in a + 1 .. a + xl /\ i - a \in 1 .. b
      BY <1>1, <1>2, <2>2
    <3> QED BY <1>1, <1>2, <1>3, <1>4, <2>2, <3>1
  <2>3. CASE i \in a + b + 1 .. a + b + c
    <3>1. /\ i \in yl + 1 .. yl + c /\ i \in a + 1 .. a + xl /\ i - a \in b + 1 .. b + c
          /\ (i - a) - b = i - yl
      BY <1>1, <1>2, <2>3
    <3> QED BY <1>1, <1>3, <1>4, <3>1
  <2> QED BY <1>1, <1>5, <2>1, <2>2, <2>3
<1>7. u = v
  BY <1>3, <1>4, <1>5, <1>6, SameSeq
<1> QED BY <1>7 DEF u, v, x, y

\* The device prepares more.
LEMMA ChainJoin ==
    ASSUME NEW s \in Seq(Elements), NEW t \in Seq(Elements), NEW c \in Tallies(s),
           NEW e \in Tallies(t), NEW b, NEW d \in Nat, NEW m,
           Chain(s, c, b, d, m), Complete(s, d), Chain(t, e, c[Len(s)], 0, m), Complete(t, 0)
    PROVE  /\ Complete(s \o t, d)
           /\ \E f \in Tallies(s \o t) :
                 Chain(s \o t, f, b, d, m) /\ f[Len(s \o t)] = e[Len(t)]
<1> DEFINE u == s \o t
           a == Len(s)
           z == Len(t)
           f == [i \in 0 .. a + z |-> IF i <= a THEN c[i] ELSE e[i - a]]
<1>1. /\ a \in Nat /\ z \in Nat /\ Len(u) = a + z /\ u \in Seq(Elements)
      /\ \A i \in 1 .. a : u[i] = s[i]
      /\ \A i \in a + 1 .. a + z : u[i] = t[i - a]
  BY JoinOf
<1>2. c \in [0 .. a -> Nat] /\ e \in [0 .. z -> Nat] /\ e[0] = c[a]
  BY DEF Tallies, Chain
<1> HIDE DEF u
<1>3. f \in [0 .. a + z -> Nat] /\ \A i \in 0 .. a : f[i] = c[i]
  <2>1. \A i \in 0 .. a + z : i <= a => i \in 0 .. a
    BY <1>1
  <2>2. \A i \in 0 .. a + z : ~(i <= a) => i - a \in 0 .. z
    BY <1>1
  <2>3. \A i \in 0 .. a : i \in 0 .. a + z /\ i <= a
    BY <1>1
  <2> HIDE DEF a, z
  <2> QED BY <1>2, <2>1, <2>2, <2>3
<1>4. \A i \in 0 .. z : f[a + i] = e[i]
  <2> SUFFICES ASSUME NEW i \in 0 .. z PROVE f[a + i] = e[i]
    OBVIOUS
  <2>1. a + i \in 0 .. a + z /\ (a + i) - a = i
    BY <1>1
  <2>2. CASE i = 0
    <3>1. a + i = a /\ a \in 0 .. a
      BY <1>1, <2>2
    <3> QED BY <1>2, <1>3, <2>2, <3>1
  <2>3. CASE i # 0
    <3>1. ~(a + i <= a)
      BY <1>1, <2>3
    <3> QED BY <2>1, <3>1
  <2> QED BY <2>2, <2>3
<1>5. f \in Tallies(u)
  BY <1>1, <1>3 DEF Tallies
<1> HIDE DEF f
<1>6. ASSUME NEW i \in 0 .. a, NEW n \in Nat, i + n <= a, Chunk(s, c, i, n, m)
      PROVE  Chunk(u, f, i, n, m)
  <2>1. ASSUME NEW k \in 1 .. n, i + k <= Len(u)
        PROVE  u[i + k] = <<"byte", m, f[i] + k>> /\ f[i + k] = f[i] + k
    <3>1. i + k \in 1 .. a /\ i + k \in 0 .. a /\ i + k <= a
      BY <1>1, <1>6
    <3>2. s[i + k] = <<"byte", m, c[i] + k>> /\ c[i + k] = c[i] + k
      BY <1>6, <3>1 DEF Chunk
    <3> QED BY <1>1, <1>3, <3>1, <3>2
  <2> QED BY <2>1 DEF Chunk
<1>7. ASSUME NEW i \in 0 .. z, NEW n \in Nat, Chunk(t, e, i, n, m)
      PROVE  Chunk(u, f, a + i, n, m)
  <2>1. ASSUME NEW k \in 1 .. n, (a + i) + k <= Len(u)
        PROVE  u[(a + i) + k] = <<"byte", m, f[a + i] + k>> /\ f[(a + i) + k] = f[a + i] + k
    <3>1. /\ i + k <= z /\ i + k \in 0 .. z /\ (a + i) + k \in a + 1 .. a + z
          /\ ((a + i) + k) - a = i + k /\ (a + i) + k = a + (i + k)
      BY <1>1, <2>1
    <3>2. t[i + k] = <<"byte", m, e[i] + k>> /\ e[i + k] = e[i] + k
      BY <1>7, <3>1 DEF Chunk
    <3>3. u[(a + i) + k] = t[i + k]
      BY <1>1, <3>1
    <3>4. f[a + i] = e[i] /\ f[(a + i) + k] = e[i + k]
      BY <1>4, <3>1
    <3> QED BY <3>2, <3>3, <3>4
  <2> QED BY <2>1 DEF Chunk
<1>8. f[0] = b /\ Chunk(u, f, 0, d, m) /\ d <= a
  <2>1. 0 \in 0 .. a /\ d <= a /\ 0 + d <= a
    BY <1>1 DEF Complete
  <2> QED BY <1>3, <1>6, <2>1 DEF Chain
<1>9. ASSUME NEW i \in 1 .. Len(u), u[i][1] = "DATA"
      PROVE  /\ f[i] = f[i - 1] /\ Chunk(u, f, i, u[i][2], m)
             /\ i + u[i][2] <= Len(u)
  <2>1. CASE i \in 1 .. a
    <3>1. u[i] = s[i] /\ i \in 0 .. a /\ i - 1 \in 0 .. a
      <4>1. u[i] = s[i]
        BY <1>1, <2>1
      <4>2. a \in Nat
        BY <1>1
      <4>3. i \in 0 .. a /\ i - 1 \in 0 .. a
        BY <2>1, <4>2
      <4> QED BY <4>1, <4>3
    <3>2. s[i][2] \in Nat
      BY <2>1, SizeOf
    <3>3. c[i] = c[i - 1] /\ Chunk(s, c, i, s[i][2], m) /\ i + s[i][2] <= a
      BY <1>9, <2>1, <3>1 DEF Chain, Complete
    <3>4. Chunk(u, f, i, s[i][2], m)
      BY <1>6, <3>1, <3>2, <3>3
    <3>5. i + s[i][2] <= a + z
      BY <1>1, <3>2, <3>3
    <3> QED BY <1>1, <1>3, <3>1, <3>3, <3>4, <3>5
  <2>2. CASE i \in a + 1 .. a + z
    <3> DEFINE j == i - a
    <3>1. u[i] = t[j]
      BY <1>1, <2>2
    <3>2. j \in 1 .. z /\ j \in 0 .. z /\ j - 1 \in 0 .. z /\ i = a + j /\ i - 1 = a + (j - 1)
      BY <1>1, <2>2
    <3> HIDE DEF j
    <3>3. t[j][2] \in Nat
      BY <3>2, SizeOf
    <3>4. e[j] = e[j - 1] /\ Chunk(t, e, j, t[j][2], m) /\ j + t[j][2] <= z
      BY <1>9, <3>1, <3>2 DEF Chain, Complete
    <3>5. Chunk(u, f, a + j, t[j][2], m)
      BY <1>7, <3>2, <3>3, <3>4
    <3>6. f[i] = e[j] /\ f[i - 1] = e[j - 1]
      BY <1>4, <3>2
    <3>7. i + t[j][2] <= a + z
      BY <1>1, <3>2, <3>3, <3>4
    <3> QED BY <1>1, <3>1, <3>2, <3>4, <3>5, <3>6, <3>7
  <2>3. i \in 1 .. a \/ i \in a + 1 .. a + z
    BY <1>1
  <2> QED BY <2>1, <2>2, <2>3
<1>10. Chain(u, f, b, d, m)
  BY <1>8, <1>9 DEF Chain
<1>11. Complete(u, d)
  <2>1. d <= a + z
    BY <1>1, <1>8
  <2> QED BY <1>1, <1>9, <2>1 DEF Complete
<1>12. f[Len(u)] = e[z]
  <2>1. z \in 0 .. z
    BY <1>1
  <2> QED BY <1>1, <1>4, <2>1
<1> QED BY <1>5, <1>10, <1>11, <1>12 DEF u

\* What is no DATA moves nothing.
LEMMA ChainFlat ==
    ASSUME NEW t \in Seq(Elements), Lacks(t, "DATA"), NEW b \in Nat, NEW m
    PROVE  /\ Complete(t, 0)
           /\ \E e \in Tallies(t) : Chain(t, e, b, 0, m) /\ e[Len(t)] = b
<1> DEFINE e == [i \in 0 .. Len(t) |-> b]
<1>1. Len(t) \in Nat
  OBVIOUS
<1>2. e \in Tallies(t)
  BY DEF Tallies
<1>3. e[0] = b /\ e[Len(t)] = b
  BY <1>1
<1> HIDE DEF e
<1>4. Chunk(t, e, 0, 0, m)
  BY DEF Chunk
<1>5. \A i \in 1 .. Len(t) : t[i][1] # "DATA"
  BY DEF Lacks
<1>6. Chain(t, e, b, 0, m)
  BY <1>3, <1>4, <1>5 DEF Chain
<1>7. Complete(t, 0)
  BY <1>1, <1>5 DEF Complete
<1> QED BY <1>2, <1>3, <1>6, <1>7

\* t takes the file from a to z.
Extends(t, a, m, z) ==
    t \in Seq(Elements) /\ Lacks(t, "STAT") /\ Complete(t, 0) /\ Runs(t, a, 0, m, z)

\* A piece of the file.
LEMMA ChainPiece ==
    ASSUME NEW m \in Nat, NEW r \in Nat, NEW n \in Nat \ {0}, NEW t,
           r + n <= FileLen, t = <<Header("DATA", n)>> \o SubSeq(Bytes(m, FileLen), r + 1, r + n)
    PROVE  Extends(t, r, m, r + n)
<1> DEFINE h == <<Header("DATA", n)>>
           x == SubSeq(Bytes(m, FileLen), r + 1, r + n)
           e == [i \in 0 .. n + 1 |-> IF i = 0 THEN r ELSE r + (i - 1)]
<1>0. FileLen \in Nat
  BY AdbAssumption
<1>1. Header("DATA", n) \in Elements
  BY HeaderType DEF Ids
<1>2. h \in Seq(Elements) /\ Len(h) = 1 /\ h[1] = <<"DATA", n>>
  BY <1>1, OneOf DEF Header
<1>3. x \in Seq(Elements) /\ Len(x) = n /\ \A k \in 1 .. n : x[k] = <<"byte", m, r + k>>
  <2> DEFINE y == Bytes(m, FileLen)
  <2>1. y \in Seq(Elements) /\ Len(y) = FileLen
    BY <1>0, BytesType
  <2>2. \A k \in 1 .. FileLen : y[k] = <<"byte", m, k>>
    BY DEF Bytes
  <2> HIDE DEF y
  <2>3. SubSeq(y, r + 1, r + n) \in Seq(Elements) /\ Len(SubSeq(y, r + 1, r + n)) = n
    BY <1>0, <2>1
  <2>4. \A k \in 1 .. n : SubSeq(y, r + 1, r + n)[k] = y[r + k]
    BY <1>0, <2>1
  <2>5. \A k \in 1 .. n : r + k \in 1 .. FileLen
    BY <1>0
  <2> QED BY <2>2, <2>3, <2>4, <2>5 DEF y
<1> HIDE DEF h, x
<1>4. t \in Seq(Elements) /\ Len(t) = n + 1 /\ t[1] = <<"DATA", n>>
      /\ \A k \in 1 .. n : t[1 + k] = <<"byte", m, r + k>>
  <2>1. /\ t \in Seq(Elements) /\ Len(t) = Len(h) + Len(x)
        /\ \A i \in 1 .. Len(h) : t[i] = h[i]
        /\ \A i \in Len(h) + 1 .. Len(h) + Len(x) : t[i] = x[i - Len(h)]
    <3>1. h \in Seq(Elements) /\ x \in Seq(Elements) /\ t = h \o x
      BY <1>2, <1>3 DEF h, x
    <3>2. /\ h \o x \in Seq(Elements) /\ Len(h \o x) = Len(h) + Len(x)
          /\ \A i \in 1 .. Len(h) : (h \o x)[i] = h[i]
          /\ \A i \in Len(h) + 1 .. Len(h) + Len(x) : (h \o x)[i] = x[i - Len(h)]
      BY <3>1, JoinOf
    <3> QED BY <3>1, <3>2
  <2>2. /\ \A i \in 1 .. 1 : t[i] = h[i]
        /\ \A i \in 1 + 1 .. 1 + n : t[i] = x[i - 1]
    BY <1>2, <1>3, <2>1
  <2>3. Len(t) = n + 1
    BY <1>2, <1>3, <2>1
  <2>4. \A k \in 1 .. n : 1 + k \in 1 + 1 .. 1 + n /\ (1 + k) - 1 = k
    OBVIOUS
  <2>5. 1 \in 1 .. 1
    OBVIOUS
  <2>6. t[1] = <<"DATA", n>>
    BY <1>2, <2>2, <2>5
  <2>7. \A k \in 1 .. n : t[1 + k] = x[k]
    BY <2>2, <2>4
  <2>8. \A k \in 1 .. n : t[1 + k] = <<"byte", m, r + k>>
    BY <1>3, <2>7
  <2> QED BY <2>1, <2>3, <2>6, <2>8
<1>5. e \in Tallies(t) /\ e[0] = r /\ \A k \in 0 .. n : e[1 + k] = r + k
  <2>1. \A i \in 0 .. n + 1 : i # 0 => r + (i - 1) \in Nat
    OBVIOUS
  <2>2. e \in [0 .. n + 1 -> Nat]
    BY <2>1
  <2>3. \A k \in 0 .. n : 1 + k \in 0 .. n + 1 /\ 1 + k # 0 /\ (1 + k) - 1 = k
    OBVIOUS
  <2>4. 0 \in 0 .. n + 1
    OBVIOUS
  <2> QED BY <1>4, <2>2, <2>3, <2>4 DEF Tallies
<1> HIDE DEF e
<1>6. \A i \in 1 .. Len(t) : i = 1 \/ (i - 1 \in 1 .. n /\ 1 + (i - 1) = i)
  BY <1>4
<1>7. e[1] = r
  <2>1. 0 \in 0 .. n /\ 1 + 0 = 1 /\ r + 0 = r
    OBVIOUS
  <2> QED BY <1>5, <2>1
<1>8. \A i \in 1 .. Len(t) : t[i][1] \in {"DATA", "byte"} /\ (t[i][1] = "DATA" => i = 1)
  <2> SUFFICES ASSUME NEW i \in 1 .. Len(t)
               PROVE  t[i][1] \in {"DATA", "byte"} /\ (t[i][1] = "DATA" => i = 1)
    OBVIOUS
  <2>1. CASE i = 1
    <3>1. t[1][1] = "DATA"
      BY <1>4
    <3> QED BY <2>1, <3>1
  <2>2. CASE i - 1 \in 1 .. n /\ 1 + (i - 1) = i
    <3>1. t[i] = <<"byte", m, r + (i - 1)>>
      BY <1>4, <2>2
    <3>2. t[i][1] = "byte"
      BY <3>1
    <3> QED BY <3>2
  <2> QED BY <1>6, <2>1, <2>2
<1>9. Chunk(t, e, 1, n, m)
  <2>1. ASSUME NEW k \in 1 .. n
        PROVE  t[1 + k] = <<"byte", m, e[1] + k>> /\ e[1 + k] = e[1] + k
    <3>1. k \in 0 .. n
      OBVIOUS
    <3> QED BY <1>4, <1>5, <1>7, <3>1
  <2> QED BY <2>1 DEF Chunk
<1>10. t[1][2] = n /\ 1 - 1 = 0
  BY <1>4
<1>11. Chain(t, e, r, 0, m)
  <2>1. Chunk(t, e, 0, 0, m)
    BY DEF Chunk
  <2> QED BY <1>5, <1>7, <1>8, <1>9, <1>10, <2>1 DEF Chain
<1>12. Complete(t, 0)
  <2>1. 1 + n <= Len(t) /\ 0 <= Len(t)
    BY <1>4
  <2> QED BY <1>8, <1>10, <2>1 DEF Complete
<1>13. e[Len(t)] = r + n
  <2>1. n \in 0 .. n /\ Len(t) = 1 + n
    BY <1>4
  <2> QED BY <1>5, <2>1
<1>14. Lacks(t, "STAT")
  BY <1>8 DEF Lacks
<1> QED BY <1>4, <1>5, <1>11, <1>12, <1>13, <1>14 DEF Extends, Runs

-----------------------------------------------------------------------------
(* Files: the host. *)

LEMMA Kinds ==
    ASSUME AdbInd
    PROVE  /\ packet \in Seq(Elements) /\ local \in Seq(Elements) /\ need \in Nat
           /\ diskOK \in BOOLEAN /\ pc \in Pcs
           /\ dev.busy \in BOOLEAN /\ dev.reading \in Int
           /\ dev.sent \in Seq(Elements) /\ dev.stored \in Seq(Elements)
BY DEF AdbInd, AdbTypeOK, Content

\* A step that ends a call, or its use of the file.
LEMMA EndsOrdered ==
    ASSUME pc' \in {"idle", "connect", "shell", "closing", "waiting", "crashed"},
           Lacks(packet', "STAT"), Numbered(local', call', 0),
           pc' = "connect" => local' = <<>>,
           pc' \in {"idle", "closing", "waiting"} /\ op' = "push" /\ ret' = 0 =>
               Stored' /\ (onBus' = TRUE => OnlyQuit')
    PROVE  Ordered'
<1>1. Course' \/ onBus' # TRUE
  BY DEF Course, Reading, Sync
<1>2. Filed'
  BY DEF Filed, Sync
<1> QED BY <1>1, <1>2 DEF Ordered

LEMMA NumberedNone == \A m : Numbered(<<>>, m, 0)
BY DEF Numbered

LEMMA BeginOrdered ==
    ASSUME FilesInd, Begin
    PROVE  Ordered'
<1>1. /\ pc = "idle" /\ pc' = "connect" /\ local' = <<>> /\ packet' = packet
  BY DEF Begin
<1>2. Lacks(packet, "STAT")
  BY <1>1 DEF FilesInd, Ordered, Filed
<1> QED BY <1>1, <1>2, NumberedNone, EndsOrdered

LEMMA ConnectOrdered ==
    ASSUME FilesInd, handle_connect_response
    PROVE  Ordered'
<1>0. WholeInd /\ Ordered /\ onBus \in BOOLEAN
  BY Typed DEF FilesInd, WholeInd
<1>1. /\ pc = "connect" /\ CanRead /\ Taken /\ onBus' = onBus /\ dev' = dev /\ call' = call
      /\ packet' = packet /\ local' = local
      /\ \/ Got.cmd = "CNXN" /\ pc' = "open"
         \/ pc' = "idle" /\ ret' = -1
  BY DEF handle_connect_response, Return, syncState
<1>2. Lacks(packet, "STAT") /\ local = <<>>
  BY <1>0, <1>1 DEF Ordered, Filed
<1>3. CASE pc' = "idle" /\ ret' = -1
  BY <1>1, <1>2, <1>3, NumberedNone, EndsOrdered
<1>4. CASE Got.cmd = "CNXN" /\ pc' = "open"
  <2>1. Filed'
    BY <1>1, <1>2, <1>4, NumberedNone DEF Filed, Sync
  <2>2. ASSUME onBus' = TRUE PROVE Course'
    <3>1. toHost # <<>> /\ (Asked \/ Connected)
      BY <1>0, <1>1, <2>2, ReadIs DEF WholeInd, Calm, Stage
    <3>2. dev' = NoStream
      BY <1>1, <3>1 DEF Asked, Connected
    <3>3. dev'.service \notin Sync
      BY <3>2 DEF NoStream, Sync
    <3> QED BY <1>4, <3>3 DEF Course, Reading, Sync
  <2> QED BY <2>1, <2>2 DEF Ordered
<1> QED BY <1>1, <1>3, <1>4

LEMMA OpenOrdered ==
    ASSUME FilesInd, handle_open_response, memory' = "sound"
    PROVE  Ordered'
<1>0. WholeInd /\ Ordered /\ onBus \in BOOLEAN /\ op \in Calls
  BY Typed DEF FilesInd, WholeInd
<1>1. /\ pc = "open" /\ CanRead /\ Taken /\ onBus' = onBus /\ dev' = dev /\ call' = call
      /\ op' = op /\ packet' = packet /\ local' = local
      /\ \/ Got.cmd = "CLSE" /\ pc' = "closing" /\ ret' = (IF op = "pull" THEN 0 ELSE -1)
         \/ op = "shell" /\ pc' = "shell"
         \/ op = "reboot" /\ pc' = "idle"
         \/ Got.cmd # "CLSE" /\ op \in Sync /\ pc' = op /\ toDev' = toDev
  BY <1>0 DEF handle_open_response, NoMemory, Return, syncState, Calls, Sync
<1>2. Lacks(packet, "STAT") /\ local = <<>>
  BY <1>0, <1>1 DEF Ordered, Filed
<1>3. CASE pc' = "closing" /\ ret' = (IF op = "pull" THEN 0 ELSE -1)
  <2>1. op' = "push" => ret' # 0
    BY <1>1, <1>3
  <2> QED BY <1>1, <1>2, <1>3, <2>1, NumberedNone, EndsOrdered
<1>4. CASE op = "shell" /\ pc' = "shell"
  BY <1>1, <1>2, <1>4, NumberedNone, EndsOrdered
<1>5. CASE op = "reboot" /\ pc' = "idle"
  BY <1>1, <1>2, <1>5, NumberedNone, EndsOrdered
<1>6. CASE Got.cmd # "CLSE" /\ op \in Sync /\ pc' = op /\ toDev' = toDev
  <2>1. Filed'
    BY <1>1, <1>2, <1>6, NumberedNone DEF Filed, Sync
  <2>2. ASSUME onBus' = TRUE PROVE Course'
    <3>1. /\ toHost # <<>> /\ Got = Head(toHost) /\ toHost' = Tail(toHost)
          /\ Opening \/ Refused \/ OpenedShell \/ OpenedOther
      BY <1>0, <1>1, <2>2, ReadIs DEF WholeInd, Calm, Stage
    <3>2. ~Refused
      <4>1. <<Msg("CLSE")>> # <<>> /\ Head(<<Msg("CLSE")>>) = Msg("CLSE")
        BY Msgs, OneOf
      <4> QED BY <1>6, <3>1, <4>1, MsgIs DEF Refused
    <3>3. OpenedOther
      BY <1>6, <3>1, <3>2 DEF Opening, OpenedShell, Output, Sync
    <3>4. toHost' = <<>>
      BY <3>1, <3>3, Msgs, OneOf DEF OpenedOther
    <3>5. dev.busy = FALSE /\ dev.sent = <<>>
      BY <1>0, <1>1, <1>6, <2>2, <3>3 DEF Ordered, Course, OpenedOther
    <3>6. Fresh'
      BY <1>1, <1>6, <3>3, <3>4, <3>5 DEF Fresh, OpenedOther, Silent
    <3> QED BY <1>6, <3>6 DEF Course, Reading, Sync
  <2> QED BY <2>1, <2>2 DEF Ordered
<1> QED BY <1>1, <1>3, <1>4, <1>5, <1>6

LEMMA ShellOrdered ==
    ASSUME FilesInd, handle_shell_response \/ OutputLost
    PROVE  Ordered'
<1>0. WholeInd /\ Ordered
  BY DEF FilesInd
<1>1. /\ pc = "shell" /\ pc' \in {"shell", "idle", "crashed"} /\ op' = op /\ call' = call /\ packet' = packet
      /\ local' = local
  BY DEF handle_shell_response, OutputLost, Collect, GrowMoved, GrowFailed, NoMemory, Return,
         syncState
<1>2. op = "shell"
  BY <1>0, <1>1 DEF WholeInd, Calm, Whole
<1>3. Lacks(packet, "STAT") /\ Numbered(local, call, 0)
  BY <1>0, <1>1 DEF Ordered, Filed
<1> QED BY <1>1, <1>2, <1>3, EndsOrdered

\* The rest of what was read.
LEMMA RestLacks ==
    ASSUME NEW s \in Seq(Elements), NEW id, Lacks(s, id), NEW n \in Nat, n <= Len(s)
    PROVE  Lacks(SubSeq(s, n + 1, Len(s)), id)
<1>1. n \in 0 .. Len(s)
  OBVIOUS
<1> QED BY <1>1, LacksParts

LEMMA CloseEnds ==
    ASSUME NEW r, CloseRemote(r) \/ Quit(r), r # 0
    PROVE  pc' = "closing" /\ (op = "push" => ret' # 0)
BY DEF CloseRemote, Quit

LEMMA AppendOne ==
    ASSUME NEW q \in Seq(Packets), NEW p \in Packets, NEW r, r = q \o <<p>>
    PROVE  /\ r \in Seq(Packets) /\ Len(q) \in Nat /\ Len(r) = Len(q) + 1 /\ r[Len(q) + 1] = p
           /\ \A i \in 1 .. Len(r) : (i \in 1 .. Len(q) /\ r[i] = q[i]) \/ (i = Len(q) + 1 /\ r[i] = p)
<1> DEFINE n == Len(q)
<1>1. <<p>> \in Seq(Packets) /\ Len(<<p>>) = 1 /\ <<p>>[1] = p
  BY OneOf
<1>2. /\ r \in Seq(Packets) /\ n \in Nat /\ Len(r) = n + 1
      /\ \A i \in 1 .. n : r[i] = q[i]
      /\ \A i \in n + 1 .. n + 1 : r[i] = <<p>>[i - n]
  BY <1>1, JoinOf
<1> HIDE DEF n
<1>3. n + 1 \in n + 1 .. n + 1 /\ (n + 1) - n = 1
  BY <1>2
<1>4. r[n + 1] = p
  BY <1>1, <1>2, <1>3
<1>5. \A i \in 1 .. Len(r) : i \in 1 .. n \/ i = n + 1
  BY <1>2
<1> QED BY <1>2, <1>4, <1>5 DEF n

\* What the packets of the shorter queue satisfy.
LEMMA TailKeeps ==
    ASSUME NEW q \in Seq(Packets), q # <<>>
    PROVE  \A i \in 1 .. Len(Tail(q)) : \E j \in 1 .. Len(q) : Tail(q)[i] = q[j]
BY TailOf

LEMMA HeadIs ==
    ASSUME NEW q \in Seq(Packets), q # <<>>
    PROVE  1 \in 1 .. Len(q) /\ Head(q) = q[1] /\ Head(q) \in Packets /\ Tail(q) \in Seq(Packets)
<1>1. Len(q) \in Nat /\ Len(q) >= 1 /\ Head(q) = q[1] /\ Tail(q) \in Seq(Packets)
  BY TailOf
<1>2. 1 \in 1 .. Len(q)
  BY <1>1
<1> QED BY <1>1, <1>2

LEMMA StatlessReads ==
    ASSUME Statless, toDev \in Seq(Packets), toHost \in Seq(Packets), dev'.out = dev.out,
           toHost' = toHost \/ (toHost # <<>> /\ toHost' = Tail(toHost)),
           toDev' = toDev \/ toDev' = toDev \o <<Msg("OKAY")>>
    PROVE  Statless'
<1>1. \A i \in 1 .. Len(toHost') : toHost'[i].cmd = "WRTE" => Lacks(toHost'[i].data, "STAT")
  <2>1. \A i \in 1 .. Len(toHost') : \E j \in 1 .. Len(toHost) : toHost'[i] = toHost[j]
    <3>1. CASE toHost' = toHost
      BY <3>1
    <3>2. CASE toHost # <<>> /\ toHost' = Tail(toHost)
      BY <3>2, TailKeeps
    <3> QED BY <3>1, <3>2
  <2> QED BY <2>1 DEF Statless
<1>2. \A i \in 1 .. Len(toDev') : toDev'[i].cmd = "WRTE" => toDev'[i].data[1][1] # "STAT"
  <2>1. CASE toDev' = toDev
    BY <2>1 DEF Statless
  <2>2. CASE toDev' = toDev \o <<Msg("OKAY")>>
    <3>1. Msg("OKAY") \in Packets /\ Msg("OKAY").cmd # "WRTE"
      BY Msgs, MsgIs
    <3>2. \A i \in 1 .. Len(toDev') :
             (i \in 1 .. Len(toDev) /\ toDev'[i] = toDev[i]) \/ toDev'[i] = Msg("OKAY")
      BY <2>2, <3>1, AppendOne
    <3> QED BY <3>1, <3>2 DEF Statless
  <2> QED BY <2>1, <2>2
<1> QED BY <1>1, <1>2 DEF Statless

\* What the host knows is as it was.
LEMMA FiledSame ==
    ASSUME Filed, UNCHANGED <<pc, op, packet, ret, local, call, need, diskOK>>,
           dev'.stored = dev.stored
    PROVE  Filed'
<1>1. Stored' <=> Stored
  BY DEF Stored
<1>2. Honest(packet)' <=> Honest(packet)
  BY <1>1 DEF Honest
<1>3. Due' = Due
  BY DEF Due
<1>4. (\E c \in Tallies(packet) : Follows(packet, c))' <=> (\E c \in Tallies(packet) : Follows(packet, c))
  BY <1>3 DEF Follows
<1> QED BY <1>1, <1>2, <1>4 DEF Filed

\* The host reads an OKAY.
LEMMA FillOkay ==
    ASSUME FilesInd, onBus = TRUE, onBus' = TRUE, pc \in Reading, toHost # <<>>,
           Head(toHost).cmd = "OKAY", toHost' = Tail(toHost), toDev' = toDev, dev' = dev,
           UNCHANGED <<pc, op, packet, ret, local, call, need, diskOK>>
    PROVE  Ordered'
<1>0. /\ WholeInd /\ Course /\ Filed /\ toDev \in Seq(Packets) /\ toHost \in Seq(Packets)
      /\ Tail(toHost) \in Seq(Packets)
  BY Typed, HeadIs DEF FilesInd, WholeInd, Ordered
<1>1. Filed'
  BY <1>0, FiledSame
<1>2. pc' \in Reading \ {"stat"} => Statless'
  BY <1>0, StatlessReads DEF Course
<1>3. ASSUME pc' = "stat" PROVE (\E w \in Loads(toHost) : StatFlow(w))'
  <2>1. PICK w \in Loads(toHost) : StatFlow(w)
    BY <1>0, <1>3 DEF Course
  <2>2. Bears(toHost', w)
    BY <1>0, <2>1, BearsTail DEF StatFlow
  <2>3. w \in Loads(toHost')
    BY <1>0, <2>2, BearsWhat
  <2>4. StatFlow(w)'
    BY <2>1, <2>2 DEF StatFlow, Owed
  <2> QED BY <2>3, <2>4
<1>4. ASSUME pc' \in {"header", "data"} PROVE (\E w \in Loads(toHost) : PullFlow(w))'
  <2>1. PICK w \in Loads(toHost) : PullFlow(w)
    BY <1>0, <1>4 DEF Course
  <2>2. Bears(toHost', w)
    BY <1>0, <2>1, BearsTail DEF PullFlow
  <2>3. w \in Loads(toHost')
    BY <1>0, <2>2, BearsWhat
  <2>4. Due' = Due /\ Ahead(w)' = Ahead(w)
    BY DEF Due, Ahead
  <2>5. \A s, c : Follows(s, c)' <=> Follows(s, c)
    BY <2>4 DEF Follows
  <2>6. Window(w)' <=> Window(w)
    BY DEF Window, Owed
  <2>7. Owed(<<Request("RECV")>>)' <=> Owed(<<Request("RECV")>>)
    BY DEF Owed
  <2>8. PullFlow(w)'
    BY <2>1, <2>2, <2>4, <2>5, <2>6, <2>7 DEF PullFlow
  <2> QED BY <2>3, <2>8
<1>5. ASSUME pc' = "status" PROVE PushFlow'
  <2>1. PushFlow
    BY <1>0, <1>5 DEF Course
  <2>2. \A s : Honest(s)' <=> Honest(s)
    BY DEF Honest, Stored
  <2>3. Bears(toHost, <<>>) => Bears(toHost', <<>>)
    BY <1>0, BearsTail
  <2>4. \A n, j : Sending(n, j)' <=> Sending(n, j)
    BY DEF Sending
  <2>5. (\A i \in 1 .. Len(toHost) : toHost[i].cmd = "WRTE" => Honest(toHost[i].data)) =>
        (\A i \in 1 .. Len(toHost') : toHost'[i].cmd = "WRTE" => Honest(toHost'[i].data))
    BY <1>0, TailKeeps
  <2>6. ASSUME \A i \in 1 .. Len(toHost) : toHost[i].cmd = "WRTE" => Honest(toHost[i].data)
        PROVE  \A i \in 1 .. Len(toHost') : toHost'[i].cmd = "WRTE" => Honest(toHost[i].data)'
    BY <2>2, <2>5, <2>6
  <2> QED BY <2>1, <2>2, <2>3, <2>4, <2>6 DEF PushFlow, Replied
<1>6. Course'
  BY <1>2, <1>3, <1>4, <1>5 DEF Course, Reading, Sync
<1> QED BY <1>1, <1>6 DEF Ordered

\* The host reads a WRTE and answers it.
LEMMA FillWrite ==
    ASSUME FilesInd, onBus = TRUE, onBus' = TRUE, pc \in Reading, packet = <<>>, toHost # <<>>,
           Head(toHost).cmd = "WRTE", toHost' = Tail(toHost), packet' = Head(toHost).data,
           toDev' = toDev \o <<Msg("OKAY")>>, dev' = dev,
           UNCHANGED <<pc, op, ret, local, call, need, diskOK>>
    PROVE  Ordered'
<1> PICK v : v = Head(toHost).data
  OBVIOUS
<1>0. /\ WholeInd /\ Course /\ Filed /\ toDev \in Seq(Packets) /\ toHost \in Seq(Packets)
      /\ dev.out \in Seq(Elements) /\ local \in Seq(Elements) /\ need \in Nat
  BY Typed, Kinds DEF FilesInd, WholeInd, Ordered
<1>1. /\ 1 \in 1 .. Len(toHost) /\ Head(toHost) = toHost[1] /\ Head(toHost) \in Packets
      /\ Tail(toHost) \in Seq(Packets) /\ v \in Seq(Elements)
  BY <1>0, HeadIs, PacketFields
<1>2. Msg("OKAY") \in Packets /\ Msg("OKAY").cmd = "OKAY"
  BY Msgs, MsgIs
<1>3. \A s \in Seq(Elements) : <<>> \o s = s
  BY JoinEmpty
<1>4. <<Msg("OKAY")>> \in Seq(Packets) /\ <<>> \o <<Msg("OKAY")>> = <<Msg("OKAY")>>
      /\ <<Msg("OKAY")>> \o <<>> = <<Msg("OKAY")>>
  BY <1>2
<1>5. pc \in Reading \ {"stat"} => Statless' /\ Lacks(v, "STAT")
  BY <1>0, <1>1, StatlessReads DEF Course, Statless
<1>6. ASSUME pc = "stat"
      PROVE  /\ IsStat(v)
             /\ (\E w \in Loads(toHost) : StatFlow(w))'
  <2>1. PICK w \in Loads(toHost) : StatFlow(w)
    BY <1>0, <1>6 DEF Course
  <2>2. w = v /\ w # <<>> /\ Bears(toHost', <<>>)
    BY <1>0, <2>1, BearsTail DEF StatFlow
  <2>3. toDev = <<>> /\ dev.busy = TRUE /\ IsStat(w) /\ dev.out = <<>>
    BY <2>1, <2>2 DEF StatFlow
  <2>4. Owed(<<>>)'
    BY <1>4, <2>3 DEF Owed
  <2>5. StatFlow(<<>>)'
    BY <2>1, <2>2, <2>3, <2>4 DEF StatFlow
  <2>6. <<>> \in Loads(toHost')
    BY DEF Loads
  <2> QED BY <2>2, <2>3, <2>5, <2>6
<1>7. ASSUME pc \in {"header", "data"}
      PROVE  /\ (\E c \in Tallies(packet) : Follows(packet, c))'
             /\ (\E w \in Loads(toHost) : PullFlow(w))'
  <2>1. PICK w \in Loads(toHost) : PullFlow(w)
    BY <1>0, <1>7 DEF Course
  <2>2. w = v /\ w # <<>> /\ Bears(toHost', <<>>)
    BY <1>0, <2>1, BearsTail DEF PullFlow
  <2>3. Window(w) /\ toDev = <<>> /\ dev.busy = TRUE
    BY <2>1, <2>2 DEF PullFlow, Window
  <2>4. Window(<<>>)'
    BY <1>4, <2>3 DEF Window, Owed
  <2> PICK s : s = v \o dev.out
    OBVIOUS
  <2>5. s \in Seq(Elements) /\ Ahead(w) = s /\ Ahead(<<>>)' = s
    <3>1. s \in Seq(Elements)
      BY <1>0, <1>1, JoinOf
    <3> QED BY <1>0, <1>3, <2>2, <3>1 DEF Ahead
  <2>6. PICK c \in Tallies(s) :
          /\ Complete(s, Due) /\ Chain(s, c, Len(local), Due, call)
          /\ dev.reading # -1 => dev.reading \in Nat /\ c[Len(s)] = dev.reading
    BY <2>1, <2>2, <2>5 DEF PullFlow, Follows
  <2>7. Due' = Due /\ Due \in Nat
    BY <1>0 DEF Due
  <2>8. PullFlow(<<>>)'
    <3>1. Complete(Ahead(<<>>)', Due') /\ Follows(s, c)'
      BY <2>5, <2>6, <2>7 DEF Follows
    <3> QED BY <2>1, <2>2, <2>4, <2>5, <2>6, <3>1 DEF PullFlow
  <2>9. PICK e \in Tallies(v) : Chain(v, e, Len(local), Due, call)
    BY <1>0, <1>1, <2>6, <2>7, ChainPrefix
  <2>10. Follows(v, e)'
    BY <2>7, <2>9 DEF Follows
  <2>11. <<>> \in Loads(toHost')
    BY DEF Loads
  <2> QED BY <2>8, <2>9, <2>10, <2>11
<1>8. ASSUME pc = "status" PROVE PushFlow' /\ Honest(packet)'
  <2>1. PushFlow
    BY <1>0, <1>8 DEF Course
  <2>2. \A s : Honest(s)' <=> Honest(s)
    BY DEF Honest, Stored
  <2>3. ~Bears(toHost, <<>>)
    BY <1>0, BearsTail
  <2>4. /\ \A i \in 1 .. Len(toDev) : toDev[i].cmd = "OKAY"
        /\ Honest(dev.out)
        /\ \A i \in 1 .. Len(toHost) : toHost[i].cmd = "WRTE" => Honest(toHost[i].data)
    BY <2>1, <2>3 DEF PushFlow, Replied
  <2>5. Honest(v)
    BY <1>1, <2>4
  <2>6. \A i \in 1 .. Len(toDev') : toDev'[i].cmd = "OKAY"
    <3>1. \A i \in 1 .. Len(toDev') :
             (i \in 1 .. Len(toDev) /\ toDev'[i] = toDev[i]) \/ toDev'[i] = Msg("OKAY")
      BY <1>0, <1>2, AppendOne
    <3> QED BY <1>2, <2>4, <3>1
  <2>7. \A i \in 1 .. Len(toHost') : toHost'[i].cmd = "WRTE" => Honest(toHost'[i].data)
    BY <1>0, <2>4, TailKeeps
  <2>8. Honest(v)' /\ Honest(dev.out)'
    <3>1. PICK o : o = dev.out
      OBVIOUS
    <3>2. Honest(o)'
      BY <2>2, <2>4, <3>1
    <3> QED BY <2>2, <2>5, <3>1, <3>2
  <2>9. \A i \in 1 .. Len(toHost') : toHost'[i].cmd = "WRTE" => Honest(toHost[i].data)'
    BY <2>2, <2>7
  <2>10. dev'.service = "push" /\ dev'.reading = -1
    BY <2>1 DEF PushFlow, Replied
  <2> QED BY <2>6, <2>8, <2>9, <2>10 DEF PushFlow, Replied
<1>9. Course'
  BY <1>5, <1>6, <1>7, <1>8 DEF Course, Reading, Sync
<1>10. Filed'
  <2>1. /\ pc' \in {"header", "data"} => op' = "pull"
        /\ pc' = "status" => op' = "push"
        /\ pc' = "stat" => op' \in Sync /\ local' = <<>>
        /\ Numbered(local', call', 0)
    BY <1>0 DEF Filed
  <2> QED BY <1>5, <1>6, <1>7, <1>8, <2>1 DEF Filed, Reading, Sync
<1> QED BY <1>9, <1>10 DEF Ordered

LEMMA FillOrdered ==
    ASSUME FilesInd, FillBuffer
    PROVE  Ordered'
<1>0. WholeInd /\ Ordered /\ onBus \in BOOLEAN /\ Filed
  BY Typed DEF FilesInd, WholeInd, Ordered
<1>1. /\ pc \in Reading /\ packet = <<>> /\ CanRead /\ Taken
      /\ UNCHANGED <<op, local, call, need, diskOK>> /\ dev' = dev /\ onBus' = onBus
      /\ \/ Got.cmd = "OKAY" /\ UNCHANGED <<pc, ret, packet, toDev>>
         \/ /\ Got.cmd = "WRTE" /\ packet' = Got.data /\ Send(<<Msg("OKAY")>>)
            /\ UNCHANGED <<pc, ret>>
         \/ CloseRemote(1) /\ packet' = packet
  BY DEF FillBuffer
<1>2. CASE CloseRemote(1) /\ packet' = packet
  <2>1. pc' = "closing" /\ (op = "push" => ret' # 0)
    BY <1>2, CloseEnds
  <2>2. Numbered(local', call', 0)
    BY <1>0, <1>1 DEF Filed
  <2> QED BY <1>1, <1>2, <2>1, <2>2, LacksNone, EndsOrdered
<1>3. CASE onBus = FALSE /\ Got.cmd \in {"OKAY", "WRTE"}
  BY <1>0, <1>1, <1>3, ReadIs, MsgIs
<1>4. CASE onBus = TRUE /\ Got.cmd = "OKAY" /\ UNCHANGED <<pc, ret, packet, toDev>>
  BY <1>0, <1>1, <1>4, ReadIs, FillOkay
<1>5. CASE onBus = TRUE /\ Got.cmd = "WRTE" /\ packet' = Got.data /\ Send(<<Msg("OKAY")>>)
           /\ UNCHANGED <<pc, ret>>
  BY <1>0, <1>1, <1>5, ReadIs, SendIs, FillWrite
<1> QED BY <1>0, <1>1, <1>2, <1>3, <1>4, <1>5

-----------------------------------------------------------------------------
(* The pieces of a file. *)

LEMMA Division ==
    ASSUME NEW x \in Nat, NEW s \in Nat \ {0}
    PROVE  /\ x \div s \in Nat /\ s * (x \div s) <= x /\ x < s * (x \div s) + s
OBVIOUS

LEMMA ProductGrows ==
    ASSUME NEW s \in Nat, NEW a \in Nat, NEW b \in Nat, a <= b
    PROVE  s * a \in Nat /\ s * b \in Nat /\ s * a <= s * b
<1>1. s * a \in Nat /\ s * (b - a) \in Nat /\ s * b = s * a + s * (b - a)
  OBVIOUS
<1> DEFINE p == s * a
           q == s * (b - a)
<1>2. p \in Nat /\ q \in Nat /\ s * b = p + q
  BY <1>1
<1> HIDE DEF p, q
<1>3. p + q \in Nat /\ p <= p + q
  BY <1>2
<1> QED BY <1>2, <1>3 DEF p

\* Where the pieces end: each but the last has SYNC_DATA_MAX bytes.
LEMMA PieceEnds ==
    ASSUME NEW n \in Nat
    PROVE  /\ (n + SyncDataMax - 1) \div SyncDataMax \in Nat
           /\ Ends(n, 0) = 0 /\ Ends(n, (n + SyncDataMax - 1) \div SyncDataMax) = n
           /\ \A k \in 1 .. ((n + SyncDataMax - 1) \div SyncDataMax) :
                 /\ SyncDataMax * (k - 1) \in Nat /\ Ends(n, k - 1) = SyncDataMax * (k - 1)
                 /\ Ends(n, k) \in Nat /\ Ends(n, k - 1) <= Ends(n, k) /\ Ends(n, k) <= n
<1> DEFINE s == SyncDataMax
           x == n + s - 1
           l == x \div s
<1>1. s \in Nat \ {0} /\ x \in Nat
  BY AdbAssumption DEF SyncDataMax
<1>2. l \in Nat /\ s * l <= x /\ x < s * l + s
  BY <1>1, Division
<1> HIDE DEF l, s
<1>3. s * l \in Nat /\ n <= s * l /\ ~(s * l < n)
  <2> DEFINE p == s * l
  <2>1. p \in Nat
    BY <1>1, <1>2
  <2> HIDE DEF p
  <2>2. x < p + s
    BY <1>2 DEF p
  <2> QED BY <1>1, <2>1, <2>2 DEF p
<1>4. Ends(n, l) = n
  BY <1>3 DEF Ends, s
<1>5. s * 0 = 0
  BY <1>1
<1>6. Ends(n, 0) = 0
  BY <1>5 DEF Ends, s
<1>7. ASSUME NEW k \in 1 .. l
      PROVE  /\ s * (k - 1) \in Nat /\ Ends(n, k - 1) = s * (k - 1)
             /\ Ends(n, k) \in Nat /\ Ends(n, k - 1) <= Ends(n, k) /\ Ends(n, k) <= n
  <2>1. k \in Nat /\ k - 1 \in Nat /\ k <= l /\ k - 1 <= k
    BY <1>2
  <2>2. s * k \in Nat /\ s * l \in Nat /\ s * k <= s * l
    BY <1>1, <1>2, <2>1, ProductGrows
  <2>3. s * (k - 1) \in Nat /\ s * k = s * (k - 1) + s
    BY <1>1, <2>1
  <2> DEFINE p == s * (k - 1)
             q == s * k
             r == s * l
  <2>4. p \in Nat /\ q \in Nat /\ r \in Nat /\ q <= r /\ q = p + s /\ r <= x
    BY <1>2, <2>2, <2>3
  <2> HIDE DEF p, q, r
  <2>5. p < n /\ p <= q
    BY <1>1, <2>4
  <2>6. Ends(n, k - 1) = p /\ Ends(n, k) = IF q < n THEN q ELSE n
    BY <2>5 DEF Ends, p, q, s
  <2>7. Ends(n, k) \in Nat /\ p <= Ends(n, k) /\ Ends(n, k) <= n
    BY <2>4, <2>5, <2>6
  <2> QED BY <2>4, <2>6, <2>7 DEF p
<1> QED BY <1>2, <1>4, <1>6, <1>7 DEF l, s

\* Each piece continues what the pieces before it hold.
Continues(p, m, a, b) ==
    /\ p.cmd = "WRTE" /\ p.data[1][1] = "DATA" /\ a \in Nat /\ b \in Nat
    /\ Bytes(m, a) \o Tail(p.data) = Bytes(m, b)

LEMMA PiecesAre ==
    ASSUME NEW m \in Nat, NEW n \in Nat, NEW ps, ps = Pieces(Bytes(m, n), SyncDataMax)
    PROVE  /\ ps \in Seq(Packets) /\ Len(ps) \in Nat
           /\ Ends(n, 0) = 0 /\ Ends(n, Len(ps)) = n
           /\ \A k \in 1 .. Len(ps) : Continues(ps[k], m, Ends(n, k - 1), Ends(n, k))
<1> DEFINE s == SyncDataMax
           data == Bytes(m, n)
           len == (n + s - 1) \div s
<1>1. s \in Nat \ {0} /\ s < MaxPayload
  BY AdbAssumption DEF SyncDataMax
<1>2. data \in Seq(Elements) /\ Len(data) = n
  BY BytesType
<1>3. ps \in Seq(Packets)
  BY <1>1, <1>2, PiecesType
<1>4. len \in Nat /\ Ends(n, 0) = 0 /\ Ends(n, len) = n
  BY PieceEnds
<1>5. \A k \in 1 .. len : /\ s * (k - 1) \in Nat /\ Ends(n, k - 1) = s * (k - 1)
                          /\ Ends(n, k) \in Nat /\ Ends(n, k - 1) <= Ends(n, k) /\ Ends(n, k) <= n
  BY PieceEnds
<1> DEFINE piece(k) == SubSeq(data, s * (k - 1) + 1, Ends(n, k))
<1>6. ps = [k \in 1 .. len |-> Packet("WRTE", <<Header("DATA", Len(piece(k)))>> \o piece(k))]
  BY <1>2 DEF Pieces, Ends
<1>7. Len(ps) = len
  BY <1>3, <1>4, <1>6
<1>8. ASSUME NEW k \in 1 .. len
      PROVE  Continues(ps[k], m, Ends(n, k - 1), Ends(n, k))
  <2> DEFINE a == Ends(n, k - 1)
             b == Ends(n, k)
             y == SubSeq(data, a + 1, b)
             h == <<"DATA", Len(y)>>
             d == <<h>> \o y
             f == Bytes(m, a)
             g == Bytes(m, b)
  <2>1. a \in Nat /\ b \in Nat /\ a <= b /\ b <= n /\ piece(k) = y
    BY <1>5
  <2> HIDE DEF a, b
  <2>2. y \in Seq(Elements) /\ Len(y) = b - a /\ \A i \in 1 .. b - a : y[i] = <<"byte", m, a + i>>
    <3> HIDE DEF data
    <3>1. y \in Seq(Elements) /\ Len(y) = b - a /\ \A i \in 1 .. b - a : y[i] = data[a + i]
      BY <1>2, <2>1
    <3>2. \A i \in 1 .. n : data[i] = <<"byte", m, i>>
      BY DEF data, Bytes
    <3>3. \A i \in 1 .. b - a : a + i \in 1 .. n
      BY <2>1
    <3> QED BY <3>1, <3>2, <3>3
  <2>3. ps[k] = Packet("WRTE", d)
    BY <1>6, <2>1 DEF Header
  <2> HIDE DEF y
  <2>4. h \in Elements
    <3>1. Len(y) \in Nat
      BY <2>1, <2>2
    <3> QED BY <3>1, HeaderType DEF Header, Ids
  <2>5. ps[k].cmd = "WRTE" /\ ps[k].data = d
    BY <2>3 DEF Packet
  <2>6. d[1] = h /\ Tail(d) = y
    <3> HIDE DEF h
    <3>1. <<h>> \in Seq(Elements) /\ Len(<<h>>) = 1 /\ <<h>>[1] = h
      BY <2>4, OneOf
    <3>2. /\ d \in Seq(Elements) /\ Len(d) = Len(<<h>>) + Len(y)
          /\ \A i \in 1 .. Len(<<h>>) : d[i] = <<h>>[i]
          /\ \A i \in Len(<<h>>) + 1 .. Len(<<h>>) + Len(y) : d[i] = y[i - Len(<<h>>)]
      BY <2>2, <3>1, JoinOf
    <3>3. /\ Len(d) = 1 + Len(y) /\ Len(y) \in Nat
          /\ \A i \in 1 .. 1 : d[i] = <<h>>[i]
          /\ \A i \in 1 + 1 .. 1 + Len(y) : d[i] = y[i - 1]
      BY <2>2, <3>1, <3>2
    <3>4. d[1] = h
      <4>1. 1 \in 1 .. 1
        OBVIOUS
      <4> QED BY <3>1, <3>3, <4>1
    <3> DEFINE t == Tail(d)
    <3> HIDE DEF d
    <3>5. d # <<>>
      BY <3>3
    <3>6. /\ t \in Seq(Elements) /\ Len(t) = Len(d) - 1
          /\ \A i \in 1 .. Len(t) : t[i] = d[i + 1]
      BY <3>2, <3>5, TailOf
    <3> HIDE DEF t
    <3>7. Len(t) = Len(y)
      BY <3>3, <3>6
    <3>8. ASSUME NEW i \in 1 .. Len(t) PROVE t[i] = y[i]
      <4>1. i + 1 \in 1 + 1 .. 1 + Len(y) /\ (i + 1) - 1 = i
        BY <3>3, <3>7
      <4> QED BY <3>3, <3>6, <4>1
    <3>9. t = y
      BY <2>2, <3>6, <3>7, <3>8, SameSeq
    <3> QED BY <3>4, <3>9 DEF t
  <2>7. f \o y = g
    <3> DEFINE u == f \o y
    <3>1. /\ f \in Seq(Elements) /\ Len(f) = a /\ g \in Seq(Elements) /\ Len(g) = b
      BY <2>1, BytesType
    <3>2. Numbered(f, m, 0)
      BY <2>1, NumberedBytes
    <3>3. Numbered(y, m, 0 + a)
      BY <2>1, <2>2 DEF Numbered
    <3> HIDE DEF f, g
    <3>4. Numbered(u, m, 0)
      BY <2>2, <3>1, <3>2, <3>3, NumberedJoin
    <3>5. u \in Seq(Elements) /\ Len(u) = a + (b - a)
      BY <2>2, <3>1, JoinOf
    <3>6. Len(u) = b
      BY <2>1, <3>5
    <3>7. u = Bytes(m, Len(u))
      BY <3>4, <3>5, NumberedIs
    <3> QED BY <3>6, <3>7 DEF g
  <2>8. d[1][1] = "DATA"
    BY <2>6
  <2> QED BY <2>1, <2>5, <2>6, <2>7, <2>8 DEF a, b, Continues
<1> HIDE DEF len
<1> QED BY <1>3, <1>4, <1>7, <1>8

-----------------------------------------------------------------------------
(* Files: the host, after it has read. *)

LEMMA SyncBeginOrdered ==
    ASSUME FilesInd, sync_begin
    PROVE  Ordered'
<1>0. WholeInd /\ Ordered /\ Filed /\ onBus \in BOOLEAN
  BY Typed DEF FilesInd, WholeInd, Ordered
<1>1. /\ pc \in Sync /\ UNCHANGED <<op, local, call, packet, need, diskOK>> /\ dev' = dev
      /\ onBus' = onBus /\ toHost' = toHost
      /\ \/ pc' = "stat" /\ Send(<<Request("STAT")>>) /\ ret' = ret
         \/ pc = "push" /\ Quit(1)
  BY DEF sync_begin, syncState, Request
<1>2. op = pc /\ Lacks(packet, "STAT") /\ Numbered(local, call, 0) /\ local = <<>>
  BY <1>0, <1>1 DEF Filed, Sync
<1>3. CASE pc = "push" /\ Quit(1)
  <2>1. pc' = "closing" /\ (op = "push" => ret' # 0)
    BY <1>3, CloseEnds
  <2> QED BY <1>1, <1>2, <2>1, EndsOrdered
<1>4. CASE pc' = "stat" /\ Send(<<Request("STAT")>>)
  <2>1. Filed'
    BY <1>1, <1>2, <1>4 DEF Filed, Sync
  <2>2. ASSUME onBus' = TRUE PROVE Course'
    <3>1. Fresh
      BY <1>0, <1>1, <2>2 DEF Ordered, Course
    <3>2. toDev' = <<Request("STAT")>> /\ toHost' = <<>>
      <4>1. Request("STAT") \in Packets
        BY RequestIs DEF Ids
      <4> QED BY <1>1, <1>4, <2>2, <3>1, <4>1, SendIs, OneOf DEF Fresh
    <3>3. StatFlow(<<>>)'
      BY <1>1, <1>2, <3>1, <3>2, BearsNone DEF StatFlow, Fresh, Silent
    <3>4. <<>> \in Loads(toHost')
      BY DEF Loads
    <3> QED BY <1>4, <3>3, <3>4 DEF Course, Reading, Sync
  <2> QED BY <2>1, <2>2 DEF Ordered
<1> QED BY <1>1, <1>3, <1>4

\* What sync_send writes.
LEMMA SendQueue ==
    ASSUME NEW q \in Seq(Packets), NEW ps \in Seq(Packets), NEW a \in Packets, NEW z \in Packets,
           NEW r, r = q \o ((<<a>> \o ps) \o <<z>>)
    PROVE  /\ r \in Seq(Packets) /\ Len(q) \in Nat /\ Len(ps) \in Nat
           /\ Len(r) = Len(q) + Len(ps) + 2
           /\ \A i \in 1 .. Len(q) : r[i] = q[i]
           /\ r[Len(q) + 1] = a
           /\ \A i \in 1 .. Len(ps) : r[(Len(q) + 1) + i] = ps[i]
           /\ r[Len(r)] = z
<1> DEFINE x == <<a>> \o ps
           y == x \o <<z>>
           k == Len(q)
           n == Len(ps)
<1>1. <<a>> \in Seq(Packets) /\ Len(<<a>>) = 1 /\ <<a>>[1] = a
  BY OneOf
<1>2. x \in Seq(Packets) /\ Len(x) = 1 + n /\ n \in Nat /\ x[1] = a /\ \A i \in 1 .. n : x[1 + i] = ps[i]
  <2>1. /\ x \in Seq(Packets) /\ Len(x) = Len(<<a>>) + n /\ n \in Nat
        /\ \A i \in 1 .. Len(<<a>>) : x[i] = <<a>>[i]
        /\ \A i \in Len(<<a>>) + 1 .. Len(<<a>>) + n : x[i] = ps[i - Len(<<a>>)]
    BY <1>1, JoinOf
  <2>2. /\ x \in Seq(Packets) /\ Len(x) = 1 + n /\ n \in Nat
        /\ \A i \in 1 .. 1 : x[i] = <<a>>[i]
        /\ \A i \in 1 + 1 .. 1 + n : x[i] = ps[i - 1]
    BY <1>1, <2>1
  <2> HIDE DEF x, n
  <2>3. 1 \in 1 .. 1
    OBVIOUS
  <2>4. \A i \in 1 .. n : 1 + i \in 1 + 1 .. 1 + n /\ (1 + i) - 1 = i
    BY <2>2
  <2> QED BY <1>1, <2>2, <2>3, <2>4
<1> HIDE DEF x
<1>3. /\ y \in Seq(Packets) /\ Len(y) = Len(x) + 1 /\ y[Len(x) + 1] = z
      /\ \A i \in 1 .. Len(y) : (i \in 1 .. Len(x) /\ y[i] = x[i]) \/ (i = Len(x) + 1 /\ y[i] = z)
  BY <1>2, AppendOne
<1> HIDE DEF y
<1>4. /\ Len(y) = n + 2 /\ y[n + 2] = z /\ y[1] = a /\ \A i \in 1 .. n : y[1 + i] = ps[i]
  <2>1. Len(x) = n + 1 /\ Len(x) + 1 = n + 2
    BY <1>2
  <2>2. 1 \in 1 .. Len(y) /\ 1 # n + 2
    BY <1>2, <1>3, <2>1
  <2>3. \A i \in 1 .. n : 1 + i \in 1 .. Len(y) /\ 1 + i # n + 2
    BY <1>2, <1>3, <2>1
  <2>4. \A i \in 1 .. Len(y) : i # n + 2 => y[i] = x[i]
    BY <1>3, <2>1
  <2>5. y[1] = x[1] /\ \A i \in 1 .. n : y[1 + i] = x[1 + i]
    BY <2>2, <2>3, <2>4
  <2>6. Len(y) = n + 2 /\ y[n + 2] = z
    BY <1>3, <2>1
  <2> QED BY <1>2, <2>5, <2>6
<1>5. /\ r \in Seq(Packets) /\ k \in Nat /\ Len(r) = k + Len(y)
      /\ \A i \in 1 .. k : r[i] = q[i]
      /\ \A i \in k + 1 .. k + Len(y) : r[i] = y[i - k]
  BY <1>3, JoinOf DEF x, y
<1> HIDE DEF k, n
<1>6. /\ Len(r) = k + n + 2 /\ k + 1 \in k + 1 .. k + Len(y) /\ (k + 1) - k = 1
      /\ k + n + 2 \in k + 1 .. k + Len(y) /\ (k + n + 2) - k = n + 2
  BY <1>2, <1>4, <1>5
<1>7. \A i \in 1 .. n : (k + 1) + i \in k + 1 .. k + Len(y) /\ ((k + 1) + i) - k = 1 + i
  BY <1>2, <1>4, <1>5
<1>8. r[k + 1] = a /\ r[Len(r)] = z
  BY <1>4, <1>5, <1>6
<1>9. \A i \in 1 .. n : r[(k + 1) + i] = ps[i]
  BY <1>4, <1>5, <1>7
<1> QED BY <1>2, <1>5, <1>6, <1>8, <1>9 DEF k, n

LEMMA StatRest ==
    ASSUME FilesInd, pc = "stat", packet # <<>>, KeepRest(1)
    PROVE  /\ Lacks(packet', "STAT")
           /\ packet[1][1] = "STAT" => packet' = <<>> /\ ~Lacks(packet, "STAT")
<1>1. packet \in Seq(Elements) /\ (Lacks(packet, "STAT") \/ IsStat(packet))
  BY Kinds DEF FilesInd, WholeInd, Ordered, Filed
<1>2. packet' = SubSeq(packet, 1 + 1, Len(packet))
  BY DEF KeepRest
<1>3. Len(packet) \in Nat /\ 1 <= Len(packet) /\ 1 \in 1 .. Len(packet)
  BY <1>1
<1>4. packet[1][1] = "STAT" => ~Lacks(packet, "STAT")
  BY <1>3 DEF Lacks
<1>5. ASSUME IsStat(packet) PROVE packet' = <<>>
  <2>1. Len(packet) = 1
    BY <1>5 DEF IsStat
  <2>2. SubSeq(packet, 2, 1) = <<>>
    BY <1>1
  <2> QED BY <1>2, <2>1, <2>2
<1>6. Lacks(packet, "STAT") => Lacks(packet', "STAT")
  BY <1>1, <1>2, <1>3, RestLacks
<1> QED BY <1>1, <1>4, <1>5, <1>6, LacksNone

\* A push writes the file and waits for the answer to DONE.
LEMMA SendOrdered ==
    ASSUME FilesInd, pc = "stat", op = "push", packet[1][1] = "STAT", packet # <<>>, KeepRest(1),
           sync_send, UNCHANGED <<op, call, need, local, toHost, onBus, dev>>
    PROVE  Ordered'
<1>0. /\ WholeInd /\ Ordered /\ Filed /\ onBus \in BOOLEAN /\ call \in Nat /\ toDev \in Seq(Packets)
      /\ toHost \in Seq(Packets)
  BY Typed DEF FilesInd, WholeInd, Ordered
<1>1. PICK n \in 0 .. FileLen :
        /\ diskOK' = (n = FileLen) /\ pc' = "status"
        /\ Send((<<Request("SEND")>> \o Pieces(Bytes(call, n), SyncDataMax)) \o <<Request("DONE")>>)
  BY DEF sync_send, Request
<1>2. packet' = <<>> /\ ~Lacks(packet, "STAT")
  BY StatRest
<1>3. Filed'
  <2>1. Numbered(local', call', 0) /\ Lacks(packet', "STAT") /\ Lacks(packet', "OKAY")
    BY <1>0, <1>2, LacksNone DEF Filed
  <2> QED BY <1>1, <2>1 DEF Filed, Sync, Honest
<1>4. ASSUME onBus' = TRUE PROVE Course'
  <2>1. PICK w \in Loads(toHost) : StatFlow(w)
    BY <1>0, <1>4 DEF Ordered, Course
  <2>2. /\ dev.service = op /\ dev.reading = -1 /\ dev.sent = <<>> /\ Bears(toHost, <<>>)
        /\ Owed(<<>>) /\ dev.out = <<>>
    BY <1>2, <2>1 DEF StatFlow
  <2> PICK ps : ps = Pieces(Bytes(call, n), SyncDataMax)
    OBVIOUS
  <2> DEFINE q == toDev
  <2>3. n \in Nat /\ FileLen \in Nat
    BY AdbAssumption
  <2>4. /\ ps \in Seq(Packets) /\ Len(ps) \in Nat /\ Ends(n, 0) = 0
        /\ \A k \in 1 .. Len(ps) : ps[k].cmd = "WRTE" /\ ps[k].data[1][1] = "DATA"
    <3>1. \A k \in 1 .. Len(ps) : Continues(ps[k], call, Ends(n, k - 1), Ends(n, k))
      BY <1>0, <2>3, PiecesAre
    <3>2. ps \in Seq(Packets) /\ Len(ps) \in Nat /\ Ends(n, 0) = 0
      BY <1>0, <2>3, PiecesAre
    <3> QED BY <3>1, <3>2 DEF Continues
  <2>6. \A i \in 1 .. Len(q) : q[i] = Msg("OKAY")
    <3>1. q = <<>> \/ q = <<Msg("OKAY")>>
      BY <2>2, Msgs, OneOf DEF Owed
    <3>2. <<Msg("OKAY")>>[1] = Msg("OKAY") /\ Len(<<Msg("OKAY")>>) = 1
      BY Msgs, OneOf
    <3>3. \A i \in 1 .. 1 : i = 1
      OBVIOUS
    <3> QED BY <3>1, <3>2, <3>3
  <2>7. /\ Request("SEND") \in Packets /\ Request("DONE") \in Packets
        /\ Request("SEND").data[1][1] = "SEND" /\ Request("DONE").data[1][1] = "DONE"
    BY RequestIs DEF Ids
  <2>8. toDev' = q \o ((<<Request("SEND")>> \o ps) \o <<Request("DONE")>>)
    BY <1>1, <1>4, SendIs
  <2> HIDE DEF q
  <2>9. /\ toDev' \in Seq(Packets) /\ Len(q) \in Nat /\ Len(ps) \in Nat
        /\ Len(toDev') = Len(q) + Len(ps) + 2
        /\ \A i \in 1 .. Len(q) : toDev'[i] = q[i]
        /\ toDev'[Len(q) + 1] = Request("SEND")
        /\ \A i \in 1 .. Len(ps) : toDev'[(Len(q) + 1) + i] = ps[i]
        /\ toDev'[Len(toDev')] = Request("DONE")
    <3>1. /\ q \in Seq(Packets) /\ ps \in Seq(Packets)
          /\ Request("SEND") \in Packets /\ Request("DONE") \in Packets
      BY <1>0, <2>4, <2>7 DEF q
    <3> QED BY <2>8, <3>1, SendQueue
  <2> DEFINE h == Len(toDev') - 1 - (Len(ps) - 0)
  <2>10. h = Len(q) + 1 /\ h \in Nat
    BY <2>9
  <2> HIDE DEF h
  <2>11. \A i \in 1 .. h : toDev'[i] \in {Msg("OKAY"), Request("SEND")}
    <3>1. \A i \in 1 .. h : i \in 1 .. Len(q) \/ i = Len(q) + 1
      BY <2>9, <2>10
    <3> QED BY <2>6, <2>9, <3>1
  <2>12. \A i \in 1 .. Len(ps) - 0 : toDev'[h + i] = ps[0 + i]
    <3>1. \A i \in 1 .. Len(ps) - 0 : i \in 1 .. Len(ps) /\ 0 + i = i
      BY <2>9
    <3> QED BY <2>9, <2>10, <3>1
  <2>13. dev'.sent = Bytes(call, Ends(n, 0))
    <3>1. Bytes(call, 0) \in Seq(Elements) /\ Len(Bytes(call, 0)) = 0
      BY <1>0, BytesType
    <3>2. Bytes(call, 0) = <<>>
      BY <3>1
    <3> QED BY <2>2, <2>4, <3>2
  <2>14. Sending(n, 0)'
    <3>1. h >= 0
      BY <2>10
    <3>2. diskOK' = TRUE => n = FileLen
      BY <1>1
    <3>3. call' = call /\ ps = Pieces(Bytes(call', n), SyncDataMax)
      OBVIOUS
    <3> QED BY <2>9, <2>11, <2>12, <2>13, <3>1, <3>2, <3>3 DEF Sending, Line, h
  <2>15. 0 \in 0 .. Len(ps) /\ ps = Pieces(Bytes(call', n), SyncDataMax)
    BY <2>4
  <2>16. PushFlow'
    <3>1. (\E nn \in 0 .. FileLen :
             \E j \in 0 .. Len(Pieces(Bytes(call, nn), SyncDataMax)) : Sending(nn, j))'
      BY <2>14, <2>15
    <3> QED BY <1>2, <2>2, <3>1 DEF PushFlow, Replied
  <2>17. Statless'
    <3>1. \A i \in 1 .. Len(toHost') : toHost'[i].cmd # "WRTE"
      BY <1>0, <2>2, BearsWhat
    <3>2. \A i \in 1 .. Len(toDev') : \/ i \in 1 .. h \/ i = Len(toDev')
                                      \/ i - h \in 1 .. Len(ps) /\ h + (i - h) = i
      <4> DEFINE a == Len(toDev')
                 b == Len(ps)
      <4>1. h \in Nat /\ b \in Nat /\ a = (h + b) + 1
        BY <2>9, <2>10
      <4> HIDE DEF a, b
      <4>2. \A i \in 1 .. a : i \in 1 .. h \/ i = a \/ i \in h + 1 .. h + b
        BY <4>1
      <4>3. \A i \in h + 1 .. h + b : i - h \in 1 .. b /\ h + (i - h) = i
        BY <4>1
      <4> QED BY <4>2, <4>3 DEF a, b
    <3>3. ASSUME NEW i \in 1 .. Len(toDev'), toDev'[i].cmd = "WRTE"
          PROVE  toDev'[i].data[1][1] # "STAT"
      <4>1. CASE i \in 1 .. h
        BY <2>7, <2>11, <3>3, <4>1, MsgIs
      <4>2. CASE i = Len(toDev')
        BY <2>7, <2>9, <4>2
      <4>3. CASE i - h \in 1 .. Len(ps) /\ h + (i - h) = i
        <5>1. toDev'[i] = ps[i - h]
          BY <2>9, <2>10, <4>3
        <5> QED BY <2>4, <4>3, <5>1
      <4> QED BY <3>2, <4>1, <4>2, <4>3
    <3> QED BY <2>2, <3>1, <3>3, LacksNone DEF Statless
  <2> QED BY <1>1, <2>16, <2>17 DEF Course, Reading, Sync
<1> QED BY <1>3, <1>4 DEF Ordered

\* A pull asks for the file.
LEMMA RecvOrdered ==
    ASSUME FilesInd, pc = "stat", op = "pull", packet[1][1] = "STAT", packet # <<>>, KeepRest(1),
           Send(<<Request("RECV")>>), pc' = "header",
           UNCHANGED <<op, call, need, local, toHost, onBus, dev>>
    PROVE  Ordered'
<1>0. /\ WholeInd /\ Ordered /\ Filed /\ onBus \in BOOLEAN /\ toDev \in Seq(Packets)
      /\ toHost \in Seq(Packets)
  BY Typed DEF FilesInd, WholeInd, Ordered
<1>1. packet' = <<>> /\ ~Lacks(packet, "STAT")
  BY StatRest
<1>2. local = <<>> /\ Numbered(local', call', 0)
  BY <1>0 DEF Filed
<1>3. Due' = 0 /\ Len(local') = 0
  BY <1>2 DEF Due
<1>4. PICK c \in Tallies(<<>>) : Chain(<<>>, c, 0, 0, call)
  <2>1. <<>> \in Seq(Elements) /\ Lacks(<<>>, "DATA") /\ 0 \in Nat
    BY LacksNone
  <2> QED BY <2>1, ChainFlat
<1>5. Filed'
  <2>1. Follows(<<>>, c)'
    BY <1>3, <1>4 DEF Follows
  <2>2. (\E e \in Tallies(packet) : Follows(packet, e))'
    BY <1>1, <1>4, <2>1
  <2> QED BY <1>1, <1>2, <2>2, LacksNone DEF Filed, Sync
<1>6. ASSUME onBus' = TRUE PROVE Course'
  <2>1. PICK w \in Loads(toHost) : StatFlow(w)
    BY <1>0, <1>6 DEF Ordered, Course
  <2>2. /\ dev.service = op /\ dev.reading = -1 /\ Bears(toHost, <<>>) /\ Owed(<<>>)
        /\ dev.out = <<>>
    BY <1>1, <2>1 DEF StatFlow
  <2>3. toDev' = toDev \o <<Request("RECV")>>
    BY <1>6, SendIs
  <2>4. /\ Request("RECV") \in Packets /\ Request("RECV").data[1][1] = "RECV"
        /\ Msg("OKAY") \in Packets /\ Msg("OKAY").cmd = "OKAY"
    BY RequestIs, Msgs, MsgIs DEF Ids
  <2>5. Owed(<<Request("RECV")>>)'
    <3>1. <<Msg("OKAY")>> \o <<>> = <<Msg("OKAY")>> /\ <<>> \o <<Request("RECV")>> = <<Request("RECV")>>
      BY <2>4
    <3> QED BY <2>2, <2>3, <3>1 DEF Owed
  <2>6. PullFlow(<<>>)'
    BY <1>1, <1>2, <2>2, <2>5 DEF PullFlow
  <2>7. <<>> \in Loads(toHost')
    BY DEF Loads
  <2>8. Statless'
    <3>1. \A i \in 1 .. Len(toHost') : toHost'[i].cmd # "WRTE"
      BY <1>0, <2>2, BearsWhat
    <3>2. \A i \in 1 .. Len(toDev') : toDev'[i] = Msg("OKAY") \/ toDev'[i] = Request("RECV")
      <4>1. \A i \in 1 .. Len(toDev) : toDev[i] = Msg("OKAY")
        <5>1. toDev = <<>> \/ toDev = <<Msg("OKAY")>>
          BY <2>2, <2>4 DEF Owed
        <5>2. Len(<<Msg("OKAY")>>) = 1 /\ <<Msg("OKAY")>>[1] = Msg("OKAY") /\ \A i \in 1 .. 1 : i = 1
          BY <2>4, OneOf
        <5> QED BY <5>1, <5>2
      <4>2. \A i \in 1 .. Len(toDev') :
               (i \in 1 .. Len(toDev) /\ toDev'[i] = toDev[i]) \/ toDev'[i] = Request("RECV")
        BY <1>0, <2>3, <2>4, AppendOne
      <4> QED BY <4>1, <4>2
    <3> QED BY <2>2, <2>4, <3>1, <3>2, LacksNone DEF Statless
  <2> QED BY <2>6, <2>7, <2>8 DEF Course, Reading, Sync
<1> QED BY <1>5, <1>6 DEF Ordered

LEMMA ReadModeOrdered ==
    ASSUME FilesInd, sync_readmode
    PROVE  Ordered'
<1>0. Filed /\ op \in Sync /\ Numbered(local, call, 0)
  BY DEF FilesInd, Ordered, Filed, sync_readmode
<1>1. /\ pc = "stat" /\ packet # <<>> /\ KeepRest(1)
      /\ UNCHANGED <<op, call, need, local, toHost, onBus, dev>>
  BY DEF sync_readmode
<1>2. \/ CloseRemote(1)
      \/ packet[1][1] = "STAT" /\ op = "push" /\ sync_send
      \/ packet[1][1] = "STAT" /\ op # "push" /\ Send(<<Request("RECV")>>) /\ pc' = "header"
  BY DEF sync_readmode, Request
<1>3. CASE CloseRemote(1)
  <2>1. pc' = "closing" /\ (op = "push" => ret' # 0)
    BY <1>3, CloseEnds
  <2> QED BY <1>0, <1>1, <2>1, StatRest, EndsOrdered
<1>4. CASE packet[1][1] = "STAT" /\ op = "push" /\ sync_send
  BY <1>1, <1>4, SendOrdered
<1>5. CASE packet[1][1] = "STAT" /\ op # "push" /\ Send(<<Request("RECV")>>) /\ pc' = "header"
  BY <1>0, <1>1, <1>5, RecvOrdered DEF Sync
<1> QED BY <1>2, <1>3, <1>4, <1>5

LEMMA FirstRest ==
    ASSUME FilesInd, pc # "stat", packet # <<>>, KeepRest(1)
    PROVE  Lacks(packet', "STAT") /\ 1 \in 1 .. Len(packet) /\ packet \in Seq(Elements)
<1>1. packet \in Seq(Elements) /\ Lacks(packet, "STAT")
  BY Kinds DEF FilesInd, WholeInd, Ordered, Filed
<1>2. packet' = SubSeq(packet, 1 + 1, Len(packet)) /\ Len(packet) \in Nat /\ 1 <= Len(packet)
  BY <1>1 DEF KeepRest
<1> QED BY <1>1, <1>2, RestLacks

\* The host goes on to the words of a FAIL.
LEMMA WordsOrdered ==
    ASSUME FilesInd, pc \in Reading \ {"stat"}, pc' = "failmsg", Lacks(packet', "STAT"),
           Numbered(local', call', 0), UNCHANGED <<toDev, toHost, onBus, dev>>
    PROVE  Ordered'
<1>1. onBus' = TRUE => Statless'
  BY DEF FilesInd, Ordered, Course, Statless
<1>2. onBus' = TRUE => Course'
  BY <1>1 DEF Course, Sync
<1>3. Filed'
  BY DEF Filed, Sync
<1> QED BY <1>2, <1>3 DEF Ordered

\* OKAY is the answer to a DONE that the device has read: the file is there.
LEMMA StatusOrdered ==
    ASSUME FilesInd, sync_send_status
    PROVE  Ordered'
<1>0. /\ WholeInd /\ Filed /\ Ordered /\ onBus \in BOOLEAN /\ toDev \in Seq(Packets)
  BY Typed DEF FilesInd, WholeInd, Ordered
<1>1. /\ pc = "status" /\ packet # <<>> /\ KeepRest(1)
      /\ UNCHANGED <<op, call, need, local, diskOK, toHost, onBus, dev>>
      /\ \/ packet[1][1] = "OKAY" /\ Quit(0)
         \/ pc' = "failmsg" /\ toDev' = toDev
         \/ CloseRemote(1)
  BY DEF sync_send_status
<1>2. /\ Lacks(packet', "STAT") /\ 1 \in 1 .. Len(packet) /\ Numbered(local', call', 0)
      /\ op = "push" /\ Honest(packet)
  BY <1>0, <1>1, FirstRest DEF Filed
<1>3. CASE pc' = "failmsg" /\ toDev' = toDev
  BY <1>1, <1>2, <1>3, WordsOrdered DEF Reading
<1>4. CASE CloseRemote(1)
  <2>1. pc' = "closing" /\ (op = "push" => ret' # 0)
    BY <1>4, CloseEnds
  <2> QED BY <1>1, <1>2, <2>1, EndsOrdered
<1>5. CASE packet[1][1] = "OKAY" /\ Quit(0)
  <2>1. Stored
    BY <1>2, <1>5 DEF Honest, Lacks
  <2>2. Stored'
    BY <1>1, <2>1 DEF Stored
  <2>3. pc' = "closing" /\ Send(<<Request("QUIT"), Msg("CLSE")>>)
    BY <1>5 DEF Quit, Request
  <2>4. ASSUME onBus' = TRUE PROVE OnlyQuit'
    <3>1. PushFlow
      BY <1>0, <1>1, <2>4 DEF Ordered, Course
    <3>2. \A i \in 1 .. Len(toDev) : toDev[i].cmd = "OKAY"
      BY <1>1, <3>1 DEF PushFlow, Replied
    <3> DEFINE a == Request("QUIT")
               b == Msg("CLSE")
               ps == <<a, b>>
    <3>3. a \in Packets /\ b \in Packets /\ a.data[1][1] = "QUIT" /\ b.cmd = "CLSE"
      BY RequestIs, Msgs, MsgIs DEF Ids
    <3>4. toDev' = toDev \o ps
      BY <1>1, <2>3, <2>4, SendIs
    <3> HIDE DEF a, b
    <3>5. ps \in Seq(Packets) /\ Len(ps) = 2 /\ ps[1] = a /\ ps[2] = b
      BY <3>3
    <3> HIDE DEF ps
    <3> DEFINE n == Len(toDev)
    <3>6. /\ n \in Nat /\ Len(toDev') = n + Len(ps)
          /\ \A i \in 1 .. n : toDev'[i] = toDev[i]
          /\ \A i \in n + 1 .. n + Len(ps) : toDev'[i] = ps[i - n]
      BY <1>0, <3>4, <3>5, JoinOf
    <3> HIDE DEF n
    <3>7. \A i \in 1 .. Len(toDev') : \/ i \in 1 .. n
                                      \/ i \in n + 1 .. n + Len(ps) /\ (i - n = 1 \/ i - n = 2)
      BY <3>5, <3>6
    <3>8. \A i \in 1 .. n : toDev'[i].cmd = "OKAY"
      BY <3>2, <3>6 DEF n
    <3>9. \A i \in 1 .. Len(toDev') : toDev'[i].cmd = "OKAY" \/ toDev'[i] = a \/ toDev'[i] = b
      BY <3>5, <3>6, <3>7, <3>8
    <3> QED BY <3>3, <3>9 DEF OnlyQuit
  <2> QED BY <1>1, <1>2, <2>2, <2>3, <2>4, EndsOrdered
<1> QED BY <1>1, <1>3, <1>4, <1>5

LEMMA FailMsgOrdered ==
    ASSUME FilesInd, ReadFailMsg
    PROVE  Ordered'
<1>1. /\ pc = "failmsg" /\ packet # <<>> /\ KeepRest(1)
      /\ UNCHANGED <<op, call, need, local, diskOK, toHost, onBus, dev>>
      /\ \/ op = "push" /\ CloseRemote(1)
         \/ op # "push" /\ Quit(0)
  BY DEF ReadFailMsg
<1>2. Lacks(packet', "STAT") /\ Numbered(local', call', 0)
  BY <1>1, FirstRest DEF FilesInd, Ordered, Filed
<1>3. pc' = "closing" /\ (op = "push" => ret' # 0)
  BY <1>1, CloseEnds DEF Quit
<1> QED BY <1>1, <1>2, <1>3, EndsOrdered

\* close_remote changes nothing that matters to the file.
LEMMA CloseOrdered ==
    ASSUME FilesInd, close_remote
    PROVE  Ordered'
<1>0. /\ WholeInd /\ Filed /\ Ordered /\ onBus \in BOOLEAN /\ toDev \in Seq(Packets)
  BY Typed DEF FilesInd, WholeInd, Ordered
<1>1. /\ pc \in {"closing", "waiting"} /\ pc' \in {"closing", "waiting", "idle"}
      /\ UNCHANGED <<op, call, ret, local, packet, diskOK, onBus, dev>>
      /\ toDev' = toDev \/ Send(<<Msg("CLSE")>>)
  BY DEF close_remote, AfterClose, syncState
<1>2. Lacks(packet', "STAT") /\ Numbered(local', call', 0)
  BY <1>0, <1>1 DEF Filed
<1>3. ASSUME op' = "push", ret' = 0 PROVE Stored' /\ (onBus' = TRUE => OnlyQuit')
  <2>1. Stored /\ (onBus = TRUE => OnlyQuit)
    BY <1>0, <1>1, <1>3 DEF Filed, Ordered, Course
  <2>2. Stored'
    BY <1>1, <2>1 DEF Stored
  <2>3. ASSUME onBus' = TRUE PROVE OnlyQuit'
    <3>1. OnlyQuit /\ (toDev' = toDev \/ toDev' = toDev \o <<Msg("CLSE")>>)
      BY <1>1, <2>1, <2>3, SendIs
    <3>2. CASE toDev' = toDev
      BY <3>1, <3>2 DEF OnlyQuit
    <3>3. CASE toDev' = toDev \o <<Msg("CLSE")>>
      <4>1. Msg("CLSE") \in Packets /\ Msg("CLSE").cmd = "CLSE"
        BY Msgs, MsgIs
      <4>2. \A i \in 1 .. Len(toDev') :
               (i \in 1 .. Len(toDev) /\ toDev'[i] = toDev[i]) \/ toDev'[i] = Msg("CLSE")
        BY <1>0, <3>3, <4>1, AppendOne
      <4> QED BY <3>1, <4>1, <4>2 DEF OnlyQuit
    <3> QED BY <3>1, <3>2, <3>3
  <2> QED BY <2>2, <2>3
<1> QED BY <1>1, <1>2, <1>3, EndsOrdered

\* A pull reads k elements of the packet; what it has read decides what it expects next.
LEMMA ReadOn ==
    ASSUME FilesInd, pc \in {"header", "data"}, pc' \in {"header", "data"}, packet # <<>>,
           NEW k \in Nat, k <= Len(packet), packet' = SubSeq(packet, k + 1, Len(packet)),
           UNCHANGED <<op, call, toDev, toHost, onBus, dev>>, Numbered(local', call', 0),
           Due' \in Nat,
           \A t \in Seq(Elements) : \A c \in Tallies(packet \o t) :
              Chain(packet \o t, c, Len(local), Due, call) =>
                 /\ c[k] = Len(local') /\ Chunk(packet \o t, c, k, Due', call)
                 /\ Complete(packet \o t, Due) => k + Due' <= Len(packet \o t)
    PROVE  Ordered'
<1>0. /\ WholeInd /\ Ordered /\ Filed /\ onBus \in BOOLEAN /\ toDev \in Seq(Packets)
      /\ toHost \in Seq(Packets) /\ dev.out \in Seq(Elements) /\ packet \in Seq(Elements)
  BY Typed, Kinds DEF FilesInd, WholeInd, Ordered
<1>1. Lacks(packet', "STAT")
  <2>1. Lacks(packet, "STAT")
    BY <1>0 DEF Filed
  <2> QED BY <1>0, <2>1, RestLacks
<1>2. k \in 0 .. Len(packet)
  BY <1>0
<1>3. ASSUME NEW t \in Seq(Elements), NEW c \in Tallies(packet \o t),
             Chain(packet \o t, c, Len(local), Due, call)
      PROVE  /\ packet' \o t \in Seq(Elements)
             /\ \E e \in Tallies(packet' \o t) :
                   /\ Chain(packet' \o t, e, Len(local'), Due', call)
                   /\ e[Len(packet' \o t)] = c[Len(packet \o t)]
             /\ Complete(packet \o t, Due) => Complete(packet' \o t, Due')
  <2> DEFINE u == packet \o t
             v == packet' \o t
  <2>1. u \in Seq(Elements)
    BY <1>0, JoinOf
  <2>2. v = SubSeq(u, k + 1, Len(u)) /\ k \in 0 .. Len(u)
    BY <1>0, <1>2, DropJoin
  <2>3. /\ c[k] = Len(local') /\ Chunk(u, c, k, Due', call)
        /\ Complete(u, Due) => k + Due' <= Len(u)
    BY <1>3
  <2>4. c \in Tallies(u) /\ Chain(u, c, Len(local), Due, call)
    BY <1>3
  <2> HIDE DEF u, v
  <2>5. /\ \E e \in Tallies(v) : Chain(v, e, c[k], Due', call) /\ e[Len(v)] = c[Len(u)]
        /\ Complete(u, Due) /\ k + Due' <= Len(u) => Complete(v, Due')
    <3> PICK d, f, b, m : d = Due /\ f = Due' /\ b = Len(local) /\ m = call
      OBVIOUS
    <3>1. f \in Nat /\ Chain(u, c, b, d, m) /\ Chunk(u, c, k, f, m)
      BY <2>3, <2>4
    <3>2. Runs(v, c[k], f, m, c[Len(u)])
      BY <2>1, <2>2, <2>4, <3>1, ChainDrop
    <3>3. Complete(u, d) /\ k + f <= Len(u) => Complete(v, f)
      BY <2>1, <2>2, <2>4, <3>1, CompleteDrop
    <3> QED BY <3>2, <3>3 DEF Runs
  <2>6. v \in Seq(Elements)
    BY <2>1, <2>2, DropOf
  <2> QED BY <2>3, <2>5, <2>6 DEF u, v
<1>4. Filed'
  <2>1. PICK c \in Tallies(packet) : Chain(packet, c, Len(local), Due, call)
    BY <1>0 DEF Filed, Follows
  <2>2. packet \o <<>> = packet /\ <<>> \in Seq(Elements)
    BY <1>0, JoinEmpty
  <2>3. packet' \in Seq(Elements) /\ packet' \o <<>> = packet'
    <3>1. packet' \in Seq(Elements)
      BY <1>0, <1>2, DropOf
    <3> QED BY <3>1, JoinEmpty
  <2>4. PICK e \in Tallies(packet') : Chain(packet', e, Len(local'), Due', call)
    BY <1>3, <2>1, <2>2, <2>3
  <2>5. (\E f \in Tallies(packet) : Follows(packet, f))'
    BY <2>4 DEF Follows
  <2>6. op' = "pull"
    BY <1>0 DEF Filed
  <2> QED BY <1>1, <2>5, <2>6 DEF Filed, Sync
<1>5. ASSUME onBus' = TRUE PROVE Course'
  <2>1. PICK w \in Loads(toHost) : PullFlow(w)
    BY <1>0, <1>5 DEF Ordered, Course
  <2>2. Bears(toHost, w) /\ w \in Seq(Elements)
    BY <1>0, <2>1, BearsWhat DEF PullFlow
  <2> PICK t : t = w \o dev.out
    OBVIOUS
  <2>3. t \in Seq(Elements) /\ Ahead(w) = packet \o t /\ Ahead(w)' = packet' \o t
    BY <1>0, <2>2, JoinOf DEF Ahead
  <2>4. PICK c \in Tallies(packet \o t) :
           /\ Window(w) /\ Complete(packet \o t, Due) /\ Chain(packet \o t, c, Len(local), Due, call)
           /\ dev.reading # -1 => dev.reading \in Nat /\ c[Len(packet \o t)] = dev.reading
    BY <2>1, <2>3 DEF PullFlow, Follows
  <2>5. PICK e \in Tallies(packet' \o t) :
           /\ Chain(packet' \o t, e, Len(local'), Due', call)
           /\ e[Len(packet' \o t)] = c[Len(packet \o t)]
    BY <1>3, <2>3, <2>4
  <2>6. Complete(packet' \o t, Due')
    BY <1>3, <2>3, <2>4
  <2>7. Window(w)'
    BY <2>4 DEF Window, Owed
  <2>8. (\E f \in Tallies(Ahead(w)) :
            /\ Follows(Ahead(w), f)
            /\ dev.reading # -1 => dev.reading \in Nat /\ f[Len(Ahead(w))] = dev.reading)'
    BY <2>3, <2>4, <2>5 DEF Follows
  <2>9. PullFlow(w)'
    BY <2>1, <2>3, <2>6, <2>7, <2>8 DEF PullFlow
  <2>10. Statless'
    BY <1>0, <1>5 DEF Ordered, Course, Statless, Reading
  <2>11. w \in Loads(toHost')
    OBVIOUS
  <2> QED BY <2>9, <2>10, <2>11 DEF Course, Sync, Reading
<1> QED BY <1>4, <1>5 DEF Ordered

LEMMA HeaderOrdered ==
    ASSUME FilesInd, sync_recv_header
    PROVE  Ordered'
<1>0. /\ WholeInd /\ Filed /\ packet \in Seq(Elements) /\ local \in Seq(Elements)
  BY Kinds DEF FilesInd, WholeInd, Ordered
<1>1. /\ pc = "header" /\ packet # <<>> /\ KeepRest(1)
      /\ UNCHANGED <<op, call, diskOK, toHost, onBus, dev>>
      /\ \/ (Quit(0) \/ CloseRemote(1)) /\ local' = local
         \/ /\ packet[1][1] = "DATA" /\ pc' = "data" /\ need' = packet[1][2]
            /\ UNCHANGED <<local, toDev>>
         \/ pc' = "crashed" /\ local' = local
         \/ local' = <<>> /\ pc' = "failmsg" /\ toDev' = toDev
         \/ local' = <<>> /\ Quit(0)
  BY DEF sync_recv_header
<1>2. Lacks(packet', "STAT") /\ 1 \in 1 .. Len(packet)
  BY <1>1, FirstRest
<1>3. op = "pull" /\ Numbered(local, call, 0)
  BY <1>0, <1>1 DEF Filed
<1>4. CASE (Quit(0) \/ CloseRemote(1)) /\ local' = local
  <2>1. pc' = "closing"
    BY <1>4 DEF Quit, CloseRemote
  <2> QED BY <1>1, <1>2, <1>3, <1>4, <2>1, EndsOrdered
<1>5. CASE pc' = "crashed" /\ local' = local
  BY <1>1, <1>2, <1>3, <1>5, EndsOrdered
<1>6. CASE local' = <<>> /\ Quit(0)
  <2>1. pc' = "closing"
    BY <1>6 DEF Quit
  <2> QED BY <1>1, <1>2, <1>3, <1>6, <2>1, NumberedNone, EndsOrdered
<1>7. CASE local' = <<>> /\ pc' = "failmsg" /\ toDev' = toDev
  BY <1>1, <1>2, <1>7, NumberedNone, WordsOrdered DEF Reading
<1>8. CASE /\ packet[1][1] = "DATA" /\ pc' = "data" /\ need' = packet[1][2]
           /\ UNCHANGED <<local, toDev>>
  <2>1. Due = 0 /\ Due' = packet[1][2] /\ packet[1][2] \in Nat
    BY <1>0, <1>1, <1>2, <1>8, SizeOf DEF Due
  <2>2. ASSUME NEW t \in Seq(Elements), NEW c \in Tallies(packet \o t),
               Chain(packet \o t, c, Len(local), Due, call)
        PROVE  /\ c[1] = Len(local') /\ Chunk(packet \o t, c, 1, Due', call)
               /\ Complete(packet \o t, Due) => 1 + Due' <= Len(packet \o t)
    <3> DEFINE u == packet \o t
    <3>1. u[1] = packet[1] /\ 1 \in 1 .. Len(u)
      <4>1. /\ Len(packet) \in Nat /\ Len(t) \in Nat /\ Len(u) = Len(packet) + Len(t)
            /\ \A i \in 1 .. Len(packet) : u[i] = packet[i]
        BY <1>0, JoinOf
      <4> HIDE DEF u
      <4> QED BY <1>2, <4>1
    <3>2. Chain(u, c, Len(local), Due, call)
      BY <2>2
    <3> HIDE DEF u
    <3>3. c[1] = c[1 - 1] /\ Chunk(u, c, 1, u[1][2], call)
      BY <1>8, <3>1, <3>2 DEF Chain
    <3>4. c[1 - 1] = c[0] /\ c[0] = Len(local)
      BY <3>2 DEF Chain
    <3>5. Complete(u, Due) => 1 + u[1][2] <= Len(u)
      BY <1>8, <3>1 DEF Complete
    <3> QED BY <1>8, <2>1, <3>1, <3>3, <3>4, <3>5 DEF u
  <2>3. packet' = SubSeq(packet, 1 + 1, Len(packet)) /\ 1 <= Len(packet)
    BY <1>0, <1>1, <1>2 DEF KeepRest
  <2>4. Numbered(local', call', 0)
    BY <1>1, <1>3, <1>8
  <2> QED BY <1>1, <1>8, <2>1, <2>2, <2>3, <2>4, ReadOn
<1> QED BY <1>1, <1>4, <1>5, <1>6, <1>7, <1>8

LEMMA DataOrdered ==
    ASSUME FilesInd, sync_recv_data
    PROVE  Ordered'
<1>0. /\ WholeInd /\ Filed /\ packet \in Seq(Elements) /\ local \in Seq(Elements) /\ need \in Nat
  BY Kinds DEF FilesInd, WholeInd, Ordered
<1>1. /\ pc = "data" /\ packet # <<>>
      /\ UNCHANGED <<op, call, need, diskOK, toHost, onBus, dev>>
      /\ \/ packet' = <<>> /\ CloseRemote(1) /\ local' = local
         \/ /\ ~(need > Len(packet)) /\ KeepRest(need)
            /\ \/ /\ local' = local \o SubSeq(packet, 1, need)
                  /\ pc' = "header" /\ toDev' = toDev
               \/ CloseRemote(1) /\ local' = local
  BY DEF sync_recv_data
<1>2. op = "pull" /\ Numbered(local, call, 0) /\ Lacks(packet, "STAT")
  BY <1>0, <1>1 DEF Filed
<1>3. CASE packet' = <<>> /\ CloseRemote(1) /\ local' = local
  <2>1. pc' = "closing"
    BY <1>3 DEF CloseRemote
  <2> QED BY <1>1, <1>2, <1>3, <2>1, LacksNone, EndsOrdered
<1>4. ASSUME ~(need > Len(packet)), KeepRest(need)
      PROVE  /\ packet' = SubSeq(packet, need + 1, Len(packet)) /\ need <= Len(packet)
             /\ Lacks(packet', "STAT")
  <2>1. packet' = SubSeq(packet, need + 1, Len(packet)) /\ need <= Len(packet)
    BY <1>0, <1>4 DEF KeepRest
  <2> QED BY <1>0, <1>2, <2>1, RestLacks
<1>5. CASE ~(need > Len(packet)) /\ KeepRest(need) /\ CloseRemote(1) /\ local' = local
  <2>1. pc' = "closing"
    BY <1>5 DEF CloseRemote
  <2> QED BY <1>1, <1>2, <1>4, <1>5, <2>1, EndsOrdered
<1>6. CASE /\ ~(need > Len(packet)) /\ KeepRest(need)
           /\ local' = local \o SubSeq(packet, 1, need) /\ pc' = "header" /\ toDev' = toDev
  <2> DEFINE x == SubSeq(packet, 1, need)
  <2>1. Due = need /\ Due' = 0
    BY <1>1, <1>6 DEF Due
  <2>2. x \in Seq(Elements) /\ Len(x) = need /\ \A i \in 1 .. need : x[i] = packet[i]
    BY <1>0, <1>4, <1>6
  <2> HIDE DEF x
  <2>3. Len(local') = Len(local) + need /\ Len(local) \in Nat
    <3>1. Len(local') = Len(local) + Len(x) /\ Len(local) \in Nat
      BY <1>0, <1>6, <2>2, JoinOf DEF x
    <3> QED BY <2>2, <3>1
  <2>4. Numbered(x, call, 0 + Len(local))
    <3>1. PICK c \in Tallies(packet) : Chain(packet, c, Len(local), need, call)
      BY <1>0, <1>1, <2>1 DEF Filed, Follows
    <3>2. \A i \in 1 .. need : packet[0 + i] = <<"byte", call, c[0] + i>>
      <4>1. \A i \in 1 .. need : 0 + i <= Len(packet)
        BY <1>0, <1>4, <1>6
      <4> QED BY <3>1, <4>1 DEF Chain, Chunk
    <3>3. c[0] = Len(local)
      BY <3>1 DEF Chain
    <3>4. \A i \in 1 .. need : 0 + i = i
      BY <1>0
    <3>5. \A i \in 1 .. need : x[i] = <<"byte", call, (0 + Len(local)) + i>>
      <4>1. 0 + Len(local) = Len(local)
        BY <2>3
      <4> QED BY <2>2, <3>2, <3>3, <3>4, <4>1
    <3> QED BY <2>2, <3>5 DEF Numbered
  <2>5. Numbered(local', call', 0)
    <3>1. Numbered(local \o x, call, 0)
      BY <1>0, <1>2, <2>2, <2>4, NumberedJoin
    <3> QED BY <1>1, <1>6, <3>1 DEF x
  <2>6. ASSUME NEW t \in Seq(Elements), NEW c \in Tallies(packet \o t),
               Chain(packet \o t, c, Len(local), Due, call)
        PROVE  /\ c[need] = Len(local') /\ Chunk(packet \o t, c, need, Due', call)
               /\ Complete(packet \o t, Due) => need + Due' <= Len(packet \o t)
    <3> DEFINE u == packet \o t
    <3>1. need <= Len(u) /\ Len(u) \in Nat
      <4>1. Len(packet) \in Nat /\ Len(t) \in Nat /\ Len(u) = Len(packet) + Len(t)
        BY <1>0, JoinOf
      <4> HIDE DEF u
      <4> QED BY <1>0, <1>4, <1>6, <4>1
    <3>2. Chain(u, c, Len(local), need, call)
      BY <2>1, <2>6
    <3> HIDE DEF u
    <3>3. c[0] = Len(local) /\ Chunk(u, c, 0, need, call)
      BY <3>2 DEF Chain
    <3>4. c[need] = Len(local) + need
      <4>1. CASE need = 0
        BY <2>3, <3>3, <4>1
      <4>2. CASE need # 0
        <5>1. need \in 1 .. need /\ 0 + need = need /\ 0 + need <= Len(u)
          BY <1>0, <3>1, <4>2
        <5>2. c[0 + need] = c[0] + need
          BY <3>3, <5>1 DEF Chunk
        <5> QED BY <3>3, <5>1, <5>2
      <4> QED BY <4>1, <4>2
    <3>5. Chunk(u, c, need, 0, call)
      BY DEF Chunk
    <3>6. need + 0 <= Len(u)
      BY <1>0, <3>1
    <3> QED BY <2>1, <2>3, <3>4, <3>5, <3>6 DEF u
  <2>7. packet' = SubSeq(packet, need + 1, Len(packet)) /\ need <= Len(packet)
    BY <1>4, <1>6
  <2>8. Due' \in Nat
    BY <2>1
  <2> QED BY <1>0, <1>1, <1>6, <2>5, <2>6, <2>7, <2>8, ReadOn
<1> QED BY <1>1, <1>3, <1>5, <1>6

-----------------------------------------------------------------------------
(* Files: the device. *)

\* What a step of the device leaves as it was in every case.
LEMMA HostStays ==
    ASSUME Device
    PROVE  UNCHANGED <<pc, op, packet, ret, local, call, need, diskOK, onBus>>
<1>1. UNCHANGED <<host, onBus>>
  BY DEF Device, DevConnect, DevOpen, DevOkay, DevSync, DevRead, DevWrite, DevExit, DevClose
<1> QED BY <1>1 DEF host

LEMMA OkayKeeps ==
    ASSUME WholeInd, DevOkay
    PROVE  dev'.sent = dev.sent /\ dev'.stored = dev.stored
<1>1. dev \in DevType /\ dev' = [dev EXCEPT !.busy = FALSE]
  BY Typed DEF WholeInd, DevOkay
<1> QED BY <1>1 DEF DevType

LEMMA CloseKeeps ==
    ASSUME WholeInd, DevClose
    PROVE  dev'.stored = dev.stored
<1>1. dev \in DevType
  BY Typed DEF WholeInd
<1>2. dev' = dev \/ dev' = [dev EXCEPT !.service = "none", !.out = <<>>, !.reading = -1]
  BY DEF DevClose
<1> QED BY <1>1, <1>2 DEF DevType

LEMMA WriteKeeps ==
    ASSUME WholeInd, DevWrite
    PROVE  dev'.sent = dev.sent /\ dev'.stored = dev.stored
<1>1. dev \in DevType
  BY Typed DEF WholeInd
<1>2. PICK n \in 1 .. MaxPayload :
        dev' = [dev EXCEPT !.busy = TRUE, !.out = SubSeq(@, n + 1, Len(@))]
  BY DEF DevWrite
<1> QED BY <1>1, <1>2 DEF DevType

\* A request x of the sync protocol, with its data.
Asks == {"STAT", "SEND", "DATA", "DONE", "RECV"}
Serves(x, data) ==
    /\ dev'.busy = dev.busy
    /\ x # "DONE" => dev'.stored = dev.stored
    /\ x \notin {"SEND", "DATA"} => dev'.sent = dev.sent
    /\ x \in Asks => dev'.service = dev.service
    /\ x \in Asks \ {"RECV"} => dev'.reading = dev.reading
    /\ x \in {"SEND", "DATA", "RECV"} => dev'.out = dev.out
    /\ x \notin Asks => dev'.out = <<>>
    /\ x = "STAT" => \E mode \in {0, 1} : dev'.out = dev.out \o <<Header("STAT", mode)>>
    /\ x = "SEND" => dev'.sent = <<>>
    /\ x = "DATA" => dev'.sent = dev.sent \o Tail(data)
    /\ x = "DONE" =>
          \/ dev'.stored = dev.sent /\ dev'.out = dev.out \o <<Header("OKAY", 0)>>
          \/ /\ dev'.stored = dev.stored
             /\ dev'.out = dev.out \o <<Header("FAIL", 1), Header("words", 0)>>
    /\ x = "RECV" => dev'.reading = 0

LEMMA SyncServes ==
    ASSUME WholeInd, DevSync, dev.service \in Sync
    PROVE  Serves(Head(toDev).data[1][1], Head(toDev).data)
<1> DEFINE data == Head(toDev).data
           x == data[1][1]
<1>1. dev \in DevType
  BY Typed DEF WholeInd
<1>2. dev.service = "push" \/ dev.service = "pull"
  BY DEF Sync
<1>3. \/ x = "STAT" /\ \E mode \in {0, 1} : dev' = [dev EXCEPT !.out = @ \o <<Header("STAT", mode)>>]
      \/ x = "SEND" /\ dev' = [dev EXCEPT !.sent = <<>>]
      \/ x = "DATA" /\ dev' = [dev EXCEPT !.sent = @ \o Tail(data)]
      \/ x = "DONE" /\ dev' = [dev EXCEPT !.stored = dev.sent, !.out = @ \o <<Header("OKAY", 0)>>]
      \/ x = "DONE" /\ dev' = [dev EXCEPT !.out = @ \o <<Header("FAIL", 1), Header("words", 0)>>]
      \/ x = "RECV" /\ dev' = [dev EXCEPT !.reading = 0]
      \/ x \notin Asks /\ dev' = [dev EXCEPT !.service = "none", !.out = <<>>, !.reading = -1]
  BY <1>2 DEF DevSync, Asks
<1> HIDE DEF data, x
<1>4. ASSUME NEW es, dev' = [dev EXCEPT !.out = @ \o es]
      PROVE  /\ dev'.busy = dev.busy /\ dev'.stored = dev.stored /\ dev'.sent = dev.sent
             /\ dev'.service = dev.service /\ dev'.reading = dev.reading /\ dev'.out = dev.out \o es
  BY <1>1, <1>4 DEF DevType
<1>5. ASSUME NEW s, dev' = [dev EXCEPT !.sent = s]
      PROVE  /\ dev'.busy = dev.busy /\ dev'.stored = dev.stored /\ dev'.sent = s
             /\ dev'.service = dev.service /\ dev'.reading = dev.reading /\ dev'.out = dev.out
  BY <1>1, <1>5 DEF DevType
<1>6. CASE x = "STAT" /\ \E mode \in {0, 1} : dev' = [dev EXCEPT !.out = @ \o <<Header("STAT", mode)>>]
  <2>1. PICK mode \in {0, 1} : dev' = [dev EXCEPT !.out = @ \o <<Header("STAT", mode)>>]
    BY <1>6
  <2> DEFINE es == <<Header("STAT", mode)>>
  <2>2. dev' = [dev EXCEPT !.out = @ \o es]
    BY <2>1
  <2> HIDE DEF es
  <2>3. /\ dev'.busy = dev.busy /\ dev'.stored = dev.stored /\ dev'.sent = dev.sent
        /\ dev'.service = dev.service /\ dev'.reading = dev.reading /\ dev'.out = dev.out \o es
    BY <1>4, <2>2
  <2> QED BY <1>6, <2>3 DEF Serves, Asks, es, x, data
<1>7. CASE x = "SEND" /\ dev' = [dev EXCEPT !.sent = <<>>]
  BY <1>5, <1>7 DEF Serves, Asks, x, data
<1>8. CASE x = "DATA" /\ dev' = [dev EXCEPT !.sent = @ \o Tail(data)]
  <2>1. dev'.sent = dev.sent \o Tail(data)
    BY <1>1, <1>8 DEF DevType
  <2>2. /\ dev'.busy = dev.busy /\ dev'.stored = dev.stored
        /\ dev'.service = dev.service /\ dev'.reading = dev.reading /\ dev'.out = dev.out
    BY <1>1, <1>8 DEF DevType
  <2> QED BY <1>8, <2>1, <2>2 DEF Serves, Asks, x, data
<1>9. CASE x = "DONE" /\ dev' = [dev EXCEPT !.stored = dev.sent, !.out = @ \o <<Header("OKAY", 0)>>]
  <2>1. /\ dev'.busy = dev.busy /\ dev'.stored = dev.sent /\ dev'.sent = dev.sent
        /\ dev'.service = dev.service /\ dev'.reading = dev.reading
        /\ dev'.out = dev.out \o <<Header("OKAY", 0)>>
    BY <1>1, <1>9 DEF DevType
  <2> QED BY <1>9, <2>1 DEF Serves, Asks, x, data
<1>10. CASE x = "DONE" /\ dev' = [dev EXCEPT !.out = @ \o <<Header("FAIL", 1), Header("words", 0)>>]
  <2> DEFINE es == <<Header("FAIL", 1), Header("words", 0)>>
  <2>2. dev' = [dev EXCEPT !.out = @ \o es]
    BY <1>10
  <2> HIDE DEF es
  <2>3. /\ dev'.busy = dev.busy /\ dev'.stored = dev.stored /\ dev'.sent = dev.sent
        /\ dev'.service = dev.service /\ dev'.reading = dev.reading /\ dev'.out = dev.out \o es
    BY <1>4, <2>2
  <2> QED BY <1>10, <2>3 DEF Serves, Asks, es, x, data
<1>11. CASE x = "RECV" /\ dev' = [dev EXCEPT !.reading = 0]
  <2>1. /\ dev'.busy = dev.busy /\ dev'.stored = dev.stored /\ dev'.sent = dev.sent
        /\ dev'.service = dev.service /\ dev'.reading = 0 /\ dev'.out = dev.out
    BY <1>1, <1>11 DEF DevType
  <2> QED BY <1>11, <2>1 DEF Serves, Asks, x, data
<1>12. CASE x \notin Asks /\ dev' = [dev EXCEPT !.service = "none", !.out = <<>>, !.reading = -1]
  <2>1. /\ dev'.busy = dev.busy /\ dev'.stored = dev.stored /\ dev'.sent = dev.sent
        /\ dev'.out = <<>>
    BY <1>1, <1>12 DEF DevType
  <2> QED BY <1>12, <2>1 DEF Serves, Asks, x, data
<1> QED BY <1>3, <1>6, <1>7, <1>8, <1>9, <1>10, <1>11, <1>12


\* RECV: t is prepared, and takes the file from where it was to z.
Prepares(t, z) ==
    /\ z \in Nat /\ Extends(t, dev.reading, call, z)
    /\ dev'.out = dev.out \o t /\ dev'.reading \in {-1, z}

LEMMA ReadServes ==
    ASSUME WholeInd, DevRead
    PROVE  /\ toDev' = toDev /\ toHost' = toHost /\ dev.reading \in Nat
           /\ dev'.busy = dev.busy /\ dev'.sent = dev.sent /\ dev'.stored = dev.stored
           /\ dev'.service = dev.service
           /\ \E t, z : Prepares(t, z)
<1>0. /\ dev \in DevType /\ dev.out \in Seq(Elements) /\ dev.reading \in Int /\ call \in Nat
      /\ FileLen \in Nat
  BY Typed, Kinds, AdbAssumption DEF WholeInd
<1>1. toDev' = toDev /\ toHost' = toHost /\ dev.reading >= 0
  BY DEF DevRead
<1>2. dev.reading \in Nat
  BY <1>0, <1>1
<1>3. ASSUME NEW r, NEW s, dev' = [dev EXCEPT !.reading = r, !.out = s]
      PROVE  /\ dev'.busy = dev.busy /\ dev'.sent = dev.sent /\ dev'.stored = dev.stored
             /\ dev'.service = dev.service /\ dev'.out = s /\ dev'.reading = r
  BY <1>0, <1>3 DEF DevType
<1>4. ASSUME NEW t \in Seq(Elements), Lacks(t, "DATA"), Lacks(t, "STAT"),
             dev' = [dev EXCEPT !.reading = -1, !.out = dev.out \o t]
      PROVE  Prepares(t, dev.reading)
  <2>1. Complete(t, 0) /\ Runs(t, dev.reading, 0, call, dev.reading)
    BY <1>2, <1>4, ChainFlat DEF Runs
  <2> QED BY <1>2, <1>3, <1>4, <2>1 DEF Prepares, Extends
<1>5. CASE \E n \in 1 .. MaxChunk :
             /\ dev.reading + n <= FileLen
             /\ dev' = [dev EXCEPT !.reading = @ + n,
                          !.out = @ \o <<Header("DATA", n)>>
                                 \o SubSeq(Bytes(call, FileLen), dev.reading + 1, dev.reading + n)]
  <2>1. PICK n \in 1 .. MaxChunk :
             /\ dev.reading + n <= FileLen
             /\ dev' = [dev EXCEPT !.reading = @ + n,
                          !.out = @ \o <<Header("DATA", n)>>
                                 \o SubSeq(Bytes(call, FileLen), dev.reading + 1, dev.reading + n)]
    BY <1>5
  <2> DEFINE h == <<Header("DATA", n)>>
             x == SubSeq(Bytes(call, FileLen), dev.reading + 1, dev.reading + n)
             t == h \o x
  <2>2. n \in Nat \ {0}
    BY AdbAssumption
  <2>3. Header("DATA", n) \in Elements
    BY <2>2, HeaderType DEF Ids
  <2>4. h \in Seq(Elements)
    BY <2>3, OneOf
  <2>5. x \in Seq(Elements)
    <3>1. Bytes(call, FileLen) \in Seq(Elements) /\ Len(Bytes(call, FileLen)) = FileLen
      BY <1>0, BytesType
    <3> DEFINE y == Bytes(call, FileLen)
    <3> HIDE DEF y
    <3>2. y \in Seq(Elements) /\ Len(y) = FileLen
      BY <3>1 DEF y
    <3>3. SubSeq(y, dev.reading + 1, dev.reading + n) \in Seq(Elements)
      BY <1>0, <1>2, <2>1, <2>2, <3>2
    <3> QED BY <3>3 DEF y
  <2>6. dev' = [dev EXCEPT !.reading = dev.reading + n, !.out = (dev.out \o h) \o x]
    BY <1>0, <2>1 DEF DevType
  <2>7. Extends(t, dev.reading, call, dev.reading + n)
    <3> PICK r : r = dev.reading
      OBVIOUS
    <3>1. r \in Nat /\ r + n <= FileLen
      BY <1>2, <2>1
    <3>2. t = <<Header("DATA", n)>> \o SubSeq(Bytes(call, FileLen), r + 1, r + n)
      OBVIOUS
    <3> HIDE DEF t, h, x
    <3>3. Extends(t, r, call, r + n)
      BY <1>0, <2>2, <3>1, <3>2, ChainPiece
    <3> QED BY <3>3
  <2> HIDE DEF h, x
  <2>8. (dev.out \o h) \o x = dev.out \o t
    BY <1>0, <2>4, <2>5, JoinAssoc
  <2>9. /\ dev'.busy = dev.busy /\ dev'.sent = dev.sent /\ dev'.stored = dev.stored
        /\ dev'.service = dev.service /\ dev'.out = (dev.out \o h) \o x
        /\ dev'.reading = dev.reading + n
    BY <1>3, <2>6
  <2>10. dev.reading + n \in Nat
    BY <1>2, <2>2
  <2> HIDE DEF t
  <2>11. Prepares(t, dev.reading + n)
    BY <2>7, <2>8, <2>9, <2>10 DEF Prepares
  <2> QED BY <1>1, <1>2, <2>9, <2>11
<1>6. CASE dev' = [dev EXCEPT !.reading = -1, !.out = @ \o <<Header("DONE", 0)>>]
  <2> DEFINE p == Header("DONE", 0)
             t == <<p>>
  <2>1. p \in Elements /\ p[1] = "DONE"
    BY HeaderType DEF Ids, Header
  <2>2. dev' = [dev EXCEPT !.reading = -1, !.out = dev.out \o t]
    BY <1>0, <1>6 DEF DevType
  <2> HIDE DEF p
  <2>3. t \in Seq(Elements) /\ Len(t) = 1 /\ t[1] = p
    BY <2>1, OneOf
  <2> HIDE DEF t
  <2>4. \A i \in 1 .. Len(t) : i = 1
    BY <2>3
  <2>5. Lacks(t, "DATA") /\ Lacks(t, "STAT")
    BY <2>1, <2>3, <2>4 DEF Lacks
  <2>6. Prepares(t, dev.reading)
    BY <1>4, <2>2, <2>3, <2>5
  <2> QED BY <1>1, <1>2, <1>3, <2>2, <2>6
<1>7. CASE dev' = [dev EXCEPT !.reading = -1, !.out = @ \o <<Header("FAIL", 1), Header("words", 0)>>]
  <2> DEFINE p == Header("FAIL", 1)
             q == Header("words", 0)
             t == <<p, q>>
  <2>1. p \in Elements /\ p[1] = "FAIL" /\ q \in Elements /\ q[1] = "words"
    BY HeaderType DEF Ids, Header
  <2>2. dev' = [dev EXCEPT !.reading = -1, !.out = dev.out \o t]
    BY <1>0, <1>7 DEF DevType
  <2> HIDE DEF p, q
  <2>3. t \in Seq(Elements) /\ Len(t) = 2 /\ t[1] = p /\ t[2] = q
    BY <2>1
  <2> HIDE DEF t
  <2>4. \A i \in 1 .. Len(t) : i = 1 \/ i = 2
    BY <2>3
  <2>5. Lacks(t, "DATA") /\ Lacks(t, "STAT")
    BY <2>1, <2>3, <2>4 DEF Lacks
  <2>6. Prepares(t, dev.reading)
    BY <1>4, <2>2, <2>3, <2>5
  <2> QED BY <1>1, <1>2, <1>3, <2>2, <2>6
<1> QED BY <1>5, <1>6, <1>7 DEF DevRead


LEMMA RunsJoin ==
    ASSUME NEW s \in Seq(Elements), NEW t, NEW b, NEW d \in Nat, NEW m, NEW a, NEW z,
           Complete(s, d), Runs(s, b, d, m, a), Extends(t, a, m, z)
    PROVE  Complete(s \o t, d) /\ Runs(s \o t, b, d, m, z)
<1>1. PICK c \in Tallies(s) : Chain(s, c, b, d, m) /\ c[Len(s)] = a
  BY DEF Runs
<1>2. t \in Seq(Elements) /\ Complete(t, 0)
  BY DEF Extends
<1>3. PICK e \in Tallies(t) : Chain(t, e, a, 0, m) /\ e[Len(t)] = z
  BY DEF Extends, Runs
<1>4. /\ Complete(s \o t, d)
      /\ \E f \in Tallies(s \o t) : Chain(s \o t, f, b, d, m) /\ f[Len(s \o t)] = e[Len(t)]
  BY <1>1, <1>2, <1>3, ChainJoin
<1> QED BY <1>3, <1>4 DEF Runs


\* What the device may do on a stream of the sync protocol.
LEMMA Acts ==
    ASSUME WholeInd, Device, SyncFlow
    PROVE  \/ DevOkay /\ toDev # <<>> /\ Head(toDev).cmd = "OKAY"
           \/ DevSync /\ toDev # <<>> /\ Head(toDev).cmd = "WRTE"
           \/ DevClose /\ toDev # <<>> /\ Head(toDev).cmd = "CLSE"
           \/ DevRead /\ dev.reading # -1
           \/ DevWrite /\ dev.busy = FALSE /\ dev.out # <<>>
<1>1. toDev \in Seq(Packets) /\ Quiet(toDev) /\ dev.service \in {"push", "pull", "none"}
  BY Typed DEF WholeInd, SyncFlow
<1>2. ~DevConnect /\ ~DevOpen
  <2>1. toDev # <<>> => Head(toDev).cmd \in {"WRTE", "OKAY", "CLSE"}
    BY <1>1, QuietTail
  <2> QED BY <2>1 DEF DevConnect, DevOpen
<1>3. ~DevExit
  BY <1>1 DEF DevExit
<1>4. DevRead => dev.reading # -1
  BY ReadServes
<1>5. DevWrite => dev.busy = FALSE /\ dev.out # <<>>
  BY WriteIs
<1> QED BY <1>2, <1>3, <1>4, <1>5 DEF Device, DevOkay, DevSync, DevClose

\* What a request does to the link while the stream stays open.
LEMMA SyncLink ==
    ASSUME WholeInd, DevSync, dev.service \in Sync, dev'.service = dev.service
    PROVE  toDev # <<>> /\ toDev' = Tail(toDev) /\ toHost' = toHost \o <<Msg("OKAY")>>
<1>1. dev'.service # "none"
  BY DEF Sync
<1> QED BY <1>1, SyncIs

LEMMA OkayOnly ==
    /\ <<Msg("OKAY")>> # <<>> /\ Head(<<Msg("OKAY")>>) = Msg("OKAY") /\ Tail(<<Msg("OKAY")>>) = <<>>
    /\ Msg("OKAY") \in Packets /\ Msg("OKAY").cmd = "OKAY"
    /\ <<Msg("OKAY")>> \o <<>> = <<Msg("OKAY")>>
<1>1. Msg("OKAY") \in Packets /\ Msg("OKAY").cmd = "OKAY"
  BY Msgs, MsgIs
<1>2. <<Msg("OKAY")>> \in Seq(Packets)
  BY <1>1, OneOf
<1>3. <<Msg("OKAY")>> \o <<>> = <<Msg("OKAY")>>
  BY <1>2
<1> QED BY <1>1, <1>3, OneOf

\* The request on its way is the only packet.
LEMMA RequestOnly ==
    ASSUME NEW id \in Ids, NEW q, q = <<Request(id)>>
    PROVE  /\ q # <<>> /\ Head(q) = Request(id) /\ Tail(q) = <<>> /\ Head(q).cmd = "WRTE"
           /\ Head(q).data[1][1] = id
<1>1. Request(id) \in Packets /\ Request(id).cmd = "WRTE" /\ Request(id).data[1][1] = id
  BY RequestIs
<1> HIDE DEF Request
<1> QED BY <1>1, OneOf

\* A step of the device between STAT and its answer.
LEMMA StatStep ==
    ASSUME WholeInd, Device, SyncFlow, op \in Sync, NEW w, StatFlow(w)
    PROVE  (\E x \in Loads(toHost) : StatFlow(x))'
<1>0. /\ toDev \in Seq(Packets) /\ toHost \in Seq(Packets) /\ dev.out \in Seq(Elements)
      /\ UNCHANGED <<packet, op>>
  BY Typed, HostStays DEF WholeInd
<1>1. dev.service = op /\ dev.reading = -1 /\ dev.sent = <<>> /\ Bears(toHost, w)
  BY DEF StatFlow
<1>2. CASE /\ toDev = <<Request("STAT")>> /\ dev.busy = FALSE /\ w = <<>> /\ dev.out = <<>>
           /\ Lacks(packet, "STAT")
  <2>1. /\ toDev # <<>> /\ Tail(toDev) = <<>> /\ Head(toDev).cmd = "WRTE"
        /\ Head(toDev).data[1][1] = "STAT"
    BY <1>2, RequestOnly DEF Ids
  <2>2. DevSync
    BY <1>1, <1>2, <2>1, Acts
  <2>3. Serves("STAT", Head(toDev).data)
    BY <1>1, <2>1, <2>2, SyncServes
  <2>4. /\ dev'.busy = FALSE /\ dev'.sent = <<>> /\ dev'.service = dev.service
        /\ dev'.reading = -1 /\ \E mode \in {0, 1} : dev'.out = dev.out \o <<Header("STAT", mode)>>
    BY <1>1, <1>2, <2>3 DEF Serves, Asks
  <2>5. toDev' = <<>> /\ toHost' = toHost \o <<Msg("OKAY")>>
    BY <1>1, <2>1, <2>2, <2>4, SyncLink
  <2>6. IsStat(dev'.out)
    <3>1. PICK mode \in {0, 1} : dev'.out = <<>> \o <<Header("STAT", mode)>>
      BY <1>2, <2>4
    <3>2. mode \in Nat
      OBVIOUS
    <3> DEFINE p == Header("STAT", mode)
    <3>3. p \in Elements /\ p[1] = "STAT"
      BY <3>2, HeaderType DEF Ids, Header
    <3> HIDE DEF p
    <3>4. <<>> \o <<p>> = <<p>> /\ Len(<<p>>) = 1 /\ <<p>>[1] = p
      BY <3>3, OneOf
    <3> QED BY <3>1, <3>3, <3>4 DEF IsStat, p
  <2>7. Bears(toHost', <<>>)
    BY <1>0, <1>1, <1>2, <2>5, OkayOnly, BearsMore
  <2>8. StatFlow(<<>>)'
    BY <1>0, <1>1, <1>2, <2>4, <2>5, <2>6, <2>7 DEF StatFlow
  <2>9. <<>> \in Loads(toHost')
    BY DEF Loads
  <2> QED BY <2>8, <2>9
<1>3. CASE /\ toDev = <<>> /\ dev.busy = FALSE /\ w = <<>> /\ IsStat(dev.out)
           /\ Lacks(packet, "STAT")
  <2>1. DevWrite
    BY <1>1, <1>3, Acts
  <2>2. PICK n \in 1 .. Len(dev.out) :
           /\ toHost' = toHost \o <<Packet("WRTE", SubSeq(dev.out, 1, n))>>
           /\ Packet("WRTE", SubSeq(dev.out, 1, n)) \in Packets
           /\ dev'.out = SubSeq(dev.out, n + 1, Len(dev.out))
    BY <2>1, WriteIs
  <2>3. /\ toDev' = toDev /\ dev'.busy = TRUE /\ dev'.service = dev.service
        /\ dev'.reading = dev.reading /\ dev'.sent = dev.sent
    BY <2>1, WriteIs, WriteKeeps
  <2> PICK o : o = dev.out
    OBVIOUS
  <2>4. o \in Seq(Elements) /\ Len(o) = 1 /\ n = 1 /\ o[1][1] = "STAT"
    BY <1>0, <1>3 DEF IsStat
  <2> DEFINE v == SubSeq(o, 1, 1)
             p == Packet("WRTE", v)
  <2>5. v \in Seq(Elements) /\ Len(v) = 1 /\ v[1] = o[1] /\ SubSeq(o, 1 + 1, 1) = <<>>
    BY <2>4
  <2>6. IsStat(v)
    <3> HIDE DEF v
    <3> QED BY <2>4, <2>5 DEF IsStat
  <2>7. p \in Packets /\ p.cmd = "WRTE" /\ p.data = v /\ toHost' = toHost \o <<p>> /\ dev'.out = <<>>
    BY <2>2, <2>4, <2>5 DEF Packet
  <2> HIDE DEF p, v
  <2>8. Bears(toHost', v)
    BY <1>0, <1>1, <1>3, <2>7, BearsMore
  <2>9. StatFlow(v)'
    BY <1>0, <1>1, <1>3, <2>3, <2>6, <2>7, <2>8 DEF StatFlow
  <2>10. v \in Loads(toHost')
    <3>1. toHost' \in Seq(Packets)
      BY <1>0, <2>7, AppendOne
    <3> QED BY <2>8, <3>1, BearsWhat
  <2> QED BY <2>9, <2>10
<1>4. CASE toDev = <<>> /\ dev.busy = TRUE
  BY <1>1, <1>4, Acts
<1>5. CASE Owed(<<>>) /\ w = <<>> /\ dev.out = <<>> /\ IsStat(packet)
  <2>1. toDev = <<Msg("OKAY")>>
    BY <1>1, <1>5, Acts, OkayOnly DEF Owed
  <2>2. DevOkay
    BY <1>1, <1>5, <2>1, Acts, OkayOnly
  <2>3. /\ toDev' = <<>> /\ toHost' = toHost /\ dev'.busy = FALSE /\ dev'.service = dev.service
        /\ dev'.out = dev.out /\ dev'.reading = dev.reading /\ dev'.sent = dev.sent
    BY <2>1, <2>2, OkayIs, OkayKeeps, OkayOnly
  <2>4. Owed(<<>>)'
    BY <2>3 DEF Owed
  <2>5. StatFlow(<<>>)'
    BY <1>0, <1>1, <1>5, <2>3, <2>4 DEF StatFlow
  <2>6. <<>> \in Loads(toHost')
    BY DEF Loads
  <2> QED BY <2>5, <2>6
<1> QED BY <1>2, <1>3, <1>4, <1>5 DEF StatFlow


LEMMA PartsJoin ==
    ASSUME NEW s \in Seq(Elements), NEW n \in 1 .. Len(s)
    PROVE  /\ SubSeq(s, 1, n) \in Seq(Elements) /\ SubSeq(s, 1, n) # <<>>
           /\ SubSeq(s, 1, n) \o SubSeq(s, n + 1, Len(s)) = s
<1>0. Len(s) \in Nat /\ n \in Nat /\ n >= 1 /\ n <= Len(s)
  OBVIOUS
<1> DEFINE a == SubSeq(s, 1, n)
           b == SubSeq(s, n + 1, Len(s))
           u == a \o b
<1>1. a \in Seq(Elements) /\ Len(a) = n /\ \A i \in 1 .. n : a[i] = s[i]
  BY <1>0
<1>2. /\ b \in Seq(Elements) /\ Len(b) = Len(s) - n
      /\ \A i \in 1 .. Len(s) - n : b[i] = s[n + i]
  BY <1>0, DropOf
<1> HIDE DEF a, b
<1>3. /\ u \in Seq(Elements) /\ Len(u) = n + (Len(s) - n)
      /\ \A i \in 1 .. n : u[i] = a[i]
      /\ \A i \in n + 1 .. n + (Len(s) - n) : u[i] = b[i - n]
  <2>1. /\ u \in Seq(Elements) /\ Len(u) = Len(a) + Len(b)
        /\ \A i \in 1 .. Len(a) : u[i] = a[i]
        /\ \A i \in Len(a) + 1 .. Len(a) + Len(b) : u[i] = b[i - Len(a)]
    <3>1. a \in Seq(Elements) /\ b \in Seq(Elements)
      BY <1>1, <1>2
    <3> QED BY <3>1, JoinOf
  <2> HIDE DEF u
  <2> QED BY <1>1, <1>2, <2>1
<1> HIDE DEF u
<1>4. Len(u) = Len(s)
  BY <1>0, <1>3
<1>5. ASSUME NEW i \in 1 .. Len(u) PROVE u[i] = s[i]
  <2>1. CASE i \in 1 .. n
    BY <1>1, <1>3, <2>1
  <2>2. CASE i \notin 1 .. n
    <3>1. i \in n + 1 .. n + (Len(s) - n) /\ i - n \in 1 .. Len(s) - n /\ n + (i - n) = i
      BY <1>0, <1>4, <2>2
    <3> QED BY <1>2, <1>3, <3>1
  <2> QED BY <2>1, <2>2
<1>6. u = s
  BY <1>3, <1>4, <1>5, SameSeq
<1>7. a # <<>>
  BY <1>0, <1>1
<1> QED BY <1>1, <1>6, <1>7 DEF a, b, u

\* The stream of a pull goes on: x is under way, and s is what there is to read.
LEMMA PullGoesOn ==
    ASSUME UNCHANGED <<pc, need, local, call>>, dev'.service = "pull",
           toHost' \in Seq(Packets), NEW x, NEW s, NEW z,
           Bears(toHost', x), Window(x)', Ahead(x)' = s, Complete(s, Due),
           Runs(s, Len(local), Due, call, z),
           dev'.reading # -1 => dev'.reading \in Nat /\ z = dev'.reading
    PROVE  (\E y \in Loads(toHost) : PullFlow(y))'
<1>1. Due' = Due
  BY DEF Due
<1>2. PICK c \in Tallies(s) : Chain(s, c, Len(local), Due, call) /\ c[Len(s)] = z
  BY DEF Runs
<1>3. Follows(s, c)'
  BY <1>1, <1>2 DEF Follows
<1>4. x \in Loads(toHost')
  BY BearsWhat
<1>5. Complete(s, Due')
  BY <1>1
<1>6. PullFlow(x)'
  BY <1>2, <1>3, <1>5 DEF PullFlow
<1> QED BY <1>4, <1>6

\* A step of the device before RECV was read.
LEMMA RecvStep ==
    ASSUME WholeInd, Device, SyncFlow, dev.service = "pull", Bears(toHost, <<>>),
           Owed(<<Request("RECV")>>), dev.out = <<>>, dev.reading = -1,
           packet = <<>>, local = <<>>, pc = "header"
    PROVE  (\E x \in Loads(toHost) : PullFlow(x))'
<1>0. /\ toDev \in Seq(Packets) /\ toHost \in Seq(Packets)
      /\ UNCHANGED <<pc, packet, need, local, call>>
  BY Typed, HostStays DEF WholeInd
<1>1. <<>> \in Loads(toHost')
  BY DEF Loads
<1> DEFINE q == <<Request("RECV")>>
<1>2. Request("RECV") \in Packets /\ q \in Seq(Packets)
  <2>1. Request("RECV") \in Packets
    BY RequestIs DEF Ids
  <2> QED BY <2>1, OneOf
<1>3. /\ q # <<>> /\ Head(q) = Request("RECV") /\ Tail(q) = <<>> /\ Head(q).cmd = "WRTE"
      /\ Head(q).data[1][1] = "RECV"
  BY RequestOnly DEF Ids
<1> HIDE DEF q
<1>4. CASE dev.busy = TRUE /\ toDev = <<Msg("OKAY")>> \o q
  <2>1. Head(toDev) = Msg("OKAY") /\ Tail(toDev) = q /\ toDev # <<>>
    <3> DEFINE p == Msg("OKAY")
               r == <<p>> \o q
    <3>1. <<p>> \in Seq(Packets) /\ Len(<<p>>) = 1 /\ <<p>>[1] = p
      BY OkayOnly, OneOf
    <3>2. Len(q) = 1
      BY <1>2, <1>3, LastOf
    <3>3. q = <<q[1]>> /\ q[1] \in Packets /\ Head(q) = q[1]
      BY <1>2, <3>2, LengthOne
    <3> HIDE DEF p
    <3>4. <<p>> \o <<q[1]>> # <<>> /\ Head(<<p>> \o <<q[1]>>) = Head(<<p>>)
          /\ Tail(<<p>> \o <<q[1]>>) = <<q[1]>>
      BY <3>1, <3>3, TwoOf
    <3>5. Head(<<p>>) = p
      BY <3>1, OkayOnly DEF p
    <3> QED BY <1>4, <3>3, <3>4, <3>5 DEF p
  <2>2. DevOkay
    BY <1>4, <2>1, Acts, OkayOnly
  <2>3. /\ toDev' = q /\ toHost' = toHost /\ dev'.busy = FALSE /\ dev'.service = dev.service
        /\ dev'.out = dev.out /\ dev'.reading = dev.reading
    BY <2>1, <2>2, OkayIs
  <2>4. Owed(<<Request("RECV")>>)'
    BY <2>3 DEF Owed, q
  <2>5. PullFlow(<<>>)'
    BY <1>0, <2>3, <2>4 DEF PullFlow
  <2> QED BY <1>1, <2>5
<1>5. CASE dev.busy = FALSE /\ toDev = q
  <2>1. DevSync
    BY <1>3, <1>5, Acts
  <2>2. dev.service \in Sync
    BY DEF Sync
  <2>3. Serves("RECV", Head(toDev).data)
    BY <1>3, <1>5, <2>1, <2>2, SyncServes
  <2>4. dev'.busy = FALSE /\ dev'.service = dev.service /\ dev'.reading = 0 /\ dev'.out = <<>>
    BY <1>5, <2>3 DEF Serves, Asks
  <2>5. toDev' = <<>> /\ toHost' = toHost \o <<Msg("OKAY")>>
    BY <1>3, <1>5, <2>1, <2>2, <2>4, SyncLink
  <2>6. Bears(toHost', <<>>) /\ toHost' \in Seq(Packets)
    <3>1. Bears(toHost', <<>>)
      BY <1>0, <2>5, OkayOnly, BearsMore
    <3>2. toHost' \in Seq(Packets)
      BY <1>0, <2>5, OkayOnly, AppendOne
    <3> QED BY <3>1, <3>2
  <2>7. Window(<<>>)'
    BY <2>4, <2>5 DEF Window, Owed
  <2>8. Ahead(<<>>)' = <<>>
    <3>1. <<>> \in Seq(Elements) /\ <<>> \o <<>> = <<>>
      OBVIOUS
    <3> QED BY <1>0, <2>4, <3>1 DEF Ahead
  <2>9. Len(local) = 0 /\ Due = 0
    BY DEF Due
  <2>10. Complete(<<>>, 0) /\ Runs(<<>>, 0, 0, call, 0)
    <3>1. <<>> \in Seq(Elements) /\ Lacks(<<>>, "DATA") /\ 0 \in Nat
      BY LacksNone
    <3> QED BY <3>1, ChainFlat DEF Runs
  <2> QED BY <1>0, <2>4, <2>6, <2>7, <2>8, <2>9, <2>10, PullGoesOn
<1> QED BY <1>4, <1>5 DEF Owed, q


\* A step of the device after RECV was read.
LEMMA PullStep ==
    ASSUME WholeInd, Device, SyncFlow, NEW w, PullFlow(w)
    PROVE  (\E x \in Loads(toHost) : PullFlow(x))'
<1>0. /\ toDev \in Seq(Packets) /\ toHost \in Seq(Packets) /\ dev.out \in Seq(Elements)
      /\ packet \in Seq(Elements) /\ local \in Seq(Elements) /\ need \in Nat
      /\ UNCHANGED <<pc, packet, need, local, call>>
  BY Typed, Kinds, HostStays DEF WholeInd
<1>1. dev.service = "pull" /\ Bears(toHost, w) /\ w \in Seq(Elements)
  BY <1>0, BearsWhat DEF PullFlow
<1>2. CASE /\ Owed(<<Request("RECV")>>) /\ w = <<>> /\ dev.out = <<>> /\ dev.reading = -1
           /\ packet = <<>> /\ local = <<>> /\ pc = "header"
  BY <1>1, <1>2, RecvStep
<1>3. CASE /\ Window(w) /\ Complete(Ahead(w), Due)
           /\ \E c \in Tallies(Ahead(w)) :
                 /\ Follows(Ahead(w), c)
                 /\ dev.reading # -1 => dev.reading \in Nat /\ c[Len(Ahead(w))] = dev.reading
  <2> PICK s : s = Ahead(w)
    OBVIOUS
  <2> PICK o : o = dev.out
    OBVIOUS
  <2>1. s \in Seq(Elements) /\ w \o o \in Seq(Elements) /\ s = packet \o (w \o o)
    <3>1. w \o o \in Seq(Elements)
      BY <1>0, <1>1, JoinOf
    <3> QED BY <1>0, <3>1, JoinOf DEF Ahead
  <2>2. Due \in Nat
    BY <1>0 DEF Due
  <2>3. PICK z \in Nat : /\ Runs(s, Len(local), Due, call, z)
                         /\ dev.reading # -1 => dev.reading \in Nat /\ z = dev.reading
    <3>1. PICK c \in Tallies(s) :
             /\ Chain(s, c, Len(local), Due, call)
             /\ dev.reading # -1 => dev.reading \in Nat /\ c[Len(s)] = dev.reading
      BY <1>3 DEF Follows
    <3>2. c[Len(s)] \in Nat
      <4>1. Len(s) \in Nat
        BY <2>1
      <4>2. Len(s) \in 0 .. Len(s)
        BY <4>1
      <4> QED BY <4>2 DEF Tallies
    <3> QED BY <3>1, <3>2 DEF Runs
  <2>4. CASE DevOkay /\ toDev # <<>> /\ Head(toDev).cmd = "OKAY"
    <3>1. toDev = <<Msg("OKAY")>> /\ w = <<>>
      BY <1>3, <2>4, OkayOnly DEF Window, Owed
    <3>2. /\ toDev' = <<>> /\ toHost' = toHost /\ dev'.busy = FALSE /\ dev'.service = dev.service
          /\ dev'.out = dev.out /\ dev'.reading = dev.reading
      BY <2>4, <3>1, OkayIs, OkayOnly
    <3>3. Window(w)'
      BY <3>1, <3>2 DEF Window, Owed
    <3>4. Ahead(w)' = s
      BY <1>0, <3>2 DEF Ahead
    <3> QED BY <1>0, <1>1, <1>3, <2>3, <3>2, <3>3, <3>4, PullGoesOn
  <2>5. CASE toDev # <<>> /\ Head(toDev).cmd \in {"WRTE", "CLSE"}
    BY <1>3, <2>5, OkayOnly DEF Window, Owed
  <2>6. CASE DevRead /\ dev.reading # -1
    <3>1. /\ toDev' = toDev /\ toHost' = toHost /\ dev'.busy = dev.busy
          /\ dev'.service = dev.service
      BY <2>6, ReadServes
    <3>2. PICK t, y : Prepares(t, y)
      BY <2>6, ReadServes
    <3>3. /\ t \in Seq(Elements) /\ y \in Nat /\ Extends(t, z, call, y)
          /\ dev'.out = o \o t /\ dev'.reading \in {-1, y}
      BY <2>3, <2>6, <3>2 DEF Prepares, Extends
    <3>4. Window(w)'
      BY <1>3, <3>1 DEF Window, Owed
    <3>5. Ahead(w)' = s \o t
      <4>1. w \o (o \o t) = (w \o o) \o t
        BY <1>0, <1>1, <3>3, JoinAssoc
      <4>2. packet \o ((w \o o) \o t) = (packet \o (w \o o)) \o t
        BY <1>0, <2>1, <3>3, JoinAssoc
      <4> QED BY <1>0, <2>1, <3>3, <4>1, <4>2 DEF Ahead
    <3>6. Complete(s \o t, Due) /\ Runs(s \o t, Len(local), Due, call, y)
      BY <1>3, <2>1, <2>2, <2>3, <3>3, RunsJoin
    <3>7. dev'.reading # -1 => dev'.reading \in Nat /\ y = dev'.reading
      BY <3>3
    <3> PICK u : u = s \o t
      OBVIOUS
    <3> QED BY <1>0, <1>1, <3>1, <3>4, <3>5, <3>6, <3>7, PullGoesOn
  <2>7. CASE DevWrite /\ dev.busy = FALSE /\ dev.out # <<>>
    <3>1. w = <<>> /\ toDev = <<>>
      BY <1>3, <2>7 DEF Window, Owed
    <3>2. PICK n \in 1 .. Len(dev.out) :
             /\ toHost' = toHost \o <<Packet("WRTE", SubSeq(dev.out, 1, n))>>
             /\ Packet("WRTE", SubSeq(dev.out, 1, n)) \in Packets
             /\ dev'.out = SubSeq(dev.out, n + 1, Len(dev.out))
      BY <2>7, WriteIs
    <3>3. /\ toDev' = toDev /\ dev'.busy = TRUE /\ dev'.service = dev.service
          /\ dev'.reading = dev.reading
      BY <2>7, WriteIs
    <3> PICK v : v = SubSeq(dev.out, 1, n)
      OBVIOUS
    <3> DEFINE p == Packet("WRTE", v)
    <3>4. v \in Seq(Elements) /\ v # <<>> /\ v \o dev'.out = o
      BY <1>0, <3>2, PartsJoin
    <3>5. p \in Packets /\ p.cmd = "WRTE" /\ p.data = v /\ toHost' = toHost \o <<p>>
      BY <3>2 DEF Packet
    <3> HIDE DEF p
    <3>6. Bears(toHost', v)
      BY <1>0, <1>1, <3>1, <3>5, BearsMore
    <3>7. toHost' \in Seq(Packets)
      BY <1>0, <3>5, AppendOne
    <3>8. Window(v)'
      BY <3>1, <3>3, <3>4 DEF Window
    <3>9. Ahead(v)' = s
      <4>1. <<>> \o o = o
        BY <1>0, JoinEmpty
      <4> QED BY <1>0, <2>1, <3>1, <3>4, <4>1 DEF Ahead
    <3> QED BY <1>0, <1>1, <1>3, <2>3, <3>3, <3>6, <3>7, <3>8, <3>9, PullGoesOn
  <2> QED BY <2>4, <2>5, <2>6, <2>7, Acts
<1> QED BY <1>2, <1>3 DEF PullFlow


\* The device reads the next packet of a push.
LEMMA LineTail ==
    ASSUME NEW q \in Seq(Packets), NEW ps \in Seq(Packets), NEW j \in 0 .. Len(ps), Line(q, ps, j)
    PROVE  /\ q # <<>>
           /\ \/ j = 0 /\ Head(q) \in {Msg("OKAY"), Request("SEND")} /\ Line(Tail(q), ps, 0)
              \/ j + 1 \in 1 .. Len(ps) /\ Head(q) = ps[j + 1] /\ Line(Tail(q), ps, j + 1)
              \/ j = Len(ps) /\ Head(q) = Request("DONE") /\ Tail(q) = <<>>
<1> DEFINE a == Len(q)
           b == Len(ps)
           h == a - 1 - (b - j)
           t == Tail(q)
<1>1. /\ a \in Nat /\ b \in Nat /\ j \in Nat /\ j <= b /\ h >= 0 /\ (h > 0 => j = 0)
      /\ \A i \in 1 .. h : q[i] \in {Msg("OKAY"), Request("SEND")}
      /\ \A i \in 1 .. b - j : q[h + i] = ps[j + i]
      /\ q[a] = Request("DONE")
  BY DEF Line
<1>2. h \in Nat /\ a = (h + (b - j)) + 1 /\ a >= 1
  BY <1>1
<1>3. q # <<>>
  BY <1>2
<1>4. /\ t \in Seq(Packets) /\ Head(q) = q[1] /\ Len(t) = a - 1
      /\ \A i \in 1 .. a - 1 : t[i] = q[i + 1]
  BY <1>3, TailOf
<1> HIDE DEF h, t
<1>5. CASE h > 0
  <2>1. j = 0 /\ 1 \in 1 .. h
    BY <1>1, <1>2, <1>5
  <2>2. Head(q) \in {Msg("OKAY"), Request("SEND")}
    BY <1>1, <1>4, <2>1
  <2> DEFINE g == Len(t) - 1 - (b - 0)
  <2>3. g = h - 1 /\ g \in Nat
    BY <1>1, <1>2, <1>4, <1>5, <2>1
  <2> HIDE DEF g
  <2> HIDE DEF a, b
  <2>4. ASSUME NEW i \in 1 .. g PROVE t[i] \in {Msg("OKAY"), Request("SEND")}
    <3>1. i \in 1 .. a - 1 /\ i + 1 \in 1 .. h
      BY <1>1, <1>2, <2>3
    <3> QED BY <1>1, <1>4, <3>1
  <2>5. ASSUME NEW i \in 1 .. b - 0 PROVE t[g + i] = ps[0 + i]
    <3>1. g + i \in 1 .. a - 1 /\ (g + i) + 1 = h + i /\ i \in 1 .. b - j /\ 0 + i = j + i
      BY <1>1, <1>2, <2>1, <2>3
    <3> QED BY <1>1, <1>4, <3>1
  <2>6. t[Len(t)] = Request("DONE")
    <3>1. a - 1 \in 1 .. a - 1 /\ (a - 1) + 1 = a
      BY <1>1, <1>2, <1>5
    <3> QED BY <1>1, <1>4, <3>1
  <2>7. g >= 0 /\ (g > 0 => 0 = 0)
    BY <2>3
  <2>8. Line(t, ps, 0)
    BY <2>4, <2>5, <2>6, <2>7 DEF Line, g, b
  <2> QED BY <1>3, <2>1, <2>2, <2>8 DEF t
<1>6. CASE h = 0 /\ j < b
  <2>1. 1 \in 1 .. b - j /\ h + 1 = 1
    BY <1>1, <1>6
  <2>2. Head(q) = ps[j + 1] /\ j + 1 \in 1 .. b
    BY <1>1, <1>4, <1>6, <2>1
  <2> DEFINE k == j + 1
             g == Len(t) - 1 - (b - k)
  <2>3. g = 0 /\ k \in Nat /\ k <= b
    BY <1>1, <1>2, <1>4, <1>6
  <2> HIDE DEF g
  <2> HIDE DEF a, b
  <2>4. ASSUME NEW i \in 1 .. b - k PROVE t[g + i] = ps[k + i]
    <3>1. g + i = i /\ i \in 1 .. a - 1 /\ i + 1 \in 1 .. b - j /\ h + (i + 1) = i + 1 /\ j + (i + 1) = k + i
      BY <1>1, <1>2, <1>6, <2>3
    <3>2. q[h + (i + 1)] = ps[j + (i + 1)]
      BY <1>1, <3>1
    <3> QED BY <1>4, <3>1, <3>2
  <2>5. t[Len(t)] = Request("DONE")
    <3>1. a - 1 \in 1 .. a - 1 /\ (a - 1) + 1 = a
      BY <1>1, <1>2, <1>6
    <3> QED BY <1>1, <1>4, <3>1
  <2>6. g >= 0 /\ ~(g > 0) /\ \A i \in 1 .. g : FALSE
    BY <2>3
  <2>7. Line(t, ps, k)
    BY <2>4, <2>5, <2>6 DEF Line, g, b
  <2> QED BY <1>3, <2>2, <2>7 DEF t, b
<1>7. CASE h = 0 /\ j = b
  <2>1. a = 1
    BY <1>1, <1>2, <1>7
  <2>2. Tail(q) = <<>>
    BY <2>1, LengthOne
  <2> QED BY <1>1, <1>3, <1>4, <1>7, <2>1, <2>2
<1> QED BY <1>1, <1>2, <1>5, <1>6, <1>7


\* A step of the device after it has read DONE.
LEMMA RepliedStep ==
    ASSUME WholeInd, Device, SyncFlow, dev.service = "push", dev.reading = -1, Replied
    PROVE  Replied' /\ dev'.service = "push" /\ dev'.reading = -1
<1>0. /\ toDev \in Seq(Packets) /\ toHost \in Seq(Packets) /\ dev.out \in Seq(Elements)
      /\ UNCHANGED <<packet, call, diskOK>>
  BY Typed, HostStays DEF WholeInd
<1>1. ASSUME dev'.stored = dev.stored PROVE (Stored' <=> Stored) /\ \A s : Honest(s)' <=> Honest(s)
  <2>1. Stored' <=> Stored
    BY <1>0, <1>1 DEF Stored
  <2> QED BY <2>1 DEF Honest
<1>2. toDev # <<>> => Head(toDev).cmd = "OKAY"
  BY <1>0, HeadIs DEF Replied
<1> PICK k : k = packet
  OBVIOUS
<1> PICK o : o = dev.out
  OBVIOUS
<1>3. CASE DevOkay
  <2>1. /\ toDev # <<>> /\ toDev' = Tail(toDev) /\ toHost' = toHost /\ dev'.service = dev.service
        /\ dev'.out = dev.out /\ dev'.reading = dev.reading /\ dev'.stored = dev.stored
    BY <1>3, OkayIs, OkayKeeps
  <2>2. \A s : Honest(s)' <=> Honest(s)
    BY <1>1, <2>1
  <2>3. \A i \in 1 .. Len(toDev') : toDev'[i].cmd = "OKAY"
    BY <1>0, <2>1, TailKeeps DEF Replied
  <2>4. Honest(k)' /\ Honest(o)'
    BY <2>2 DEF Replied
  <2>5. \A i \in 1 .. Len(toHost') : toHost'[i].cmd = "WRTE" => Honest(toHost[i].data)'
    BY <2>1, <2>2 DEF Replied
  <2> QED BY <1>0, <2>1, <2>3, <2>4, <2>5 DEF Replied
<1>4. CASE DevWrite
  <2>1. PICK n \in 1 .. Len(dev.out) :
           /\ toHost' = toHost \o <<Packet("WRTE", SubSeq(dev.out, 1, n))>>
           /\ Packet("WRTE", SubSeq(dev.out, 1, n)) \in Packets
           /\ dev'.out = SubSeq(dev.out, n + 1, Len(dev.out))
    BY <1>4, WriteIs
  <2>2. /\ toDev' = toDev /\ dev'.service = dev.service /\ dev'.reading = dev.reading
        /\ dev'.stored = dev.stored
    BY <1>4, WriteIs, WriteKeeps
  <2>3. (Stored' <=> Stored) /\ \A s : Honest(s)' <=> Honest(s)
    BY <1>1, <2>2
  <2> PICK v : v = SubSeq(o, 1, n)
    OBVIOUS
  <2> PICK u : u = SubSeq(o, n + 1, Len(o))
    OBVIOUS
  <2> DEFINE p == Packet("WRTE", v)
  <2>4. p \in Packets /\ p.cmd = "WRTE" /\ p.data = v /\ toHost' = toHost \o <<p>> /\ dev'.out = u
    BY <2>1 DEF Packet
  <2> HIDE DEF p
  <2>5. Honest(v) /\ Honest(u)
    <3>1. n \in 0 .. Len(o) /\ o \in Seq(Elements)
      BY <1>0
    <3>2. Lacks(o, "OKAY") => Lacks(v, "OKAY") /\ Lacks(u, "OKAY")
      BY <3>1, LacksParts
    <3>3. Honest(o)
      BY DEF Replied
    <3> QED BY <3>2, <3>3 DEF Honest
  <2>6. Honest(v)' /\ Honest(u)' /\ Honest(k)'
    BY <2>3, <2>5 DEF Replied
  <2>7. \A i \in 1 .. Len(toHost') : toHost'[i].cmd = "WRTE" => Honest(toHost'[i].data)
    <3>1. \A i \in 1 .. Len(toHost') :
             (i \in 1 .. Len(toHost) /\ toHost'[i] = toHost[i]) \/ toHost'[i] = p
      BY <1>0, <2>4, AppendOne
    <3> QED BY <2>4, <2>5, <3>1 DEF Replied
  <2>8. \A i \in 1 .. Len(toHost') : toHost'[i].cmd = "WRTE" => Honest(toHost[i].data)'
    BY <2>3, <2>7
  <2> QED BY <1>0, <2>2, <2>4, <2>6, <2>8 DEF Replied
<1> QED BY <1>2, <1>3, <1>4, Acts

\* A step of the device before that.
LEMMA SendingStep ==
    ASSUME WholeInd, Device, SyncFlow, dev.service = "push", dev.reading = -1, packet = <<>>,
           dev.out = <<>>, Bears(toHost, <<>>), NEW n \in 0 .. FileLen,
           NEW j \in 0 .. Len(Pieces(Bytes(call, n), SyncDataMax)), Sending(n, j)
    PROVE  PushFlow'
<1>0. /\ toDev \in Seq(Packets) /\ toHost \in Seq(Packets) /\ call \in Nat
      /\ UNCHANGED <<packet, call, diskOK>> /\ dev.service \in Sync
  BY Typed, HostStays DEF WholeInd, Sync
<1> PICK ps : ps = Pieces(Bytes(call, n), SyncDataMax)
  OBVIOUS
<1>1. n \in Nat
  BY AdbAssumption
<1>2. ps \in Seq(Packets) /\ Len(ps) \in Nat /\ Ends(n, 0) = 0 /\ Ends(n, Len(ps)) = n
  BY <1>0, <1>1, PiecesAre
<1>3. \A k \in 1 .. Len(ps) : Continues(ps[k], call, Ends(n, k - 1), Ends(n, k))
  BY <1>0, <1>1, PiecesAre
<1>4. /\ diskOK = TRUE => n = FileLen
      /\ dev.sent = Bytes(call, Ends(n, j)) /\ Line(toDev, ps, j)
  BY DEF Sending
<1>5. /\ toDev # <<>>
      /\ \/ j = 0 /\ Head(toDev) \in {Msg("OKAY"), Request("SEND")} /\ Line(Tail(toDev), ps, 0)
         \/ j + 1 \in 1 .. Len(ps) /\ Head(toDev) = ps[j + 1] /\ Line(Tail(toDev), ps, j + 1)
         \/ j = Len(ps) /\ Head(toDev) = Request("DONE") /\ Tail(toDev) = <<>>
  BY <1>0, <1>2, <1>4, LineTail
<1>6. ASSUME NEW k \in 0 .. Len(ps), Line(toDev', ps, k), dev'.sent = Bytes(call, Ends(n, k)),
             Bears(toHost', <<>>), dev'.out = <<>>, dev'.service = "push", dev'.reading = -1
      PROVE  PushFlow'
  <2>1. ps = Pieces(Bytes(call', n), SyncDataMax)
    BY <1>0
  <2>2. Sending(n, k)'
    BY <1>0, <1>4, <1>6, <2>1 DEF Sending
  <2>3. (\E m \in 0 .. FileLen :
           \E i \in 0 .. Len(Pieces(Bytes(call, m), SyncDataMax)) : Sending(m, i))'
    BY <1>6, <2>1, <2>2
  <2> QED BY <1>0, <1>6, <2>3 DEF PushFlow, Replied
<1>7. /\ Request("SEND").cmd = "WRTE" /\ Request("SEND").data[1][1] = "SEND"
      /\ Request("DONE").cmd = "WRTE" /\ Request("DONE").data[1][1] = "DONE"
  BY RequestIs DEF Ids
<1>8. toHost' = toHost \o <<Msg("OKAY")>> => Bears(toHost', <<>>)
  BY <1>0, OkayOnly, BearsMore
<1>9. CASE j = 0 /\ Head(toDev) = Msg("OKAY") /\ Line(Tail(toDev), ps, 0)
  <2>1. DevOkay
    BY <1>5, <1>9, Acts, OkayOnly
  <2>2. /\ toDev' = Tail(toDev) /\ toHost' = toHost /\ dev'.service = dev.service
        /\ dev'.out = dev.out /\ dev'.reading = dev.reading /\ dev'.sent = dev.sent
    BY <2>1, OkayIs, OkayKeeps
  <2>3. 0 \in 0 .. Len(ps)
    BY <1>2
  <2> QED BY <1>4, <1>6, <1>9, <2>2, <2>3
<1>10. CASE j = 0 /\ Head(toDev) = Request("SEND") /\ Line(Tail(toDev), ps, 0)
  <2>1. DevSync
    BY <1>5, <1>7, <1>10, Acts
  <2>2. Serves("SEND", Head(toDev).data)
    BY <1>0, <1>7, <1>10, <2>1, SyncServes
  <2>3. /\ dev'.service = dev.service /\ dev'.reading = dev.reading /\ dev'.out = dev.out
        /\ dev'.sent = <<>>
    BY <2>2 DEF Serves, Asks
  <2>4. toDev' = Tail(toDev) /\ toHost' = toHost \o <<Msg("OKAY")>>
    BY <1>0, <2>1, <2>3, SyncLink
  <2>5. Bytes(call, Ends(n, 0)) = <<>>
    <3>1. Bytes(call, 0) \in Seq(Elements) /\ Len(Bytes(call, 0)) = 0
      BY <1>0, BytesType
    <3> QED BY <1>2, <3>1
  <2>6. 0 \in 0 .. Len(ps)
    BY <1>2
  <2> QED BY <1>6, <1>8, <1>10, <2>3, <2>4, <2>5, <2>6
<1>11. CASE j + 1 \in 1 .. Len(ps) /\ Head(toDev) = ps[j + 1] /\ Line(Tail(toDev), ps, j + 1)
  <2> PICK k : k = j + 1
    OBVIOUS
  <2>1. Continues(ps[k], call, Ends(n, k - 1), Ends(n, k)) /\ k - 1 = j
    BY <1>2, <1>3, <1>11
  <2>2. /\ ps[k].cmd = "WRTE" /\ ps[k].data[1][1] = "DATA"
        /\ Bytes(call, Ends(n, j)) \o Tail(ps[k].data) = Bytes(call, Ends(n, k))
    BY <2>1 DEF Continues
  <2>3. DevSync
    BY <1>5, <1>11, <2>2, Acts
  <2>4. Serves("DATA", ps[k].data)
    BY <1>0, <1>11, <2>2, <2>3, SyncServes
  <2>5. /\ dev'.service = dev.service /\ dev'.reading = dev.reading /\ dev'.out = dev.out
        /\ dev'.sent = dev.sent \o Tail(ps[k].data)
    BY <2>4 DEF Serves, Asks
  <2>6. toDev' = Tail(toDev) /\ toHost' = toHost \o <<Msg("OKAY")>>
    BY <1>0, <2>3, <2>5, SyncLink
  <2>7. k \in 0 .. Len(ps)
    BY <1>2, <1>11
  <2> QED BY <1>4, <1>6, <1>8, <1>11, <2>2, <2>5, <2>6, <2>7
<1>12. CASE j = Len(ps) /\ Head(toDev) = Request("DONE") /\ Tail(toDev) = <<>>
  <2>1. DevSync
    BY <1>5, <1>7, <1>12, Acts
  <2>2. Serves("DONE", Head(toDev).data)
    BY <1>0, <1>7, <1>12, <2>1, SyncServes
  <2>3. dev'.service = dev.service /\ dev'.reading = dev.reading
    BY <2>2 DEF Serves, Asks
  <2>4. toDev' = <<>> /\ toHost' = toHost \o <<Msg("OKAY")>>
    BY <1>0, <1>12, <2>1, <2>3, SyncLink
  <2>5. \A i \in 1 .. Len(toHost') : toHost'[i].cmd # "WRTE"
    <3>1. toHost' \in Seq(Packets)
      BY <1>0, <2>4, OkayOnly, AppendOne
    <3>2. Bears(toHost', <<>>)
      BY <1>8, <2>4
    <3> QED BY <3>1, <3>2, BearsWhat
  <2>6. CASE dev'.stored = dev.sent
    <3>1. Stored'
      BY <1>0, <1>2, <1>4, <1>12, <2>6 DEF Stored
    <3>2. Honest(packet)' /\ Honest(dev.out)'
      BY <3>1 DEF Honest
    <3> QED BY <2>3, <2>4, <2>5, <3>2 DEF PushFlow, Replied
  <2>7. CASE dev'.out = dev.out \o <<Header("FAIL", 1), Header("words", 0)>>
    <3> DEFINE p == Header("FAIL", 1)
               q == Header("words", 0)
               t == <<p, q>>
    <3>1. p \in Elements /\ p[1] = "FAIL" /\ q \in Elements /\ q[1] = "words"
      BY HeaderType DEF Ids, Header
    <3> HIDE DEF p, q
    <3>2. t \in Seq(Elements) /\ Len(t) = 2 /\ t[1] = p /\ t[2] = q
      BY <3>1
    <3>3. dev'.out = t
      BY <2>7, <3>2, JoinEmpty DEF p, q
    <3> HIDE DEF t
    <3>4. \A i \in 1 .. Len(t) : i = 1 \/ i = 2
      BY <3>2
    <3>5. Lacks(dev'.out, "OKAY")
      BY <3>1, <3>2, <3>3, <3>4 DEF Lacks
    <3>6. Lacks(packet', "OKAY")
      BY <1>0, LacksNone
    <3>7. Honest(packet)' /\ Honest(dev.out)'
      BY <3>5, <3>6 DEF Honest
    <3> QED BY <2>3, <2>4, <2>5, <3>7 DEF PushFlow, Replied
  <2> QED BY <2>2, <2>6, <2>7 DEF Serves
<1> QED BY <1>5, <1>9, <1>10, <1>11, <1>12


LEMMA PushStep ==
    ASSUME WholeInd, Device, SyncFlow, PushFlow
    PROVE  PushFlow' /\ (Honest(packet) => Honest(packet)')
<1>1. CASE Replied
  <2>1. dev.service = "push" /\ dev.reading = -1
    BY DEF PushFlow
  <2>2. Replied' /\ dev'.service = "push" /\ dev'.reading = -1
    BY <1>1, <2>1, RepliedStep
  <2>3. Honest(packet)'
    BY <2>2 DEF Replied
  <2> QED BY <2>2, <2>3 DEF PushFlow
<1>2. CASE ~Replied
  <2>1. /\ dev.service = "push" /\ dev.reading = -1 /\ packet = <<>> /\ dev.out = <<>>
        /\ Bears(toHost, <<>>)
    BY <1>2 DEF PushFlow
  <2>2. PICK n \in 0 .. FileLen :
           \E j \in 0 .. Len(Pieces(Bytes(call, n), SyncDataMax)) : Sending(n, j)
    BY <1>2 DEF PushFlow
  <2>3. PICK j \in 0 .. Len(Pieces(Bytes(call, n), SyncDataMax)) : Sending(n, j)
    BY <2>2
  <2>4. PushFlow'
    BY <2>1, <2>3, SendingStep
  <2>5. packet' = <<>> /\ Lacks(packet', "OKAY")
    BY <2>1, HostStays, LacksNone
  <2> QED BY <2>4, <2>5 DEF Honest
<1> QED BY <1>1, <1>2

\* The device adds no STAT.
LEMMA StatlessGoesOn ==
    ASSUME Statless, toDev \in Seq(Packets), Lacks(dev'.out, "STAT"),
           toDev' = toDev \/ (toDev # <<>> /\ toDev' = Tail(toDev)),
           \A i \in 1 .. Len(toHost') :
               \/ \E j \in 1 .. Len(toHost) : toHost'[i] = toHost[j]
               \/ toHost'[i].cmd # "WRTE" \/ Lacks(toHost'[i].data, "STAT")
    PROVE  Statless'
<1>1. \A i \in 1 .. Len(toHost') : toHost'[i].cmd = "WRTE" => Lacks(toHost'[i].data, "STAT")
  BY DEF Statless
<1>2. \A i \in 1 .. Len(toDev') : \E j \in 1 .. Len(toDev) : toDev'[i] = toDev[j]
  <2>1. CASE toDev' = toDev
    BY <2>1
  <2>2. CASE toDev # <<>> /\ toDev' = Tail(toDev)
    BY <2>2, TailKeeps
  <2> QED BY <2>1, <2>2
<1>3. \A i \in 1 .. Len(toDev') : toDev'[i].cmd = "WRTE" => toDev'[i].data[1][1] # "STAT"
  BY <1>2 DEF Statless
<1> QED BY <1>1, <1>3 DEF Statless

\* What is there after the device has answered with p, or with p and r.
LEMMA AnswerIs ==
    ASSUME NEW q \in Seq(Packets), NEW p \in Packets, NEW r \in Packets, NEW u,
           u = q \o <<p>> \/ u = q \o <<p, r>>
    PROVE  \A i \in 1 .. Len(u) : (\E j \in 1 .. Len(q) : u[i] = q[j]) \/ u[i] = p \/ u[i] = r
<1>1. CASE u = q \o <<p>>
  BY <1>1, AppendOne
<1>2. CASE u = q \o <<p, r>>
  <2> DEFINE t == <<p, r>>
             n == Len(q)
  <2>1. t \in Seq(Packets) /\ Len(t) = 2 /\ t[1] = p /\ t[2] = r
    OBVIOUS
  <2> HIDE DEF t
  <2>2. /\ n \in Nat /\ Len(u) = n + 2 /\ \A i \in 1 .. n : u[i] = q[i]
        /\ \A i \in n + 1 .. n + 2 : u[i] = t[i - n]
    BY <1>2, <2>1, JoinOf DEF t
  <2> HIDE DEF n
  <2>3. \A i \in 1 .. Len(u) : \/ i \in 1 .. n
                               \/ i \in n + 1 .. n + 2 /\ (i - n = 1 \/ i - n = 2)
    BY <2>2
  <2>4. \A i \in 1 .. Len(u) : (i \in 1 .. n /\ u[i] = q[i]) \/ u[i] = p \/ u[i] = r
    BY <2>1, <2>2, <2>3
  <2> QED BY <2>4 DEF n
<1> QED BY <1>1, <1>2

LEMMA StatlessStep ==
    ASSUME WholeInd, Device, SyncFlow, Statless
    PROVE  Statless'
<1>0. /\ toDev \in Seq(Packets) /\ toHost \in Seq(Packets) /\ dev.out \in Seq(Elements)
      /\ dev.service \in {"push", "pull", "none"}
  BY Typed DEF WholeInd, SyncFlow
<1>1. Lacks(dev.out, "STAT") /\ Lacks(<<>>, "STAT")
  BY LacksNone DEF Statless
<1>2. /\ Msg("OKAY") \in Packets /\ Msg("OKAY").cmd # "WRTE"
      /\ Msg("CLSE") \in Packets /\ Msg("CLSE").cmd # "WRTE"
  BY Msgs, MsgIs
<1>3. ASSUME NEW t, \/ t = <<Header("OKAY", 0)>>
                    \/ t = <<Header("FAIL", 1), Header("words", 0)>>
      PROVE  Lacks(dev.out \o t, "STAT")
  <2> DEFINE a == Header("OKAY", 0)
             b == Header("FAIL", 1)
             c == Header("words", 0)
  <2>1. /\ a \in Elements /\ b \in Elements /\ c \in Elements
        /\ a[1] # "STAT" /\ b[1] # "STAT" /\ c[1] # "STAT"
    BY HeaderType DEF Ids, Header
  <2>2. t = <<a>> \/ t = <<b, c>>
    BY <1>3
  <2> HIDE DEF a, b, c
  <2>3. t \in Seq(Elements) /\ Lacks(t, "STAT")
    <3>1. CASE t = <<a>>
      <4>1. t \in Seq(Elements) /\ Len(t) = 1 /\ t[1] = a
        BY <2>1, <3>1
      <4>2. \A i \in 1 .. Len(t) : i = 1
        BY <4>1
      <4> QED BY <2>1, <4>1, <4>2 DEF Lacks
    <3>2. CASE t = <<b, c>>
      <4>1. t \in Seq(Elements) /\ Len(t) = 2 /\ t[1] = b /\ t[2] = c
        BY <2>1, <3>2
      <4>2. \A i \in 1 .. Len(t) : i = 1 \/ i = 2
        BY <4>1
      <4> QED BY <2>1, <4>1, <4>2 DEF Lacks
    <3> QED BY <2>2, <3>1, <3>2
  <2> QED BY <1>0, <1>1, <2>3, LacksJoin
<1>4. CASE DevOkay
  BY <1>0, <1>1, <1>4, OkayIs, StatlessGoesOn
<1>5. CASE DevSync /\ dev.service = "none"
  <2>1. toDev # <<>> /\ toDev' = Tail(toDev) /\ dev' = dev /\ toHost' = toHost
    BY <1>5 DEF DevSync, DevTake
  <2> QED BY <1>0, <1>1, <2>1, StatlessGoesOn
<1>6. CASE DevSync /\ dev.service \in Sync /\ Head(toDev).cmd = "WRTE"
  <2>1. toDev # <<>> /\ toDev' = Tail(toDev)
    BY <1>6, SyncIs
  <2>2. toHost' = toHost \o <<Msg("OKAY")>> \/ toHost' = toHost \o <<Msg("OKAY"), Msg("CLSE")>>
    BY <1>6, SyncIs
  <2> PICK x : x = Head(toDev).data[1][1]
    OBVIOUS
  <2>3. Serves(x, Head(toDev).data)
    BY <1>6, SyncServes
  <2>4. x # "STAT"
    BY <1>0, <1>6, <2>1, HeadIs DEF Statless
  <2>5. Lacks(dev'.out, "STAT")
    <3>1. CASE x = "DONE"
      BY <1>3, <2>3, <3>1 DEF Serves
    <3>2. CASE x # "DONE"
      <4>1. dev'.out = dev.out \/ dev'.out = <<>>
        BY <2>3, <2>4, <3>2 DEF Serves, Asks
      <4> QED BY <1>1, <4>1
    <3> QED BY <3>1, <3>2
  <2>6. \A i \in 1 .. Len(toHost') :
           (\E k \in 1 .. Len(toHost) : toHost'[i] = toHost[k]) \/ toHost'[i].cmd # "WRTE"
    BY <1>0, <1>2, <2>2, AnswerIs
  <2> QED BY <1>0, <2>1, <2>5, <2>6, StatlessGoesOn
<1>7. CASE DevRead
  <2>1. toDev' = toDev /\ toHost' = toHost /\ \E t, z : Prepares(t, z)
    BY <1>7, ReadServes
  <2>2. PICK t, z : Prepares(t, z)
    BY <2>1
  <2>3. t \in Seq(Elements) /\ Lacks(t, "STAT") /\ dev'.out = dev.out \o t
    BY <2>2 DEF Prepares, Extends
  <2>4. Lacks(dev'.out, "STAT")
    BY <1>0, <1>1, <2>3, LacksJoin
  <2> QED BY <1>0, <2>1, <2>4, StatlessGoesOn
<1>8. CASE DevWrite
  <2>1. PICK n \in 1 .. Len(dev.out) :
           /\ toHost' = toHost \o <<Packet("WRTE", SubSeq(dev.out, 1, n))>>
           /\ Packet("WRTE", SubSeq(dev.out, 1, n)) \in Packets
           /\ dev'.out = SubSeq(dev.out, n + 1, Len(dev.out))
    BY <1>8, WriteIs
  <2>2. toDev' = toDev
    BY <1>8, WriteIs
  <2> DEFINE v == SubSeq(dev.out, 1, n)
             p == Packet("WRTE", v)
  <2>3. Lacks(v, "STAT") /\ Lacks(dev'.out, "STAT")
    <3>1. n \in 0 .. Len(dev.out)
      BY <1>0
    <3> QED BY <1>0, <1>1, <2>1, <3>1, LacksParts
  <2>4. p \in Packets /\ p.data = v /\ toHost' = toHost \o <<p>>
    BY <2>1 DEF Packet
  <2> HIDE DEF p, v
  <2>5. \A i \in 1 .. Len(toHost') :
           (i \in 1 .. Len(toHost) /\ toHost'[i] = toHost[i]) \/ toHost'[i] = p
    BY <1>0, <2>4, AppendOne
  <2> QED BY <1>0, <2>2, <2>3, <2>4, <2>5, StatlessGoesOn
<1>9. CASE DevClose
  <2>1. toDev # <<>> /\ toDev' = Tail(toDev)
    BY <1>9, CloseIs
  <2>2. CASE toHost' = toHost /\ dev' = dev
    BY <1>0, <1>1, <2>1, <2>2, StatlessGoesOn
  <2>3. CASE toHost' = toHost \o <<Msg("CLSE")>> /\ dev'.out = <<>>
    <3>1. \A i \in 1 .. Len(toHost') :
             (i \in 1 .. Len(toHost) /\ toHost'[i] = toHost[i]) \/ toHost'[i] = Msg("CLSE")
      BY <1>0, <1>2, <2>3, AppendOne
    <3> QED BY <1>0, <1>1, <1>2, <2>1, <2>3, <3>1, StatlessGoesOn
  <2> QED BY <1>9, <2>2, <2>3, CloseIs
<1> QED BY <1>0, <1>4, <1>5, <1>6, <1>7, <1>8, <1>9, Acts DEF Sync


\* A push that was answered with OKAY closes its stream: the file stays what it is.
LEMMA QuitStep ==
    ASSUME WholeInd, Device, SyncFlow, OnlyQuit
    PROVE  OnlyQuit' /\ dev'.stored = dev.stored
<1>0. toDev \in Seq(Packets) /\ dev.service \in {"push", "pull", "none"}
  BY Typed DEF WholeInd, SyncFlow
<1>1. ASSUME toDev' = toDev \/ (toDev # <<>> /\ toDev' = Tail(toDev)) PROVE OnlyQuit'
  <2>1. \A i \in 1 .. Len(toDev') : \E j \in 1 .. Len(toDev) : toDev'[i] = toDev[j]
    <3>1. CASE toDev' = toDev
      BY <3>1
    <3>2. CASE toDev # <<>> /\ toDev' = Tail(toDev)
      BY <1>0, <3>2, TailKeeps
    <3> QED BY <1>1, <3>1, <3>2
  <2> QED BY <2>1 DEF OnlyQuit
<1>2. CASE DevOkay
  BY <1>1, <1>2, OkayIs, OkayKeeps
<1>3. CASE DevSync /\ dev.service = "none"
  <2>1. toDev # <<>> /\ toDev' = Tail(toDev) /\ dev' = dev
    BY <1>3 DEF DevSync, DevTake
  <2> QED BY <1>1, <2>1
<1>4. CASE DevSync /\ dev.service \in Sync /\ Head(toDev).cmd = "WRTE"
  <2>1. toDev # <<>> /\ toDev' = Tail(toDev)
    BY <1>4, SyncIs
  <2>2. Head(toDev).data[1][1] = "QUIT"
    BY <1>0, <1>4, <2>1, HeadIs DEF OnlyQuit
  <2>3. Serves("QUIT", Head(toDev).data)
    BY <1>4, <2>2, SyncServes
  <2>4. dev'.stored = dev.stored
    BY <2>3 DEF Serves
  <2> QED BY <1>1, <2>1, <2>4
<1>5. CASE DevRead
  BY <1>1, <1>5, ReadServes
<1>6. CASE DevWrite
  BY <1>1, <1>6, WriteIs, WriteKeeps
<1>7. CASE DevClose
  BY <1>1, <1>7, CloseIs, CloseKeeps
<1> QED BY <1>0, <1>2, <1>3, <1>4, <1>5, <1>6, <1>7, Acts DEF Sync

\* Between two calls the device stores nothing.
LEMMA RestStores ==
    ASSUME WholeInd, Device, AtRest
    PROVE  dev'.stored = dev.stored
<1>0. toDev \in Seq(Packets)
  BY Typed DEF WholeInd
<1>1. Silent /\ dev.service # "shell"
  BY DEF AtRest
<1>2. toDev # <<>> /\ Quiet(toDev) /\ dev.service = "none"
  BY <1>1, Mute DEF AtRest
<1>3. Head(toDev).cmd \in {"WRTE", "OKAY", "CLSE"}
  BY <1>0, <1>2, QuietTail
<1>4. ~DevRead /\ ~DevExit /\ ~DevWrite
  BY <1>1, WriteIs DEF DevRead, DevExit, Silent
<1>5. ~DevConnect /\ ~DevOpen
  BY <1>3 DEF DevConnect, DevOpen
<1>6. DevSync => dev' = dev
  BY <1>2 DEF DevSync
<1> QED BY <1>4, <1>5, <1>6, OkayKeeps, CloseKeeps DEF Device

\* A stream of the sync protocol begins with nothing.
LEMMA OpenFresh ==
    ASSUME WholeInd, Device, pc = "open", Opening \/ Refused \/ OpenedShell \/ OpenedOther
    PROVE  dev'.service \in Sync => dev'.busy = FALSE /\ dev'.sent = <<>>
<1>1. ~Refused /\ ~OpenedOther
  <2>1. Refused => toDev = <<>> /\ Silent /\ dev.service # "shell"
    BY DEF Refused, NoStream, Silent
  <2>2. OpenedOther => toDev = <<>> /\ Silent /\ dev.service # "shell"
    BY DEF OpenedOther
  <2> QED BY <2>1, <2>2, Mute
<1>2. CASE OpenedShell
  <2>1. OpenedShell'
    BY <1>2, OpenedStep
  <2>2. dev'.service \in {"shell", "none"}
    BY <2>1 DEF OpenedShell, Output, MayWrite, Wrote, Answered, Ended
  <2> QED BY <2>2 DEF Sync
<1>3. CASE Opening
  <2> DEFINE p == Packet("OPEN", <<Header(op, call)>>)
  <2>0. op \in Calls /\ call \in Nat
    BY Typed DEF WholeInd
  <2>1. p \in Packets /\ p.cmd = "OPEN"
    BY <2>0, RequestType DEF Packet, Header, Cmds, Ids
  <2> HIDE DEF p
  <2>2. toDev # <<>> /\ Head(toDev).cmd = "OPEN" /\ dev = NoStream
    BY <1>3, <2>1, OneOf DEF Opening, p
  <2>3. DevOpen
    <3>1. dev.service = "none" /\ Silent
      BY <2>2 DEF NoStream, Silent
    <3>2. ~DevRead /\ ~DevExit /\ ~DevWrite
      BY <3>1, WriteIs DEF DevRead, DevExit, Silent
    <3> QED BY <2>2, <3>2 DEF Device, DevConnect, DevOkay, DevSync, DevClose
  <2>4. dev \in DevType /\ dev.busy = FALSE /\ dev.sent = <<>>
    BY <2>2, Typed DEF WholeInd, NoStream
  <2>5. ASSUME NEW x, NEW k, NEW b, dev' = [dev EXCEPT !.service = x, !.wrote = k, !.out = b]
        PROVE  dev'.busy = dev.busy /\ dev'.sent = dev.sent
    BY <2>4, <2>5 DEF DevType
  <2> DEFINE o == Head(toDev).data[1]
  <2>6. \/ dev' = dev
        \/ \E k \in IF o[1] = "shell" THEN 0 .. MaxOutput ELSE {0} :
              dev' = [dev EXCEPT !.service = o[1], !.wrote = k, !.out = Bytes(o[2], k)]
    BY <2>3 DEF DevOpen
  <2> HIDE DEF o
  <2>7. CASE dev' = dev
    BY <2>4, <2>7
  <2>8. CASE dev' # dev
    <3>1. PICK k : dev' = [dev EXCEPT !.service = o[1], !.wrote = k, !.out = Bytes(o[2], k)]
      BY <2>6, <2>8
    <3> QED BY <2>4, <2>5, <3>1
  <2> QED BY <2>7, <2>8
<1> QED BY <1>1, <1>2, <1>3

LEMMA DeviceOrdered ==
    ASSUME FilesInd, Device
    PROVE  Ordered'
<1>0. /\ WholeInd /\ Stage /\ Course /\ Filed /\ onBus' = TRUE
      /\ UNCHANGED <<pc, op, packet, ret, local, call, need, diskOK>>
  BY HostStays, DeviceFrame DEF FilesInd, Ordered
<1>1. pc \in Streaming => SyncFlow
  BY <1>0 DEF Stage
<1>2. pc' \in Reading \ {"stat"} => Statless'
  BY <1>0, <1>1, StatlessStep DEF Course, Streaming
<1>3. pc' = "open" /\ dev'.service \in Sync => dev'.busy = FALSE /\ dev'.sent = <<>>
  BY <1>0, OpenFresh DEF Stage
<1>4. pc' \notin Sync
  <2>1. pc \in Sync => Fresh /\ op = pc
    BY <1>0 DEF Course, Filed
  <2>2. pc \in Sync => toDev = <<>> /\ Silent /\ dev.service # "shell"
    BY <2>1 DEF Fresh, Sync
  <2> QED BY <1>0, <2>2, Mute
<1>5. pc' = "stat" => (\E w \in Loads(toHost) : StatFlow(w))'
  <2> SUFFICES ASSUME pc = "stat" PROVE (\E w \in Loads(toHost) : StatFlow(w))'
    BY <1>0
  <2>1. op \in Sync /\ SyncFlow
    BY <1>0, <1>1 DEF Filed, Streaming, Reading
  <2>2. PICK w \in Loads(toHost) : StatFlow(w)
    BY <1>0 DEF Course
  <2> QED BY <1>0, <2>1, <2>2, StatStep
<1>6. pc' \in {"header", "data"} => (\E w \in Loads(toHost) : PullFlow(w))'
  <2> SUFFICES ASSUME pc \in {"header", "data"} PROVE (\E w \in Loads(toHost) : PullFlow(w))'
    BY <1>0
  <2>1. SyncFlow
    BY <1>1 DEF Streaming, Reading
  <2>2. PICK w \in Loads(toHost) : PullFlow(w)
    BY <1>0 DEF Course
  <2> QED BY <1>0, <2>1, <2>2, PullStep
<1>7. pc = "status" => PushFlow' /\ Honest(packet)'
  BY <1>0, <1>1, PushStep DEF Course, Filed, Streaming, Reading
<1>8. pc \in {"closing", "waiting"} /\ op = "push" /\ ret = 0 => OnlyQuit' /\ dev'.stored = dev.stored
  BY <1>0, <1>1, QuitStep DEF Course, Streaming
<1>9. pc = "idle" => dev'.stored = dev.stored
  BY <1>0, RestStores DEF Stage
<1>10. Course'
  BY <1>0, <1>2, <1>3, <1>4, <1>5, <1>6, <1>7, <1>8 DEF Course
<1>11. Filed'
  <2>1. pc \in {"idle", "closing", "waiting"} /\ op = "push" /\ ret = 0 => Stored'
    BY <1>0, <1>8, <1>9 DEF Filed, Stored
  <2>2. Due' = Due
    BY <1>0 DEF Due
  <2>3. pc \in {"header", "data"} => op = "pull" /\ (\E c \in Tallies(packet) : Follows(packet, c))'
    BY <1>0, <2>2 DEF Filed, Follows
  <2> QED BY <1>0, <1>4, <1>7, <2>1, <2>3 DEF Filed
<1> QED BY <1>10, <1>11 DEF Ordered

-----------------------------------------------------------------------------
(* The theorem on files. *)

LEMMA FilesInit == Init => FilesInd
<1> SUFFICES ASSUME Init PROVE FilesInd
  OBVIOUS
<1>1. WholeInd
  BY WholeInit
<1>2. pc = "idle" /\ op = "shell" /\ packet = <<>> /\ local = <<>>
  BY DEF Init
<1>3. Course
  BY <1>2 DEF Course, Reading, Sync
<1>4. Filed
  BY <1>2, LacksNone, NumberedNone DEF Filed, Sync
<1> QED BY <1>1, <1>3, <1>4 DEF FilesInd, Ordered

LEMMA FilesNext == FilesInd /\ [Next]_vars /\ memory' = "sound" => FilesInd'
<1> SUFFICES ASSUME FilesInd, [Next]_vars, memory' = "sound" PROVE FilesInd'
  OBVIOUS
<1>1. WholeInd' /\ Filed
  BY WholeNext DEF FilesInd, Ordered
<1>2. CASE Host
  <2>1. Ordered'
    BY <1>2, BeginOrdered, ConnectOrdered, OpenOrdered, ShellOrdered, FillOrdered,
       SyncBeginOrdered, ReadModeOrdered, StatusOrdered, FailMsgOrdered, HeaderOrdered,
       DataOrdered, CloseOrdered DEF Host
  <2> QED BY <1>1, <2>1 DEF FilesInd
<1>3. CASE Device
  BY <1>1, <1>3, DeviceOrdered DEF FilesInd
<1>4. CASE Leave
  <2>1. /\ onBus' = FALSE /\ UNCHANGED <<pc, op, packet, ret, local, call, need, diskOK>>
        /\ dev' = dev
    BY <1>4 DEF Leave, host
  <2>2. Filed'
    BY <1>1, <2>1, FiledSame
  <2> QED BY <1>1, <2>1, <2>2 DEF FilesInd, Ordered
<1>5. CASE UNCHANGED vars
  <2>1. /\ UNCHANGED <<pc, op, packet, ret, local, call, need, diskOK>>
        /\ toDev' = toDev /\ toHost' = toHost /\ onBus' = onBus /\ dev' = dev
    BY <1>5 DEF vars, host
  <2>2. Filed'
    BY <1>1, <2>1, FiledSame
  <2>3. Course' <=> Course
    BY <2>1 DEF Course, Statless, Fresh, Silent, StatFlow, Owed, PullFlow, Window, Ahead, Due,
       Follows, PushFlow, Replied, Sending, Honest, Stored, OnlyQuit
  <2>4. onBus = TRUE => Course
    BY DEF FilesInd, Ordered
  <2> QED BY <1>1, <2>1, <2>2, <2>3, <2>4 DEF FilesInd, Ordered
<1> QED BY <1>2, <1>3, <1>4, <1>5 DEF Next

\* Whatever calls came before on the same adbhost object and whatever they left in
\* packet_buffer, and however the device cuts its answers into packets: a sync_push that returns
\* 0 has stored the whole file if write_data_file could read it, and what sync_recv has written
\* to the local file is at every moment the beginning of the remote file, no byte lost,
\* repeated or of another call.  Unless a shell before ran out of memory, which leaves its
\* stream open, or wrote behind its buffer.
THEOREM FilesInOrderAlways == Spec => []FilesInOrder
<1> DEFINE Inv == AdbInd /\ (memory = "sound" => Calm /\ Ordered)
<1>1. Inv => FilesInOrder
  <2> SUFFICES ASSUME FilesInd PROVE FilesInOrder
    BY DEF FilesInOrder, FilesInd, WholeInd
  <2>1. Filed /\ local \in Seq(Elements) /\ diskOK \in BOOLEAN
    BY Kinds DEF FilesInd, Ordered, WholeInd
  <2>2. local = Bytes(call, Len(local))
    BY <2>1, NumberedIs DEF Filed
  <2>3. op = "push" /\ pc = "idle" /\ ret = 0 /\ diskOK => dev.stored = Bytes(call, FileLen)
    BY <2>1 DEF Filed, Stored
  <2> QED BY <2>2, <2>3 DEF FilesInOrder
<1>2. Init => Inv
  BY FilesInit DEF FilesInd, WholeInd
<1>3. Inv /\ [Next]_vars => Inv'
  BY NextInd, StaysSound, FilesNext DEF FilesInd, WholeInd
<1> QED BY <1>1, <1>2, <1>3, PTL DEF Spec

=============================================================================
