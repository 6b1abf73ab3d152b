---------------------------- MODULE AdbHostProofs ----------------------------
(***************************************************************************)
(* Proofs about AdbHost: for every packet size, and however the device cuts *)
(* its output, packets stay within MAX_PAYLOAD and the memcpy of            *)
(* handle_shell_response stays within its buffer, whether realloc fails,    *)
(* moves the buffer or not.                                                 *)
(***************************************************************************)
EXTENDS AdbHost, TLAPS

\* A call of the sync protocol that is under way has one close_remote left.
OneClose ==
    (pc = "open" /\ op \in Sync) \/ pc \in Sync \cup Reading => closes = 1

AdbInd == AdbTypeOK /\ BufferFits /\ OneClose

-----------------------------------------------------------------------------
(* What the constructors of packets return. *)

\* A sync header is an element.
LEMMA HeaderType ==
    ASSUME NEW id \in Ids, NEW n \in Nat
    PROVE  Header(id, n) \in Elements
BY DEF Header, Elements

\* A message of one header fits in a packet.
LEMMA RequestType ==
    ASSUME NEW cmd \in Cmds, NEW id \in Ids, NEW n \in Nat
    PROVE  Packet(cmd, <<Header(id, n)>>) \in Packets
<1> DEFINE d == <<Header(id, n)>>
<1>0. Header(id, n) \in Elements
  BY HeaderType
<1>1. d \in Seq(Elements) /\ Len(d) = 1
  BY <1>0
<1>2. d \in Content /\ d # <<>>
  BY <1>1, AdbAssumption DEF Content
<1> HIDE DEF d
<1>3. Packet(cmd, d) \in Packets
  BY <1>2 DEF Packet, Packets
<1> QED
  BY <1>3 DEF d

\* A packet without content.
LEMMA MsgType ==
    ASSUME NEW cmd \in Cmds, cmd \notin {"OPEN", "WRTE"}
    PROVE  Msg(cmd) \in Packets
<1>1. <<>> \in Content
  BY AdbAssumption DEF Content
<1> QED
  BY <1>1 DEF Msg, Packet, Packets

\* The messages without content that occur.
LEMMA Msgs ==
    /\ Msg("CNXN") \in Packets /\ Msg("OKAY") \in Packets
    /\ Msg("CLSE") \in Packets /\ Msg("zero") \in Packets
<1> QED
  BY MsgType DEF Cmds

\* The bytes of a file or of an output.
LEMMA BytesType ==
    ASSUME NEW m \in Nat, NEW n \in Nat
    PROVE  Bytes(m, n) \in Seq(Elements) /\ Len(Bytes(m, n)) = n
<1>1. \A k \in 1 .. n : <<"byte", m, k>> \in Elements
  BY DEF Elements
<1> QED
  BY <1>1 DEF Bytes

\* A part of a sequence.
LEMMA PartType ==
    ASSUME NEW S, NEW s \in Seq(S), NEW a \in Nat \ {0}, NEW b \in Int,
           b <= Len(s)
    PROVE  /\ SubSeq(s, a, b) \in Seq(S)
           /\ Len(SubSeq(s, a, b)) = IF a <= b THEN b - a + 1 ELSE 0
<1> QED
  OBVIOUS

\* write_data_file cuts a file into packets that fit.
LEMMA PiecesType ==
    ASSUME NEW data \in Seq(Elements), NEW n \in Nat \ {0}, n < MaxPayload
    PROVE  Pieces(data, n) \in Seq(Packets)
<1> DEFINE len == (Len(data) + n - 1) \div n
           last(k) == IF n * k < Len(data) THEN n * k ELSE Len(data)
           piece(k) == SubSeq(data, n * (k - 1) + 1, last(k))
           wrte(k) == Packet("WRTE", <<Header("DATA", Len(piece(k)))>> \o piece(k))
<1>1. len \in Nat
  <2>1. Len(data) + n - 1 \in Nat
    OBVIOUS
  <2> QED
    BY <2>1
<1>2. ASSUME NEW k \in 1 .. len
      PROVE  wrte(k) \in Packets
  <2> DEFINE a == n * (k - 1)
  <2>1. a \in Nat /\ n * k = a + n
    OBVIOUS
  <2>2. last(k) \in Nat /\ last(k) <= Len(data) /\ last(k) <= a + n
    BY <2>1
  <2> HIDE DEF a, last
  <2>3. piece(k) \in Seq(Elements) /\ Len(piece(k)) \in 0 .. n
    <3>1. a + 1 \in Nat \ {0}
      BY <2>1
    <3>2. /\ SubSeq(data, a + 1, last(k)) \in Seq(Elements)
          /\ Len(SubSeq(data, a + 1, last(k))) =
               IF a + 1 <= last(k) THEN last(k) - (a + 1) + 1 ELSE 0
      BY <3>1, <2>2, PartType
    <3> QED
      BY <3>2, <2>1, <2>2 DEF a
  <2> HIDE DEF piece
  <2>4. Header("DATA", Len(piece(k))) \in Elements
    <3>1. "DATA" \in Ids /\ Len(piece(k)) \in Nat
      BY <2>3 DEF Ids
    <3> QED
      BY <3>1, HeaderType
  <2> DEFINE d == <<Header("DATA", Len(piece(k)))>> \o piece(k)
  <2>5. d \in Seq(Elements) /\ Len(d) = 1 + Len(piece(k))
    BY <2>3, <2>4
  <2>6. d \in Content /\ d # <<>>
    BY <2>3, <2>5, AdbAssumption DEF Content
  <2> HIDE DEF d
  <2>7. Packet("WRTE", d) \in Packets
    BY <2>6 DEF Packet, Packets, Cmds
  <2> QED
    BY <2>7 DEF d
<1> HIDE DEF wrte, len
<1>3. Pieces(data, n) = [k \in 1 .. len |-> wrte(k)]
  BY DEF Pieces, len, wrte, piece, last
<1> QED
  BY <1>1, <1>2, <1>3

-----------------------------------------------------------------------------
(* The link. *)

\* What the host writes stays well formed.
LEMMA SendType ==
    ASSUME toDev \in Seq(Packets), NEW ps \in Seq(Packets), Send(ps)
    PROVE  toDev' \in Seq(Packets)
BY DEF Send

\* What the host reads is a well-formed packet, and so is what is left.
LEMMA ReadType ==
    ASSUME toHost \in Seq(Packets)
    PROVE  Got \in Packets /\ (Taken => toHost' \in Seq(Packets))
<1>1. CASE toHost = <<>>
  BY <1>1, Msgs DEF Got, Taken
<1>2. CASE toHost # <<>>
  BY <1>2 DEF Got, Taken
<1> QED
  BY <1>1, <1>2

\* What the device reads, and what is left of its input.
LEMMA DevTakeType ==
    ASSUME toDev \in Seq(Packets), toDev # <<>>
    PROVE  Head(toDev) \in Packets /\ (DevTake => toDev' \in Seq(Packets))
BY DEF DevTake

\* What the device writes stays well formed.
LEMMA AnswerType ==
    ASSUME toHost \in Seq(Packets), NEW ps \in Seq(Packets), Answer(ps)
    PROVE  toHost' \in Seq(Packets)
BY DEF Answer

\* The fields of a packet and of an element.
LEMMA PacketFields ==
    ASSUME NEW p \in Packets
    PROVE  /\ p.cmd \in Cmds /\ p.data \in Seq(Elements)
           /\ Len(p.data) \in 0 .. MaxPayload
           /\ p.cmd \in {"OPEN", "WRTE"} => p.data # <<>>
BY AdbAssumption DEF Packets, Content

\* The size that a header names.
LEMMA ElementFields ==
    ASSUME NEW e \in Elements
    PROVE  e[1] \in Ids \cup {"byte"} /\ e[2] \in Nat
BY DEF Elements

\* close_remote, with or without sync_quit before it, writes well-formed
\* packets and keeps closes within 0 .. 1.
LEMMA CloseType ==
    ASSUME AdbTypeOK, NEW r \in {-1, 0, 1}, closes > 0,
           CloseRemote(r) \/ Quit(r)
    PROVE  /\ pc' \in Pcs /\ ret' \in {-1, 0, 1} /\ closes' \in 0 .. 1
           /\ toDev' \in Seq(Packets)
<1>1. /\ <<Msg("CLSE")>> \in Seq(Packets)
      /\ <<Packet("WRTE", <<Header("QUIT", 0)>>), Msg("CLSE")>> \in Seq(Packets)
  <2>1. Packet("WRTE", <<Header("QUIT", 0)>>) \in Packets
    BY RequestType DEF Cmds, Ids
  <2> QED
    BY <2>1, Msgs
<1>2. toDev' \in Seq(Packets)
  BY <1>1, SendType DEF CloseRemote, Quit, AdbTypeOK
<1> QED
  BY <1>2 DEF CloseRemote, Quit, AdbTypeOK, Pcs

-----------------------------------------------------------------------------
(* Every step keeps the invariant: the host. *)

LEMMA BeginInd ==
    ASSUME AdbInd, Begin
    PROVE  AdbInd'
<1>1. <<Msg("CNXN")>> \in Seq(Packets)
  BY Msgs
<1>2. toDev' \in Seq(Packets)
  BY <1>1, SendType DEF Begin, AdbInd, AdbTypeOK
<1> QED
  BY <1>2 DEF Begin, AdbInd, AdbTypeOK, BufferFits, OneClose, shellBuffer, Pcs,
              Sync, Reading

LEMMA ConnectInd ==
    ASSUME AdbInd, handle_connect_response
    PROVE  AdbInd'
<1> USE DEF AdbInd
<1>1. toHost' \in Seq(Packets)
  BY ReadType DEF handle_connect_response, AdbTypeOK
<1>2. toDev' \in Seq(Packets)
  <2>1. <<Packet("OPEN", <<Header(op, call)>>)>> \in Seq(Packets)
    BY RequestType DEF Cmds, Ids, AdbTypeOK
  <2> QED
    BY <2>1, SendType DEF handle_connect_response, AdbTypeOK
<1> QED
  BY <1>1, <1>2 DEF handle_connect_response, AdbTypeOK, BufferFits, OneClose,
                    Return, shellBuffer, syncState, Pcs, Sync, Reading

\* What the invariant says of the buffer of handle_shell_response.
BufferOK ==
    /\ response \in Seq(Elements) /\ allocated \in Nat /\ capacity \in Nat
    /\ memory \in Memory /\ BufferFits

LEMMA NewBufferOK ==
    ASSUME AdbInd, NewBuffer
    PROVE  BufferOK'
BY AdbAssumption DEF NewBuffer, AdbInd, AdbTypeOK, BufferOK, BufferFits

LEMMA NoMemoryOK ==
    ASSUME NoMemory
    PROVE  BufferOK'
BY DEF NoMemory, BufferOK, BufferFits, Memory

LEMMA SameBufferOK ==
    ASSUME AdbInd, UNCHANGED shellBuffer
    PROVE  BufferOK'
BY DEF shellBuffer, AdbInd, AdbTypeOK, BufferOK, BufferFits

\* Two sequences joined.
LEMMA JoinedType ==
    ASSUME NEW S, NEW a \in Seq(S), NEW b \in Seq(S)
    PROVE  a \o b \in Seq(S) /\ Len(a \o b) = Len(a) + Len(b)
OBVIOUS

\* The bytes of a packet fit, whatever became of the ones before them.
LEMMA GrowOK ==
    ASSUME AdbInd, NEW r \in Seq(Elements), Len(r) = Len(response),
           NEW data \in Seq(Elements), Len(data) \in 0 .. MaxPayload,
           Grow(Len(data)), response' = r \o data, memory' \in Memory
    PROVE  BufferOK'
<1> DEFINE n == Len(data)
<1>1. response' \in Seq(Elements) /\ Len(response') = Len(response) + n
  <2>1. r \o data \in Seq(Elements) /\ Len(r \o data) = Len(r) + Len(data)
    BY JoinedType
  <2> QED
    BY <2>1
<1>2. n \in Nat /\ n <= MaxPayload /\ Len(response) \in Nat
  BY AdbAssumption DEF AdbInd, AdbTypeOK
<1>3. /\ allocated \in Nat /\ capacity \in Nat
      /\ Len(response) + capacity = allocated
  BY DEF AdbInd, AdbTypeOK, BufferFits
<1>4. Grow(n)
  OBVIOUS
<1> HIDE DEF n
<1>5. CASE capacity < n
  BY <1>1, <1>2, <1>3, <1>4, <1>5, AdbAssumption DEF Grow, BufferFits, BufferOK
<1>6. CASE ~(capacity < n)
  <2>1. allocated' = allocated /\ capacity' = capacity - n
    BY <1>4, <1>6 DEF Grow
  <2>2. capacity' \in Nat
    BY <1>2, <1>3, <1>6, <2>1
  <2>3. Len(response') \in Nat /\ Len(response') + capacity' = allocated'
    BY <1>1, <1>2, <1>3, <2>1
  <2>4. BufferFits'
    BY <2>2, <2>3, <1>3, <2>1 DEF BufferFits
  <2> QED
    BY <1>1, <1>3, <2>1, <2>2, <2>4 DEF BufferOK
<1> QED
  BY <1>5, <1>6

\* The memset behind the old buffer may clear the start of the new one.
LEMMA ZeroedType ==
    ASSUME NEW r \in Seq(Elements), NEW z
    PROVE  LET c == [k \in 1 .. Len(r) |-> IF k <= z THEN Zero ELSE r[k]]
           IN  c \in Seq(Elements) /\ Len(c) = Len(r)
<1>1. Zero \in Elements
  BY DEF Zero, Elements
<1>2. \A k \in 1 .. Len(r) : (IF k <= z THEN Zero ELSE r[k]) \in Elements
  BY <1>1
<1> QED
  BY <1>2

LEMMA OpenInd ==
    ASSUME AdbInd, handle_open_response
    PROVE  AdbInd'
<1> USE DEF AdbInd
<1>1. toHost' \in Seq(Packets)
  BY ReadType DEF handle_open_response, AdbTypeOK
<1>2. toDev' \in Seq(Packets)
  <2>1. <<Msg("CLSE")>> \in Seq(Packets)
    BY Msgs
  <2> QED
    BY <2>1, SendType DEF handle_open_response, AdbTypeOK
<1>3. NewBuffer \/ NoMemory \/ UNCHANGED shellBuffer
  BY DEF handle_open_response, shellBuffer
<1>4. BufferOK'
  BY <1>3, NewBufferOK, NoMemoryOK, SameBufferOK
<1>5. pc' \in Pcs /\ ret' \in {-1, 0, 1} /\ closes' = closes
  BY DEF handle_open_response, AdbTypeOK, NoMemory, Return, Pcs, Calls, Sync
<1>6. OneClose'
  BY <1>5 DEF handle_open_response, AdbTypeOK, OneClose, NoMemory, Return,
              Calls, Sync, Reading
<1> QED
  BY <1>1, <1>2, <1>4, <1>5, <1>6
  DEF handle_open_response, AdbTypeOK, BufferOK, syncState

LEMMA ShellInd ==
    ASSUME AdbInd, handle_shell_response
    PROVE  AdbInd'
<1> USE DEF AdbInd
<1>1. toHost' \in Seq(Packets) /\ Got \in Packets
  BY ReadType DEF handle_shell_response, AdbTypeOK
<1>2. toDev' \in Seq(Packets)
  <2>1. <<Msg("OKAY")>> \in Seq(Packets)
    BY Msgs
  <2>2. UNCHANGED toDev \/ Send(<<Msg("OKAY")>>)
    BY DEF handle_shell_response, Collect, GrowMoved, GrowFailed
  <2> QED
    BY <2>1, <2>2, SendType DEF AdbTypeOK
<1>3. Got.data \in Seq(Elements) /\ Len(Got.data) \in 0 .. MaxPayload
  BY <1>1, PacketFields
<1>4. \/ Collect(Got.data) \/ GrowMoved(Got.data) \/ GrowFailed(Got.data)
      \/ Return(0) /\ UNCHANGED shellBuffer
      \/ UNCHANGED <<pc, ret, shellBuffer>>
  BY DEF handle_shell_response
<1>5. BufferOK'
  <2>1. CASE Collect(Got.data)
    <3>1. memory' \in Memory /\ response \in Seq(Elements)
      BY <2>1 DEF Collect, AdbTypeOK
    <3> QED
      BY <1>3, <2>1, <3>1, GrowOK DEF Collect
  <2>2. CASE GrowMoved(Got.data)
    <3>1. CASE UNCHANGED <<response, allocated, capacity>>
      BY <2>2, <3>1 DEF GrowMoved, AdbTypeOK, BufferOK, BufferFits, Memory
    <3>2. ASSUME NEW z, Grow(Len(Got.data)),
                 response' = [k \in 1 .. Len(response) |->
                                 IF k <= z THEN Zero ELSE response[k]] \o Got.data
          PROVE  BufferOK'
      <4> DEFINE r == [k \in 1 .. Len(response) |->
                          IF k <= z THEN Zero ELSE response[k]]
      <4>1. r \in Seq(Elements) /\ Len(r) = Len(response)
        BY ZeroedType DEF AdbTypeOK
      <4>2. memory' \in Memory
        BY <2>2 DEF GrowMoved, Memory
      <4>3. response' = r \o Got.data
        BY <3>2
      <4> HIDE DEF r
      <4> QED
        BY <1>3, <3>2, <4>1, <4>2, <4>3, GrowOK
    <3> QED
      BY <2>2, <3>1, <3>2 DEF GrowMoved
  <2>3. CASE GrowFailed(Got.data)
    BY <2>3, NoMemoryOK DEF GrowFailed
  <2>4. CASE UNCHANGED shellBuffer
    BY <2>4, SameBufferOK
  <2> QED
    BY <1>4, <2>1, <2>2, <2>3, <2>4 DEF shellBuffer
<1>6. pc' \in {pc, "idle", "crashed"} /\ ret' \in {ret, 0}
  BY <1>4 DEF Collect, GrowMoved, GrowFailed, NoMemory, Return
<1> QED
  BY <1>1, <1>2, <1>5, <1>6 DEF handle_shell_response, AdbTypeOK, BufferOK,
                                OneClose, syncState, Pcs, Sync, Reading

LEMMA LostInd ==
    ASSUME AdbInd, OutputLost
    PROVE  AdbInd'
BY DEF OutputLost, AdbInd, AdbTypeOK, BufferFits, OneClose, Return,
       shellBuffer, syncState, Pcs, Sync, Reading

LEMMA FillInd ==
    ASSUME AdbInd, FillBuffer
    PROVE  AdbInd'
<1> USE DEF AdbInd
<1>1. toHost' \in Seq(Packets) /\ Got \in Packets
  BY ReadType DEF FillBuffer, AdbTypeOK
<1>2. closes > 0
  BY DEF FillBuffer, OneClose
<1>3. CASE Got.cmd = "OKAY"
  BY <1>1, <1>3 DEF FillBuffer, AdbTypeOK, BufferFits, OneClose, shellBuffer
<1>4. CASE Got.cmd = "WRTE"
  <2>1. <<Msg("OKAY")>> \in Seq(Packets)
    BY Msgs
  <2>2. toDev' \in Seq(Packets)
    BY <2>1, <1>4, SendType DEF FillBuffer, AdbTypeOK
  <2>3. packet' \in Content
    BY <1>1, <1>4 DEF FillBuffer, Packets
  <2> QED
    BY <1>1, <1>4, <2>2, <2>3
    DEF FillBuffer, AdbTypeOK, BufferFits, OneClose, shellBuffer
<1>5. CASE Got.cmd \notin {"OKAY", "WRTE"}
  <2>1. CloseRemote(1) /\ UNCHANGED packet
    BY <1>5 DEF FillBuffer
  <2>2. /\ pc' \in Pcs /\ ret' \in {-1, 0, 1} /\ closes' \in 0 .. 1
        /\ toDev' \in Seq(Packets)
    BY <2>1, <1>2, CloseType
  <2> QED
    BY <1>1, <2>1, <2>2 DEF FillBuffer, CloseRemote, AdbTypeOK, BufferFits,
                            OneClose, shellBuffer, Sync, Reading
<1> QED
  BY <1>3, <1>4, <1>5

\* The steps of the sync protocol: the parts of a packet that are read and the
\* rest stay typed.
LEMMA KeepRestType ==
    ASSUME AdbTypeOK, NEW n \in Nat, n <= Len(packet), KeepRest(n)
    PROVE  packet' \in Content
<1>1. packet \in Seq(Elements) /\ Len(packet) <= MaxPayload
  BY DEF AdbTypeOK, Content
<1>2. /\ SubSeq(packet, n + 1, Len(packet)) \in Seq(Elements)
      /\ Len(SubSeq(packet, n + 1, Len(packet))) =
           IF n + 1 <= Len(packet) THEN Len(packet) - (n + 1) + 1 ELSE 0
  BY <1>1, PartType
<1> QED
  BY <1>1, <1>2, AdbAssumption DEF KeepRest, Content

LEMMA SyncBeginInd ==
    ASSUME AdbInd, sync_begin
    PROVE  AdbInd'
<1> USE DEF AdbInd
<1>1. closes > 0
  BY DEF sync_begin, OneClose
<1>2. CASE pc' = "stat" /\ Send(<<Packet("WRTE", <<Header("STAT", 0)>>)>>)
           /\ UNCHANGED <<ret, closes>>
  <2>1. <<Packet("WRTE", <<Header("STAT", 0)>>)>> \in Seq(Packets)
    BY RequestType DEF Cmds, Ids
  <2>2. toDev' \in Seq(Packets)
    BY <1>2, <2>1, SendType DEF AdbTypeOK
  <2> QED
    BY <1>2, <2>2 DEF sync_begin, AdbTypeOK, BufferFits, OneClose, shellBuffer,
                      syncState, Pcs, Reading, Sync
<1>3. CASE Quit(1)
  <2>1. /\ pc' \in Pcs /\ ret' \in {-1, 0, 1} /\ closes' \in 0 .. 1
        /\ toDev' \in Seq(Packets)
    BY <1>1, <1>3, CloseType
  <2> QED
    BY <1>3, <2>1 DEF sync_begin, Quit, AdbTypeOK, BufferFits, OneClose,
                      shellBuffer, syncState, Reading, Sync
<1> QED
  BY <1>2, <1>3 DEF sync_begin

LEMMA ReadModeInd ==
    ASSUME AdbInd, sync_readmode
    PROVE  AdbInd'
<1> USE DEF AdbInd
<1>1. closes = 1
  BY DEF sync_readmode, OneClose, Reading
<1>2. packet' \in Content
  <2>1. 1 <= Len(packet)
    BY DEF sync_readmode, AdbTypeOK, Content
  <2> QED
    BY <2>1, KeepRestType DEF sync_readmode
<1>3. CASE CloseRemote(1) /\ UNCHANGED diskOK
  <2>1. /\ pc' \in Pcs /\ ret' \in {-1, 0, 1} /\ closes' \in 0 .. 1
        /\ toDev' \in Seq(Packets)
    BY <1>1, <1>3, CloseType
  <2> QED
    BY <1>2, <1>3, <2>1 DEF sync_readmode, CloseRemote, AdbTypeOK, BufferFits,
                            OneClose, shellBuffer, Reading, Sync
<1>4. CASE sync_send
  <2>1. PICK n \in 0 .. FileLen :
          /\ diskOK' = (n = FileLen)
          /\ Send(<<Packet("WRTE", <<Header("SEND", 0)>>)>>
                  \o Pieces(Bytes(call, n), SyncDataMax)
                  \o <<Packet("WRTE", <<Header("DONE", 0)>>)>>)
          /\ pc' = "status" /\ UNCHANGED <<ret, closes>>
    BY <1>4 DEF sync_send
  <2>2. Bytes(call, n) \in Seq(Elements)
    BY BytesType, AdbAssumption DEF AdbTypeOK
  <2>3. Pieces(Bytes(call, n), SyncDataMax) \in Seq(Packets)
    <3>1. SyncDataMax \in Nat \ {0} /\ SyncDataMax < MaxPayload
      BY AdbAssumption DEF SyncDataMax
    <3> QED
      BY <2>2, <3>1, PiecesType
  <2>4. /\ <<Packet("WRTE", <<Header("SEND", 0)>>)>> \in Seq(Packets)
        /\ <<Packet("WRTE", <<Header("DONE", 0)>>)>> \in Seq(Packets)
    BY RequestType DEF Cmds, Ids
  <2> DEFINE a == <<Packet("WRTE", <<Header("SEND", 0)>>)>>
             b == Pieces(Bytes(call, n), SyncDataMax)
             c == <<Packet("WRTE", <<Header("DONE", 0)>>)>>
  <2> HIDE DEF a, b, c
  <2>5. a \o b \o c \in Seq(Packets)
    BY <2>3, <2>4 DEF a, b, c
  <2>6. toDev' \in Seq(Packets)
    BY <2>1, <2>5, SendType DEF a, b, c, AdbTypeOK
  <2>7. diskOK' \in BOOLEAN
    BY <2>1
  <2> QED
    BY <1>1, <1>2, <2>1, <2>6, <2>7 DEF sync_readmode, AdbTypeOK, BufferFits,
                                 OneClose, shellBuffer, Reading, Sync, Pcs
<1>5. CASE /\ Send(<<Packet("WRTE", <<Header("RECV", 0)>>)>>)
           /\ pc' = "header" /\ UNCHANGED <<ret, closes, diskOK>>
  <2>1. <<Packet("WRTE", <<Header("RECV", 0)>>)>> \in Seq(Packets)
    BY RequestType DEF Cmds, Ids
  <2>2. toDev' \in Seq(Packets)
    BY <1>5, <2>1, SendType DEF AdbTypeOK
  <2> QED
    BY <1>1, <1>2, <1>5, <2>2 DEF sync_readmode, AdbTypeOK, BufferFits,
                            OneClose, shellBuffer, Reading, Sync, Pcs
<1> QED
  BY <1>3, <1>4, <1>5 DEF sync_readmode

\* A step after the header of a message was read that ends in close_remote,
\* or that goes on without a packet.
LEMMA AfterReadInd ==
    ASSUME AdbInd, closes = 1, packet' \in Content,
           UNCHANGED <<call, op, shellBuffer, diskOK, toHost, onBus, dev>>,
           need' \in Nat, local' \in Seq(Elements),
           \/ \E r \in {0, 1} : CloseRemote(r) \/ Quit(r)
           \/ pc' \in Reading \cup {"crashed"} /\ UNCHANGED <<ret, closes, toDev>>
    PROVE  AdbInd'
<1> USE DEF AdbInd
<1>1. CASE \E r \in {0, 1} : CloseRemote(r) \/ Quit(r)
  <2>1. PICK r \in {0, 1} : CloseRemote(r) \/ Quit(r)
    BY <1>1
  <2>2. /\ pc' \in Pcs /\ ret' \in {-1, 0, 1} /\ closes' \in 0 .. 1
        /\ toDev' \in Seq(Packets)
    BY <2>1, CloseType
  <2> QED
    BY <2>1, <2>2 DEF CloseRemote, Quit, AdbTypeOK, BufferFits, OneClose,
                      shellBuffer, Reading, Sync
<1>2. CASE pc' \in Reading \cup {"crashed"} /\ UNCHANGED <<ret, closes, toDev>>
  BY <1>2 DEF AdbTypeOK, BufferFits, OneClose, shellBuffer, Reading, Sync, Pcs
<1> QED
  BY <1>1, <1>2

\* Reading one element leaves a typed rest, and the element is typed.
LEMMA FirstElement ==
    ASSUME AdbInd, pc \in Reading, packet # <<>>
    PROVE  /\ closes = 1 /\ packet[1] \in Elements
           /\ KeepRest(1) => packet' \in Content
<1>1. AdbTypeOK /\ closes = 1
  BY DEF AdbInd, OneClose
<1>2. packet \in Seq(Elements) /\ 1 <= Len(packet)
  BY <1>1 DEF AdbTypeOK, Content
<1>3. packet[1] \in Elements
  BY <1>2
<1>4. KeepRest(1) => packet' \in Content
  BY <1>1, <1>2, KeepRestType
<1> QED
  BY <1>1, <1>3, <1>4

LEMMA StatusInd ==
    ASSUME AdbInd, sync_send_status \/ ReadFailMsg
    PROVE  AdbInd'
<1>1. /\ closes = 1 /\ packet' \in Content
  BY FirstElement DEF sync_send_status, ReadFailMsg, Reading
<1>2. /\ UNCHANGED <<call, op, shellBuffer, diskOK, toHost, onBus, dev>>
      /\ need' \in Nat /\ local' \in Seq(Elements)
  BY DEF sync_send_status, ReadFailMsg, AdbInd, AdbTypeOK
<1>3. \/ \E r \in {0, 1} : CloseRemote(r) \/ Quit(r)
      \/ pc' \in Reading \cup {"crashed"} /\ UNCHANGED <<ret, closes, toDev>>
  BY DEF sync_send_status, ReadFailMsg, Reading
<1> QED
  BY <1>1, <1>2, <1>3, AfterReadInd

LEMMA HeaderInd ==
    ASSUME AdbInd, sync_recv_header
    PROVE  AdbInd'
<1>1. /\ closes = 1 /\ packet' \in Content /\ packet[1] \in Elements
  BY FirstElement DEF sync_recv_header, Reading
<1>2. packet[1][2] \in Nat
  BY <1>1, ElementFields
<1>3. /\ UNCHANGED <<call, op, shellBuffer, diskOK, toHost, onBus, dev>>
      /\ need' \in Nat /\ local' \in Seq(Elements)
  <2>1. need' = need \/ need' = packet[1][2]
    BY DEF sync_recv_header
  <2>2. local' = local \/ local' = <<>>
    BY DEF sync_recv_header
  <2>3. need' \in Nat
    BY <1>2, <2>1 DEF AdbInd, AdbTypeOK
  <2>4. local' \in Seq(Elements)
    <3>1. <<>> \in Seq(Elements) /\ local \in Seq(Elements)
      BY DEF AdbInd, AdbTypeOK
    <3> QED
      BY <2>2, <3>1
  <2> QED
    BY <2>3, <2>4 DEF sync_recv_header
<1>4. \/ \E r \in {0, 1} : CloseRemote(r) \/ Quit(r)
      \/ pc' \in Reading \cup {"crashed"} /\ UNCHANGED <<ret, closes, toDev>>
  BY DEF sync_recv_header, Reading
<1> QED
  BY <1>1, <1>3, <1>4, AfterReadInd

LEMMA DataInd ==
    ASSUME AdbInd, sync_recv_data
    PROVE  AdbInd'
<1>1. closes = 1 /\ packet \in Seq(Elements) /\ need \in Nat
  BY DEF sync_recv_data, AdbInd, OneClose, AdbTypeOK, Content, Reading
<1>2. /\ UNCHANGED <<call, op, shellBuffer, diskOK, toHost, onBus, dev>>
      /\ need' \in Nat
  BY <1>1 DEF sync_recv_data
<1>3. packet' \in Content
  <2>1. CASE need > Len(packet)
    BY <2>1, AdbAssumption DEF sync_recv_data, Content
  <2>2. CASE ~(need > Len(packet))
    <3>1. need <= Len(packet) /\ KeepRest(need)
      BY <1>1, <2>2 DEF sync_recv_data
    <3> QED
      BY <1>1, <3>1, KeepRestType DEF AdbInd
  <2> QED
    BY <2>1, <2>2
<1>4. local' \in Seq(Elements)
  <2>1. CASE local' = local
    BY <2>1 DEF AdbInd, AdbTypeOK
  <2>2. CASE ~(need > Len(packet)) /\ local' = local \o SubSeq(packet, 1, need)
    <3>1. SubSeq(packet, 1, need) \in Seq(Elements)
      BY <1>1, <2>2, PartType
    <3> QED
      BY <2>2, <3>1 DEF AdbInd, AdbTypeOK
  <2> QED
    BY <2>1, <2>2 DEF sync_recv_data
<1>5. \/ \E r \in {0, 1} : CloseRemote(r) \/ Quit(r)
      \/ pc' \in Reading \cup {"crashed"} /\ UNCHANGED <<ret, closes, toDev>>
  BY DEF sync_recv_data, Reading
<1> QED
  BY <1>1, <1>2, <1>3, <1>4, <1>5, AfterReadInd

LEMMA CloseInd ==
    ASSUME AdbInd, close_remote
    PROVE  AdbInd'
<1> USE DEF AdbInd
<1>1. toHost' \in Seq(Packets)
  BY ReadType DEF close_remote, AdbTypeOK
<1>2. toDev' \in Seq(Packets)
  <2>1. <<Msg("CLSE")>> \in Seq(Packets)
    BY Msgs
  <2> QED
    BY <2>1, SendType DEF close_remote, AfterClose, AdbTypeOK
<1> QED
  BY <1>1, <1>2 DEF close_remote, AfterClose, AdbTypeOK, BufferFits, OneClose,
                    shellBuffer, syncState, Pcs, Sync, Reading

-----------------------------------------------------------------------------
(* Every step keeps the invariant: the device. *)

DevType == [service : Ids \cup {"byte", "none"}, out : Seq(Elements),
            busy : BOOLEAN, reading : Int, wrote : Nat,
            sent : Seq(Elements), stored : Seq(Elements)]

\* Typed changes of the device.
LEMMA DevFields ==
    ASSUME NEW d \in DevType, NEW s \in Ids \cup {"byte", "none"},
           NEW o \in Seq(Elements), NEW r \in Int
    PROVE  /\ [d EXCEPT !.service = s] \in DevType
           /\ [d EXCEPT !.sent = o] \in DevType
           /\ [d EXCEPT !.reading = r] \in DevType
           /\ [d EXCEPT !.reading = r, !.out = o] \in DevType
           /\ [d EXCEPT !.service = s, !.out = o, !.reading = r] \in DevType
<1>1. [d EXCEPT !.service = s] \in DevType
  BY DEF DevType
<1>2. [d EXCEPT !.sent = o] \in DevType
  BY DEF DevType
<1>3. [d EXCEPT !.reading = r] \in DevType
  BY DEF DevType
<1>4. [d EXCEPT !.reading = r, !.out = o] \in DevType
  BY DEF DevType
<1>5. [d EXCEPT !.service = s, !.out = o, !.reading = r] \in DevType
  BY DEF DevType
<1> QED
  BY <1>1, <1>2, <1>3, <1>4, <1>5

\* A step of the device is typed when what it leaves behind is.
LEMMA DevStepInd ==
    ASSUME AdbInd, UNCHANGED <<host, onBus>>, dev' \in DevType,
           toDev' \in Seq(Packets), toHost' \in Seq(Packets)
    PROVE  AdbInd'
BY DEF AdbInd, AdbTypeOK, BufferFits, OneClose, host, DevType

LEMMA DevConnectInd ==
    ASSUME AdbInd, DevConnect
    PROVE  AdbInd'
<1>1. <<Msg("CNXN")>> \in Seq(Packets)
  BY Msgs
<1>2. toHost' \in Seq(Packets) /\ toDev' \in Seq(Packets)
  BY <1>1, AnswerType, DevTakeType DEF DevConnect, AdbInd, AdbTypeOK
<1>3. dev' \in DevType
  BY DEF DevConnect, DevType, NoStream
<1> QED
  BY <1>2, <1>3, DevStepInd DEF DevConnect

LEMMA DevOpenInd ==
    ASSUME AdbInd, DevOpen
    PROVE  AdbInd'
<1> DEFINE open == Head(toDev).data[1]
<1>1. toDev' \in Seq(Packets) /\ open \in Elements
  <2>1. Head(toDev) \in Packets /\ toDev' \in Seq(Packets)
    BY DevTakeType DEF DevOpen, AdbInd, AdbTypeOK
  <2>2. Head(toDev).data \in Seq(Elements) /\ Head(toDev).data # <<>>
    BY <2>1, PacketFields DEF DevOpen
  <2> QED
    BY <2>1, <2>2
<1>2. toHost' \in Seq(Packets)
  <2>1. <<Msg("CLSE")>> \in Seq(Packets) /\ <<Msg("OKAY")>> \in Seq(Packets)
    BY Msgs
  <2> QED
    BY <2>1, AnswerType DEF DevOpen, AdbInd, AdbTypeOK
<1>3. dev' \in DevType
  <2>1. CASE UNCHANGED dev
    BY <2>1 DEF AdbInd, AdbTypeOK, DevType
  <2>2. CASE \E n \in IF open[1] = "shell" THEN 0 .. MaxOutput ELSE {0} :
                dev' = [dev EXCEPT !.service = open[1], !.wrote = n,
                                   !.out = Bytes(open[2], n)]
    <3> DEFINE lengths == IF open[1] = "shell" THEN 0 .. MaxOutput ELSE {0}
    <3>0. \A n \in lengths : n \in Nat
      BY AdbAssumption
    <3> HIDE DEF lengths
    <3>1. PICK n \in lengths :
                dev' = [dev EXCEPT !.service = open[1], !.wrote = n,
                                   !.out = Bytes(open[2], n)]
      BY <2>2 DEF lengths
    <3>4. n \in Nat
      BY <3>0
    <3>2. open[1] \in Ids \cup {"byte"} /\ open[2] \in Nat
      BY <1>1, ElementFields
    <3>3. Bytes(open[2], n) \in Seq(Elements)
      BY <3>2, <3>4, BytesType
    <3> QED
      BY <3>1, <3>2, <3>3, <3>4 DEF AdbInd, AdbTypeOK, DevType
  <2> QED
    BY <2>1, <2>2 DEF DevOpen
<1> QED
  BY <1>1, <1>2, <1>3, DevStepInd DEF DevOpen

LEMMA DevOkayInd ==
    ASSUME AdbInd, DevOkay
    PROVE  AdbInd'
<1>1. toDev' \in Seq(Packets) /\ toHost' \in Seq(Packets)
  BY DevTakeType DEF DevOkay, AdbInd, AdbTypeOK
<1>2. dev' \in DevType
  BY DEF DevOkay, AdbInd, AdbTypeOK, DevType
<1> QED
  BY <1>1, <1>2, DevStepInd DEF DevOkay

LEMMA DevCloseInd ==
    ASSUME AdbInd, DevClose \/ DevExit
    PROVE  AdbInd'
<1>1. <<Msg("CLSE")>> \in Seq(Packets)
  BY Msgs
<1>2. toDev' \in Seq(Packets)
  BY DevTakeType DEF DevClose, DevExit, AdbInd, AdbTypeOK
<1>3. toHost' \in Seq(Packets)
  BY <1>1, AnswerType DEF DevClose, DevExit, AdbInd, AdbTypeOK
<1>4. dev' \in DevType
  <2>1. dev \in DevType
    BY DEF AdbInd, AdbTypeOK, DevType
  <2>2. \/ dev' = dev
        \/ dev' = [dev EXCEPT !.service = "none"]
        \/ dev' = [dev EXCEPT !.service = "none", !.out = <<>>, !.reading = -1]
    BY DEF DevClose, DevExit
  <2>3. <<>> \in Seq(Elements) /\ -1 \in Int /\ "none" \in Ids \cup {"byte", "none"}
    OBVIOUS
  <2>4. /\ [dev EXCEPT !.service = "none"] \in DevType
        /\ [dev EXCEPT !.service = "none", !.out = <<>>, !.reading = -1]
             \in DevType
    BY <2>1, <2>3, DevFields
  <2> QED
    BY <2>1, <2>2, <2>4
<1> QED
  BY <1>2, <1>3, <1>4, DevStepInd DEF DevClose, DevExit

\* Elements appended to what the service has to write.
LEMMA ReplyType ==
    ASSUME AdbInd, NEW es \in Seq(Elements)
    PROVE  [dev EXCEPT !.out = @ \o es] \in DevType
<1>1. dev \in DevType /\ dev.out \o es \in Seq(Elements)
  BY DEF AdbInd, AdbTypeOK, DevType
<1> QED
  BY <1>1 DEF DevType

\* The answers of the sync service.
LEMMA AnswersType ==
    /\ \A mode \in {0, 1} : <<Header("STAT", mode)>> \in Seq(Elements)
    /\ <<Header("OKAY", 0)>> \in Seq(Elements)
    /\ <<Header("DONE", 0)>> \in Seq(Elements)
    /\ <<Header("FAIL", 1), Header("words", 0)>> \in Seq(Elements)
<1>1. {"STAT", "OKAY", "DONE", "FAIL", "words"} \subseteq Ids
  BY DEF Ids
<1>2. /\ \A mode \in {0, 1} : Header("STAT", mode) \in Elements
      /\ Header("OKAY", 0) \in Elements /\ Header("DONE", 0) \in Elements
      /\ Header("FAIL", 1) \in Elements /\ Header("words", 0) \in Elements
  BY <1>1, HeaderType
<1> QED
  BY <1>2

LEMMA DevSyncInd ==
    ASSUME AdbInd, DevSync
    PROVE  AdbInd'
<1> DEFINE data == Head(toDev).data
<1>1. toDev' \in Seq(Packets) /\ data \in Seq(Elements) /\ data # <<>>
  <2>1. Head(toDev) \in Packets /\ toDev' \in Seq(Packets)
    BY DevTakeType DEF DevSync, AdbInd, AdbTypeOK
  <2> QED
    BY <2>1, PacketFields DEF DevSync
<1>2. toHost' \in Seq(Packets)
  <2>1. /\ <<Msg("OKAY"), Msg("CLSE")>> \in Seq(Packets)
        /\ <<Msg("OKAY")>> \in Seq(Packets)
    BY Msgs
  <2>2. \/ UNCHANGED toHost
        \/ Answer(<<Msg("OKAY"), Msg("CLSE")>>) \/ Answer(<<Msg("OKAY")>>)
    BY DEF DevSync
  <2> QED
    BY <2>1, <2>2, AnswerType DEF AdbInd, AdbTypeOK
<1>3. dev \in DevType
  BY DEF AdbInd, AdbTypeOK, DevType
<1>4. \/ dev' = dev
      \/ \E mode \in {0, 1} :
            dev' = [dev EXCEPT !.out = @ \o <<Header("STAT", mode)>>]
      \/ dev' = [dev EXCEPT !.sent = <<>>]
      \/ dev' = [dev EXCEPT !.sent = @ \o Tail(data)]
      \/ dev' = [dev EXCEPT !.stored = dev.sent,
                            !.out = @ \o <<Header("OKAY", 0)>>]
      \/ dev' = [dev EXCEPT !.out = @ \o
                     <<Header("FAIL", 1), Header("words", 0)>>]
      \/ dev' = [dev EXCEPT !.reading = 0]
      \/ dev' = [dev EXCEPT !.service = "none", !.out = <<>>, !.reading = -1]
  BY DEF DevSync
<1>5. /\ <<>> \in Seq(Elements) /\ dev.sent \o Tail(data) \in Seq(Elements)
      /\ dev.out \o <<Header("OKAY", 0)>> \in Seq(Elements)
  BY <1>1, <1>3, AnswersType DEF DevType
<1>6. /\ \A mode \in {0, 1} :
            [dev EXCEPT !.out = @ \o <<Header("STAT", mode)>>] \in DevType
      /\ [dev EXCEPT !.out = @ \o
            <<Header("FAIL", 1), Header("words", 0)>>] \in DevType
  BY AnswersType, ReplyType
<1>7. dev' \in DevType
  <2> HIDE DEF data
  <2>0. 0 \in Int /\ -1 \in Int /\ "none" \in Ids \cup {"byte", "none"}
    OBVIOUS
  <2>1. /\ [dev EXCEPT !.sent = <<>>] \in DevType
        /\ [dev EXCEPT !.sent = @ \o Tail(data)] \in DevType
        /\ [dev EXCEPT !.reading = 0] \in DevType
    BY <1>3, <1>5, <2>0, DevFields
  <2>2. [dev EXCEPT !.stored = dev.sent, !.out = @ \o <<Header("OKAY", 0)>>]
          \in DevType
    <3> DEFINE o == dev.out \o <<Header("OKAY", 0)>>
    <3>1. o \in Seq(Elements)
      BY <1>5
    <3> HIDE DEF o
    <3>2. [dev EXCEPT !.stored = dev.sent, !.out = o] \in DevType
      BY <1>3, <3>1 DEF DevType
    <3> QED
      BY <3>2 DEF o
  <2>3. [dev EXCEPT !.service = "none", !.out = <<>>, !.reading = -1]
          \in DevType
    BY <1>3, <1>5, <2>0, DevFields
  <2> QED
    BY <1>3, <1>4, <1>6, <2>1, <2>2, <2>3
<1> QED
  BY <1>1, <1>2, <1>7, DevStepInd DEF DevSync

LEMMA DevReadInd ==
    ASSUME AdbInd, DevRead
    PROVE  AdbInd'
<1>1. dev \in DevType /\ toDev' \in Seq(Packets) /\ toHost' \in Seq(Packets)
  BY DEF DevRead, AdbInd, AdbTypeOK, DevType
<1>2. dev' \in DevType
  <2>1. ASSUME NEW n \in 1 .. MaxChunk, dev.reading + n <= FileLen,
               dev.reading >= 0,
               dev' = [dev EXCEPT !.reading = @ + n,
                        !.out = @ \o <<Header("DATA", n)>>
                               \o SubSeq(Bytes(call, FileLen), dev.reading + 1,
                                         dev.reading + n)]
        PROVE  dev' \in DevType
    <3>1. Bytes(call, FileLen) \in Seq(Elements) /\ Len(Bytes(call, FileLen)) = FileLen
      BY BytesType, AdbAssumption DEF AdbInd, AdbTypeOK
    <3> DEFINE part == SubSeq(Bytes(call, FileLen), dev.reading + 1, dev.reading + n)
    <3>2. dev.reading \in Int /\ n \in Nat
      BY <1>1, AdbAssumption DEF DevType
    <3>3. part \in Seq(Elements)
      BY <2>1, <3>1, <3>2, PartType
    <3>4. Header("DATA", n) \in Elements
      <4>1. "DATA" \in Ids
        BY DEF Ids
      <4> QED
        BY <3>2, <4>1, HeaderType
    <3> HIDE DEF part
    <3>5. dev.out \o <<Header("DATA", n)>> \o part \in Seq(Elements)
      BY <1>1, <3>3, <3>4 DEF DevType
    <3>6. dev' = [dev EXCEPT !.reading = @ + n,
                             !.out = @ \o <<Header("DATA", n)>> \o part]
      BY <2>1 DEF part
    <3>7. dev.reading + n \in Int
      BY <3>2
    <3> QED
      BY <1>1, <3>5, <3>6, <3>7, DevFields
  <2>2. ASSUME NEW es \in Seq(Elements),
               dev' = [dev EXCEPT !.reading = -1, !.out = @ \o es]
        PROVE  dev' \in DevType
    <3>1. dev.out \o es \in Seq(Elements)
      BY <1>1 DEF DevType
    <3>2. -1 \in Int
      OBVIOUS
    <3> QED
      BY <1>1, <2>2, <3>1, <3>2, DevFields
  <2> QED
    BY <2>1, <2>2, AnswersType DEF DevRead
<1> QED
  BY <1>1, <1>2, DevStepInd DEF DevRead

LEMMA DevWriteInd ==
    ASSUME AdbInd, DevWrite
    PROVE  AdbInd'
<1>1. dev \in DevType /\ toDev' \in Seq(Packets)
  BY DEF DevWrite, AdbInd, AdbTypeOK, DevType
<1>2. PICK n \in 1 .. MaxPayload :
        /\ n <= Len(dev.out)
        /\ Answer(<<Packet("WRTE", SubSeq(dev.out, 1, n))>>)
        /\ dev' = [dev EXCEPT !.busy = TRUE,
                              !.out = SubSeq(@, n + 1, Len(@))]
  BY DEF DevWrite
<1>3. dev.out \in Seq(Elements) /\ n \in Nat /\ n # 0 /\ n <= MaxPayload
  BY <1>1, AdbAssumption DEF DevType
<1>4. /\ SubSeq(dev.out, 1, n) \in Seq(Elements)
      /\ Len(SubSeq(dev.out, 1, n)) = n
  BY <1>2, <1>3, PartType
<1>5. SubSeq(dev.out, n + 1, Len(dev.out)) \in Seq(Elements)
  BY <1>2, <1>3, PartType
<1> DEFINE d == SubSeq(dev.out, 1, n)
<1>6. d \in Content /\ d # <<>>
  BY <1>3, <1>4 DEF Content
<1> HIDE DEF d
<1>7. Packet("WRTE", d) \in Packets
  BY <1>6 DEF Packet, Packets, Cmds
<1>8. toHost' \in Seq(Packets)
  <2>1. <<Packet("WRTE", d)>> \in Seq(Packets)
    BY <1>7
  <2> QED
    BY <1>2, <2>1, AnswerType DEF d, AdbInd, AdbTypeOK
<1>9. dev' \in DevType
  BY <1>1, <1>2, <1>5 DEF DevType
<1> QED
  BY <1>1, <1>8, <1>9, DevStepInd DEF DevWrite

LEMMA LeaveInd ==
    ASSUME AdbInd, Leave
    PROVE  AdbInd'
<1>1. toDev' \in Seq(Packets) /\ toHost' \in Seq(Packets)
  BY DEF Leave
<1> QED
  BY <1>1 DEF Leave, AdbInd, AdbTypeOK, BufferFits, OneClose, host

-----------------------------------------------------------------------------
(* The results. *)

LEMMA InitInd == Init => AdbInd
<1> SUFFICES ASSUME Init PROVE AdbInd
  OBVIOUS
<1>1. <<>> \in Content
  BY AdbAssumption DEF Content
<1>2. <<>> \in Seq(Elements) /\ <<>> \in Seq(Packets)
  OBVIOUS
<1>3. NoStream \in DevType
  BY <1>2 DEF NoStream, DevType
<1> QED
  BY <1>1, <1>2, <1>3 DEF Init, AdbInd, AdbTypeOK, BufferFits, OneClose, Calls, Memory,
                          Pcs, Sync, Reading, DevType

LEMMA NextInd == AdbInd /\ [Next]_vars => AdbInd'
<1> SUFFICES ASSUME AdbInd, [Next]_vars PROVE AdbInd'
  OBVIOUS
<1>1. CASE Host
  BY <1>1, BeginInd, ConnectInd, OpenInd, ShellInd, LostInd, FillInd,
     SyncBeginInd, ReadModeInd, StatusInd, HeaderInd, DataInd, CloseInd
  DEF Host
<1>2. CASE Device
  BY <1>2, DevConnectInd, DevOpenInd, DevOkayInd, DevSyncInd, DevReadInd,
     DevWriteInd, DevCloseInd
  DEF Device
<1>3. CASE Leave
  BY <1>3, LeaveInd
<1>4. CASE UNCHANGED vars
  BY <1>4 DEF AdbInd, AdbTypeOK, BufferFits, OneClose, vars, host
<1> QED
  BY <1>1, <1>2, <1>3, <1>4 DEF Next

\* Packets and the host's state keep their types: no packet is longer than
\* MAX_PAYLOAD and the capacity of the shell buffer is never negative, whatever
\* the sizes and however often the object is used.
THEOREM AdbTypeCorrect == Spec => []AdbTypeOK
<1>1. AdbInd => AdbTypeOK
  BY DEF AdbInd
<1> QED
  BY <1>1, InitInd, NextInd, PTL DEF Spec

\* The memcpy of handle_shell_response never goes past the end of its buffer,
\* for every MAX_PAYLOAD, every length of output and every way to cut it into
\* packets, and also after a memset through the pointer that realloc freed (of
\* which the theorem says nothing).
THEOREM ShellBufferFits == Spec => []BufferFits
<1>1. AdbInd => BufferFits
  BY DEF AdbInd
<1> QED
  BY <1>1, InitInd, NextInd, PTL DEF Spec

=============================================================================
