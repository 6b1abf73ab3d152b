------------------------------- MODULE AdbHost -------------------------------
(***************************************************************************)
(* Class adbhost (src/adbhost.cpp, src/transport_usb.cpp): the host side of *)
(* the adb protocol over one USB handle, in the calling thread.  Calls of   *)
(* shell, reboot_bootloader, sync_push and sync_pull follow one another on  *)
(* one object, as in AdbPST.  A stream is opened per call; every WRTE is    *)
(* answered by OKAY; the host never waits for the OKAY of its own WRTEs.    *)
(*                                                                         *)
(* A byte knows its call and position, so that order and origin show.  A    *)
(* header of the sync protocol is one element of a packet.  Identifiers and *)
(* checksums of packets are left out: one stream is open at a time and USB  *)
(* does not garble packets.  The daemon of the device is external.          *)
(***************************************************************************)
EXTENDS Integers, Sequences

CONSTANTS
    MaxPayload,  \* MAX_PAYLOAD: elements of a packet
    MaxOutput,   \* bound: output of a shell command
    FileLen,     \* bound: length of a file that is copied
    MaxChunk,    \* bound: the largest DATA the device sends
    MaxCalls     \* bound: calls on one object

ASSUME AdbAssumption ==
    /\ MaxPayload \in Nat /\ MaxPayload > 1
    /\ MaxOutput \in Nat /\ FileLen \in Nat /\ MaxChunk \in Nat \ {0}
    /\ MaxCalls \in Nat

VARIABLES
    call,       \* number of calls so far
    op,         \* the call that runs or ran last
    pc,         \* where it stands
    ret,        \* its result
    closes,     \* calls of close_remote that still follow
    response,   \* the bytes in the buffer of handle_shell_response
    allocated,  \* the size of its allocation
    capacity,   \* its capacity: what it believes is free behind the bytes
    memory,     \* history: what the allocator did to the object so far
    packet,     \* packet_buffer: the rest of a WRTE, empty for NULL
    need,       \* size of the DATA that sync_recv is about to read
    local,      \* what this call has written to the local file
    diskOK,     \* write_data_file could read the whole file
    toDev, toHost, onBus,  \* the link
    dev         \* the device: its stream, what it writes, what it stored

host == <<call, op, pc, ret, closes, response, allocated, capacity, memory,
          packet, need, local, diskOK>>
shellBuffer == <<response, allocated, capacity, memory>>
syncState == <<packet, need, local, diskOK>>
vars == <<host, toDev, toHost, onBus, dev>>

Calls == {"shell", "reboot", "push", "pull"}
Sync == {"push", "pull"}
SyncDataMax == MaxPayload - 1

\* "sound": every buffer could be had and grew where it was; "short": malloc or
\* realloc failed; "wild": realloc moved a buffer, and memset wrote behind the
\* old one.
Memory == {"sound", "short", "wild"}

Zero == <<"byte", 0, 0>>
Bytes(m, n) == [k \in 1 .. n |-> <<"byte", m, k>>]
Packet(cmd, data) == [cmd |-> cmd, data |-> data]
Msg(cmd) == Packet(cmd, <<>>)
Header(id, n) == <<id, n>>
\* write_data_file: data in pieces of at most n, each a packet that begins with
\* a DATA header.
Pieces(data, n) ==
    [k \in 1 .. ((Len(data) + n - 1) \div n) |->
        LET piece == SubSeq(data, n * (k - 1) + 1,
                            IF n * k < Len(data) THEN n * k ELSE Len(data))
        IN Packet("WRTE", <<Header("DATA", Len(piece))>> \o piece)]

\* service: the open stream; out: what it has to write; busy: its last WRTE
\* waits for OKAY; reading: how much of a file RECV has read, -1 without RECV;
\* wrote: the output of the shell; sent, stored: the file of SEND and DONE.
NoStream == [service |-> "none", out |-> <<>>, busy |-> FALSE,
             reading |-> -1, wrote |-> 0, sent |-> <<>>, stored |-> <<>>]

Init ==
    /\ call = 0 /\ op = "shell" /\ pc = "idle" /\ ret = 0 /\ closes = 0
    /\ response = <<>> /\ allocated = 0 /\ capacity = 0 /\ memory = "sound"
    /\ packet = <<>> /\ need = 0 /\ local = <<>> /\ diskOK = TRUE
    /\ toDev = <<>> /\ toHost = <<>> /\ onBus = TRUE /\ dev = NoStream

-----------------------------------------------------------------------------
(* The link: send_packet, whose failure nobody sees, and read_packet, which *)
(* waits, without a limit, until a packet comes or the device has gone.     *)

Send(packets) ==
    toDev' = IF onBus THEN toDev \o packets ELSE toDev

CanRead == toHost # <<>> \/ ~onBus
\* What p holds after read_packet; the memory is zeroed before.
Got == IF toHost # <<>> THEN Head(toHost) ELSE Msg("zero")
Taken == toHost' = IF toHost # <<>> THEN Tail(toHost) ELSE toHost

Return(r) == pc' = "idle" /\ ret' = r

-----------------------------------------------------------------------------
(* The calls: connect, handle_connect_response, open_service,              *)
(* handle_open_response.                                                    *)

Begin ==
    /\ pc = "idle" /\ call < MaxCalls
    /\ call' = call + 1 /\ op' \in Calls /\ pc' = "connect"
    /\ closes' = 0 /\ local' = <<>> /\ Send(<<Msg("CNXN")>>)
    /\ UNCHANGED <<ret, shellBuffer, packet, need, diskOK, toHost, onBus, dev>>

\* sync_push and sync_pull leave at once when the connection fails; else they
\* call close_remote last, whatever happens.
handle_connect_response ==
    /\ pc = "connect" /\ CanRead /\ Taken
    /\ IF Got.cmd = "CNXN"
       THEN /\ pc' = "open" /\ Send(<<Packet("OPEN", <<Header(op, call)>>)>>)
            /\ closes' = IF op \in Sync THEN 1 ELSE 0
            /\ UNCHANGED ret
       ELSE Return(-1) /\ UNCHANGED <<closes, toDev>>
    /\ UNCHANGED <<call, op, shellBuffer, syncState, onBus, dev>>

\* Mutant: the buffer of the call before is used on.
OldBuffer ==
    /\ response' = response
    /\ allocated' = Len(response) + MaxPayload /\ capacity' = MaxPayload
    /\ memory' = memory

\* handle_shell_response allocates a buffer.
NewBuffer ==
    /\ response' = <<>>
    /\ allocated' = MaxPayload /\ capacity' = MaxPayload
    /\ memory' = memory

\* It gives up without one, with the stream open and no response; shell returns
\* 0 all the same.
NoMemory ==
    /\ response' = <<>> /\ allocated' = 0 /\ capacity' = 0
    /\ memory' = "short" /\ Return(0)

\* Only CLSE is a failure: a packet of another kind, or none at all, counts as
\* an open stream.
handle_open_response ==
    /\ pc = "open" /\ CanRead /\ Taken
    /\ IF Got.cmd = "CLSE"
       THEN /\ pc' = "closing" /\ ret' = IF op = "pull" THEN 0 ELSE -1
            /\ Send(<<Msg("CLSE")>>) /\ UNCHANGED <<closes, shellBuffer>>
       ELSE /\ UNCHANGED <<closes, toDev>>
            /\ CASE op = "shell" ->
                      \/ pc' = "shell" /\ NewBuffer /\ UNCHANGED ret
                      \/ NoMemory
                 [] op = "reboot" -> Return(0) /\ UNCHANGED shellBuffer
                 [] OTHER -> pc' = op /\ UNCHANGED <<ret, shellBuffer>>
    /\ UNCHANGED <<call, op, syncState, onBus, dev>>

-----------------------------------------------------------------------------
(* handle_shell_response.  The size of the buffer, when it could be had, and *)
(* when not.                                                                *)

\* Mutant: the buffer grows only when it is full.
GrowWhenFull(n) ==
    IF capacity = 0
    THEN /\ allocated' = Len(response) + capacity + MaxPayload
         /\ capacity' = capacity + MaxPayload - n
    ELSE allocated' = allocated /\ capacity' = capacity - n

\* Mutant: the new size forgets the bytes that are there.
GrowFree(n) ==
    IF capacity < n
    THEN /\ allocated' = capacity + MaxPayload
         /\ capacity' = capacity + MaxPayload - n
    ELSE allocated' = allocated /\ capacity' = capacity - n

\* The buffer grows by MAX_PAYLOAD when the packet does not fit.
Grow(n) ==
    IF capacity < n
    THEN /\ allocated' = Len(response) + capacity + MaxPayload
         /\ capacity' = capacity + MaxPayload - n
    ELSE allocated' = allocated /\ capacity' = capacity - n

\* Mutant: a failed read is tried again.
ReadAgain ==
    /\ pc = "shell" /\ toHost = <<>> /\ ~onBus
    /\ UNCHANGED vars

\* A failed read ends the output; shell returns 0 all the same.
OutputLost ==
    /\ pc = "shell" /\ toHost = <<>> /\ ~onBus
    /\ Return(0)
    /\ UNCHANGED <<call, op, closes, shellBuffer, syncState, toDev, toHost,
                   onBus, dev>>

\* The bytes of a packet join the response.
Collect(data) ==
    /\ Grow(Len(data)) /\ response' = response \o data
    /\ Send(<<Msg("OKAY")>>) /\ UNCHANGED <<pc, ret, memory>>

\* realloc moved the buffer: memset clears MAX_PAYLOAD bytes behind the freed
\* one.  That ends the program, or hits nothing, or the start of the new buffer.
GrowMoved(data) ==
    /\ capacity < Len(data) /\ memory' = "wild"
    /\ \/ pc' = "crashed"
          /\ UNCHANGED <<ret, response, allocated, capacity, toDev>>
       \/ /\ Grow(Len(data))
          /\ \E z \in {0, MaxPayload} :
               response' = [k \in 1 .. Len(response) |->
                               IF k <= z THEN Zero ELSE response[k]] \o data
          /\ Send(<<Msg("OKAY")>>) /\ UNCHANGED <<pc, ret>>

\* realloc failed: the buffer is freed and the packet not answered.
GrowFailed(data) ==
    capacity < Len(data) /\ NoMemory /\ UNCHANGED toDev

handle_shell_response ==
    /\ pc = "shell" /\ toHost # <<>> /\ Taken
    /\ \/ /\ Got.cmd = "WRTE"
          /\ Collect(Got.data) \/ GrowMoved(Got.data) \/ GrowFailed(Got.data)
       \/ Got.cmd = "CLSE" /\ Return(0) /\ Send(<<Msg("OKAY")>>)
                           /\ UNCHANGED shellBuffer
       \/ Got.cmd \notin {"WRTE", "CLSE"} /\ UNCHANGED <<pc, ret, toDev, shellBuffer>>
    /\ UNCHANGED <<call, op, closes, syncState, onBus, dev>>

-----------------------------------------------------------------------------
(* readx reads from one packet only: its rest stays in packet_buffer, and a *)
(* packet with less than is asked for is an error.                          *)

Reading == {"stat", "status", "failmsg", "header", "data"}

\* do_sync_push or do_sync_pull returns; close_remote follows.
CloseRemote(r) ==
    /\ pc' = "closing" /\ closes' = closes - 1
    /\ ret' = IF op = "pull" THEN 0 ELSE r
    /\ Send(<<Msg("CLSE")>>)

\* sync_quit, then the same.
Quit(r) ==
    /\ pc' = "closing" /\ closes' = closes - 1
    /\ ret' = IF op = "pull" THEN 0 ELSE r
    /\ Send(<<Packet("WRTE", <<Header("QUIT", 0)>>), Msg("CLSE")>>)

FillBuffer ==
    /\ pc \in Reading /\ packet = <<>> /\ CanRead /\ Taken
    /\ CASE Got.cmd = "OKAY" ->
              UNCHANGED <<pc, ret, closes, packet, toDev>>
         [] Got.cmd = "WRTE" ->
              /\ packet' = Got.data /\ Send(<<Msg("OKAY")>>)
              /\ UNCHANGED <<pc, ret, closes>>
         [] OTHER -> CloseRemote(1) /\ UNCHANGED packet
    /\ UNCHANGED <<call, op, shellBuffer, need, local, diskOK, onBus, dev>>

\* Mutant: the rest of a packet is dropped when the next part is read.
DropRest(n) == packet' = <<>>

\* readx keeps the rest of the packet.
KeepRest(n) == packet' = SubSeq(packet, n + 1, Len(packet))

\* sync_send after sync_readmode: the whole file and DONE are written without
\* waiting.  fread reports an error like the end of the file.
sync_send ==
    \E n \in 0 .. FileLen :
        /\ diskOK' = (n = FileLen)
        /\ Send(<<Packet("WRTE", <<Header("SEND", 0)>>)>>
                \o Pieces(Bytes(call, n), SyncDataMax)
                \o <<Packet("WRTE", <<Header("DONE", 0)>>)>>)
        /\ pc' = "status" /\ UNCHANGED <<ret, closes>>

\* do_sync_push and do_sync_pull begin with sync_readmode, the former unless
\* the local file cannot be found.
sync_begin ==
    /\ pc \in Sync
    /\ \/ /\ pc' = "stat" /\ Send(<<Packet("WRTE", <<Header("STAT", 0)>>)>>)
          /\ UNCHANGED <<ret, closes>>
       \/ pc = "push" /\ Quit(1)
    /\ UNCHANGED <<call, op, shellBuffer, syncState, toHost, onBus, dev>>

\* The mode is 0 for a file that does not exist: pull stops there, push
\* creates it.
sync_readmode ==
    /\ pc = "stat" /\ packet # <<>> /\ KeepRest(1)
    /\ LET m == packet[1] IN
       IF m[1] # "STAT" \/ (op = "pull" /\ m[2] = 0)
       THEN CloseRemote(1) /\ UNCHANGED diskOK
       ELSE IF op = "push" THEN sync_send
            ELSE /\ Send(<<Packet("WRTE", <<Header("RECV", 0)>>)>>)
                 /\ pc' = "header" /\ UNCHANGED <<ret, closes, diskOK>>
    /\ UNCHANGED <<call, op, shellBuffer, need, local, toHost, onBus, dev>>

\* The answer to DONE.  The words of FAIL are read and shown.
sync_send_status ==
    /\ pc = "status" /\ packet # <<>> /\ KeepRest(1)
    /\ CASE packet[1][1] = "OKAY" -> Quit(0)
         [] packet[1][1] = "FAIL" ->
              pc' = "failmsg" /\ UNCHANGED <<ret, closes, toDev>>
         [] OTHER -> CloseRemote(1)
    /\ UNCHANGED <<call, op, shellBuffer, need, local, diskOK, toHost, onBus,
                   dev>>

ReadFailMsg ==
    /\ pc = "failmsg" /\ packet # <<>> /\ KeepRest(1)
    /\ IF op = "push" THEN CloseRemote(1) ELSE Quit(0)
    /\ UNCHANGED <<call, op, shellBuffer, need, local, diskOK, toHost, onBus,
                   dev>>

\* A header in sync_recv.  Before the file is created remote_error closes the
\* NULL file, which ends the program; later it removes the file and reports
\* success.
sync_recv_header ==
    /\ pc = "header" /\ packet # <<>> /\ KeepRest(1)
    /\ LET m == packet[1] IN
       CASE m[1] = "DONE" -> Quit(0) /\ UNCHANGED <<need, local>>
         [] m[1] = "DATA" /\ m[2] <= SyncDataMax ->
              pc' = "data" /\ need' = m[2]
              /\ UNCHANGED <<ret, closes, local, toDev>>
         [] m[1] = "DATA" /\ m[2] > SyncDataMax ->
              CloseRemote(1) /\ UNCHANGED <<need, local>>
         [] OTHER ->
              /\ UNCHANGED need
              /\ IF local = <<>>
                 THEN pc' = "crashed" /\ UNCHANGED <<ret, closes, local, toDev>>
                 ELSE local' = <<>> /\ IF m[1] = "FAIL"
                         THEN pc' = "failmsg" /\ UNCHANGED <<ret, closes, toDev>>
                         ELSE Quit(0)
    /\ UNCHANGED <<call, op, shellBuffer, diskOK, toHost, onBus, dev>>

\* The bytes of a DATA; adb_write may fail.
sync_recv_data ==
    /\ pc = "data" /\ packet # <<>>
    /\ IF need > Len(packet)
       THEN packet' = <<>> /\ CloseRemote(1) /\ UNCHANGED local
       ELSE /\ KeepRest(need)
            /\ \/ /\ local' = local \o SubSeq(packet, 1, need)
                  /\ pc' = "header" /\ UNCHANGED <<ret, closes, toDev>>
               \/ CloseRemote(1) /\ UNCHANGED local
    /\ UNCHANGED <<call, op, shellBuffer, need, diskOK, toHost, onBus, dev>>

-----------------------------------------------------------------------------
(* close_remote.  Until a packet was read, p is the CLSE that was sent: a   *)
(* failed read ends the loop then ("closing"), but not later ("waiting").   *)

AfterClose ==
    IF closes > 0
    THEN pc' = "closing" /\ closes' = closes - 1 /\ Send(<<Msg("CLSE")>>)
    ELSE pc' = "idle" /\ UNCHANGED <<closes, toDev>>

close_remote ==
    /\ pc \in {"closing", "waiting"} /\ CanRead /\ Taken
    /\ IF Got.cmd = "CLSE" \/ (Got.cmd = "zero" /\ pc = "closing")
       THEN AfterClose
       ELSE pc' = "waiting" /\ UNCHANGED <<closes, toDev>>
    /\ UNCHANGED <<call, op, ret, shellBuffer, syncState, onBus, dev>>

Host ==
    \/ Begin \/ handle_connect_response \/ handle_open_response
    \/ handle_shell_response \/ OutputLost \/ FillBuffer \/ sync_begin
    \/ sync_readmode \/ sync_send_status \/ ReadFailMsg
    \/ sync_recv_header \/ sync_recv_data \/ close_remote

-----------------------------------------------------------------------------
(* The device: adbd and its services, external. *)

DevTake == toDev' = Tail(toDev)
Answer(packets) == toHost' = toHost \o packets

\* A connection drops the stream that is open.
DevConnect ==
    /\ toDev # <<>> /\ Head(toDev).cmd = "CNXN"
    /\ DevTake /\ Answer(<<Msg("CNXN")>>) /\ dev' = NoStream
    /\ UNCHANGED <<host, onBus>>

DevOpen ==
    /\ toDev # <<>> /\ Head(toDev).cmd = "OPEN" /\ DevTake
    /\ \/ Answer(<<Msg("CLSE")>>) /\ UNCHANGED dev
       \/ /\ Answer(<<Msg("OKAY")>>)
          /\ LET open == Head(toDev).data[1] IN
             \E n \in IF open[1] = "shell" THEN 0 .. MaxOutput ELSE {0} :
                dev' = [dev EXCEPT !.service = open[1], !.wrote = n,
                                   !.out = Bytes(open[2], n)]
    /\ UNCHANGED <<host, onBus>>

DevOkay ==
    /\ toDev # <<>> /\ Head(toDev).cmd = "OKAY" /\ DevTake
    /\ dev' = [dev EXCEPT !.busy = FALSE]
    /\ UNCHANGED <<host, toHost, onBus>>

\* A request of the sync protocol.
DevSync ==
    /\ toDev # <<>> /\ Head(toDev).cmd = "WRTE" /\ DevTake
    /\ LET data == Head(toDev).data
           Reply(es) == dev' = [dev EXCEPT !.out = @ \o es] IN
       IF dev.service # "push" /\ dev.service # "pull"
       THEN UNCHANGED <<dev, toHost>>
       ELSE /\ Answer(IF data[1][1] = "QUIT" THEN <<Msg("OKAY"), Msg("CLSE")>>
                                            ELSE <<Msg("OKAY")>>)
            /\ CASE data[1][1] = "STAT" ->
                      \E mode \in {0, 1} : Reply(<<Header("STAT", mode)>>)
                 [] data[1][1] = "SEND" -> dev' = [dev EXCEPT !.sent = <<>>]
                 [] data[1][1] = "DATA" ->
                      dev' = [dev EXCEPT !.sent = @ \o Tail(data)]
                 [] data[1][1] = "DONE" ->
                      \/ dev' = [dev EXCEPT !.stored = dev.sent,
                                            !.out = @ \o <<Header("OKAY", 0)>>]
                      \/ Reply(<<Header("FAIL", 1), Header("words", 0)>>)
                 [] data[1][1] = "RECV" -> dev' = [dev EXCEPT !.reading = 0]
                 [] OTHER -> dev' = [dev EXCEPT !.service = "none", !.out = <<>>,
                                                !.reading = -1]
    /\ UNCHANGED <<host, onBus>>

\* The file of a RECV is sent in DATA pieces, then DONE, unless it fails.
DevRead ==
    /\ onBus /\ dev.reading >= 0
    /\ \/ \E n \in 1 .. MaxChunk :
            /\ dev.reading + n <= FileLen
            /\ dev' = [dev EXCEPT !.reading = @ + n,
                        !.out = @ \o <<Header("DATA", n)>>
                               \o SubSeq(Bytes(call, FileLen), dev.reading + 1,
                                         dev.reading + n)]
       \/ /\ dev.reading = FileLen
          /\ dev' = [dev EXCEPT !.reading = -1,
                                !.out = @ \o <<Header("DONE", 0)>>]
       \/ dev' = [dev EXCEPT !.reading = -1, !.out = @ \o
                    <<Header("FAIL", 1), Header("words", 0)>>]
    /\ UNCHANGED <<host, toDev, toHost, onBus>>

\* The service writes what fits in a packet, or a part of it.
DevWrite ==
    /\ onBus /\ ~dev.busy
    /\ \E n \in 1 .. MaxPayload :
        /\ n <= Len(dev.out)
        /\ Answer(<<Packet("WRTE", SubSeq(dev.out, 1, n))>>)
        /\ dev' = [dev EXCEPT !.busy = TRUE,
                              !.out = SubSeq(@, n + 1, Len(@))]
    /\ UNCHANGED <<host, toDev, onBus>>

\* The command of a shell has ended.
DevExit ==
    /\ onBus /\ dev.service = "shell" /\ ~dev.busy /\ dev.out = <<>>
    /\ Answer(<<Msg("CLSE")>>) /\ dev' = [dev EXCEPT !.service = "none"]
    /\ UNCHANGED <<host, toDev, onBus>>

\* close_remote names the stream by the identifier of the host: the device
\* knows it only if its own is the same.
DevClose ==
    /\ toDev # <<>> /\ Head(toDev).cmd = "CLSE" /\ DevTake
    /\ \/ UNCHANGED <<toHost, dev>>
       \/ /\ dev.service # "none" /\ Answer(<<Msg("CLSE")>>)
          /\ dev' = [dev EXCEPT !.service = "none", !.out = <<>>,
                                !.reading = -1]
    /\ UNCHANGED <<host, onBus>>

Device ==
    \/ DevConnect \/ DevOpen \/ DevOkay \/ DevSync \/ DevRead \/ DevWrite
    \/ DevExit \/ DevClose

\* The device restarts or is unplugged: what is under way is lost.
Leave ==
    /\ onBus /\ onBus' = FALSE /\ toDev' = <<>> /\ toHost' = <<>>
    /\ UNCHANGED <<host, dev>>

Next == Host \/ Device \/ Leave

Spec == Init /\ [][Next]_vars
\* The calling thread goes on, and so does the daemon; nobody has to call.
Fairness == WF_vars(Host /\ pc # "idle") /\ WF_vars(Device)
FairSpec == Spec /\ Fairness

-----------------------------------------------------------------------------
(* Properties *)

Ids == Calls \cup {"STAT", "SEND", "DATA", "DONE", "RECV", "QUIT", "OKAY",
                   "FAIL", "words"}
Cmds == {"zero", "CNXN", "OPEN", "OKAY", "CLSE", "WRTE"}
Elements == ({"byte"} \X Nat \X Nat) \cup (Ids \X Nat)
Content == {d \in Seq(Elements) : Len(d) <= MaxPayload}
Packets == {p \in [cmd : Cmds, data : Content] :
               p.cmd \in {"OPEN", "WRTE"} => p.data # <<>>}
Pcs == {"idle", "connect", "open", "shell", "closing", "waiting", "crashed"}
       \cup Sync \cup Reading

\* Type correctness: in particular no packet, in either direction, is longer
\* than MAX_PAYLOAD, none that needs content is empty, and the capacity never
\* becomes negative.
AdbTypeOK ==
    /\ call \in Nat /\ op \in Calls /\ pc \in Pcs /\ ret \in {-1, 0, 1}
    /\ closes \in 0 .. 1 /\ need \in Nat /\ diskOK \in BOOLEAN
    /\ response \in Seq(Elements) /\ allocated \in Nat /\ capacity \in Nat
    /\ memory \in Memory
    /\ packet \in Content /\ local \in Seq(Elements)
    /\ toDev \in Seq(Packets) /\ toHost \in Seq(Packets) /\ onBus \in BOOLEAN
    /\ dev \in [service : Ids \cup {"byte", "none"},
                out : Seq(Elements), busy : BOOLEAN, reading : Int, wrote : Nat,
                sent : Seq(Elements), stored : Seq(Elements)]

\* The memcpy of handle_shell_response never goes past the end of its buffer,
\* however the device cuts its output into packets and whatever realloc does:
\* what it believes is free is what the allocation has left.  Nothing is said of
\* the memset before it: it goes through the pointer the buffer had before, and
\* clears other memory once realloc moved the buffer (GrowMoved).
BufferFits ==
    /\ Len(response) <= allocated
    /\ Len(response) + capacity = allocated

\* The response of a shell command holds the bytes of this command only, in
\* the order the device wrote them, and all of them when shell returns and the
\* device is still there; as long as the memory for the buffers could be had
\* and no realloc moved one.
ShellWhole ==
    /\ memory = "sound"
    /\ op = "shell" /\ (pc = "shell" \/ (pc = "idle" /\ ret = 0 /\ call > 0))
    => /\ response = Bytes(call, Len(response))
       /\ pc = "idle" /\ onBus => Len(response) = dev.wrote

\* A push that returns 0 has stored the whole file, if it could be read; what
\* a pull writes to the local file is a prefix of the remote file, even after
\* a call that left the rest of a packet behind; unless a shell before ran out
\* of memory or wrote behind its buffer.
FilesInOrder ==
    memory = "sound" =>
        /\ op = "push" /\ pc = "idle" /\ ret = 0 /\ diskOK =>
               dev.stored = Bytes(call, FileLen)
        /\ local = Bytes(call, Len(local))

\* A shell command, and a restart, returns once its stream was opened, or has
\* ended the program: the device ends the stream or leaves the bus.
ShellEnds ==
    (op \in {"shell", "reboot"} /\ pc # "idle")
        ~> (pc \in {"idle", "closing", "crashed"})

=============================================================================
