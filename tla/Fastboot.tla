------------------------------ MODULE Fastboot -------------------------------
(***************************************************************************)
(* A fastboot session of one UI port: mdmfastboot/fastbootflash.cpp driven  *)
(* by the DEVICE_FLASH part of PSTManager::RunMiFiPST.                      *)
(*                                                                         *)
(* The worker thread queues four getvar queries and one download/flash      *)
(* pair per image to download, then executes the queue: each action is one  *)
(* command/response exchange with the bootloader over two blocking bulk     *)
(* pipes.  The bootloader is external; it is modelled from the replies the  *)
(* host code tells apart.  It may refuse a command, answer with a status    *)
(* the host does not know, send INFO lines first, or disappear at any time. *)
(***************************************************************************)
EXTENDS Integers, Sequences

CONSTANTS
    NImages,     \* number of images in the package (flash_image's list)
    Need,        \* images with need_download set
    Size,        \* Size[i]: bytes of image i
    NVars,       \* getvar queries queued first (4 in RunMiFiPST)
    PadSize,     \* img->GetDiagDlImgSize(), already downloaded by DiagPST
    MaxInfo,     \* bound: INFO lines the bootloader sends in a session
    ShortGrant   \* TRUE: the bootloader may grant fewer bytes than asked for

VARIABLES
    pc,            \* where the worker thread is
    queue,         \* action_list: the queued actions, in order
    nextImg,       \* the image image_enum_next looks at
    pos,           \* position in the queue of fb_execute_queue's loop
    grant,         \* size after the DATA reply, in _command_send
    flashed_size,  \* fb_execute_queue's progress counter
    posted,        \* flashed_size at the last SetProgress
    prompt,        \* what the port window tells the operator
    out,           \* the transfer in the bulk-out pipe
    inp,           \* the status in the bulk-in pipe
    dpc,           \* bootloader: waiting for a command or for data
    expect,        \* bootloader: the bytes it granted, and of which image
    staged,        \* bootloader: the download buffer
    content,       \* bootloader: what each partition holds
    infos,         \* bootloader: INFO lines sent so far
    link           \* is the device on the bus

hostVars == <<pc, queue, nextImg, pos, grant, flashed_size, posted, prompt>>
devVars == <<dpc, expect, staged, content, infos, link>>
vars == <<hostVars, out, inp, devVars>>

Plan == INSTANCE FlashPlan WITH Exact <- ~ShortGrant

ASSUME ImagesAssumption ==
    /\ NImages \in Nat
    /\ Need \subseteq 1..NImages
    /\ Size \in [1..NImages -> Nat]

ASSUME SessionAssumption ==
    /\ NVars \in Nat
    /\ PadSize \in Nat
    /\ MaxInfo \in Nat
    /\ ShortGrant \in BOOLEAN

Images == 1..NImages
Blob == Plan!Blob
Stale == Plan!Stale
Torn == Plan!Torn
Copies(i) == Plan!Copies(i)

NoMsg == [op |-> "none", img |-> 0, n |-> 0]
NoReply == [kind |-> "none", n |-> 0]
Reply(k, n) == [kind |-> k, n |-> n]

Action == [op : {"query", "download", "flash"}, img : 0..NImages]
Message == [op : {"none", "query", "download", "flash", "data"},
            img : 0..NImages, n : Nat]
Status == [kind : {"none", "INFO", "OKAY", "FAIL", "DATA", "BAD"}, n : Nat]

\* The action the loop of fb_execute_queue is at, and the size it carries.
Current == queue[pos]
CurrentSize == IF Current.op = "download" THEN Size[Current.img] ELSE 0

Init ==
    /\ pc = "queue" /\ queue = <<>> /\ nextImg = 1 /\ pos = 1
    /\ grant = 0
    /\ flashed_size = 0 /\ posted = 0 /\ prompt = "fastboot download"
    /\ out = NoMsg /\ inp = NoReply
    /\ dpc = "command" /\ expect = [img |-> 0, n |-> 0] /\ staged = Torn
    /\ content = [i \in Images |-> Stale]
    /\ infos = 0 /\ link = "up"

-----------------------------------------------------------------------------
(* Building the queue. *)

queue_action(q, op, i) == Append(q, [op |-> op, img |-> i])

fb_queue_display ==
    /\ pc = "queue" /\ Len(queue) < NVars
    /\ queue' = queue_action(queue, "query", 0)
    /\ UNCHANGED <<pc, nextImg, pos, grant, flashed_size, posted, prompt,
                   out, inp, devVars>>

\* Mutant: the command is queued ahead of the download it needs.
FlashBeforeDownload(q, i) == queue_action(queue_action(q, "flash", i), "download", i)

\* One turn of the loop over the package's images; fb_queue_flash queues two
\* actions, the download of the image and the command that writes it.
fb_queue_flash(q, i) == queue_action(queue_action(q, "download", i), "flash", i)

\* Mutant: the end of the image list is missed by one.
QueuePastEnd ==
    /\ pc = "queue" /\ Len(queue) >= NVars /\ nextImg <= NImages + 1
    /\ queue' = IF nextImg \in Need THEN fb_queue_flash(queue, nextImg) ELSE queue
    /\ nextImg' = nextImg + 1
    /\ UNCHANGED <<pc, pos, grant, flashed_size, posted, prompt,
                   out, inp, devVars>>

QueueImage ==
    /\ pc = "queue" /\ Len(queue) >= NVars /\ nextImg <= NImages
    /\ queue' = IF nextImg \in Need THEN fb_queue_flash(queue, nextImg) ELSE queue
    /\ nextImg' = nextImg + 1
    /\ UNCHANGED <<pc, pos, grant, flashed_size, posted, prompt,
                   out, inp, devVars>>

StartExecute ==
    /\ pc = "queue" /\ Len(queue) >= NVars /\ nextImg > NImages
    /\ pc' = "fetch" /\ pos' = 1 /\ flashed_size' = PadSize
    /\ UNCHANGED <<queue, nextImg, grant, posted, prompt, out, inp, devVars>>

-----------------------------------------------------------------------------
(* fb_execute_queue: the end of one action.  The callbacks cb_default and   *)
(* cb_display return the status they are given, so a failed exchange        *)
(* breaks the loop.                                                         *)

\* Mutant: the loop goes on after a failed action.
KeepGoing(ok) ==
    /\ pc' = "fetch"
    /\ pos' = pos + 1
    /\ flashed_size' = flashed_size + CurrentSize
    /\ posted' = IF Current.op = "flash" THEN flashed_size ELSE posted
    /\ UNCHANGED <<queue, nextImg, grant, prompt>>

ActionDone(ok) ==
    /\ pc' = IF ok THEN "fetch" ELSE "ended"
    /\ pos' = IF ok THEN pos + 1 ELSE pos
    /\ flashed_size' = flashed_size + CurrentSize
    /\ posted' = IF Current.op = "flash" THEN flashed_size ELSE posted
    /\ UNCHANGED <<queue, nextImg, grant, prompt>>

\* The host is past the exchange it was in, to the point pcNext inside
\* _command_send, with the bytes g granted.
Proceed(pcNext, g) ==
    /\ pc' = pcNext /\ grant' = g
    /\ UNCHANGED <<queue, nextImg, pos, flashed_size, posted, prompt>>

\* _command_send: usb_write of the command.
SendCommand ==
    /\ pc = "fetch" /\ pos <= Len(queue)
    /\ \/ /\ link = "up"
          /\ out' = [op |-> Current.op, img |-> Current.img, n |-> CurrentSize]
          /\ Proceed("status", 0)
       \/ /\ link = "gone"
          /\ out' = out
          /\ ActionDone(FALSE)
    /\ UNCHANGED <<inp, devVars>>

QueueDone ==
    /\ pc = "fetch" /\ pos > Len(queue)
    /\ Proceed("ended", grant)
    /\ UNCHANGED <<out, inp, devVars>>

\* check_response reads the status in the bulk-in pipe.
Read == inp.kind # "none" /\ inp' = NoReply /\ UNCHANGED <<out, devVars>>

\* check_response logs an INFO line and reads on.
ReadInfo ==
    /\ pc \in {"status", "final"} /\ inp.kind = "INFO"
    /\ Read
    /\ UNCHANGED hostVars

\* Mutant: an INFO line is taken for the reply.
InfoIsReply ==
    /\ pc = "status" /\ Current.op # "download" /\ inp.kind \in {"OKAY", "INFO"}
    /\ Read
    /\ ActionDone(TRUE)

\* The first check_response of _command_send, data_okay = 0.
CommandOkay ==
    /\ pc = "status" /\ Current.op # "download" /\ inp.kind = "OKAY"
    /\ Read
    /\ ActionDone(TRUE)

\* ... and data_okay = 1, for a download.  A grant of zero bytes and a bare OKAY
\* are the same to the host: there is nothing to send.
GrantsNothing == inp.kind = "OKAY" \/ (inp.kind = "DATA" /\ inp.n = 0)
GrantsData == inp.kind = "DATA" /\ inp.n \in 1..CurrentSize

DownloadEmpty ==
    /\ pc = "status" /\ Current.op = "download" /\ GrantsNothing
    /\ Read
    /\ Proceed("final", 0)

DownloadGranted ==
    /\ pc = "status" /\ Current.op = "download" /\ GrantsData
    /\ Read
    /\ Proceed("data", inp.n)

\* FAIL, an unknown status, DATA for a command that carries none, or DATA for
\* more bytes than the host has.
CommandFailed ==
    /\ pc = "status" /\ inp.kind # "INFO"
    /\ IF Current.op = "download" THEN ~GrantsNothing /\ ~GrantsData
                                  ELSE inp.kind # "OKAY"
    /\ Read
    /\ ActionDone(FALSE)

\* usb_write of the granted bytes of the image.
SendData ==
    /\ pc = "data"
    /\ \/ /\ link = "up"
          /\ out' = [op |-> "data", img |-> Current.img, n |-> grant]
          /\ Proceed("final", grant)
       \/ /\ link = "gone"
          /\ out' = out
          /\ ActionDone(FALSE)
    /\ UNCHANGED <<inp, devVars>>

\* The second check_response of _command_send, after the data.
FinalOkay ==
    /\ pc = "final" /\ inp.kind = "OKAY"
    /\ Read
    /\ ActionDone(TRUE)

FinalFailed ==
    /\ pc = "final" /\ inp.kind \notin {"OKAY", "INFO"}
    /\ Read
    /\ ActionDone(FALSE)

\* Mutant: only the first check_response looks at usb_read's result.
FinalReadIgnored ==
    /\ pc = "status"
    /\ link = "gone" /\ inp.kind = "none"
    /\ ActionDone(FALSE)
    /\ UNCHANGED <<out, inp, devVars>>

\* usb_read fails: the device is gone.
ReadFailed ==
    /\ pc \in {"status", "final"}
    /\ link = "gone" /\ inp.kind = "none"
    /\ ActionDone(FALSE)
    /\ UNCHANGED <<out, inp, devVars>>

\* RunMiFiPST after fb_execute_queue: SetInfo(FLASH_DONE, NULL).
Report ==
    /\ pc = "ended"
    /\ pc' = "done" /\ prompt' = "Device updated"
    /\ UNCHANGED <<queue, nextImg, pos, grant, flashed_size, posted,
                   out, inp, devVars>>

HostStep == \/ fb_queue_display \/ QueueImage \/ StartExecute \/ SendCommand
            \/ QueueDone \/ ReadInfo \/ CommandOkay \/ DownloadEmpty
            \/ DownloadGranted \/ CommandFailed \/ SendData
            \/ FinalOkay \/ FinalFailed \/ ReadFailed \/ Report

-----------------------------------------------------------------------------
(* The bootloader (external).                                               *)

Ready(op) == link = "up" /\ inp.kind = "none" /\ out.op = op

\* It answers, and is done with what was in the bulk-out pipe.
Answer(r) ==
    /\ inp' = r
    /\ out' = NoMsg
    /\ UNCHANGED <<hostVars, infos, link>>

DevInfo ==
    /\ link = "up" /\ inp.kind = "none" /\ out.op # "none" /\ infos < MaxInfo
    /\ inp' = Reply("INFO", 0) /\ infos' = infos + 1
    /\ UNCHANGED <<hostVars, out, dpc, expect, staged, content, link>>

\* It answers FAIL, or with something the host does not expect, without acting.
DevRefuse ==
    /\ \E op \in {"query", "download", "flash"} : Ready(op)
    /\ dpc = "command"
    /\ \E r \in {Reply("FAIL", 0), Reply("BAD", 0), Reply("DATA", out.n + 1)} : Answer(r)
    /\ UNCHANGED <<dpc, expect, staged, content>>

DevQuery ==
    /\ Ready("query") /\ dpc = "command"
    /\ Answer(Reply("OKAY", 0))
    /\ UNCHANGED <<dpc, expect, staged, content>>

DevDownload ==
    /\ Ready("download") /\ dpc = "command"
    /\ \E n \in 0..out.n :
          /\ n = out.n \/ ShortGrant
          /\ expect' = [img |-> out.img, n |-> n]
          /\ Answer(Reply("DATA", n))
    /\ dpc' = "data"
    /\ UNCHANGED <<staged, content>>

\* The granted bytes are in the buffer, or the transfer spoiled it.
DevData ==
    /\ dpc = "data" /\ expect.n > 0 /\ Ready("data")
    /\ dpc' = "command"
    /\ \/ staged' = [img |-> out.img, bytes |-> out.n] /\ Answer(Reply("OKAY", 0))
       \/ staged' = Torn /\ Answer(Reply("FAIL", 0))
    /\ UNCHANGED <<expect, content>>

\* Nothing was granted: the download is complete at once.  A DATA reply of zero
\* bytes is still in the pipe until the host has read it.
DevEmptyData ==
    /\ dpc = "data" /\ expect.n = 0 /\ Ready("none")
    /\ dpc' = "command"
    /\ staged' = [img |-> expect.img, bytes |-> 0]
    /\ Answer(Reply("OKAY", 0))
    /\ UNCHANGED <<expect, content>>

DevFlash ==
    /\ Ready("flash") /\ dpc = "command"
    /\ \/ content' = [content EXCEPT ![out.img] = staged] /\ Answer(Reply("OKAY", 0))
       \/ content' = [content EXCEPT ![out.img] = Torn] /\ Answer(Reply("FAIL", 0))
    /\ UNCHANGED <<dpc, expect, staged>>

\* The cable is pulled or the bootloader resets; a write in progress is torn.
Unplug ==
    /\ link = "up" /\ pc # "done"
    /\ link' = "gone" /\ out' = NoMsg /\ inp' = NoReply
    /\ \/ content' = content
       \/ /\ out.op = "flash"
          /\ content' = [content EXCEPT ![out.img] = Torn]
    /\ UNCHANGED <<hostVars, dpc, expect, staged, infos>>

DevStep == \/ DevInfo \/ DevRefuse \/ DevQuery \/ DevDownload
           \/ DevData \/ DevEmptyData \/ DevFlash

Done == pc = "done" /\ UNCHANGED vars

Next == HostStep \/ DevStep \/ Unplug \/ Done

\* The worker thread runs when it can.  usb_read has no overall timeout, so that
\* the session ends at all is the bootloader's merit: it answers every command,
\* unless it leaves the bus.
Fairness == WF_vars(HostStep) /\ WF_vars(DevStep)

Spec == Init /\ [][Next]_vars
FairSpec == Spec /\ Fairness

-----------------------------------------------------------------------------
(* Properties. *)

HostTypeOK ==
    /\ pc \in {"queue", "fetch", "status", "data", "final", "ended", "done"}
    /\ queue \in Seq(Action)
    /\ nextImg \in Nat /\ nextImg <= NImages + 1
    /\ pos \in Nat /\ grant \in Nat
    /\ flashed_size \in Nat /\ posted \in Nat
    /\ prompt \in {"fastboot download", "Device updated"}

WireTypeOK == out \in Message /\ inp \in Status

DeviceTypeOK ==
    /\ dpc \in {"command", "data"} /\ expect \in [img : 0..NImages, n : Nat]
    /\ staged \in Blob /\ content \in [Images -> Blob]
    /\ infos \in Nat /\ link \in {"up", "gone"}

TypeOK == HostTypeOK /\ WireTypeOK /\ DeviceTypeOK

\* A flash command never reaches the bootloader unless the download buffer holds
\* the image that belongs to that partition: all of it when the bootloader grants
\* what it is asked for, and never the bytes of another image.  This rests on
\* fb_execute_queue breaking off at the first failed action: the flash queued
\* behind a refused download would write the previous image.
FlashStaged == out.op = "flash" => staged \in Copies(out.img)

\* Host and bootloader stay in step: when fb_execute_queue turns to its next
\* action on a live link, the bootloader waits for a command and no reply to an
\* earlier command is left to be taken for the reply to the next one.
InStep ==
    pc = "fetch" /\ link = "up" => out = NoMsg /\ inp = NoReply /\ dpc = "command"

\* The bytes of the images up to the n-th.
BytesUpTo[n \in Nat] ==
    IF n = 0 THEN PadSize
    ELSE BytesUpTo[n - 1] + (IF n \in Need THEN Size[n] ELSE 0)

\* The progress bar is not ahead of the device: when it shows the bytes of the
\* images up to the n-th, all earlier images are in their partitions (or the
\* bootloader shortened them), and it never passes 100%.
ProgressHonest ==
    /\ posted <= BytesUpTo[NImages]
    /\ \A n \in Need :
          posted >= BytesUpTo[n] /\ Size[n] > 0 =>
              \A j \in Need : j < n => content[j].img = j

\* The port says "Device updated" only when every image to download is on the
\* device.  fb_execute_queue returns nothing and RunMiFiPST reports FLASH_DONE
\* without an error whatever happened to the queue.
UpdatedMeansFlashed ==
    prompt = "Device updated" => \A i \in Need : content[i].img = i

\* The images reach the flash in the order of the package, each only after the
\* ones before it are in place, and nothing after a torn write; each is whole
\* if the bootloader grants what it is asked for.
FollowsPlan == Plan!PlanSpec

\* A session ends: no sequence of INFO lines, refusals or an unplugged cable
\* leaves the worker thread waiting for ever.
SessionEnds == <>(pc = "done")

-----------------------------------------------------------------------------
(* The inductive invariant behind the theorems of FastbootProofs.           *)

Download(i) == [op |-> "download", img |-> i]
Flash(i) == [op |-> "flash", img |-> i]
Command == [op |-> Current.op, img |-> Current.img, n |-> CurrentSize]

\* What the loop of RunMiFiPST puts in the queue: every flash comes right after
\* its own download and after the flash of every earlier image, once.
QueueShape ==
    /\ \A k \in DOMAIN queue :
          /\ queue[k].op # "query" => queue[k].img \in Need /\ queue[k].img < nextImg
          /\ queue[k].op = "flash" =>
                /\ k > 1 /\ queue[k - 1] = Download(queue[k].img)
                /\ \A j \in Need : j < queue[k].img =>
                      \E m \in 1..(k - 1) : queue[m] = Flash(j)
                /\ \A m \in DOMAIN queue : queue[m] = queue[k] => m = k
    /\ \A j \in Need : j < nextImg => \E m \in DOMAIN queue : queue[m] = Flash(j)

Quiet == out = NoMsg /\ inp = NoReply
DataMsg == [op |-> "data", img |-> Current.img, n |-> grant]
Asked(n) == [img |-> Current.img, n |-> n]
Granted(n) == n <= CurrentSize /\ (~ShortGrant => n = CurrentSize)

\* The bootloader's answer to the command of the current action.
Replied ==
    /\ out = NoMsg
    /\ \/ /\ inp.kind \in {"FAIL", "BAD"} \/ (inp.kind = "DATA" /\ inp.n = CurrentSize + 1)
          /\ dpc = "command"
       \/ /\ inp.kind = "OKAY" /\ Current.op # "download" /\ dpc = "command"
          /\ Current.op = "flash" => content[Current.img] = staged
       \/ /\ inp.kind = "DATA" /\ Current.op = "download" /\ dpc = "data"
          /\ expect = Asked(inp.n) /\ Granted(inp.n)

\* The bootloader's answer to the data of the current download.
Stored ==
    /\ out = NoMsg /\ dpc = "command"
    /\ \/ inp.kind = "FAIL"
       \/ inp.kind = "OKAY" /\ staged = [img |-> Current.img, bytes |-> grant]

\* Where an exchange can be, on either side of the bus.
IdleShape ==
    /\ link = "gone" => Quiet
    /\ pc \in {"queue", "fetch", "ended", "done"} /\ link = "up" => Quiet /\ dpc = "command"

StatusShape ==
    pc = "status" =>
        /\ pos \in DOMAIN queue
        /\ link = "up" => \/ out = Command /\ inp.kind \in {"none", "INFO"} /\ dpc = "command"
                          \/ Replied

DataShape ==
    pc = "data" =>
        /\ pos \in DOMAIN queue /\ Current.op = "download" /\ Granted(grant)
        /\ link = "up" => Quiet /\ dpc = "data" /\ expect = Asked(grant) /\ grant > 0

FinalShape ==
    pc = "final" =>
        /\ pos \in DOMAIN queue /\ Current.op = "download" /\ Granted(grant)
        /\ link = "up" =>
              \/ /\ out = DataMsg /\ inp.kind \in {"none", "INFO"}
                 /\ dpc = "data" /\ expect = Asked(grant) /\ grant > 0
              \/ Quiet /\ dpc = "data" /\ expect = Asked(0) /\ grant = 0
              \/ Stored

ExchangeShape == IdleShape /\ StatusShape /\ DataShape /\ FinalShape

\* The buffer is ready when a flash is due, and past flashes are in place.
BufferReady ==
    pc \in {"fetch", "status"} /\ pos \in DOMAIN queue /\ Current.op = "flash" =>
        staged \in Copies(Current.img)

PastFlashes ==
    /\ pos >= 1
    /\ pc = "queue" => pos = 1
    /\ \A k \in DOMAIN queue :
          k < pos /\ queue[k].op = "flash" => content[queue[k].img] \in Copies(queue[k].img)

IndInv == TypeOK /\ QueueShape /\ ExchangeShape /\ BufferReady /\ PastFlashes

\* The order of the queue behind ProgressHonest: the queries first, then every image
\* to download, none left out between two neighbours.
ImageAt(k) == IF k = 0 THEN 0 ELSE queue[k].img
NoneBetween(a, b) == \A n \in Need : n <= a \/ b <= n

QueueOrder ==
    /\ \A k \in DOMAIN queue :
          /\ queue[k].op = "query" => ImageAt(k - 1) = 0 /\ queue[k].img = 0
          /\ queue[k].op = "download" =>
                ImageAt(k - 1) < queue[k].img /\ NoneBetween(ImageAt(k - 1), queue[k].img)
    /\ ImageAt(Len(queue)) < nextImg /\ NoneBetween(ImageAt(Len(queue)), nextImg)
    /\ nextImg > 1 => Len(queue) >= NVars

\* The counter holds the bytes of the images up to the last action executed.
Counted ==
    pc \in {"fetch", "status", "data", "final"} =>
        pos <= Len(queue) + 1 /\ flashed_size = BytesUpTo[ImageAt(pos - 1)]

\* The bar shows the counter at a flash that is past, or that ended the session.
Shown ==
    \/ posted = 0
    \/ \E k \in DOMAIN queue :
          /\ k < pos \/ (k = pos /\ pc \in {"ended", "done"})
          /\ queue[k].op = "flash" /\ posted = BytesUpTo[queue[k].img]

ProgressInd == IndInv /\ QueueOrder /\ Counted /\ Shown
==============================================================================
