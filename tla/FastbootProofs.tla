--------------------------- MODULE FastbootProofs ----------------------------
(***************************************************************************)
(* Theorems about Fastboot, for every package, every number of queries and *)
(* every bootloader the model admits.                                       *)
(***************************************************************************)
EXTENDS Fastboot, SequenceTheorems, WellFoundedInduction, TLAPS

LEMMA BlobFacts ==
    /\ Stale \in Blob /\ Torn \in Blob
    /\ \A i \in 0..NImages, n \in Nat : [img |-> i, bytes |-> n] \in Blob
    /\ \A i \in Images, n \in Nat :
          n <= Size[i] /\ (~ShortGrant => n = Size[i]) => [img |-> i, bytes |-> n] \in Copies(i)
  BY ImagesAssumption
  DEF Images, Blob, Stale, Torn, Plan!Blob, Plan!Stale, Plan!Torn, Plan!Whole,
      Plan!Images, Copies, Plan!Copies

LEMMA WireFacts ==
    /\ NoMsg \in Message /\ NoReply \in Status
    /\ \A k \in {"INFO", "OKAY", "FAIL", "DATA", "BAD"}, n \in Nat : Reply(k, n) \in Status
  BY ImagesAssumption DEF NoMsg, NoReply, Message, Status, Reply

\* The fields of what is on the wire.
LEMMA WireFields ==
    ASSUME TypeOK
    PROVE  /\ out.op \in {"none", "query", "download", "flash", "data"}
           /\ out.img \in 0..NImages /\ out.n \in Nat /\ inp.n \in Nat
           /\ expect.img \in 0..NImages /\ expect.n \in Nat
  BY DEF TypeOK, WireTypeOK, DeviceTypeOK, Message, Status

\* What the host sends for the current action is a message.
LEMMA CommandTyped ==
    ASSUME TypeOK, QueueShape, pos \in DOMAIN queue
    PROVE  /\ Current.op \in {"query", "download", "flash"}
           /\ Current.img \in 0..NImages
           /\ CurrentSize \in Nat
           /\ Current.op # "query" => Current.img \in Need /\ Current.img \in Images
<1>1. Current \in Action
  BY ElementOfSeq, LenProperties DEF TypeOK, HostTypeOK, Current
<1>2. Current.img \in 0..NImages /\ Current.op \in {"query", "download", "flash"}
  BY <1>1 DEF Action
<1>3. Current.op # "query" => Current.img \in Need /\ Current.img \in Images
  BY ImagesAssumption DEF QueueShape, Current, Images
<1>4. CurrentSize \in Nat
  BY <1>2, <1>3, ImagesAssumption DEF CurrentSize, Images
<1> QED
  BY <1>2, <1>3, <1>4

LEMMA InitTypeOK == Init => TypeOK
<1> SUFFICES ASSUME Init PROVE TypeOK
  OBVIOUS
<1>1. queue \in Seq(Action)
  BY EmptySeq DEF Init
<1>0. pc = "queue" /\ prompt = "fastboot download"
  BY DEF Init
<1>9. nextImg = 1 /\ pos = 1 /\ grant = 0 /\ flashed_size = 0 /\ posted = 0
  BY DEF Init
<1>10. nextImg <= NImages + 1
  BY <1>9, ImagesAssumption
<1>2. HostTypeOK
  BY <1>0, <1>1, <1>9, <1>10 DEF HostTypeOK
<1>3. out = NoMsg /\ inp = NoReply
  BY DEF Init
<1>4. WireTypeOK
  BY <1>3, WireFacts DEF WireTypeOK
<1>5. staged \in Blob /\ content \in [Images -> Blob]
  BY BlobFacts DEF Init
<1>7. dpc = "command" /\ expect = [img |-> 0, n |-> 0] /\ infos = 0 /\ link = "up"
  BY DEF Init
<1>8. expect \in [img : 0..NImages, n : Nat]
  BY <1>7, ImagesAssumption
<1>6. DeviceTypeOK
  BY <1>5, <1>7, <1>8 DEF DeviceTypeOK
<1> QED
  BY <1>2, <1>4, <1>6 DEF TypeOK

\* What the end of an action, a move inside _command_send and a read leave typed.
LEMMA ActionDoneTyped ==
    ASSUME HostTypeOK, CurrentSize \in Nat, NEW ok \in BOOLEAN, ActionDone(ok)
    PROVE  HostTypeOK'
<1>1. pc' \in {"fetch", "ended"} /\ queue' = queue /\ nextImg' = nextImg
      /\ grant' = grant /\ prompt' = prompt
  BY DEF ActionDone
<1>0. pos \in Nat /\ flashed_size \in Nat
  BY DEF HostTypeOK
<1>2. pos' \in Nat
  BY <1>0 DEF ActionDone
<1>3. flashed_size' \in Nat
  BY <1>0 DEF ActionDone
<1>4. posted' \in Nat
  BY DEF ActionDone, HostTypeOK
<1> QED
  BY <1>1, <1>2, <1>3, <1>4 DEF HostTypeOK

LEMMA ProceedTyped ==
    ASSUME HostTypeOK, NEW p \in {"status", "data", "final", "ended"}, NEW g \in Nat,
           Proceed(p, g)
    PROVE  HostTypeOK'
  BY DEF Proceed, HostTypeOK

LEMMA TypeStep ==
    ASSUME TypeOK, QueueShape, ExchangeShape, PastFlashes, [Next]_vars
    PROVE  TypeOK'
<1> USE DEF TypeOK
<1>1. CASE fb_queue_display
  <2>1. HostTypeOK'
    <3>2. [op |-> "query", img |-> 0] \in Action
      BY ImagesAssumption DEF Action
    <3>3. queue \in Seq(Action) /\ queue' = Append(queue, [op |-> "query", img |-> 0])
      BY <1>1 DEF fb_queue_display, queue_action, HostTypeOK
    <3>1. queue' \in Seq(Action)
      BY <3>2, <3>3, AppendProperties
    <3> QED
      BY <1>1, <3>1 DEF fb_queue_display, HostTypeOK
  <2>2. WireTypeOK'
    BY <1>1 DEF fb_queue_display, WireTypeOK
  <2>3. DeviceTypeOK'
    BY <1>1 DEF fb_queue_display, devVars, DeviceTypeOK
  <2> QED
    BY <2>1, <2>2, <2>3
<1>2. CASE QueueImage
  <2>1. HostTypeOK'
    <3>6. nextImg \in Nat
      BY DEF HostTypeOK
    <3>1. nextImg \in 0..NImages /\ nextImg' \in Nat /\ nextImg' <= NImages + 1
      BY <1>2, <3>6, ImagesAssumption DEF QueueImage
    <3>2. /\ [op |-> "download", img |-> nextImg] \in Action
          /\ [op |-> "flash", img |-> nextImg] \in Action
      BY <3>1 DEF Action
    <3>3. queue_action(queue, "download", nextImg) \in Seq(Action)
      BY <3>2, AppendProperties DEF queue_action, HostTypeOK
    <3>4. fb_queue_flash(queue, nextImg) \in Seq(Action)
      BY <3>2, <3>3, AppendProperties DEF fb_queue_flash, queue_action
    <3>5. queue' \in Seq(Action)
      BY <1>2, <3>4 DEF QueueImage, HostTypeOK
    <3> QED
      BY <1>2, <3>1, <3>5 DEF QueueImage, HostTypeOK
  <2>2. WireTypeOK'
    BY <1>2 DEF QueueImage, WireTypeOK
  <2>3. DeviceTypeOK'
    BY <1>2 DEF QueueImage, devVars, DeviceTypeOK
  <2> QED
    BY <2>1, <2>2, <2>3
<1>3. CASE StartExecute
  <2>1. HostTypeOK'
    <3>1. pc' = "fetch" /\ pos' = 1 /\ flashed_size' = PadSize
      BY <1>3 DEF StartExecute
    <3>2. pos' \in Nat /\ flashed_size' \in Nat
      BY <3>1, SessionAssumption
    <3> QED
      BY <1>3, <3>1, <3>2 DEF StartExecute, HostTypeOK
  <2>2. WireTypeOK'
    BY <1>3 DEF StartExecute, WireTypeOK
  <2>3. DeviceTypeOK'
    BY <1>3 DEF StartExecute, devVars, DeviceTypeOK
  <2> QED
    BY <2>1, <2>2, <2>3
<1>4. CASE SendCommand
  <2>4. queue \in Seq(Action) /\ pos \in Nat
    BY DEF HostTypeOK
  <2>5. Len(queue) \in Nat /\ DOMAIN queue = 1..Len(queue)
    BY <2>4, LenProperties
  <2>6. pos >= 1 /\ pos <= Len(queue)
    BY <1>4 DEF SendCommand, PastFlashes
  <2>7. pos \in DOMAIN queue
    BY <2>4, <2>5, <2>6
  <2>0. pos \in DOMAIN queue /\ CurrentSize \in Nat
    BY <2>7, CommandTyped
  <2>1. HostTypeOK'
    BY <1>4, <2>0, ActionDoneTyped, ProceedTyped DEF SendCommand, HostTypeOK
  <2>2. WireTypeOK'
    <3>1. [op |-> Current.op, img |-> Current.img, n |-> CurrentSize] \in Message
      BY <2>0, CommandTyped DEF Message
    <3> QED
      BY <1>4, <3>1 DEF SendCommand, WireTypeOK
  <2>3. DeviceTypeOK'
    BY <1>4 DEF SendCommand, devVars, DeviceTypeOK
  <2> QED
    BY <2>1, <2>2, <2>3
<1>5. CASE QueueDone
  <2>1. HostTypeOK'
    BY <1>5, ProceedTyped DEF QueueDone, HostTypeOK
  <2>2. WireTypeOK'
    BY <1>5 DEF QueueDone, WireTypeOK
  <2>3. DeviceTypeOK'
    BY <1>5 DEF QueueDone, devVars, DeviceTypeOK
  <2> QED
    BY <2>1, <2>2, <2>3
<1>6. CASE ReadInfo
  <2>1. HostTypeOK'
    BY <1>6 DEF ReadInfo, hostVars, HostTypeOK
  <2>2. WireTypeOK'
    BY <1>6, WireFacts DEF ReadInfo, Read, WireTypeOK
  <2>3. DeviceTypeOK'
    BY <1>6 DEF ReadInfo, Read, devVars, DeviceTypeOK
  <2> QED
    BY <2>1, <2>2, <2>3
<1>7. CASE CommandOkay
  <2>0. pos \in DOMAIN queue /\ CurrentSize \in Nat
    BY <1>7, CommandTyped DEF CommandOkay, ExchangeShape, StatusShape
  <2>1. HostTypeOK'
    BY <1>7, <2>0, ActionDoneTyped DEF CommandOkay
  <2>2. WireTypeOK'
    BY <1>7, WireFacts DEF CommandOkay, Read, WireTypeOK
  <2>3. DeviceTypeOK'
    BY <1>7 DEF CommandOkay, Read, devVars, DeviceTypeOK
  <2> QED
    BY <2>1, <2>2, <2>3
<1>8. CASE DownloadEmpty
  <2>1. HostTypeOK'
    BY <1>8, ProceedTyped DEF DownloadEmpty, HostTypeOK
  <2>2. WireTypeOK'
    BY <1>8, WireFacts DEF DownloadEmpty, Read, WireTypeOK
  <2>3. DeviceTypeOK'
    BY <1>8 DEF DownloadEmpty, Read, devVars, DeviceTypeOK
  <2> QED
    BY <2>1, <2>2, <2>3
<1>9. CASE DownloadGranted
  <2>1. HostTypeOK'
    BY <1>9, WireFields, ProceedTyped DEF DownloadGranted
  <2>2. WireTypeOK'
    BY <1>9, WireFacts DEF DownloadGranted, Read, WireTypeOK
  <2>3. DeviceTypeOK'
    BY <1>9 DEF DownloadGranted, Read, devVars, DeviceTypeOK
  <2> QED
    BY <2>1, <2>2, <2>3
<1>10. CASE CommandFailed
  <2>0. pos \in DOMAIN queue /\ CurrentSize \in Nat
    BY <1>10, CommandTyped DEF CommandFailed, ExchangeShape, StatusShape
  <2>1. HostTypeOK'
    BY <1>10, <2>0, ActionDoneTyped DEF CommandFailed
  <2>2. WireTypeOK'
    BY <1>10, WireFacts DEF CommandFailed, Read, WireTypeOK
  <2>3. DeviceTypeOK'
    BY <1>10 DEF CommandFailed, Read, devVars, DeviceTypeOK
  <2> QED
    BY <2>1, <2>2, <2>3
<1>11. CASE SendData
  <2>0. pos \in DOMAIN queue /\ CurrentSize \in Nat
    BY <1>11, CommandTyped DEF SendData, ExchangeShape, DataShape
  <2>1. HostTypeOK'
    BY <1>11, <2>0, ActionDoneTyped, ProceedTyped DEF SendData, HostTypeOK
  <2>2. WireTypeOK'
    <3>1. [op |-> "data", img |-> Current.img, n |-> grant] \in Message
      BY <2>0, CommandTyped DEF Message, HostTypeOK
    <3> QED
      BY <1>11, <3>1 DEF SendData, WireTypeOK
  <2>3. DeviceTypeOK'
    BY <1>11 DEF SendData, devVars, DeviceTypeOK
  <2> QED
    BY <2>1, <2>2, <2>3
<1>12. CASE FinalOkay
  <2>0. pos \in DOMAIN queue /\ CurrentSize \in Nat
    BY <1>12, CommandTyped DEF FinalOkay, ExchangeShape, FinalShape
  <2>1. HostTypeOK'
    BY <1>12, <2>0, ActionDoneTyped DEF FinalOkay
  <2>2. WireTypeOK'
    BY <1>12, WireFacts DEF FinalOkay, Read, WireTypeOK
  <2>3. DeviceTypeOK'
    BY <1>12 DEF FinalOkay, Read, devVars, DeviceTypeOK
  <2> QED
    BY <2>1, <2>2, <2>3
<1>13. CASE FinalFailed
  <2>0. pos \in DOMAIN queue /\ CurrentSize \in Nat
    BY <1>13, CommandTyped DEF FinalFailed, ExchangeShape, FinalShape
  <2>1. HostTypeOK'
    BY <1>13, <2>0, ActionDoneTyped DEF FinalFailed
  <2>2. WireTypeOK'
    BY <1>13, WireFacts DEF FinalFailed, Read, WireTypeOK
  <2>3. DeviceTypeOK'
    BY <1>13 DEF FinalFailed, Read, devVars, DeviceTypeOK
  <2> QED
    BY <2>1, <2>2, <2>3
<1>14. CASE ReadFailed
  <2>0. pos \in DOMAIN queue /\ CurrentSize \in Nat
    BY <1>14, CommandTyped DEF ReadFailed, ExchangeShape, StatusShape, FinalShape
  <2>1. HostTypeOK'
    BY <1>14, <2>0, ActionDoneTyped DEF ReadFailed
  <2>2. WireTypeOK'
    BY <1>14 DEF ReadFailed, WireTypeOK
  <2>3. DeviceTypeOK'
    BY <1>14 DEF ReadFailed, devVars, DeviceTypeOK
  <2> QED
    BY <2>1, <2>2, <2>3
<1>15. CASE Report
  <2>1. HostTypeOK'
    BY <1>15 DEF Report, HostTypeOK
  <2>2. WireTypeOK'
    BY <1>15 DEF Report, WireTypeOK
  <2>3. DeviceTypeOK'
    BY <1>15 DEF Report, devVars, DeviceTypeOK
  <2> QED
    BY <2>1, <2>2, <2>3
<1>16. CASE DevInfo
  <2>1. HostTypeOK'
    BY <1>16 DEF DevInfo, hostVars, HostTypeOK
  <2>2. WireTypeOK'
    BY <1>16, WireFacts DEF DevInfo, WireTypeOK
  <2>3. DeviceTypeOK'
    BY <1>16 DEF DevInfo, DeviceTypeOK
  <2> QED
    BY <2>1, <2>2, <2>3
<1>17. CASE DevRefuse
  <2>1. HostTypeOK'
    BY <1>17 DEF DevRefuse, Answer, hostVars, HostTypeOK
  <2>2. WireTypeOK'
    <3>1. out.n + 1 \in Nat
      BY WireFields
    <3> QED
      BY <1>17, <3>1, WireFacts DEF DevRefuse, Answer, WireTypeOK
  <2>3. DeviceTypeOK'
    BY <1>17 DEF DevRefuse, Answer, DeviceTypeOK
  <2> QED
    BY <2>1, <2>2, <2>3
<1>18. CASE DevQuery
  <2>1. HostTypeOK'
    BY <1>18 DEF DevQuery, Answer, hostVars, HostTypeOK
  <2>2. WireTypeOK'
    BY <1>18, WireFacts DEF DevQuery, Answer, WireTypeOK
  <2>3. DeviceTypeOK'
    BY <1>18 DEF DevQuery, Answer, DeviceTypeOK
  <2> QED
    BY <2>1, <2>2, <2>3
<1>19. CASE DevDownload
  <2>0. PICK n \in 0..out.n : expect' = [img |-> out.img, n |-> n] /\ Answer(Reply("DATA", n))
    BY <1>19 DEF DevDownload
  <2>4. n \in Nat /\ out.img \in 0..NImages
    BY WireFields
  <2>1. HostTypeOK'
    BY <2>0 DEF Answer, hostVars, HostTypeOK
  <2>2. WireTypeOK'
    BY <2>0, <2>4, WireFacts DEF Answer, WireTypeOK
  <2>3. DeviceTypeOK'
    BY <1>19, <2>0, <2>4 DEF DevDownload, Answer, DeviceTypeOK
  <2> QED
    BY <2>1, <2>2, <2>3
<1>20. CASE DevData
  <2>1. HostTypeOK'
    BY <1>20 DEF DevData, Answer, hostVars, HostTypeOK
  <2>2. WireTypeOK'
    BY <1>20, WireFacts DEF DevData, Answer, WireTypeOK
  <2>3. DeviceTypeOK'
    <3>1. staged' \in Blob
      BY <1>20, BlobFacts, WireFields DEF DevData
    <3> QED
      BY <1>20, <3>1 DEF DevData, Answer, DeviceTypeOK
  <2> QED
    BY <2>1, <2>2, <2>3
<1>21. CASE DevEmptyData
  <2>1. HostTypeOK'
    BY <1>21 DEF DevEmptyData, Answer, hostVars, HostTypeOK
  <2>2. WireTypeOK'
    BY <1>21, WireFacts DEF DevEmptyData, Answer, WireTypeOK
  <2>3. DeviceTypeOK'
    <3>1. staged' \in Blob
      BY <1>21, BlobFacts, WireFields DEF DevEmptyData
    <3> QED
      BY <1>21, <3>1 DEF DevEmptyData, Answer, DeviceTypeOK
  <2> QED
    BY <2>1, <2>2, <2>3
<1>22. CASE DevFlash
  <2>1. HostTypeOK'
    BY <1>22 DEF DevFlash, Answer, hostVars, HostTypeOK
  <2>2. WireTypeOK'
    BY <1>22, WireFacts DEF DevFlash, Answer, WireTypeOK
  <2>3. DeviceTypeOK'
    <3>1. content' \in [Images -> Blob]
      BY <1>22, BlobFacts DEF DevFlash, DeviceTypeOK
    <3> QED
      BY <1>22, <3>1 DEF DevFlash, Answer, DeviceTypeOK
  <2> QED
    BY <2>1, <2>2, <2>3
<1>23. CASE Unplug
  <2>1. HostTypeOK'
    BY <1>23 DEF Unplug, hostVars, HostTypeOK
  <2>2. WireTypeOK'
    BY <1>23, WireFacts DEF Unplug, WireTypeOK
  <2>3. DeviceTypeOK'
    <3>1. content' \in [Images -> Blob]
      BY <1>23, BlobFacts DEF Unplug, DeviceTypeOK
    <3> QED
      BY <1>23, <3>1 DEF Unplug, DeviceTypeOK
  <2> QED
    BY <2>1, <2>2, <2>3
<1>24. CASE UNCHANGED vars
  BY <1>24 DEF vars, hostVars, devVars, HostTypeOK, WireTypeOK, DeviceTypeOK
<1> QED
  BY <1>1, <1>2, <1>3, <1>4, <1>5, <1>6, <1>7, <1>8, <1>9, <1>10, <1>11, <1>12, <1>13,
     <1>14, <1>15, <1>16, <1>17, <1>18, <1>19, <1>20, <1>21, <1>22, <1>23, <1>24
  DEF Next, HostStep, DevStep, Done
-----------------------------------------------------------------------------
(* The queue: only the loop that fills it changes it. *)

LEMMA QueueFrame ==
    ASSUME [Next]_vars, ~fb_queue_display, ~QueueImage
    PROVE  queue' = queue /\ nextImg' = nextImg
  BY DEF Next, HostStep, DevStep, Done, StartExecute, SendCommand, QueueDone, ReadInfo,
         CommandOkay, DownloadEmpty, DownloadGranted, CommandFailed, SendData, FinalOkay,
         FinalFailed, ReadFailed, Report, ActionDone, Proceed, Answer, DevInfo, DevRefuse,
         DevQuery, DevDownload, DevData, DevEmptyData, DevFlash, Unplug, vars, hostVars

LEMMA QueueTyped ==
    ASSUME TypeOK
    PROVE  /\ queue \in Seq(Action) /\ Len(queue) \in Nat /\ DOMAIN queue = 1..Len(queue)
           /\ pos \in Nat /\ nextImg \in Nat
           /\ \A k \in DOMAIN queue : queue[k] \in Action
<1>1. queue \in Seq(Action) /\ pos \in Nat /\ nextImg \in Nat
  BY DEF TypeOK, HostTypeOK
<1> QED
  BY <1>1, LenProperties, ElementOfSeq

LEMMA DisplayQueue ==
    ASSUME TypeOK, QueueShape, fb_queue_display
    PROVE  QueueShape'
<1> DEFINE n == Len(queue)
           query == [op |-> "query", img |-> 0]
<1>1. /\ n \in Nat /\ DOMAIN queue = 1..n /\ nextImg' = nextImg
      /\ queue \in Seq(Action) /\ queue' = Append(queue, query)
  BY QueueTyped DEF fb_queue_display, queue_action
<1>2. query \in Action
  BY ImagesAssumption DEF Action
<1>3. /\ DOMAIN queue' = 1..(n + 1)
      /\ \A k \in 1..n : queue'[k] = queue[k]
      /\ queue'[n + 1] = query
  BY <1>1, <1>2, AppendProperties, LenProperties
<1> HIDE DEF n
<1>4. queue'[n + 1].op = "query"
  BY <1>3
<1>5. ASSUME NEW k \in DOMAIN queue'
      PROVE  /\ queue'[k].op # "query" => queue'[k].img \in Need /\ queue'[k].img < nextImg'
             /\ queue'[k].op = "flash" =>
                   /\ k > 1 /\ queue'[k - 1] = Download(queue'[k].img)
                   /\ \A j \in Need : j < queue'[k].img =>
                         \E m \in 1..(k - 1) : queue'[m] = Flash(j)
                   /\ \A m \in DOMAIN queue' : queue'[m] = queue'[k] => m = k
  <2>1. CASE k = n + 1
    BY <1>4, <2>1
  <2>2. CASE k \in 1..n
    <3>1. queue'[k] = queue[k] /\ k \in DOMAIN queue
      BY <2>2, <1>1, <1>3
    <3>2. queue'[k].op # "query" => queue'[k].img \in Need /\ queue'[k].img < nextImg'
      BY <3>1, <1>1 DEF QueueShape
    <3>3. ASSUME queue[k].op = "flash"
          PROVE  /\ k > 1 /\ queue'[k - 1] = Download(queue'[k].img)
                 /\ \A j \in Need : j < queue'[k].img =>
                       \E m \in 1..(k - 1) : queue'[m] = Flash(j)
      <4>1. /\ k > 1 /\ queue[k - 1] = Download(queue[k].img)
            /\ \A j \in Need : j < queue[k].img => \E m \in 1..(k - 1) : queue[m] = Flash(j)
        BY <3>1, <3>3 DEF QueueShape
      <4>2. \A m \in 1..(k - 1) : queue'[m] = queue[m]
        BY <2>2, <1>1, <1>3
      <4>3. k - 1 \in 1..(k - 1)
        BY <4>1, <2>2, <1>1
      <4> QED
        BY <3>1, <4>1, <4>2, <4>3
    <3>4. ASSUME queue[k].op = "flash", NEW m \in DOMAIN queue', queue'[m] = queue'[k]
          PROVE  m = k
      <4>1. m # n + 1
        BY <3>1, <3>4, <1>4
      <4>2. m \in 1..n
        BY <4>1, <1>1, <1>3
      <4>3. \A l \in DOMAIN queue : queue[l] = queue[k] => l = k
        BY <3>1, <3>4 DEF QueueShape
      <4> QED
        BY <4>2, <4>3, <3>1, <3>4, <1>1, <1>3
    <3> QED
      BY <3>1, <3>2, <3>3, <3>4
  <2> QED
    BY <1>1, <1>3, <2>1, <2>2
<1>6. ASSUME NEW j \in Need, j < nextImg'
      PROVE  \E m \in DOMAIN queue' : queue'[m] = Flash(j)
  <2>1. PICK m \in DOMAIN queue : queue[m] = Flash(j)
    BY <1>1, <1>6 DEF QueueShape
  <2> QED
    BY <2>1, <1>1, <1>3
<1> QED
  BY <1>5, <1>6 DEF QueueShape, Download, Flash

LEMMA ImageQueue ==
    ASSUME TypeOK, QueueShape, QueueImage
    PROVE  QueueShape'
<1>0. nextImg \in Nat /\ nextImg' = nextImg + 1 /\ Need \subseteq Nat
  BY QueueTyped, ImagesAssumption DEF QueueImage
<1>1. CASE nextImg \notin Need
  <2>1. queue' = queue
    BY <1>1 DEF QueueImage
  <2>2. \A j \in Need : j < nextImg' => j < nextImg
    BY <1>0, <1>1
  <2>3. \A i \in Need : i < nextImg => i < nextImg'
    BY <1>0
  <2> QED
    BY <2>1, <2>2, <2>3 DEF QueueShape, Download, Flash
<1>2. CASE nextImg \in Need
  <2> DEFINE n == Len(queue)
             mid == Append(queue, Download(nextImg))
  <2>1. /\ n \in Nat /\ DOMAIN queue = 1..n /\ queue \in Seq(Action)
        /\ queue' = Append(mid, Flash(nextImg))
    BY <1>2, QueueTyped DEF QueueImage, fb_queue_flash, queue_action, Download, Flash
  <2>2. nextImg \in 0..NImages
    BY <1>2, ImagesAssumption
  <2>3. Download(nextImg) \in Action /\ Flash(nextImg) \in Action
    BY <2>2 DEF Action, Download, Flash
  <2>4. /\ mid \in Seq(Action) /\ Len(mid) = n + 1
        /\ \A k \in 1..n : mid[k] = queue[k]
        /\ mid[n + 1] = Download(nextImg)
    BY <2>1, <2>3, AppendProperties
  <2> HIDE DEF mid
  <2>5. /\ Len(queue') = Len(mid) + 1 /\ queue' \in Seq(Action)
        /\ \A k \in 1..Len(mid) : queue'[k] = mid[k]
        /\ queue'[Len(mid) + 1] = Flash(nextImg)
    BY <2>1, <2>3, <2>4, AppendProperties
  <2> HIDE DEF n
  <2>6. /\ \A k \in 1..n : queue'[k] = queue[k]
        /\ queue'[n + 1] = Download(nextImg) /\ queue'[n + 2] = Flash(nextImg)
    BY <2>1, <2>4, <2>5
  <2>7. DOMAIN queue' = 1..(n + 2)
    <3>1. DOMAIN queue' = 1..Len(queue')
      BY <2>5, LenProperties
    <3> QED
      BY <2>1, <2>4, <2>5, <3>1
  <2>8. /\ Download(nextImg).op = "download" /\ Download(nextImg).img = nextImg
        /\ Flash(nextImg).op = "flash" /\ Flash(nextImg).img = nextImg
    BY DEF Download, Flash
  <2>9. ASSUME NEW k \in DOMAIN queue'
        PROVE  /\ queue'[k].op # "query" => queue'[k].img \in Need /\ queue'[k].img < nextImg'
               /\ queue'[k].op = "flash" =>
                     /\ k > 1 /\ queue'[k - 1] = Download(queue'[k].img)
                     /\ \A j \in Need : j < queue'[k].img =>
                           \E m \in 1..(k - 1) : queue'[m] = Flash(j)
                     /\ \A m \in DOMAIN queue' : queue'[m] = queue'[k] => m = k
    <3>1. CASE k = n + 1
      BY <3>1, <2>6, <2>8, <1>0, <1>2
    <3>2. CASE k = n + 2
      <4>1. queue'[k] = Flash(nextImg) /\ k - 1 = n + 1 /\ k > 1
        BY <3>2, <2>1, <2>6
      <4>2. ASSUME NEW j \in Need, j < nextImg
            PROVE  \E m \in 1..(k - 1) : queue'[m] = Flash(j)
        <5>1. PICK m \in DOMAIN queue : queue[m] = Flash(j)
          BY <4>2 DEF QueueShape
        <5>2. m \in 1..n /\ m \in 1..(k - 1)
          BY <5>1, <4>1, <2>1
        <5> QED
          BY <5>1, <5>2, <2>6
      <4>3. ASSUME NEW m \in DOMAIN queue', queue'[m] = Flash(nextImg)
            PROVE  m = k
        <5>1. m # n + 1
          BY <4>3, <2>6, <2>8
        <5>2. ASSUME m \in 1..n PROVE FALSE
          <6>1. queue[m].op = "flash" /\ queue[m].img = nextImg
            BY <5>2, <4>3, <2>6, <2>8
          <6>2. queue[m].img < nextImg
            BY <5>2, <6>1, <2>1 DEF QueueShape
          <6> QED
            BY <6>1, <6>2, <1>0
        <5> QED
          BY <5>1, <5>2, <3>2, <2>1, <2>7
      <4> QED
        BY <4>1, <4>2, <4>3, <2>6, <2>8, <1>0, <1>2
    <3>3. CASE k \in 1..n
      <4>1. queue'[k] = queue[k] /\ k \in DOMAIN queue
        BY <3>3, <2>1, <2>6
      <4>2. queue[k].op # "query" => queue[k].img \in Need /\ queue[k].img < nextImg
        BY <4>1 DEF QueueShape
      <4>3. ASSUME queue[k].op = "flash"
            PROVE  /\ k > 1 /\ queue'[k - 1] = Download(queue'[k].img)
                   /\ \A j \in Need : j < queue'[k].img =>
                         \E m \in 1..(k - 1) : queue'[m] = Flash(j)
        <5>1. /\ k > 1 /\ queue[k - 1] = Download(queue[k].img)
              /\ \A j \in Need : j < queue[k].img =>
                    \E m \in 1..(k - 1) : queue[m] = Flash(j)
          BY <4>1, <4>3 DEF QueueShape
        <5>2. \A m \in 1..(k - 1) : queue'[m] = queue[m]
          BY <3>3, <2>1, <2>6
        <5>3. k - 1 \in 1..(k - 1)
          BY <5>1, <3>3, <2>1
        <5> QED
          BY <4>1, <5>1, <5>2, <5>3
      <4>4. ASSUME queue[k].op = "flash", NEW m \in DOMAIN queue', queue'[m] = queue'[k]
            PROVE  m = k
        <5>1. m # n + 1
          BY <4>1, <4>4, <2>6, <2>8
        <5>2. m # n + 2
          BY <4>1, <4>2, <4>4, <2>6, <2>8, <1>0
        <5>3. m \in 1..n
          BY <5>1, <5>2, <2>1, <2>7
        <5>4. \A l \in DOMAIN queue : queue[l] = queue[k] => l = k
          BY <4>1, <4>4 DEF QueueShape
        <5> QED
          BY <5>3, <5>4, <4>1, <4>4, <2>1, <2>6
      <4>5. \A i \in Need : i < nextImg => i < nextImg'
        BY <1>0
      <4> QED
        BY <4>1, <4>2, <4>3, <4>4, <4>5
    <3> QED
      BY <3>1, <3>2, <3>3, <2>1, <2>7
  <2>10. ASSUME NEW j \in Need, j < nextImg'
         PROVE  \E m \in DOMAIN queue' : queue'[m] = Flash(j)
    <3>1. CASE j = nextImg
      BY <3>1, <2>1, <2>6, <2>7
    <3>2. CASE j # nextImg
      <4>1. j < nextImg
        BY <3>2, <2>10, <1>0
      <4>2. PICK m \in DOMAIN queue : queue[m] = Flash(j)
        BY <4>1 DEF QueueShape
      <4>3. m \in 1..n /\ m \in 1..(n + 2)
        BY <4>2, <2>1
      <4> QED
        BY <4>2, <4>3, <2>6, <2>7
    <3> QED
      BY <3>1, <3>2
  <2> QED
    BY <2>9, <2>10 DEF QueueShape, Download, Flash
<1> QED
  BY <1>1, <1>2

LEMMA QueueStep ==
    ASSUME TypeOK, QueueShape, [Next]_vars
    PROVE  QueueShape'
<1>1. CASE ~fb_queue_display /\ ~QueueImage
  <2>1. queue' = queue /\ nextImg' = nextImg
    BY <1>1, QueueFrame
  <2> QED
    BY <2>1 DEF QueueShape, Download, Flash
<1> QED
  BY <1>1, DisplayQueue, ImageQueue
-----------------------------------------------------------------------------
(* The exchange: one step per action.                                       *)

\* A status in the bulk-in pipe means that the device is still there.
LEMMA ReplyMeansUp ==
    ASSUME TypeOK, ExchangeShape, inp.kind # "none" \/ out.op # "none"
    PROVE  link = "up"
  BY DEF TypeOK, DeviceTypeOK, ExchangeShape, IdleShape, Quiet, NoReply, NoMsg

\* A message in the bulk-out pipe: the command or the data of the current action.
LEMMA Exchanging ==
    ASSUME TypeOK, QueueShape, ExchangeShape, out.op # "none"
    PROVE  /\ link = "up" /\ pos \in DOMAIN queue /\ inp.kind \in {"none", "INFO"}
           /\ \/ /\ pc = "status" /\ out = Command /\ dpc = "command"
                 /\ out.op = Current.op /\ out.img = Current.img /\ out.n = CurrentSize
                 /\ out.op # "data"
              \/ /\ pc = "final" /\ out = DataMsg /\ dpc = "data" /\ expect = Asked(grant)
                 /\ grant > 0 /\ out.op = "data" /\ out.img = Current.img /\ out.n = grant
<1>1. link = "up"
  BY ReplyMeansUp
<1>2. NoMsg.op = "none"
  BY DEF NoMsg
<1>3. pc \in {"status", "final"}
  BY <1>1, <1>2 DEF TypeOK, HostTypeOK, ExchangeShape, IdleShape, DataShape, Quiet
<1>4. CASE pc = "status"
  <2>1. pos \in DOMAIN queue /\ out = Command /\ inp.kind \in {"none", "INFO"} /\ dpc = "command"
    BY <1>1, <1>2, <1>4 DEF ExchangeShape, StatusShape, Replied
  <2>2. Current.op \in {"query", "download", "flash"}
    BY <2>1, CommandTyped
  <2> QED
    BY <1>1, <1>4, <2>1, <2>2 DEF Command
<1>5. CASE pc = "final"
  <2>1. pos \in DOMAIN queue /\ out = DataMsg /\ inp.kind \in {"none", "INFO"} /\ dpc = "data"
        /\ expect = Asked(grant) /\ grant > 0
    BY <1>1, <1>2, <1>5 DEF ExchangeShape, FinalShape, Quiet, Stored
  <2> QED
    BY <1>1, <1>5, <2>1 DEF DataMsg
<1> QED
  BY <1>3, <1>4, <1>5

\* Between actions the exchange has its shape when the pipes are empty.
LEMMA AtRest ==
    ASSUME pc' \in {"queue", "fetch", "ended", "done"}, out' = NoMsg, inp' = NoReply,
           link' = "up" => dpc' = "command"
    PROVE  ExchangeShape'
  BY DEF ExchangeShape, IdleShape, StatusShape, DataShape, FinalShape, Quiet, NoMsg, NoReply

LEMMA CommandReply ==
    ASSUME TypeOK, ExchangeShape, pc = "status", inp.kind \notin {"none", "INFO"}
    PROVE  link = "up" /\ pos \in DOMAIN queue /\ Replied
  BY ReplyMeansUp DEF ExchangeShape, StatusShape

LEMMA DataReply ==
    ASSUME TypeOK, ExchangeShape, pc = "final", inp.kind \notin {"none", "INFO"}
    PROVE  /\ link = "up" /\ pos \in DOMAIN queue /\ Current.op = "download"
           /\ Granted(grant) /\ Stored
  BY ReplyMeansUp DEF ExchangeShape, FinalShape, Quiet, NoReply

LEMMA ExchangeStep ==
    ASSUME TypeOK, QueueShape, ExchangeShape, PastFlashes, [Next]_vars
    PROVE  ExchangeShape'
<1>0. NoReply.kind = "none" /\ NoMsg.op = "none"
  BY DEF NoReply, NoMsg
<1>1. CASE fb_queue_display \/ QueueImage \/ StartExecute \/ QueueDone \/ Report
  <2>1. /\ pc \in {"queue", "fetch", "ended"} /\ out' = out /\ inp' = inp
        /\ dpc' = dpc /\ link' = link /\ pc' \in {"queue", "fetch", "ended", "done"}
    BY <1>1 DEF fb_queue_display, QueueImage, StartExecute, QueueDone, Report, Proceed, devVars
  <2>2. out = NoMsg /\ inp = NoReply /\ (link = "up" => dpc = "command")
    BY <2>1 DEF TypeOK, DeviceTypeOK, ExchangeShape, IdleShape, Quiet
  <2> QED
    BY <2>1, <2>2, AtRest
<1>2. CASE SendCommand
  <2>1. /\ pc = "fetch" /\ inp' = inp /\ dpc' = dpc /\ link' = link
        /\ queue' = queue /\ pos \in DOMAIN queue
    <3>1. pos \in Nat /\ Len(queue) \in Nat /\ DOMAIN queue = 1..Len(queue) /\ pos >= 1
      BY QueueTyped DEF PastFlashes
    <3> QED
      BY <1>2, <3>1 DEF SendCommand, Proceed, ActionDone, devVars
  <2>2. out = NoMsg /\ inp = NoReply /\ (link = "up" => dpc = "command")
    BY <2>1 DEF TypeOK, DeviceTypeOK, ExchangeShape, IdleShape, Quiet
  <2>3. CASE link = "up"
    <3>1. pc' = "status" /\ pos' = pos /\ out' = Command
      BY <1>2, <2>3 DEF SendCommand, Proceed, Command
    <3>2. Command' = Command
      BY <2>1, <3>1 DEF Command, CurrentSize, Current
    <3> QED
      BY <2>1, <2>2, <2>3, <3>1, <3>2, <1>0
      DEF ExchangeShape, IdleShape, StatusShape, DataShape, FinalShape
  <2>4. CASE link = "gone"
    <3>1. pc' = "ended" /\ out' = out
      BY <1>2, <2>4 DEF SendCommand, ActionDone
    <3> QED
      BY <2>1, <2>2, <2>4, <3>1, AtRest
  <2> QED
    BY <2>3, <2>4 DEF TypeOK, DeviceTypeOK
<1>3. CASE ReadInfo
  <2>1. /\ pc' = pc /\ queue' = queue /\ pos' = pos /\ grant' = grant /\ out' = out
        /\ inp' = NoReply /\ dpc' = dpc /\ link' = link /\ expect' = expect
        /\ staged' = staged /\ content' = content
        /\ pc \in {"status", "final"} /\ inp.kind = "INFO"
    BY <1>3 DEF ReadInfo, Read, hostVars, devVars
  <2>2. link = "up"
    BY <2>1, ReplyMeansUp
  <2>3. /\ Command' = Command /\ DataMsg' = DataMsg /\ Asked(grant)' = Asked(grant)
        /\ Granted(grant)' = Granted(grant) /\ Current' = Current
    BY <2>1 DEF Command, CurrentSize, Current, DataMsg, Asked, Granted
  <2>4. CASE pc = "status"
    BY <2>1, <2>2, <2>3, <2>4, <1>0
    DEF ExchangeShape, IdleShape, StatusShape, DataShape, FinalShape, Replied
  <2>5. CASE pc = "final"
    BY <2>1, <2>2, <2>3, <2>5, <1>0
    DEF ExchangeShape, IdleShape, StatusShape, DataShape, FinalShape, Stored, Quiet
  <2> QED
    BY <2>1, <2>4, <2>5
<1>4. CASE CommandOkay
  <2>1. /\ pc = "status" /\ inp.kind = "OKAY" /\ Current.op # "download"
        /\ pc' = "fetch" /\ out' = out /\ inp' = NoReply /\ dpc' = dpc
    BY <1>4 DEF CommandOkay, Read, ActionDone, devVars
  <2>2. Replied
    BY <2>1, CommandReply
  <2> QED
    BY <2>1, <2>2, AtRest DEF Replied
<1>5. CASE CommandFailed
  <2>1. /\ pc = "status" /\ inp.kind \notin {"none", "INFO"}
        /\ pc' = "ended" /\ out' = out /\ inp' = NoReply /\ dpc' = dpc
        /\ Current.op # "download" => inp.kind # "OKAY"
        /\ Current.op = "download" => ~GrantsNothing /\ ~GrantsData
    BY <1>5 DEF CommandFailed, Read, ActionDone, devVars
  <2>2. Replied /\ pos \in DOMAIN queue
    BY <2>1, CommandReply
  <2>3. ASSUME inp.kind = "DATA", Current.op = "download", Granted(inp.n) PROVE FALSE
    <3>1. inp.n \in Nat /\ CurrentSize \in Nat
      BY <2>2, WireFields, CommandTyped
    <3>2. inp.n <= CurrentSize
      BY <2>3 DEF Granted
    <3>3. inp.n = 0 \/ inp.n \in 1..CurrentSize
      BY <3>1, <3>2
    <3> QED
      BY <2>1, <2>3, <3>3 DEF GrantsNothing, GrantsData
  <2>4. dpc = "command" /\ out = NoMsg
    BY <2>1, <2>2, <2>3 DEF Replied
  <2> QED
    BY <2>1, <2>4, AtRest
<1>6. CASE DownloadEmpty \/ DownloadGranted
  <2>1. /\ pc = "status" /\ inp.kind \in {"OKAY", "DATA"} /\ Current.op = "download"
        /\ out' = out /\ inp' = NoReply /\ dpc' = dpc /\ link' = link /\ expect' = expect
        /\ queue' = queue /\ pos' = pos
    BY <1>6 DEF DownloadEmpty, DownloadGranted, GrantsNothing, GrantsData, Read, Proceed, devVars
  <2>2. link = "up" /\ Replied /\ pos \in DOMAIN queue
    BY <2>1, CommandReply
  <2>3. inp.n \in Nat /\ CurrentSize \in Nat
    BY <2>2, WireFields, CommandTyped
  <2>4. /\ out = NoMsg /\ dpc = "data" /\ expect = Asked(inp.n) /\ Granted(inp.n)
    <3>1. inp.kind = "OKAY" => Current.op # "download"
      BY <2>2 DEF Replied
    <3>2. inp.kind = "DATA"
      BY <2>1, <3>1
    <3>3. inp.n # CurrentSize + 1
      <4>1. inp.n = 0 \/ inp.n \in 1..CurrentSize
        BY <1>6, <3>2 DEF DownloadEmpty, DownloadGranted, GrantsNothing, GrantsData
      <4> QED
        BY <2>3, <4>1
    <3> QED
      BY <2>2, <3>2, <3>3 DEF Replied
  <2>5. Current' = Current /\ CurrentSize' = CurrentSize
    BY <2>1 DEF CurrentSize, Current
  <2>6. CASE DownloadEmpty
    <3>1. pc' = "final" /\ grant' = 0
      BY <2>6 DEF DownloadEmpty, Proceed
    <3>2. inp.n = 0
      <4>1. inp.kind = "DATA"
        BY <2>1, <2>2 DEF Replied
      <4> QED
        BY <2>6, <4>1 DEF DownloadEmpty, GrantsNothing
    <3>3. Granted(grant)' /\ expect' = Asked(0)'
      BY <2>1, <2>4, <2>5, <3>1, <3>2 DEF Granted, Asked
    <3> QED
      BY <2>1, <2>2, <2>4, <2>5, <3>1, <3>3
      DEF ExchangeShape, IdleShape, StatusShape, DataShape, FinalShape, Quiet
  <2>7. CASE DownloadGranted
    <3>1. pc' = "data" /\ grant' = inp.n /\ inp.n \in 1..CurrentSize
      BY <2>7 DEF DownloadGranted, Proceed, GrantsData
    <3>2. grant' > 0
      BY <2>3, <3>1
    <3>3. Granted(grant)' /\ expect' = Asked(grant)'
      BY <2>1, <2>4, <2>5, <3>1 DEF Granted, Asked
    <3> QED
      BY <2>1, <2>2, <2>4, <2>5, <3>1, <3>2, <3>3
      DEF ExchangeShape, IdleShape, StatusShape, DataShape, FinalShape, Quiet
  <2> QED
    BY <1>6, <2>6, <2>7
<1>7. CASE SendData
  <2>1. /\ pc = "data" /\ inp' = inp /\ dpc' = dpc /\ link' = link /\ expect' = expect
        /\ queue' = queue /\ grant' = grant
    BY <1>7 DEF SendData, Proceed, ActionDone, devVars
  <2>2. pos \in DOMAIN queue /\ Current.op = "download" /\ Granted(grant) /\ inp = NoReply
        /\ out = NoMsg
    BY <2>1 DEF TypeOK, DeviceTypeOK, ExchangeShape, DataShape, IdleShape, Quiet
  <2>3. CASE link = "up"
    <3>1. pc' = "final" /\ pos' = pos /\ out' = DataMsg
      BY <1>7, <2>3 DEF SendData, Proceed, DataMsg
    <3>2. /\ Current' = Current /\ DataMsg' = DataMsg /\ Asked(grant)' = Asked(grant)
          /\ Granted(grant)' = Granted(grant)
      BY <2>1, <3>1 DEF CurrentSize, Current, DataMsg, Asked, Granted
    <3>3. dpc = "data" /\ expect = Asked(grant) /\ grant > 0
      BY <2>1, <2>3 DEF ExchangeShape, DataShape
    <3> QED
      BY <2>1, <2>2, <2>3, <3>1, <3>2, <3>3, <1>0
      DEF ExchangeShape, IdleShape, StatusShape, DataShape, FinalShape
  <2>4. CASE link = "gone"
    <3>1. pc' = "ended" /\ out' = out
      BY <1>7, <2>4 DEF SendData, ActionDone
    <3> QED
      BY <2>1, <2>2, <2>4, <3>1, AtRest
  <2> QED
    BY <2>3, <2>4 DEF TypeOK, DeviceTypeOK
<1>8. CASE FinalOkay \/ FinalFailed
  <2>1. /\ pc = "final" /\ inp.kind \notin {"none", "INFO"} /\ pc' \in {"fetch", "ended"}
        /\ out' = out /\ inp' = NoReply /\ dpc' = dpc
    BY <1>8 DEF FinalOkay, FinalFailed, Read, ActionDone, devVars
  <2>2. Stored
    BY <2>1, DataReply
  <2> QED
    BY <2>1, <2>2, AtRest DEF Stored
<1>9. CASE ReadFailed
  <2>1. pc' = "ended" /\ link = "gone" /\ link' = link /\ out' = out /\ inp' = inp
    BY <1>9 DEF ReadFailed, ActionDone, devVars
  <2>2. out = NoMsg /\ inp = NoReply
    BY <2>1 DEF ExchangeShape, IdleShape, Quiet
  <2> QED
    BY <2>1, <2>2, AtRest
<1>10. CASE Unplug
  <2>1. /\ link' = "gone" /\ out' = NoMsg /\ inp' = NoReply
        /\ pc' = pc /\ queue' = queue /\ pos' = pos /\ grant' = grant
    BY <1>10 DEF Unplug, hostVars
  <2>2. Current' = Current /\ Granted(grant)' = Granted(grant)
    BY <2>1 DEF Current, CurrentSize, Granted
  <2> QED
    BY <2>1, <2>2
    DEF ExchangeShape, IdleShape, StatusShape, DataShape, FinalShape, Quiet, NoMsg, NoReply
<1>11. CASE DevStep
  <2>1. pc' = pc /\ queue' = queue /\ pos' = pos /\ grant' = grant /\ link' = link /\ link = "up"
    BY <1>11 DEF DevStep, DevInfo, DevRefuse, DevQuery, DevDownload, DevData, DevEmptyData,
                 DevFlash, Answer, Ready, hostVars
  <2>2. /\ Current' = Current /\ CurrentSize' = CurrentSize /\ Command' = Command
        /\ DataMsg' = DataMsg /\ \A n : Asked(n)' = Asked(n)
        /\ Granted(grant)' = Granted(grant)
    BY <2>1 DEF Current, CurrentSize, Command, DataMsg, Asked, Granted
  <2>3. ASSUME pc = "status", pos \in DOMAIN queue,
               \/ out' = Command' /\ inp'.kind \in {"none", "INFO"} /\ dpc' = "command"
               \/ Replied'
        PROVE  ExchangeShape'
    BY <2>1, <2>3 DEF ExchangeShape, IdleShape, StatusShape, DataShape, FinalShape
  <2>4. ASSUME pc = "final",
               \/ /\ out' = DataMsg' /\ inp'.kind \in {"none", "INFO"}
                  /\ dpc' = "data" /\ expect' = Asked(grant)' /\ grant' > 0
               \/ Stored'
        PROVE  ExchangeShape'
    <3>1. pos \in DOMAIN queue /\ Current.op = "download" /\ Granted(grant)
      BY <2>4 DEF ExchangeShape, FinalShape
    <3> QED
      BY <2>1, <2>2, <2>4, <3>1 DEF ExchangeShape, IdleShape, StatusShape, DataShape, FinalShape
  <2>5. CASE DevInfo
    <3>1. /\ out.op # "none" /\ out' = out /\ dpc' = dpc /\ expect' = expect
          /\ inp' = Reply("INFO", 0)
      BY <2>5 DEF DevInfo
    <3>2. inp'.kind = "INFO"
      BY <3>1 DEF Reply
    <3> QED
      BY <2>1, <2>2, <2>3, <2>4, <3>1, <3>2, Exchanging
  <2>6. CASE DevRefuse
    <3>1. /\ out.op \in {"query", "download", "flash"} /\ out' = NoMsg /\ dpc' = "command"
          /\ inp' \in {Reply("FAIL", 0), Reply("BAD", 0), Reply("DATA", out.n + 1)}
      BY <2>6 DEF DevRefuse, Ready, Answer
    <3>2. pc = "status" /\ pos \in DOMAIN queue /\ out.n = CurrentSize
      BY <3>1, Exchanging
    <3>3. inp'.kind \in {"FAIL", "BAD"} \/ (inp'.kind = "DATA" /\ inp'.n = CurrentSize + 1)
      BY <3>1, <3>2 DEF Reply
    <3>4. Replied'
      BY <2>2, <3>1, <3>3 DEF Replied
    <3> QED
      BY <2>3, <3>2, <3>4
  <2>7. CASE DevQuery
    <3>1. out.op = "query" /\ out' = NoMsg /\ dpc' = "command" /\ inp' = Reply("OKAY", 0)
      BY <2>7 DEF DevQuery, Ready, Answer
    <3>2. pc = "status" /\ pos \in DOMAIN queue /\ Current.op = "query"
      BY <3>1, Exchanging
    <3>3. Replied'
      BY <2>2, <3>1, <3>2 DEF Replied, Reply
    <3> QED
      BY <2>3, <3>2, <3>3
  <2>8. CASE DevDownload
    <3>0. PICK n \in 0..out.n : /\ n = out.n \/ ShortGrant
                                /\ expect' = [img |-> out.img, n |-> n]
                                /\ Answer(Reply("DATA", n))
      BY <2>8 DEF DevDownload
    <3>1. out.op = "download" /\ out' = NoMsg /\ dpc' = "data" /\ inp' = Reply("DATA", n)
      BY <2>8, <3>0 DEF DevDownload, Ready, Answer
    <3>2. pc = "status" /\ pos \in DOMAIN queue /\ Current.op = "download"
          /\ out.img = Current.img /\ out.n = CurrentSize
      BY <3>1, Exchanging
    <3>3. inp'.kind = "DATA" /\ inp'.n = n
      BY <3>1 DEF Reply
    <3>4. n <= CurrentSize /\ (~ShortGrant => n = CurrentSize)
      BY <3>0, <3>2, WireFields
    <3>5. expect' = Asked(inp.n)' /\ Granted(inp.n)'
      BY <2>2, <3>0, <3>2, <3>3, <3>4 DEF Asked, Granted
    <3>6. Replied'
      BY <2>2, <3>1, <3>2, <3>3, <3>5 DEF Replied
    <3> QED
      BY <2>3, <3>2, <3>6
  <2>9. CASE DevData
    <3>1. /\ out.op = "data" /\ out' = NoMsg /\ dpc' = "command"
          /\ \/ staged' = [img |-> out.img, bytes |-> out.n] /\ inp' = Reply("OKAY", 0)
             \/ inp' = Reply("FAIL", 0)
      BY <2>9 DEF DevData, Ready, Answer
    <3>2. pc = "final" /\ out.img = Current.img /\ out.n = grant
      BY <3>1, Exchanging
    <3>3. Stored'
      BY <2>1, <2>2, <3>1, <3>2 DEF Stored, Reply
    <3> QED
      BY <2>4, <3>2, <3>3
  <2>10. CASE DevEmptyData
    <3>1. /\ out.op = "none" /\ inp.kind = "none" /\ dpc = "data" /\ expect.n = 0
          /\ out' = NoMsg /\ dpc' = "command" /\ inp' = Reply("OKAY", 0)
          /\ staged' = [img |-> expect.img, bytes |-> 0]
      BY <2>10 DEF DevEmptyData, Ready, Answer
    <3>2. pc \notin {"queue", "fetch", "ended", "done"}
      BY <2>1, <3>1 DEF ExchangeShape, IdleShape
    <3>3. pc # "status"
      BY <2>1, <3>1 DEF ExchangeShape, StatusShape, Replied
    <3>4. pc # "data"
      BY <2>1, <3>1 DEF ExchangeShape, DataShape, Asked
    <3>5. pc = "final"
      BY <3>2, <3>3, <3>4 DEF TypeOK, HostTypeOK
    <3>6. expect = Asked(0) /\ grant = 0
      BY <2>1, <3>1, <3>5 DEF ExchangeShape, FinalShape, Stored, Asked
    <3>7. staged' = [img |-> Current.img, bytes |-> grant]
      BY <3>1, <3>6 DEF Asked
    <3>8. Stored'
      BY <2>1, <2>2, <3>1, <3>7 DEF Stored, Reply
    <3> QED
      BY <2>4, <3>5, <3>8
  <2>11. CASE DevFlash
    <3>1. /\ out.op = "flash" /\ out' = NoMsg /\ dpc' = "command" /\ staged' = staged
          /\ \/ content' = [content EXCEPT ![out.img] = staged] /\ inp' = Reply("OKAY", 0)
             \/ inp' = Reply("FAIL", 0)
      BY <2>11 DEF DevFlash, Ready, Answer
    <3>2. pc = "status" /\ pos \in DOMAIN queue /\ out.img = Current.img /\ Current.op = "flash"
      BY <3>1, Exchanging
    <3>3. Current.img \in Images /\ content \in [Images -> Blob]
      BY <3>2, CommandTyped DEF TypeOK, DeviceTypeOK
    <3>4. CASE inp' = Reply("FAIL", 0)
      <4>1. Replied'
        BY <3>1, <3>4 DEF Replied, Reply
      <4> QED
        BY <2>3, <3>2, <4>1
    <3>5. CASE content' = [content EXCEPT ![out.img] = staged] /\ inp' = Reply("OKAY", 0)
      <4>1. content'[Current.img] = staged'
        BY <3>1, <3>2, <3>3, <3>5
      <4>2. Replied'
        BY <2>2, <3>1, <3>2, <3>5, <4>1 DEF Replied, Reply
      <4> QED
        BY <2>3, <3>2, <4>2
    <3> QED
      BY <3>1, <3>4, <3>5
  <2> QED
    BY <1>11, <2>5, <2>6, <2>7, <2>8, <2>9, <2>10, <2>11 DEF DevStep
<1>12. CASE UNCHANGED vars
  BY <1>12
  DEF vars, hostVars, devVars, ExchangeShape, IdleShape, StatusShape, DataShape, FinalShape,
      Quiet, Replied, Stored, Command, DataMsg, Asked, Granted, Current, CurrentSize
<1> QED
  BY <1>1, <1>2, <1>3, <1>4, <1>5, <1>6, <1>7, <1>8, <1>9, <1>10, <1>11, <1>12
  DEF Next, HostStep, Done
-----------------------------------------------------------------------------
(* The download buffer and the flashes that are past.                       *)

\* The steps that move the position in the queue, and the ones that write the
\* buffer or a partition; everything else leaves all of them alone.
LEMMA PositionFrame ==
    ASSUME [Next]_vars
    PROVE  \/ pos' = pos
           \/ StartExecute \/ CommandOkay \/ FinalOkay
  BY DEF Next, HostStep, DevStep, Done, fb_queue_display, QueueImage, SendCommand, QueueDone,
         ReadInfo, DownloadEmpty, DownloadGranted, CommandFailed, SendData,
         FinalFailed, ReadFailed, Report, ActionDone, Proceed, Answer, DevInfo, DevRefuse,
         DevQuery, DevDownload, DevData, DevEmptyData, DevFlash, Unplug, vars, hostVars

LEMMA ContentFrame ==
    ASSUME [Next]_vars, ~DevFlash, ~Unplug
    PROVE  content' = content
  BY DEF Next, HostStep, DevStep, Done, fb_queue_display, QueueImage, StartExecute,
         SendCommand, QueueDone, ReadInfo, CommandOkay, DownloadEmpty, DownloadGranted,
         CommandFailed, SendData, FinalOkay, FinalFailed, ReadFailed, Report, Read, Answer,
         DevInfo, DevRefuse, DevQuery, DevDownload, DevData, DevEmptyData, vars, devVars

LEMMA StagedFrame ==
    ASSUME [Next]_vars, ~DevData, ~DevEmptyData
    PROVE  staged' = staged
  BY DEF Next, HostStep, DevStep, Done, fb_queue_display, QueueImage, StartExecute,
         SendCommand, QueueDone, ReadInfo, CommandOkay, DownloadEmpty, DownloadGranted,
         CommandFailed, SendData, FinalOkay, FinalFailed, ReadFailed, Report, Read, Answer,
         DevInfo, DevRefuse, DevQuery, DevDownload, DevFlash, Unplug, vars, devVars

\* The worker is at a flash after it only if it was there before, or just got to it.
LEMMA FetchFrame ==
    ASSUME [Next]_vars, pc' \in {"fetch", "status"}
    PROVE  pc \in {"fetch", "status"} \/ StartExecute \/ FinalOkay
  BY DEF Next, HostStep, DevStep, Done, fb_queue_display, QueueImage, SendCommand, QueueDone,
         ReadInfo, CommandOkay, DownloadEmpty, DownloadGranted, CommandFailed, SendData,
         FinalFailed, ReadFailed, Report, ActionDone, Proceed, Answer, DevInfo, DevRefuse,
         DevQuery, DevDownload, DevData, DevEmptyData, DevFlash, Unplug, vars, hostVars

\* The action after the current one, when it is a flash, belongs to the current one.
LEMMA FlashFollows ==
    ASSUME TypeOK, QueueShape, pos \in DOMAIN queue, pos + 1 \in DOMAIN queue,
           queue[pos + 1].op = "flash"
    PROVE  Current = Download(queue[pos + 1].img) /\ queue[pos + 1].img \in Images
<1> DEFINE k == pos + 1
<1>1. k \in DOMAIN queue /\ queue[k].op = "flash"
  OBVIOUS
<1>2. pos \in Nat
  BY QueueTyped
<1>3. k - 1 = pos
  BY <1>2
<1> HIDE DEF k
<1>4. queue[k - 1] = Download(queue[k].img) /\ queue[k].img \in Need
  BY <1>1 DEF QueueShape
<1>5. queue[pos] = Download(queue[pos + 1].img) /\ queue[pos + 1].img \in Need
  BY <1>3, <1>4 DEF k
<1> QED
  BY <1>5, ImagesAssumption DEF Current, Images

LEMMA BufferStep ==
    ASSUME TypeOK, QueueShape, ExchangeShape, PastFlashes, BufferReady, [Next]_vars
    PROVE  BufferReady'
<1> SUFFICES ASSUME pc' \in {"fetch", "status"}, pos' \in DOMAIN queue', Current'.op = "flash"
             PROVE  staged' \in Copies(Current'.img)
  BY DEF BufferReady, Copies, Plan!Copies, Plan!Whole
<1>1. ~fb_queue_display /\ ~QueueImage => queue' = queue
  BY QueueFrame
<1>2. CASE StartExecute
  <2>1. pos' = 1 /\ queue' = queue
    BY <1>2 DEF StartExecute
  <2>2. 1 \in DOMAIN queue /\ queue[1].op = "flash"
    BY <2>1 DEF Current
  <2>3. 1 > 1
    BY <2>2 DEF QueueShape
  <2> QED
    BY <2>3
<1>3. CASE FinalOkay
  <2>1. /\ pc = "final" /\ inp.kind = "OKAY" /\ pos' = pos + 1 /\ queue' = queue
        /\ staged' = staged
    BY <1>3 DEF FinalOkay, Read, ActionDone, devVars
  <2>2. /\ pos \in DOMAIN queue /\ Current.op = "download" /\ Granted(grant)
        /\ staged = [img |-> Current.img, bytes |-> grant]
    BY <2>1, DataReply DEF Stored
  <2>3. Current' = queue[pos + 1] /\ pos + 1 \in DOMAIN queue
    BY <2>1 DEF Current
  <2>4. Current = Download(Current'.img) /\ Current'.img \in Images
    BY <2>2, <2>3, FlashFollows
  <2>5. Current.img = Current'.img
    BY <2>4 DEF Download
  <2>6. grant <= Size[Current.img] /\ (~ShortGrant => grant = Size[Current.img])
    BY <2>2 DEF Granted, CurrentSize
  <2>7. grant \in Nat
    BY DEF TypeOK, HostTypeOK
  <2> QED
    BY <2>1, <2>2, <2>4, <2>5, <2>6, <2>7, BlobFacts
<1>4. CASE CommandOkay
  <2>1. /\ pc = "status" /\ pos' = pos + 1 /\ queue' = queue /\ Current.op # "download"
        /\ inp.kind = "OKAY"
    BY <1>4 DEF CommandOkay, ActionDone
  <2>2. pos \in DOMAIN queue /\ pos + 1 \in DOMAIN queue /\ queue[pos + 1].op = "flash"
    BY <2>1, CommandReply DEF Current
  <2>3. Current = Download(queue[pos + 1].img)
    BY <2>2, FlashFollows
  <2> QED
    BY <2>1, <2>3 DEF Download
<1>5. CASE ~StartExecute /\ ~FinalOkay /\ ~CommandOkay
  <2>1. pc \in {"fetch", "status"} /\ pos' = pos
    BY <1>5, FetchFrame, PositionFrame
  <2>2. ~fb_queue_display /\ ~QueueImage
    BY <2>1 DEF fb_queue_display, QueueImage
  <2>3. ~DevData
    <3>1. DevData => out.op = "data"
      BY DEF DevData, Ready
    <3> QED
      BY <2>1, <3>1, Exchanging
  <2>4. ~DevEmptyData
    <3>1. DevEmptyData => link = "up" /\ out.op = "none" /\ inp.kind = "none" /\ dpc = "data"
      BY DEF DevEmptyData, Ready
    <3>2. link = "up" /\ out.op = "none" /\ inp.kind = "none" /\ dpc = "data" => pc # "status"
      BY DEF ExchangeShape, StatusShape, Replied
    <3>3. link = "up" /\ dpc = "data" => pc # "fetch"
      BY DEF ExchangeShape, IdleShape
    <3> QED
      BY <2>1, <3>1, <3>2, <3>3
  <2>5. staged' = staged /\ queue' = queue
    BY <1>1, <2>2, <2>3, <2>4, StagedFrame
  <2>6. Current' = Current
    BY <2>1, <2>5 DEF Current
  <2> QED
    BY <2>1, <2>5, <2>6 DEF BufferReady
<1> QED
  BY <1>2, <1>3, <1>4, <1>5

\* A flash that is past is not the one the bootloader is working on.
LEMMA OtherPartition ==
    ASSUME TypeOK, QueueShape, pos \in DOMAIN queue, Current.op = "flash",
           NEW k \in DOMAIN queue, k < pos, queue[k].op = "flash"
    PROVE  queue[k].img # Current.img
<1>1. queue[k] \in Action /\ queue[pos] \in Action
  BY QueueTyped
<1>2. queue[k] = queue[pos] => k = pos
  BY DEF QueueShape, Current
<1>3. k \in Nat /\ pos \in Nat
  BY QueueTyped
<1>4. queue[k] # queue[pos]
  BY <1>2, <1>3
<1> QED
  BY <1>1, <1>4 DEF Action, Current

LEMMA PastStep ==
    ASSUME TypeOK, QueueShape, ExchangeShape, PastFlashes, BufferReady, [Next]_vars
    PROVE  PastFlashes'
<1>1. pos \in Nat /\ pos >= 1
  BY QueueTyped DEF PastFlashes
<1>2. pos' >= 1 /\ (pc' = "queue" => pos' = 1)
  <2>1. CASE StartExecute \/ CommandOkay \/ FinalOkay
    <3>1. pc' = "fetch" /\ (pos' = 1 \/ pos' = pos + 1)
      BY <2>1 DEF StartExecute, CommandOkay, FinalOkay, ActionDone
    <3> QED
      BY <1>1, <3>1
  <2>2. CASE pos' = pos
    <3>1. pc' = "queue" => pc = "queue"
      BY DEF Next, HostStep, DevStep, Done, fb_queue_display, QueueImage, StartExecute,
             SendCommand, QueueDone, ReadInfo, CommandOkay, DownloadEmpty, DownloadGranted,
             CommandFailed, SendData, FinalOkay, FinalFailed, ReadFailed, Report, ActionDone,
             Proceed, Answer, DevInfo, DevRefuse, DevQuery, DevDownload, DevData,
             DevEmptyData, DevFlash, Unplug, vars, hostVars
    <3> QED
      BY <1>1, <2>2, <3>1 DEF PastFlashes
  <2> QED
    BY <2>1, <2>2, PositionFrame
<1>3. ASSUME NEW k \in DOMAIN queue', k < pos', queue'[k].op = "flash"
      PROVE  content'[queue'[k].img] \in Copies(queue'[k].img)
  <2>1. CASE fb_queue_display \/ QueueImage
    <3>1. pc = "queue" /\ pos' = pos
      BY <2>1 DEF fb_queue_display, QueueImage
    <3>2. pos' = 1
      BY <3>1 DEF PastFlashes
    <3>3. queue' \in Seq(Action)
      BY TypeStep DEF TypeOK, HostTypeOK
    <3>4. k \in Nat /\ k >= 1
      BY <3>3, LenProperties
    <3> QED
      BY <1>3, <3>2, <3>4
  <2>2. CASE ~fb_queue_display /\ ~QueueImage
    <3>1. queue' = queue
      BY <2>2, QueueFrame
    <3>2. k \in DOMAIN queue /\ queue[k].op = "flash" /\ k \in Nat
      BY <1>3, <3>1, QueueTyped
    <3>3. queue[k].img \in Images
      BY <3>2, ImagesAssumption DEF QueueShape, Images
    <3>4. CASE k < pos
      <4>1. content[queue[k].img] \in Copies(queue[k].img)
        BY <1>3, <3>2, <3>4 DEF PastFlashes
      <4>2. CASE DevFlash \/ (Unplug /\ out.op = "flash")
        <5>1. out.op = "flash" /\ \E b : content' = content \/ content' = [content EXCEPT ![out.img] = b]
          BY <4>2 DEF DevFlash, Unplug, Ready
        <5>2. pos \in DOMAIN queue /\ Current.op = "flash" /\ out.img = Current.img
          BY <5>1, Exchanging
        <5>3. queue[k].img # out.img
          BY <3>2, <3>4, <5>2, OtherPartition
        <5>4. content'[queue[k].img] = content[queue[k].img]
          BY <3>3, <5>1, <5>3 DEF TypeOK, DeviceTypeOK
        <5> QED
          BY <3>1, <4>1, <5>4
      <4>3. CASE ~DevFlash /\ ~(Unplug /\ out.op = "flash")
        <5>1. Unplug /\ out.op # "flash" => content' = content
          BY DEF Unplug
        <5>2. content' = content
          BY <4>3, <5>1, ContentFrame
        <5> QED
          BY <3>1, <4>1, <5>2
      <4> QED
        BY <4>2, <4>3
    <3>5. CASE ~(k < pos)
      <4>1. ~StartExecute
        <5>1. StartExecute => pos' = 1
          BY DEF StartExecute
        <5> QED
          BY <1>1, <1>3, <3>2, <3>5, <5>1
      <4>2. pos' # pos
        BY <1>3, <3>5
      <4>3. CASE CommandOkay
        <5>1. pc = "status" /\ inp.kind = "OKAY" /\ pos' = pos + 1 /\ content' = content
          BY <4>3 DEF CommandOkay, Read, ActionDone, devVars
        <5>2. k = pos
          BY <1>1, <1>3, <3>2, <3>5, <5>1
        <5>3. Replied /\ pos \in DOMAIN queue
          BY <5>1, CommandReply
        <5>4. Current = queue[k] /\ Current.op = "flash"
          BY <3>2, <5>2 DEF Current
        <5>5. content[Current.img] = staged
          BY <5>1, <5>3, <5>4 DEF Replied
        <5>6. staged \in Copies(Current.img)
          BY <1>3, <5>1, <5>3, <5>4 DEF BufferReady
        <5> QED
          BY <3>1, <5>1, <5>4, <5>5, <5>6
      <4>4. CASE FinalOkay
        <5>1. pc = "final" /\ inp.kind = "OKAY" /\ pos' = pos + 1
          BY <4>4 DEF FinalOkay, ActionDone
        <5>2. k = pos
          BY <1>1, <1>3, <3>2, <3>5, <5>1
        <5>3. Current.op = "download"
          BY <5>1, DataReply
        <5> QED
          BY <3>2, <5>2, <5>3 DEF Current
      <4> QED
        BY <4>1, <4>2, <4>3, <4>4, PositionFrame
    <3> QED
      BY <3>4, <3>5
  <2> QED
    BY <2>1, <2>2
<1> QED
  BY <1>2, <1>3 DEF PastFlashes, Copies, Plan!Copies, Plan!Whole

-----------------------------------------------------------------------------
(* The theorems. *)

LEMMA InitIndInv == Init => IndInv
<1> SUFFICES ASSUME Init PROVE IndInv
  OBVIOUS
<1>1. TypeOK
  BY InitTypeOK
<1>2. queue = <<>> /\ nextImg = 1 /\ pos = 1 /\ pc = "queue"
  BY DEF Init
<1>3. DOMAIN queue = {}
  BY <1>2
<1>4. \A j \in Need : ~(j < nextImg)
  BY <1>2, ImagesAssumption
<1>5. QueueShape
  BY <1>3, <1>4 DEF QueueShape
<1>6. out = NoMsg /\ inp = NoReply /\ dpc = "command"
  BY DEF Init
<1>7. ExchangeShape
  BY <1>2, <1>6 DEF ExchangeShape, IdleShape, StatusShape, DataShape, FinalShape, Quiet
<1>8. BufferReady
  BY <1>2 DEF BufferReady
<1>9. PastFlashes
  BY <1>2, <1>3 DEF PastFlashes
<1> QED
  BY <1>1, <1>5, <1>7, <1>8, <1>9 DEF IndInv

LEMMA IndInvStep == IndInv /\ [Next]_vars => IndInv'
  BY TypeStep, QueueStep, ExchangeStep, BufferStep, PastStep DEF IndInv

\* The inductive invariant is an invariant: queue, exchange, buffer and flash stay in the
\* relation that fb_execute_queue and check_response keep between them.
THEOREM Inductive == Spec => []IndInv
<1>1. Init => IndInv
  BY InitIndInv
<1>2. IndInv /\ [Next]_vars => IndInv'
  BY IndInvStep
<1> QED
  BY <1>1, <1>2, PTL DEF Spec

\* Every variable of a session keeps its type, whatever the bootloader answers.
THEOREM TypeCorrect == Spec => []TypeOK
<1>1. IndInv => TypeOK
  BY DEF IndInv
<1> QED
  BY <1>1, Inductive, PTL

\* A flash command finds its own image in the download buffer, for every package, because
\* fb_execute_queue breaks off at the first failed action.
THEOREM FlashStagedAlways == Spec => []FlashStaged
<1>1. IndInv => FlashStaged
  <2> SUFFICES ASSUME IndInv, out.op = "flash"
               PROVE  staged \in Copies(out.img)
    BY DEF FlashStaged
  <2>1. pc = "status" /\ pos \in DOMAIN queue /\ Current.op = "flash" /\ out.img = Current.img
    BY Exchanging DEF IndInv
  <2> QED
    BY <2>1 DEF IndInv, BufferReady
<1> QED
  BY <1>1, Inductive, PTL

\* Host and bootloader are in step whenever fb_execute_queue turns to its next action.
THEOREM InStepAlways == Spec => []InStep
<1>1. IndInv => InStep
  BY DEF IndInv, ExchangeShape, IdleShape, Quiet, InStep
<1> QED
  BY <1>1, Inductive, PTL

\* Every session is an execution of FlashPlan: images in package order, each only after the
\* ones before it are in place, and whole unless the bootloader granted fewer bytes.
THEOREM SessionFollowsPlan == Spec => FollowsPlan
<1>1. Init => Plan!PlanInit
  BY DEF Init, Plan!PlanInit, Images, Plan!Images, Stale
<1>2. IndInv /\ [Next]_vars => [Plan!PlanNext]_content
  <2> SUFFICES ASSUME IndInv, [Next]_vars, content' # content
               PROVE  Plan!PlanNext
    OBVIOUS
  <2> USE DEF IndInv
  <2>1. DevFlash \/ Unplug
    BY ContentFrame
  <2>2. /\ out.op = "flash"
        /\ \/ content' = [content EXCEPT ![out.img] = staged]
           \/ content' = [content EXCEPT ![out.img] = Torn]
    BY <2>1 DEF DevFlash, Unplug, Ready
  <2>3. pc = "status" /\ pos \in DOMAIN queue /\ Current.op = "flash" /\ out.img = Current.img
    BY <2>2, Exchanging
  <2>4. staged \in Copies(out.img)
    BY <2>3 DEF BufferReady
  <2>5. out.img \in Need /\ out.img \in Images
    BY <2>3, CommandTyped
  <2>6. ASSUME NEW j \in Need, j < out.img
        PROVE  content[j] \in Copies(j)
    <3>1. PICK m \in 1..(pos - 1) : queue[m] = Flash(j)
      BY <2>3, <2>6 DEF QueueShape, Current
    <3>2. m \in DOMAIN queue /\ m < pos
      BY <2>3, <3>1, QueueTyped
    <3> QED
      BY <3>1, <3>2 DEF PastFlashes, Flash
  <2>7. Plan!WritePartition(out.img)
    BY <2>2, <2>4, <2>5, <2>6 DEF Plan!WritePartition, Copies, Torn
  <2> QED
    BY <2>5, <2>7 DEF Plan!PlanNext, Images, Plan!Images
<1> QED
  BY <1>1, <1>2, Inductive, PTL DEF Spec, FollowsPlan, Plan!PlanSpec
-----------------------------------------------------------------------------
(* The progress bar.  BytesUpTo is defined by recursion; that such a function *)
(* exists, and what it computes, is shown with least counterexamples.        *)

LEMMA Least ==
    ASSUME NEW S, S \subseteq Nat, S # {}
    PROVE  \E x \in S : \A y \in S : x <= y
<1>1. PICK x \in S : \A y \in S : ~(<<y, x>> \in OpToRel(<, Nat))
  BY NatLessThanWellFounded, WFMin
<1>2. ASSUME NEW y \in S PROVE x <= y
  <2>1. <<y, x>> \in Nat \X Nat /\ <<y, x>>[1] = y /\ <<y, x>>[2] = x
    OBVIOUS
  <2>2. y < x => <<y, x>> \in OpToRel(<, Nat)
    BY <2>1 DEF OpToRel
  <2>3. ~(y < x)
    BY <1>1, <2>2
  <2>4. x \in Nat /\ y \in Nat
    OBVIOUS
  <2> QED
    BY <2>3, <2>4
<1> QED
  BY <1>2

\* What image n adds to the counter, and the sums for the images up to m.
Added(n) == IF n \in Need THEN Size[n] ELSE 0
Sums(m) == {f \in [0..m -> Nat] :
               f[0] = PadSize /\ \A n \in 1..m : f[n] = f[n - 1] + Added(n)}

LEMMA AddedNat == \A n \in Nat : Added(n) \in Nat
  BY ImagesAssumption DEF Added

LEMMA SumsExist == \A m \in Nat : Sums(m) # {}
<1> DEFINE Bad == {m \in Nat : Sums(m) = {}}
<1> SUFFICES ASSUME Bad # {} PROVE FALSE
  OBVIOUS
<1>1. PICK m \in Bad : \A k \in Bad : m <= k
  BY Least
<1>2. m \in Nat /\ Sums(m) = {}
  OBVIOUS
<1>3. CASE m = 0
  <2> DEFINE f == [x \in 0..0 |-> PadSize]
  <2>1. f \in [0..0 -> Nat] /\ f[0] = PadSize
    BY SessionAssumption
  <2>2. 1..0 = {}
    OBVIOUS
  <2>3. f \in Sums(0)
    BY <2>1, <2>2 DEF Sums
  <2> QED
    BY <1>2, <1>3, <2>3
<1>4. CASE m # 0
  <2>1. m - 1 \in Nat /\ m - 1 \notin Bad
    BY <1>1, <1>2, <1>4
  <2>2. PICK f : f \in Sums(m - 1)
    BY <2>1
  <2>3. /\ f \in [0..(m - 1) -> Nat] /\ f[0] = PadSize
        /\ \A n \in 1..(m - 1) : f[n] = f[n - 1] + Added(n)
    BY <2>2 DEF Sums
  <2> DEFINE g == [n \in 0..m |-> IF n = m THEN f[m - 1] + Added(m) ELSE f[n]]
  <2>4. f[m - 1] \in Nat /\ Added(m) \in Nat
    <3>1. m - 1 \in 0..(m - 1)
      BY <2>1
    <3>2. f[m - 1] \in Nat
      BY <2>3, <3>1
    <3> QED BY <1>2, <3>2, AddedNat
  <2>5. \A n \in 0..m : n # m => n \in 0..(m - 1)
    BY <1>2
  <2>6. g \in [0..m -> Nat]
    BY <2>3, <2>4, <2>5
  <2>7. g[0] = PadSize
    BY <1>2, <1>4, <2>3
  <2>8. ASSUME NEW n \in 1..m PROVE g[n] = g[n - 1] + Added(n)
    <3>1. n - 1 \in 0..m /\ n - 1 # m /\ n \in 0..m
      BY <1>2
    <3>2. g[n - 1] = f[n - 1]
      BY <3>1
    <3>3. CASE n = m
      BY <3>2, <3>3, <3>1
    <3>4. CASE n # m
      <4>1. n \in 1..(m - 1) /\ g[n] = f[n]
        BY <3>1, <3>4, <1>2
      <4> QED
        BY <4>1, <3>2, <2>3
    <3> QED
      BY <3>3, <3>4
  <2>9. g \in Sums(m)
    BY <2>6, <2>7, <2>8 DEF Sums
  <2> QED
    BY <1>2, <2>9
<1> QED
  BY <1>3, <1>4

LEMMA SumsAgree ==
    ASSUME NEW m \in Nat, NEW f \in Sums(m), NEW g \in Sums(m + 1)
    PROVE  f[m] = g[m]
<1> DEFINE Bad == {n \in 0..m : f[n] # g[n]}
<1> SUFFICES ASSUME Bad # {} PROVE FALSE
  OBVIOUS
<1>0. Bad \subseteq Nat
  OBVIOUS
<1>1. PICK n \in Bad : \A k \in Bad : n <= k
  BY <1>0, Least
<1>2. n \in 0..m /\ f[n] # g[n]
  OBVIOUS
<1>3. f[0] = PadSize /\ g[0] = PadSize
  BY DEF Sums
<1>4. n # 0
  BY <1>2, <1>3
<1>5. n - 1 \in 0..m /\ n \in 1..m /\ n \in 1..(m + 1) /\ ~(n <= n - 1)
  BY <1>2, <1>4
<1>6. f[n - 1] = g[n - 1]
  BY <1>1, <1>5
<1>7. f[n] = f[n - 1] + Added(n) /\ g[n] = g[n - 1] + Added(n)
  BY <1>5 DEF Sums
<1> QED
  BY <1>2, <1>6, <1>7

\* BytesUpTo satisfies its recursive equation.
LEMMA BytesEquation ==
    /\ BytesUpTo[0] = PadSize
    /\ \A n \in Nat : n # 0 => BytesUpTo[n] = BytesUpTo[n - 1] + Added(n)
<1> DEFINE Sum(m) == CHOOSE f \in Sums(m) : TRUE
           F == [m \in Nat |-> Sum(m)[m]]
           Eq(f) == [n \in Nat |-> IF n = 0 THEN PadSize
                                   ELSE f[n - 1] + (IF n \in Need THEN Size[n] ELSE 0)]
<1>1. \A m \in Nat : Sum(m) \in Sums(m)
  BY SumsExist
<1> HIDE DEF Sum
<1>2. F[0] = PadSize
  BY <1>1 DEF Sums
<1>3. ASSUME NEW n \in Nat, n # 0 PROVE F[n] = F[n - 1] + Added(n)
  <2>1. n - 1 \in Nat /\ (n - 1) + 1 = n /\ n \in 1..n
    BY <1>3
  <2>2. Sum(n - 1) \in Sums(n - 1) /\ Sum(n) \in Sums((n - 1) + 1)
    BY <1>1, <2>1
  <2>3. Sum(n - 1)[n - 1] = Sum(n)[n - 1]
    BY <2>1, <2>2, SumsAgree
  <2>4. Sum(n)[n] = Sum(n)[n - 1] + Added(n)
    BY <1>1, <2>1 DEF Sums
  <2> QED
    BY <2>1, <2>3, <2>4
<1>4. \A n \in Nat : F[n] = IF n = 0 THEN PadSize ELSE F[n - 1] + Added(n)
  BY <1>2, <1>3
<1>5. F = Eq(F)
  <2>1. DOMAIN F = Nat /\ F = [n \in Nat |-> F[n]]
    OBVIOUS
  <2> HIDE DEF F
  <2> QED
    BY <1>4, <2>1 DEF Added
<1> HIDE DEF F
<1>6. BytesUpTo = Eq(BytesUpTo)
  BY <1>5 DEF BytesUpTo
<1>7. \A n \in Nat : BytesUpTo[n] = IF n = 0 THEN PadSize ELSE BytesUpTo[n - 1] + Added(n)
  BY <1>6 DEF Added
<1> QED
  BY <1>7

LEMMA BytesNat == \A n \in Nat : BytesUpTo[n] \in Nat
<1> DEFINE Bad == {n \in Nat : BytesUpTo[n] \notin Nat}
<1> SUFFICES ASSUME Bad # {} PROVE FALSE
  OBVIOUS
<1>1. PICK n \in Bad : \A k \in Bad : n <= k
  BY Least
<1>2. n # 0
  BY BytesEquation, SessionAssumption
<1>3. n - 1 \in Nat /\ ~(n <= n - 1)
  BY <1>2
<1>4. BytesUpTo[n - 1] \in Nat
  BY <1>1, <1>3
<1> QED
  BY <1>2, <1>4, BytesEquation, AddedNat

\* The sums grow with the images, and by nothing where none is to be downloaded.
LEMMA BytesGrow ==
    ASSUME NEW a \in Nat, NEW b \in Nat, a <= b
    PROVE  BytesUpTo[a] <= BytesUpTo[b]
<1> DEFINE Bad == {n \in Nat : a <= n /\ ~(BytesUpTo[a] <= BytesUpTo[n])}
<1> SUFFICES ASSUME Bad # {} PROVE FALSE
  OBVIOUS
<1>1. PICK n \in Bad : \A k \in Bad : n <= k
  BY Least
<1>2. n \in Nat /\ a <= n /\ BytesUpTo[a] \in Nat /\ BytesUpTo[n] \in Nat
  BY BytesNat
<1>3. n # a
  BY <1>2
<1>4. n - 1 \in Nat /\ a <= n - 1 /\ ~(n <= n - 1) /\ n # 0
  BY <1>2, <1>3
<1>5. BytesUpTo[a] <= BytesUpTo[n - 1]
  BY <1>1, <1>4
<1>6. BytesUpTo[n] = BytesUpTo[n - 1] + Added(n) /\ BytesUpTo[n - 1] \in Nat /\ Added(n) \in Nat
  BY <1>2, <1>4, BytesEquation, BytesNat, AddedNat
<1>7. BytesUpTo[a] <= BytesUpTo[n]
  BY <1>2, <1>5, <1>6
<1> QED
  BY <1>7

LEMMA BytesSame ==
    ASSUME NEW a \in Nat, NEW b \in Nat, a < b, NoneBetween(a, b)
    PROVE  BytesUpTo[b - 1] = BytesUpTo[a]
<1> DEFINE Bad == {n \in Nat : a <= n /\ n < b /\ BytesUpTo[n] # BytesUpTo[a]}
<1> SUFFICES ASSUME Bad # {} PROVE FALSE
  <2>1. b - 1 \in Nat /\ a <= b - 1 /\ b - 1 < b
    OBVIOUS
  <2> QED
    BY <2>1
<1>1. PICK n \in Bad : \A k \in Bad : n <= k
  BY Least
<1>2. n \in Nat /\ a <= n /\ n < b /\ BytesUpTo[n] # BytesUpTo[a]
  OBVIOUS
<1>3. n # a
  BY <1>2
<1>4. n - 1 \in Nat /\ a <= n - 1 /\ n - 1 < b /\ ~(n <= n - 1) /\ n # 0 /\ ~(n <= a) /\ ~(b <= n)
  BY <1>2, <1>3
<1>5. BytesUpTo[n - 1] = BytesUpTo[a]
  BY <1>1, <1>4
<1>6. Added(n) = 0
  BY <1>4 DEF NoneBetween, Added
<1>7. BytesUpTo[n] = BytesUpTo[n - 1] + 0 /\ BytesUpTo[n - 1] \in Nat
  BY <1>2, <1>4, <1>6, BytesEquation, BytesNat
<1> QED
  BY <1>2, <1>5, <1>7

\* The next image to download adds its size.
LEMMA BytesNext ==
    ASSUME NEW a \in Nat, NEW b \in Need, a < b, NoneBetween(a, b)
    PROVE  BytesUpTo[b] = BytesUpTo[a] + Size[b]
<1>1. b \in Nat /\ b # 0 /\ Added(b) = Size[b]
  BY ImagesAssumption DEF Added
<1> QED
  BY <1>1, BytesSame, BytesEquation

LEMMA BytesAhead ==
    ASSUME NEW a \in Nat, NEW b \in Need, a < b, Size[b] > 0
    PROVE  BytesUpTo[a] < BytesUpTo[b]
<1>1. b \in Nat /\ b # 0 /\ Added(b) = Size[b] /\ Size[b] \in Nat
  BY ImagesAssumption DEF Added
<1>2. b - 1 \in Nat /\ a <= b - 1
  BY <1>1
<1>3. BytesUpTo[a] <= BytesUpTo[b - 1]
  BY <1>2, BytesGrow
<1>4. BytesUpTo[b] = BytesUpTo[b - 1] + Size[b] /\ BytesUpTo[b - 1] \in Nat /\ BytesUpTo[a] \in Nat
  BY <1>1, <1>2, BytesEquation, BytesNat
<1> QED
  BY <1>1, <1>3, <1>4

-----------------------------------------------------------------------------
(* The order of the queue. *)

\* Appending one action keeps the images of the positions before it.
LEMMA AppendOrder ==
    ASSUME NEW q \in Seq(Action), NEW a \in Action, NEW r, r = Append(q, a)
    PROVE  /\ Len(r) = Len(q) + 1 /\ r \in Seq(Action)
           /\ DOMAIN r = 1..(Len(q) + 1) /\ DOMAIN q = 1..Len(q) /\ Len(q) \in Nat
           /\ \A k \in 1..Len(q) : r[k] = q[k]
           /\ r[Len(q) + 1] = a
<1>1. Len(q) \in Nat /\ DOMAIN q = 1..Len(q)
  BY LenProperties
<1>2. /\ Append(q, a) \in Seq(Action) /\ Len(Append(q, a)) = Len(q) + 1
      /\ \A k \in 1..Len(q) : Append(q, a)[k] = q[k]
      /\ Append(q, a)[Len(q) + 1] = a
  BY AppendProperties
<1>3. DOMAIN r = 1..Len(r)
  BY <1>2, LenProperties
<1> QED
  BY <1>1, <1>2, <1>3

LEMMA ImageAtTyped ==
    ASSUME TypeOK, NEW k \in 0..Len(queue)
    PROVE  ImageAt(k) \in 0..NImages /\ ImageAt(k) \in Nat
<1>1. Len(queue) \in Nat /\ DOMAIN queue = 1..Len(queue)
      /\ \A m \in DOMAIN queue : queue[m] \in Action
  BY QueueTyped
<1>2. CASE k = 0
  BY <1>2, ImagesAssumption DEF ImageAt
<1>3. CASE k # 0
  <2>1. k \in DOMAIN queue
    BY <1>1, <1>3
  <2>2. queue[k].img \in 0..NImages
    BY <1>1, <2>1 DEF Action
  <2> QED
    BY <1>3, <2>2, ImagesAssumption DEF ImageAt
<1> QED
  BY <1>2, <1>3

\* What QueueOrder asks of position k.
LEMMA OrderAt ==
    ASSUME QueueOrder, NEW k \in DOMAIN queue
    PROVE  /\ queue[k].op = "query" => ImageAt(k - 1) = 0 /\ queue[k].img = 0
           /\ queue[k].op = "download" =>
                 ImageAt(k - 1) < queue[k].img /\ NoneBetween(ImageAt(k - 1), queue[k].img)
  BY DEF QueueOrder

LEMMA DisplayOrder ==
    ASSUME TypeOK, QueueOrder, fb_queue_display
    PROVE  QueueOrder'
<1> DEFINE n == Len(queue)
           query == [op |-> "query", img |-> 0]
<1>1. /\ n < NVars /\ nextImg' = nextImg /\ queue' = Append(queue, query)
      /\ queue \in Seq(Action) /\ n \in Nat /\ nextImg \in Nat
  BY QueueTyped DEF fb_queue_display, queue_action
<1>2. query \in Action
  BY ImagesAssumption DEF Action
<1>3. /\ Len(queue') = n + 1 /\ DOMAIN queue' = 1..(n + 1) /\ DOMAIN queue = 1..n
      /\ \A k \in 1..n : queue'[k] = queue[k]
      /\ queue'[n + 1] = query
  BY <1>1, <1>2, AppendOrder
<1>4. ImageAt(n) < nextImg /\ (nextImg > 1 => n >= NVars) /\ ImageAt(n) \in Nat
  BY <1>1, ImageAtTyped DEF QueueOrder
<1>5. ImageAt(n) = 0 /\ nextImg = 1
  BY <1>1, <1>4, SessionAssumption
<1> HIDE DEF n
<1>6. \A k \in 0..n : ImageAt(k)' = ImageAt(k)
  BY <1>1, <1>3 DEF ImageAt
<1>7. ASSUME NEW k \in DOMAIN queue'
      PROVE  /\ queue'[k].op = "query" => ImageAt(k - 1)' = 0 /\ queue'[k].img = 0
             /\ queue'[k].op = "download" =>
                   /\ ImageAt(k - 1)' < queue'[k].img
                   /\ NoneBetween(ImageAt(k - 1)', queue'[k].img)
  <2>1. CASE k = n + 1
    <3>1. k - 1 = n /\ n \in 0..n
      BY <2>1, <1>1
    <3>2. queue'[k].op = "query" /\ queue'[k].img = 0
      BY <2>1, <1>3
    <3> QED
      BY <3>1, <3>2, <1>5, <1>6
  <2>2. CASE k # n + 1
    <3>1. k \in 1..n /\ k \in DOMAIN queue /\ k - 1 \in 0..n
      BY <2>2, <1>1, <1>3
    <3>2. queue'[k] = queue[k] /\ ImageAt(k - 1)' = ImageAt(k - 1)
      BY <3>1, <1>3, <1>6
    <3> QED
      BY <3>1, <3>2, OrderAt
  <2> QED
    BY <2>1, <2>2
<1>8. ImageAt(Len(queue))' = 0
  <2>1. Len(queue') = n + 1 /\ n + 1 # 0 /\ queue'[n + 1].img = 0
    BY <1>1, <1>3
  <2> QED
    BY <2>1 DEF ImageAt
<1>9. ImageAt(Len(queue))' < nextImg' /\ NoneBetween(ImageAt(Len(queue))', nextImg')
  <2>1. \A j \in Need : 1 <= j
    BY ImagesAssumption
  <2> QED
    BY <2>1, <1>1, <1>5, <1>8 DEF NoneBetween
<1>10. ~(nextImg' > 1)
  BY <1>1, <1>5
<1> QED
  BY <1>7, <1>9, <1>10 DEF QueueOrder, NoneBetween

LEMMA ImageOrder ==
    ASSUME TypeOK, QueueShape, QueueOrder, QueueImage
    PROVE  QueueOrder'
<1> DEFINE n == Len(queue)
<1>1. /\ n >= NVars /\ nextImg' = nextImg + 1 /\ queue \in Seq(Action) /\ n \in Nat
      /\ nextImg \in Nat /\ DOMAIN queue = 1..n /\ nextImg \in 0..NImages
  BY QueueTyped, ImagesAssumption DEF QueueImage
<1>2. /\ ImageAt(n) < nextImg /\ NoneBetween(ImageAt(n), nextImg)
      /\ ImageAt(n) \in Nat /\ Need \subseteq Nat
  BY <1>1, ImageAtTyped, ImagesAssumption DEF QueueOrder
<1>3. CASE nextImg \notin Need
  <2>1. queue' = queue
    BY <1>3 DEF QueueImage
  <2>2. NoneBetween(ImageAt(n), nextImg + 1)
    BY <1>1, <1>2, <1>3 DEF NoneBetween
  <2>3. ImageAt(n) < nextImg + 1
    BY <1>1, <1>2
  <2> QED
    BY <2>1, <2>2, <2>3, <1>1 DEF QueueOrder, ImageAt, NoneBetween
<1>4. CASE nextImg \in Need
  <2> DEFINE mid == Append(queue, Download(nextImg))
  <2>1. queue' = Append(mid, Flash(nextImg))
    BY <1>4 DEF QueueImage, fb_queue_flash, queue_action, Download, Flash
  <2>2. Download(nextImg) \in Action /\ Flash(nextImg) \in Action
    BY <1>1 DEF Action, Download, Flash
  <2>3. /\ Len(mid) = n + 1 /\ mid \in Seq(Action)
        /\ \A k \in 1..n : mid[k] = queue[k]
        /\ mid[n + 1] = Download(nextImg)
    BY <1>1, <2>2, AppendOrder
  <2> HIDE DEF mid
  <2>4. /\ Len(queue') = Len(mid) + 1 /\ DOMAIN queue' = 1..(Len(mid) + 1)
        /\ \A k \in 1..Len(mid) : queue'[k] = mid[k]
        /\ queue'[Len(mid) + 1] = Flash(nextImg)
    BY <2>1, <2>2, <2>3, AppendOrder
  <2> HIDE DEF n
  <2>5. /\ Len(queue') = n + 2 /\ DOMAIN queue' = 1..(n + 2)
        /\ \A k \in 1..n : queue'[k] = queue[k]
        /\ queue'[n + 1] = Download(nextImg) /\ queue'[n + 2] = Flash(nextImg)
    BY <1>1, <2>3, <2>4
  <2>6. \A k \in 0..n : ImageAt(k)' = ImageAt(k)
    BY <1>1, <2>5 DEF ImageAt
  <2>7. ASSUME NEW k \in DOMAIN queue'
        PROVE  /\ queue'[k].op = "query" => ImageAt(k - 1)' = 0 /\ queue'[k].img = 0
               /\ queue'[k].op = "download" =>
                     /\ ImageAt(k - 1)' < queue'[k].img
                     /\ NoneBetween(ImageAt(k - 1)', queue'[k].img)
    <3>1. CASE k = n + 2
      <4>1. queue'[k].op = "flash"
        BY <3>1, <2>5 DEF Flash
      <4> QED
        BY <4>1
    <3>2. CASE k = n + 1
      <4>1. k - 1 = n /\ n \in 0..n
        BY <3>2, <1>1
      <4>2. queue'[k].op = "download" /\ queue'[k].img = nextImg
        BY <3>2, <2>5 DEF Download
      <4> QED
        BY <4>1, <4>2, <1>2, <2>6
    <3>3. CASE k # n + 1 /\ k # n + 2
      <4>1. k \in 1..n /\ k \in DOMAIN queue /\ k - 1 \in 0..n
        BY <3>3, <1>1, <2>5
      <4>2. queue'[k] = queue[k] /\ ImageAt(k - 1)' = ImageAt(k - 1)
        BY <4>1, <2>5, <2>6
      <4> QED
        BY <4>1, <4>2, OrderAt
    <3> QED
      BY <3>1, <3>2, <3>3
  <2>8. ImageAt(Len(queue))' = nextImg
    <3>1. Len(queue') = n + 2 /\ n + 2 # 0 /\ queue'[n + 2].img = nextImg
      BY <1>1, <2>5 DEF Flash
    <3> QED
      BY <3>1 DEF ImageAt
  <2>9. ImageAt(Len(queue))' < nextImg' /\ NoneBetween(ImageAt(Len(queue))', nextImg')
    BY <1>1, <1>2, <2>8 DEF NoneBetween
  <2>10. Len(queue') >= NVars
    BY <1>1, <2>5, SessionAssumption
  <2> QED
    BY <2>7, <2>9, <2>10 DEF QueueOrder, NoneBetween
<1> QED
  BY <1>3, <1>4

LEMMA OrderStep ==
    ASSUME TypeOK, QueueShape, QueueOrder, [Next]_vars
    PROVE  QueueOrder'
<1>1. CASE ~fb_queue_display /\ ~QueueImage
  <2>1. queue' = queue /\ nextImg' = nextImg
    BY <1>1, QueueFrame
  <2> QED
    BY <2>1 DEF QueueOrder, ImageAt, NoneBetween
<1> QED
  BY <1>1, DisplayOrder, ImageOrder

-----------------------------------------------------------------------------
(* The counter and the bar. *)

\* A step ends an action, moves inside one, or leaves the counter alone.
LEMMA ProgressFrame ==
    ASSUME TypeOK, ExchangeShape, PastFlashes, [Next]_vars
    PROVE  \/ fb_queue_display \/ QueueImage \/ StartExecute \/ QueueDone \/ Report
           \/ /\ pc \in {"fetch", "status", "data", "final"} /\ pos \in DOMAIN queue
              /\ ActionDone(TRUE) \/ ActionDone(FALSE)
           \/ /\ UNCHANGED <<queue, pos, flashed_size, posted>>
              /\ \/ pc' = pc
                 \/ pc = "fetch" /\ pos \in DOMAIN queue /\ pc' = "status"
                 \/ pc \in {"status", "data"} /\ pc' \in {"data", "final"}
<1> DEFINE Ended == /\ pc \in {"fetch", "status", "data", "final"} /\ pos \in DOMAIN queue
                    /\ ActionDone(TRUE) \/ ActionDone(FALSE)
           Moving == /\ UNCHANGED <<queue, pos, flashed_size, posted>>
                     /\ \/ pc' = pc
                        \/ pc = "fetch" /\ pos \in DOMAIN queue /\ pc' = "status"
                        \/ pc \in {"status", "data"} /\ pc' \in {"data", "final"}
<1>1. pc \in {"status", "data", "final"} => pos \in DOMAIN queue
  BY DEF ExchangeShape, StatusShape, DataShape, FinalShape
<1>2. pos <= Len(queue) => pos \in DOMAIN queue
  BY QueueTyped DEF PastFlashes
<1>3. SendCommand => Ended \/ Moving
  BY <1>2 DEF SendCommand, Proceed
<1>4. ReadInfo => Moving
  BY DEF ReadInfo, hostVars
<1>5. CommandOkay \/ CommandFailed \/ FinalOkay \/ FinalFailed \/ ReadFailed => Ended
  BY <1>1 DEF CommandOkay, CommandFailed, FinalOkay, FinalFailed, ReadFailed
<1>6. DownloadEmpty \/ DownloadGranted => Moving
  BY DEF DownloadEmpty, DownloadGranted, Proceed
<1>7. SendData => Ended \/ Moving
  BY <1>1 DEF SendData, Proceed
<1>8. DevStep \/ Unplug \/ Done \/ UNCHANGED vars => Moving
  BY DEF DevStep, Unplug, Done, Answer, DevInfo, DevRefuse, DevQuery, DevDownload, DevData,
         DevEmptyData, DevFlash, vars, hostVars
<1> HIDE DEF Ended, Moving
<1>9. \/ fb_queue_display \/ QueueImage \/ StartExecute \/ QueueDone \/ Report
      \/ Ended \/ Moving
  BY <1>3, <1>4, <1>5, <1>6, <1>7, <1>8 DEF Next, HostStep
<1> QED
  BY <1>9 DEF Ended, Moving

\* The action at pos takes the sum from the image before it to its own.
LEMMA CurrentAdds ==
    ASSUME TypeOK, QueueShape, QueueOrder, PastFlashes, pos \in DOMAIN queue
    PROVE  /\ BytesUpTo[ImageAt(pos)] = BytesUpTo[ImageAt(pos - 1)] + CurrentSize
           /\ Current.op = "flash" =>
                 ImageAt(pos - 1) = Current.img /\ ImageAt(pos) = Current.img
<1>1. pos \in Nat /\ pos >= 1 /\ pos <= Len(queue) /\ Len(queue) \in Nat
  BY QueueTyped
<1>2. pos - 1 \in 0..Len(queue) /\ pos \in 0..Len(queue) /\ pos # 0
  BY <1>1
<1>3. ImageAt(pos) = Current.img /\ ImageAt(pos - 1) \in Nat /\ ImageAt(pos) \in Nat
  BY <1>2, ImageAtTyped DEF ImageAt, Current
<1>4. Current.op \in {"query", "download", "flash"}
  BY CommandTyped
<1>5. CASE Current.op = "query"
  <2>1. ImageAt(pos - 1) = 0 /\ ImageAt(pos) = 0 /\ CurrentSize = 0
    BY <1>3, <1>5, OrderAt DEF Current, CurrentSize
  <2>2. BytesUpTo[0] \in Nat
    BY BytesNat
  <2> QED
    BY <1>5, <2>1, <2>2
<1>6. CASE Current.op = "flash"
  <2>1. pos > 1 /\ queue[pos - 1] = Download(Current.img) /\ CurrentSize = 0
    BY <1>6 DEF QueueShape, Current, CurrentSize
  <2>2. ImageAt(pos - 1) = Current.img
    BY <1>1, <2>1 DEF ImageAt, Download
  <2>3. BytesUpTo[ImageAt(pos)] \in Nat
    BY <1>3, BytesNat
  <2> QED
    BY <1>3, <2>1, <2>2, <2>3
<1>7. CASE Current.op = "download"
  <2>1. ImageAt(pos - 1) < Current.img /\ NoneBetween(ImageAt(pos - 1), Current.img)
    BY <1>7, OrderAt DEF Current
  <2>2. Current.img \in Need /\ CurrentSize = Size[Current.img]
    BY <1>7, CommandTyped DEF CurrentSize
  <2> QED
    BY <1>3, <1>7, <2>1, <2>2, BytesNext
<1> QED
  BY <1>4, <1>5, <1>6, <1>7

LEMMA CountStep ==
    ASSUME IndInv, QueueOrder, Counted, [Next]_vars
    PROVE  Counted'
<1> USE DEF IndInv
<1>0. pos \in Nat /\ Len(queue) \in Nat /\ DOMAIN queue = 1..Len(queue)
  BY QueueTyped
<1>1. CASE fb_queue_display \/ QueueImage \/ QueueDone \/ Report
  <2>1. pc' \notin {"fetch", "status", "data", "final"}
    BY <1>1 DEF fb_queue_display, QueueImage, QueueDone, Report, Proceed
  <2> QED
    BY <2>1 DEF Counted
<1>2. CASE StartExecute
  <2>1. pos' = 1 /\ flashed_size' = PadSize /\ queue' = queue
    BY <1>2 DEF StartExecute
  <2>2. pos' - 1 = 0 /\ pos' <= Len(queue') + 1
    BY <1>0, <2>1
  <2>3. ImageAt(pos - 1)' = 0
    BY <2>2 DEF ImageAt
  <2> QED
    BY <2>1, <2>2, <2>3, BytesEquation DEF Counted
<1>3. CASE /\ pc \in {"fetch", "status", "data", "final"} /\ pos \in DOMAIN queue
           /\ ActionDone(TRUE) \/ ActionDone(FALSE)
  <2>1. CASE ActionDone(FALSE)
    <3>1. pc' = "ended"
      BY <2>1 DEF ActionDone
    <3> QED
      BY <3>1 DEF Counted
  <2>2. CASE ActionDone(TRUE)
    <3>1. /\ pos' = pos + 1 /\ flashed_size' = flashed_size + CurrentSize /\ queue' = queue
      BY <2>2 DEF ActionDone
    <3>2. flashed_size = BytesUpTo[ImageAt(pos - 1)]
      BY <1>3 DEF Counted
    <3>3. pos' - 1 = pos /\ pos' <= Len(queue') + 1
      BY <1>0, <1>3, <3>1
    <3>4. ImageAt(pos - 1)' = ImageAt(pos)
      BY <3>1, <3>3 DEF ImageAt
    <3>5. flashed_size' = BytesUpTo[ImageAt(pos)]
      BY <1>3, <3>1, <3>2, CurrentAdds
    <3> QED
      BY <3>3, <3>4, <3>5 DEF Counted
  <2> QED
    BY <1>3, <2>1, <2>2
<1>4. CASE /\ UNCHANGED <<queue, pos, flashed_size, posted>>
           /\ \/ pc' = pc
              \/ pc = "fetch" /\ pos \in DOMAIN queue /\ pc' = "status"
              \/ pc \in {"status", "data"} /\ pc' \in {"data", "final"}
  <2>1. ImageAt(pos - 1)' = ImageAt(pos - 1)
    BY <1>4 DEF ImageAt
  <2> QED
    BY <1>4, <2>1 DEF Counted
<1> QED
  BY <1>1, <1>2, <1>3, <1>4, ProgressFrame

LEMMA ShownStep ==
    ASSUME IndInv, QueueOrder, Counted, Shown, [Next]_vars
    PROVE  Shown'
<1> USE DEF IndInv
<1>0. pos \in Nat /\ Len(queue) \in Nat /\ DOMAIN queue = 1..Len(queue)
  BY QueueTyped
<1>1. CASE fb_queue_display \/ QueueImage \/ StartExecute
  <2>1. pc = "queue" /\ posted' = posted
    BY <1>1 DEF fb_queue_display, QueueImage, StartExecute
  <2>2. pos = 1
    BY <2>1 DEF PastFlashes
  <2>3. ASSUME NEW k \in DOMAIN queue, k < pos PROVE FALSE
    BY <1>0, <2>2, <2>3
  <2>4. posted = 0
    BY <2>1, <2>3 DEF Shown
  <2> QED
    BY <2>1, <2>4 DEF Shown
<1>2. CASE /\ pc \in {"fetch", "status", "data", "final"} /\ pos \in DOMAIN queue
           /\ ActionDone(TRUE) \/ ActionDone(FALSE)
  <2>1. queue' = queue
    BY <1>2 DEF ActionDone
  <2>2. \/ pos' = pos + 1
        \/ pos' = pos /\ pc' = "ended"
    BY <1>2 DEF ActionDone
  <2>3. CASE Current.op = "flash"
    <3>1. posted' = flashed_size
      BY <1>2, <2>3 DEF ActionDone
    <3>2. flashed_size = BytesUpTo[ImageAt(pos - 1)]
      BY <1>2 DEF Counted
    <3>3. posted' = BytesUpTo[queue[pos].img]
      BY <1>2, <2>3, <3>1, <3>2, CurrentAdds DEF Current
    <3>4. pos < pos' \/ (pos = pos' /\ pc' \in {"ended", "done"})
      BY <1>0, <2>2
    <3>5. pos \in DOMAIN queue' /\ queue'[pos].op = "flash" /\ posted' = BytesUpTo[queue'[pos].img]
      BY <1>2, <2>1, <2>3, <3>3 DEF Current
    <3> QED
      BY <3>4, <3>5 DEF Shown
  <2>4. CASE Current.op # "flash"
    <3>1. posted' = posted
      BY <1>2, <2>4 DEF ActionDone
    <3>2. CASE posted = 0
      BY <3>1, <3>2 DEF Shown
    <3>3. CASE posted # 0
      <4>1. PICK k \in DOMAIN queue : /\ k < pos /\ queue[k].op = "flash"
                                      /\ posted = BytesUpTo[queue[k].img]
        BY <1>2, <3>3 DEF Shown
      <4>2. k < pos' /\ k \in DOMAIN queue' /\ queue'[k] = queue[k]
        BY <1>0, <2>1, <2>2, <4>1
      <4> QED
        BY <3>1, <4>1, <4>2 DEF Shown
    <3> QED
      BY <3>2, <3>3
  <2> QED
    BY <2>3, <2>4
<1>3. CASE /\ UNCHANGED <<queue, pos, flashed_size, posted>>
           /\ \/ pc' = pc
              \/ pc = "fetch" /\ pos \in DOMAIN queue /\ pc' = "status"
              \/ pc \in {"status", "data"} /\ pc' \in {"data", "final"}
  BY <1>3 DEF Shown
<1>4. CASE QueueDone \/ Report
  <2>1. /\ queue' = queue /\ pos' = pos /\ posted' = posted
        /\ pc' \in {"ended", "done"}
    BY <1>4 DEF QueueDone, Report, Proceed
  <2> QED
    BY <2>1 DEF Shown
<1> QED
  BY <1>1, <1>2, <1>3, <1>4, ProgressFrame

-----------------------------------------------------------------------------

\* The queue is in the order of the package, the counter holds the bytes of the images
\* executed, and the bar shows the counter at the last flash.
THEOREM ProgressInductive == Spec => []ProgressInd
<1>1. Init => ProgressInd
  <2> SUFFICES ASSUME Init PROVE ProgressInd
    OBVIOUS
  <2>1. queue = <<>> /\ nextImg = 1 /\ pc = "queue" /\ posted = 0
    BY DEF Init
  <2>2. DOMAIN queue = {} /\ Len(queue) = 0 /\ ImageAt(Len(queue)) = 0
    BY <2>1 DEF ImageAt
  <2>3. \A j \in Need : 1 <= j
    BY ImagesAssumption
  <2>4. QueueOrder
    BY <2>1, <2>2, <2>3 DEF QueueOrder, NoneBetween
  <2> QED
    BY <2>1, <2>4, InitIndInv DEF ProgressInd, Counted, Shown
<1>2. ProgressInd /\ [Next]_vars => ProgressInd'
  <2> SUFFICES ASSUME ProgressInd, [Next]_vars PROVE ProgressInd'
    OBVIOUS
  <2>1. IndInv /\ QueueOrder /\ Counted /\ Shown
    BY DEF ProgressInd
  <2>2. IndInv'
    BY <2>1, IndInvStep
  <2>3. QueueOrder'
    BY <2>1, OrderStep DEF IndInv
  <2> QED
    BY <2>1, <2>2, <2>3, CountStep, ShownStep DEF ProgressInd
<1> QED
  BY <1>1, <1>2, PTL DEF Spec

\* The bar never passes 100%, and when it reaches the bytes of an image every earlier
\* image is in its partition, for every package: fb_execute_queue posts the counter only
\* when a flash has been tried, and breaks off at the first one that fails.
THEOREM ProgressHonestAlways == Spec => []ProgressHonest
<1>1. ProgressInd => ProgressHonest
  <2> SUFFICES ASSUME ProgressInd PROVE ProgressHonest
    OBVIOUS
  <2> USE DEF ProgressInd, IndInv
  <2>0. /\ NImages \in Nat /\ BytesUpTo[NImages] \in Nat
        /\ \A n \in Need : n \in Nat /\ n <= NImages /\ 0 < n
    BY BytesNat, ImagesAssumption
  <2>1. CASE posted = 0
    <3>1. ASSUME NEW n \in Need, posted >= BytesUpTo[n], Size[n] > 0 PROVE FALSE
      <4>1. BytesUpTo[0] < BytesUpTo[n]
        BY <2>0, <3>1, BytesAhead
      <4>2. BytesUpTo[0] \in Nat /\ BytesUpTo[n] \in Nat
        BY <2>0, BytesNat
      <4> QED
        BY <2>1, <3>1, <4>1, <4>2
    <3> QED
      BY <2>0, <2>1, <3>1 DEF ProgressHonest
  <2>2. CASE posted # 0
    <3>1. PICK k \in DOMAIN queue :
            /\ k < pos \/ k = pos
            /\ queue[k].op = "flash" /\ posted = BytesUpTo[queue[k].img]
      BY <2>2 DEF Shown
    <3> DEFINE i == queue[k].img
    <3>2. i \in Need
      BY <3>1 DEF QueueShape
    <3>3. posted <= BytesUpTo[NImages]
      BY <2>0, <3>1, <3>2, BytesGrow
    <3>4. ASSUME NEW n \in Need, posted >= BytesUpTo[n], Size[n] > 0,
                 NEW j \in Need, j < n
          PROVE  content[j].img = j
      <4>1. ~(i < n)
        <5>1. i < n => BytesUpTo[i] < BytesUpTo[n]
          BY <2>0, <3>2, <3>4, BytesAhead
        <5>2. BytesUpTo[i] \in Nat /\ BytesUpTo[n] \in Nat
          BY <2>0, <3>2, BytesNat
        <5> QED
          BY <3>1, <3>4, <5>1, <5>2
      <4>2. j < i
        BY <2>0, <3>2, <3>4, <4>1
      <4>3. PICK m \in 1..(k - 1) : queue[m] = Flash(j)
        BY <3>1, <4>2 DEF QueueShape
      <4>4. m \in DOMAIN queue /\ m < pos
        BY <3>1, <4>3, QueueTyped
      <4>5. content[j] \in Copies(j)
        BY <4>3, <4>4 DEF PastFlashes, Flash
      <4> QED
        BY <4>5 DEF Copies, Plan!Copies, Plan!Whole
    <3> QED
      BY <3>3, <3>4 DEF ProgressHonest
  <2> QED
    BY <2>1, <2>2
<1> QED
  BY <1>1, ProgressInductive, PTL
==============================================================================
