------------------------------ MODULE DiagFlow -------------------------------
(***************************************************************************)
(* The DIAG part of RunMiFiPST (mdmfastboot/PST.cpp, DiagPST.cpp) in several *)
(* workers at once, each with a modem of its own.  A worker copies the file *)
(* map of the package, checks its modem, prepares it (offline mode, logo,   *)
(* custom_info.xml, simlock), then either restarts it over adb or loads the *)
(* programmer and the boot images, and later flashes the rest in fastboot.  *)
(*                                                                         *)
(* The workers share the package, class flash_image of src/ConfigIni.cpp,   *)
(* without a lock: GetDiagDlImgSize clears flags of its map and adds up a   *)
(* size that it keeps, while other workers copy the map or read the size.   *)
(*                                                                         *)
(* Sahara, HostDl and Fastboot detail the steps DownloadPrg, DLoadImages    *)
(* and FlashDone; here they are one step with every outcome.  The modem is  *)
(* external.                                                                *)
(***************************************************************************)
EXTENDS Integers, Sequences, FiniteSets

CONSTANTS
    Workers,   \* worker threads, each with its modem
    Packages,  \* packages: the files of the map in its order, the number of
               \* XML_FILE_LEN pieces of custom_info.xml, and fastboot images
    UseAdb,    \* IsUseAdbShell
    MaxTries,  \* attempts at custom_info.xml (3)
    MaxSends,  \* sends of a piece in an attempt, when the port fails (10)
    MaxStray   \* bound: answers of a modem that are still on their way

\* The names of files the code tells apart: the five boot images, by the list
\* in CalculateImageLength; the programmers of the configuration.
Roles == {"boot", "xml", "logo", "nprg", "enprg", "other"}

ASSUME DiagAssumption ==
    /\ IsFiniteSet(Workers) /\ UseAdb \in BOOLEAN
    /\ {MaxTries, MaxSends} \subseteq Nat \ {0} /\ MaxStray \in Nat
    /\ \A p \in Packages : /\ p.files \in Seq(Roles) /\ p.pieces \in Nat
                           /\ p.fastboot \in BOOLEAN

VARIABLES
    pkg,     \* the package
    shared,  \* isDownload of each file in flash_image::m_dlFileBuffer
    size,    \* mDiagDlImgSize, in images
    wk,      \* the workers
    modem    \* the modems

vars == <<pkg, shared, size, wk, modem>>

Files == 1 .. Len(pkg.files)
Role(r) == {f \in Files : pkg.files[f] = r}
Boot == Role("boot")
Whole == [k \in 1 .. pkg.pieces |-> k - 1]

NewWorker ==
    [pc |-> "copy", i |-> 1, flags |-> [f \in Files |-> FALSE],
     download |-> FALSE, force |-> FALSE, tries |-> 0, off |-> 0,
     sends |-> 0, seen |-> 0, next |-> "copy", result |-> TRUE]

\* A modem has a mode and, in normal mode, may answer after its worker stopped
\* waiting, when the next request may be on its way.  table is set when its partition table was found to be that of the package.
NewModem ==
    [mode : {"normal", "dmss", "emergency"}, late : BOOLEAN, table : {FALSE},
     xml : {<<>>}, stray : {0}, prog : {FALSE}, got : {{}}, entered : {FALSE}]

Init ==
    /\ pkg \in Packages
    /\ shared = [f \in Files |-> TRUE] /\ size = 0
    /\ wk = [w \in Workers |-> NewWorker]
    /\ modem \in [Workers -> {m \in NewModem : m.late => m.mode = "normal"}]

pcOf(w) == wk[w].pc
Goto(w, p) == wk' = [wk EXCEPT ![w].pc = p]
\* A phase of DownloadCheck or RunTimeDiag returns false.
False(w) == wk' = [wk EXCEPT ![w].pc = "decide", ![w].result = FALSE,
                             ![w].off = 0, ![w].tries = 0, ![w].sends = 0]
package == <<pkg, shared, size>>

-----------------------------------------------------------------------------
(* DiagPST::DiagPST: the map is copied entry by entry. *)

CopyMap(w) ==
    /\ pcOf(w) = "copy"
    /\ IF wk[w].i \in Files
       THEN wk' = [wk EXCEPT ![w].flags[wk[w].i] = shared[wk[w].i],
                             ![w].i = @ + 1]
       ELSE wk' = [wk EXCEPT ![w].pc = "status", ![w].i = 1]
    /\ UNCHANGED <<package, modem>>

-----------------------------------------------------------------------------
(* DownloadCheck. *)

\* A normal modem answers EfsOpHello, one in DMSS mode NOP, unless all three
\* rounds fail; then, and for a modem in Sahara, m_blDownloadMode is set.
RequestDeviceStatus(w) ==
    /\ pcOf(w) = "status"
    /\ \/ /\ modem[w].mode # "emergency" /\ Goto(w, "version")
       \/ wk' = [wk EXCEPT ![w].pc = "mobileId", ![w].download = TRUE]
    /\ UNCHANGED <<package, modem>>

\* A modem in DMSS mode does not know the request.
RequestFirmwarVer(w) ==
    /\ pcOf(w) = "version"
    /\ \/ modem[w].mode = "normal" /\ Goto(w, "partition")
       \/ False(w)
    /\ UNCHANGED <<package, modem>>

\* Mutant: a table that differs is only reported.
ReportDifference(w) ==
    /\ pcOf(w) = "partition" /\ Goto(w, "offline")
    /\ UNCHANGED <<package, modem>>

\* m_bForceMode, which DiagPST does not initialise, skips the comparison.
checkIfPartitionMatch(w) ==
    /\ pcOf(w) = "partition"
    /\ \/ /\ wk' = [wk EXCEPT ![w].pc = "offline", ![w].force = TRUE]
          /\ UNCHANGED modem
       \/ /\ Goto(w, "offline")
          /\ modem' = [modem EXCEPT ![w].table = TRUE]
       \/ False(w) /\ UNCHANGED modem
    /\ UNCHANGED package

\* The mobile id over Sahara.  RunTimeDiag does nothing in this mode.
checkIfPackageMatchDlMode(w) ==
    /\ pcOf(w) = "mobileId"
    /\ \/ modem[w].mode = "emergency" /\ Goto(w, "decide")
       \/ False(w)
    /\ UNCHANGED <<package, modem>>

-----------------------------------------------------------------------------
(* RunTimeDiag.  CompareVersions clears no flag: PC_Version is empty. *)

SwitchOfflineMode(w) ==
    /\ pcOf(w) = "offline"
    /\ Goto(w, "logo") \/ False(w)
    /\ UNCHANGED <<package, modem>>

StorePIC(w) ==
    /\ pcOf(w) = "logo"
    /\ \/ wk' = [wk EXCEPT ![w].pc = "xmlBegin",
                           ![w].flags = [f \in Files |->
                               @[f] /\ f \notin Role("logo")]]
       \/ Role("logo") # {} /\ False(w)
    /\ UNCHANGED <<package, modem>>

\* The begin of an attempt of DownloadCustomerInfo: from the first piece.
XmlBegin(w) ==
    /\ pcOf(w) = "xmlBegin"
    /\ IF Role("xml") = {} THEN False(w)
       ELSE wk' = [wk EXCEPT ![w].pc = "xml", ![w].off = 0,
                       ![w].flags = [f \in Files |->
                           @[f] /\ f \notin Role("xml")]]
    /\ UNCHANGED <<package, modem>>

\* Mutant: the failed attempt is not counted.
XmlTryAgain(w) == wk' = [wk EXCEPT ![w].pc = "xmlBegin", ![w].sends = 0]

\* Mutant: one attempt too many.
OneMoreTry(w) ==
    IF wk[w].tries < MaxTries
    THEN wk' = [wk EXCEPT ![w].pc = "xmlBegin", ![w].tries = @ + 1, ![w].sends = 0]
    ELSE False(w)

XmlFailed(w) ==
    IF wk[w].tries + 1 < MaxTries
    THEN wk' = [wk EXCEPT ![w].pc = "xmlBegin", ![w].tries = @ + 1, ![w].sends = 0]
    ELSE False(w)

\* The modem writes a piece at its offset; one at offset 0 starts the file.
\* -1 is a piece that it never got.
Stored(w) ==
    LET xml == modem[w].xml IN
    [k \in 1 .. wk[w].off + 1 |-> IF k = wk[w].off + 1 THEN wk[w].off
                                  ELSE IF k <= Len(xml) THEN xml[k] ELSE -1]

NextPiece(w) == wk' = [wk EXCEPT ![w].off = @ + 1, ![w].sends = 0]

\* SendCmd or Receive failed: the piece is sent again.  (At a timeout Receive
\* returns EOK with nothing, and what it returned is refused.)
SendAgain(w) ==
    wk[w].sends + 1 < MaxSends /\ wk' = [wk EXCEPT ![w].sends = @ + 1]

\* Mutant: a failed piece does not end the attempt.
SkipFailedPiece(w) ==
    /\ NextPiece(w)
    /\ \/ modem' = [modem EXCEPT ![w].xml = Stored(w)]
       \/ UNCHANGED modem

\* WriteConfigXml for the next piece.  An answer names neither the piece nor
\* its offset: one to an earlier request that the purge before the send did
\* not find is taken for this one's.  A timeout or a refusal fails the attempt,
\* and so does the last send on a failing port.
WriteConfigXml(w) ==
    \E kept \in 0 .. modem[w].stray :
       \/ /\ NextPiece(w)
          /\ modem' = [modem EXCEPT ![w].stray = kept, ![w].xml = Stored(w)]
       \/ /\ XmlFailed(w) \/ SendAgain(w)
          /\ \/ modem' = [modem EXCEPT ![w].stray = kept]
             \/ modem' = [modem EXCEPT ![w].stray = kept,
                                       ![w].xml = Stored(w)]
             \/ /\ modem[w].late /\ kept < MaxStray
                /\ modem' = [modem EXCEPT ![w].stray = kept + 1,
                                          ![w].xml = Stored(w)]
       \/ /\ kept > 0
          /\ NextPiece(w)
          /\ \/ modem' = [modem EXCEPT ![w].stray = kept - 1]
             \/ modem' = [modem EXCEPT ![w].stray = kept,
                                       ![w].xml = Stored(w)]

\* while(offset == 0 || remain_len > 0)
DownloadCustomerInfo(w) ==
    /\ pcOf(w) = "xml"
    /\ IF wk[w].off = 0 \/ wk[w].off < pkg.pieces
       THEN IF pkg.pieces > 0 THEN WriteConfigXml(w)
            ELSE /\ wk' = [wk EXCEPT ![w].sends = 0] \/ SendAgain(w) \/ XmlFailed(w)
                 /\ UNCHANGED modem
       ELSE /\ wk' = [wk EXCEPT ![w].pc = "simlock", ![w].off = 0,
                             ![w].tries = 0]
            /\ UNCHANGED modem
    /\ UNCHANGED package

\* EraseSimlock may fail, if m_bEraseSimlock, which is not initialised, is
\* set; the results of SetFuncFive and GenerateFTFiles, which follow, are
\* ignored.
EraseSimlock(w) ==
    /\ pcOf(w) = "simlock"
    /\ Goto(w, "decide") \/ False(w)
    /\ UNCHANGED <<package, modem>>

-----------------------------------------------------------------------------
(* RunMiFiPST after the checks. *)

\* A modem in emergency mode is loaded whatever its check said.
Decide(w) ==
    /\ pcOf(w) = "decide"
    /\ IF ~(wk[w].result \/ wk[w].download) THEN Goto(w, "error")
       ELSE IF ~wk[w].download /\ UseAdb THEN Goto(w, "adb") ELSE Goto(w, "prg")
    /\ UNCHANGED <<package, modem>>

\* UpdateUsbHandle up to six times; then the restart over adb, or, if no adb
\* interface came up, the programmer.
AdbReboot(w) ==
    /\ pcOf(w) = "adb"
    /\ \/ /\ Goto(w, "flash")
          /\ modem' = [modem EXCEPT ![w].entered = TRUE]
       \/ Goto(w, "prg") /\ UNCHANGED modem
    /\ UNCHANGED package

\* The programmer of the modem's mode has to be in the package; whether it
\* runs in the end, nobody asks.
DownloadPrg(w) ==
    /\ pcOf(w) = "prg"
    /\ IF Role(IF wk[w].download THEN "enprg" ELSE "nprg") = {}
       THEN Goto(w, "error") /\ UNCHANGED modem
       ELSE /\ Goto(w, "length")
            /\ \E runs \in BOOLEAN :
                   modem' = [modem EXCEPT ![w].prog = runs, ![w].entered = TRUE]
    /\ UNCHANGED package

\* DownloadImages: only the boot images of the worker's own map stay flagged.
CalculateImageLength(w) ==
    /\ pcOf(w) = "length"
    /\ wk' = [wk EXCEPT ![w].pc = "size", ![w].next = "ratio",
                  ![w].flags = [f \in Files |-> @[f] /\ f \in Boot]]
    /\ UNCHANGED <<package, modem>>

NextFile(w) ==
    wk' = [wk EXCEPT ![w].pc = "sizeLoop", ![w].i = @ + 1, ![w].seen = 0]

Return(w) == wk' = [wk EXCEPT ![w].pc = wk[w].next, ![w].i = 1]

\* flash_image::GetDiagDlImgSize: a size that is there already is returned,
\* also while another worker is still adding it up.
GetDiagDlImgSize(w) ==
    /\ pcOf(w) = "size"
    /\ IF size # 0 THEN Return(w) ELSE Goto(w, "sizeLoop")
    /\ UNCHANGED <<package, modem>>

\* Mutant: an image that was counted is not to be downloaded again.
ClearCounted(w) ==
    /\ pcOf(w) = "sizeLoop"
    /\ LET f == wk[w].i IN
       IF f \notin Files THEN Return(w) /\ UNCHANGED <<shared, size>>
       ELSE /\ shared' = [shared EXCEPT ![f] = FALSE]
            /\ size' = size + (IF shared[f] /\ f \in Boot THEN 1 ELSE 0)
            /\ NextFile(w)
    /\ UNCHANGED <<pkg, modem>>

\* One turn of its loop over the shared map.
SizeLoop(w) ==
    /\ pcOf(w) = "sizeLoop"
    /\ LET f == wk[w].i IN
       \/ f \notin Files /\ Return(w) /\ UNCHANGED shared
       \/ /\ f \in Files /\ ~shared[f]
          /\ NextFile(w) /\ UNCHANGED shared
       \/ /\ f \in Files /\ shared[f] /\ f \in Boot
          /\ wk' = [wk EXCEPT ![w].pc = "sizeAdd", ![w].seen = size]
          /\ UNCHANGED shared
       \/ /\ f \in Files /\ shared[f] /\ f \notin Boot
          /\ shared' = [shared EXCEPT ![f] = FALSE] /\ NextFile(w)
    /\ UNCHANGED <<pkg, size, modem>>

\* += is a read and a write.
SizeAdd(w) ==
    /\ pcOf(w) = "sizeAdd"
    /\ size' = wk[w].seen + 1 /\ NextFile(w)
    /\ UNCHANGED <<pkg, shared, modem>>

\* The ratio divides by the size of the fastboot images.
Ratio(w) ==
    /\ pcOf(w) = "ratio"
    /\ Goto(w, IF pkg.fastboot THEN "images" ELSE "crashed")
    /\ UNCHANGED <<package, modem>>

Flagged(w) == {f \in Files : wk[w].flags[f]}

\* DLoad9X07ImagesUsePtn, which only a running programmer answers, writes the
\* images in the order of the map; without any, the modem is restarted.
DLoadImages(w) ==
    /\ pcOf(w) = "images"
    /\ \/ /\ Flagged(w) = {} \/ modem[w].prog
          /\ modem' = [modem EXCEPT ![w].got = Flagged(w)]
          /\ Goto(w, "flash")
       \/ /\ Flagged(w) # {}
          /\ \E upTo \in 0 .. Len(pkg.files) :
                modem' = [modem EXCEPT ![w].got = IF modem[w].prog
                    THEN {f \in Flagged(w) : f < upTo} ELSE {}]
          /\ Goto(w, "error")
    /\ UNCHANGED package

\* DEVICE_FLASH: the modem comes back in the bootloader and is flashed, with
\* GetDiagDlImgSize for the progress bar; or it does not come back.
FlashDone(w) ==
    /\ pcOf(w) = "flash"
    /\ \/ wk' = [wk EXCEPT ![w].pc = "size", ![w].next = "done"]
       \/ Goto(w, "error")
    /\ UNCHANGED <<package, modem>>

-----------------------------------------------------------------------------
Worker(w) ==
    \/ CopyMap(w) \/ RequestDeviceStatus(w) \/ RequestFirmwarVer(w)
    \/ checkIfPartitionMatch(w) \/ checkIfPackageMatchDlMode(w)
    \/ SwitchOfflineMode(w) \/ StorePIC(w) \/ XmlBegin(w)
    \/ DownloadCustomerInfo(w) \/ EraseSimlock(w) \/ Decide(w) \/ AdbReboot(w)
    \/ DownloadPrg(w) \/ CalculateImageLength(w) \/ GetDiagDlImgSize(w)
    \/ SizeLoop(w) \/ SizeAdd(w) \/ Ratio(w) \/ DLoadImages(w) \/ FlashDone(w)

Ends == {"done", "error", "crashed"}

Finished == (\A w \in Workers : pcOf(w) \in Ends) /\ UNCHANGED vars

Next == (\E w \in Workers : Worker(w)) \/ Finished

Spec == Init /\ [][Next]_vars

\* Every worker thread runs.
FairSpec == Spec /\ \A w \in Workers : WF_vars(Worker(w))

-----------------------------------------------------------------------------
(* Properties. *)

\* Types of the package, the workers and the modems.
DiagTypeOK ==
    /\ pkg \in Packages /\ shared \in [Files -> BOOLEAN] /\ size \in Nat
    /\ \A w \in Workers :
        /\ pcOf(w) \in Ends \cup {"copy", "status", "version", "partition",
              "mobileId", "offline", "logo", "xmlBegin", "xml", "simlock",
              "decide", "adb", "prg", "length", "size", "sizeLoop", "sizeAdd",
              "ratio", "images", "flash"}
        /\ wk[w].flags \in [Files -> BOOLEAN] /\ wk[w].i \in Nat
        /\ wk[w].tries \in 0 .. MaxTries - 1 /\ wk[w].off \in 0 .. pkg.pieces
        /\ wk[w].sends \in 0 .. MaxSends - 1
        /\ wk[w].seen \in Nat /\ wk[w].next \in {"copy", "ratio", "done"}
        /\ {wk[w].download, wk[w].force, wk[w].result} \subseteq BOOLEAN
        /\ modem[w].got \subseteq Files
        /\ modem[w].stray \in 0 .. MaxStray

\* A modem that DownloadImages took for loaded has every boot image of the
\* package and no other file: what other workers clear in the shared map
\* while this one copies it, before or after, takes no image away from it.
RightImages ==
    \A w \in Workers :
        pcOf(w) = "flash" /\ modem[w].prog => modem[w].got = Boot

\* A modem that answered DIAG or DMSS is made to leave its firmware only if
\* it is in normal mode and has the partition table of the package, unless
\* the worker's force mode says not to look.  (One that answered nothing is
\* taken for a modem in emergency mode, and those are always loaded.)
CheckedFirst ==
    \A w \in Workers :
        modem[w].entered /\ ~wk[w].download
            => /\ modem[w].mode = "normal"
               /\ wk[w].force \/ modem[w].table

\* ... and only with the whole of custom_info.xml in it, in order, after any
\* number of failed attempts, if it answers in time.  A late answer is taken
\* for that of the next piece, and a piece may then be missing.
XmlWhole ==
    \A w \in Workers :
        modem[w].entered /\ ~wk[w].download /\ ~modem[w].late
            => modem[w].xml = Whole

\* Every worker comes to an end, whatever its modem and the other workers do,
\* for a package whose custom_info.xml is not empty: for an empty one the
\* offset stays 0 and the loop that writes it goes on.
FlowEnds ==
    (pkg.pieces > 0) => \A w \in Workers : <>(pcOf(w) \in Ends)

=============================================================================
