--------------------------- MODULE DiagFlowProofs ----------------------------
(***************************************************************************)
(* Theorems about DiagFlow, for every package, any number of workers and    *)
(* every kind of modem.                                                     *)
(***************************************************************************)
EXTENDS DiagFlow, TLAPS

Pcs == Ends \cup {"copy", "status", "version", "partition", "mobileId",
          "offline", "logo", "xmlBegin", "xml", "simlock", "decide", "adb",
          "prg", "length", "size", "sizeLoop", "sizeAdd", "ratio", "images",
          "flash"}

WorkerRec ==
    [pc : Pcs, i : Nat \ {0}, flags : [Files -> BOOLEAN], download : BOOLEAN,
     force : BOOLEAN, tries : 0 .. MaxTries - 1, off : 0 .. pkg.pieces,
     sends : 0 .. MaxSends - 1, seen : Nat, next : {"copy", "ratio", "done"}, result : BOOLEAN]

ModemRec ==
    [mode : {"normal", "dmss", "emergency"}, late : BOOLEAN, table : BOOLEAN,
     xml : Seq(Int), stray : 0 .. MaxStray, prog : BOOLEAN,
     got : SUBSET Files, entered : BOOLEAN]

Types ==
    /\ pkg \in Packages /\ shared \in [Files -> BOOLEAN] /\ size \in Nat
    /\ wk \in [Workers -> WorkerRec] /\ modem \in [Workers -> ModemRec]

-----------------------------------------------------------------------------
(* The stages of a worker. *)

Sizing == {"size", "sizeLoop", "sizeAdd"}
Checks == {"copy", "status", "version", "partition", "mobileId"}
Prepares == {"offline", "logo", "xmlBegin", "xml", "simlock"}

\* Boot images stay flagged in the package, whoever adds up its size.
BootShared == \A f \in Boot : shared[f] = TRUE

\* ... and therefore in every worker's copy, as far as it goes.  What
\* DownloadImages flags is exactly the boot images.
Copied(u) ==
    /\ \A f \in Boot : u.pc # "copy" \/ f < u.i => u.flags[f] = TRUE
    /\ u.pc \in {"ratio", "images"} \/ (u.pc \in Sizing /\ u.next = "ratio")
        => \A f \in Files : u.flags[f] = TRUE => f \in Boot
    /\ u.pc \in Sizing => u.next # "copy"

\* The programmer is not loaded before its step, so a modem at "flash" has
\* its images from DLoadImages or was restarted over adb.
Loaded(u, m) ==
    /\ u.pc \in Checks \cup Prepares \cup {"decide", "adb", "prg"}
        => m.prog = FALSE /\ m.entered = FALSE
    /\ u.pc = "flash" /\ m.prog = TRUE => m.got = Boot

\* What the checks have established, and where it is known: RequestDeviceStatus
\* and checkIfPartitionMatch before RunTimeDiag, custom_info.xml after it.
Matched(u, m) == m.mode = "normal" /\ (u.force = TRUE \/ m.table = TRUE)
HasXml(m) == m.late = TRUE \/ m.xml = Whole

Passed(u, m) ==
    /\ u.pc \in (Checks \ {"mobileId"}) \cup Prepares \cup {"adb"} => u.download = FALSE
    /\ u.pc = "mobileId" => u.download = TRUE
    /\ u.pc = "partition" => m.mode = "normal"
    /\ u.pc \in Prepares => Matched(u, m)
    /\ u.pc = "simlock" => HasXml(m)
    /\ u.download = FALSE /\ (\/ u.pc = "decide" /\ u.result = TRUE
                             \/ u.pc \in {"adb", "prg"} \/ m.entered = TRUE)
        => Matched(u, m) /\ HasXml(m)

\* A modem that answers in time leaves no answer behind, and what it holds of
\* custom_info.xml in an attempt is what the attempt has written, perhaps with
\* the piece that is to be sent again.
UpTo(n) == [k \in 1 .. n |-> k - 1]

Pieces(u, m) ==
    m.late = FALSE =>
        /\ m.stray = 0
        /\ u.pc = "xml" /\ u.off > 0 =>
              m.xml = UpTo(u.off) \/ (u.off < pkg.pieces /\ m.xml = UpTo(u.off + 1))

\* A worker u with its modem m.
WorkerInv(u, m) == Copied(u) /\ Loaded(u, m) /\ Passed(u, m) /\ Pieces(u, m)

DiagInd ==
    Types /\ BootShared /\ \A w \in Workers : WorkerInv(wk[w], modem[w])

-----------------------------------------------------------------------------
(* Types. *)

LEMMA PackageFacts ==
    ASSUME pkg \in Packages
    PROVE  /\ pkg.files \in Seq(Roles) /\ pkg.pieces \in Nat /\ pkg.fastboot \in BOOLEAN
           /\ Files = 1 .. Len(pkg.files) /\ Len(pkg.files) \in Nat
BY DiagAssumption DEF Files

\* The 0s and 1s the code sets are in their ranges.
LEMMA Limits ==
    ASSUME pkg \in Packages
    PROVE  /\ 0 \in 0 .. pkg.pieces /\ 0 \in 0 .. MaxTries - 1 /\ 0 \in 0 .. MaxStray
           /\ 0 \in 0 .. MaxSends - 1
BY DiagAssumption, PackageFacts

LEMMA InitTypes == Init => Types
<1> SUFFICES ASSUME Init PROVE Types
  OBVIOUS
<1>1. NewWorker \in WorkerRec
  BY DiagAssumption, PackageFacts DEF Init, NewWorker, WorkerRec, Pcs
<1>2. NewModem \subseteq ModemRec
  <2>1. <<>> \in Seq(Int) /\ {} \in SUBSET Files
    OBVIOUS
  <2>2. {<<>>} \subseteq Seq(Int) /\ {{}} \subseteq SUBSET Files /\ {0} \subseteq 0 .. MaxStray
    BY <2>1, Limits DEF Init
  <2> QED
    BY <2>2, Zenon DEF NewModem, ModemRec
<1> QED
  BY <1>1, <1>2 DEF Init, Types

LEMMA InitDiagInd == Init => DiagInd
<1> SUFFICES ASSUME Init PROVE DiagInd
  OBVIOUS
<1>1. Types
  BY InitTypes
<1>2. BootShared
  BY DEF Init, BootShared, Boot, Role
<1>3. ASSUME NEW w \in Workers
      PROVE  WorkerInv(wk[w], modem[w])
  <2>1. wk[w] = NewWorker /\ modem[w] \in NewModem
    BY DEF Init
  <2>2. wk[w].pc = "copy" /\ wk[w].i = 1 /\ wk[w].download = FALSE
    BY <2>1 DEF NewWorker
  <2>4. modem[w].prog \in {FALSE} /\ modem[w].entered \in {FALSE} /\ modem[w].stray \in {0}
    BY <2>1 DEF NewModem
  <2>3. \A f \in Boot : ~(f < 1)
    BY <1>1, PackageFacts DEF Types, Boot, Role
  <2> QED
    BY <2>2, <2>3, <2>4 DEF WorkerInv, Copied, Loaded, Passed, Pieces, Sizing, Checks, Prepares
<1> QED
  BY <1>1, <1>2, <1>3 DEF DiagInd

-----------------------------------------------------------------------------
(* One step of one worker. *)

\* A step that replaces the record of one worker and of its modem by records
\* that satisfy the invariant, and keeps the boot images flagged.
LEMMA OwnStep ==
    ASSUME DiagInd, NEW w \in Workers, NEW r \in WorkerRec, NEW q \in ModemRec,
           wk' = [wk EXCEPT ![w] = r], modem' = [modem EXCEPT ![w] = q],
           pkg' = pkg, shared' \in [Files -> BOOLEAN], size' \in Nat,
           \A f \in Boot : shared'[f] = TRUE, WorkerInv(r, q)
    PROVE  DiagInd'
<1>1. Files' = Files /\ Boot' = Boot /\ Whole' = Whole
  BY DEF Files, Boot, Role, Whole
<1>2. WorkerRec' = WorkerRec /\ ModemRec' = ModemRec
  BY <1>1 DEF WorkerRec, ModemRec
<1>3. wk' \in [Workers -> WorkerRec] /\ modem' \in [Workers -> ModemRec]
  BY DEF DiagInd, Types
<1>4. Types'
  BY <1>1, <1>2, <1>3 DEF DiagInd, Types
<1>5. ASSUME NEW v \in Workers
      PROVE  WorkerInv(wk'[v], modem'[v])
  <2>1. CASE v = w
    BY <2>1 DEF DiagInd, Types
  <2>2. CASE v # w
    <3>1. wk'[v] = wk[v] /\ modem'[v] = modem[v]
      BY <2>2 DEF DiagInd, Types
    <3> QED
      BY <3>1 DEF DiagInd
  <2> QED
    BY <2>1, <2>2
<1>6. ASSUME NEW v \in Workers
      PROVE  WorkerInv(wk[v], modem[v])'
  BY <1>1, <1>5 DEF WorkerInv, Copied, Loaded, Passed, Pieces, Matched, HasXml
<1> QED
  BY <1>1, <1>4, <1>6 DEF DiagInd, BootShared

\* What every step of a worker may use of the invariant.
LEMMA Own ==
    ASSUME DiagInd, NEW w \in Workers
    PROVE  /\ wk[w] \in WorkerRec /\ modem[w] \in ModemRec
           /\ WorkerInv(wk[w], modem[w]) /\ pkg \in Packages
           /\ modem = [modem EXCEPT ![w] = modem[w]]
           /\ wk = [wk EXCEPT ![w] = wk[w]]
           /\ shared \in [Files -> BOOLEAN] /\ size \in Nat
           /\ \A f \in Boot : shared[f] = TRUE
BY DEF DiagInd, Types, BootShared

\* A step of the worker alone.
LEMMA WorkerStep ==
    ASSUME DiagInd, NEW w \in Workers, NEW r \in WorkerRec,
           wk' = [wk EXCEPT ![w] = r], UNCHANGED <<package, modem>>,
           WorkerInv(r, modem[w])
    PROVE  DiagInd'
BY Own, OwnStep DEF package

\* A phase that returns false: RunMiFiPST decides with what the modem is.
LEMMA FalseStep ==
    ASSUME DiagInd, NEW w \in Workers, False(w), UNCHANGED <<package, modem>>,
           pcOf(w) \in {"version", "partition", "mobileId"} \cup Prepares
    PROVE  DiagInd'
<1> DEFINE u == wk[w]
           r == [u EXCEPT !.pc = "decide", !.result = FALSE, !.off = 0, !.tries = 0, !.sends = 0]
<1>1. wk' = [wk EXCEPT ![w] = r]
  BY DEF False, DiagInd, Types
<1>2. u \in WorkerRec /\ WorkerInv(u, modem[w]) /\ pkg \in Packages
  BY Own
<1>3. r \in WorkerRec
  BY <1>2, Limits DEF WorkerRec, Pcs
<1>4. /\ r.pc = "decide" /\ r.result = FALSE /\ r.flags = u.flags
      /\ r.download = u.download /\ r.force = u.force
  BY <1>2 DEF WorkerRec
<1>5. u.pc \in {"version", "partition", "mobileId"} \cup Prepares
  BY DEF pcOf
<1> HIDE DEF r, u
<1>6. WorkerInv(r, modem[w])
  BY <1>2, <1>4, <1>5 DEF WorkerInv, Copied, Loaded, Passed, Pieces, Matched, HasXml,
     Sizing, Checks, Prepares
<1> QED
  BY <1>1, <1>3, <1>6, WorkerStep DEF r, u

\* r is u at another place.
Moved(u, p, r) ==
    /\ r.pc = p /\ r.i = u.i /\ r.flags = u.flags /\ r.download = u.download
    /\ r.force = u.force /\ r.off = u.off /\ r.next = u.next /\ r.result = u.result

\* A step that only moves the worker on.
LEMMA GotoStep ==
    ASSUME DiagInd, NEW w \in Workers, NEW p \in Pcs, Goto(w, p),
           UNCHANGED <<package, modem>>,
           \A r \in WorkerRec : Moved(wk[w], p, r) => WorkerInv(r, modem[w])
    PROVE  DiagInd'
<1> DEFINE u == wk[w]
           r == [u EXCEPT !.pc = p]
<1>1. wk' = [wk EXCEPT ![w] = r]
  BY DEF Goto, DiagInd, Types
<1>2. u \in WorkerRec
  BY Own
<1>3. r \in WorkerRec
  BY <1>2 DEF WorkerRec
<1>4. Moved(u, p, r)
  BY <1>2 DEF WorkerRec, Moved
<1> HIDE DEF r
<1>5. WorkerInv(r, modem[w])
  BY <1>3, <1>4
<1> QED
  BY <1>1, <1>3, <1>5, WorkerStep DEF r

\* The moves from one check or preparation to the next.
LEMMA PassMoves ==
    ASSUME NEW u \in WorkerRec, NEW m \in ModemRec, WorkerInv(u, m),
           NEW p, NEW r \in WorkerRec, Moved(u, p, r),
           \/ u.pc = "status" /\ p = "version"
           \/ u.pc = "version" /\ p = "partition" /\ m.mode = "normal"
           \/ u.pc = "mobileId" /\ p = "decide"
           \/ u.pc = "offline" /\ p = "logo"
           \/ u.pc = "simlock" /\ p = "decide"
           \/ u.pc = "decide" /\ p = "error"
           \/ u.pc = "decide" /\ p \in {"adb", "prg"} /\ u.result = TRUE /\ u.download = FALSE
           \/ u.pc = "decide" /\ p = "prg" /\ u.download = TRUE
           \/ u.pc = "adb" /\ p = "prg"
           \/ u.pc = "prg" /\ p = "error"
    PROVE  WorkerInv(r, m)
BY DEF WorkerInv, Copied, Loaded, Passed, Pieces, Matched, HasXml, Sizing, Checks,
       Prepares, Moved

LEMMA CopyMapStep ==
    ASSUME DiagInd, NEW w \in Workers, CopyMap(w)
    PROVE  DiagInd'
<1> DEFINE u == wk[w]
           m == modem[w]
<1>0. /\ u \in WorkerRec /\ WorkerInv(u, m) /\ u.pc = "copy" /\ pkg \in Packages
      /\ shared \in [Files -> BOOLEAN] /\ \A f \in Boot : shared[f] = TRUE
  BY Own DEF CopyMap, pcOf
<1>1. /\ u \in WorkerRec /\ WorkerInv(u, m) /\ u.pc = "copy"
      /\ u.i \in Nat /\ u.i >= 1 /\ u.flags \in [Files -> BOOLEAN]
      /\ Files = 1 .. Len(pkg.files) /\ Len(pkg.files) \in Nat /\ Boot \subseteq Files
      /\ shared \in [Files -> BOOLEAN] /\ \A f \in Boot : shared[f] = TRUE
  <2>1. u.i \in Nat /\ u.i >= 1 /\ u.flags \in [Files -> BOOLEAN]
    BY <1>0 DEF WorkerRec
  <2>2. Boot \subseteq Files
    BY DEF Boot, Role
  <2> QED
    BY <1>0, <2>1, <2>2, PackageFacts
<1>2. CASE u.i \in Files
  <2> DEFINE r == [u EXCEPT !.flags = [u.flags EXCEPT ![u.i] = shared[u.i]], !.i = u.i + 1]
  <2>1. wk' = [wk EXCEPT ![w] = r]
    BY <1>2 DEF CopyMap, DiagInd, Types
  <2>2. u.i + 1 \in Nat \ {0} /\ [u.flags EXCEPT ![u.i] = shared[u.i]] \in [Files -> BOOLEAN]
    BY <1>1, <1>2
  <2>3. r \in WorkerRec
    BY <1>1, <2>2 DEF WorkerRec
  <2>4. /\ r.pc = "copy" /\ r.i = u.i + 1 /\ r.download = u.download
        /\ r.flags = [u.flags EXCEPT ![u.i] = shared[u.i]]
    BY <1>1 DEF WorkerRec
  <2> HIDE DEF r, u, m
  <2>5. \A f \in Boot : f < r.i => r.flags[f] = TRUE
    <3> SUFFICES ASSUME NEW f \in Boot, f < u.i + 1
                 PROVE  r.flags[f] = TRUE
      BY <2>4
    <3>1. CASE f = u.i
      BY <1>1, <1>2, <2>4, <3>1
    <3>2. CASE f # u.i
      <4>1. f < u.i
        BY <1>1, <3>2
      <4>2. u.flags[f] = TRUE
        BY <1>1, <4>1 DEF WorkerInv, Copied
      <4> QED
        BY <1>1, <1>2, <2>4, <3>2, <4>2
    <3> QED
      BY <3>1, <3>2
  <2>6. WorkerInv(r, m)
    BY <1>1, <2>4, <2>5 DEF WorkerInv, Copied, Loaded, Passed, Pieces, Matched, HasXml,
     Sizing, Checks, Prepares
  <2> QED
    BY <2>1, <2>3, <2>6, WorkerStep DEF CopyMap, r, u, m
<1>3. CASE u.i \notin Files
  <2> DEFINE r == [u EXCEPT !.pc = "status", !.i = 1]
  <2>1. wk' = [wk EXCEPT ![w] = r]
    BY <1>3 DEF CopyMap, DiagInd, Types
  <2>2. "status" \in Pcs /\ 1 \in Nat \ {0}
    BY DEF Pcs
  <2>3. r \in WorkerRec
    BY <1>1, <2>2 DEF WorkerRec
  <2>4. r.pc = "status" /\ r.flags = u.flags /\ r.download = u.download
    BY <1>1 DEF WorkerRec
  <2> HIDE DEF r, u, m
  <2>5. \A f \in Boot : f < u.i
    BY <1>1, <1>3
  <2>6. WorkerInv(r, m)
    BY <1>1, <2>4, <2>5 DEF WorkerInv, Copied, Loaded, Passed, Pieces, Matched, HasXml,
     Sizing, Checks, Prepares
  <2> QED
    BY <2>1, <2>3, <2>6, WorkerStep DEF CopyMap, r, u, m
<1> QED
  BY <1>2, <1>3

LEMMA RequestDeviceStatusStep ==
    ASSUME DiagInd, NEW w \in Workers, RequestDeviceStatus(w)
    PROVE  DiagInd'
<1> DEFINE u == wk[w]
           m == modem[w]
<1>1. u \in WorkerRec /\ WorkerInv(u, m) /\ u.pc = "status"
  BY Own DEF RequestDeviceStatus, pcOf
<1>2. CASE Goto(w, "version")
  BY <1>1, <1>2, Own, PassMoves, GotoStep DEF RequestDeviceStatus, Pcs
<1>3. CASE wk' = [wk EXCEPT ![w].pc = "mobileId", ![w].download = TRUE]
  <2> DEFINE r == [u EXCEPT !.pc = "mobileId", !.download = TRUE]
  <2>1. wk' = [wk EXCEPT ![w] = r]
    BY <1>3 DEF DiagInd, Types
  <2>2. "mobileId" \in Pcs
    BY DEF Pcs
  <2>3. r \in WorkerRec
    BY <1>1, <2>2 DEF WorkerRec
  <2>4. r.pc = "mobileId" /\ r.flags = u.flags /\ r.download = TRUE
    BY <1>1 DEF WorkerRec
  <2> HIDE DEF r, u, m
  <2>5. WorkerInv(r, m)
    BY <1>1, <2>4 DEF WorkerInv, Copied, Loaded, Passed, Pieces, Matched, HasXml,
     Sizing, Checks, Prepares
  <2> QED
    BY <2>1, <2>3, <2>5, WorkerStep DEF RequestDeviceStatus, r, u, m
<1> QED
  BY <1>2, <1>3 DEF RequestDeviceStatus

LEMMA RequestFirmwarVerStep ==
    ASSUME DiagInd, NEW w \in Workers, RequestFirmwarVer(w)
    PROVE  DiagInd'
<1>1. CASE modem[w].mode = "normal" /\ Goto(w, "partition")
  BY <1>1, Own, PassMoves, GotoStep DEF RequestFirmwarVer, pcOf, Pcs
<1> QED
  BY <1>1, FalseStep DEF RequestFirmwarVer

LEMMA checkIfPartitionMatchStep ==
    ASSUME DiagInd, NEW w \in Workers, checkIfPartitionMatch(w)
    PROVE  DiagInd'
<1> DEFINE u == wk[w]
           m == modem[w]
<1>1. /\ u \in WorkerRec /\ m \in ModemRec /\ WorkerInv(u, m) /\ u.pc = "partition"
      /\ "offline" \in Pcs
  BY Own DEF checkIfPartitionMatch, pcOf, Pcs
<1>2. CASE /\ wk' = [wk EXCEPT ![w].pc = "offline", ![w].force = TRUE]
           /\ UNCHANGED modem
  <2> DEFINE r == [u EXCEPT !.pc = "offline", !.force = TRUE]
  <2>1. wk' = [wk EXCEPT ![w] = r]
    BY <1>2 DEF DiagInd, Types
  <2>2. r \in WorkerRec
    BY <1>1 DEF WorkerRec
  <2>3. r.pc = "offline" /\ r.flags = u.flags /\ r.download = u.download /\ r.force = TRUE
    BY <1>1 DEF WorkerRec
  <2> HIDE DEF r, u, m
  <2>4. WorkerInv(r, m)
    BY <1>1, <2>3 DEF WorkerInv, Copied, Loaded, Passed, Pieces, Matched, HasXml,
     Sizing, Checks, Prepares
  <2> QED
    BY <1>2, <2>1, <2>2, <2>4, WorkerStep DEF checkIfPartitionMatch, package, r, u, m
<1>3. CASE /\ Goto(w, "offline")
           /\ modem' = [modem EXCEPT ![w].table = TRUE]
  <2> DEFINE r == [u EXCEPT !.pc = "offline"]
             q == [m EXCEPT !.table = TRUE]
  <2>1. wk' = [wk EXCEPT ![w] = r] /\ modem' = [modem EXCEPT ![w] = q]
    BY <1>3 DEF Goto, DiagInd, Types
  <2>2. r \in WorkerRec /\ q \in ModemRec
    BY <1>1 DEF WorkerRec, ModemRec
  <2>3. r.pc = "offline" /\ r.flags = u.flags /\ r.download = u.download
    BY <1>1 DEF WorkerRec
  <2>4. /\ q.mode = m.mode /\ q.late = m.late /\ q.table = TRUE /\ q.stray = m.stray
        /\ q.prog = m.prog /\ q.entered = m.entered
    BY <1>1 DEF ModemRec
  <2> HIDE DEF r, q, u, m
  <2>5. WorkerInv(r, q)
    BY <1>1, <2>3, <2>4 DEF WorkerInv, Copied, Loaded, Passed, Pieces, Matched, HasXml,
     Sizing, Checks, Prepares
  <2> QED
    BY <2>1, <2>2, <2>5, Own, OwnStep DEF checkIfPartitionMatch, package, r, q, u, m
<1> QED
  BY <1>2, <1>3, FalseStep DEF checkIfPartitionMatch, package

LEMMA checkIfPackageMatchDlModeStep ==
    ASSUME DiagInd, NEW w \in Workers, checkIfPackageMatchDlMode(w)
    PROVE  DiagInd'
<1>1. CASE Goto(w, "decide")
  BY <1>1, Own, PassMoves, GotoStep DEF checkIfPackageMatchDlMode, pcOf, Pcs
<1> QED
  BY <1>1, FalseStep DEF checkIfPackageMatchDlMode

LEMMA SwitchOfflineModeStep ==
    ASSUME DiagInd, NEW w \in Workers, SwitchOfflineMode(w)
    PROVE  DiagInd'
<1>1. CASE Goto(w, "logo")
  BY <1>1, Own, PassMoves, GotoStep DEF SwitchOfflineMode, pcOf, Pcs
<1> QED
  BY <1>1, FalseStep DEF SwitchOfflineMode, Prepares
\* Clearing the flags of files that are no boot images.
LEMMA KeepBoot ==
    ASSUME NEW u \in WorkerRec, NEW role \in Roles \ {"boot"},
           \A f \in Boot : u.flags[f] = TRUE,
           NEW g, g = [f \in Files |-> u.flags[f] /\ f \notin Role(role)]
    PROVE  g \in [Files -> BOOLEAN] /\ \A f \in Boot : g[f] = TRUE
BY DEF WorkerRec, Boot, Role

LEMMA StorePICStep ==
    ASSUME DiagInd, NEW w \in Workers, StorePIC(w)
    PROVE  DiagInd'
<1> DEFINE u == wk[w]
           m == modem[w]
           g == [f \in Files |-> u.flags[f] /\ f \notin Role("logo")]
           r == [u EXCEPT !.pc = "xmlBegin", !.flags = g]
<1>1. u \in WorkerRec /\ WorkerInv(u, m) /\ u.pc = "logo" /\ "xmlBegin" \in Pcs
  BY Own DEF StorePIC, pcOf, Pcs
<1>2. CASE wk' = [wk EXCEPT ![w].pc = "xmlBegin", ![w].flags = [f \in Files |->
                               @[f] /\ f \notin Role("logo")]]
  <2>1. wk' = [wk EXCEPT ![w] = r]
    BY <1>2 DEF DiagInd, Types
  <2>2. \A f \in Boot : u.flags[f] = TRUE
    BY <1>1 DEF WorkerInv, Copied
  <2>3. g \in [Files -> BOOLEAN] /\ \A f \in Boot : g[f] = TRUE
    BY <1>1, <2>2, KeepBoot DEF Roles
  <2> HIDE DEF g
  <2>4. r \in WorkerRec
    BY <1>1, <2>3 DEF WorkerRec
  <2>5. r.pc = "xmlBegin" /\ r.flags = g /\ r.download = u.download /\ r.force = u.force
    BY <1>1 DEF WorkerRec
  <2> HIDE DEF r, u, m
  <2>6. WorkerInv(r, m)
    BY <1>1, <2>3, <2>5 DEF WorkerInv, Copied, Loaded, Passed, Pieces, Matched, HasXml,
     Sizing, Checks, Prepares
  <2> QED
    BY <2>1, <2>4, <2>6, WorkerStep DEF StorePIC, r, u, m
<1> QED
  BY <1>1, <1>2, FalseStep DEF StorePIC, Prepares

LEMMA XmlBeginStep ==
    ASSUME DiagInd, NEW w \in Workers, XmlBegin(w)
    PROVE  DiagInd'
<1> DEFINE u == wk[w]
           m == modem[w]
           g == [f \in Files |-> u.flags[f] /\ f \notin Role("xml")]
           r == [u EXCEPT !.pc = "xml", !.off = 0, !.flags = g]
<1>1. /\ u \in WorkerRec /\ WorkerInv(u, m) /\ u.pc = "xmlBegin" /\ "xml" \in Pcs
      /\ 0 \in 0 .. pkg.pieces
  BY Own, Limits DEF XmlBegin, pcOf, Pcs
<1>2. CASE Role("xml") # {}
  <2>1. wk' = [wk EXCEPT ![w] = r]
    BY <1>2 DEF XmlBegin, DiagInd, Types
  <2>2. \A f \in Boot : u.flags[f] = TRUE
    BY <1>1 DEF WorkerInv, Copied
  <2>3. g \in [Files -> BOOLEAN] /\ \A f \in Boot : g[f] = TRUE
    BY <1>1, <2>2, KeepBoot DEF Roles
  <2> HIDE DEF g
  <2>4. r \in WorkerRec
    BY <1>1, <2>3 DEF WorkerRec
  <2>5. /\ r.pc = "xml" /\ r.flags = g /\ r.off = 0 /\ r.download = u.download
        /\ r.force = u.force
    BY <1>1 DEF WorkerRec
  <2> HIDE DEF r, u, m
  <2>6. WorkerInv(r, m)
    BY <1>1, <2>3, <2>5 DEF WorkerInv, Copied, Loaded, Passed, Pieces, Matched, HasXml,
     Sizing, Checks, Prepares
  <2> QED
    BY <2>1, <2>4, <2>6, WorkerStep DEF XmlBegin, r, u, m
<1> QED
  BY <1>1, <1>2, FalseStep DEF XmlBegin, Prepares

-----------------------------------------------------------------------------
(* The pieces of custom_info.xml. *)

\* The modem after a piece was sent: its file and its stray answers changed.
Answered(m, q) ==
    /\ q.mode = m.mode /\ q.late = m.late /\ q.table = m.table /\ q.prog = m.prog
    /\ q.got = m.got /\ q.entered = m.entered
    /\ m.late = FALSE => q.stray = 0

\* An attempt that failed, whatever it left in the modem.
LEMMA XmlFailedStep ==
    ASSUME DiagInd, NEW w \in Workers, pcOf(w) = "xml", XmlFailed(w), UNCHANGED package,
           NEW q \in ModemRec, modem' = [modem EXCEPT ![w] = q], Answered(modem[w], q)
    PROVE  DiagInd'
<1> DEFINE u == wk[w]
           m == modem[w]
<1>1. /\ u \in WorkerRec /\ WorkerInv(u, m) /\ u.pc = "xml" /\ {"xmlBegin", "decide"} \subseteq Pcs
      /\ 0 \in 0 .. pkg.pieces /\ 0 \in 0 .. MaxTries - 1 /\ 0 \in 0 .. MaxSends - 1
  BY Own, Limits DEF pcOf, Pcs
<1>2. PICK r \in WorkerRec :
         /\ wk' = [wk EXCEPT ![w] = r]
         /\ r.pc = "xmlBegin" \/ (r.pc = "decide" /\ r.result = FALSE)
         /\ r.flags = u.flags /\ r.download = u.download /\ r.force = u.force
  <2>1. CASE u.tries + 1 < MaxTries
    <3> DEFINE r == [u EXCEPT !.pc = "xmlBegin", !.tries = u.tries + 1, !.sends = 0]
    <3>1. wk' = [wk EXCEPT ![w] = r]
      BY <2>1 DEF XmlFailed, DiagInd, Types
    <3>2. u.tries + 1 \in 0 .. MaxTries - 1
      BY <1>1, <2>1, DiagAssumption DEF WorkerRec
    <3>3. r \in WorkerRec
      BY <1>1, <3>2 DEF WorkerRec
    <3>4. /\ r.pc = "xmlBegin" /\ r.flags = u.flags /\ r.download = u.download
          /\ r.force = u.force
      BY <1>1 DEF WorkerRec
    <3> HIDE DEF r
    <3> QED
      BY <3>1, <3>3, <3>4
  <2>2. CASE ~(u.tries + 1 < MaxTries)
    <3> DEFINE r == [u EXCEPT !.pc = "decide", !.result = FALSE, !.off = 0, !.tries = 0,
                              !.sends = 0]
    <3>1. wk' = [wk EXCEPT ![w] = r]
      BY <2>2 DEF XmlFailed, False, DiagInd, Types
    <3>2. r \in WorkerRec
      BY <1>1 DEF WorkerRec
    <3>3. /\ r.pc = "decide" /\ r.result = FALSE /\ r.flags = u.flags
          /\ r.download = u.download /\ r.force = u.force
      BY <1>1 DEF WorkerRec
    <3> HIDE DEF r
    <3> QED
      BY <3>1, <3>2, <3>3
  <2> QED
    BY <2>1, <2>2
<1>3. WorkerInv(r, q)
  BY <1>1, <1>2 DEF Answered, WorkerInv, Copied, Loaded, Passed, Pieces, Matched, HasXml,
     Sizing, Checks, Prepares
<1> QED
  BY <1>2, <1>3, Own, OwnStep DEF package

\* A piece put at its offset: the file is what the attempt has written with it.
LEMMA StoredIs ==
    ASSUME DiagInd, NEW w \in Workers, pcOf(w) = "xml", modem[w].late = FALSE,
           wk[w].off \in Nat
    PROVE  Stored(w) = UpTo(wk[w].off + 1)
<1> DEFINE u == wk[w]
           m == modem[w]
<1>1. u.off > 0 => m.xml = UpTo(u.off) \/ m.xml = UpTo(u.off + 1)
  BY Own DEF WorkerInv, Pieces, pcOf
<1>2. \A n \in Nat : Len(UpTo(n)) = n
  BY DEF UpTo
<1>3. u.off > 0 => /\ Len(m.xml) \in {u.off, u.off + 1}
                   /\ \A k \in 1 .. u.off : m.xml[k] = k - 1
  BY <1>1, <1>2 DEF UpTo
<1>4. Stored(w) = [k \in 1 .. u.off + 1 |-> IF k = u.off + 1 THEN u.off
                                  ELSE IF k <= Len(m.xml) THEN m.xml[k] ELSE -1]
  BY DEF Stored
<1>5. ASSUME NEW k \in 1 .. u.off + 1
      PROVE  (IF k = u.off + 1 THEN u.off
              ELSE IF k <= Len(m.xml) THEN m.xml[k] ELSE -1) = k - 1
  <2>1. CASE k = u.off + 1
    BY <2>1
  <2>2. CASE k # u.off + 1
    <3>1. k \in 1 .. u.off /\ u.off > 0
      BY <2>2
    <3>2. k <= Len(m.xml) /\ m.xml[k] = k - 1
      BY <1>3, <3>1
    <3> QED
      BY <2>2, <3>2
  <2> QED
    BY <2>1, <2>2
<1> QED
  BY <1>4, <1>5 DEF UpTo

\* A piece that is sent again, whatever it left in the modem.
LEMMA SendAgainStep ==
    ASSUME DiagInd, NEW w \in Workers, pcOf(w) = "xml", UNCHANGED package,
           wk[w].off < pkg.pieces, SendAgain(w),
           NEW q \in ModemRec, modem' = [modem EXCEPT ![w] = q], Answered(modem[w], q),
           q.xml \in {modem[w].xml, Stored(w)}
    PROVE  DiagInd'
<1> DEFINE u == wk[w]
           m == modem[w]
           r == [u EXCEPT !.sends = u.sends + 1]
<1>1. /\ u \in WorkerRec /\ m \in ModemRec /\ WorkerInv(u, m) /\ u.pc = "xml"
  BY Own DEF pcOf
<1>2. wk' = [wk EXCEPT ![w] = r]
  BY DEF DiagInd, Types, SendAgain
<1>3. u.sends + 1 \in 0 .. MaxSends - 1
  BY <1>1, DiagAssumption DEF WorkerRec, SendAgain
<1>4. r \in WorkerRec
  BY <1>1, <1>3 DEF WorkerRec
<1>5. /\ r.pc = "xml" /\ r.off = u.off /\ r.flags = u.flags
      /\ r.download = u.download /\ r.force = u.force
  BY <1>1 DEF WorkerRec
<1>6. m.late = FALSE => q.xml = m.xml \/ q.xml = UpTo(u.off + 1)
  <2>1. u.off \in Nat
    BY <1>1, PackageFacts, Own DEF WorkerRec
  <2> QED
    BY <2>1, StoredIs
<1>7. u.off < pkg.pieces
  OBVIOUS
<1> HIDE DEF r, u, m
<1>8. WorkerInv(r, q)
  BY <1>1, <1>5, <1>6, <1>7 DEF Answered, u, m, WorkerInv, Copied, Loaded, Passed, Pieces, Matched,
     HasXml, Sizing, Checks, Prepares
<1> QED
  BY <1>2, <1>4, <1>8, Own, OwnStep DEF package, r, u, m

\* A piece that the worker takes for written.
LEMMA XmlPieceStep ==
    ASSUME DiagInd, NEW w \in Workers, pcOf(w) = "xml", UNCHANGED package,
           wk[w].off < pkg.pieces, NextPiece(w),
           NEW q \in ModemRec, modem' = [modem EXCEPT ![w] = q], Answered(modem[w], q),
           modem[w].late = FALSE => q.xml = Stored(w)
    PROVE  DiagInd'
<1> DEFINE u == wk[w]
           m == modem[w]
           r == [u EXCEPT !.off = u.off + 1, !.sends = 0]
<1>1. /\ u \in WorkerRec /\ m \in ModemRec /\ WorkerInv(u, m) /\ u.pc = "xml"
      /\ pkg.pieces \in Nat /\ 0 \in 0 .. MaxSends - 1
  BY Own, PackageFacts, Limits DEF pcOf
<1>2. wk' = [wk EXCEPT ![w] = r]
  BY DEF DiagInd, Types, NextPiece
<1>3. u.off \in Nat /\ u.off + 1 \in 0 .. pkg.pieces
  BY <1>1 DEF WorkerRec
<1>4. r \in WorkerRec
  BY <1>1, <1>3 DEF WorkerRec
<1>5. /\ r.pc = "xml" /\ r.off = u.off + 1 /\ r.flags = u.flags
      /\ r.download = u.download /\ r.force = u.force
  BY <1>1 DEF WorkerRec
<1>6. m.late = FALSE => q.xml = UpTo(u.off + 1)
  BY <1>1, <1>3, StoredIs
<1> HIDE DEF r, u, m
<1>7. WorkerInv(r, q)
  BY <1>1, <1>3, <1>5, <1>6 DEF Answered, u, m, WorkerInv, Copied, Loaded, Passed, Pieces, Matched, HasXml,
     Sizing, Checks, Prepares
<1> QED
  BY <1>2, <1>4, <1>7, Own, OwnStep DEF package, r, u, m

\* What a modem stores is a sequence of piece numbers.
LEMMA StoredType ==
    ASSUME DiagInd, NEW w \in Workers
    PROVE  Stored(w) \in Seq(Int)
<1>1. wk[w].off \in Nat /\ modem[w].xml \in Seq(Int)
  <2>1. wk[w] \in WorkerRec /\ modem[w] \in ModemRec /\ pkg.pieces \in Nat
    BY Own, PackageFacts
  <2>2. wk[w].off \in 0 .. pkg.pieces
    BY <2>1 DEF WorkerRec
  <2> QED
    BY <2>1, <2>2 DEF ModemRec
<1>2. ASSUME NEW k \in 1 .. wk[w].off + 1
      PROVE  (IF k = wk[w].off + 1 THEN wk[w].off
              ELSE IF k <= Len(modem[w].xml) THEN modem[w].xml[k] ELSE -1) \in Int
  BY <1>1
<1>3. wk[w].off + 1 \in Nat
  BY <1>1
<1> QED
  BY <1>1, <1>2, <1>3 DEF Stored

LEMMA WriteConfigXmlStep ==
    ASSUME DiagInd, NEW w \in Workers, pcOf(w) = "xml", UNCHANGED package,
           wk[w].off < pkg.pieces, WriteConfigXml(w)
    PROVE  DiagInd'
<1> DEFINE m == modem[w]
<1>1. /\ m \in ModemRec /\ Stored(w) \in Seq(Int) /\ m.stray \in 0 .. MaxStray
      /\ MaxStray \in Nat /\ m.late \in BOOLEAN /\ (m.late = FALSE => m.stray = 0)
  BY Own, StoredType, DiagAssumption DEF ModemRec, WorkerInv, Pieces
<1>2. PICK kept \in 0 .. m.stray :
       \/ /\ NextPiece(w)
          /\ modem' = [modem EXCEPT ![w].stray = kept, ![w].xml = Stored(w)]
       \/ /\ XmlFailed(w) \/ SendAgain(w)
          /\ \/ modem' = [modem EXCEPT ![w].stray = kept]
             \/ modem' = [modem EXCEPT ![w].stray = kept, ![w].xml = Stored(w)]
             \/ /\ m.late /\ kept < MaxStray
                /\ modem' = [modem EXCEPT ![w].stray = kept + 1, ![w].xml = Stored(w)]
       \/ /\ kept > 0
          /\ NextPiece(w)
          /\ \/ modem' = [modem EXCEPT ![w].stray = kept - 1]
             \/ modem' = [modem EXCEPT ![w].stray = kept, ![w].xml = Stored(w)]
  BY DEF WriteConfigXml
<1>3. kept \in 0 .. MaxStray /\ (m.late = FALSE => kept = 0)
  BY <1>1
<1>9. kept > 0 => m.late = TRUE
  <2>1. m.late = FALSE => kept = 0
    BY <1>3
  <2>2. m.late \in BOOLEAN
    BY <1>1
  <2> HIDE DEF m
  <2> QED
    BY <2>1, <2>2
\* Only the number of stray answers changed.
<1>4. ASSUME NEW x \in 0 .. MaxStray, m.late = FALSE => x = 0,
             modem' = [modem EXCEPT ![w].stray = x]
      PROVE  \E q \in ModemRec : /\ modem' = [modem EXCEPT ![w] = q] /\ Answered(m, q)
                                 /\ q.xml = m.xml
  <2> DEFINE q == [m EXCEPT !.stray = x]
  <2>1. modem' = [modem EXCEPT ![w] = q]
    BY <1>4 DEF DiagInd, Types
  <2>2. q \in ModemRec
    BY <1>1, <1>4 DEF ModemRec
  <2>3. Answered(m, q) /\ q.xml = m.xml
    BY <1>1, <1>4 DEF ModemRec, Answered
  <2> HIDE DEF q
  <2> QED
    BY <2>1, <2>2, <2>3
\* The piece was stored, too.
<1>5. ASSUME NEW x \in 0 .. MaxStray, m.late = FALSE => x = 0,
             modem' = [modem EXCEPT ![w].stray = x, ![w].xml = Stored(w)]
      PROVE  \E q \in ModemRec : /\ modem' = [modem EXCEPT ![w] = q] /\ Answered(m, q)
                                 /\ q.xml = Stored(w)
  <2> DEFINE q == [m EXCEPT !.stray = x, !.xml = Stored(w)]
  <2>1. modem' = [modem EXCEPT ![w] = q]
    BY <1>5 DEF DiagInd, Types
  <2>2. q \in ModemRec
    BY <1>1, <1>5 DEF ModemRec
  <2>3. Answered(m, q) /\ q.xml = Stored(w)
    BY <1>1, <1>5 DEF ModemRec, Answered
  <2> HIDE DEF q
  <2> QED
    BY <2>1, <2>2, <2>3
<1>6. CASE /\ NextPiece(w)
           /\ modem' = [modem EXCEPT ![w].stray = kept, ![w].xml = Stored(w)]
  BY <1>3, <1>5, <1>6, XmlPieceStep
<1>7. CASE XmlFailed(w) \/ SendAgain(w)
  <2>1. m.late /\ kept < MaxStray => kept + 1 \in 0 .. MaxStray /\ m.late = TRUE
    BY <1>1, <1>3
  <2>2. \E x \in 0 .. MaxStray :
           /\ m.late = FALSE => x = 0
           /\ \/ modem' = [modem EXCEPT ![w].stray = x]
              \/ modem' = [modem EXCEPT ![w].stray = x, ![w].xml = Stored(w)]
    <3>1. CASE \/ modem' = [modem EXCEPT ![w].stray = kept]
               \/ modem' = [modem EXCEPT ![w].stray = kept, ![w].xml = Stored(w)]
      BY <1>3, <3>1
    <3>2. CASE /\ m.late /\ kept < MaxStray
               /\ modem' = [modem EXCEPT ![w].stray = kept + 1, ![w].xml = Stored(w)]
      BY <2>1, <3>2
    <3>3. CASE /\ kept > 0
               /\ \/ modem' = [modem EXCEPT ![w].stray = kept - 1]
                  \/ modem' = [modem EXCEPT ![w].stray = kept, ![w].xml = Stored(w)]
      <4>0. kept > 0
        BY <3>3
      <4>1. kept - 1 \in 0 .. MaxStray /\ m.late = TRUE
        <5>1. kept \in Nat /\ kept <= MaxStray /\ MaxStray \in Nat
          BY <1>1, <1>3
        <5>2. m.late = TRUE
          BY <1>9, <4>0
        <5> QED
          BY <4>0, <5>1, <5>2
      <4> QED
        BY <1>3, <3>3, <4>1
    <3>4. CASE modem' = [modem EXCEPT ![w].stray = kept, ![w].xml = Stored(w)]
      BY <1>3, <3>4
    <3> QED
      BY <1>2, <3>1, <3>2, <3>3, <3>4
  <2>3. PICK q \in ModemRec : /\ modem' = [modem EXCEPT ![w] = q] /\ Answered(m, q)
                              /\ q.xml \in {m.xml, Stored(w)}
    BY <1>4, <1>5, <2>2
  <2> QED
    BY <1>7, <2>3, XmlFailedStep, SendAgainStep
<1>8. CASE /\ kept > 0 /\ NextPiece(w)
           /\ \/ modem' = [modem EXCEPT ![w].stray = kept - 1]
              \/ modem' = [modem EXCEPT ![w].stray = kept, ![w].xml = Stored(w)]
  <2>0. kept > 0
    BY <1>8
  <2>1. kept - 1 \in 0 .. MaxStray /\ m.late = TRUE
    <3>1. kept \in Nat /\ kept <= MaxStray /\ MaxStray \in Nat
      BY <1>1, <1>3
    <3>2. m.late = TRUE
      BY <1>9, <2>0
    <3> QED
      BY <2>0, <3>1, <3>2
  <2>2. \E q \in ModemRec : modem' = [modem EXCEPT ![w] = q] /\ Answered(m, q)
    BY <1>3, <1>4, <1>5, <1>8, <2>1
  <2> QED
    BY <1>8, <2>1, <2>2, XmlPieceStep
<1> QED
  BY <1>2, <1>6, <1>7, <1>8

LEMMA DownloadCustomerInfoStep ==
    ASSUME DiagInd, NEW w \in Workers, DownloadCustomerInfo(w)
    PROVE  DiagInd'
<1> DEFINE u == wk[w]
           m == modem[w]
<1>1. /\ u \in WorkerRec /\ m \in ModemRec /\ WorkerInv(u, m) /\ u.pc = "xml"
      /\ pkg.pieces \in Nat /\ u.off \in 0 .. pkg.pieces
      /\ 0 \in 0 .. pkg.pieces /\ 0 \in 0 .. MaxTries - 1
      /\ UNCHANGED package /\ modem = [modem EXCEPT ![w] = m]
  BY Own, Limits, PackageFacts DEF DownloadCustomerInfo, pcOf, WorkerRec
<1>2. CASE (u.off = 0 \/ u.off < pkg.pieces) /\ pkg.pieces > 0
  <2>1. u.off < pkg.pieces
    BY <1>1, <1>2
  <2> QED
    BY <1>1, <1>2, <2>1, WriteConfigXmlStep DEF DownloadCustomerInfo
<1>3. CASE (u.off = 0 \/ u.off < pkg.pieces) /\ ~(pkg.pieces > 0)
  <2>1. Answered(m, m)
    BY <1>1 DEF Answered, WorkerInv, Pieces
  <2>2. modem' = [modem EXCEPT ![w] = m] /\ UNCHANGED modem
    BY <1>1, <1>3 DEF DownloadCustomerInfo
  <2>3. CASE \E n \in 0 .. MaxSends - 1 : wk' = [wk EXCEPT ![w].sends = n]
    <3>1. PICK n \in 0 .. MaxSends - 1 : wk' = [wk EXCEPT ![w].sends = n]
      BY <2>3
    <3> DEFINE r == [u EXCEPT !.sends = n]
    <3>2. wk' = [wk EXCEPT ![w] = r]
      BY <3>1 DEF DiagInd, Types
    <3>3. /\ r \in WorkerRec /\ r.pc = "xml" /\ r.off = u.off /\ r.flags = u.flags
          /\ r.download = u.download /\ r.force = u.force
      BY <1>1 DEF WorkerRec
    <3>4. u.off = 0
      BY <1>1, <1>3
    <3> HIDE DEF r, u, m
    <3>5. WorkerInv(r, m)
      BY <1>1, <3>3, <3>4 DEF WorkerInv, Copied, Loaded, Passed, Pieces, Matched,
         HasXml, Sizing, Checks, Prepares
    <3> QED
      BY <1>1, <2>2, <3>2, <3>3, <3>5, WorkerStep DEF u, m
  <2>5. CASE wk' = [wk EXCEPT ![w].sends = 0]
    BY <1>1, <2>3, <2>5, Limits, Own
  <2>6. CASE SendAgain(w)
    <3>1. u.sends + 1 \in 0 .. MaxSends - 1
      BY <1>1, <2>6, DiagAssumption DEF WorkerRec, SendAgain
    <3>2. wk' = [wk EXCEPT ![w].sends = u.sends + 1]
      BY <2>6 DEF SendAgain
    <3> QED
      BY <2>3, <3>1, <3>2
  <2>4. CASE XmlFailed(w)
    BY <1>1, <2>1, <2>2, <2>4, XmlFailedStep DEF pcOf
  <2> QED
    BY <1>3, <2>4, <2>5, <2>6 DEF DownloadCustomerInfo
<1>4. CASE ~(u.off = 0 \/ u.off < pkg.pieces)
  <2> DEFINE r == [u EXCEPT !.pc = "simlock", !.off = 0, !.tries = 0]
  <2>1. wk' = [wk EXCEPT ![w] = r] /\ UNCHANGED modem
    BY <1>4 DEF DownloadCustomerInfo, DiagInd, Types
  <2>2. "simlock" \in Pcs
    BY DEF Pcs
  <2>3. r \in WorkerRec
    BY <1>1, <2>2 DEF WorkerRec
  <2>4. /\ r.pc = "simlock" /\ r.flags = u.flags /\ r.download = u.download
        /\ r.force = u.force
    BY <1>1 DEF WorkerRec
  <2>5. u.off = pkg.pieces /\ u.off > 0
    BY <1>1, <1>4
  <2>6. m.late = FALSE => m.xml = Whole
    BY <1>1, <2>5 DEF WorkerInv, Pieces, Whole, UpTo
  <2>7. m.late \in BOOLEAN
    BY <1>1 DEF ModemRec
  <2> HIDE DEF r, u, m
  <2>8. WorkerInv(r, m)
    BY <1>1, <2>4, <2>6, <2>7 DEF WorkerInv, Copied, Loaded, Passed, Pieces, Matched, HasXml,
     Sizing, Checks, Prepares
  <2> QED
    BY <1>1, <2>1, <2>3, <2>8, WorkerStep DEF r, u, m
<1> QED
  BY <1>2, <1>3, <1>4

-----------------------------------------------------------------------------
(* RunMiFiPST after the checks. *)

LEMMA EraseSimlockStep ==
    ASSUME DiagInd, NEW w \in Workers, EraseSimlock(w)
    PROVE  DiagInd'
<1>1. CASE Goto(w, "decide")
  BY <1>1, Own, PassMoves, GotoStep DEF EraseSimlock, pcOf, Pcs
<1> QED
  BY <1>1, FalseStep DEF EraseSimlock, Prepares

LEMMA DecideStep ==
    ASSUME DiagInd, NEW w \in Workers, Decide(w)
    PROVE  DiagInd'
<1>1. /\ wk[w].pc = "decide" /\ wk[w] \in WorkerRec /\ modem[w] \in ModemRec
      /\ WorkerInv(wk[w], modem[w]) /\ UNCHANGED <<package, modem>>
      /\ wk[w].download \in BOOLEAN /\ wk[w].result \in BOOLEAN
      /\ {"error", "adb", "prg"} \subseteq Pcs
  BY Own DEF Decide, pcOf, WorkerRec, Pcs, Ends
<1>2. CASE Goto(w, "error")
  BY <1>1, <1>2, PassMoves, GotoStep
<1>3. CASE wk[w].download = TRUE /\ Goto(w, "prg")
  BY <1>1, <1>3, PassMoves, GotoStep
<1>4. CASE /\ wk[w].download = FALSE /\ wk[w].result = TRUE
           /\ Goto(w, "adb") \/ Goto(w, "prg")
  BY <1>1, <1>4, PassMoves, GotoStep
<1> QED
  BY <1>1, <1>2, <1>3, <1>4 DEF Decide

\* The restart over adb: no programmer runs in this modem.
LEMMA AdbRebootStep ==
    ASSUME DiagInd, NEW w \in Workers, AdbReboot(w)
    PROVE  DiagInd'
<1> DEFINE u == wk[w]
           m == modem[w]
<1>1. /\ u \in WorkerRec /\ m \in ModemRec /\ WorkerInv(u, m) /\ u.pc = "adb"
      /\ {"flash", "prg"} \subseteq Pcs /\ UNCHANGED package
  BY Own DEF AdbReboot, pcOf, Pcs
<1>2. CASE Goto(w, "prg") /\ UNCHANGED modem
  BY <1>1, <1>2, PassMoves, GotoStep
<1>3. CASE Goto(w, "flash") /\ modem' = [modem EXCEPT ![w].entered = TRUE]
  <2> DEFINE r == [u EXCEPT !.pc = "flash"]
             q == [m EXCEPT !.entered = TRUE]
  <2>1. wk' = [wk EXCEPT ![w] = r] /\ modem' = [modem EXCEPT ![w] = q]
    BY <1>3 DEF Goto, DiagInd, Types
  <2>2. r \in WorkerRec /\ q \in ModemRec
    BY <1>1 DEF WorkerRec, ModemRec
  <2>3. /\ r.pc = "flash" /\ r.flags = u.flags /\ r.download = u.download
        /\ r.force = u.force
    BY <1>1 DEF WorkerRec
  <2>4. /\ q.mode = m.mode /\ q.late = m.late /\ q.table = m.table /\ q.xml = m.xml
        /\ q.stray = m.stray /\ q.prog = m.prog
    BY <1>1 DEF ModemRec
  <2> HIDE DEF r, q, u, m
  <2>5. WorkerInv(r, q)
    BY <1>1, <2>3, <2>4 DEF WorkerInv, Copied, Loaded, Passed, Pieces, Matched, HasXml,
     Sizing, Checks, Prepares
  <2> QED
    BY <1>1, <2>1, <2>2, <2>5, Own, OwnStep DEF package, r, q, u, m
<1> QED
  BY <1>2, <1>3 DEF AdbReboot

LEMMA DownloadPrgStep ==
    ASSUME DiagInd, NEW w \in Workers, DownloadPrg(w)
    PROVE  DiagInd'
<1> DEFINE u == wk[w]
           m == modem[w]
<1>1. /\ u \in WorkerRec /\ m \in ModemRec /\ WorkerInv(u, m) /\ u.pc = "prg"
      /\ {"length", "error"} \subseteq Pcs /\ UNCHANGED package
  BY Own DEF DownloadPrg, pcOf, Pcs, Ends
<1>2. CASE Goto(w, "error") /\ UNCHANGED modem
  BY <1>1, <1>2, PassMoves, GotoStep
<1>3. ASSUME NEW runs \in BOOLEAN, Goto(w, "length"),
             modem' = [modem EXCEPT ![w].prog = runs, ![w].entered = TRUE]
      PROVE  DiagInd'
  <2> DEFINE r == [u EXCEPT !.pc = "length"]
             q == [m EXCEPT !.prog = runs, !.entered = TRUE]
  <2>1. wk' = [wk EXCEPT ![w] = r] /\ modem' = [modem EXCEPT ![w] = q]
    BY <1>3 DEF Goto, DiagInd, Types
  <2>2. r \in WorkerRec /\ q \in ModemRec
    BY <1>1 DEF WorkerRec, ModemRec
  <2>3. /\ r.pc = "length" /\ r.flags = u.flags /\ r.download = u.download
        /\ r.force = u.force
    BY <1>1 DEF WorkerRec
  <2>4. /\ q.mode = m.mode /\ q.late = m.late /\ q.table = m.table /\ q.xml = m.xml
        /\ q.stray = m.stray
    BY <1>1 DEF ModemRec
  <2> HIDE DEF r, q, u, m
  <2>5. WorkerInv(r, q)
    BY <1>1, <2>3, <2>4 DEF WorkerInv, Copied, Loaded, Passed, Pieces, Matched, HasXml,
     Sizing, Checks, Prepares
  <2> QED
    BY <1>1, <2>1, <2>2, <2>5, Own, OwnStep DEF package, r, q, u, m
<1> QED
  BY <1>2, <1>3 DEF DownloadPrg

\* What DownloadImages leaves flagged is the boot images and no other file.
LEMMA CalculateImageLengthStep ==
    ASSUME DiagInd, NEW w \in Workers, CalculateImageLength(w)
    PROVE  DiagInd'
<1> DEFINE u == wk[w]
           m == modem[w]
           g == [f \in Files |-> u.flags[f] /\ f \in Boot]
           r == [u EXCEPT !.pc = "size", !.next = "ratio", !.flags = g]
<1>1. /\ u \in WorkerRec /\ m \in ModemRec /\ WorkerInv(u, m) /\ u.pc = "length"
      /\ "size" \in Pcs
  BY Own DEF CalculateImageLength, pcOf, Pcs
<1>2. wk' = [wk EXCEPT ![w] = r]
  BY DEF CalculateImageLength, DiagInd, Types
<1>3. \A f \in Boot : u.flags[f] = TRUE
  BY <1>1 DEF WorkerInv, Copied
<1>4. Boot \subseteq Files
  BY DEF Boot, Role
<1>5. /\ g \in [Files -> BOOLEAN] /\ \A f \in Boot : g[f] = TRUE
      /\ \A f \in Files : g[f] = TRUE => f \in Boot
  BY <1>3, <1>4
<1> HIDE DEF g
<1>6. r \in WorkerRec
  BY <1>1, <1>5 DEF WorkerRec
<1>7. /\ r.pc = "size" /\ r.next = "ratio" /\ r.flags = g /\ r.download = u.download
      /\ r.force = u.force
  BY <1>1 DEF WorkerRec
<1> HIDE DEF r, u, m
<1>8. WorkerInv(r, m)
  BY <1>1, <1>5, <1>7 DEF WorkerInv, Copied, Loaded, Passed, Pieces, Matched, HasXml,
     Sizing, Checks, Prepares
<1> QED
  BY <1>2, <1>6, <1>8, WorkerStep DEF CalculateImageLength, r, u, m

-----------------------------------------------------------------------------
(* The size of the images of the package. *)

\* r is u in or after GetDiagDlImgSize: only its loop's variables changed.
Counting(u, r) ==
    /\ r.pc \in Sizing \cup {u.next} /\ r.flags = u.flags /\ r.download = u.download
    /\ r.force = u.force /\ r.next = u.next

LEMMA CountingInv ==
    ASSUME NEW u \in WorkerRec, NEW m \in ModemRec, WorkerInv(u, m), u.pc \in Sizing,
           NEW r \in WorkerRec, Counting(u, r)
    PROVE  WorkerInv(r, m)
<1>1. u.next \in {"ratio", "done"}
  BY DEF WorkerRec, WorkerInv, Copied
<1> QED
  BY <1>1 DEF Counting, WorkerInv, Copied, Loaded, Passed, Pieces, Matched, HasXml,
     Sizing, Checks, Prepares

\* A step of GetDiagDlImgSize, with what it does to the package.
LEMMA CountingStep ==
    ASSUME DiagInd, NEW w \in Workers, pcOf(w) \in Sizing, NEW r \in WorkerRec,
           Counting(wk[w], r), wk' = [wk EXCEPT ![w] = r], UNCHANGED <<pkg, modem>>,
           shared' \in [Files -> BOOLEAN], size' \in Nat,
           \A f \in Boot : shared'[f] = TRUE
    PROVE  DiagInd'
BY Own, CountingInv, OwnStep DEF pcOf

LEMMA ReturnRecord ==
    ASSUME DiagInd, NEW w \in Workers, pcOf(w) \in Sizing, Return(w)
    PROVE  \E r \in WorkerRec : Counting(wk[w], r) /\ wk' = [wk EXCEPT ![w] = r]
<1> DEFINE u == wk[w]
           r == [u EXCEPT !.pc = u.next, !.i = 1]
<1>1. wk' = [wk EXCEPT ![w] = r]
  BY DEF Return, DiagInd, Types
<1>2. u \in WorkerRec /\ WorkerInv(u, modem[w]) /\ u.pc \in Sizing
  BY Own DEF pcOf
<1>3. u.next \in Pcs /\ 1 \in Nat \ {0}
  BY <1>2 DEF WorkerRec, Pcs, Ends
<1>4. r \in WorkerRec
  BY <1>2, <1>3 DEF WorkerRec
<1>5. Counting(u, r)
  BY <1>2 DEF WorkerRec, Counting
<1> HIDE DEF r
<1> QED
  BY <1>1, <1>4, <1>5

LEMMA NextFileRecord ==
    ASSUME DiagInd, NEW w \in Workers, pcOf(w) \in Sizing, NextFile(w)
    PROVE  \E r \in WorkerRec : Counting(wk[w], r) /\ wk' = [wk EXCEPT ![w] = r]
<1> DEFINE u == wk[w]
           r == [u EXCEPT !.pc = "sizeLoop", !.i = u.i + 1, !.seen = 0]
<1>1. wk' = [wk EXCEPT ![w] = r]
  BY DEF NextFile, DiagInd, Types
<1>2. u \in WorkerRec
  BY Own
<1>3. u.i \in Nat \ {0}
  BY <1>2 DEF WorkerRec
<1>4. u.i + 1 \in Nat \ {0} /\ "sizeLoop" \in Pcs
  BY <1>3 DEF Pcs
<1>5. r \in WorkerRec
  BY <1>2, <1>4 DEF WorkerRec
<1>6. Counting(u, r)
  BY <1>2 DEF WorkerRec, Counting, Sizing
<1> HIDE DEF r
<1> QED
  BY <1>1, <1>5, <1>6

LEMMA GetDiagDlImgSizeStep ==
    ASSUME DiagInd, NEW w \in Workers, GetDiagDlImgSize(w)
    PROVE  DiagInd'
<1>1. pcOf(w) \in Sizing /\ UNCHANGED <<pkg, shared, size, modem>>
  BY DEF GetDiagDlImgSize, Sizing, package
<1>2. CASE Return(w)
  BY <1>1, <1>2, ReturnRecord, CountingStep, Own
<1>3. CASE Goto(w, "sizeLoop")
  <2>1. "sizeLoop" \in Pcs /\ wk[w] \in WorkerRec /\ modem[w] \in ModemRec
        /\ WorkerInv(wk[w], modem[w]) /\ wk[w].pc \in Sizing
    BY <1>1, Own DEF Pcs, pcOf
  <2>2. ASSUME NEW r \in WorkerRec, Moved(wk[w], "sizeLoop", r)
        PROVE  WorkerInv(r, modem[w])
    <3>1. Counting(wk[w], r)
      BY <2>2 DEF Moved, Counting, Sizing
    <3> QED
      BY <2>1, <3>1, CountingInv
  <2> QED
    BY <1>1, <1>3, <2>1, <2>2, GotoStep DEF package
<1> QED
  BY <1>2, <1>3 DEF GetDiagDlImgSize

\* The loop clears no flag of a boot image.
LEMMA SizeLoopStep ==
    ASSUME DiagInd, NEW w \in Workers, SizeLoop(w)
    PROVE  DiagInd'
<1> DEFINE u == wk[w]
           f == u.i
<1>1. /\ pcOf(w) \in Sizing /\ UNCHANGED <<pkg, size, modem>> /\ size' \in Nat
      /\ u \in WorkerRec /\ shared \in [Files -> BOOLEAN] /\ size \in Nat
      /\ \A g \in Boot : shared[g] = TRUE
  BY Own DEF SizeLoop, Sizing
<1>2. CASE (Return(w) \/ NextFile(w)) /\ UNCHANGED shared
  BY <1>1, <1>2, ReturnRecord, NextFileRecord, CountingStep
<1>3. CASE /\ wk' = [wk EXCEPT ![w].pc = "sizeAdd", ![w].seen = size]
           /\ UNCHANGED shared
  <2> DEFINE r == [u EXCEPT !.pc = "sizeAdd", !.seen = size]
  <2>1. wk' = [wk EXCEPT ![w] = r]
    BY <1>3 DEF DiagInd, Types
  <2>2. "sizeAdd" \in Pcs
    BY DEF Pcs
  <2>3. r \in WorkerRec
    BY <1>1, <2>2 DEF WorkerRec
  <2>4. Counting(u, r)
    BY <1>1 DEF WorkerRec, Counting, Sizing
  <2> HIDE DEF r
  <2> QED
    BY <1>1, <1>3, <2>1, <2>3, <2>4, CountingStep
<1>4. CASE /\ f \in Files /\ f \notin Boot
           /\ shared' = [shared EXCEPT ![f] = FALSE] /\ NextFile(w)
  <2>1. shared' \in [Files -> BOOLEAN] /\ \A g \in Boot : shared'[g] = TRUE
    BY <1>1, <1>4 DEF Boot, Role
  <2> QED
    BY <1>1, <1>4, <2>1, NextFileRecord, CountingStep
<1> QED
  BY <1>2, <1>3, <1>4 DEF SizeLoop

LEMMA SizeAddStep ==
    ASSUME DiagInd, NEW w \in Workers, SizeAdd(w)
    PROVE  DiagInd'
<1>1. wk[w] \in WorkerRec /\ pcOf(w) \in Sizing
  BY Own DEF SizeAdd, Sizing
<1>2. wk[w].seen \in Nat
  BY <1>1 DEF WorkerRec
<1>3. size' \in Nat
  BY <1>2 DEF SizeAdd
<1> QED
  BY <1>1, <1>3, Own, NextFileRecord, CountingStep DEF SizeAdd

-----------------------------------------------------------------------------
(* The boot images, and the rest. *)

LEMMA RatioStep ==
    ASSUME DiagInd, NEW w \in Workers, Ratio(w)
    PROVE  DiagInd'
<1> DEFINE u == wk[w]
           m == modem[w]
<1>1. /\ u \in WorkerRec /\ m \in ModemRec /\ WorkerInv(u, m) /\ u.pc = "ratio"
      /\ {"images", "crashed"} \subseteq Pcs /\ UNCHANGED <<package, modem>>
  BY Own DEF Ratio, pcOf, Pcs, Ends
<1>2. ASSUME NEW p \in {"images", "crashed"}, NEW r \in WorkerRec, Moved(u, p, r)
      PROVE  WorkerInv(r, m)
  <2> HIDE DEF u, m
  <2> QED
    BY <1>1, <1>2 DEF Moved, WorkerInv, Copied, Loaded, Passed, Pieces, Matched, HasXml,
     Sizing, Checks, Prepares
<1>3. CASE Goto(w, "images")
  BY <1>1, <1>2, <1>3, GotoStep
<1>4. CASE Goto(w, "crashed")
  BY <1>1, <1>2, <1>4, GotoStep
<1> QED
  BY <1>3, <1>4 DEF Ratio

\* The images that are written are the flagged ones: all the boot images.
LEMMA DLoadImagesStep ==
    ASSUME DiagInd, NEW w \in Workers, DLoadImages(w)
    PROVE  DiagInd'
<1> DEFINE u == wk[w]
           m == modem[w]
<1>1. /\ u \in WorkerRec /\ m \in ModemRec /\ WorkerInv(u, m) /\ u.pc = "images"
      /\ {"flash", "error"} \subseteq Pcs /\ UNCHANGED package
  BY Own DEF DLoadImages, pcOf, Pcs, Ends
<1>2. Flagged(w) = Boot /\ Flagged(w) \subseteq Files
  <2>1. /\ \A f \in Boot : u.flags[f] = TRUE
        /\ \A f \in Files : u.flags[f] = TRUE => f \in Boot
    BY <1>1 DEF WorkerInv, Copied
  <2>2. Boot \subseteq Files
    BY DEF Boot, Role
  <2>3. u.flags \in [Files -> BOOLEAN]
    BY <1>1 DEF WorkerRec
  <2> QED
    BY <2>1, <2>2, <2>3 DEF Flagged
<1>3. ASSUME NEW p \in {"flash", "error"}, NEW images \in SUBSET Files, Goto(w, p),
             modem' = [modem EXCEPT ![w].got = images],
             p = "flash" => images = Boot
      PROVE  DiagInd'
  <2> DEFINE r == [u EXCEPT !.pc = p]
             q == [m EXCEPT !.got = images]
  <2>1. wk' = [wk EXCEPT ![w] = r] /\ modem' = [modem EXCEPT ![w] = q]
    BY <1>3 DEF Goto, DiagInd, Types
  <2>2. r \in WorkerRec /\ q \in ModemRec
    BY <1>1, <1>3 DEF WorkerRec, ModemRec
  <2>3. /\ r.pc = p /\ r.flags = u.flags /\ r.download = u.download
        /\ r.force = u.force
    BY <1>1 DEF WorkerRec
  <2>4. /\ q.mode = m.mode /\ q.late = m.late /\ q.table = m.table /\ q.xml = m.xml
        /\ q.stray = m.stray /\ q.entered = m.entered /\ q.prog = m.prog /\ q.got = images
    BY <1>1 DEF ModemRec
  <2> HIDE DEF r, q, u, m
  <2>5. WorkerInv(r, q)
    BY <1>1, <1>3, <2>3, <2>4 DEF WorkerInv, Copied, Loaded, Passed, Pieces, Matched, HasXml,
     Sizing, Checks, Prepares
  <2> QED
    BY <1>1, <2>1, <2>2, <2>5, Own, OwnStep DEF package, r, q, u, m
<1>4. CASE Goto(w, "flash") /\ modem' = [modem EXCEPT ![w].got = Flagged(w)]
  BY <1>2, <1>3, <1>4
<1>5. ASSUME NEW upTo \in 0 .. Len(pkg.files), Goto(w, "error"),
             modem' = [modem EXCEPT ![w].got = IF modem[w].prog
                    THEN {f \in Flagged(w) : f < upTo} ELSE {}]
      PROVE  DiagInd'
  <2> DEFINE images == IF modem[w].prog THEN {f \in Flagged(w) : f < upTo} ELSE {}
  <2>1. images \in SUBSET Files
    BY <1>2
  <2> HIDE DEF images
  <2>2. modem' = [modem EXCEPT ![w].got = images]
    BY <1>5 DEF images
  <2> QED
    BY <1>3, <1>5, <2>1, <2>2
<1> QED
  BY <1>4, <1>5 DEF DLoadImages

LEMMA FlashDoneStep ==
    ASSUME DiagInd, NEW w \in Workers, FlashDone(w)
    PROVE  DiagInd'
<1> DEFINE u == wk[w]
           m == modem[w]
<1>1. /\ u \in WorkerRec /\ m \in ModemRec /\ WorkerInv(u, m) /\ u.pc = "flash"
      /\ {"size", "error"} \subseteq Pcs /\ UNCHANGED <<package, modem>>
  BY Own DEF FlashDone, pcOf, Pcs, Ends
<1>2. CASE wk' = [wk EXCEPT ![w].pc = "size", ![w].next = "done"]
  <2> DEFINE r == [u EXCEPT !.pc = "size", !.next = "done"]
  <2>1. wk' = [wk EXCEPT ![w] = r]
    BY <1>2 DEF DiagInd, Types
  <2>2. r \in WorkerRec
    BY <1>1 DEF WorkerRec
  <2>3. /\ r.pc = "size" /\ r.next = "done" /\ r.flags = u.flags
        /\ r.download = u.download /\ r.force = u.force
    BY <1>1 DEF WorkerRec
  <2> HIDE DEF r, u, m
  <2>4. WorkerInv(r, m)
    BY <1>1, <2>3 DEF WorkerInv, Copied, Loaded, Passed, Pieces, Matched, HasXml,
     Sizing, Checks, Prepares
  <2> QED
    BY <1>1, <2>1, <2>2, <2>4, WorkerStep DEF r, u, m
<1>3. CASE Goto(w, "error")
  <2>1. ASSUME NEW r \in WorkerRec, Moved(u, "error", r)
        PROVE  WorkerInv(r, m)
    <3> HIDE DEF u, m
    <3> QED
      BY <1>1, <2>1 DEF Moved, WorkerInv, Copied, Loaded, Passed, Pieces, Matched, HasXml,
     Sizing, Checks, Prepares
  <2> QED
    BY <1>1, <1>3, <2>1, GotoStep
<1> QED
  BY <1>2, <1>3 DEF FlashDone

-----------------------------------------------------------------------------
(* Every step, and the theorems. *)

LEMMA StutterStep ==
    ASSUME DiagInd, UNCHANGED vars
    PROVE  DiagInd'
<1>1. Files' = Files /\ Boot' = Boot /\ Whole' = Whole
  BY DEF vars, Files, Boot, Role, Whole
<1>2. WorkerRec' = WorkerRec /\ ModemRec' = ModemRec
  BY <1>1 DEF vars, WorkerRec, ModemRec
<1>3. Types' /\ BootShared'
  BY <1>1, <1>2 DEF vars, DiagInd, Types, BootShared
<1>4. ASSUME NEW w \in Workers
      PROVE  WorkerInv(wk[w], modem[w])'
  <2>1. WorkerInv(wk[w], modem[w])
    BY DEF DiagInd
  <2> QED
    BY <1>1, <2>1 DEF vars, WorkerInv, Copied, Loaded, Passed, Pieces, Matched, HasXml
<1> QED
  BY <1>3, <1>4 DEF DiagInd

\* Every step of every worker keeps the invariant.
LEMMA DiagIndStep == DiagInd /\ [Next]_vars => DiagInd'
<1> SUFFICES ASSUME DiagInd, [Next]_vars PROVE DiagInd'
  OBVIOUS
<1>1. ASSUME NEW w \in Workers, Worker(w)
      PROVE  DiagInd'
  BY <1>1, CopyMapStep, RequestDeviceStatusStep, RequestFirmwarVerStep,
     checkIfPartitionMatchStep, checkIfPackageMatchDlModeStep, SwitchOfflineModeStep,
     StorePICStep, XmlBeginStep, DownloadCustomerInfoStep, EraseSimlockStep, DecideStep,
     AdbRebootStep, DownloadPrgStep, CalculateImageLengthStep, GetDiagDlImgSizeStep,
     SizeLoopStep, SizeAddStep, RatioStep, DLoadImagesStep, FlashDoneStep DEF Worker
<1> QED
  BY <1>1, StutterStep DEF Next, Finished

\* The inductive invariant holds in every reachable state.
THEOREM DiagInductive == Spec => []DiagInd
BY InitDiagInd, DiagIndStep, PTL DEF Spec

\* The package, the workers' copies and counters and the modems keep their
\* types, however the unlocked steps of the workers interleave: no attempt at
\* custom_info.xml beyond MaxTries, no send of a piece beyond MaxSends, no
\* offset beyond its last piece.
THEOREM DiagTypeCorrect == Spec => []DiagTypeOK
<1>1. DiagInd => DiagTypeOK
  <2> SUFFICES ASSUME DiagInd PROVE DiagTypeOK
    OBVIOUS
  <2>1. ASSUME NEW w \in Workers
        PROVE  /\ pcOf(w) \in Pcs
               /\ wk[w].flags \in [Files -> BOOLEAN] /\ wk[w].i \in Nat
               /\ wk[w].tries \in 0 .. MaxTries - 1 /\ wk[w].off \in 0 .. pkg.pieces
               /\ wk[w].sends \in 0 .. MaxSends - 1
               /\ wk[w].seen \in Nat /\ wk[w].next \in {"copy", "ratio", "done"}
               /\ {wk[w].download, wk[w].force, wk[w].result} \subseteq BOOLEAN
               /\ modem[w].got \subseteq Files /\ modem[w].stray \in 0 .. MaxStray
    <3>1. wk[w] \in WorkerRec /\ modem[w] \in ModemRec
      BY Own
    <3>2. /\ pcOf(w) \in Pcs
          /\ wk[w].flags \in [Files -> BOOLEAN] /\ wk[w].i \in Nat
          /\ wk[w].tries \in 0 .. MaxTries - 1 /\ wk[w].off \in 0 .. pkg.pieces
          /\ wk[w].sends \in 0 .. MaxSends - 1
          /\ wk[w].seen \in Nat /\ wk[w].next \in {"copy", "ratio", "done"}
      BY <3>1 DEF WorkerRec, pcOf
    <3>3. {wk[w].download, wk[w].force, wk[w].result} \subseteq BOOLEAN
      BY <3>1 DEF WorkerRec
    <3>4. modem[w].got \subseteq Files /\ modem[w].stray \in 0 .. MaxStray
      BY <3>1 DEF ModemRec
    <3> QED
      BY <3>2, <3>3, <3>4
  <2> QED
    BY <2>1 DEF DiagTypeOK, DiagInd, Types, Pcs
<1> QED
  BY <1>1, DiagInductive, PTL

\* A modem that DLoad9X07ImagesUsePtn loaded has every boot image and no other
\* file, whatever the other workers clear in the shared map and whenever.
THEOREM RightImagesAlways == Spec => []RightImages
<1>1. DiagInd => RightImages
  BY Own DEF RightImages, ModemRec, WorkerInv, Loaded, pcOf
<1> QED
  BY <1>1, DiagInductive, PTL

\* RunMiFiPST makes a modem that answered leave its firmware only in normal
\* mode and with the partition table of the package, or in force mode.
THEOREM CheckedFirstAlways == Spec => []CheckedFirst
<1>1. DiagInd => CheckedFirst
  <2> SUFFICES ASSUME DiagInd, NEW w \in Workers, modem[w].entered, ~wk[w].download
               PROVE  modem[w].mode = "normal" /\ (wk[w].force \/ modem[w].table)
    BY DEF CheckedFirst
  <2>1. wk[w].download = FALSE /\ modem[w].entered = TRUE
    BY Own DEF WorkerRec, ModemRec
  <2>2. Matched(wk[w], modem[w])
    BY <2>1, Own DEF WorkerInv, Passed
  <2> QED
    BY <2>2 DEF Matched
<1> QED
  BY <1>1, DiagInductive, PTL

\* ... and only with the whole custom_info.xml in it, written in order, after
\* any number of attempts of DownloadCustomerInfo, if it answers in time.
THEOREM XmlWholeAlways == Spec => []XmlWhole
<1>1. DiagInd => XmlWhole
  <2> SUFFICES ASSUME DiagInd, NEW w \in Workers, modem[w].entered, ~wk[w].download,
                      ~modem[w].late
               PROVE  modem[w].xml = Whole
    BY DEF XmlWhole
  <2>1. wk[w].download = FALSE /\ modem[w].entered = TRUE /\ modem[w].late = FALSE
    BY Own DEF WorkerRec, ModemRec
  <2>2. HasXml(modem[w])
    BY <2>1, Own DEF WorkerInv, Passed
  <2> QED
    BY <2>1, <2>2 DEF HasXml
<1> QED
  BY <1>1, DiagInductive, PTL

=============================================================================
