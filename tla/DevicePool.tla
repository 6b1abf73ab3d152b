----------------------------- MODULE DevicePool ------------------------------
(***************************************************************************)
(* The devices the download tool knows: DeviceCoordinator's list of         *)
(* DeviceInterfaces objects (src/src/device.cpp) and the list of open USB   *)
(* handles (src/src/usb_windows.cpp).                                       *)
(*                                                                         *)
(* A modem is plugged into a slot, a physical port of the USB tree.  In     *)
(* download (diag) mode it offers a serial port, in the bootloader a        *)
(* fastboot interface.  DeviceInterfaces::Match compares the location part  *)
(* of the two device paths, which are equal exactly when the slot is.       *)
(* Objects and handles are heap memory: an object is freed when it leaves   *)
(* the list, a handle when it is closed, and pointers to either may remain. *)
(***************************************************************************)
EXTENDS Integers, Sequences, SequencesExt

CONSTANTS
    NSlots,      \* physical USB slots
    MaxUnits,    \* bound: modems plugged in during a run
    FlashDirect  \* GetFlashDirectFlag(): flash a modem found in its bootloader

ASSUME PoolAssumption ==
    NSlots \in Nat /\ MaxUnits \in Nat /\ FlashDirect \in BOOLEAN

VARIABLES
    bus,           \* what is in each slot: the modem and the mode it is in
    handle_list,   \* per slot, the open handle on its fastboot interface
    heap,          \* every DeviceInterfaces object that was ever allocated
    mDevintfList   \* DeviceCoordinator's list, as positions in heap

poolVars == <<bus, handle_list, heap, mDevintfList>>

Slot == 1..NSlots
Unit == 0..MaxUnits
Pointer == {"null", "live", "dead"}

Object == [slot : Slot, diag : BOOLEAN, fb : BOOLEAN, fbh : Pointer,
           status : {"UNKNOW", "PLUGIN", "FLASH", "REMOVED"}, att : BOOLEAN]

PoolTypeOK ==
    /\ bus \in [Slot -> [mode : {"empty", "diag", "reset", "fastboot"}, unit : Unit]]
    /\ handle_list \in [Slot -> Unit]
    /\ heap \in Seq(Object)
    /\ mDevintfList \in Seq(DOMAIN heap)

PoolInit ==
    /\ bus = [s \in Slot |-> [mode |-> "empty", unit |-> 0]]
    /\ handle_list = [s \in Slot |-> 0]
    /\ heap = <<>> /\ mDevintfList = <<>>

Listed == Range(mDevintfList)
InMode(m) == {s \in Slot : bus[s].mode = m}

-----------------------------------------------------------------------------
(* DeviceCoordinator. *)

\* The object AddDevice's and GetDevice's loops find for a slot, 0 for none.
GetDevice(s) ==
    LET hits == {k \in DOMAIN mDevintfList : heap[mDevintfList[k]].slot = s}
    IN  IF hits = {} THEN 0 ELSE mDevintfList[Min(hits)]

\* DEVICE_PLUGIN <= status < DEVICE_REMOVED, without the states of the adb interface.
Waiting == {"PLUGIN", "FLASH"}

\* Mutant: a device that a port works on is handed out again.
AnyDevice ==
    LET hits == {k \in DOMAIN mDevintfList : heap[mDevintfList[k]].status \in Waiting}
    IN  IF hits = {} THEN 0 ELSE mDevintfList[Min(hits)]

\* The first device in the list that waits for a port.
GetValidDevice ==
    LET hits == {k \in DOMAIN mDevintfList : /\ ~heap[mDevintfList[k]].att
                                             /\ heap[mDevintfList[k]].status \in Waiting}
    IN  IF hits = {} THEN 0 ELSE mDevintfList[Min(hits)]

NewObject(s) == [slot |-> s, diag |-> FALSE, fb |-> FALSE, fbh |-> "null",
                 status |-> "PLUGIN", att |-> FALSE]

\* AddDevice refuses a device that is attached to a port, unless told to ignore that
\* (IsUseAdbShell, FALSE on this platform).
Refused(s) == GetDevice(s) # 0 /\ heap[GetDevice(s)].att

\* SetIntf for a serial port, or for a fastboot interface with the handle find_devices
\* opened and what EnumerateAdbDevice makes of the status.
SetIntf(o, type) ==
    IF type = "diag" THEN [o EXCEPT !.diag = TRUE]
    ELSE [o EXCEPT !.fb = TRUE, !.fbh = "live",
                   !.status = IF FlashDirect /\ @ = "PLUGIN" THEN "FLASH" ELSE @]

\* Mutant: every arrival makes a new object.
AlwaysCreate(S, type) ==
    LET new == SetToSeq({s \in S : ~Refused(s)})
    IN  /\ heap' = heap \o [k \in DOMAIN new |-> SetIntf(NewObject(new[k]), type)]
        /\ mDevintfList' = mDevintfList \o [k \in DOMAIN new |-> Len(heap) + k]

\* AddDevice for every slot of S in turn, in some order.
AddDevice(S, type) ==
    LET new == SetToSeq({s \in S : GetDevice(s) = 0})
        known == {GetDevice(s) : s \in {r \in S : GetDevice(r) # 0 /\ ~Refused(r)}}
    IN  /\ heap' = [i \in DOMAIN heap |-> IF i \in known THEN SetIntf(heap[i], type) ELSE heap[i]]
                   \o [k \in DOMAIN new |-> SetIntf(NewObject(new[k]), type)]
        /\ mDevintfList' = mDevintfList \o [k \in DOMAIN new |-> Len(heap) + k]

\* RemoveDevice resets the object, unlinks it (an object is in the list once) and frees it;
\* DeviceCoordinator::Reset frees every object.  What the memory holds afterwards is what a
\* stale pointer reads.
RemoveDevice(hp, i) ==
    /\ heap' = [hp EXCEPT ![i] = [@ EXCEPT !.fbh = "null", !.status = "UNKNOW", !.att = FALSE]]
    /\ mDevintfList' = RemoveFirst(mDevintfList, i)

ResetPool ==
    /\ heap' = [i \in DOMAIN heap |-> IF i \in Listed THEN [heap[i] EXCEPT !.status = "UNKNOW"]
                                                      ELSE heap[i]]
    /\ mDevintfList' = <<>>

\* DeviceInterfaces::GetUsbHandle, without the adb interface.
GetUsbHandle(o) == IF o.status \in Waiting THEN o.fbh ELSE "null"

-----------------------------------------------------------------------------
(* USB handles. *)

\* find_devices opens what is on the bus, unless a handle with that interface name is
\* in the list: a handle that was not closed keeps a modem that came later out.  An
\* interface that cannot be opened is passed over.
find_devices ==
    \E opened \in SUBSET {s \in InMode("fastboot") : handle_list[s] = 0} :
        handle_list' = [s \in Slot |-> IF s \in opened THEN bus[s].unit ELSE handle_list[s]]

\* The bootloaders that have a handle after it: EnumerateAdbDevice goes over the handles.
Found == {s \in InMode("fastboot") : handle_list'[s] # 0}

\* A pointer to the handle of slot s, after that handle was freed.
Stale(ptr) == IF ptr = "live" THEN "dead" ELSE ptr
StaleIn(hp, s) == [i \in DOMAIN hp |-> IF hp[i].slot = s THEN [hp[i] EXCEPT !.fbh = Stale(@)]
                                                         ELSE hp[i]]
==============================================================================
