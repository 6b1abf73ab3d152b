------------------------- MODULE PortSchedulerProofs -------------------------
(***************************************************************************)
(* Theorems about PortScheduler, for any number of ports, slots, modems and *)
(* threads.  The types and the single object of a slot hold with any clicks *)
(* and modems unplugged at any time.  For one Start and modems that stay    *)
(* plugged in (Calm), the pairing of ports, workers, devices and events     *)
(* holds until the UI thread and a worker meet on a port (Race).            *)
(***************************************************************************)
EXTENDS PortScheduler, FiniteSetTheorems, WellFoundedInduction, TLAPS

-----------------------------------------------------------------------------
(* Types.  D is the set of the objects allocated so far. *)

BusRec == [mode : {"empty", "diag", "reset", "fastboot"}, unit : Unit]
PortRec(D) == [stat : {"IDLE", "WORKING", "SWITCH", "FINISH", "WAITING_CLOSE"},
               usb : Pointer, active : {0} \cup D, map : {0} \cup Slot,
               evt : BOOLEAN, work : BOOLEAN]
UiRec(D) == [pc : UISteps, i : 0..(NPorts + 1), item : {0} \cup Slot, dev : {0} \cup D]
Message == [kind : {"com", "fastboot", "removed", "done"}, slot : {0} \cup Slot]
ThreadRec(D) == [pc : Steps, port : {0} \cup Port, dev : {0} \cup D,
                 usb : Pointer, ok : BOOLEAN]
Outcomes == [1..MaxUnits -> {"absent", "waiting", "flashed", "failed"}]

\* PortsTypeOK in these words, but for the history variable.
Types ==
    /\ bus \in [Slot -> BusRec] /\ handle_list \in [Slot -> Unit]
    /\ heap \in Seq(Object) /\ mDevintfList \in Seq(DOMAIN heap)
    /\ m_bWork \in BOOLEAN /\ crashed \in BOOLEAN /\ clicks \in 0..MaxClicks
    /\ port \in [Port -> PortRec(DOMAIN heap)] /\ ui \in UiRec(DOMAIN heap) /\ msgs \in Seq(Message)
    /\ thr \in [Thread -> ThreadRec(DOMAIN heap)] /\ outcome \in Outcomes

AtPorts == UISteps \ {"idle", "start", "port"}

\* ScheduleDeviceWork's loop is at a port, and a thread that runs has one.
Placed ==
    /\ ui.pc = "port" => ui.i >= 1
    /\ ui.pc \in AtPorts => ui.i \in Port
    /\ \A t \in Thread : thr[t].pc # "none" => thr[t].port \in Port

PortsInd == Types /\ Placed /\ OneObject

LEMMA TypesAre == PortsTypeOK <=> Types /\ raced \in BOOLEAN
BY DEF Types, PortsTypeOK, PoolTypeOK, BusRec, PortRec, UiRec, Message, ThreadRec, Outcomes

-----------------------------------------------------------------------------
(* Sets and sequences. *)

\* Min finds the least number of a set.
LEMMA MinIn ==
    ASSUME NEW S, S \subseteq Nat, S # {}
    PROVE  Min(S) \in S /\ \A y \in S : Min(S) <= y
<1>1. PICK x \in S : \A y \in S : ~(<<y, x>> \in OpToRel(<, Nat))
  BY NatLessThanWellFounded, WFMin
<1>2. ASSUME NEW y \in S PROVE x <= y
  <2>1. <<y, x>> \in Nat \X Nat /\ <<y, x>>[1] = y /\ <<y, x>>[2] = x
    OBVIOUS
  <2>2. y < x => <<y, x>> \in OpToRel(<, Nat)
    BY <2>1 DEF OpToRel
  <2>3. ~(y < x)
    BY <1>1, <2>2
  <2>4. x \in Nat /\ y \in Nat
    OBVIOUS
  <2> QED BY <2>3, <2>4
<1> QED BY <1>2 DEF Min

\* SetToSeq counts a finite set, each element once.
LEMMA SetToSeqIs ==
    ASSUME NEW S, IsFiniteSet(S)
    PROVE  /\ SetToSeq(S) \in Seq(S)
           /\ \A i, j \in DOMAIN SetToSeq(S) : SetToSeq(S)[i] = SetToSeq(S)[j] => i = j
<1>1. Cardinality(S) \in Nat /\ ExistsBijection(1..Cardinality(S), S)
  BY FS_CardinalityType
<1>2. \E f \in [1..Cardinality(S) -> S] : IsInjective(f)
  BY <1>1, Zenon DEF ExistsBijection, Bijection, Injection
<1>3. SetToSeq(S) \in [1..Cardinality(S) -> S] /\ IsInjective(SetToSeq(S))
  BY <1>2, Zenon DEF SetToSeq
<1> HIDE DEF SetToSeq
<1>4. SetToSeq(S) \in Seq(S)
  BY <1>1, <1>3
<1> QED BY <1>3, <1>4 DEF IsInjective

\* RemoveFirst keeps elements, and their order.
LEMMA RemoveIs ==
    ASSUME NEW S, NEW s \in Seq(S), NEW e
    PROVE  RemoveFirst(s, e) \in Seq(S) /\ Range(RemoveFirst(s, e)) \subseteq Range(s)
<1> DEFINE I == {i \in 1..Len(s) : s[i] = e}
           k == Min(I)
           a == SubSeq(s, 1, k - 1)
           b == SubSeq(s, k + 1, Len(s))
<1>1. CASE I = {}
  <2>1. RemoveFirst(s, e) = s
    BY <1>1 DEF RemoveFirst
  <2> QED BY <2>1
<1>2. CASE I # {}
  <2>1. k \in I
    <3>1. I \subseteq Nat
      OBVIOUS
    <3> QED BY <1>2, <3>1, MinIn
  <2>2. RemoveFirst(s, e) = a \o b
    <3>1. \E i \in 1..Len(s) : s[i] = e
      BY <1>2
    <3>2. SelectInSeq(s, LAMBDA v : v = e) = k
      BY <1>2 DEF SelectInSeq
    <3> QED BY <3>1, <3>2 DEF RemoveFirst, RemoveAt
  <2>3. k \in Nat /\ k >= 1 /\ k <= Len(s) /\ Len(s) \in Nat
    BY <2>1
  <2> HIDE DEF k
  <2>4. /\ a \in Seq(S) /\ Len(a) = k - 1 /\ \A i \in 1..k - 1 : a[i] = s[i]
    BY <2>3
  <2>5. /\ b \in Seq(S) /\ Len(b) = Len(s) - k /\ \A i \in 1..Len(s) - k : b[i] = s[k + i]
    BY <2>3
  <2> HIDE DEF a, b
  <2>6. a \o b \in Seq(S) /\ Len(a \o b) = Len(s) - 1
    <3>1. a \o b \in Seq(S) /\ Len(a \o b) = Len(a) + Len(b)
      BY <2>4, <2>5
    <3>2. (k - 1) + (Len(s) - k) = Len(s) - 1
      BY <2>3
    <3> QED BY <2>4, <2>5, <3>1, <3>2
  <2>7. ASSUME NEW i \in 1..Len(s) - 1 PROVE \E j \in 1..Len(s) : (a \o b)[i] = s[j]
    <3>1. CASE i <= k - 1
      <4>1. (a \o b)[i] = a[i] /\ i \in 1..k - 1 /\ i \in 1..Len(s)
        BY <2>3, <2>4, <2>5, <3>1
      <4> QED BY <2>4, <4>1
    <3>2. CASE i > k - 1
      <4>1. (a \o b)[i] = b[i - (k - 1)] /\ i - (k - 1) \in 1..Len(s) - k
        BY <2>3, <2>4, <2>5, <3>2
      <4>2. k + (i - (k - 1)) \in 1..Len(s)
        BY <2>3, <3>2
      <4> QED BY <2>5, <4>1, <4>2
    <3>3. i \in Int /\ k - 1 \in Int
      BY <2>3
    <3>4. i <= k - 1 \/ i > k - 1
      BY <3>3
    <3> QED BY <3>1, <3>2, <3>4
  <2>8. DOMAIN (a \o b) = 1..Len(s) - 1 /\ DOMAIN s = 1..Len(s)
    BY <2>6
  <2>9. Range(a \o b) \subseteq Range(s)
    BY <2>7, <2>8 DEF Range
  <2> QED BY <2>2, <2>6, <2>9
<1> QED BY <1>1, <1>2

\* A function like a sequence is one of the same length.
LEMMA SameLength ==
    ASSUME NEW S, NEW h \in Seq(S), NEW g, DOMAIN g = DOMAIN h, \A i \in DOMAIN h : g[i] \in S,
           g = [i \in DOMAIN g |-> g[i]]
    PROVE  g \in Seq(S) /\ Len(g) = Len(h)
<1>1. Len(h) \in Nat /\ DOMAIN h = 1..Len(h)
  OBVIOUS
<1>2. g \in [1..Len(h) -> S]
  BY <1>1
<1> QED BY <1>1, <1>2

-----------------------------------------------------------------------------
(* The heap and the list. *)

\* A heap with the same objects, changed but for their slots.
Like(g, h) ==
    g \in Seq(Object) /\ DOMAIN g = DOMAIN h /\ \A i \in DOMAIN h : g[i].slot = h[i].slot

LEMMA LikePut ==
    ASSUME NEW h \in Seq(Object), NEW i, NEW r, i \in DOMAIN h => r \in Object /\ r.slot = h[i].slot
    PROVE  Like([h EXCEPT ![i] = r], h)
<1> DEFINE g == [h EXCEPT ![i] = r]
<1>1. DOMAIN g = DOMAIN h /\ g = [j \in DOMAIN g |-> g[j]]
  OBVIOUS
<1>2. \A j \in DOMAIN h : g[j] \in Object /\ g[j].slot = h[j].slot
  OBVIOUS
<1> HIDE DEF g
<1>3. g \in Seq(Object)
  BY <1>1, <1>2, SameLength
<1>4. Like(g, h)
  BY <1>1, <1>2, <1>3 DEF Like
<1> QED BY <1>4 DEF g

LEMMA LikeStale ==
    ASSUME NEW h \in Seq(Object), NEW s
    PROVE  Like(StaleIn(h, s), h)
<1> DEFINE g == StaleIn(h, s)
<1>1. DOMAIN g = DOMAIN h /\ g = [j \in DOMAIN g |-> g[j]]
  BY DEF StaleIn
<1>2. ASSUME NEW j \in DOMAIN h PROVE g[j] \in Object /\ g[j].slot = h[j].slot
  <2>1. h[j] \in Object
    OBVIOUS
  <2>2. g[j] = [h[j] EXCEPT !.fbh = Stale(@)] \/ g[j] = h[j]
    BY DEF StaleIn
  <2>3. Stale(h[j].fbh) \in Pointer
    BY <2>1 DEF Stale, Object, Pointer
  <2> QED BY <2>1, <2>2, <2>3 DEF Object
<1> HIDE DEF g
<1>3. g \in Seq(Object)
  BY <1>1, <1>2, SameLength
<1>4. Like(g, h)
  BY <1>1, <1>2, <1>3 DEF Like
<1> QED BY <1>4 DEF g

\* The heap and the list after a step: no object moves to another slot.
Grown ==
    /\ heap' \in Seq(Object) /\ DOMAIN heap \subseteq DOMAIN heap'
    /\ \A i \in DOMAIN heap : heap'[i].slot = heap[i].slot
    /\ mDevintfList' \in Seq(DOMAIN heap') /\ OneObject'

LEMMA ListedIn == ASSUME Types PROVE Listed \subseteq DOMAIN heap
BY DEF Types, Listed, Range

LEMMA GrownLike ==
    ASSUME PortsInd, Like(heap', heap), mDevintfList' \in Seq(DOMAIN heap),
           Range(mDevintfList') \subseteq Range(mDevintfList)
    PROVE  Grown
<1>1. Types /\ OneObject /\ Listed \subseteq DOMAIN heap
  BY ListedIn DEF PortsInd
<1>2. Listed' \subseteq Listed
  BY DEF Listed
<1>3. \A i \in DOMAIN heap : heap'[i].slot = heap[i].slot
  BY DEF Like
<1>4. OneObject'
  BY <1>1, <1>2, <1>3 DEF OneObject
<1> QED BY <1>3, <1>4 DEF Grown, Like

\* A step that changes objects only.
LEMMA GrownHeap ==
    ASSUME PortsInd, Like(heap', heap), mDevintfList' = mDevintfList
    PROVE  Grown
BY GrownLike DEF PortsInd, Types

LEMMA GrownSame ==
    ASSUME PortsInd, heap' = heap, mDevintfList' = mDevintfList
    PROVE  Grown
<1>1. Like(heap', heap)
  BY DEF Like, PortsInd, Types
<1> QED BY <1>1, GrownHeap

\* The device that a search of the list finds is one of the list.
LEMMA FoundIn ==
    ASSUME Types, NEW hits, hits \subseteq DOMAIN mDevintfList, hits # {}
    PROVE  /\ Min(hits) \in hits /\ mDevintfList[Min(hits)] \in Listed
           /\ mDevintfList[Min(hits)] \in DOMAIN heap /\ mDevintfList[Min(hits)] # 0
<1>1. DOMAIN mDevintfList = 1..Len(mDevintfList) /\ Len(mDevintfList) \in Nat
  BY DEF Types
<1>2. hits \subseteq Nat
  BY <1>1
<1>3. Min(hits) \in hits
  BY <1>2, MinIn
<1>4. mDevintfList[Min(hits)] \in Listed
  BY <1>3 DEF Listed, Range
<1>5. 0 \notin DOMAIN heap
  BY DEF Types
<1> QED BY <1>3, <1>4, <1>5, ListedIn

LEMMA GetDeviceIs ==
    ASSUME Types, NEW s
    PROVE  /\ GetDevice(s) \in {0} \cup DOMAIN heap
           /\ GetDevice(s) = 0 => \A i \in Listed : heap[i].slot # s
           /\ GetDevice(s) # 0 => GetDevice(s) \in Listed /\ heap[GetDevice(s)].slot = s
<1> DEFINE hits == {k \in DOMAIN mDevintfList : heap[mDevintfList[k]].slot = s}
<1>1. GetDevice(s) = IF hits = {} THEN 0 ELSE mDevintfList[Min(hits)]
  BY DEF GetDevice
<1>2. hits = {} => \A i \in Listed : heap[i].slot # s
  BY DEF Listed, Range
<1>3. hits # {} => /\ Min(hits) \in hits /\ mDevintfList[Min(hits)] \in Listed
                   /\ mDevintfList[Min(hits)] \in DOMAIN heap /\ mDevintfList[Min(hits)] # 0
  BY FoundIn
<1> QED BY <1>1, <1>2, <1>3

LEMMA ValidIs ==
    ASSUME Types, GetValidDevice # 0
    PROVE  /\ GetValidDevice \in DOMAIN heap /\ GetValidDevice \in Listed
           /\ heap[GetValidDevice].att = FALSE /\ heap[GetValidDevice].status \in Waiting
<1> DEFINE hits == {k \in DOMAIN mDevintfList : /\ ~heap[mDevintfList[k]].att
                                                /\ heap[mDevintfList[k]].status \in Waiting}
<1>1. GetValidDevice = IF hits = {} THEN 0 ELSE mDevintfList[Min(hits)]
  BY DEF GetValidDevice
<1>2. hits # {}
  BY <1>1
<1>3. /\ Min(hits) \in hits /\ mDevintfList[Min(hits)] \in Listed
      /\ mDevintfList[Min(hits)] \in DOMAIN heap
  BY <1>2, FoundIn
<1> DEFINE x == mDevintfList[Min(hits)]
<1>4. x \in DOMAIN heap /\ ~heap[x].att /\ heap[x].status \in Waiting /\ x \in Listed
  BY <1>3
<1>5. GetValidDevice = x
  BY <1>1, <1>2
<1> HIDE DEF x
<1>6. heap[x] \in Object
  BY <1>4 DEF Types
<1>7. heap[x].att \in BOOLEAN
  BY <1>6 DEF Object
<1> QED BY <1>4, <1>5, <1>7

-----------------------------------------------------------------------------
(* AddDevice, RemoveDevice and Reset. *)

LEMMA SetIntfIs ==
    ASSUME NEW o \in Object, NEW type
    PROVE  SetIntf(o, type) \in Object /\ SetIntf(o, type).slot = o.slot
<1> DEFINE st == IF FlashDirect /\ o.status = "PLUGIN" THEN "FLASH" ELSE o.status
           a == [o EXCEPT !.diag = TRUE]
           b == [o EXCEPT !.fb = TRUE, !.fbh = "live", !.status = st]
<1>1. st \in {"UNKNOW", "PLUGIN", "FLASH", "REMOVED"}
  BY DEF Object
<1>2. SetIntf(o, type) = a \/ SetIntf(o, type) = b
  BY DEF SetIntf
<1> HIDE DEF st
<1>3. a \in Object /\ a.slot = o.slot
  BY DEF Object
<1>4. b \in Object /\ b.slot = o.slot
  BY <1>1 DEF Object, Pointer
<1> QED BY <1>2, <1>3, <1>4

LEMMA NewObjectIs ==
    ASSUME NEW s \in Slot
    PROVE  NewObject(s) \in Object /\ NewObject(s).slot = s
BY DEF NewObject, Object, Pointer

\* What two sequences one after the other hold.
LEMMA Joined ==
    ASSUME NEW S, NEW a \in Seq(S), NEW b \in Seq(S)
    PROVE  /\ a \o b \in Seq(S) /\ DOMAIN (a \o b) = 1..Len(a) + Len(b)
           /\ \A i \in DOMAIN a : i \in DOMAIN (a \o b) /\ (a \o b)[i] = a[i]
           /\ \A k \in DOMAIN b : Len(a) + k \in DOMAIN (a \o b) /\ (a \o b)[Len(a) + k] = b[k]
           /\ \A i \in DOMAIN (a \o b) : i \in DOMAIN a \/ \E k \in DOMAIN b : i = Len(a) + k
<1>1. Len(a) \in Nat /\ Len(b) \in Nat /\ DOMAIN a = 1..Len(a) /\ DOMAIN b = 1..Len(b)
  OBVIOUS
<1>2. a \o b \in Seq(S) /\ DOMAIN (a \o b) = 1..Len(a) + Len(b)
  OBVIOUS
<1>3. ASSUME NEW i \in DOMAIN a PROVE i \in DOMAIN (a \o b) /\ (a \o b)[i] = a[i]
  BY <1>1, <1>2
<1>4. ASSUME NEW k \in DOMAIN b
      PROVE  Len(a) + k \in DOMAIN (a \o b) /\ (a \o b)[Len(a) + k] = b[k]
  BY <1>1, <1>2
<1>5. ASSUME NEW i \in DOMAIN (a \o b) PROVE i \in DOMAIN a \/ \E k \in DOMAIN b : i = Len(a) + k
  <2>1. i \in 1..Len(a) + Len(b)
    BY <1>2
  <2>2. CASE i <= Len(a)
    BY <1>1, <2>1, <2>2
  <2>3. CASE ~(i <= Len(a))
    <3>1. i - Len(a) \in 1..Len(b) /\ i = Len(a) + (i - Len(a))
      BY <1>1, <2>1, <2>3
    <3> QED BY <1>1, <3>1
  <2> QED BY <2>2, <2>3
<1> QED BY <1>2, <1>3, <1>4, <1>5

\* What AddDevice leaves: known objects as they are or with an interface more, the new ones
\* behind them, one for each slot that had none.
LEMMA AddShape ==
    ASSUME PortsInd, NEW S, S \subseteq Slot, NEW type, AddDevice(S, type)
    PROVE  \E new \in Seq(S) :
             /\ \A i, j \in DOMAIN new : new[i] = new[j] => i = j
             /\ \A k \in DOMAIN new : GetDevice(new[k]) = 0
             /\ heap' \in Seq(Object) /\ Len(heap') = Len(heap) + Len(new)
             /\ \A i \in DOMAIN heap :
                  \/ heap'[i] = heap[i]
                  \/ heap[i].att = FALSE /\ heap[i].slot \in S /\ heap'[i] = SetIntf(heap[i], type)
             /\ \A k \in DOMAIN new : heap'[Len(heap) + k] = SetIntf(NewObject(new[k]), type)
             /\ mDevintfList' = mDevintfList \o [k \in DOMAIN new |-> Len(heap) + k]
<1> DEFINE new == SetToSeq({s \in S : GetDevice(s) = 0})
           known == {GetDevice(s) : s \in {r \in S : GetDevice(r) # 0 /\ ~Refused(r)}}
           g == [i \in DOMAIN heap |-> IF i \in known THEN SetIntf(heap[i], type) ELSE heap[i]]
           n == [k \in DOMAIN new |-> SetIntf(NewObject(new[k]), type)]
<1>1. heap' = g \o n /\ mDevintfList' = mDevintfList \o [k \in DOMAIN new |-> Len(heap) + k]
  BY DEF AddDevice
<1>2. Types /\ heap \in Seq(Object)
  BY DEF PortsInd, Types
<1>3. IsFiniteSet(Slot)
  BY PoolAssumption, FS_Interval DEF Slot
<1>4. IsFiniteSet({s \in S : GetDevice(s) = 0})
  BY <1>3, FS_Subset
<1>5. /\ new \in Seq({s \in S : GetDevice(s) = 0})
      /\ \A i, j \in DOMAIN new : new[i] = new[j] => i = j
  BY <1>4, SetToSeqIs
<1>6. new \in Seq(S) /\ \A k \in DOMAIN new : new[k] \in Slot /\ GetDevice(new[k]) = 0
  <2> DEFINE T == {s \in S : GetDevice(s) = 0}
  <2>1. T \subseteq S /\ \A s \in T : s \in Slot /\ GetDevice(s) = 0
    OBVIOUS
  <2>2. new \in Seq(T)
    BY <1>5
  <2> HIDE DEF T, new
  <2>3. \A k \in DOMAIN new : new[k] \in T
    BY <2>2
  <2>4. new \in Seq(S)
    BY <2>1, <2>2
  <2> QED BY <2>1, <2>3, <2>4
<1>7. DOMAIN g = DOMAIN heap /\ g = [i \in DOMAIN g |-> g[i]]
  OBVIOUS
<1>8. \A i \in DOMAIN heap : g[i] \in Object
  BY <1>2, SetIntfIs
<1>9. ASSUME NEW i \in DOMAIN heap
      PROVE  \/ g[i] = heap[i]
             \/ heap[i].att = FALSE /\ heap[i].slot \in S /\ g[i] = SetIntf(heap[i], type)
  <2>1. CASE i \in known
    <3>1. PICK s \in S : GetDevice(s) # 0 /\ ~Refused(s) /\ i = GetDevice(s)
      BY <2>1
    <3>2. heap[i].slot = s /\ ~heap[i].att
      BY <1>2, <3>1, GetDeviceIs DEF Refused
    <3>3. heap[i] \in Object
      BY <1>2
    <3>4. heap[i].att \in BOOLEAN
      BY <3>3 DEF Object
    <3>5. heap[i].att = FALSE
      BY <3>2, <3>4
    <3>6. g[i] = SetIntf(heap[i], type)
      BY <2>1
    <3> HIDE DEF g, known
    <3> QED BY <3>2, <3>5, <3>6
  <2>2. CASE i \notin known
    <3>1. g[i] = IF i \in known THEN SetIntf(heap[i], type) ELSE heap[i]
      OBVIOUS
    <3> HIDE DEF known, g
    <3>2. g[i] = heap[i]
      BY <2>2, <3>1
    <3> QED BY <3>2
  <2> QED BY <2>1, <2>2
<1> HIDE DEF g, known
<1>10. g \in Seq(Object) /\ Len(g) = Len(heap)
  BY <1>2, <1>7, <1>8, SameLength
<1>11. DOMAIN n = DOMAIN new /\ \A k \in DOMAIN new : n[k] = SetIntf(NewObject(new[k]), type)
  OBVIOUS
<1>12. \A k \in DOMAIN new : n[k] \in Object
  BY <1>6, <1>11, NewObjectIs, SetIntfIs
<1>13. n = [k \in DOMAIN n |-> n[k]]
  OBVIOUS
<1> HIDE DEF new, n
<1>14. n \in Seq(Object) /\ Len(n) = Len(new)
  <2>1. DOMAIN new = 1..Len(new) /\ Len(new) \in Nat
    BY <1>6
  <2>2. n \in [1..Len(new) -> Object]
    BY <1>11, <1>12, <1>13, <2>1
  <2> QED BY <2>1, <2>2
<1>15. heap' \in Seq(Object) /\ Len(heap') = Len(heap) + Len(new)
  <2>1. g \o n \in Seq(Object) /\ Len(g \o n) = Len(g) + Len(n)
    BY <1>10, <1>14
  <2> QED BY <1>1, <1>10, <1>14, <2>1
<1>16. \A i \in DOMAIN heap : heap'[i] = g[i]
  BY <1>1, <1>7, <1>10, <1>14, Joined
<1>17. \A k \in DOMAIN new : heap'[Len(heap) + k] = n[k]
  BY <1>1, <1>10, <1>11, <1>14, Joined
<1>18. new \in Seq(S)
  BY <1>6
<1> WITNESS new \in Seq(S)
<1>19. \A i, j \in DOMAIN new : new[i] = new[j] => i = j
  BY <1>5
<1>20. \A i \in DOMAIN heap :
         \/ heap'[i] = heap[i]
         \/ heap[i].att = FALSE /\ heap[i].slot \in S /\ heap'[i] = SetIntf(heap[i], type)
  BY <1>9, <1>16
<1>21. \A k \in DOMAIN new : heap'[Len(heap) + k] = SetIntf(NewObject(new[k]), type)
  BY <1>11, <1>17
<1> QED BY <1>1, <1>6, <1>15, <1>19, <1>20, <1>21

LEMMA AddIs ==
    ASSUME PortsInd, NEW S, S \subseteq Slot, NEW type, AddDevice(S, type)
    PROVE  Grown
<1>1. PICK new \in Seq(S) :
        /\ \A i, j \in DOMAIN new : new[i] = new[j] => i = j
        /\ \A k \in DOMAIN new : GetDevice(new[k]) = 0
        /\ heap' \in Seq(Object) /\ Len(heap') = Len(heap) + Len(new)
        /\ \A i \in DOMAIN heap :
             \/ heap'[i] = heap[i]
             \/ heap[i].att = FALSE /\ heap[i].slot \in S /\ heap'[i] = SetIntf(heap[i], type)
        /\ \A k \in DOMAIN new : heap'[Len(heap) + k] = SetIntf(NewObject(new[k]), type)
        /\ mDevintfList' = mDevintfList \o [k \in DOMAIN new |-> Len(heap) + k]
  BY AddShape
<1> DEFINE m == [k \in DOMAIN new |-> Len(heap) + k]
<1>2. Types /\ OneObject /\ heap \in Seq(Object) /\ mDevintfList \in Seq(DOMAIN heap)
  BY DEF PortsInd, Types
<1>3. /\ DOMAIN new = 1..Len(new) /\ Len(new) \in Nat /\ DOMAIN heap = 1..Len(heap)
      /\ Len(heap) \in Nat /\ DOMAIN heap' = 1..(Len(heap) + Len(new))
  BY <1>1, <1>2
<1>4. DOMAIN heap \subseteq DOMAIN heap' /\ \A k \in DOMAIN new : Len(heap) + k \in DOMAIN heap'
  BY <1>3
<1>5. ASSUME NEW i \in DOMAIN heap PROVE heap'[i].slot = heap[i].slot
  <2>1. heap[i] \in Object
    BY <1>2
  <2> QED BY <1>1, <2>1, SetIntfIs
<1>6. ASSUME NEW k \in DOMAIN new PROVE heap'[Len(heap) + k].slot = new[k]
  <2>1. new[k] \in Slot /\ heap'[Len(heap) + k] = SetIntf(NewObject(new[k]), type)
    BY <1>1
  <2> QED BY <2>1, NewObjectIs, SetIntfIs
<1>7. m \in Seq(DOMAIN heap') /\ Len(m) = Len(new) /\ DOMAIN m = DOMAIN new
  <2>1. m \in [1..Len(new) -> DOMAIN heap']
    BY <1>3, <1>4
  <2> QED BY <1>3, <2>1
<1>8. \A k \in DOMAIN new : m[k] = Len(heap) + k
  OBVIOUS
<1>9. mDevintfList' = mDevintfList \o m
  BY <1>1
<1> HIDE DEF m
<1>10. mDevintfList \in Seq(DOMAIN heap')
  BY <1>2, <1>4
<1>11. mDevintfList' \in Seq(DOMAIN heap')
  BY <1>7, <1>9, <1>10, Joined
<1>12. ASSUME NEW i \in Listed' PROVE i \in Listed \/ \E k \in DOMAIN new : i = Len(heap) + k
  <2>1. PICK x \in DOMAIN (mDevintfList \o m) : i = (mDevintfList \o m)[x]
    BY <1>9 DEF Listed, Range
  <2>2. x \in DOMAIN mDevintfList \/ \E k \in DOMAIN m : x = Len(mDevintfList) + k
    BY <1>7, <1>10, Joined
  <2>3. CASE x \in DOMAIN mDevintfList
    <3>1. i = mDevintfList[x]
      BY <1>7, <1>10, <2>1, <2>3, Joined
    <3> QED BY <2>3, <3>1 DEF Listed, Range
  <2>4. CASE \E k \in DOMAIN m : x = Len(mDevintfList) + k
    <3>1. PICK k \in DOMAIN m : x = Len(mDevintfList) + k
      BY <2>4
    <3>2. i = m[k]
      BY <1>7, <1>10, <2>1, <3>1, Joined
    <3> QED BY <1>7, <1>8, <3>2
  <2> QED BY <2>2, <2>3, <2>4
<1>13. ASSUME NEW i \in Listed, NEW k \in DOMAIN new PROVE heap'[i].slot # heap'[Len(heap) + k].slot
  <2>1. heap[i].slot # new[k]
    BY <1>1, <1>2, GetDeviceIs
  <2> QED BY <1>2, <1>5, <1>6, <2>1, ListedIn
<1>14. \A i, j \in Listed : heap'[i].slot = heap'[j].slot => i = j
  BY <1>2, <1>5, ListedIn DEF OneObject
<1>15. \A j, k \in DOMAIN new : heap'[Len(heap) + j].slot = heap'[Len(heap) + k].slot => j = k
  BY <1>1, <1>6
<1>16. OneObject'
  <2> SUFFICES ASSUME NEW i \in Listed', NEW j \in Listed', heap'[i].slot = heap'[j].slot PROVE i = j
    BY DEF OneObject
  <2> QED BY <1>12, <1>13, <1>14, <1>15
<1> QED BY <1>1, <1>4, <1>5, <1>11, <1>16 DEF Grown

LEMMA RemoveDeviceIs ==
    ASSUME PortsInd, NEW s, NEW i, RemoveDevice(StaleIn(heap, s), i)
    PROVE  Grown
<1> DEFINE hp == StaleIn(heap, s)
           r == [hp[i] EXCEPT !.fbh = "null", !.status = "UNKNOW", !.att = FALSE]
<1>1. heap' = [hp EXCEPT ![i] = r] /\ mDevintfList' = RemoveFirst(mDevintfList, i)
  BY DEF RemoveDevice
<1>2. heap \in Seq(Object) /\ mDevintfList \in Seq(DOMAIN heap)
  BY DEF PortsInd, Types
<1>3. Like(hp, heap)
  BY <1>2, LikeStale
<1> HIDE DEF hp
<1>4. hp \in Seq(Object) /\ DOMAIN hp = DOMAIN heap /\ \A j \in DOMAIN heap : hp[j].slot = heap[j].slot
  BY <1>3 DEF Like
<1>5. i \in DOMAIN hp => r \in Object /\ r.slot = hp[i].slot
  <2> SUFFICES ASSUME i \in DOMAIN hp PROVE r \in Object /\ r.slot = hp[i].slot
    OBVIOUS
  <2>1. hp[i] \in Object
    BY <1>4
  <2> QED BY <2>1 DEF Object, Pointer
<1> HIDE DEF r
<1>6. Like(heap', hp)
  BY <1>1, <1>4, <1>5, LikePut
<1>7. Like(heap', heap)
  BY <1>4, <1>6 DEF Like
<1>8. mDevintfList' \in Seq(DOMAIN heap) /\ Range(mDevintfList') \subseteq Range(mDevintfList)
  BY <1>1, <1>2, RemoveIs
<1> QED BY <1>7, <1>8, GrownLike

LEMMA ResetPoolIs ==
    ASSUME PortsInd, ResetPool
    PROVE  Grown
<1>1. heap \in Seq(Object)
  BY DEF PortsInd, Types
<1>2. DOMAIN heap' = DOMAIN heap /\ heap' = [j \in DOMAIN heap' |-> heap'[j]]
  BY DEF ResetPool
<1>3. ASSUME NEW j \in DOMAIN heap PROVE heap'[j] \in Object /\ heap'[j].slot = heap[j].slot
  <2>1. heap[j] \in Object
    BY <1>1
  <2>2. heap'[j] = [heap[j] EXCEPT !.status = "UNKNOW"] \/ heap'[j] = heap[j]
    BY DEF ResetPool
  <2> QED BY <2>1, <2>2 DEF Object
<1>4. heap' \in Seq(Object)
  BY <1>1, <1>2, <1>3, SameLength
<1>5. Like(heap', heap)
  BY <1>2, <1>3, <1>4 DEF Like
<1>6. mDevintfList' = <<>> /\ mDevintfList' \in Seq(DOMAIN heap)
  BY DEF ResetPool
<1>7. Range(mDevintfList') \subseteq Range(mDevintfList)
  BY <1>6 DEF Range
<1> QED BY <1>5, <1>6, <1>7, GrownLike

-----------------------------------------------------------------------------
(* The other variables. *)

Side ==
    /\ bus \in [Slot -> BusRec] /\ handle_list \in [Slot -> Unit]
    /\ m_bWork \in BOOLEAN /\ crashed \in BOOLEAN /\ clicks \in 0..MaxClicks
    /\ msgs \in Seq(Message) /\ outcome \in Outcomes
UiOK(u, D) ==
    /\ u \in UiRec(D)
    /\ u.pc = "port" => u.i >= 1
    /\ u.pc \in AtPorts => u.i \in Port
Ports(D) == port \in [Port -> PortRec(D)]
Threads(D) ==
    /\ thr \in [Thread -> ThreadRec(D)]
    /\ \A t \in Thread : thr[t].pc # "none" => thr[t].port \in Port

\* A step leaves them well, and no pointer is to an object that it makes.
Moved == Side' /\ UiOK(ui', DOMAIN heap) /\ port' \in [Port -> PortRec(DOMAIN heap)]
         /\ thr' \in [Thread -> ThreadRec(DOMAIN heap)]
         /\ \A t \in Thread : thr'[t].pc # "none" => thr'[t].port \in Port

LEMMA Parts ==
    PortsInd <=> /\ Side /\ UiOK(ui, DOMAIN heap) /\ Ports(DOMAIN heap) /\ Threads(DOMAIN heap) /\ OneObject
                 /\ heap \in Seq(Object) /\ mDevintfList \in Seq(DOMAIN heap)
BY DEF PortsInd, Types, Placed, Side, UiOK, Ports, Threads

LEMMA Widen ==
    ASSUME NEW D, NEW E, D \subseteq E
    PROVE  /\ UiRec(D) \subseteq UiRec(E)
           /\ [Port -> PortRec(D)] \subseteq [Port -> PortRec(E)]
           /\ [Thread -> ThreadRec(D)] \subseteq [Thread -> ThreadRec(E)]
<1>1. {0} \cup D \subseteq {0} \cup E
  OBVIOUS
<1>2. PortRec(D) \subseteq PortRec(E) /\ ThreadRec(D) \subseteq ThreadRec(E)
  BY <1>1 DEF PortRec, ThreadRec
<1>3. UiRec(D) \subseteq UiRec(E)
  BY <1>1 DEF UiRec
<1> QED BY <1>2, <1>3

LEMMA StepIs ==
    ASSUME PortsInd, Grown, Moved
    PROVE  PortsInd'
<1>1. DOMAIN heap \subseteq DOMAIN heap'
  BY DEF Grown
<1>2. /\ port' \in [Port -> PortRec(DOMAIN heap')] /\ thr' \in [Thread -> ThreadRec(DOMAIN heap')]
      /\ ui' \in UiRec(DOMAIN heap')
  <2>1. /\ UiRec(DOMAIN heap) \subseteq UiRec(DOMAIN heap')
        /\ [Port -> PortRec(DOMAIN heap)] \subseteq [Port -> PortRec(DOMAIN heap')]
        /\ [Thread -> ThreadRec(DOMAIN heap)] \subseteq [Thread -> ThreadRec(DOMAIN heap')]
    BY <1>1, Widen
  <2>2. /\ port' \in [Port -> PortRec(DOMAIN heap)] /\ thr' \in [Thread -> ThreadRec(DOMAIN heap)]
        /\ ui' \in UiRec(DOMAIN heap)
    BY DEF Moved, UiOK
  <2> QED BY <2>1, <2>2
<1> QED BY <1>2 DEF Moved, Grown, PortsInd, Types, Placed, Side, UiOK

\* What a step that does not touch them keeps.
LEMMA Keep ==
    ASSUME PortsInd
    PROVE  /\ UNCHANGED ui => UiOK(ui', DOMAIN heap)
           /\ UNCHANGED port => port' \in [Port -> PortRec(DOMAIN heap)]
           /\ UNCHANGED thr => /\ thr' \in [Thread -> ThreadRec(DOMAIN heap)]
                               /\ \A t \in Thread : thr'[t].pc # "none" => thr'[t].port \in Port
           /\ UNCHANGED <<bus, handle_list, m_bWork, crashed, clicks, msgs, outcome>> => Side'
BY Parts DEF Side, UiOK, Ports, Threads

LEMMA IdleIs == ASSUME ui' = Idle PROVE UiOK(ui', DOMAIN heap)
BY PortsAssumption DEF Idle, UiOK, UiRec, UISteps, AtPorts

LEMMA AtPortIs ==
    ASSUME NEW i \in 0..(NPorts + 1), i >= 1
    PROVE  UiOK(AtPort(i), DOMAIN heap)
<1>1. AtPort(i) \in UiRec(DOMAIN heap) /\ AtPort(i).pc = "port" /\ AtPort(i).i = i
  BY DEF AtPort, UiRec, UISteps
<1> QED BY <1>1 DEF UiOK, AtPorts

LEMMA ScheduleIs == ASSUME ScheduleDeviceWork PROVE UiOK(ui', DOMAIN heap)
<1>1. 1 \in 0..(NPorts + 1)
  BY PortsAssumption
<1>2. ui' = AtPort(1) \/ ui' = Idle
  BY DEF ScheduleDeviceWork
<1> QED BY <1>1, <1>2, AtPortIs, IdleIs

LEMMA NextPortIs ==
    ASSUME PortsInd, ui.i \in Port, NextPort
    PROVE  UiOK(ui', DOMAIN heap)
<1>1. ui.i + 1 \in 0..(NPorts + 1) /\ ui.i + 1 >= 1
  BY PortsAssumption DEF Port
<1> QED BY <1>1, AtPortIs DEF NextPort

\* ScheduleDeviceWork goes on at its port, with another item and another device.
LEMMA StayIs ==
    ASSUME PortsInd, ui.i \in Port, NEW c \in UISteps, NEW x \in {0} \cup Slot,
           NEW d \in {0} \cup DOMAIN heap
    PROVE  UiOK([ui EXCEPT !.pc = c, !.item = x, !.dev = d], DOMAIN heap)
<1> DEFINE u == [ui EXCEPT !.pc = c, !.item = x, !.dev = d]
<1>1. ui \in UiRec(DOMAIN heap)
  BY Parts DEF UiOK
<1>2. u \in UiRec(DOMAIN heap) /\ u.i = ui.i
  BY <1>1 DEF UiRec
<1> HIDE DEF u
<1>3. u.i >= 1
  BY <1>2, PortsAssumption DEF Port
<1> QED BY <1>2, <1>3 DEF UiOK, u

\* The record ui where only its step changes.
LEMMA StepTo ==
    ASSUME PortsInd, ui.i \in Port, NEW c \in UISteps, ui' = [ui EXCEPT !.pc = c]
    PROVE  UiOK(ui', DOMAIN heap)
<1>1. ui \in UiRec(DOMAIN heap)
  BY Parts DEF UiOK
<1> DEFINE x == ui.item
           d == ui.dev
<1>2. ui' = [ui EXCEPT !.pc = c, !.item = x, !.dev = d]
  BY <1>1 DEF UiRec
<1>3. x \in {0} \cup Slot /\ d \in {0} \cup DOMAIN heap
  BY <1>1 DEF UiRec
<1> HIDE DEF x, d
<1>4. UiOK([ui EXCEPT !.pc = c, !.item = x, !.dev = d], DOMAIN heap)
  BY <1>3, StayIs
<1> QED BY <1>2, <1>4

LEMMA SlotOfIs ==
    ASSUME PortsInd, NEW i \in {0} \cup DOMAIN heap
    PROVE  SlotOf(i) \in {0} \cup Slot
<1>1. i # 0 => heap[i] \in Object
  BY Parts
<1> QED BY <1>1 DEF SlotOf, Object

LEMMA UsbHandleIs ==
    ASSUME PortsInd, NEW i \in DOMAIN heap
    PROVE  heap[i] \in Object /\ GetUsbHandle(heap[i]) \in Pointer
<1>1. heap[i] \in Object
  BY Parts
<1> QED BY <1>1 DEF GetUsbHandle, Object, Pointer

LEMMA PortIs ==
    ASSUME PortsInd, NEW p \in Port
    PROVE  /\ port[p] \in PortRec(DOMAIN heap)
           /\ port[p].active \in {0} \cup DOMAIN heap /\ port[p].usb \in Pointer
           /\ port[p].map \in {0} \cup Slot
<1>1. port[p] \in PortRec(DOMAIN heap)
  BY Parts DEF Ports
<1> QED BY <1>1 DEF PortRec

LEMMA ThreadIs ==
    ASSUME PortsInd, NEW t \in Thread
    PROVE  /\ thr[t] \in ThreadRec(DOMAIN heap) /\ thr[t].dev \in {0} \cup DOMAIN heap
           /\ thr[t].usb \in Pointer /\ thr[t].port \in {0} \cup Port
           /\ thr[t].pc # "none" => thr[t].port \in Port
<1>1. thr[t] \in ThreadRec(DOMAIN heap)
  BY Parts DEF Threads
<1> QED BY <1>1, Parts DEF ThreadRec, Threads

LEMMA StaleIs == ASSUME NEW x \in Pointer PROVE Stale(x) \in Pointer
BY DEF Stale, Pointer

LEMMA StalePortsIs ==
    ASSUME PortsInd, NEW s
    PROVE  StalePorts(s) \in [Port -> PortRec(DOMAIN heap)]
<1>1. ASSUME NEW q \in Port
      PROVE  [port[q] EXCEPT !.usb = Stale(@)] \in PortRec(DOMAIN heap) /\ port[q] \in PortRec(DOMAIN heap)
  <2>1. port[q] \in PortRec(DOMAIN heap) /\ Stale(port[q].usb) \in Pointer
    BY PortIs, StaleIs
  <2> QED BY <2>1 DEF PortRec
<1> QED BY <1>1 DEF StalePorts

LEMMA StaleThreadsIs ==
    ASSUME PortsInd, NEW s
    PROVE  /\ StaleThreads(s) \in [Thread -> ThreadRec(DOMAIN heap)]
           /\ \A t \in Thread : /\ StaleThreads(s)[t].pc = thr[t].pc
                                /\ StaleThreads(s)[t].port = thr[t].port
<1>1. ASSUME NEW t \in Thread
      PROVE  /\ StaleThreads(s)[t] \in ThreadRec(DOMAIN heap)
             /\ StaleThreads(s)[t].pc = thr[t].pc /\ StaleThreads(s)[t].port = thr[t].port
  <2>1. thr[t] \in ThreadRec(DOMAIN heap) /\ Stale(thr[t].usb) \in Pointer
    BY ThreadIs, StaleIs
  <2> DEFINE r == [thr[t] EXCEPT !.usb = Stale(@)]
  <2>2. r \in ThreadRec(DOMAIN heap) /\ r.pc = thr[t].pc /\ r.port = thr[t].port
    BY <2>1 DEF ThreadRec
  <2>3. StaleThreads(s)[t] = r \/ StaleThreads(s)[t] = thr[t]
    BY DEF StaleThreads
  <2> QED BY <2>1, <2>2, <2>3
<1>2. DOMAIN StaleThreads(s) = Thread /\ StaleThreads(s) = [t \in DOMAIN StaleThreads(s) |-> StaleThreads(s)[t]]
  BY DEF StaleThreads
<1> HIDE DEF StaleThreads
<1> QED BY <1>1, <1>2

LEMMA CleanedIs ==
    ASSUME NEW D, NEW w \in PortRec(D)
    PROVE  Cleaned(w) \in PortRec(D)
BY DEF Cleaned, PortRec, Pointer

\* One port is changed.
LEMMA PortPut ==
    ASSUME NEW D, NEW f \in [Port -> PortRec(D)], NEW p, NEW r, p \in Port => r \in PortRec(D)
    PROVE  [f EXCEPT ![p] = r] \in [Port -> PortRec(D)]
OBVIOUS

\* One thread is changed.
LEMMA ThreadPut ==
    ASSUME NEW D, NEW f \in [Thread -> ThreadRec(D)],
           \A u \in Thread : f[u].pc # "none" => f[u].port \in Port,
           NEW t \in Thread, NEW r \in ThreadRec(D), r.pc # "none" => r.port \in Port
    PROVE  /\ [f EXCEPT ![t] = r] \in [Thread -> ThreadRec(D)]
           /\ \A u \in Thread : [f EXCEPT ![t] = r][u].pc # "none" => [f EXCEPT ![t] = r][u].port \in Port
OBVIOUS

LEMMA GotoIs ==
    ASSUME PortsInd, NEW t \in Thread, thr[t].pc # "none", NEW step \in Steps, Goto(t, step)
    PROVE  /\ thr' \in [Thread -> ThreadRec(DOMAIN heap)]
           /\ \A u \in Thread : thr'[u].pc # "none" => thr'[u].port \in Port
<1> DEFINE r == [thr[t] EXCEPT !.pc = step]
<1>1. thr' = [thr EXCEPT ![t] = r]
  BY DEF Goto
<1>2. r \in ThreadRec(DOMAIN heap) /\ r.port = thr[t].port
  BY ThreadIs DEF ThreadRec
<1> HIDE DEF r
<1>3. thr \in [Thread -> ThreadRec(DOMAIN heap)] /\ \A u \in Thread : thr[u].pc # "none" => thr[u].port \in Port
  BY Parts DEF Threads
<1>4. r.pc # "none" => r.port \in Port
  BY <1>2, ThreadIs
<1> QED BY <1>1, <1>2, <1>3, <1>4, ThreadPut

\* One object is attached, detached or gets another status.
LEMMA AttIs ==
    ASSUME PortsInd, NEW i, NEW b \in BOOLEAN, heap' = [heap EXCEPT ![i].att = b],
           mDevintfList' = mDevintfList
    PROVE  Grown
<1> DEFINE r == [heap[i] EXCEPT !.att = b]
<1>1. heap \in Seq(Object) /\ heap' = [heap EXCEPT ![i] = r]
  BY Parts
<1>2. i \in DOMAIN heap => r \in Object /\ r.slot = heap[i].slot
  BY UsbHandleIs DEF Object
<1> HIDE DEF r
<1>3. Like([heap EXCEPT ![i] = r], heap)
  BY <1>1, <1>2, LikePut
<1>4. Like(heap', heap)
  BY <1>1, <1>3
<1> QED BY <1>4, GrownHeap

LEMMA StatusIs ==
    ASSUME PortsInd, NEW i, NEW x \in {"UNKNOW", "PLUGIN", "FLASH", "REMOVED"},
           heap' = [heap EXCEPT ![i].status = x], mDevintfList' = mDevintfList
    PROVE  Grown
<1> DEFINE r == [heap[i] EXCEPT !.status = x]
<1>1. heap \in Seq(Object) /\ heap' = [heap EXCEPT ![i] = r]
  BY Parts
<1>2. i \in DOMAIN heap => r \in Object /\ r.slot = heap[i].slot
  BY UsbHandleIs DEF Object
<1> HIDE DEF r
<1>3. Like([heap EXCEPT ![i] = r], heap)
  BY <1>1, <1>2, LikePut
<1>4. Like(heap', heap)
  BY <1>1, <1>3
<1> QED BY <1>4, GrownHeap

LEMMA StaleHeapIs ==
    ASSUME PortsInd, NEW s, heap' = StaleIn(heap, s), mDevintfList' = mDevintfList
    PROVE  Grown
BY Parts, LikeStale, GrownHeap

-----------------------------------------------------------------------------
(* ScheduleDeviceWork. *)

LEMMA UiPort ==
    ASSUME PortsInd, ui.pc \in AtPorts
    PROVE  ui.i \in Port
BY Parts DEF UiOK

LEMMA SchedulePortIs == ASSUME PortsInd, SchedulePort PROVE PortsInd'
<1>1. Grown
  BY GrownSame DEF SchedulePort, poolVars
<1>2. UiOK(ui', DOMAIN heap)
  <2>1. ui \in UiRec(DOMAIN heap) /\ ui.pc = "port" /\ ui.i >= 1 /\ ui.i \in 0..(NPorts + 1)
    BY Parts DEF SchedulePort, UiOK, UiRec
  <2>2. CASE ui' = Idle
    BY <2>2, IdleIs
  <2>3. CASE ui.i <= NPorts
    <3>1. ui.i \in Port
      BY <2>1, <2>3, PortsAssumption DEF Port
    <3>2. CASE NextPort
      BY <3>1, <3>2, NextPortIs
    <3>3. CASE ui' = [ui EXCEPT !.pc = "pick", !.item = ItemOf(port[ui.i])]
      <4> DEFINE x == ItemOf(port[ui.i])
      <4>1. x \in {0} \cup Slot
        BY <3>1, PortIs, SlotOfIs DEF ItemOf
      <4> HIDE DEF x
      <4>2. ui' = [ui EXCEPT !.pc = "pick", !.item = x, !.dev = ui.dev]
        BY <2>1, <3>3 DEF UiRec, x
      <4>3. ui.dev \in {0} \cup DOMAIN heap /\ "pick" \in UISteps
        BY <2>1 DEF UiRec, UISteps
      <4> QED BY <3>1, <4>1, <4>2, <4>3, StayIs
    <3> QED BY <2>1, <2>3, <3>2, <3>3, PortsAssumption DEF SchedulePort
  <2> QED BY <2>2, <2>3 DEF SchedulePort
<1>3. Moved
  BY <1>2, Keep DEF SchedulePort, poolVars, Moved
<1> QED BY <1>1, <1>3, StepIs

LEMMA PickDeviceIs == ASSUME PortsInd, PickDevice PROVE PortsInd'
<1>1. Grown
  BY GrownSame DEF PickDevice, poolVars
<1>2. ui.i \in Port /\ ui \in UiRec(DOMAIN heap)
  BY UiPort, Parts DEF PickDevice, UiOK, AtPorts, UISteps
<1>3. UiOK(ui', DOMAIN heap)
  <2>1. CASE GetValidDevice = 0
    BY <1>2, <2>1, NextPortIs DEF PickDevice
  <2>2. CASE GetValidDevice # 0
    <3>1. GetValidDevice \in {0} \cup DOMAIN heap
      BY <2>2, ValidIs DEF PortsInd
    <3>2. ui' = [ui EXCEPT !.pc = "look", !.dev = GetValidDevice]
      BY <2>2 DEF PickDevice
    <3> DEFINE d == GetValidDevice
    <3> HIDE DEF d
    <3>3. ui' = [ui EXCEPT !.pc = "look", !.item = ui.item, !.dev = d]
      BY <1>2, <3>2 DEF UiRec, d
    <3>4. ui.item \in {0} \cup Slot /\ "look" \in UISteps /\ d \in {0} \cup DOMAIN heap
      BY <1>2, <3>1 DEF UiRec, UISteps, d
    <3> QED BY <1>2, <3>3, <3>4, StayIs
  <2> QED BY <2>1, <2>2
<1>4. Moved
  BY <1>3, Keep DEF PickDevice, poolVars, Moved
<1> QED BY <1>1, <1>4, StepIs

LEMMA LookAtPortIs == ASSUME PortsInd, LookAtPort PROVE PortsInd'
<1>1. Grown
  BY GrownSame DEF LookAtPort, poolVars
<1>2. ui.i \in Port /\ ui \in UiRec(DOMAIN heap)
  BY UiPort, Parts DEF LookAtPort, UiOK, AtPorts, UISteps
<1>3. UiOK(ui', DOMAIN heap)
  <2>1. PICK c \in UISteps, x \in {0, ui.item}, d \in {0, ui.dev} :
            ui' = [ui EXCEPT !.pc = c, !.item = x, !.dev = d]
    <3>1. /\ [ui EXCEPT !.pc = "set", !.item = 0]
              = [ui EXCEPT !.pc = "set", !.item = 0, !.dev = ui.dev]
          /\ [ui EXCEPT !.pc = "pick", !.dev = 0]
              = [ui EXCEPT !.pc = "pick", !.item = ui.item, !.dev = 0]
      BY <1>2 DEF UiRec
    <3>2. {"signal", "set", "pick"} \subseteq UISteps
      BY DEF UISteps
    <3>3. \/ ui' = [ui EXCEPT !.pc = "signal", !.item = 0, !.dev = 0]
          \/ ui' = [ui EXCEPT !.pc = "set", !.item = 0, !.dev = ui.dev]
          \/ ui' = [ui EXCEPT !.pc = "pick", !.item = ui.item, !.dev = 0]
      BY <3>1 DEF LookAtPort
    <3> QED BY <3>2, <3>3
  <2>2. x \in {0} \cup Slot /\ d \in {0} \cup DOMAIN heap
    BY <1>2 DEF UiRec
  <2> QED BY <1>2, <2>1, <2>2, StayIs
<1>4. Moved
  BY <1>3, Keep DEF LookAtPort, poolVars, Moved
<1> QED BY <1>1, <1>4, StepIs

\* A step of ScheduleDeviceWork that writes its port only.
LEMMA PortStep ==
    ASSUME PortsInd, NEW r, ui.i \in Port => r \in PortRec(DOMAIN heap), ui.pc \in AtPorts,
           port' = [port EXCEPT ![ui.i] = r], UiOK(ui', DOMAIN heap),
           UNCHANGED <<poolVars, m_bWork, msgs, thr, clicks, outcome, crashed>>
    PROVE  PortsInd'
<1>1. Grown
  BY GrownSame DEF poolVars
<1>2. port \in [Port -> PortRec(DOMAIN heap)] /\ ui.i \in Port
  BY Parts, UiPort DEF Ports
<1>3. port' \in [Port -> PortRec(DOMAIN heap)]
  BY <1>2, PortPut
<1>4. Moved
  BY <1>3, Keep DEF poolVars, Moved
<1> QED BY <1>1, <1>4, StepIs

LEMMA SetDevSwitchEvtIs == ASSUME PortsInd, SetDevSwitchEvt PROVE PortsInd'
<1>1. ui.pc \in AtPorts /\ ui.i \in Port /\ "test" \in UISteps
  BY UiPort DEF SetDevSwitchEvt, AtPorts, UISteps
<1>2. [port[ui.i] EXCEPT !.stat = "WORKING"] \in PortRec(DOMAIN heap)
  BY <1>1, PortIs DEF PortRec
<1>3. port' = [port EXCEPT ![ui.i] = [port[ui.i] EXCEPT !.stat = "WORKING"]]
  BY DEF SetDevSwitchEvt
<1>4. UiOK(ui', DOMAIN heap)
  BY <1>1, StepTo DEF SetDevSwitchEvt
<1> QED BY <1>1, <1>2, <1>3, <1>4, PortStep DEF SetDevSwitchEvt

LEMMA TestActiveIs == ASSUME PortsInd, TestActive PROVE PortsInd'
<1>1. ui.i \in Port /\ "event" \in UISteps /\ "usb" \in UISteps
  BY UiPort DEF TestActive, AtPorts, UISteps
<1>2. UiOK(ui', DOMAIN heap)
  <2>1. ui' = [ui EXCEPT !.pc = "event"] \/ ui' = [ui EXCEPT !.pc = "usb"]
    BY DEF TestActive
  <2> QED BY <1>1, <2>1, StepTo
<1>3. Grown
  BY GrownSame DEF TestActive, poolVars
<1>4. Moved
  BY <1>2, Keep DEF TestActive, poolVars, Moved
<1> QED BY <1>3, <1>4, StepIs

LEMMA SetDeviceIs == ASSUME PortsInd, SetDevice PROVE PortsInd'
<1>1. ui.pc \in AtPorts /\ ui.i \in Port /\ "usb" \in UISteps
  BY UiPort DEF SetDevice, AtPorts, UISteps
<1>2. [port[ui.i] EXCEPT !.active = ui.dev] \in PortRec(DOMAIN heap)
  <2>1. ui.dev \in {0} \cup DOMAIN heap
    BY Parts DEF UiOK, UiRec
  <2> QED BY <1>1, <2>1, PortIs DEF PortRec
<1>3. port' = [port EXCEPT ![ui.i] = [port[ui.i] EXCEPT !.active = ui.dev]]
  BY DEF SetDevice
<1>4. UiOK(ui', DOMAIN heap)
  BY <1>1, StepTo DEF SetDevice
<1> QED BY <1>1, <1>2, <1>3, <1>4, PortStep DEF SetDevice

LEMMA UpdateUsbHandleIs == ASSUME PortsInd, UpdateUsbHandle PROVE PortsInd'
<1> DEFINE h == GetUsbHandle(heap[port[ui.i].active])
<1>1. ui.pc \in AtPorts /\ ui.i \in Port /\ "attach" \in UISteps
  BY UiPort DEF UpdateUsbHandle, AtPorts, UISteps
<1>2. port' = [port EXCEPT ![ui.i] = [port[ui.i] EXCEPT !.usb = h]]
  BY DEF UpdateUsbHandle, MyUIPort
<1>3. h \in Pointer
  <2>1. port[ui.i].active \in DOMAIN heap
    BY <1>1, PortIs DEF UpdateUsbHandle, MyUIPort
  <2> QED BY <2>1, UsbHandleIs
<1> HIDE DEF h
<1>4. [port[ui.i] EXCEPT !.usb = h] \in PortRec(DOMAIN heap)
  BY <1>1, <1>3, PortIs DEF PortRec
<1>5. UiOK(ui', DOMAIN heap)
  BY <1>1, StepTo DEF UpdateUsbHandle
<1> QED BY <1>1, <1>2, <1>4, <1>5, PortStep DEF UpdateUsbHandle

LEMMA SetAttachStatusIs == ASSUME PortsInd, SetAttachStatus PROVE PortsInd'
<1>1. ui.i \in Port /\ "event" \in UISteps /\ "status" \in UISteps
  BY UiPort DEF SetAttachStatus, AtPorts, UISteps
<1>2. Grown
  BY AttIs DEF SetAttachStatus
<1>3. UiOK(ui', DOMAIN heap)
  <2>1. ui' = [ui EXCEPT !.pc = "event"] \/ ui' = [ui EXCEPT !.pc = "status"]
    BY DEF SetAttachStatus, AfterAttach
  <2> QED BY <1>1, <2>1, StepTo
<1>4. Moved
  BY <1>3, Keep DEF SetAttachStatus, Moved
<1> QED BY <1>2, <1>4, StepIs

LEMMA SetStatusIs == ASSUME PortsInd, SetStatus PROVE PortsInd'
<1>1. ui.pc \in AtPorts /\ ui.i \in Port /\ "begin" \in UISteps
  BY UiPort DEF SetStatus, AtPorts, UISteps
<1>2. [port[ui.i] EXCEPT !.stat = "WORKING"] \in PortRec(DOMAIN heap)
  BY <1>1, PortIs DEF PortRec
<1>3. port' = [port EXCEPT ![ui.i] = [port[ui.i] EXCEPT !.stat = "WORKING"]]
  BY DEF SetStatus
<1>4. UiOK(ui', DOMAIN heap)
  BY <1>1, StepTo DEF SetStatus
<1> QED BY <1>1, <1>2, <1>3, <1>4, PortStep DEF SetStatus

LEMMA SetEventIs == ASSUME PortsInd, SetEvent PROVE PortsInd'
<1>1. ui.pc \in AtPorts /\ ui.i \in Port
  BY UiPort DEF SetEvent, AtPorts, UISteps
<1>2. [port[ui.i] EXCEPT !.evt = TRUE] \in PortRec(DOMAIN heap)
  BY <1>1, PortIs DEF PortRec
<1>3. port' = [port EXCEPT ![ui.i] = [port[ui.i] EXCEPT !.evt = TRUE]]
  BY DEF SetEvent
<1>4. UiOK(ui', DOMAIN heap)
  BY <1>1, NextPortIs DEF SetEvent
<1> QED BY <1>1, <1>2, <1>3, <1>4, PortStep DEF SetEvent

LEMMA AfxBeginThreadIs == ASSUME PortsInd, AfxBeginThread PROVE PortsInd'
<1> DEFINE t == Min(FreeThreads)
           r == [NoThread EXCEPT !.pc = "begin", !.port = ui.i]
<1>1. ui.i \in Port /\ "work" \in UISteps
  BY UiPort DEF AfxBeginThread, AtPorts, UISteps
<1>2. t \in Thread
  <2>1. FreeThreads \subseteq Nat /\ FreeThreads # {} /\ FreeThreads \subseteq Thread
    BY PortsAssumption DEF FreeThreads, Thread, AfxBeginThread
  <2> QED BY <2>1, MinIn
<1>3. r \in ThreadRec(DOMAIN heap) /\ r.port \in Port
  BY <1>1 DEF ThreadRec, NoThread, Steps, Pointer
<1>4. thr' = [thr EXCEPT ![t] = r]
  BY DEF AfxBeginThread
<1> HIDE DEF t, r
<1>5. /\ thr \in [Thread -> ThreadRec(DOMAIN heap)]
      /\ \A u \in Thread : thr[u].pc # "none" => thr[u].port \in Port
  BY Parts DEF Threads
<1>6. /\ thr' \in [Thread -> ThreadRec(DOMAIN heap)]
      /\ \A u \in Thread : thr'[u].pc # "none" => thr'[u].port \in Port
  BY <1>2, <1>3, <1>4, <1>5, ThreadPut
<1>7. Grown
  BY GrownSame DEF AfxBeginThread, poolVars
<1>8. UiOK(ui', DOMAIN heap)
  BY <1>1, StepTo DEF AfxBeginThread
<1>9. Moved
  BY <1>6, <1>8, Keep DEF AfxBeginThread, poolVars, Moved
<1> QED BY <1>7, <1>9, StepIs

LEMMA StartFailsIs == ASSUME PortsInd, StartFails PROVE PortsInd'
<1>1. ui.pc \in AtPorts /\ ui.i \in Port
  BY UiPort DEF StartFails, AtPorts, UISteps
<1>2. Cleaned(port[ui.i]) \in PortRec(DOMAIN heap)
  BY <1>1, PortIs, CleanedIs
<1>3. port' = [port EXCEPT ![ui.i] = Cleaned(port[ui.i])]
  BY DEF StartFails
<1>4. UiOK(ui', DOMAIN heap)
  BY <1>1, NextPortIs DEF StartFails
<1> QED BY <1>1, <1>2, <1>3, <1>4, PortStep DEF StartFails

LEMMA StartIs == ASSUME PortsInd, Start PROVE PortsInd'
<1>1. ui.pc \in AtPorts /\ ui.i \in Port
  BY UiPort DEF Start, AtPorts, UISteps
<1>2. [port[ui.i] EXCEPT !.work = TRUE] \in PortRec(DOMAIN heap)
  BY <1>1, PortIs DEF PortRec
<1>3. port' = [port EXCEPT ![ui.i] = [port[ui.i] EXCEPT !.work = TRUE]]
  BY DEF Start
<1>4. UiOK(ui', DOMAIN heap)
  BY <1>1, NextPortIs DEF Start
<1> QED BY <1>1, <1>2, <1>3, <1>4, PortStep DEF Start

LEMMA ScheduleCrashIs == ASSUME PortsInd, ScheduleCrash PROVE PortsInd'
<1>1. Grown
  BY GrownSame DEF ScheduleCrash, poolVars
<1>2. Side'
  BY Parts DEF ScheduleCrash, poolVars, Side
<1>3. Moved
  BY <1>2, Keep DEF ScheduleCrash, Moved
<1> QED BY <1>1, <1>3, StepIs

-----------------------------------------------------------------------------
(* Messages and the Start/Stop button. *)

LEMMA ReceiveIs ==
    ASSUME PortsInd, NEW k, Receive(k)
    PROVE  msgs' \in Seq(Message) /\ Head(msgs) \in Message
<1>1. msgs \in Seq(Message) /\ msgs # <<>> /\ msgs' = Tail(msgs)
  BY Parts DEF Receive, Side
<1> QED BY <1>1

LEMMA PostIs ==
    ASSUME PortsInd, NEW m \in Message, msgs' = Append(msgs, m)
    PROVE  msgs' \in Seq(Message)
BY Parts DEF Side

LEMMA HandlesIs ==
    ASSUME PortsInd
    PROVE  /\ find_devices => handle_list' \in [Slot -> Unit]
           /\ \A s : usb_close(s) => handle_list' \in [Slot -> Unit]
<1>1. bus \in [Slot -> BusRec] /\ handle_list \in [Slot -> Unit] /\ 0 \in Unit
  BY Parts, PoolAssumption DEF Side, Unit
<1>2. \A s \in Slot : bus[s].unit \in Unit
  BY <1>1 DEF BusRec
<1> QED BY <1>1, <1>2 DEF find_devices, usb_close

LEMMA HandleComDeviceIs == ASSUME PortsInd, HandleComDevice PROVE PortsInd'
<1>1. Grown
  <2>1. CASE m_bWork
    <3>1. AddDevice(InMode("diag"), "diag")
      BY <2>1 DEF HandleComDevice
    <3> QED BY <3>1, AddIs DEF InMode
  <2>2. CASE ~m_bWork
    BY <2>2, GrownSame DEF HandleComDevice
  <2> QED BY <2>1, <2>2
<1>2. UiOK(ui', DOMAIN heap)
  <2>1. ScheduleDeviceWork \/ UNCHANGED ui
    BY DEF HandleComDevice
  <2> QED BY <2>1, ScheduleIs, Keep
<1>3. Side'
  <2>1. msgs' \in Seq(Message)
    BY ReceiveIs DEF HandleComDevice
  <2> QED BY <2>1, Parts DEF HandleComDevice, Side
<1>4. Moved
  BY <1>2, <1>3, Keep DEF HandleComDevice, Moved
<1> QED BY <1>1, <1>4, StepIs

LEMMA EnumerateIs == ASSUME PortsInd, EnumerateAdbDevice PROVE PortsInd'
<1>1. Grown
  <2>1. CASE m_bWork
    <3>1. AddDevice(Found, "fastboot")
      BY <2>1 DEF EnumerateAdbDevice
    <3> QED BY <3>1, AddIs DEF Found, InMode
  <2>2. CASE ~m_bWork
    BY <2>2, GrownSame DEF EnumerateAdbDevice
  <2> QED BY <2>1, <2>2
<1>2. UiOK(ui', DOMAIN heap)
  <2>1. ScheduleDeviceWork \/ UNCHANGED ui
    BY DEF EnumerateAdbDevice
  <2> QED BY <2>1, ScheduleIs, Keep
<1>3. Side'
  <2>1. msgs' \in Seq(Message)
    BY ReceiveIs DEF EnumerateAdbDevice
  <2>2. find_devices \/ UNCHANGED handle_list
    BY DEF EnumerateAdbDevice
  <2>3. handle_list' \in [Slot -> Unit]
    BY <2>2, HandlesIs, Parts DEF Side
  <2> QED BY <2>1, <2>3, Parts DEF EnumerateAdbDevice, Side
<1>4. Moved
  BY <1>2, <1>3, Keep DEF EnumerateAdbDevice, Moved
<1> QED BY <1>1, <1>4, StepIs

LEMMA DeviceRemovedIs == ASSUME PortsInd, HandleDeviceRemoved PROVE PortsInd'
<1> DEFINE p == FindUsbWorkData(Head(msgs).slot)
           closed == IF p # 0 /\ port[p].stat = "WORKING" THEN UsbSlot(port[p]) ELSE 0
           does == p # 0 /\ (port[p].stat = "WORKING" \/ (port[p].stat = "FINISH" /\ PortDevFixed))
<1>1. msgs' \in Seq(Message)
  BY ReceiveIs DEF HandleDeviceRemoved
<1>2. /\ does => /\ usb_close(closed) /\ RemoveDevice(StaleIn(heap, closed), port[p].active)
                 /\ port' = [StalePorts(closed) EXCEPT ![p] = Cleaned(@)]
                 /\ thr' = StaleThreads(closed) /\ ScheduleDeviceWork
      /\ ~does => UNCHANGED <<handle_list, heap, mDevintfList, port, thr, ui>>
  BY Zenon DEF HandleDeviceRemoved
<1>3. UNCHANGED <<bus, m_bWork, clicks, outcome, crashed>>
  BY DEF HandleDeviceRemoved
<1> HIDE DEF closed, does, p
<1>4. CASE ~does
  <2>1. Grown
    BY <1>2, <1>4, GrownSame
  <2>2. Side'
    BY <1>1, <1>2, <1>3, <1>4, Parts DEF Side
  <2>3. Moved
    BY <1>2, <1>4, <2>2, Keep DEF Moved
  <2> QED BY <2>1, <2>3, StepIs
<1>5. CASE does
  <2>1. Grown
    BY <1>2, <1>5, RemoveDeviceIs
  <2>2. handle_list' \in [Slot -> Unit]
    BY <1>2, <1>5, HandlesIs
  <2>3. Side'
    BY <1>1, <1>3, <2>2, Parts DEF Side
  <2>4. UiOK(ui', DOMAIN heap)
    BY <1>2, <1>5, ScheduleIs
  <2>5. port' \in [Port -> PortRec(DOMAIN heap)]
    <3> DEFINE f == StalePorts(closed)
    <3>1. f \in [Port -> PortRec(DOMAIN heap)] /\ port' = [f EXCEPT ![p] = Cleaned(f[p])]
      BY <1>2, <1>5, StalePortsIs
    <3> HIDE DEF f
    <3>2. p \in Port => Cleaned(f[p]) \in PortRec(DOMAIN heap)
      BY <3>1, CleanedIs
    <3> QED BY <3>1, <3>2, PortPut
  <2>6. /\ thr' \in [Thread -> ThreadRec(DOMAIN heap)]
        /\ \A t \in Thread : thr'[t].pc # "none" => thr'[t].port \in Port
    BY <1>2, <1>5, StaleThreadsIs, ThreadIs
  <2>7. Moved
    BY <2>3, <2>4, <2>5, <2>6 DEF Moved
  <2> QED BY <2>1, <2>7, StepIs
<1> QED BY <1>4, <1>5

LEMMA FlashDoneIs == ASSUME PortsInd, FlashDeviceDone PROVE PortsInd'
<1>1. Grown
  BY GrownSame DEF FlashDeviceDone, poolVars
<1>2. UiOK(ui', DOMAIN heap)
  BY ScheduleIs, Keep DEF FlashDeviceDone
<1>3. Side'
  <2>1. msgs' \in Seq(Message)
    BY ReceiveIs DEF FlashDeviceDone
  <2> QED BY <2>1, Parts DEF FlashDeviceDone, poolVars, Side
<1>4. Moved
  BY <1>2, <1>3, Keep DEF FlashDeviceDone, Moved
<1> QED BY <1>1, <1>4, StepIs

LEMMA SetWorkIs == ASSUME PortsInd, SetWork PROVE PortsInd'
<1>1. Grown
  <2>1. AddDevice(Found, "fastboot") \/ AddDevice(InMode("diag"), "diag")
    BY DEF SetWork
  <2> QED BY <2>1, AddIs DEF Found, InMode
<1>2. UiOK(ui', DOMAIN heap)
  <2>1. ScheduleDeviceWork \/ ui' = Idle
    BY DEF SetWork
  <2> QED BY <2>1, ScheduleIs, IdleIs
<1>3. Side'
  <2>1. handle_list' \in [Slot -> Unit]
    BY HandlesIs DEF SetWork
  <2> QED BY <2>1, Parts DEF SetWork, Side
<1>4. Moved
  BY <1>2, <1>3, Keep DEF SetWork, Moved
<1> QED BY <1>1, <1>4, StepIs

LEMMA ResetIs ==
    ASSUME PortsInd, Reset
    PROVE  Grown /\ port' \in [Port -> PortRec(DOMAIN heap)]
<1>1. Grown
  BY ResetPoolIs DEF Reset
<1>2. ASSUME NEW p \in Port PROVE ResetPort(port[p]) \in PortRec(DOMAIN heap)
  <2> DEFINE w == port[p]
  <2>1. w \in PortRec(DOMAIN heap) /\ Cleaned(w) \in PortRec(DOMAIN heap)
    BY PortIs, CleanedIs
  <2> HIDE DEF w
  <2>2. [w EXCEPT !.stat = "WAITING_CLOSE"] \in PortRec(DOMAIN heap)
    BY <2>1 DEF PortRec
  <2>3. ResetPort(w) \in {w, Cleaned(w), [w EXCEPT !.stat = "WAITING_CLOSE"]}
    BY DEF ResetPort
  <2>4. ResetPort(w) \in PortRec(DOMAIN heap)
    BY <2>1, <2>2, <2>3
  <2> QED BY <2>4 DEF w
<1>3. port' \in [Port -> PortRec(DOMAIN heap)]
  BY <1>2 DEF Reset
<1> QED BY <1>1, <1>3

LEMMA OnStartIs == ASSUME PortsInd, OnStart PROVE PortsInd'
<1>1. Reset
  BY DEF OnStart
<1>2. UiOK(ui', DOMAIN heap)
  <2>1. ui \in UiRec(DOMAIN heap) /\ ui' = [ui EXCEPT !.pc = "start"]
    BY Parts DEF UiOK, OnStart
  <2>2. ui' \in UiRec(DOMAIN heap) /\ ui'.pc = "start"
    BY <2>1 DEF UiRec, UISteps
  <2> QED BY <2>2 DEF UiOK, AtPorts
<1>3. clicks' \in 0..MaxClicks
  BY Parts, PortsAssumption DEF Side, OnStart
<1>4. Side'
  BY <1>3, Parts DEF Side, OnStart
<1>5. Moved
  BY <1>1, <1>2, <1>4, ResetIs, Keep DEF OnStart, Moved
<1> QED BY <1>1, <1>5, ResetIs, StepIs

LEMMA OnStopIs == ASSUME PortsInd, OnStop PROVE PortsInd'
<1>1. Reset
  BY DEF OnStop
<1>2. UiOK(ui', DOMAIN heap)
  BY Keep DEF OnStop
<1>3. clicks' \in 0..MaxClicks
  BY Parts, PortsAssumption DEF Side, OnStop
<1>4. Side'
  BY <1>3, Parts DEF Side, OnStop
<1>5. Moved
  BY <1>1, <1>2, <1>4, ResetIs, Keep DEF OnStop, Moved
<1> QED BY <1>1, <1>5, ResetIs, StepIs

-----------------------------------------------------------------------------
(* The worker threads. *)

LEMMA ReportIs ==
    ASSUME PortsInd, NEW u, NEW how \in {"waiting", "flashed", "failed"}, Report(u, how)
    PROVE  outcome' \in Outcomes
<1>1. outcome \in Outcomes
  BY Parts DEF Side
<1> QED BY <1>1 DEF Report, Outcomes

LEMMA BeginIs == ASSUME PortsInd, NEW t \in Thread, Begin(t) PROVE PortsInd'
<1> DEFINE a == MyPort(t).active
           c == IF heap[a].status = "PLUGIN" THEN "diag" ELSE "check"
           r == [thr[t] EXCEPT !.dev = a, !.pc = c]
<1>1. Grown
  BY GrownSame DEF Begin, poolVars
<1>2. thr[t].port \in Port
  BY ThreadIs DEF Begin
<1>3. a \in {0} \cup DOMAIN heap
  BY <1>2, PortIs DEF MyPort
<1>4. c \in Steps
  BY DEF Steps
<1>5. thr' = [thr EXCEPT ![t] = r]
  <2>1. thr' = [thr EXCEPT ![t].dev = a, ![t].pc = c]
    BY DEF Begin
  <2>2. thr \in [Thread -> ThreadRec(DOMAIN heap)]
    BY Parts DEF Threads
  <2> HIDE DEF a, c
  <2> QED BY <2>1, <2>2
<1> HIDE DEF a, c
<1>6. r \in ThreadRec(DOMAIN heap) /\ r.port = thr[t].port
  BY <1>3, <1>4, ThreadIs DEF ThreadRec
<1> HIDE DEF r
<1>7. /\ thr' \in [Thread -> ThreadRec(DOMAIN heap)]
      /\ \A u \in Thread : thr'[u].pc # "none" => thr'[u].port \in Port
  BY <1>2, <1>5, <1>6, Parts, ThreadPut DEF Threads
<1>8. Moved
  BY <1>7, Keep DEF Begin, poolVars, Moved
<1> QED BY <1>1, <1>8, StepIs

LEMMA DiagDownloadIs == ASSUME PortsInd, NEW t \in Thread, DiagDownload(t) PROVE PortsInd'
<1>1. Grown
  BY GrownSame DEF DiagDownload
<1>2. bus' \in [Slot -> BusRec]
  <2> DEFINE s == heap[thr[t].dev].slot
  <2>1. bus' = [bus EXCEPT ![s].mode = "reset"] \/ bus' = bus
    BY DEF DiagDownload
  <2> HIDE DEF s
  <2>2. bus \in [Slot -> BusRec]
    BY Parts DEF Side
  <2>3. \A q \in Slot : [bus[q] EXCEPT !.mode = "reset"] \in BusRec
    BY <2>2 DEF BusRec
  <2> QED BY <2>1, <2>2, <2>3
<1>3. Side'
  BY <1>2, Parts DEF DiagDownload, Side
<1>4. /\ thr' \in [Thread -> ThreadRec(DOMAIN heap)]
      /\ \A u \in Thread : thr'[u].pc # "none" => thr'[u].port \in Port
  BY GotoIs DEF DiagDownload, Steps
<1>5. Moved
  BY <1>3, <1>4, Keep DEF DiagDownload, Moved
<1> QED BY <1>1, <1>5, StepIs

LEMMA DiagFailsIs == ASSUME PortsInd, NEW t \in Thread, DiagFails(t) PROVE PortsInd'
<1>1. Grown
  BY GrownSame DEF DiagFails, poolVars
<1>2. outcome' \in Outcomes
  <2>1. UNCHANGED outcome \/ Report(UnitOf(t), "failed")
    BY DEF DiagFails
  <2> QED BY <2>1, ReportIs, Parts DEF Side
<1>3. Side'
  BY <1>2, Parts DEF DiagFails, poolVars, Side
<1>4. /\ thr' \in [Thread -> ThreadRec(DOMAIN heap)]
      /\ \A u \in Thread : thr'[u].pc # "none" => thr'[u].port \in Port
  BY GotoIs DEF DiagFails, Steps
<1>5. Moved
  BY <1>3, <1>4, Keep DEF DiagFails, Moved
<1> QED BY <1>1, <1>5, StepIs

LEMMA EnterFlashIs == ASSUME PortsInd, NEW t \in Thread, EnterFlash(t) PROVE PortsInd'
<1>1. Grown
  BY StatusIs DEF EnterFlash
<1>2. /\ thr' \in [Thread -> ThreadRec(DOMAIN heap)]
      /\ \A u \in Thread : thr'[u].pc # "none" => thr'[u].port \in Port
  BY GotoIs DEF EnterFlash, Steps
<1>3. Moved
  BY <1>2, Keep DEF EnterFlash, Moved
<1> QED BY <1>1, <1>3, StepIs

LEMMA BeginSwitchIs == ASSUME PortsInd, NEW t \in Thread, BeginSwitch(t) PROVE PortsInd'
<1> DEFINE s == UsbSlot(MyPort(t))
           f == StalePorts(s)
           h == StaleThreads(s)
           p == thr[t].port
           w == [f[p] EXCEPT !.usb = "null", !.stat = "SWITCH"]
           r == [h[t] EXCEPT !.pc = "detach"]
<1>1. usb_close(s) /\ heap' = StaleIn(heap, s) /\ mDevintfList' = mDevintfList
  BY DEF BeginSwitch
<1>2. f \in [Port -> PortRec(DOMAIN heap)] /\ port' = [f EXCEPT ![p] = w]
  BY StalePortsIs DEF BeginSwitch
<1>3. /\ h \in [Thread -> ThreadRec(DOMAIN heap)] /\ thr' = [h EXCEPT ![t] = r]
      /\ \A u \in Thread : h[u].pc # "none" => h[u].port \in Port
      /\ h[t].port \in Port
  BY StaleThreadsIs, ThreadIs DEF BeginSwitch
<1> HIDE DEF s, f, h
<1>4. Grown
  BY <1>1, StaleHeapIs
<1>5. p \in Port => w \in PortRec(DOMAIN heap)
  <2>1. p \in Port => f[p] \in PortRec(DOMAIN heap)
    BY <1>2
  <2> QED BY <2>1 DEF PortRec, Pointer
<1>6. r \in ThreadRec(DOMAIN heap) /\ r.port = h[t].port
  <2>1. h[t] \in ThreadRec(DOMAIN heap)
    BY <1>3
  <2> QED BY <2>1 DEF ThreadRec, Steps
<1> HIDE DEF w, r
<1>7. port' \in [Port -> PortRec(DOMAIN heap)]
  BY <1>2, <1>5, PortPut
<1>8. /\ thr' \in [Thread -> ThreadRec(DOMAIN heap)]
      /\ \A u \in Thread : thr'[u].pc # "none" => thr'[u].port \in Port
  BY <1>3, <1>6, ThreadPut
<1>9. Side'
  <2>1. handle_list' \in [Slot -> Unit]
    BY <1>1, HandlesIs
  <2> QED BY <2>1, Parts DEF BeginSwitch, Side
<1>10. Moved
  BY <1>7, <1>8, <1>9, Keep DEF BeginSwitch, Moved
<1> QED BY <1>4, <1>10, StepIs

LEMMA DetachIs == ASSUME PortsInd, NEW t \in Thread, Detach(t) PROVE PortsInd'
<1>1. Grown
  BY AttIs DEF Detach
<1>2. /\ thr' \in [Thread -> ThreadRec(DOMAIN heap)]
      /\ \A u \in Thread : thr'[u].pc # "none" => thr'[u].port \in Port
  BY GotoIs DEF Detach, Steps
<1>3. Moved
  BY <1>2, Keep DEF Detach, Moved
<1> QED BY <1>1, <1>3, StepIs

LEMMA WaitIs == ASSUME PortsInd, NEW t \in Thread, Signalled(t) \/ Timeout(t) PROVE PortsInd'
<1>1. Grown
  BY GrownSame DEF Signalled, Timeout, poolVars
<1>2. /\ thr' \in [Thread -> ThreadRec(DOMAIN heap)]
      /\ \A u \in Thread : thr'[u].pc # "none" => thr'[u].port \in Port
  BY GotoIs DEF Signalled, Timeout, Steps
<1>3. Moved
  BY <1>2, Keep DEF Signalled, Timeout, poolVars, Moved
<1> QED BY <1>1, <1>3, StepIs

LEMMA CheckHandleIs == ASSUME PortsInd, NEW t \in Thread, CheckHandle(t) PROVE PortsInd'
<1> DEFINE x == MyPort(t).usb
           c == CASE x = "null" -> "finish"
                  [] x # "null" /\ heap[thr[t].dev].status = "FLASH" -> "flash"
                  [] OTHER -> "none"
           r == [thr[t] EXCEPT !.usb = x, !.pc = c]
<1>1. Grown
  BY GrownSame DEF CheckHandle, poolVars
<1>2. thr[t].port \in Port
  BY ThreadIs DEF CheckHandle
<1>3. x \in Pointer
  BY <1>2, PortIs DEF MyPort
<1>4. c \in {"finish", "flash", "none"}
  BY DEF Steps
<1>5. thr' = [thr EXCEPT ![t] = r]
  <2>1. thr' = [thr EXCEPT ![t].usb = x, ![t].pc = c]
    BY DEF CheckHandle
  <2>2. thr \in [Thread -> ThreadRec(DOMAIN heap)]
    BY Parts DEF Threads
  <2> HIDE DEF x, c
  <2> QED BY <2>1, <2>2
<1> HIDE DEF x, c
<1>6. r \in ThreadRec(DOMAIN heap) /\ r.port = thr[t].port
  BY <1>3, <1>4, ThreadIs DEF ThreadRec, Steps
<1> HIDE DEF r
<1>7. /\ thr' \in [Thread -> ThreadRec(DOMAIN heap)]
      /\ \A u \in Thread : thr'[u].pc # "none" => thr'[u].port \in Port
  BY <1>2, <1>5, <1>6, Parts, ThreadPut DEF Threads
<1>8. outcome' \in Outcomes
  <2>1. UNCHANGED outcome \/ Report(UnitOf(t), "failed")
    BY DEF CheckHandle
  <2> QED BY <2>1, ReportIs, Parts DEF Side
<1>9. Side'
  BY <1>8, Parts DEF CheckHandle, poolVars, Side
<1>10. Moved
  BY <1>7, <1>9, Keep DEF CheckHandle, Moved
<1> QED BY <1>1, <1>10, StepIs

LEMMA FlashImagesIs == ASSUME PortsInd, NEW t \in Thread, FlashImages(t) PROVE PortsInd'
<1> DEFINE r == [thr[t] EXCEPT !.pc = "finish", !.ok = TRUE]
<1>1. Grown
  BY GrownSame DEF FlashImages, poolVars
<1>2. thr[t].port \in Port
  BY ThreadIs DEF FlashImages
<1>3. thr' = [thr EXCEPT ![t] = r]
  <2>1. thr' = [thr EXCEPT ![t].pc = "finish", ![t].ok = TRUE]
    BY DEF FlashImages
  <2>2. thr \in [Thread -> ThreadRec(DOMAIN heap)]
    BY Parts DEF Threads
  <2> QED BY <2>1, <2>2
<1>4. r \in ThreadRec(DOMAIN heap) /\ r.port = thr[t].port
  BY ThreadIs DEF ThreadRec, Steps
<1> HIDE DEF r
<1>5. /\ thr' \in [Thread -> ThreadRec(DOMAIN heap)]
      /\ \A u \in Thread : thr'[u].pc # "none" => thr'[u].port \in Port
  BY <1>2, <1>3, <1>4, Parts, ThreadPut DEF Threads
<1>6. outcome' \in Outcomes
  <2> DEFINE u == bus[heap[thr[t].dev].slot].unit
  <2>1. UNCHANGED outcome \/ Report(u, "flashed") \/ Report(u, "failed")
    BY DEF FlashImages
  <2> HIDE DEF u
  <2> QED BY <2>1, ReportIs, Parts DEF Side
<1>7. Side'
  BY <1>6, Parts DEF FlashImages, poolVars, Side
<1>8. Moved
  BY <1>5, <1>7, Keep DEF FlashImages, Moved
<1> QED BY <1>1, <1>8, StepIs

LEMMA FinishIs == ASSUME PortsInd, NEW t \in Thread, Finish(t) PROVE PortsInd'
<1> DEFINE p == thr[t].port
           a == port[p].active
           m == IF port[p].map = 0 /\ a # 0 /\ heap[a].diag /\ heap[a].fb THEN SlotOf(a)
                ELSE port[p].map
           w == [port[p] EXCEPT !.stat = "FINISH", !.map = m]
<1>1. Grown
  BY GrownSame DEF Finish, poolVars
<1>2. p \in Port
  BY ThreadIs DEF Finish
<1>3. port' = [port EXCEPT ![p] = w]
  BY DEF Finish, MyPort
<1>4. m \in {0} \cup Slot
  BY <1>2, PortIs, SlotOfIs
<1> HIDE DEF m
<1>5. w \in PortRec(DOMAIN heap)
  BY <1>2, <1>4, PortIs DEF PortRec
<1> HIDE DEF w
<1>6. port' \in [Port -> PortRec(DOMAIN heap)]
  BY <1>3, <1>5, Parts, PortPut DEF Ports
<1>7. /\ thr' \in [Thread -> ThreadRec(DOMAIN heap)]
      /\ \A u \in Thread : thr'[u].pc # "none" => thr'[u].port \in Port
  BY GotoIs DEF Finish, Steps
<1>8. Moved
  BY <1>6, <1>7, Keep DEF Finish, poolVars, Moved
<1> QED BY <1>1, <1>8, StepIs

LEMMA NoThreadIs == ASSUME NEW D PROVE NoThread \in ThreadRec(D) /\ NoThread.pc = "none"
BY DEF NoThread, ThreadRec, Steps, Pointer

LEMMA MsgIs ==
    ASSUME NEW k \in {"com", "fastboot", "removed", "done"}, NEW s \in {0} \cup Slot
    PROVE  Msg(k, s) \in Message
BY DEF Msg, Message

LEMMA CloseAndCleanIs == ASSUME PortsInd, NEW t \in Thread, CloseAndClean(t) PROVE PortsInd'
<1> DEFINE s == UsbSlot(MyPort(t))
           f == StalePorts(s)
           h == StaleThreads(s)
           p == thr[t].port
           r == IF thr[t].ok THEN [thr[t] EXCEPT !.pc = "mark"] ELSE NoThread
<1>1. usb_close(s) /\ heap' = StaleIn(heap, s) /\ mDevintfList' = mDevintfList
  BY DEF CloseAndClean
<1>2. f \in [Port -> PortRec(DOMAIN heap)] /\ port' = [f EXCEPT ![p] = Cleaned(f[p])]
  BY StalePortsIs DEF CloseAndClean
<1>3. /\ h \in [Thread -> ThreadRec(DOMAIN heap)] /\ thr' = [h EXCEPT ![t] = r]
      /\ \A u \in Thread : h[u].pc # "none" => h[u].port \in Port
  BY StaleThreadsIs, ThreadIs DEF CloseAndClean
<1> HIDE DEF s, f, h
<1>4. Grown
  BY <1>1, StaleHeapIs
<1>5. r \in ThreadRec(DOMAIN heap) /\ (r.pc # "none" => r.port \in Port)
  <2> DEFINE q == [thr[t] EXCEPT !.pc = "mark"]
  <2>1. q \in ThreadRec(DOMAIN heap) /\ q.port = thr[t].port
    BY ThreadIs DEF ThreadRec, Steps
  <2>2. thr[t].port \in Port
    BY ThreadIs DEF CloseAndClean
  <2>3. r = q \/ r = NoThread
    OBVIOUS
  <2> HIDE DEF q, r
  <2> QED BY <2>1, <2>2, <2>3, NoThreadIs
<1> HIDE DEF r
<1>6. port' \in [Port -> PortRec(DOMAIN heap)]
  BY <1>2, CleanedIs, PortPut
<1>7. /\ thr' \in [Thread -> ThreadRec(DOMAIN heap)]
      /\ \A u \in Thread : thr'[u].pc # "none" => thr'[u].port \in Port
  BY <1>3, <1>5, ThreadPut
<1>8. Side'
  <2>1. handle_list' \in [Slot -> Unit]
    BY <1>1, HandlesIs
  <2>2. msgs' \in Seq(Message)
    BY MsgIs, PostIs DEF CloseAndClean
  <2> QED BY <2>1, <2>2, Parts DEF CloseAndClean, Side
<1>9. Moved
  BY <1>6, <1>7, <1>8, Keep DEF CloseAndClean, Moved
<1> QED BY <1>4, <1>9, StepIs

LEMMA MarkRemovedIs == ASSUME PortsInd, NEW t \in Thread, MarkRemoved(t) PROVE PortsInd'
<1>1. Grown
  BY StatusIs DEF MarkRemoved
<1>2. /\ thr' \in [Thread -> ThreadRec(DOMAIN heap)]
      /\ \A u \in Thread : thr'[u].pc # "none" => thr'[u].port \in Port
  BY Parts, NoThreadIs, ThreadPut DEF MarkRemoved, Threads
<1>3. Moved
  BY <1>2, Keep DEF MarkRemoved, Moved
<1> QED BY <1>1, <1>3, StepIs

LEMMA CrashIs == ASSUME PortsInd, NEW t \in Thread, Crash(t) PROVE PortsInd'
<1>1. Grown
  BY GrownSame DEF Crash, poolVars
<1>2. Side'
  BY Parts DEF Crash, poolVars, Side
<1>3. Moved
  BY <1>2, Keep DEF Crash, Moved
<1> QED BY <1>1, <1>3, StepIs

-----------------------------------------------------------------------------
(* Modems and the operator. *)

LEMMA BusPut ==
    ASSUME PortsInd, NEW s, NEW r \in BusRec
    PROVE  [bus EXCEPT ![s] = r] \in [Slot -> BusRec]
BY Parts DEF Side

LEMMA PlugInIs == ASSUME PortsInd, NEW s \in Slot, NEW m \in PlugModes, PlugIn(s, m) PROVE PortsInd'
<1> DEFINE u == Min(Spare)
           r == [mode |-> m, unit |-> u]
<1>1. Grown
  BY GrownSame DEF PlugIn
<1>2. u \in 1..MaxUnits
  <2>1. Spare \subseteq 1..MaxUnits /\ Spare \subseteq Nat /\ Spare # {}
    BY PoolAssumption DEF Spare, PlugIn
  <2> QED BY <2>1, MinIn
<1>3. bus' = [bus EXCEPT ![s] = r] /\ Report(u, "waiting") /\ msgs' = Append(msgs, Msg(Arrived(m), 0))
  BY DEF PlugIn
<1> HIDE DEF u
<1>4. r \in BusRec
  <2>1. u \in Unit
    BY <1>2, PoolAssumption DEF Unit
  <2>2. m \in {"diag", "fastboot"}
    BY PortsAssumption
  <2> QED BY <2>1, <2>2 DEF BusRec
<1> HIDE DEF r
<1>5. bus' \in [Slot -> BusRec]
  BY <1>3, <1>4, BusPut
<1>6. outcome' \in Outcomes
  BY <1>3, ReportIs
<1>7. msgs' \in Seq(Message)
  <2>1. Arrived(m) \in {"com", "fastboot", "removed", "done"}
    BY DEF Arrived
  <2> QED BY <1>3, <2>1, MsgIs, PostIs
<1>8. Side'
  BY <1>5, <1>6, <1>7, Parts DEF PlugIn, Side
<1>9. Moved
  BY <1>8, Keep DEF PlugIn, Moved
<1> QED BY <1>1, <1>9, StepIs

LEMMA RebootedIs == ASSUME PortsInd, NEW s \in Slot, Rebooted(s) PROVE PortsInd'
<1>1. Grown
  BY GrownSame DEF Rebooted
<1>2. bus' \in [Slot -> BusRec]
  <2> DEFINE r == [bus[s] EXCEPT !.mode = "fastboot"]
  <2>1. bus' = [bus EXCEPT ![s] = r] /\ bus[s] \in BusRec
    BY Parts DEF Rebooted, Side
  <2>2. r \in BusRec
    BY <2>1 DEF BusRec
  <2> HIDE DEF r
  <2> QED BY <2>1, <2>2, BusPut
<1>3. msgs' \in Seq(Message)
  BY MsgIs, PostIs DEF Rebooted
<1>4. Side'
  BY <1>2, <1>3, Parts DEF Rebooted, Side
<1>5. Moved
  BY <1>4, Keep DEF Rebooted, Moved
<1> QED BY <1>1, <1>5, StepIs

LEMMA UnplugIs == ASSUME PortsInd, NEW s \in Slot, Unplug(s) PROVE PortsInd'
<1>1. Grown
  BY GrownSame DEF Unplug
<1>2. bus' \in [Slot -> BusRec]
  <2>1. [mode |-> "empty", unit |-> 0] \in BusRec
    BY PoolAssumption DEF BusRec, Unit
  <2> QED BY <2>1, BusPut DEF Unplug
<1>3. msgs' \in Seq(Message)
  <2>1. msgs' = Append(msgs, Msg("removed", s)) \/ msgs' = msgs
    BY DEF Unplug
  <2> QED BY <2>1, MsgIs, PostIs, Parts DEF Side
<1>4. Side'
  BY <1>2, <1>3, Parts DEF Unplug, Side
<1>5. Moved
  BY <1>4, Keep DEF Unplug, Moved
<1> QED BY <1>1, <1>5, StepIs

-----------------------------------------------------------------------------
(* The theorems. *)

LEMMA InitIs == Init => PortsInd
<1> SUFFICES ASSUME Init PROVE PortsInd
  OBVIOUS
<1>1. Side
  <2>1. [mode |-> "empty", unit |-> 0] \in BusRec /\ 0 \in Unit
    BY PoolAssumption DEF BusRec, Unit
  <2>2. bus \in [Slot -> BusRec] /\ handle_list \in [Slot -> Unit]
    BY <2>1 DEF Init, PoolInit
  <2>3. msgs \in Seq(Message) /\ outcome \in Outcomes /\ clicks \in 0..MaxClicks
    BY PortsAssumption DEF Init, Outcomes
  <2> QED BY <2>2, <2>3 DEF Init, Side
<1>2. UiOK(ui, DOMAIN heap)
  BY PortsAssumption DEF Init, Idle, UiOK, UiRec, UISteps, AtPorts
<1>3. Ports(DOMAIN heap)
  BY DEF Init, Ports, PortRec, Pointer
<1>4. Threads(DOMAIN heap)
  BY NoThreadIs DEF Init, Threads
<1>5. heap \in Seq(Object) /\ mDevintfList \in Seq(DOMAIN heap)
  BY DEF Init, PoolInit
<1>6. OneObject
  BY DEF Init, PoolInit, OneObject, Listed, Range
<1> QED BY <1>1, <1>2, <1>3, <1>4, <1>5, <1>6, Parts

LEMMA NextIs == PortsInd /\ [Next]_vars => PortsInd'
<1> SUFFICES ASSUME PortsInd, [Next]_vars PROVE PortsInd'
  OBVIOUS
<1>1. CASE UNCHANGED vars
  <2>1. Grown
    BY <1>1, GrownSame DEF vars, poolVars
  <2>2. Moved
    BY <1>1, Keep DEF vars, poolVars, schedVars, Moved
  <2> QED BY <2>1, <2>2, StepIs
<1>2. CASE Schedule
  BY <1>2, SchedulePortIs, PickDeviceIs, LookAtPortIs, SetDevSwitchEvtIs, TestActiveIs,
     SetDeviceIs, UpdateUsbHandleIs, SetAttachStatusIs, SetStatusIs, SetEventIs, AfxBeginThreadIs,
     StartFailsIs, StartIs, ScheduleCrashIs
     DEF Schedule
<1>3. CASE Messages
  BY <1>3, HandleComDeviceIs, EnumerateIs, DeviceRemovedIs, FlashDoneIs, SetWorkIs DEF Messages
<1>4. CASE OnStart \/ OnStop
  BY <1>4, OnStartIs, OnStopIs
<1>5. ASSUME NEW t \in Thread, Worker(t) PROVE PortsInd'
  BY <1>5, BeginIs, DiagDownloadIs, DiagFailsIs, EnterFlashIs, BeginSwitchIs, DetachIs, WaitIs,
     CheckHandleIs, FlashImagesIs, FinishIs, CloseAndCleanIs, MarkRemovedIs DEF Worker
<1>6. ASSUME NEW t \in Thread, Crash(t) PROVE PortsInd'
  BY <1>6, CrashIs
<1>7. ASSUME NEW s \in Slot, Rebooted(s) \/ Unplug(s) \/ \E m \in PlugModes : PlugIn(s, m)
      PROVE  PortsInd'
  BY <1>7, RebootedIs, UnplugIs, PlugInIs
<1> QED BY <1>1, <1>2, <1>3, <1>4, <1>5, <1>6, <1>7 DEF Next, Step, Running

\* The types and the single object of a slot are kept by every step of the tool, its
\* workers and the modems (mdmfastboot/PST.cpp, src/device.cpp).
THEOREM PortsInductive == Spec => []PortsInd
BY InitIs, NextIs, PTL DEF Spec

\* Every variable of the scheduler keeps its type: a port's and a worker's device is
\* NULL or an object that was allocated, whatever was freed since.
THEOREM PortsTypeCorrect == Spec => []PortsTypeOK
<1>1. PortsInd /\ raced \in BOOLEAN => PortsTypeOK
  BY TypesAre DEF PortsInd
<1>2. Init => raced \in BOOLEAN
  BY DEF Init
<1>3. raced \in BOOLEAN /\ [Next]_vars => (raced \in BOOLEAN)'
  BY DEF vars, Next, Step, Race, FinishRace, CleanRace
<1>4. Spec => [](raced \in BOOLEAN)
  BY <1>2, <1>3, PTL DEF Spec
<1> QED BY <1>1, <1>4, PortsInductive, PTL

\* AddDevice never lists two objects for one slot: whatever is plugged in, restarted,
\* pulled out and removed while the ports work, and however often the tool is stopped,
\* the serial port and the bootloader of a modem meet in one object.
THEOREM OneObjectAlways == Spec => []OneObject
<1>1. PortsInd => OneObject
  BY DEF PortsInd
<1> QED BY <1>1, PortsInductive, PTL

-----------------------------------------------------------------------------
(* One Start, no modem pulled out. *)

\* The tool is started once and not stopped, modems stay plugged in, a modem found in its
\* bootloader is flashed.
Calm == MaxClicks <= 1 /\ Unplugging = "never" /\ FlashDirect = TRUE

Works(t) == thr[t].pc \notin {"none", "mark"}
Early == {"begin", "diag", "setflash", "close", "detach"}

\* A device that may be given to a port; one that no port had yet.
Valid(d) == heap[d].att = FALSE /\ heap[d].status \in Waiting
Fresh(d) == heap[d].att = FALSE /\ heap[d].status = "PLUGIN"

\* Nothing is there before Start, and no modem leaves.
Begun ==
    /\ \A k \in DOMAIN msgs : msgs[k].kind # "removed"
    /\ clicks = 0 => /\ m_bWork = FALSE /\ ui.pc = "idle" /\ heap = <<>>
                     /\ \A p \in Port : port[p].stat = "IDLE"
                     /\ \A t \in Thread : thr[t].pc = "none"

\* Every object is listed, in the order of the arrivals.
InOrder == Len(mDevintfList) = Len(heap) /\ \A k \in DOMAIN mDevintfList : mDevintfList[k] = k

\* What an object says of its modem.
DeviceOK(d) ==
    /\ heap[d].status # "UNKNOW"
    /\ heap[d].fb = TRUE => heap[d].status # "PLUGIN"
    /\ heap[d].fb = FALSE => heap[d].fbh = "null"
    /\ heap[d].fbh = "dead" => heap[d].att = TRUE
    /\ heap[d].diag = FALSE => bus[heap[d].slot].mode = "fastboot"
    /\ Fresh(d) => bus[heap[d].slot].mode = "diag"

\* Modems in download mode get a port in the order of the list.
FreshLast ==
    \A j, k \in DOMAIN heap : j < k /\ heap[k].diag = TRUE /\ ~Fresh(k) => ~Fresh(j)

\* The UI thread is at port p: between its look at it and the attachment of its device, in
\* SetDevice, before SetStatus, before AfxBeginThread.
Taking(p) == ui.i = p /\ ui.pc \in {"signal", "test", "usb", "attach"}
Given(p) == ui.i = p /\ ui.dev # 0 /\ ui.pc \in {"usb", "attach", "status"}
Assigned(p) == ui.i = p /\ ui.pc = "status"
Starting(p) == ui.i = p /\ ui.pc = "begin"

\* What a port says of its device.
PortOK(p) ==
    /\ port[p].stat # "WAITING_CLOSE" /\ port[p].usb # "dead"
    /\ port[p].stat = "IDLE" => /\ port[p].evt = FALSE
                                /\ Given(p) \/ (port[p].active = 0 /\ port[p].usb = "null")
    /\ port[p].stat # "IDLE" => port[p].active \in DOMAIN heap
    /\ port[p].stat = "SWITCH" => port[p].usb = "null" /\ heap[port[p].active].status # "PLUGIN"
    /\ port[p].usb = "live" => heap[port[p].active].fbh = "live" /\ heap[port[p].active].status = "FLASH"
    /\ port[p].map # 0 => \E d \in DOMAIN heap : /\ heap[d].slot = port[p].map
                                                 /\ heap[d].diag = TRUE /\ heap[d].fb = TRUE

\* How far the worker of a port may be, from the port's state.
Stage(c, w, r) ==
    /\ c \in {"begin", "diag", "setflash", "close", "flash"} => w.stat = "WORKING"
    /\ c = "detach" => w.stat = "SWITCH"
    /\ c \in {"wait", "check", "finish"} => w.stat \in {"WORKING", "SWITCH"}
    /\ c = "clean" => w.stat \in {"FINISH", "WORKING"}
    /\ c \in Early => w.evt = FALSE
    /\ c = "flash" => w.usb = "live" /\ r.usb = "live"
    /\ c \notin {"none", "begin", "mark"} => r.dev = w.active
    /\ c \in {"finish", "clean"} /\ r.ok = TRUE => w.usb = "live"
    /\ c \notin {"finish", "clean", "mark"} => r.ok = FALSE

ThreadOK(t) ==
    /\ Works(t) => Stage(thr[t].pc, port[thr[t].port], thr[t])
    /\ thr[t].pc \in {"diag", "setflash", "close", "detach"} => heap[thr[t].dev].fb = FALSE
    /\ thr[t].pc \in {"close", "detach"} => heap[thr[t].dev].status # "PLUGIN"
    /\ thr[t].pc = "mark" => thr[t].dev \in DOMAIN heap /\ heap[thr[t].dev].fbh = "dead"

\* A worker for each busy port, or about to be started, and one only.
OneWorker ==
    /\ \A t, u \in Thread : Works(t) /\ Works(u) /\ thr[t].port = thr[u].port => t = u
    /\ \A p \in Port : port[p].stat # "IDLE" =>
          Starting(p) \/ \E t \in Thread : Works(t) /\ thr[t].port = p

\* A port that works on its device, has its handle, or is about to let it go, unless the UI
\* thread is about to attach the device.
Holds(p) ==
    /\ ~Taking(p)
    /\ \/ port[p].stat = "WORKING" \/ port[p].usb = "live" \/ Assigned(p)
       \/ \E t \in Thread : thr[t].port = p /\ thr[t].pc = "detach"

Owned ==
    /\ \A p \in Port : Holds(p) => heap[port[p].active].att = TRUE
    /\ \A p, q \in Port : p # q /\ Holds(p) /\ Holds(q) => port[p].active # port[q].active

\* A port that takes a modem from download mode to its bootloader.
Diagging(p) ==
    \/ port[p].stat = "SWITCH"
    \/ (Assigned(p) \/ Starting(p)) /\ heap[port[p].active].status = "PLUGIN"
    \/ \E t \in Thread : /\ thr[t].port = p
                         /\ \/ thr[t].pc \in {"diag", "setflash", "close"}
                            \/ thr[t].pc = "begin" /\ heap[port[p].active].status = "PLUGIN"

\* No device waits in the slot such a port is mapped to: it had its turn before.
MapServed ==
    \A p \in Port : Diagging(p) /\ port[p].map # 0 =>
        \A d \in DOMAIN heap : heap[d].slot = port[p].map => ~Valid(d)

\* What the UI thread read of its port is still so.
Looked ==
    ui.pc \in {"pick", "look"} =>
        /\ port[ui.i].stat # "WORKING"
        /\ port[ui.i].stat = "SWITCH" => ui.item = ItemOf(port[ui.i])

\* The device it found waits for a port, and those before it came back from their reboot since.
Waits ==
    /\ ui.dev \in DOMAIN heap /\ Valid(ui.dev)
    /\ \A j \in DOMAIN heap : j < ui.dev /\ Valid(j) => heap[j].fb = FALSE /\ heap[j].status # "PLUGIN"
Choosing == ui.pc \in {"look", "set"} \/ (ui.dev # 0 /\ ui.pc \in {"usb", "attach"})
Chosen == Choosing => Waits

\* SetDevSwitchEvt: the port's device waits, and so does its worker.
Ending(p) == ui.i = p /\ ui.dev = 0 /\ ui.pc \in {"signal", "test", "usb", "attach", "event"}
Ends ==
    /\ ui.pc = "signal" => port[ui.i].stat \in {"SWITCH", "FINISH"}
    /\ ui.dev = 0 /\ ui.pc \in {"test", "usb", "attach"} => port[ui.i].stat \in {"WORKING", "FINISH"}
    /\ ui.dev = 0 /\ ui.pc \in {"signal", "test", "usb"} => port[ui.i].usb = "null"
    /\ ui.dev = 0 /\ ui.pc \in {"signal", "test", "usb", "attach"} =>
          heap[port[ui.i].active].status = "FLASH" /\ heap[port[ui.i].active].att = FALSE
    /\ Ending(ui.i) => \E t \in Thread : Works(t) /\ thr[t].port = ui.i /\ thr[t].pc \notin Early

\* SetDevice and Start: the port is nobody's until its worker runs.
Gives ==
    /\ ui.pc = "set" => port[ui.i].stat \in {"IDLE", "FINISH"}
    /\ Given(ui.i) => port[ui.i].active = ui.dev /\ port[ui.i].stat = "IDLE"
    /\ ui.pc = "begin" => /\ port[ui.i].stat = "WORKING" /\ port[ui.i].evt = FALSE
                          /\ \A t \in Thread : Works(t) => thr[t].port # ui.i
    /\ ui.pc = "work" => port[ui.i].stat # "IDLE"
    /\ ui.pc \in {"look", "set", "status"} => ui.dev # 0
    /\ ui.pc \in {"port", "pick", "idle", "start", "signal", "test", "event"} => ui.dev = 0

UIOK == Looked /\ Chosen /\ Ends /\ Gives

CalmInd ==
    /\ Begun /\ InOrder /\ FreshLast /\ OneWorker /\ Owned /\ MapServed /\ UIOK
    /\ \A d \in DOMAIN heap : DeviceOK(d)
    /\ \A p \in Port : PortOK(p)
    /\ \A t \in Thread : ThreadOK(t)
    /\ crashed = FALSE

LEMMA Objects ==
    ASSUME PortsInd, CalmInd
    PROVE  /\ Listed = DOMAIN heap /\ DOMAIN mDevintfList = DOMAIN heap
           /\ DOMAIN heap = 1..Len(heap) /\ Len(heap) \in Nat /\ 0 \notin DOMAIN heap
           /\ \A i, j \in DOMAIN heap : heap[i].slot = heap[j].slot => i = j
<1>1. heap \in Seq(Object) /\ mDevintfList \in Seq(DOMAIN heap) /\ OneObject
  BY Parts
<1>2. DOMAIN heap = 1..Len(heap) /\ Len(heap) \in Nat /\ DOMAIN mDevintfList = 1..Len(mDevintfList)
  BY <1>1
<1>3. DOMAIN mDevintfList = DOMAIN heap /\ \A k \in DOMAIN mDevintfList : mDevintfList[k] = k
  BY <1>2 DEF CalmInd, InOrder
<1>4. Listed = DOMAIN heap
  BY <1>3 DEF Listed, Range
<1>5. 0 \notin DOMAIN heap
  BY <1>2
<1>6. \A i, j \in DOMAIN heap : heap[i].slot = heap[j].slot => i = j
  BY <1>1, <1>4, Zenon DEF OneObject
<1> QED BY <1>2, <1>3, <1>4, <1>5, <1>6

LEMMA ObjectIs ==
    ASSUME PortsInd, NEW d \in DOMAIN heap
    PROVE  /\ heap[d] \in Object /\ heap[d].slot \in Slot /\ heap[d].diag \in BOOLEAN
           /\ heap[d].fb \in BOOLEAN /\ heap[d].att \in BOOLEAN /\ heap[d].fbh \in Pointer
           /\ heap[d].status \in {"UNKNOW", "PLUGIN", "FLASH", "REMOVED"}
<1>1. heap[d] \in Object
  BY UsbHandleIs
<1> QED BY <1>1 DEF Object

\* GetValidDevice is the first device of the list that is valid.
LEMMA ValidFirst ==
    ASSUME PortsInd, CalmInd, GetValidDevice # 0
    PROVE  /\ GetValidDevice \in DOMAIN heap /\ Valid(GetValidDevice)
           /\ \A j \in DOMAIN heap : Valid(j) => GetValidDevice <= j
<1> DEFINE hits == {k \in DOMAIN mDevintfList : /\ ~heap[mDevintfList[k]].att
                                                /\ heap[mDevintfList[k]].status \in Waiting}
<1>1. GetValidDevice = IF hits = {} THEN 0 ELSE mDevintfList[Min(hits)]
  BY DEF GetValidDevice
<1>2. DOMAIN mDevintfList = DOMAIN heap /\ DOMAIN heap \subseteq Nat
  BY Objects
<1>3. \A k \in DOMAIN heap : mDevintfList[k] = k
  BY <1>2 DEF CalmInd, InOrder
<1>4. hits # {} /\ hits \subseteq Nat /\ hits \subseteq DOMAIN heap
  BY <1>1, <1>2
<1>5. \A j \in DOMAIN heap : Valid(j) => j \in hits
  BY <1>2, <1>3 DEF Valid
<1> HIDE DEF hits
<1>6. Min(hits) \in hits /\ \A y \in hits : Min(hits) <= y
  BY <1>4, MinIn
<1>7. GetValidDevice = Min(hits)
  BY <1>1, <1>3, <1>4, <1>6
<1>8. Valid(GetValidDevice) /\ GetValidDevice \in DOMAIN heap
  BY ValidIs DEF Valid, PortsInd
<1> QED BY <1>5, <1>6, <1>7, <1>8

\* The port the UI thread is at, and the record of where it is.
LEMMA UIIs ==
    ASSUME PortsInd
    PROVE  /\ ui \in UiRec(DOMAIN heap) /\ ui.pc \in UISteps
           /\ ui.i \in 0..(NPorts + 1) /\ ui.item \in {0} \cup Slot /\ ui.dev \in {0} \cup DOMAIN heap
           /\ ui.pc \in AtPorts => ui.i \in Port
<1>1. ui \in UiRec(DOMAIN heap)
  BY Parts DEF UiOK
<1> QED BY <1>1, UiPort DEF UiRec

LEMMA HeldIs ==
    ASSUME PortsInd, CalmInd, NEW p \in Port, Holds(p)
    PROVE  port[p].active \in DOMAIN heap /\ heap[port[p].active].att = TRUE
<1>1. PortOK(p) /\ (\A t \in Thread : ThreadOK(t)) /\ 0 \notin DOMAIN heap
  BY Objects DEF CalmInd
<1>2. port[p].stat # "IDLE" \/ Assigned(p)
  BY <1>1 DEF Holds, PortOK, ThreadOK, Stage, Works, Given, Taking, Assigned, CalmInd, UIOK, Gives
<1>3. Assigned(p) => port[p].active = ui.dev /\ ui.dev # 0
  BY DEF Assigned, Given, CalmInd, UIOK, Gives
<1> QED BY <1>1, <1>2, <1>3, UIIs DEF CalmInd, Owned, PortOK

LEMMA WorkerIs ==
    ASSUME PortsInd, CalmInd, NEW t \in Thread, Works(t)
    PROVE  /\ thr[t].port \in Port /\ Stage(thr[t].pc, port[thr[t].port], thr[t])
           /\ port[thr[t].port].stat # "IDLE" /\ port[thr[t].port].active \in DOMAIN heap
           /\ thr[t].pc # "begin" => thr[t].dev = port[thr[t].port].active
<1>1. thr[t].port \in Port /\ thr[t].pc \in Steps
  <2>1. thr[t] \in ThreadRec(DOMAIN heap)
    BY ThreadIs
  <2> QED BY <2>1, ThreadIs DEF Works, ThreadRec
<1>2. Stage(thr[t].pc, port[thr[t].port], thr[t])
  BY DEF CalmInd, ThreadOK
<1>3. port[thr[t].port].stat # "IDLE"
  BY <1>1, <1>2 DEF Works, Stage, Steps
<1>4. thr[t].pc # "begin" => thr[t].dev = port[thr[t].port].active
  BY <1>2 DEF Works, Stage
<1> QED BY <1>1, <1>2, <1>3, <1>4 DEF CalmInd, PortOK

\* The device of a port that the UI thread is about to attach waits.
LEMMA TakenIs ==
    ASSUME PortsInd, CalmInd, NEW p \in Port, Taking(p), port[p].stat # "IDLE" \/ port[p].usb = "live"
    PROVE  /\ port[p].active \in DOMAIN heap /\ heap[port[p].active].att = FALSE
           /\ heap[port[p].active].status \in Waiting
<1>1. CASE ui.dev = 0
  <2>1. port[p].stat # "IDLE"
    BY <1>1 DEF CalmInd, UIOK, Ends, Taking
  <2> QED BY <1>1, <2>1 DEF CalmInd, UIOK, Ends, Taking, PortOK, Waiting
<1>2. CASE ui.dev # 0
  <2>1. port[p].active = ui.dev /\ Choosing
    BY <1>2 DEF CalmInd, UIOK, Gives, Taking, Given, Choosing
  <2> QED BY <2>1 DEF CalmInd, UIOK, Chosen, Waits, Valid
<1> QED BY <1>1, <1>2

\* Two ports that work on a device, or have its handle, have different devices.
LEMMA Apart ==
    ASSUME PortsInd, CalmInd, NEW p \in Port, NEW q \in Port, p # q,
           port[p].stat = "WORKING" \/ port[p].usb = "live",
           port[q].stat = "WORKING" \/ port[q].usb = "live"
    PROVE  port[p].active # port[q].active
<1>1. CASE Taking(p)
  <2>1. ~Taking(q) /\ Holds(q)
    BY <1>1 DEF Taking, Holds
  <2> QED BY <1>1, <2>1, TakenIs, HeldIs
<1>2. CASE Taking(q)
  <2>1. ~Taking(p) /\ Holds(p)
    BY <1>2 DEF Taking, Holds
  <2> QED BY <1>2, <2>1, TakenIs, HeldIs
<1>3. CASE ~Taking(p) /\ ~Taking(q)
  <2>1. Holds(p) /\ Holds(q)
    BY <1>3 DEF Holds
  <2> QED BY <2>1 DEF CalmInd, Owned
<1> QED BY <1>1, <1>2, <1>3

\* The worker of a port whose switch is being ended is not on the way to the bootloader.
LEMMA Untaken ==
    ASSUME PortsInd, CalmInd, NEW t \in Thread, thr[t].pc \in Early
    PROVE  ~Ending(thr[t].port) /\ ~Taking(thr[t].port) /\ ~Given(thr[t].port)
<1>1. Works(t) /\ thr[t].port \in Port /\ port[thr[t].port].stat # "IDLE"
  BY WorkerIs DEF Works, Early
<1>2. ~Ending(thr[t].port)
  <2> SUFFICES ASSUME Ending(thr[t].port) PROVE FALSE
    OBVIOUS
  <2>1. ui.i = thr[t].port
    BY DEF Ending
  <2>2. PICK u \in Thread : Works(u) /\ thr[u].port = ui.i /\ thr[u].pc \notin Early
    BY <2>1 DEF CalmInd, UIOK, Ends
  <2> QED BY <1>1, <2>1, <2>2 DEF CalmInd, OneWorker
<1>3. ~Given(thr[t].port)
  BY <1>1 DEF Given, CalmInd, UIOK, Gives
<1> QED BY <1>2, <1>3 DEF Taking, Ending, Given, CalmInd, UIOK, Gives

\* A worker on the way to the bootloader has the port's device, attached.
LEMMA OwnIs ==
    ASSUME PortsInd, CalmInd, NEW t \in Thread,
           thr[t].pc \in {"diag", "setflash", "close", "detach"}
    PROVE  /\ Works(t) /\ thr[t].port \in Port /\ Stage(thr[t].pc, port[thr[t].port], thr[t])
           /\ thr[t].dev = port[thr[t].port].active /\ thr[t].dev \in DOMAIN heap
           /\ Holds(thr[t].port) /\ heap[thr[t].dev].att = TRUE
<1>1. Works(t) /\ thr[t].pc \in Early
  BY DEF Works, Early
<1>2. /\ thr[t].port \in Port /\ Stage(thr[t].pc, port[thr[t].port], thr[t])
      /\ port[thr[t].port].active \in DOMAIN heap
  BY <1>1, WorkerIs
<1>3. thr[t].dev = port[thr[t].port].active
  BY <1>2 DEF Stage
<1>4. ~Taking(thr[t].port)
  BY <1>1, Untaken
<1>5. Holds(thr[t].port)
  BY <1>2, <1>4 DEF Stage, Holds
<1> QED BY <1>1, <1>2, <1>3, <1>5, HeldIs

\* No message is about a removal, and none arrives.
LEMMA NoRemoval ==
    ASSUME PortsInd, Begun, \/ UNCHANGED msgs \/ \E k : Receive(k)
                            \/ \E k \in {"com", "fastboot", "done"} : \E s : msgs' = Append(msgs, Msg(k, s))
    PROVE  \A k \in DOMAIN msgs' : msgs'[k].kind # "removed"
<1>1. msgs \in Seq(Message)
  BY Parts DEF Side
<1>2. CASE UNCHANGED msgs
  BY <1>2 DEF Begun
<1>3. CASE \E k : Receive(k)
  <2>1. msgs # <<>> /\ msgs' = Tail(msgs)
    BY <1>3 DEF Receive
  <2>2. ASSUME NEW k \in DOMAIN msgs' PROVE k + 1 \in DOMAIN msgs /\ msgs'[k] = msgs[k + 1]
    BY <1>1, <2>1
  <2> QED BY <2>2 DEF Begun
<1>4. ASSUME NEW k \in {"com", "fastboot", "done"}, NEW s, msgs' = Append(msgs, Msg(k, s))
      PROVE  \A i \in DOMAIN msgs' : msgs'[i].kind # "removed"
  <2>1. Msg(k, s).kind = k
    BY DEF Msg
  <2> DEFINE m == Msg(k, s)
  <2> HIDE DEF m
  <2>2. ASSUME NEW i \in DOMAIN msgs' PROVE (i \in DOMAIN msgs /\ msgs'[i] = msgs[i]) \/ msgs'[i] = m
    BY <1>1, <1>4 DEF m
  <2> QED BY <2>1, <2>2 DEF Begun, m
<1> QED BY <1>2, <1>3, <1>4

LEMMA Later ==
    ASSUME PortsInd, Begun, UNCHANGED clicks,
           m_bWork = TRUE \/ ui.pc # "idle" \/ \E t \in Thread : thr[t].pc # "none",
           \/ UNCHANGED msgs \/ \E k : Receive(k)
           \/ \E k \in {"com", "fastboot", "done"} : \E s : msgs' = Append(msgs, Msg(k, s))
    PROVE  Begun'
<1>1. \A k \in DOMAIN msgs' : msgs'[k].kind # "removed"
  BY NoRemoval
<1>2. clicks' # 0
  BY DEF Begun
<1> QED BY <1>1, <1>2 DEF Begun

-----------------------------------------------------------------------------
(* Steps that leave the objects, the ports and the threads alone. *)

\* The UI thread is at no port.
LEMMA UIOut ==
    ASSUME ui'.pc \in {"idle", "start", "port"}, ui'.dev = 0
    PROVE  UIOK'
BY DEF UIOK, Looked, Chosen, Choosing, Ends, Ending, Gives, Given

LEMMA OutIs ==
    ASSUME ui' = Idle \/ (\E x : ui' = AtPort(x)) \/ NextPort \/ ScheduleDeviceWork
    PROVE  ui'.pc \in {"idle", "port"} /\ ui'.dev = 0 /\ UIOK'
<1>1. ui'.pc \in {"idle", "port"} /\ ui'.dev = 0
  BY DEF NextPort, ScheduleDeviceWork, AtPort, Idle
<1> QED BY <1>1, UIOut

\* A step of the UI thread that takes no port's device on or off it.
LEMMA UiMove ==
    ASSUME CalmInd, UNCHANGED <<heap, mDevintfList, port, thr, bus, crashed>>, Begun', UIOK',
           \A p \in Port : /\ Taking(p) => Taking(p)'
                           /\ Given(p) => Given(p)'
                           /\ Assigned(p)' => Assigned(p)
                           /\ Starting(p)' <=> Starting(p)
    PROVE  CalmInd'
<1>1. InOrder' /\ FreshLast'
  BY DEF CalmInd, InOrder, FreshLast, Fresh
<1>2. \A d \in DOMAIN heap' : DeviceOK(d)'
  BY DEF CalmInd, DeviceOK, Fresh
<1>3. \A p \in Port : PortOK(p)'
  BY DEF CalmInd, PortOK
<1>4. \A t \in Thread : ThreadOK(t)'
  BY DEF CalmInd, ThreadOK, Works
<1>5. OneWorker'
  BY DEF CalmInd, OneWorker, Works
<1>6. \A p \in Port : Holds(p)' => Holds(p)
  BY DEF Holds
<1>7. Owned'
  BY <1>6 DEF CalmInd, Owned
<1>8. \A p \in Port : Diagging(p)' => Diagging(p)
  BY DEF Diagging
<1>9. MapServed'
  BY <1>8 DEF CalmInd, MapServed, Valid
<1> QED BY <1>1, <1>2, <1>3, <1>4, <1>5, <1>7, <1>9 DEF CalmInd

\* The same between two statements of which neither is about a device's port.
LEMMA UiFree ==
    ASSUME CalmInd, UNCHANGED <<heap, mDevintfList, port, thr, bus, crashed>>, Begun', UIOK',
           ui.pc \notin {"signal", "test", "usb", "attach", "status", "begin"},
           ui'.pc \notin {"status", "begin"}
    PROVE  CalmInd'
<1>1. \A p \in Port : /\ Taking(p) => Taking(p)'
                      /\ Given(p) => Given(p)'
                      /\ Assigned(p)' => Assigned(p)
                      /\ Starting(p)' <=> Starting(p)
  BY DEF Taking, Given, Assigned, Starting
<1> QED BY <1>1, UiMove

LEMMA SchedulePortCalm == ASSUME PortsInd, CalmInd, SchedulePort PROVE CalmInd'
<1>1. Begun'
  BY Later DEF SchedulePort, CalmInd
<1>2. UIOK' /\ ui'.pc \notin {"status", "begin"}
  <2>1. CASE ui' = Idle \/ NextPort
    BY <2>1, OutIs
  <2>2. CASE ui' = [ui EXCEPT !.pc = "pick", !.item = ItemOf(port[ui.i])] /\ port[ui.i].stat # "WORKING"
    <3> DEFINE x == ItemOf(port[ui.i])
    <3>1. ui' = [ui EXCEPT !.pc = "pick", !.item = x]
      BY <2>2
    <3> HIDE DEF x
    <3>2. ui'.pc = "pick" /\ ui'.i = ui.i /\ ui'.item = x /\ ui'.dev = ui.dev
      BY <3>1, UIIs DEF UiRec
    <3>3. ui.dev = 0
      BY DEF CalmInd, UIOK, Gives, SchedulePort
    <3>4. port' = port /\ heap' = heap
      BY DEF SchedulePort, poolVars
    <3>5. x = ItemOf(port[ui.i])'
      BY <3>2, <3>4 DEF x, ItemOf, SlotOf
    <3>6. Looked'
      BY <2>2, <3>2, <3>4, <3>5 DEF Looked, ItemOf, SlotOf, x
    <3>7. Chosen' /\ Ends' /\ Gives'
      BY <3>2, <3>3 DEF Chosen, Choosing, Ends, Ending, Gives, Given
    <3> QED BY <3>2, <3>6, <3>7 DEF UIOK
  <2> QED BY <2>1, <2>2 DEF SchedulePort
<1> QED BY <1>1, <1>2, UiFree DEF SchedulePort, poolVars

LEMMA PickDeviceCalm == ASSUME PortsInd, CalmInd, PickDevice PROVE CalmInd'
<1>1. Begun'
  BY Later DEF PickDevice, CalmInd
<1>2. port' = port /\ heap' = heap /\ ui.pc = "pick"
  BY DEF PickDevice, poolVars
<1>3. UIOK' /\ ui'.pc \notin {"status", "begin"}
  <2>1. CASE NextPort
    BY <2>1, OutIs
  <2>2. CASE GetValidDevice # 0 /\ ui' = [ui EXCEPT !.pc = "look", !.dev = GetValidDevice]
    <3> DEFINE d == GetValidDevice
    <3>1. /\ d \in DOMAIN heap /\ Valid(d) /\ d # 0
          /\ \A j \in DOMAIN heap : Valid(j) => d <= j
      BY <2>2, ValidFirst
    <3>2. ui' = [ui EXCEPT !.pc = "look", !.dev = d]
      BY <2>2
    <3> HIDE DEF d
    <3>3. ui'.pc = "look" /\ ui'.i = ui.i /\ ui'.item = ui.item /\ ui'.dev = d
      BY <3>2, UIIs DEF UiRec
    <3>4. Looked'
      BY <1>2, <3>3 DEF CalmInd, UIOK, Looked, ItemOf, SlotOf
    <3>5. \A j \in DOMAIN heap : j < d => ~Valid(j)
      <4>1. DOMAIN heap \subseteq Nat
        BY Objects
      <4> QED BY <3>1, <4>1
    <3>6. Chosen'
      BY <1>2, <3>1, <3>3, <3>5 DEF Chosen, Waits, Valid
    <3>7. Ends' /\ Gives'
      BY <3>1, <3>3 DEF Ends, Ending, Gives, Given
    <3> QED BY <3>3, <3>4, <3>6, <3>7 DEF UIOK
  <2> QED BY <2>1, <2>2 DEF PickDevice
<1> QED BY <1>1, <1>2, <1>3, UiFree DEF PickDevice, poolVars

\* ScheduleDeviceWork ends the switch of a port only for the port's own device: the port's
\* map, if it has one, is the slot of an earlier device.
LEMMA OwnDevice ==
    ASSUME PortsInd, CalmInd, ui.pc = "look", port[ui.i].stat = "SWITCH",
           ui.item # 0, SlotOf(ui.dev) = ui.item
    PROVE  /\ port[ui.i].active = ui.dev /\ heap[ui.dev].status = "FLASH" /\ heap[ui.dev].att = FALSE
           /\ \E t \in Thread : Works(t) /\ thr[t].port = ui.i /\ thr[t].pc \notin Early
<1>1. ui.i \in Port /\ PortOK(ui.i)
  BY UIIs DEF AtPorts, UISteps, CalmInd
<1>2. ui.dev \in DOMAIN heap /\ Valid(ui.dev)
  BY DEF CalmInd, UIOK, Chosen, Choosing, Waits
<1>3. port[ui.i].active \in DOMAIN heap /\ 0 \notin DOMAIN heap /\ heap[port[ui.i].active].status # "PLUGIN"
  BY <1>1, Objects DEF PortOK
<1>4. heap[ui.dev].slot = ui.item
  BY <1>2, <1>3 DEF SlotOf
<1>5. ui.item = IF port[ui.i].map # 0 THEN port[ui.i].map ELSE heap[port[ui.i].active].slot
  BY <1>3 DEF CalmInd, UIOK, Looked, ItemOf, SlotOf
<1>6. port[ui.i].map = 0
  BY <1>1, <1>2, <1>4, <1>5 DEF CalmInd, MapServed, Diagging
<1>7. port[ui.i].active = ui.dev
  BY <1>2, <1>3, <1>4, <1>5, <1>6, Objects
<1>8. heap[ui.dev].status = "FLASH" /\ heap[ui.dev].att = FALSE
  BY <1>2, <1>3, <1>7 DEF Valid, Waiting
<1>9. PICK t \in Thread : Works(t) /\ thr[t].port = ui.i
  BY <1>1 DEF CalmInd, OneWorker, Starting
<1>10. Stage(thr[t].pc, port[ui.i], thr[t])
  BY <1>9, WorkerIs
<1>11. thr[t].pc # "detach"
  <2> SUFFICES ASSUME thr[t].pc = "detach" PROVE FALSE
    OBVIOUS
  <2>1. Holds(ui.i)
    BY <1>9 DEF Holds, Taking
  <2> QED BY <1>1, <1>7, <1>8, <2>1, HeldIs
<1>12. thr[t].pc \notin Early
  BY <1>10, <1>11 DEF Stage, Early
<1> QED BY <1>7, <1>8, <1>9, <1>12

LEMMA LookAtPortCalm == ASSUME PortsInd, CalmInd, LookAtPort PROVE CalmInd'
<1>1. Begun'
  BY Later DEF LookAtPort, CalmInd
<1>2. port' = port /\ heap' = heap /\ thr' = thr /\ ui.pc = "look"
  BY DEF LookAtPort, poolVars
<1>3. ui.i \in Port /\ PortOK(ui.i) /\ port[ui.i].stat # "WORKING" /\ Waits /\ 0 \notin DOMAIN heap
      /\ port[ui.i] \in PortRec(DOMAIN heap)
  BY <1>2, UIIs, Objects, PortIs DEF AtPorts, UISteps, CalmInd, UIOK, Looked, Chosen, Choosing
<1>4. UIOK' /\ ui'.pc \notin {"status", "begin"}
  <2>1. CASE /\ port[ui.i].stat = "SWITCH" /\ ui.item # 0 /\ SlotOf(ui.dev) = ui.item
             /\ ui' = [ui EXCEPT !.pc = "signal", !.item = 0, !.dev = 0]
    <3>1. ui'.pc = "signal" /\ ui'.i = ui.i /\ ui'.dev = 0
      BY <2>1, UIIs DEF UiRec
    <3>2. /\ port[ui.i].active = ui.dev /\ heap[ui.dev].status = "FLASH" /\ heap[ui.dev].att = FALSE
          /\ \E t \in Thread : Works(t) /\ thr[t].port = ui.i /\ thr[t].pc \notin Early
      BY <1>2, <2>1, OwnDevice
    <3>3. Ends'
      BY <1>2, <1>3, <2>1, <3>1, <3>2 DEF Ends, Ending, PortOK, Works
    <3>4. Looked' /\ Chosen' /\ Gives'
      BY <3>1 DEF Looked, Chosen, Choosing, Gives, Given
    <3> QED BY <3>1, <3>3, <3>4 DEF UIOK
  <2>2. CASE port[ui.i].stat # "SWITCH" /\ ui' = [ui EXCEPT !.pc = "set", !.item = 0]
    <3>1. ui'.pc = "set" /\ ui'.i = ui.i /\ ui'.dev = ui.dev /\ ui.dev # 0
      BY <1>3, <2>2, UIIs DEF UiRec, Waits
    <3>2. Chosen'
      BY <1>2, <1>3, <3>1 DEF Chosen, Waits, Valid
    <3>3. port[ui.i].stat \in {"IDLE", "FINISH"}
      BY <1>3, <2>2 DEF PortOK, PortRec
    <3>4. Looked' /\ Ends' /\ Gives'
      BY <1>2, <3>1, <3>3 DEF Looked, Ends, Ending, Gives, Given
    <3> QED BY <3>1, <3>2, <3>4 DEF UIOK
  <2>3. CASE ui' = [ui EXCEPT !.pc = "pick", !.dev = 0]
    <3>1. ui'.pc = "pick" /\ ui'.i = ui.i /\ ui'.dev = 0 /\ ui'.item = ui.item
      BY <2>3, UIIs DEF UiRec
    <3>2. Looked'
      BY <1>2, <3>1 DEF CalmInd, UIOK, Looked, ItemOf, SlotOf
    <3>3. Chosen' /\ Ends' /\ Gives'
      BY <3>1 DEF Chosen, Choosing, Ends, Ending, Gives, Given
    <3> QED BY <3>1, <3>2, <3>3 DEF UIOK
  <2> QED BY <2>1, <2>2, <2>3 DEF LookAtPort
<1> QED BY <1>1, <1>2, <1>4, UiFree DEF LookAtPort, poolVars

LEMMA TestActiveCalm == ASSUME PortsInd, CalmInd, TestActive PROVE CalmInd'
<1>1. Begun'
  BY Later DEF TestActive, CalmInd
<1>2. port' = port /\ heap' = heap /\ thr' = thr /\ ui.pc = "test"
  BY DEF TestActive, poolVars
<1>3. ui.i \in Port /\ PortOK(ui.i) /\ 0 \notin DOMAIN heap /\ ui.dev = 0
  BY <1>2, UIIs, Objects DEF AtPorts, UISteps, CalmInd, UIOK, Gives
<1>4. port[ui.i].active # 0
  BY <1>2, <1>3 DEF CalmInd, UIOK, Ends, PortOK
<1>5. ui'.pc = "usb" /\ ui'.i = ui.i /\ ui'.dev = 0
  <2>1. ui' = [ui EXCEPT !.pc = "usb"]
    BY <1>4 DEF TestActive, MyUIPort
  <2> QED BY <1>3, <2>1, UIIs DEF UiRec
<1>6. UIOK'
  <2>1. Ends'
    BY <1>2, <1>3, <1>5 DEF CalmInd, UIOK, Ends, Ending, Works
  <2>2. Looked' /\ Chosen' /\ Gives'
    BY <1>5 DEF Looked, Chosen, Choosing, Gives, Given
  <2> QED BY <2>1, <2>2 DEF UIOK
<1>7. \A p \in Port : /\ Taking(p) => Taking(p)'
                      /\ Given(p) => Given(p)'
                      /\ Assigned(p)' => Assigned(p)
                      /\ Starting(p)' <=> Starting(p)
  BY <1>2, <1>5 DEF Taking, Given, Assigned, Starting
<1> QED BY <1>1, <1>6, <1>7, UiMove DEF TestActive, poolVars

LEMMA FlashDoneCalm == ASSUME PortsInd, CalmInd, FlashDeviceDone PROVE CalmInd'
<1>1. /\ m_bWork' = m_bWork /\ clicks' = clicks /\ heap' = heap /\ port' = port /\ thr' = thr
      /\ ui.pc = "idle" /\ Receive("done")
  BY DEF FlashDeviceDone, poolVars, Receive
<1>2. ui'.pc \in {"idle", "port"} /\ ui'.dev = 0
  <2>1. ui.dev = 0
    BY <1>1 DEF CalmInd, UIOK, Gives
  <2> QED BY <1>1, <2>1, OutIs DEF FlashDeviceDone
<1>3. m_bWork = FALSE => ui'.pc = "idle"
  BY <1>1 DEF FlashDeviceDone, ScheduleDeviceWork, Idle
<1>4. \A k \in DOMAIN msgs' : msgs'[k].kind # "removed"
  BY <1>1, NoRemoval DEF CalmInd
<1>5. Begun'
  BY <1>1, <1>3, <1>4 DEF CalmInd, Begun
<1> QED BY <1>1, <1>2, <1>5, UIOut, UiFree DEF FlashDeviceDone, poolVars

\* A modem arrives or comes back: no object's slot is concerned that relies on it.
LEMMA BusStep ==
    ASSUME CalmInd, UNCHANGED <<heap, mDevintfList, port, thr, crashed, ui, clicks, m_bWork>>,
           \A k \in DOMAIN msgs' : msgs'[k].kind # "removed",
           \A d \in DOMAIN heap : bus[heap[d].slot].mode \in {"diag", "fastboot"} =>
                                     bus'[heap[d].slot].mode = bus[heap[d].slot].mode
    PROVE  CalmInd'
<1>1. InOrder' /\ FreshLast' /\ OneWorker' /\ Owned' /\ MapServed'
  BY DEF CalmInd, InOrder, FreshLast, OneWorker, Owned, MapServed, Fresh, Works, Holds, Diagging, Valid,
         Taking, Assigned, Starting
<1>2. \A d \in DOMAIN heap' : DeviceOK(d)'
  BY DEF CalmInd, DeviceOK, Fresh
<1>3. \A p \in Port : PortOK(p)'
  BY DEF CalmInd, PortOK, Given
<1>4. \A t \in Thread : ThreadOK(t)'
  BY DEF CalmInd, ThreadOK, Works
<1>5. Begun'
  BY DEF CalmInd, Begun
<1>6. UIOK'
  BY DEF CalmInd, UIOK, Looked, ItemOf, SlotOf, Chosen, Choosing, Waits, Valid, Ends, Ending, Gives,
         Given, Works
<1> QED BY <1>1, <1>2, <1>3, <1>4, <1>5, <1>6 DEF CalmInd

LEMMA PlugInCalm == ASSUME PortsInd, CalmInd, NEW s \in Slot, NEW m, PlugIn(s, m) PROVE CalmInd'
<1>1. \A k \in DOMAIN msgs' : msgs'[k].kind # "removed"
  <2>1. Arrived(m) \in {"com", "fastboot", "done"} /\ msgs' = Append(msgs, Msg(Arrived(m), 0))
    BY DEF Arrived, PlugIn
  <2> QED BY <2>1, NoRemoval DEF CalmInd
<1>2. ASSUME NEW d \in DOMAIN heap, bus[heap[d].slot].mode \in {"diag", "fastboot"}
      PROVE  bus'[heap[d].slot] = bus[heap[d].slot]
  <2>1. heap[d].slot # s
    BY <1>2 DEF PlugIn
  <2>2. bus \in [Slot -> BusRec]
    BY Parts DEF Side
  <2> DEFINE r == [mode |-> m, unit |-> Min(Spare)]
  <2>3. bus' = [bus EXCEPT ![s] = r]
    BY DEF PlugIn
  <2> HIDE DEF r
  <2> QED BY <2>1, <2>2, <2>3, ObjectIs
<1> QED BY <1>1, <1>2, BusStep DEF PlugIn

LEMMA RebootedCalm == ASSUME PortsInd, CalmInd, NEW s \in Slot, Rebooted(s) PROVE CalmInd'
<1>1. \A k \in DOMAIN msgs' : msgs'[k].kind # "removed"
  BY NoRemoval DEF CalmInd, Rebooted
<1>2. ASSUME NEW d \in DOMAIN heap, bus[heap[d].slot].mode \in {"diag", "fastboot"}
      PROVE  bus'[heap[d].slot] = bus[heap[d].slot]
  <2>1. heap[d].slot # s
    BY <1>2 DEF Rebooted
  <2>2. bus \in [Slot -> BusRec]
    BY Parts DEF Side
  <2> QED BY <2>1, <2>2, ObjectIs DEF Rebooted
<1> QED BY <1>1, <1>2, BusStep DEF Rebooted

\* The one Start finds nothing to reset.
LEMMA OnStartCalm == ASSUME PortsInd, CalmInd, Calm, OnStart PROVE CalmInd'
<1>1. clicks = 0
  BY Parts, PortsAssumption DEF OnStart, Calm, Side
<1>2. heap = <<>> /\ \A p \in Port : port[p].stat = "IDLE"
  BY <1>1 DEF CalmInd, Begun
<1>3. mDevintfList = <<>>
  <2>1. mDevintfList \in Seq(DOMAIN heap) /\ Len(mDevintfList) = 0
    BY <1>2, Parts DEF CalmInd, InOrder
  <2> QED BY <2>1
<1>4. heap' = heap /\ mDevintfList' = mDevintfList
  BY <1>2, <1>3 DEF OnStart, Reset, ResetPool
<1>5. port' = port
  <2>1. \A p \in Port : ResetPort(port[p]) = port[p]
    BY <1>2 DEF ResetPort
  <2>2. port \in [Port -> PortRec(DOMAIN heap)]
    BY Parts DEF Ports
  <2> QED BY <2>1, <2>2 DEF OnStart, Reset
<1>6. clicks' # 0 /\ msgs' = msgs /\ thr' = thr /\ bus' = bus /\ crashed' = crashed /\ ui.pc = "idle"
  BY <1>1 DEF OnStart
<1>7. Begun'
  BY <1>6 DEF CalmInd, Begun
<1>8. ui'.pc = "start" /\ ui'.dev = 0
  BY <1>6, UIIs DEF OnStart, UiRec, CalmInd, UIOK, Gives
<1> QED BY <1>4, <1>5, <1>6, <1>7, <1>8, UIOut, UiFree

LEMMA NoStop == ASSUME PortsInd, CalmInd, Calm PROVE ~OnStop
<1> SUFFICES ASSUME OnStop PROVE FALSE
  OBVIOUS
<1>1. clicks = 0
  BY Parts, PortsAssumption DEF OnStop, Calm, Side
<1> QED BY <1>1 DEF OnStop, CalmInd, Begun

LEMMA NoRemoved == ASSUME PortsInd, CalmInd PROVE ~HandleDeviceRemoved
<1> SUFFICES ASSUME HandleDeviceRemoved PROVE FALSE
  OBVIOUS
<1>1. msgs \in Seq(Message) /\ msgs # <<>> /\ Head(msgs).kind = "removed"
  BY Parts DEF HandleDeviceRemoved, Receive, Side
<1>2. 1 \in DOMAIN msgs /\ Head(msgs) = msgs[1]
  BY <1>1
<1> QED BY <1>1, <1>2 DEF CalmInd, Begun

-----------------------------------------------------------------------------
(* Arrivals. *)

LEMMA SetIntfSays ==
    ASSUME NEW o \in Object, Calm
    PROVE  /\ SetIntf(o, "diag").diag = TRUE /\ SetIntf(o, "diag").fb = o.fb
           /\ SetIntf(o, "diag").fbh = o.fbh /\ SetIntf(o, "diag").att = o.att
           /\ SetIntf(o, "diag").status = o.status
           /\ SetIntf(o, "fastboot").diag = o.diag /\ SetIntf(o, "fastboot").fb = TRUE
           /\ SetIntf(o, "fastboot").fbh = "live" /\ SetIntf(o, "fastboot").att = o.att
           /\ SetIntf(o, "fastboot").status = IF o.status = "PLUGIN" THEN "FLASH" ELSE o.status
<1> DEFINE st == IF o.status = "PLUGIN" THEN "FLASH" ELSE o.status
           b == [o EXCEPT !.fb = TRUE, !.fbh = "live", !.status = st]
<1>1. SetIntf(o, "diag") = [o EXCEPT !.diag = TRUE]
  BY DEF SetIntf
<1>2. SetIntf(o, "fastboot") = b
  BY DEF SetIntf, Calm
<1> HIDE DEF st
<1>3. b.diag = o.diag /\ b.fb = TRUE /\ b.fbh = "live" /\ b.att = o.att /\ b.status = st
  BY DEF Object
<1> HIDE DEF b
<1>4. /\ SetIntf(o, "diag").diag = TRUE /\ SetIntf(o, "diag").fb = o.fb
      /\ SetIntf(o, "diag").fbh = o.fbh /\ SetIntf(o, "diag").att = o.att
      /\ SetIntf(o, "diag").status = o.status
  BY <1>1 DEF Object
<1> QED BY <1>2, <1>3, <1>4 DEF st

\* What an arrival does to the objects: one that is known has its serial port already, or gets
\* the handle of its bootloader; a new one says how its modem arrived.
Arrival ==
    /\ heap' \in Seq(Object) /\ DOMAIN heap \subseteq DOMAIN heap'
    /\ \A i \in DOMAIN heap :
         /\ heap'[i].slot = heap[i].slot /\ heap'[i].diag = heap[i].diag
         /\ heap'[i].att = heap[i].att /\ heap'[i].status = heap[i].status
         /\ \/ heap'[i].fb = heap[i].fb /\ heap'[i].fbh = heap[i].fbh
            \/ heap[i].att = FALSE /\ heap'[i].fb = TRUE /\ heap'[i].fbh = "live"
               /\ heap[i].status # "PLUGIN"
    /\ \A i \in DOMAIN heap' \ DOMAIN heap :
         /\ heap'[i].att = FALSE
         /\ \A j \in DOMAIN heap : j < i
         /\ \/ /\ heap'[i].diag = TRUE /\ heap'[i].fb = FALSE /\ heap'[i].fbh = "null"
               /\ heap'[i].status = "PLUGIN" /\ bus[heap'[i].slot].mode = "diag"
            \/ /\ heap'[i].diag = FALSE /\ heap'[i].fb = TRUE /\ heap'[i].fbh = "live"
               /\ heap'[i].status = "FLASH" /\ bus[heap'[i].slot].mode = "fastboot"
    /\ InOrder'

LEMMA AddArrives ==
    ASSUME PortsInd, CalmInd, Calm, NEW m \in {"diag", "fastboot"}, NEW S, S \subseteq InMode(m),
           AddDevice(S, m)
    PROVE  Arrival
<1>1. S \subseteq Slot /\ \A s \in S : bus[s].mode = m
  BY DEF InMode
<1>0. S \subseteq Slot
  BY <1>1
<1>2. PICK new \in Seq(S) :
        /\ \A i, j \in DOMAIN new : new[i] = new[j] => i = j
        /\ \A k \in DOMAIN new : GetDevice(new[k]) = 0
        /\ heap' \in Seq(Object) /\ Len(heap') = Len(heap) + Len(new)
        /\ \A i \in DOMAIN heap :
             \/ heap'[i] = heap[i]
             \/ heap[i].att = FALSE /\ heap[i].slot \in S /\ heap'[i] = SetIntf(heap[i], m)
        /\ \A k \in DOMAIN new : heap'[Len(heap) + k] = SetIntf(NewObject(new[k]), m)
        /\ mDevintfList' = mDevintfList \o [k \in DOMAIN new |-> Len(heap) + k]
  BY <1>0, AddShape
<1>3. /\ DOMAIN new = 1..Len(new) /\ Len(new) \in Nat /\ DOMAIN heap = 1..Len(heap)
      /\ Len(heap) \in Nat /\ DOMAIN heap' = 1..(Len(heap) + Len(new))
  BY <1>2, Objects
<1>4. ASSUME NEW i \in DOMAIN heap
      PROVE  /\ heap'[i].slot = heap[i].slot /\ heap'[i].diag = heap[i].diag
             /\ heap'[i].att = heap[i].att /\ heap'[i].status = heap[i].status
             /\ \/ heap'[i].fb = heap[i].fb /\ heap'[i].fbh = heap[i].fbh
                \/ heap[i].att = FALSE /\ heap'[i].fb = TRUE /\ heap'[i].fbh = "live"
                   /\ heap[i].status # "PLUGIN"
  <2>1. CASE heap'[i] = heap[i]
    BY <2>1
  <2>2. CASE heap[i].att = FALSE /\ heap[i].slot \in S /\ heap'[i] = SetIntf(heap[i], m)
    <3>1. heap[i] \in Object /\ heap[i].diag \in BOOLEAN
      BY ObjectIs
    <3>2. DeviceOK(i)
      BY DEF CalmInd
    <3>3. heap'[i].slot = heap[i].slot
      BY <2>2, <3>1, SetIntfIs
    <3>4. CASE m = "diag"
      <4>1. heap[i].diag = TRUE
        BY <1>1, <2>2, <3>1, <3>2, <3>4 DEF DeviceOK
      <4> QED BY <2>2, <3>1, <3>3, <3>4, <4>1, SetIntfSays
    <3>5. CASE m = "fastboot"
      <4>1. heap[i].status # "PLUGIN"
        BY <1>1, <2>2, <3>2, <3>5 DEF DeviceOK, Fresh
      <4> DEFINE r == SetIntf(heap[i], "fastboot")
      <4>2. /\ r.diag = heap[i].diag /\ r.fb = TRUE /\ r.fbh = "live" /\ r.att = heap[i].att
            /\ r.status = IF heap[i].status = "PLUGIN" THEN "FLASH" ELSE heap[i].status
        BY <3>1, SetIntfSays
      <4>3. heap'[i] = r
        BY <2>2, <3>5
      <4> HIDE DEF r
      <4> QED BY <2>2, <3>3, <4>1, <4>2, <4>3
    <3> QED BY <3>4, <3>5
  <2> QED BY <1>2, <2>1, <2>2
<1>5. ASSUME NEW i \in DOMAIN heap' \ DOMAIN heap
      PROVE  /\ heap'[i].att = FALSE
             /\ \A j \in DOMAIN heap : j < i
             /\ \/ /\ heap'[i].diag = TRUE /\ heap'[i].fb = FALSE /\ heap'[i].fbh = "null"
                   /\ heap'[i].status = "PLUGIN" /\ bus[heap'[i].slot].mode = "diag"
                \/ /\ heap'[i].diag = FALSE /\ heap'[i].fb = TRUE /\ heap'[i].fbh = "live"
                   /\ heap'[i].status = "FLASH" /\ bus[heap'[i].slot].mode = "fastboot"
  <2>1. i - Len(heap) \in DOMAIN new /\ i = Len(heap) + (i - Len(heap)) /\ \A j \in DOMAIN heap : j < i
    BY <1>3
  <2> DEFINE k == i - Len(heap)
             s == new[k]
             o == NewObject(s)
  <2>2. heap'[i] = SetIntf(o, m) /\ s \in S
    BY <1>2, <2>1
  <2> HIDE DEF k, s
  <2>3. /\ o \in Object /\ o.slot = s /\ o.diag = FALSE /\ o.fb = FALSE /\ o.fbh = "null"
        /\ o.status = "PLUGIN" /\ o.att = FALSE
    BY <1>0, <2>2, NewObjectIs DEF NewObject
  <2> HIDE DEF o
  <2>4. heap'[i].slot = s /\ bus[s].mode = m
    BY <1>1, <2>2, <2>3, SetIntfIs
  <2>5. CASE m = "diag"
    <3> DEFINE r == SetIntf(o, "diag")
    <3>1. r.diag = TRUE /\ r.fb = FALSE /\ r.fbh = "null" /\ r.att = FALSE /\ r.status = "PLUGIN"
      BY <2>3, SetIntfSays
    <3>2. heap'[i] = r
      BY <2>2, <2>5
    <3> HIDE DEF r
    <3> QED BY <2>1, <2>4, <2>5, <3>1, <3>2
  <2>6. CASE m = "fastboot"
    <3> DEFINE r == SetIntf(o, "fastboot")
    <3>1. r.diag = FALSE /\ r.fb = TRUE /\ r.fbh = "live" /\ r.att = FALSE /\ r.status = "FLASH"
      BY <2>3, SetIntfSays
    <3>2. heap'[i] = r
      BY <2>2, <2>6
    <3> HIDE DEF r
    <3> QED BY <2>1, <2>4, <2>6, <3>1, <3>2
  <2> QED BY <2>5, <2>6
<1>6. InOrder'
  <2> DEFINE x == [k \in DOMAIN new |-> Len(heap) + k]
  <2>1. x \in Seq(Nat) /\ Len(x) = Len(new) /\ DOMAIN x = DOMAIN new
    <3>1. x \in [1..Len(new) -> Nat]
      BY <1>3
    <3> QED BY <1>3, <3>1
  <2>2. \A k \in DOMAIN new : x[k] = Len(heap) + k
    OBVIOUS
  <2>3. mDevintfList' = mDevintfList \o x
    BY <1>2
  <2> HIDE DEF x
  <2>4. /\ mDevintfList \in Seq(Nat) /\ Len(mDevintfList) = Len(heap)
        /\ \A k \in DOMAIN mDevintfList : mDevintfList[k] = k
    <3>1. mDevintfList \in Seq(DOMAIN heap) /\ DOMAIN heap \subseteq Nat
      BY <1>3, Parts
    <3>2. mDevintfList \in Seq(Nat)
      BY <3>1
    <3> QED BY <3>2 DEF CalmInd, InOrder
  <2>5. Len(mDevintfList') = Len(heap')
    <3>1. Len(mDevintfList \o x) = Len(mDevintfList) + Len(x)
      <4>1. mDevintfList \in Seq(Nat) /\ x \in Seq(Nat)
        BY <2>1, <2>4
      <4>2. \A a, b \in Seq(Nat) : Len(a \o b) = Len(a) + Len(b)
        OBVIOUS
      <4> QED BY <4>1, <4>2
    <3> QED BY <1>2, <2>1, <2>3, <2>4, <3>1
  <2>6. ASSUME NEW k \in DOMAIN mDevintfList' PROVE mDevintfList'[k] = k
    <3>1. k \in DOMAIN mDevintfList \/ \E j \in DOMAIN x : k = Len(mDevintfList) + j
      BY <2>1, <2>3, <2>4, Joined
    <3>2. CASE k \in DOMAIN mDevintfList
      BY <2>1, <2>3, <2>4, <3>2, Joined
    <3>3. ASSUME NEW j \in DOMAIN x, k = Len(mDevintfList) + j PROVE mDevintfList'[k] = k
      <4>1. mDevintfList'[k] = x[j]
        BY <2>1, <2>3, <2>4, <3>3, Joined
      <4> QED BY <2>1, <2>2, <2>4, <3>3, <4>1
    <3> QED BY <3>1, <3>2, <3>3
  <2> QED BY <2>5, <2>6 DEF InOrder
<1>7. DOMAIN heap \subseteq DOMAIN heap'
  BY <1>3
<1> QED BY <1>2, <1>4, <1>5, <1>6, <1>7 DEF Arrival

LEMMA ArrivalCalm ==
    ASSUME PortsInd, CalmInd, Arrival, PortsInd', UNCHANGED <<port, thr, bus, crashed>>, Begun',
           ui.pc \in {"idle", "start"}, ui'.pc \in {"idle", "port"}, ui'.dev = 0
    PROVE  CalmInd'
<1>0. /\ \A p \in Port : ~Taking(p) /\ ~Given(p) /\ ~Assigned(p) /\ ~Starting(p)
      /\ \A p \in Port : ~Taking(p)' /\ ~Given(p)' /\ ~Assigned(p)' /\ ~Starting(p)'
      /\ UIOK'
  BY UIOut DEF Taking, Given, Assigned, Starting
<1>1. InOrder' /\ DOMAIN heap \subseteq DOMAIN heap'
  BY DEF Arrival
<1>2. \A d \in DOMAIN heap : d \in DOMAIN heap' /\ DeviceOK(d)
  BY <1>1 DEF CalmInd
<1>3. \A d \in DOMAIN heap : /\ heap'[d].slot = heap[d].slot /\ heap'[d].diag = heap[d].diag
                             /\ heap'[d].att = heap[d].att /\ heap'[d].status = heap[d].status
                             /\ Fresh(d)' = Fresh(d) /\ Valid(d)' = Valid(d)
  BY DEF Arrival, Fresh, Valid
<1>4. \A d \in DOMAIN heap : heap[d].att = TRUE => heap'[d].fb = heap[d].fb /\ heap'[d].fbh = heap[d].fbh
  BY DEF Arrival
<1>5. \A d \in DOMAIN heap : /\ heap[d].fb = TRUE => heap'[d].fb = TRUE
                             /\ heap[d].fbh = "live" => heap'[d].fbh = "live"
  BY DEF Arrival
<1>6. ASSUME NEW d \in DOMAIN heap' PROVE DeviceOK(d)'
  <2>1. CASE d \in DOMAIN heap
    <3>1. DeviceOK(d) /\ (heap[d].fb = TRUE \/ heap[d].fb = FALSE)
      BY <1>2, <2>1, ObjectIs
    <3>2. /\ heap'[d].slot = heap[d].slot /\ heap'[d].diag = heap[d].diag
          /\ heap'[d].att = heap[d].att /\ heap'[d].status = heap[d].status
          /\ \/ heap'[d].fb = heap[d].fb /\ heap'[d].fbh = heap[d].fbh
             \/ /\ heap[d].att = FALSE /\ heap'[d].fb = TRUE /\ heap'[d].fbh = "live"
                /\ heap[d].status # "PLUGIN"
      BY <2>1 DEF Arrival
    <3> QED BY <3>1, <3>2 DEF DeviceOK, Fresh
  <2>2. CASE d \notin DOMAIN heap
    <3>1. /\ heap'[d].att = FALSE
          /\ \/ /\ heap'[d].diag = TRUE /\ heap'[d].fb = FALSE /\ heap'[d].fbh = "null"
                /\ heap'[d].status = "PLUGIN" /\ bus[heap'[d].slot].mode = "diag"
             \/ /\ heap'[d].diag = FALSE /\ heap'[d].fb = TRUE /\ heap'[d].fbh = "live"
                /\ heap'[d].status = "FLASH" /\ bus[heap'[d].slot].mode = "fastboot"
      BY <2>2 DEF Arrival
    <3> QED BY <3>1 DEF DeviceOK, Fresh
  <2> QED BY <2>1, <2>2
<1>7. FreshLast'
  <2> SUFFICES ASSUME NEW j \in DOMAIN heap', NEW k \in DOMAIN heap', j < k,
                      heap'[k].diag = TRUE, ~Fresh(k)'
               PROVE  ~Fresh(j)'
    BY DEF FreshLast
  <2>1. k \in DOMAIN heap
    BY DEF Arrival, Fresh
  <2>2. j \in DOMAIN heap
    <3>1. DOMAIN heap' \subseteq Nat
      BY DEF Arrival
    <3> QED BY <2>1, <3>1 DEF Arrival
  <2> QED BY <1>3, <2>1, <2>2 DEF CalmInd, FreshLast
<1>8. ASSUME NEW p \in Port PROVE PortOK(p)'
  <2>1. PortOK(p) /\ port'[p] = port[p]
    BY DEF CalmInd
  <2>2. 0 \notin DOMAIN heap /\ port[p].active \in {0} \cup DOMAIN heap /\ port[p].usb \in Pointer
    BY Objects, PortIs
  <2>3. port[p].usb = "live" => port[p].active \in DOMAIN heap
    BY <1>0, <2>1, <2>2 DEF PortOK
  <2> QED BY <1>0, <1>1, <1>3, <1>5, <2>1, <2>3 DEF PortOK
<1>9. ASSUME NEW t \in Thread PROVE ThreadOK(t)'
  <2>1. ThreadOK(t) /\ thr'[t] = thr[t] /\ port' = port
    BY DEF CalmInd
  <2>2. CASE thr[t].pc \in {"diag", "setflash", "close", "detach"}
    <3>3. thr[t].dev \in DOMAIN heap /\ heap[thr[t].dev].att = TRUE
      BY <2>2, OwnIs
    <3>4. heap'[thr[t].dev].status = heap[thr[t].dev].status
      BY <3>3 DEF Arrival
    <3> QED BY <1>4, <2>1, <2>2, <3>3, <3>4 DEF ThreadOK, Works
  <2>3. CASE thr[t].pc = "mark"
    <3>1. thr[t].dev \in DOMAIN heap /\ heap[thr[t].dev].fbh = "dead" /\ heap[thr[t].dev].att = TRUE
      BY <1>2, <2>1, <2>3 DEF ThreadOK, DeviceOK
    <3> QED BY <1>1, <1>4, <2>1, <2>3, <3>1 DEF ThreadOK, Works
  <2>4. CASE thr[t].pc \notin {"diag", "setflash", "close", "detach", "mark"}
    BY <2>1, <2>4 DEF ThreadOK, Works
  <2> QED BY <2>2, <2>3, <2>4
<1>10. OneWorker'
  BY <1>0 DEF CalmInd, OneWorker, Works
<1>11. \A p \in Port : Holds(p)' = Holds(p)
  BY <1>0 DEF Holds
<1>12. \A p \in Port : Holds(p) => port[p].active \in DOMAIN heap
  BY HeldIs
<1>13. Owned'
  BY <1>3, <1>11, <1>12 DEF CalmInd, Owned
<1>14. MapServed'
  <2> SUFFICES ASSUME NEW p \in Port, Diagging(p)', port'[p].map # 0, NEW d \in DOMAIN heap',
                      heap'[d].slot = port'[p].map
               PROVE  ~Valid(d)'
    BY DEF MapServed
  <2>1. PICK e \in DOMAIN heap : heap[e].slot = port[p].map
    BY DEF CalmInd, PortOK
  <2>2. d = e
    <3>1. OneObject' /\ DOMAIN heap \subseteq DOMAIN heap' /\ heap'[e].slot = heap'[d].slot
      BY <1>1, <1>3, <2>1, Parts DEF PortsInd
    <3>2. Listed' = DOMAIN heap'
      <4>1. heap' \in Seq(Object) /\ mDevintfList' \in Seq(DOMAIN heap')
        BY DEF PortsInd, Types
      <4>2. DOMAIN mDevintfList' = DOMAIN heap' /\ \A k \in DOMAIN mDevintfList' : mDevintfList'[k] = k
        BY <1>1, <4>1 DEF InOrder
      <4> QED BY <4>2 DEF Listed, Range
    <3> QED BY <3>1, <3>2 DEF OneObject
  <2>3. Diagging(p)
    <3>1. \A t \in Thread : thr[t].port = p /\ thr[t].pc = "begin" => port[p].active \in DOMAIN heap
      BY WorkerIs DEF Works
    <3> QED BY <1>0, <1>3, <3>1 DEF Diagging
  <2> QED BY <1>3, <2>1, <2>2, <2>3 DEF CalmInd, MapServed
<1> QED BY <1>0, <1>1, <1>6, <1>7, <1>8, <1>9, <1>10, <1>13, <1>14 DEF CalmInd


LEMMA ComCalm == ASSUME PortsInd, CalmInd, Calm, PortsInd', HandleComDevice PROVE CalmInd'
<1>1. ui.pc = "idle" /\ Receive("com") /\ UNCHANGED <<port, thr, bus, crashed, clicks, m_bWork>>
  BY DEF HandleComDevice, Receive
<1>2. ui'.pc \in {"idle", "port"} /\ ui'.dev = 0
  <2>1. ScheduleDeviceWork \/ UNCHANGED ui
    BY DEF HandleComDevice
  <2>2. ui.dev = 0
    BY <1>1 DEF CalmInd, UIOK, Gives
  <2> QED BY <1>1, <2>1, <2>2, OutIs
<1>3. CASE m_bWork = TRUE
  <2>1. Arrival
    BY <1>3, AddArrives DEF HandleComDevice
  <2>2. Begun'
    BY <1>1, <1>3, Later DEF CalmInd
  <2> QED BY <1>1, <1>2, <2>1, <2>2, ArrivalCalm
<1>4. CASE m_bWork = FALSE
  <2>1. UNCHANGED <<heap, mDevintfList, ui>>
    BY <1>4 DEF HandleComDevice
  <2>2. \A k \in DOMAIN msgs' : msgs'[k].kind # "removed"
    BY <1>1, NoRemoval DEF CalmInd
  <2> QED BY <1>1, <2>1, <2>2, BusStep
<1> QED BY <1>3, <1>4, Parts DEF Side

LEMMA EnumerateCalm == ASSUME PortsInd, CalmInd, Calm, PortsInd', EnumerateAdbDevice PROVE CalmInd'
<1>1. ui.pc = "idle" /\ Receive("fastboot") /\ UNCHANGED <<port, thr, bus, crashed, clicks, m_bWork>>
  BY DEF EnumerateAdbDevice, Receive
<1>2. ui'.pc \in {"idle", "port"} /\ ui'.dev = 0
  <2>1. ScheduleDeviceWork \/ UNCHANGED ui
    BY DEF EnumerateAdbDevice
  <2>2. ui.dev = 0
    BY <1>1 DEF CalmInd, UIOK, Gives
  <2> QED BY <1>1, <2>1, <2>2, OutIs
<1>3. CASE m_bWork = TRUE
  <2>1. AddDevice(Found, "fastboot") /\ Found \subseteq InMode("fastboot")
    BY <1>3 DEF EnumerateAdbDevice, Found
  <2>2. Arrival
    BY <2>1, AddArrives
  <2>3. Begun'
    BY <1>1, <1>3, Later DEF CalmInd
  <2> QED BY <1>1, <1>2, <2>2, <2>3, ArrivalCalm
<1>4. CASE m_bWork = FALSE
  <2>1. UNCHANGED <<heap, mDevintfList, ui>>
    BY <1>4 DEF EnumerateAdbDevice
  <2>2. \A k \in DOMAIN msgs' : msgs'[k].kind # "removed"
    BY <1>1, NoRemoval DEF CalmInd
  <2> QED BY <1>1, <2>1, <2>2, BusStep
<1> QED BY <1>3, <1>4, Parts DEF Side

LEMMA SetWorkCalm == ASSUME PortsInd, CalmInd, Calm, PortsInd', SetWork PROVE CalmInd'
<1>1. ui'.pc \in {"idle", "port"} /\ ui'.dev = 0
  BY OutIs DEF SetWork
<1>2. Arrival
  <2>1. CASE AddDevice(Found, "fastboot")
    <3>1. Found \subseteq InMode("fastboot")
      BY DEF Found
    <3> QED BY <2>1, <3>1, AddArrives
  <2>2. CASE AddDevice(InMode("diag"), "diag")
    BY <2>2, AddArrives
  <2> QED BY <2>1, <2>2 DEF SetWork
<1>3. Begun'
  BY Later DEF CalmInd, SetWork
<1> QED BY <1>1, <1>2, <1>3, ArrivalCalm DEF SetWork

-----------------------------------------------------------------------------
(* What ScheduleDeviceWork writes of its port. *)

LEMMA UiPortPut ==
    ASSUME PortsInd, CalmInd, NEW p \in Port, p = ui.i, ui.pc # "idle", NEW w,
           port' = [port EXCEPT ![p] = w], w.map = port[p].map,
           UNCHANGED <<bus, heap, mDevintfList, thr, msgs, clicks, crashed>>,
           ui'.pc = "port" \/ ui'.i = p,
           UIOK', PortOK(p)',
           \A t \in Thread : Works(t) /\ thr[t].port = p => Stage(thr[t].pc, w, thr[t]),
           w.stat # "IDLE" => Starting(p)' \/ \E t \in Thread : Works(t) /\ thr[t].port = p,
           Holds(p)' => Holds(p) /\ w.active = port[p].active,
           Diagging(p)' => Diagging(p)
    PROVE  CalmInd'
<1>1. port'[p] = w /\ \A q \in Port : q # p => port'[q] = port[q]
  BY Parts DEF Ports
<1>2. Begun'
  BY Later DEF CalmInd
<1>3. InOrder' /\ FreshLast' /\ \A d \in DOMAIN heap' : DeviceOK(d)'
  BY DEF CalmInd, InOrder, FreshLast, Fresh, DeviceOK
<1>4. \A q \in Port : q # p => /\ ~Taking(q) /\ ~Given(q) /\ ~Assigned(q) /\ ~Starting(q)
                               /\ ~Taking(q)' /\ ~Given(q)' /\ ~Assigned(q)' /\ ~Starting(q)'
  BY DEF Taking, Given, Assigned, Starting
<1>5. ASSUME NEW q \in Port PROVE PortOK(q)'
  <2>1. CASE q # p
    BY <1>1, <1>4, <2>1 DEF CalmInd, PortOK
  <2> QED BY <2>1
<1>6. ASSUME NEW t \in Thread PROVE ThreadOK(t)'
  <2>1. Works(t) => Stage(thr[t].pc, port'[thr[t].port], thr[t])
    <3> SUFFICES ASSUME Works(t) PROVE Stage(thr[t].pc, port'[thr[t].port], thr[t])
      OBVIOUS
    <3>1. thr[t].port \in Port /\ Stage(thr[t].pc, port[thr[t].port], thr[t])
      BY WorkerIs
    <3>2. CASE thr[t].port = p
      BY <1>1, <3>2
    <3>3. CASE thr[t].port # p
      BY <1>1, <3>1, <3>3
    <3> QED BY <3>2, <3>3
  <2>2. ThreadOK(t)
    BY DEF CalmInd
  <2> QED BY <2>1, <2>2 DEF ThreadOK, Works
<1>7. OneWorker'
  <2>1. \A t \in Thread : Works(t)' = Works(t)
    BY DEF Works
  <2>2. ASSUME NEW q \in Port, port'[q].stat # "IDLE"
        PROVE  Starting(q)' \/ \E t \in Thread : Works(t) /\ thr[t].port = q
    <3>1. CASE q # p
      BY <1>1, <1>4, <2>2, <3>1 DEF CalmInd, OneWorker
    <3>2. CASE q = p
      BY <1>1, <2>2, <3>2
    <3> QED BY <3>1, <3>2
  <2> QED BY <2>1, <2>2 DEF CalmInd, OneWorker
<1>8. \A q \in Port : Holds(q)' => Holds(q) /\ port'[q].active = port[q].active
  <2>1. \A q \in Port : q # p /\ Holds(q)' => Holds(q) /\ port'[q].active = port[q].active
    BY <1>1, <1>4 DEF Holds
  <2> QED BY <1>1, <2>1
<1>9. Owned'
  BY <1>8 DEF CalmInd, Owned
<1>10. \A q \in Port : (Diagging(q)' => Diagging(q)) /\ port'[q].map = port[q].map
  <2>1. \A q \in Port : q # p /\ Diagging(q)' => Diagging(q)
    BY <1>1, <1>4 DEF Diagging
  <2> QED BY <1>1, <2>1
<1>11. MapServed'
  BY <1>10 DEF CalmInd, MapServed, Valid
<1> QED BY <1>2, <1>3, <1>5, <1>6, <1>7, <1>9, <1>11 DEF CalmInd

\* What SetDevSwitchEvt finds of the worker whose wait it ends.
LEMMA EndingIs ==
    ASSUME PortsInd, CalmInd, Ending(ui.i), NEW t \in Thread, Works(t), thr[t].port = ui.i
    PROVE  thr[t].pc \notin Early
<1>1. PICK u \in Thread : Works(u) /\ thr[u].port = ui.i /\ thr[u].pc \notin Early
  BY DEF CalmInd, UIOK, Ends
<1> QED BY <1>1 DEF CalmInd, OneWorker

\* A port that was given a device and is not started has no worker.
LEMMA IdlePort ==
    ASSUME PortsInd, CalmInd, NEW p \in Port, port[p].stat = "IDLE", NEW t \in Thread, thr[t].port = p
    PROVE  ~Works(t)
BY WorkerIs

LEMMA SetDevSwitchEvtCalm == ASSUME PortsInd, CalmInd, SetDevSwitchEvt PROVE CalmInd'
<1> DEFINE p == ui.i
           w == [port[p] EXCEPT !.stat = "WORKING"]
<1>1. /\ ui.pc = "signal" /\ port' = [port EXCEPT ![p] = w] /\ ui' = [ui EXCEPT !.pc = "test"]
      /\ UNCHANGED <<bus, heap, mDevintfList, thr, msgs, clicks, crashed>>
  BY DEF SetDevSwitchEvt, poolVars
<1>2. p \in Port /\ PortOK(p) /\ port[p] \in PortRec(DOMAIN heap)
  BY <1>1, UIIs, PortIs DEF AtPorts, UISteps, CalmInd
<1>3. ui'.pc = "test" /\ ui'.i = p /\ ui'.dev = 0
  BY <1>1, UIIs DEF UiRec, CalmInd, UIOK, Gives
<1>4. /\ port[p].stat \in {"SWITCH", "FINISH"} /\ port[p].usb = "null" /\ ui.dev = 0
      /\ heap[port[p].active].status = "FLASH" /\ heap[port[p].active].att = FALSE
      /\ Ending(p)
  BY <1>1 DEF CalmInd, UIOK, Ends, Ending, Gives
<1>5. /\ w.stat = "WORKING" /\ w.usb = "null" /\ w.active = port[p].active /\ w.map = port[p].map
      /\ w.evt = port[p].evt
  BY <1>2, <1>4 DEF PortRec
<1> HIDE DEF w
<1>6. port'[p] = w
  BY <1>1, <1>2, Parts DEF Ports
<1>7. PICK t \in Thread : Works(t) /\ thr[t].port = p /\ thr[t].pc \notin Early
  BY <1>4 DEF CalmInd, UIOK, Ends
<1>8. UIOK'
  <2>1. Ends'
    BY <1>1, <1>3, <1>4, <1>5, <1>6, <1>7 DEF Ends, Ending, Works
  <2>2. Looked' /\ Chosen' /\ Gives'
    BY <1>3 DEF Looked, Chosen, Choosing, Gives, Given
  <2> QED BY <2>1, <2>2 DEF UIOK
<1>9. PortOK(p)'
  BY <1>1, <1>2, <1>4, <1>5, <1>6 DEF PortOK
<1>10. ASSUME NEW u \in Thread, Works(u), thr[u].port = p PROVE Stage(thr[u].pc, w, thr[u])
  <2>1. thr[u].pc \notin Early
    BY <1>4, <1>10, EndingIs
  <2>2. Stage(thr[u].pc, port[p], thr[u])
    BY <1>10, WorkerIs
  <2> QED BY <1>4, <1>5, <2>1, <2>2 DEF Stage, Early
<1>11. ~Holds(p)'
  BY <1>3 DEF Holds, Taking
<1>12. Diagging(p)' => Diagging(p)
  BY <1>1, <1>3, <1>5, <1>6 DEF Diagging, Assigned, Starting
<1> QED BY <1>1, <1>2, <1>3, <1>5, <1>7, <1>8, <1>9, <1>10, <1>11, <1>12, UiPortPut

\* The port is idle, unless its worker is inside Finish.
LEMMA SetDeviceCalm == ASSUME PortsInd, CalmInd, SetDevice, ~FinishRace PROVE CalmInd'
<1> DEFINE p == ui.i
           w == [port[p] EXCEPT !.active = ui.dev]
<1>1. /\ ui.pc = "set" /\ port' = [port EXCEPT ![p] = w] /\ ui' = [ui EXCEPT !.pc = "usb"]
      /\ UNCHANGED <<bus, heap, mDevintfList, thr, msgs, clicks, crashed>>
  BY DEF SetDevice, poolVars
<1>2. p \in Port /\ PortOK(p) /\ port[p] \in PortRec(DOMAIN heap)
  BY <1>1, UIIs, PortIs DEF AtPorts, UISteps, CalmInd
<1>3. ui'.pc = "usb" /\ ui'.i = p /\ ui'.dev = ui.dev
  BY <1>1, UIIs DEF UiRec
<1>4. port[p].stat = "IDLE" /\ Waits /\ ui.dev # 0
  <2>1. port[p].stat # "FINISH"
    BY <1>1, <1>3 DEF FinishRace
  <2> QED BY <1>1, <2>1 DEF CalmInd, UIOK, Gives, Chosen, Choosing
<1>5. port[p].usb = "null" /\ port[p].evt = FALSE
  BY <1>1, <1>2, <1>4 DEF PortOK, Given
<1>6. /\ w.stat = "IDLE" /\ w.usb = "null" /\ w.active = ui.dev /\ w.map = port[p].map /\ w.evt = FALSE
  BY <1>2, <1>4, <1>5 DEF PortRec
<1> HIDE DEF w
<1>7. port'[p] = w
  BY <1>1, <1>2, Parts DEF Ports
<1>8. UIOK'
  <2>1. Chosen'
    BY <1>1, <1>3, <1>4 DEF Chosen, Waits, Valid
  <2>2. Gives'
    BY <1>3, <1>4, <1>6, <1>7 DEF Gives, Given
  <2>3. Looked' /\ Ends'
    BY <1>3, <1>4 DEF Looked, Ends, Ending
  <2> QED BY <2>1, <2>2, <2>3 DEF UIOK
<1>9. PortOK(p)'
  BY <1>1, <1>2, <1>3, <1>4, <1>6, <1>7 DEF PortOK, Given
<1>10. \A u \in Thread : Works(u) => thr[u].port # p
  BY <1>2, <1>4, IdlePort
<1>11. ~Holds(p)'
  BY <1>3 DEF Holds, Taking
<1>12. ~Diagging(p)'
  <2>1. \A u \in Thread : thr[u].port = p => thr[u].pc \notin {"begin", "diag", "setflash", "close"}
    BY <1>10 DEF Works
  <2> QED BY <1>1, <1>3, <1>6, <1>7, <2>1 DEF Diagging, Assigned, Starting
<1> QED BY <1>1, <1>2, <1>3, <1>6, <1>8, <1>9, <1>10, <1>11, <1>12, UiPortPut

LEMMA UpdateUsbHandleCalm == ASSUME PortsInd, CalmInd, UpdateUsbHandle PROVE CalmInd'
<1> DEFINE p == ui.i
           a == port[p].active
           h == GetUsbHandle(heap[a])
           w == [port[p] EXCEPT !.usb = h]
<1>1. /\ ui.pc = "usb" /\ port' = [port EXCEPT ![p] = w] /\ ui' = [ui EXCEPT !.pc = "attach"]
      /\ UNCHANGED <<bus, heap, mDevintfList, thr, msgs, clicks, crashed>>
  BY DEF UpdateUsbHandle, poolVars, MyUIPort
<1>2. p \in Port /\ PortOK(p) /\ port[p] \in PortRec(DOMAIN heap) /\ 0 \notin DOMAIN heap
  BY <1>1, UIIs, PortIs, Objects DEF AtPorts, UISteps, CalmInd
<1>3. ui'.pc = "attach" /\ ui'.i = p /\ ui'.dev = ui.dev
  BY <1>1, UIIs DEF UiRec
<1>4. /\ ui.dev = 0 => /\ port[p].stat \in {"WORKING", "FINISH"} /\ port[p].usb = "null" /\ Ending(p)
                       /\ heap[a].status = "FLASH" /\ heap[a].att = FALSE
      /\ ui.dev # 0 => port[p].stat = "IDLE" /\ a = ui.dev /\ Waits
  BY <1>1 DEF CalmInd, UIOK, Ends, Ending, Gives, Given, Chosen, Choosing
<1>5. a \in DOMAIN heap /\ Valid(a)
  BY <1>2, <1>4 DEF PortOK, Waits, Valid, Waiting
<1>6. h = heap[a].fbh /\ h # "dead" /\ h \in Pointer /\ (h = "live" => heap[a].status = "FLASH")
  <2>1. DeviceOK(a) /\ heap[a].fb \in BOOLEAN /\ heap[a].fbh \in Pointer
    BY <1>5, ObjectIs DEF CalmInd
  <2> QED BY <1>5, <2>1 DEF DeviceOK, GetUsbHandle, Valid, Waiting
<1> HIDE DEF h
<1>7. /\ w.stat = port[p].stat /\ w.usb = h /\ w.active = a /\ w.map = port[p].map
      /\ w.evt = port[p].evt
  BY <1>2 DEF PortRec
<1> HIDE DEF w
<1>8. port'[p] = w
  BY <1>1, <1>2, Parts DEF Ports
<1>9. UIOK'
  <2>1. Chosen'
    BY <1>1, <1>3, <1>4 DEF Chosen, Choosing, Waits, Valid
  <2>2. Gives'
    BY <1>3, <1>4, <1>7, <1>8 DEF Gives, Given
  <2>3. Ends'
    BY <1>1, <1>3, <1>4, <1>7, <1>8 DEF CalmInd, UIOK, Ends, Ending, Works
  <2>4. Looked'
    BY <1>3 DEF Looked
  <2> QED BY <2>1, <2>2, <2>3, <2>4 DEF UIOK
<1>10. PortOK(p)'
  BY <1>1, <1>2, <1>3, <1>4, <1>5, <1>6, <1>7, <1>8 DEF PortOK, Given, Pointer
<1>11. ASSUME NEW u \in Thread, Works(u), thr[u].port = p PROVE Stage(thr[u].pc, w, thr[u])
  <2>1. Stage(thr[u].pc, port[p], thr[u]) /\ port[p].stat # "IDLE"
    BY <1>11, WorkerIs
  <2>2. thr[u].pc # "flash" /\ port[p].usb = "null"
    BY <1>4, <2>1 DEF Stage
  <2> QED BY <1>7, <2>1, <2>2 DEF Stage
<1>12. ~Holds(p)'
  BY <1>3 DEF Holds, Taking
<1>13. Diagging(p)' => Diagging(p)
  BY <1>1, <1>3, <1>7, <1>8 DEF Diagging, Assigned, Starting
<1>14. w.stat # "IDLE" => \E t \in Thread : Works(t) /\ thr[t].port = p
  BY <1>1, <1>2, <1>7 DEF CalmInd, OneWorker, Starting
<1> QED BY <1>1, <1>2, <1>3, <1>7, <1>9, <1>10, <1>11, <1>12, <1>13, <1>14, UiPortPut

LEMMA SetStatusCalm == ASSUME PortsInd, CalmInd, SetStatus PROVE CalmInd'
<1> DEFINE p == ui.i
           w == [port[p] EXCEPT !.stat = "WORKING"]
<1>1. /\ ui.pc = "status" /\ port' = [port EXCEPT ![p] = w] /\ ui' = [ui EXCEPT !.pc = "begin"]
      /\ UNCHANGED <<bus, heap, mDevintfList, thr, msgs, clicks, crashed>>
  BY DEF SetStatus, poolVars
<1>2. p \in Port /\ PortOK(p) /\ port[p] \in PortRec(DOMAIN heap) /\ 0 \notin DOMAIN heap
  BY <1>1, UIIs, PortIs, Objects DEF AtPorts, UISteps, CalmInd
<1>3. ui'.pc = "begin" /\ ui'.i = p /\ ui'.dev = ui.dev
  BY <1>1, UIIs DEF UiRec
<1>4. port[p].stat = "IDLE" /\ port[p].active = ui.dev /\ ui.dev \in DOMAIN heap
  <2>1. ui.dev # 0
    BY <1>1 DEF CalmInd, UIOK, Gives
  <2>2. Given(p)
    BY <1>1, <2>1 DEF Given
  <2> QED BY <2>1, <2>2, UIIs DEF CalmInd, UIOK, Gives
<1>5. /\ w.stat = "WORKING" /\ w.usb = port[p].usb /\ w.active = ui.dev /\ w.map = port[p].map
      /\ w.evt = FALSE
  <2>1. port[p].evt = FALSE
    BY <1>2, <1>4 DEF PortOK
  <2> QED BY <1>2, <1>4, <2>1 DEF PortRec
<1> HIDE DEF w
<1>6. port'[p] = w
  BY <1>1, <1>2, Parts DEF Ports
<1>7. \A u \in Thread : Works(u) => thr[u].port # p
  BY <1>2, <1>4, IdlePort
<1>8. UIOK'
  <2>1. Gives'
    BY <1>1, <1>3, <1>5, <1>6, <1>7 DEF Gives, Given, Works
  <2>2. Looked' /\ Chosen' /\ Ends'
    BY <1>3 DEF Looked, Chosen, Choosing, Ends, Ending
  <2> QED BY <2>1, <2>2 DEF UIOK
<1>9. PortOK(p)'
  BY <1>1, <1>2, <1>4, <1>5, <1>6 DEF PortOK
<1>10. Starting(p)' /\ Holds(p)
  BY <1>1, <1>3 DEF Starting, Holds, Assigned, Taking
<1>11. Diagging(p)' => Diagging(p)
  BY <1>1, <1>3, <1>4, <1>5, <1>6 DEF Diagging, Assigned, Starting
<1> QED BY <1>1, <1>2, <1>3, <1>4, <1>5, <1>7, <1>8, <1>9, <1>10, <1>11, UiPortPut

LEMMA SetEventCalm == ASSUME PortsInd, CalmInd, SetEvent PROVE CalmInd'
<1>0. PICK p \in Port : p = ui.i
  <2>1. ui.pc \in AtPorts
    BY DEF SetEvent, AtPorts, UISteps
  <2> QED BY <2>1, UIIs
<1> DEFINE w == [port[p] EXCEPT !.evt = TRUE]
<1>1. /\ ui.pc = "event" /\ port' = [port EXCEPT ![p] = w] /\ NextPort
      /\ UNCHANGED <<bus, heap, mDevintfList, thr, msgs, clicks, crashed>>
  BY <1>0 DEF SetEvent, MyUIPort, poolVars
<1>2. p \in Port /\ PortOK(p) /\ port[p] \in PortRec(DOMAIN heap)
  BY PortIs DEF CalmInd
<1>3. ui'.pc = "port" /\ UIOK'
  BY <1>1, OutIs DEF NextPort, AtPort
<1>4. Ending(p)
  BY <1>0, <1>1 DEF Ending, CalmInd, UIOK, Gives
<1>5. /\ w.stat = port[p].stat /\ w.usb = port[p].usb /\ w.active = port[p].active
      /\ w.map = port[p].map
  BY <1>2 DEF PortRec
<1> HIDE DEF w
<1>6. port'[p] = w
  BY <1>1, <1>2, Parts DEF Ports
<1>7. PICK t \in Thread : Works(t) /\ thr[t].port = p
  BY <1>0, <1>4 DEF CalmInd, UIOK, Ends
<1>8. port[p].stat # "IDLE"
  BY <1>7, WorkerIs
<1>9. PortOK(p)'
  BY <1>1, <1>2, <1>5, <1>6, <1>8 DEF PortOK
<1>10. ASSUME NEW u \in Thread, Works(u), thr[u].port = p PROVE Stage(thr[u].pc, w, thr[u])
  <2>1. thr[u].pc \notin Early /\ Stage(thr[u].pc, port[p], thr[u])
    BY <1>0, <1>4, <1>10, EndingIs, WorkerIs
  <2> QED BY <1>5, <2>1 DEF Stage
<1>11. Holds(p)' => Holds(p)
  BY <1>1, <1>3, <1>5, <1>6 DEF Holds, Taking, Assigned
<1>12. Diagging(p)' => Diagging(p)
  BY <1>1, <1>3, <1>5, <1>6 DEF Diagging, Assigned, Starting
<1> QED BY <1>0, <1>1, <1>2, <1>3, <1>5, <1>7, <1>9, <1>10, <1>11, <1>12, UiPortPut

LEMMA StartFailsCalm == ASSUME PortsInd, CalmInd, StartFails PROVE CalmInd'
<1>0. PICK p \in Port : p = ui.i
  <2>1. ui.pc \in AtPorts
    BY DEF StartFails, AtPorts, UISteps
  <2> QED BY <2>1, UIIs
<1> DEFINE w == Cleaned(port[p])
<1>1. /\ ui.pc = "begin" /\ port' = [port EXCEPT ![p] = w] /\ NextPort
      /\ UNCHANGED <<bus, heap, mDevintfList, thr, msgs, clicks, crashed>>
  BY <1>0 DEF StartFails, MyUIPort, poolVars
<1>2. p \in Port /\ PortOK(p) /\ port[p] \in PortRec(DOMAIN heap)
  BY PortIs DEF CalmInd
<1>3. ui'.pc = "port" /\ UIOK'
  BY <1>1, OutIs DEF NextPort, AtPort
<1>4. /\ w.stat = "IDLE" /\ w.usb = "null" /\ w.active = 0 /\ w.map = port[p].map /\ w.evt = FALSE
  BY <1>2 DEF PortRec, Cleaned
<1> HIDE DEF w
<1>5. port'[p] = w
  BY <1>1, <1>2, Parts DEF Ports
<1>6. \A u \in Thread : Works(u) => thr[u].port # p
  BY <1>0, <1>1 DEF CalmInd, UIOK, Gives
<1>7. PortOK(p)'
  BY <1>1, <1>2, <1>4, <1>5 DEF PortOK
<1>8. \A u \in Thread : thr[u].port = p =>
        thr[u].pc \notin {"begin", "diag", "setflash", "close", "detach"}
  BY <1>6 DEF Works
<1>9. ~Holds(p)' /\ ~Diagging(p)'
  BY <1>1, <1>3, <1>4, <1>5, <1>8 DEF Holds, Diagging, Taking, Assigned, Starting
<1> QED BY <1>0, <1>1, <1>2, <1>3, <1>4, <1>6, <1>7, <1>9, UiPortPut

LEMMA StartCalm == ASSUME PortsInd, CalmInd, Start PROVE CalmInd'
<1>0. PICK p \in Port : p = ui.i
  <2>1. ui.pc \in AtPorts
    BY DEF Start, AtPorts, UISteps
  <2> QED BY <2>1, UIIs
<1> DEFINE w == [port[p] EXCEPT !.work = TRUE]
<1>1. /\ ui.pc = "work" /\ port' = [port EXCEPT ![p] = w] /\ NextPort
      /\ UNCHANGED <<bus, heap, mDevintfList, thr, msgs, clicks, crashed>>
  BY <1>0 DEF Start, MyUIPort, poolVars
<1>2. p \in Port /\ PortOK(p) /\ port[p] \in PortRec(DOMAIN heap)
  BY PortIs DEF CalmInd
<1>3. ui'.pc = "port" /\ UIOK'
  BY <1>1, OutIs DEF NextPort, AtPort
<1>4. /\ w.stat = port[p].stat /\ w.usb = port[p].usb /\ w.active = port[p].active
      /\ w.map = port[p].map /\ w.evt = port[p].evt
  BY <1>2 DEF PortRec
<1> HIDE DEF w
<1>5. port'[p] = w
  BY <1>1, <1>2, Parts DEF Ports
<1>6. port[p].stat # "IDLE"
  BY <1>0, <1>1 DEF CalmInd, UIOK, Gives
<1>7. PICK t \in Thread : Works(t) /\ thr[t].port = p
  BY <1>1, <1>2, <1>6 DEF CalmInd, OneWorker, Starting
<1>8. PortOK(p)'
  BY <1>1, <1>2, <1>4, <1>5, <1>6 DEF PortOK
<1>9. ASSUME NEW u \in Thread, Works(u), thr[u].port = p PROVE Stage(thr[u].pc, w, thr[u])
  <2>1. Stage(thr[u].pc, port[p], thr[u])
    BY <1>9, WorkerIs
  <2> QED BY <1>4, <2>1 DEF Stage
<1>10. Holds(p)' => Holds(p)
  BY <1>1, <1>3, <1>4, <1>5 DEF Holds, Taking, Assigned
<1>11. Diagging(p)' => Diagging(p)
  BY <1>1, <1>3, <1>4, <1>5 DEF Diagging, Assigned, Starting
<1> QED BY <1>0, <1>1, <1>2, <1>3, <1>4, <1>7, <1>8, <1>9, <1>10, <1>11, UiPortPut

LEMMA SetAttachStatusCalm == ASSUME PortsInd, CalmInd, SetAttachStatus PROVE CalmInd'
<1>0. PICK p \in Port : p = ui.i
  <2>1. ui.pc \in AtPorts
    BY DEF SetAttachStatus, AtPorts, UISteps
  <2> QED BY <2>1, UIIs
<1> DEFINE a == port[p].active
           o == [heap[a] EXCEPT !.att = TRUE]
<1>1. /\ ui.pc = "attach" /\ heap' = [heap EXCEPT ![a].att = TRUE]
      /\ ui' = [ui EXCEPT !.pc = IF ui.dev = 0 THEN "event" ELSE "status"]
      /\ UNCHANGED <<bus, mDevintfList, port, thr, msgs, clicks, m_bWork, crashed>>
  BY <1>0 DEF SetAttachStatus, MyUIPort, AfterAttach
<1>2. /\ ui'.pc = (IF ui.dev = 0 THEN "event" ELSE "status") /\ ui'.i = p /\ ui'.dev = ui.dev
  BY <1>0, <1>1, UIIs DEF UiRec
<1>3. PortOK(p) /\ 0 \notin DOMAIN heap
  BY Objects DEF CalmInd
<1>4. /\ ui.dev = 0 => /\ port[p].stat \in {"WORKING", "FINISH"} /\ Ending(p)
                       /\ heap[a].status = "FLASH" /\ heap[a].att = FALSE
      /\ ui.dev # 0 => port[p].stat = "IDLE" /\ a = ui.dev /\ Waits
  BY <1>0, <1>1 DEF CalmInd, UIOK, Ends, Ending, Gives, Given, Chosen, Choosing
<1>5. a \in DOMAIN heap /\ Valid(a)
  BY <1>3, <1>4 DEF PortOK, Waits, Valid, Waiting
<1>6. /\ DOMAIN heap' = DOMAIN heap /\ Len(heap') = Len(heap)
      /\ \A e \in DOMAIN heap :
           /\ heap'[e].slot = heap[e].slot /\ heap'[e].diag = heap[e].diag
           /\ heap'[e].fb = heap[e].fb /\ heap'[e].fbh = heap[e].fbh
           /\ heap'[e].status = heap[e].status
           /\ e # a => heap'[e].att = heap[e].att
      /\ heap'[a].att = TRUE
  <2>1. heap' = [heap EXCEPT ![a] = o] /\ heap \in Seq(Object)
    BY <1>1, Parts
  <2>2. /\ o.slot = heap[a].slot /\ o.diag = heap[a].diag /\ o.fb = heap[a].fb /\ o.fbh = heap[a].fbh
        /\ o.status = heap[a].status /\ o.att = TRUE /\ o \in Object
    BY <1>5, ObjectIs DEF Object
  <2> HIDE DEF o
  <2>3. DOMAIN heap' = DOMAIN heap /\ Len(heap') = Len(heap)
    BY <1>5, <2>1, <2>2
  <2> QED BY <1>5, <2>1, <2>2, <2>3
<1>7. Begun'
  BY <1>1, Later DEF CalmInd
<1>8. \A e \in DOMAIN heap : (Fresh(e)' <=> Fresh(e) /\ e # a) /\ (Valid(e)' => Valid(e))
  BY <1>6 DEF Fresh, Valid
<1>9. InOrder'
  BY <1>1, <1>6 DEF CalmInd, InOrder
<1>10. FreshLast'
  <2> SUFFICES ASSUME NEW j \in DOMAIN heap, NEW k \in DOMAIN heap, j < k, heap'[k].diag = TRUE,
                      ~Fresh(k)', Fresh(j)'
               PROVE  FALSE
    BY <1>6 DEF FreshLast
  <2>1. heap[k].diag = TRUE /\ Fresh(j) /\ FreshLast
    BY <1>6, <1>8 DEF CalmInd
  <2>2. k = a /\ Fresh(a)
    BY <1>8, <2>1 DEF FreshLast
  <2>3. ui.dev # 0 /\ a = ui.dev /\ Waits
    BY <1>4, <2>2 DEF Fresh
  <2> QED BY <2>1, <2>2, <2>3 DEF Waits, Fresh, Valid, Waiting
<1>11. ASSUME NEW d \in DOMAIN heap' PROVE DeviceOK(d)'
  <2>1. DeviceOK(d) /\ bus' = bus /\ d \in DOMAIN heap
    BY <1>1, <1>6 DEF CalmInd
  <2> QED BY <1>6, <1>8, <2>1 DEF DeviceOK
<1>12. \A q \in Port : Given(q) => Given(q)'
  BY <1>0, <1>1, <1>2 DEF Given
<1>13. ASSUME NEW q \in Port PROVE PortOK(q)'
  <2>1. PortOK(q) /\ port'[q] = port[q]
    BY <1>1 DEF CalmInd
  <2>2. port[q].usb = "live" => port[q].active \in DOMAIN heap
    BY <1>3, <2>1, UIIs DEF PortOK, CalmInd, UIOK, Gives, Given
  <2> QED BY <1>6, <1>12, <2>1, <2>2 DEF PortOK
<1>14. ASSUME NEW u \in Thread PROVE ThreadOK(u)'
  <2>1. thr[u].pc \in {"diag", "setflash", "close", "detach"} => thr[u].dev \in DOMAIN heap
    BY OwnIs
  <2>2. ThreadOK(u) /\ thr'[u] = thr[u] /\ port' = port
    BY <1>1 DEF CalmInd
  <2>3. thr[u].pc = "mark" => heap'[thr[u].dev].fbh = "dead" /\ thr[u].dev \in DOMAIN heap
    BY <1>6, <2>2 DEF ThreadOK
  <2> QED BY <1>6, <2>1, <2>2, <2>3 DEF ThreadOK, Works
<1>15. \A q \in Port : ~Starting(q) /\ ~Starting(q)'
  BY <1>1, <1>2 DEF Starting
<1>16. OneWorker'
  BY <1>1, <1>15 DEF CalmInd, OneWorker, Works
<1>17. \A q \in Port : q # p => (Holds(q)' <=> Holds(q)) /\ ~Assigned(q)' /\ ~Assigned(q)
  BY <1>0, <1>1, <1>2 DEF Holds, Taking, Assigned
<1>18. \A q \in Port : q # p /\ Holds(q) => port[q].active \in DOMAIN heap /\ port[q].active # a
  BY <1>5, HeldIs DEF Valid
<1>19. Owned'
  BY <1>1, <1>6, <1>17, <1>18 DEF CalmInd, Owned
<1>20. ASSUME NEW q \in Port, Diagging(q)'
       PROVE  Diagging(q) \/ (q = p /\ ui.dev # 0 /\ heap[a].status = "PLUGIN")
  <2>1. CASE port'[q].stat = "SWITCH"
    BY <1>1, <2>1 DEF Diagging
  <2>2. CASE Assigned(q)' /\ heap'[port'[q].active].status = "PLUGIN"
    <3>1. q = p /\ ui'.pc = "status"
      BY <1>17, <2>2 DEF Assigned
    <3>2. ui.dev # 0 /\ port'[q].active = a
      BY <1>1, <1>2, <3>1
    <3>3. heap'[a].status = heap[a].status
      BY <1>5, <1>6
    <3> QED BY <2>2, <3>1, <3>2, <3>3
  <2>3. ASSUME NEW u \in Thread, thr'[u].port = q,
               \/ thr'[u].pc \in {"diag", "setflash", "close"}
               \/ thr'[u].pc = "begin" /\ heap'[port'[q].active].status = "PLUGIN"
        PROVE  Diagging(q)
    <3>1. thr[u].pc = "begin" => port[thr[u].port].active \in DOMAIN heap
      BY WorkerIs DEF Works
    <3> QED BY <1>1, <1>6, <2>3, <3>1 DEF Diagging
  <2> QED BY <1>15, <1>20, <2>1, <2>2, <2>3 DEF Diagging
<1>21. MapServed'
  <2> SUFFICES ASSUME NEW q \in Port, Diagging(q)', port[q].map # 0, NEW d \in DOMAIN heap,
                      heap[d].slot = port[q].map, Valid(d)
               PROVE  FALSE
    BY <1>1, <1>6, <1>8 DEF MapServed
  <2>1. q = p /\ ui.dev # 0 /\ heap[a].status = "PLUGIN"
    BY <1>20 DEF CalmInd, MapServed
  <2>2. d \in DOMAIN heap /\ heap[d].diag = TRUE /\ heap[d].fb = TRUE
    BY <2>1, Objects DEF CalmInd, PortOK
  <2>3. heap[d].status # "PLUGIN"
    BY <2>2 DEF CalmInd, DeviceOK
  <2>4. Fresh(a) /\ ~Fresh(d) /\ d # a
    BY <1>5, <2>1, <2>3 DEF Fresh, Valid
  <2>5. ~(d < a)
    BY <1>4, <2>1, <2>2 DEF Waits
  <2>6. ~(a < d)
    BY <1>5, <2>2, <2>4 DEF CalmInd, FreshLast
  <2>7. a \in Nat /\ d \in Nat
    BY <1>5, Objects
  <2> QED BY <2>4, <2>5, <2>6, <2>7
<1>22. UIOK'
  <2>1. Ends'
    BY <1>0, <1>1, <1>2, <1>4 DEF CalmInd, UIOK, Ends, Ending, Works
  <2>2. Gives'
    BY <1>1, <1>2, <1>4 DEF Gives, Given
  <2>3. Looked' /\ Chosen'
    BY <1>2 DEF Looked, Chosen, Choosing
  <2> QED BY <2>1, <2>2, <2>3 DEF UIOK
<1> QED BY <1>1, <1>7, <1>9, <1>10, <1>11, <1>13, <1>14, <1>16, <1>19, <1>21, <1>22 DEF CalmInd

LEMMA AfxBeginThreadCalm == ASSUME PortsInd, CalmInd, AfxBeginThread PROVE CalmInd'
<1>0. PICK p \in Port : p = ui.i
  <2>1. ui.pc \in AtPorts
    BY DEF AfxBeginThread, AtPorts, UISteps
  <2> QED BY <2>1, UIIs
<1>3. PICK t \in Thread : t = Min(FreeThreads) /\ thr[t].pc = "none"
  <2>1. FreeThreads \subseteq Nat /\ FreeThreads # {}
    BY PortsAssumption DEF FreeThreads, Thread, AfxBeginThread
  <2>2. Min(FreeThreads) \in FreeThreads
    BY <2>1, MinIn
  <2> QED BY <2>2 DEF FreeThreads
<1> DEFINE r == [NoThread EXCEPT !.pc = "begin", !.port = p]
<1>1. /\ ui.pc = "begin" /\ thr' = [thr EXCEPT ![t] = r] /\ ui' = [ui EXCEPT !.pc = "work"]
      /\ UNCHANGED <<bus, heap, mDevintfList, port, msgs, clicks, m_bWork, crashed>>
  BY <1>0, <1>3 DEF AfxBeginThread, poolVars
<1>2. ui'.pc = "work" /\ ui'.i = p /\ ui'.dev = ui.dev
  BY <1>0, <1>1, UIIs DEF UiRec
<1>4. r.pc = "begin" /\ r.port = p /\ r.ok = FALSE
  BY DEF NoThread
<1> HIDE DEF r
<1>5. thr'[t] = r /\ \A u \in Thread : u # t => thr'[u] = thr[u]
  BY <1>1, <1>3, Parts DEF Threads
<1>6. /\ port[p].stat = "WORKING" /\ port[p].evt = FALSE
      /\ \A u \in Thread : Works(u) => thr[u].port # p
      /\ Starting(p)
  BY <1>0, <1>1 DEF CalmInd, UIOK, Gives, Starting
<1>7. Begun'
  BY <1>1, Later DEF CalmInd
<1>8. InOrder' /\ FreshLast' /\ \A d \in DOMAIN heap' : DeviceOK(d)'
  BY <1>1 DEF CalmInd, InOrder, FreshLast, Fresh, DeviceOK
<1>9. \A q \in Port : /\ ~Taking(q) /\ ~Given(q) /\ ~Assigned(q) /\ (q # p => ~Starting(q))
                      /\ ~Taking(q)' /\ ~Given(q)' /\ ~Assigned(q)' /\ ~Starting(q)'
  BY <1>0, <1>1, <1>2 DEF Taking, Given, Assigned, Starting
<1>10. \A q \in Port : PortOK(q)'
  BY <1>1, <1>9 DEF CalmInd, PortOK
<1>11. ASSUME NEW u \in Thread PROVE ThreadOK(u)'
  <2>1. CASE u = t
    <3>1. Stage("begin", port[p], r)
      BY <1>4, <1>6 DEF Stage
    <3> QED BY <1>1, <1>4, <1>5, <2>1, <3>1 DEF ThreadOK, Works
  <2>2. CASE u # t
    BY <1>1, <1>5, <2>2 DEF CalmInd, ThreadOK, Works
  <2> QED BY <2>1, <2>2
<1>12. Works(t)' /\ \A u \in Thread : u # t => Works(u)' = Works(u) /\ thr'[u].port = thr[u].port
  BY <1>4, <1>5 DEF Works
<1>13. OneWorker'
  <2>1. \A u, v \in Thread : Works(u)' /\ Works(v)' /\ thr'[u].port = thr'[v].port => u = v
    BY <1>4, <1>5, <1>6, <1>12 DEF CalmInd, OneWorker
  <2>2. ASSUME NEW q \in Port, port'[q].stat # "IDLE"
        PROVE  \E u \in Thread : Works(u)' /\ thr'[u].port = q
    <3>1. CASE q = p
      BY <1>3, <1>4, <1>5, <1>12, <3>1
    <3>2. CASE q # p
      <4>1. PICK u \in Thread : Works(u) /\ thr[u].port = q
        BY <1>1, <1>9, <2>2, <3>2 DEF CalmInd, OneWorker
      <4>2. u # t
        BY <1>3, <4>1 DEF Works
      <4> QED BY <1>12, <4>1, <4>2
    <3> QED BY <3>1, <3>2
  <2> QED BY <2>1, <2>2 DEF OneWorker
<1>14. \A q \in Port : Holds(q)' => Holds(q)
  BY <1>1, <1>4, <1>5, <1>9 DEF Holds
<1>15. Owned'
  BY <1>1, <1>14 DEF CalmInd, Owned
<1>16. ASSUME NEW q \in Port, Diagging(q)' PROVE Diagging(q)
  <2>1. CASE port'[q].stat = "SWITCH"
    BY <1>1, <2>1 DEF Diagging
  <2>2. ASSUME NEW u \in Thread, thr'[u].port = q,
               \/ thr'[u].pc \in {"diag", "setflash", "close"}
               \/ thr'[u].pc = "begin" /\ heap'[port'[q].active].status = "PLUGIN"
        PROVE  Diagging(q)
    <3>1. CASE u = t
      BY <1>1, <1>4, <1>5, <1>6, <2>2, <3>1 DEF Diagging
    <3>2. CASE u # t
      BY <1>1, <1>5, <2>2, <3>2 DEF Diagging
    <3> QED BY <3>1, <3>2
  <2> QED BY <1>9, <1>16, <2>1, <2>2 DEF Diagging
<1>17. MapServed'
  BY <1>1, <1>16 DEF CalmInd, MapServed, Valid
<1>18. UIOK'
  <2>1. Gives'
    BY <1>1, <1>2, <1>6 DEF Gives, Given
  <2>2. Looked' /\ Chosen' /\ Ends'
    BY <1>2 DEF Looked, Chosen, Choosing, Ends, Ending
  <2> QED BY <2>1, <2>2 DEF UIOK
<1> QED BY <1>1, <1>7, <1>8, <1>10, <1>11, <1>13, <1>15, <1>17, <1>18 DEF CalmInd

LEMMA NoScheduleCrash == ASSUME PortsInd, CalmInd PROVE ~ScheduleCrash
<1> SUFFICES ASSUME BadUIPointer PROVE FALSE
  BY DEF ScheduleCrash
<1>1. ui.pc \in {"look", "usb", "work", "attach", "begin"}
  BY DEF BadUIPointer
<1>2. ui.i \in Port /\ PortOK(ui.i) /\ Listed = DOMAIN heap /\ 0 \notin DOMAIN heap /\ 0 \notin Slot
  <2>1. ui.pc \in AtPorts
    BY <1>1 DEF AtPorts, UISteps
  <2>2. ui.i \in Port /\ PortOK(ui.i)
    BY <2>1, UIIs DEF CalmInd
  <2>3. 0 \notin Slot
    BY PoolAssumption DEF Slot
  <2> QED BY <2>2, <2>3, Objects
<1>3. ui.pc # "look" => port[ui.i].active \in DOMAIN heap
  <2>1. CASE ui.pc \in {"usb", "attach"} /\ ui.dev = 0
    BY <1>2, <2>1 DEF CalmInd, UIOK, Ends, PortOK
  <2>2. CASE ui.pc \in {"usb", "attach"} /\ ui.dev # 0
    BY <2>2, UIIs DEF CalmInd, UIOK, Gives, Given
  <2>3. CASE ui.pc \in {"work", "begin"}
    BY <1>2, <2>3 DEF CalmInd, UIOK, Gives, PortOK
  <2> QED BY <1>1, <2>1, <2>2, <2>3
<1>4. CASE ui.pc = "look"
  <2>1. port[ui.i].stat = "SWITCH" /\ ui.item = 0
    BY <1>4 DEF BadUIPointer, MyUIPort
  <2>2. port[ui.i].active \in DOMAIN heap /\ ItemOf(port[ui.i]) = 0
    BY <1>2, <1>4, <2>1 DEF PortOK, CalmInd, UIOK, Looked
  <2>3. heap[port[ui.i].active].slot = 0
    BY <1>2, <2>2 DEF ItemOf, SlotOf
  <2> QED BY <1>2, <2>2, <2>3, ObjectIs
<1>5. CASE ui.pc # "look"
  BY <1>1, <1>2, <1>3, <1>5 DEF BadUIPointer, MyUIPort, PortOK
<1> QED BY <1>4, <1>5

-----------------------------------------------------------------------------
(* What a worker's step leaves of the UI thread's. *)

\* Objects stay in their slots; one that waits for a port is left alone, and one that waits
\* from now on is out of download mode and not back from it.
HeapKept ==
    /\ DOMAIN heap' = DOMAIN heap /\ Len(heap') = Len(heap)
    /\ \A e \in DOMAIN heap :
         /\ heap'[e].slot = heap[e].slot
         /\ Valid(e) => /\ heap'[e].att = heap[e].att /\ heap'[e].status = heap[e].status
                        /\ heap'[e].fb = heap[e].fb
         /\ Valid(e)' => Valid(e) \/ (heap'[e].fb = FALSE /\ heap'[e].status # "PLUGIN")

LEMMA HeapSame == ASSUME UNCHANGED heap PROVE HeapKept
BY DEF HeapKept, Valid

LEMMA UISame ==
    ASSUME UNCHANGED ui
    PROVE  \A q \in Port : /\ Taking(q)' = Taking(q) /\ Given(q)' = Given(q)
                           /\ Assigned(q)' = Assigned(q) /\ Starting(q)' = Starting(q)
BY DEF Taking, Given, Assigned, Starting

LEMMA ChosenKept == ASSUME CalmInd, HeapKept, UNCHANGED ui PROVE Chosen'
<1> SUFFICES ASSUME Choosing PROVE Waits'
  BY DEF Chosen, Choosing
<1>1. Waits
  BY DEF CalmInd, UIOK, Chosen
<1>2. ui.dev \in DOMAIN heap' /\ Valid(ui.dev)'
  BY <1>1 DEF Waits, HeapKept, Valid
<1>3. ASSUME NEW j \in DOMAIN heap', j < ui.dev, Valid(j)'
      PROVE  heap'[j].fb = FALSE /\ heap'[j].status # "PLUGIN"
  BY <1>1, <1>3 DEF Waits, HeapKept
<1> QED BY <1>2, <1>3 DEF Waits

\* The UI thread's port is as it was, and so is the port's worker but for its own progress.
LEMMA UIKept ==
    ASSUME PortsInd, CalmInd, HeapKept, UNCHANGED ui,
           ui.i \in Port => port'[ui.i] = port[ui.i],
           \A u \in Thread : thr[u].port = ui.i /\ Works(u) =>
               Works(u)' /\ thr'[u].port = ui.i /\ (thr[u].pc \notin Early => thr'[u].pc \notin Early),
           \A u \in Thread : Works(u)' => Works(u) /\ thr'[u].port = thr[u].port
    PROVE  UIOK'
<1>1. Chosen'
  BY ChosenKept
<1>2. ui.pc \in AtPorts => ui.i \in Port /\ PortOK(ui.i)
  BY UIIs DEF CalmInd
<1>3. ui.pc \in UISteps /\ 0 \notin DOMAIN heap
  BY UIIs, Objects
<1>4. Looked'
  <2> SUFFICES ASSUME ui.pc \in {"pick", "look"}
               PROVE  /\ port'[ui.i].stat # "WORKING"
                      /\ port'[ui.i].stat = "SWITCH" => ui.item = ItemOf(port[ui.i])'
    BY DEF Looked
  <2>1. ui.i \in Port /\ PortOK(ui.i) /\ port'[ui.i] = port[ui.i] /\ Looked
    BY <1>2 DEF AtPorts, UISteps, CalmInd, UIOK
  <2>2. port[ui.i].stat = "SWITCH" => port[ui.i].active \in DOMAIN heap
    BY <2>1 DEF PortOK
  <2>3. port[ui.i].stat = "SWITCH" => ItemOf(port[ui.i])' = ItemOf(port[ui.i])
    BY <1>3, <2>1, <2>2 DEF ItemOf, SlotOf, HeapKept
  <2> QED BY <2>1, <2>3 DEF Looked
<1>5. Ends'
  <2>1. CASE ui.dev = 0 /\ ui.pc \in {"signal", "test", "usb", "attach", "event"}
    <3>1. ui.i \in Port /\ PortOK(ui.i) /\ port'[ui.i] = port[ui.i] /\ Ends /\ Ending(ui.i)
      BY <1>2, <2>1 DEF AtPorts, UISteps, CalmInd, UIOK, Ending
    <3>2. PICK u \in Thread : Works(u) /\ thr[u].port = ui.i /\ thr[u].pc \notin Early
      BY <3>1 DEF Ends
    <3>3. Works(u)' /\ thr'[u].port = ui.i /\ thr'[u].pc \notin Early
      BY <3>2
    <3>4. CASE ui.pc # "event"
      <4>1. port[ui.i].active \in DOMAIN heap
        BY <2>1, <3>1, <3>4 DEF Ends, PortOK
      <4>2. Valid(port[ui.i].active)
        BY <2>1, <3>1, <3>4 DEF Ends, Valid, Waiting
      <4>3. /\ heap'[port[ui.i].active].status = heap[port[ui.i].active].status
            /\ heap'[port[ui.i].active].att = heap[port[ui.i].active].att
        BY <4>1, <4>2 DEF HeapKept
      <4> QED BY <3>1, <3>3, <4>3 DEF Ends
    <3>5. CASE ui.pc = "event"
      BY <3>3, <3>5 DEF Ends
    <3> QED BY <3>4, <3>5
  <2>2. CASE ~(ui.dev = 0 /\ ui.pc \in {"signal", "test", "usb", "attach", "event"})
    <3>1. ui.pc # "signal"
      BY <2>2 DEF CalmInd, UIOK, Gives
    <3> QED BY <2>2, <3>1 DEF Ends, Ending
  <2> QED BY <2>1, <2>2
<1>6. Gives'
  <2>1. ui.pc \in {"set", "status", "begin", "work", "usb", "attach"} => port'[ui.i] = port[ui.i]
    BY <1>2 DEF AtPorts, UISteps
  <2>2. Gives
    BY DEF CalmInd, UIOK
  <2> QED BY <2>1, <2>2 DEF Gives, Given
<1> QED BY <1>1, <1>4, <1>5, <1>6 DEF UIOK

\* A port with a worker is not about to get one.
LEMMA NotStarting ==
    ASSUME PortsInd, CalmInd, NEW t \in Thread, Works(t)
    PROVE  ~Assigned(thr[t].port) /\ ~Starting(thr[t].port) /\ ~Given(thr[t].port)
<1>1. port[thr[t].port].stat # "IDLE" /\ Gives
  BY WorkerIs DEF CalmInd, UIOK
<1>2. ~Given(thr[t].port)
  BY <1>1 DEF Gives, Given
<1>3. ~Assigned(thr[t].port)
  BY <1>1, <1>2 DEF Gives, Given, Assigned
<1>4. ~Starting(thr[t].port)
  BY <1>1 DEF Gives, Starting
<1> QED BY <1>2, <1>3, <1>4

\* A port that is given a device and started has it.
LEMMA StartingIs ==
    ASSUME PortsInd, CalmInd, NEW q \in Port, Assigned(q) \/ Starting(q)
    PROVE  Holds(q) /\ port[q].active \in DOMAIN heap
<1>1. ~Taking(q)
  BY DEF Assigned, Starting, Taking
<1>2. Starting(q) => port[q].stat = "WORKING"
  BY DEF Starting, CalmInd, UIOK, Gives
<1>3. Holds(q)
  BY <1>1, <1>2 DEF Holds
<1> QED BY <1>3, HeldIs

\* An open handle is one of a device.
LEMMA LiveIs ==
    ASSUME PortsInd, CalmInd, NEW q \in Port, port[q].usb = "live"
    PROVE  port[q].active \in DOMAIN heap
<1>1. PortOK(q)
  BY DEF CalmInd
<1> QED BY <1>1, UIIs DEF PortOK, CalmInd, UIOK, Gives, Given

LEMMA MoveThread ==
    ASSUME PortsInd, CalmInd, NEW t \in Thread, Works(t), NEW r, thr' = [thr EXCEPT ![t] = r],
           r.pc \notin {"none", "mark", "detach", "close"}, r.port = thr[t].port,
           UNCHANGED <<heap, mDevintfList, port, ui, msgs, clicks, m_bWork, crashed>>,
           \A d \in DOMAIN heap : DeviceOK(d)',
           Stage(r.pc, port[r.port], r), r.pc \in Early => thr[t].pc \in Early,
           r.pc \in {"diag", "setflash"} => heap[r.dev].fb = FALSE,
           r.pc \in {"begin", "diag", "setflash"} => Diagging(thr[t].port)
    PROVE  CalmInd'
<1>1. thr'[t] = r /\ \A u \in Thread : u # t => thr'[u] = thr[u]
  BY Parts DEF Threads
<1>2. Begun'
  <2>1. \E u \in Thread : thr[u].pc # "none"
    BY DEF Works
  <2> QED BY <2>1, Later DEF CalmInd
<1>3. InOrder' /\ FreshLast' /\ \A d \in DOMAIN heap' : DeviceOK(d)'
  BY DEF CalmInd, InOrder, FreshLast, Fresh
<1>4. \A p \in Port : PortOK(p)'
  BY UISame DEF CalmInd, PortOK
<1>5. ASSUME NEW u \in Thread PROVE ThreadOK(u)'
  <2>1. CASE u = t
    BY <1>1, <2>1 DEF ThreadOK, Works
  <2>2. CASE u # t
    BY <1>1, <2>2 DEF CalmInd, ThreadOK, Works
  <2> QED BY <2>1, <2>2
<1>6. \A u \in Thread : Works(u)' = Works(u) /\ thr'[u].port = thr[u].port
  BY <1>1 DEF Works
<1>7. OneWorker'
  BY <1>6, UISame DEF CalmInd, OneWorker
<1>8. \A p \in Port : Holds(p)' => Holds(p)
  BY <1>1, UISame DEF Holds
<1>9. Owned'
  BY <1>8 DEF CalmInd, Owned
<1>10. ASSUME NEW p \in Port, Diagging(p)' PROVE Diagging(p)
  <2>1. CASE port[p].stat = "SWITCH"
    BY <2>1 DEF Diagging
  <2>2. ASSUME NEW u \in Thread, thr'[u].port = p,
               \/ thr'[u].pc \in {"diag", "setflash", "close"}
               \/ thr'[u].pc = "begin" /\ heap[port[p].active].status = "PLUGIN"
        PROVE  Diagging(p)
    <3>1. CASE u = t
      BY <1>1, <2>2, <3>1
    <3>2. CASE u # t
      BY <1>1, <2>2, <3>2 DEF Diagging
    <3> QED BY <3>1, <3>2
  <2> QED BY <1>10, <2>1, <2>2, UISame DEF Diagging
<1>11. MapServed'
  BY <1>10 DEF CalmInd, MapServed, Valid
<1>12. UIOK'
  BY <1>1, <1>6, HeapSame, UIKept
<1> QED BY <1>2, <1>3, <1>4, <1>5, <1>7, <1>9, <1>11, <1>12 DEF CalmInd

LEMMA SameDevices ==
    ASSUME CalmInd, UNCHANGED <<heap, bus>>
    PROVE  \A d \in DOMAIN heap : DeviceOK(d)'
BY DEF CalmInd, DeviceOK, Fresh

LEMMA BeginCalm == ASSUME PortsInd, CalmInd, NEW t \in Thread, Begin(t) PROVE CalmInd'
<1> DEFINE p == thr[t].port
           a == port[p].active
           c == IF heap[a].status = "PLUGIN" THEN "diag" ELSE "check"
           r == [thr[t] EXCEPT !.dev = a, !.pc = c]
<1>1. thr[t].pc = "begin" /\ Works(t)
  BY DEF Begin, Works
<1>2. p \in Port /\ Stage("begin", port[p], thr[t]) /\ a \in DOMAIN heap
  BY <1>1, WorkerIs
<1>3. thr' = [thr EXCEPT ![t] = r]
  <2>1. thr' = [thr EXCEPT ![t].dev = a, ![t].pc = c]
    BY DEF Begin, MyPort
  <2>2. thr \in [Thread -> ThreadRec(DOMAIN heap)]
    BY Parts DEF Threads
  <2> HIDE DEF a, c
  <2> QED BY <2>1, <2>2
<1>4. c \in {"diag", "check"} /\ (c = "diag" => heap[a].status = "PLUGIN")
  OBVIOUS
<1> HIDE DEF c
<1>5. r.pc = c /\ r.port = p /\ r.dev = a /\ r.ok = thr[t].ok
  BY ThreadIs DEF ThreadRec
<1> HIDE DEF r
<1>6. Stage(r.pc, port[r.port], r)
  BY <1>2, <1>4, <1>5 DEF Stage, Early
<1>7. r.pc = "diag" => heap[r.dev].fb = FALSE
  <2>1. DeviceOK(a) /\ heap[a].fb \in BOOLEAN
    BY <1>2, ObjectIs DEF CalmInd
  <2> QED BY <1>4, <1>5, <2>1 DEF DeviceOK
<1>8. r.pc = "diag" => Diagging(thr[t].port)
  BY <1>1, <1>4, <1>5 DEF Diagging
<1>9. UNCHANGED <<heap, bus, mDevintfList, port, ui, msgs, clicks, m_bWork, crashed>>
  BY DEF Begin, poolVars
<1>10. r.pc \notin {"none", "mark", "detach", "begin", "setflash", "close"}
  BY <1>4, <1>5
<1> QED BY <1>1, <1>3, <1>5, <1>6, <1>7, <1>8, <1>9, <1>10, SameDevices, MoveThread DEF Early

\* What Goto leaves of a thread.
LEMMA GotoSays ==
    ASSUME PortsInd, NEW t \in Thread, NEW c, Goto(t, c)
    PROVE  \E r : /\ thr' = [thr EXCEPT ![t] = r] /\ r.pc = c /\ r.port = thr[t].port
                  /\ r.dev = thr[t].dev /\ r.usb = thr[t].usb /\ r.ok = thr[t].ok
<1> DEFINE r == [thr[t] EXCEPT !.pc = c]
<1>1. thr' = [thr EXCEPT ![t] = r]
  BY DEF Goto
<1>2. /\ r.pc = c /\ r.port = thr[t].port /\ r.dev = thr[t].dev /\ r.usb = thr[t].usb
      /\ r.ok = thr[t].ok
  BY ThreadIs DEF ThreadRec
<1> HIDE DEF r
<1> QED BY <1>1, <1>2

LEMMA DiagDownloadCalm == ASSUME PortsInd, CalmInd, NEW t \in Thread, DiagDownload(t) PROVE CalmInd'
<1>1. thr[t].pc = "diag" /\ Goto(t, "setflash")
      /\ UNCHANGED <<heap, mDevintfList, port, ui, msgs, clicks, m_bWork, crashed>>
  BY DEF DiagDownload
<1>2. /\ Works(t) /\ thr[t].port \in Port /\ Stage("diag", port[thr[t].port], thr[t])
      /\ thr[t].dev \in DOMAIN heap /\ heap[thr[t].dev].att = TRUE
  BY <1>1, OwnIs
<1>3. PICK r : /\ thr' = [thr EXCEPT ![t] = r] /\ r.pc = "setflash" /\ r.port = thr[t].port
               /\ r.dev = thr[t].dev /\ r.usb = thr[t].usb /\ r.ok = thr[t].ok
  BY <1>1, GotoSays
<1>4. Stage(r.pc, port[r.port], r) /\ heap[r.dev].fb = FALSE
  BY <1>1, <1>2, <1>3 DEF Stage, Early, CalmInd, ThreadOK
<1>5. Diagging(thr[t].port)
  BY <1>1 DEF Diagging
<1>6. ASSUME NEW d \in DOMAIN heap PROVE DeviceOK(d)'
  <2> DEFINE s == heap[thr[t].dev].slot
  <2>1. DeviceOK(d)
    BY DEF CalmInd
  <2>2. CASE bus' = bus
    BY <1>1, <2>1, <2>2 DEF DeviceOK, Fresh
  <2>3. CASE bus[s].mode = "diag" /\ bus' = [bus EXCEPT ![s].mode = "reset"]
    <3>1. CASE d = thr[t].dev
      <4>1. heap[d].diag = TRUE
        BY <2>1, <2>3, <3>1, ObjectIs DEF DeviceOK
      <4> QED BY <1>1, <1>2, <2>1, <3>1, <4>1 DEF DeviceOK, Fresh
    <3>2. CASE d # thr[t].dev
      <4>1. heap[d].slot # s
        BY <1>2, <3>2, Objects
      <4>2. bus'[heap[d].slot] = bus[heap[d].slot]
        BY <2>3, <4>1, ObjectIs, Parts DEF Side
      <4> QED BY <1>1, <2>1, <4>2 DEF DeviceOK, Fresh
    <3> QED BY <3>1, <3>2
  <2> QED BY <2>2, <2>3 DEF DiagDownload
<1> QED BY <1>1, <1>2, <1>3, <1>4, <1>5, <1>6, MoveThread DEF Early

LEMMA DiagFailsCalm == ASSUME PortsInd, CalmInd, NEW t \in Thread, DiagFails(t) PROVE CalmInd'
<1>1. thr[t].pc = "diag" /\ Goto(t, "finish")
      /\ UNCHANGED <<heap, bus, mDevintfList, port, ui, msgs, clicks, m_bWork, crashed>>
  BY DEF DiagFails, poolVars
<1>2. Works(t) /\ Stage("diag", port[thr[t].port], thr[t])
  BY <1>1, OwnIs
<1>3. PICK r : /\ thr' = [thr EXCEPT ![t] = r] /\ r.pc = "finish" /\ r.port = thr[t].port
               /\ r.dev = thr[t].dev /\ r.usb = thr[t].usb /\ r.ok = thr[t].ok
  BY <1>1, GotoSays
<1>4. Stage(r.pc, port[r.port], r)
  BY <1>2, <1>3 DEF Stage, Early
<1> QED BY <1>1, <1>2, <1>3, <1>4, SameDevices, MoveThread DEF Early

LEMMA WaitCalm ==
    ASSUME PortsInd, CalmInd, NEW t \in Thread, Signalled(t) \/ Timeout(t)
    PROVE  CalmInd'
<1>1. thr[t].pc = "wait" /\ Goto(t, "check")
      /\ UNCHANGED <<heap, bus, mDevintfList, port, ui, msgs, clicks, m_bWork, crashed>>
  BY DEF Signalled, Timeout, poolVars
<1>2. Works(t) /\ Stage("wait", port[thr[t].port], thr[t])
  BY <1>1, WorkerIs DEF Works
<1>3. PICK r : /\ thr' = [thr EXCEPT ![t] = r] /\ r.pc = "check" /\ r.port = thr[t].port
               /\ r.dev = thr[t].dev /\ r.usb = thr[t].usb /\ r.ok = thr[t].ok
  BY <1>1, GotoSays
<1>4. Stage(r.pc, port[r.port], r)
  BY <1>2, <1>3 DEF Stage, Early
<1> QED BY <1>1, <1>2, <1>3, <1>4, SameDevices, MoveThread DEF Early

\* The port's handle decides; a device with one is in DEVICE_FLASH.
LEMMA CheckHandleCalm == ASSUME PortsInd, CalmInd, NEW t \in Thread, CheckHandle(t) PROVE CalmInd'
<1> DEFINE w == port[thr[t].port]
           c == CASE w.usb = "null" -> "finish"
                  [] w.usb # "null" /\ heap[thr[t].dev].status = "FLASH" -> "flash"
                  [] OTHER -> "none"
           r == [thr[t] EXCEPT !.usb = w.usb, !.pc = c]
<1>1. thr[t].pc = "check"
      /\ UNCHANGED <<heap, bus, mDevintfList, port, ui, msgs, clicks, m_bWork, crashed>>
  BY DEF CheckHandle, poolVars
<1>2. Works(t) /\ thr[t].port \in Port /\ Stage("check", w, thr[t])
  BY <1>1, WorkerIs DEF Works
<1>3. thr' = [thr EXCEPT ![t] = r]
  <2>1. thr' = [thr EXCEPT ![t].usb = w.usb, ![t].pc = c]
    BY DEF CheckHandle, MyPort
  <2>2. thr \in [Thread -> ThreadRec(DOMAIN heap)]
    BY Parts DEF Threads
  <2> HIDE DEF w, c
  <2> QED BY <2>1, <2>2
<1>4. w.usb = "null" \/ (w.usb = "live" /\ heap[thr[t].dev].status = "FLASH")
  <2>1. PortOK(thr[t].port) /\ w.usb \in Pointer /\ thr[t].dev = w.active
    BY <1>2, PortIs DEF CalmInd, Stage
  <2> QED BY <2>1 DEF PortOK, Pointer
<1>5. w.stat # "WORKING" => w.usb = "null"
  BY <1>2 DEF CalmInd, PortOK, Stage
<1>6. (c = "finish" /\ w.usb = "null") \/ (c = "flash" /\ w.usb = "live")
  BY <1>4
<1> HIDE DEF c
<1>7. r.pc = c /\ r.port = thr[t].port /\ r.dev = thr[t].dev /\ r.usb = w.usb /\ r.ok = thr[t].ok
  BY ThreadIs DEF ThreadRec
<1> HIDE DEF r
<1>8. Stage(r.pc, port[r.port], r)
  BY <1>2, <1>5, <1>6, <1>7 DEF Stage, Early
<1> QED BY <1>1, <1>2, <1>3, <1>6, <1>7, <1>8, SameDevices, MoveThread DEF Early

LEMMA FlashImagesCalm == ASSUME PortsInd, CalmInd, NEW t \in Thread, FlashImages(t) PROVE CalmInd'
<1> DEFINE r == [thr[t] EXCEPT !.pc = "finish", !.ok = TRUE]
<1>1. thr[t].pc = "flash"
      /\ UNCHANGED <<heap, bus, mDevintfList, port, ui, msgs, clicks, m_bWork, crashed>>
  BY DEF FlashImages, poolVars
<1>2. Works(t) /\ Stage("flash", port[thr[t].port], thr[t])
  BY <1>1, WorkerIs DEF Works
<1>3. thr' = [thr EXCEPT ![t] = r]
  <2>1. thr' = [thr EXCEPT ![t].pc = "finish", ![t].ok = TRUE]
    BY DEF FlashImages
  <2>2. thr \in [Thread -> ThreadRec(DOMAIN heap)]
    BY Parts DEF Threads
  <2> QED BY <2>1, <2>2
<1>4. r.pc = "finish" /\ r.port = thr[t].port /\ r.dev = thr[t].dev /\ r.ok = TRUE
  BY ThreadIs DEF ThreadRec
<1> HIDE DEF r
<1>5. Stage(r.pc, port[r.port], r)
  BY <1>2, <1>4 DEF Stage, Early
<1> QED BY <1>1, <1>2, <1>3, <1>4, <1>5, SameDevices, MoveThread DEF Early

\* The status of an attached device without an open handle changes.
StatusSet(d, x) ==
    /\ DOMAIN heap' = DOMAIN heap /\ Len(heap') = Len(heap) /\ d \in DOMAIN heap
    /\ \A e \in DOMAIN heap :
         /\ heap'[e].slot = heap[e].slot /\ heap'[e].diag = heap[e].diag
         /\ heap'[e].fb = heap[e].fb /\ heap'[e].fbh = heap[e].fbh
         /\ heap'[e].att = heap[e].att
         /\ e # d => heap'[e].status = heap[e].status
    /\ heap'[d].status = x

LEMMA StatusSetIs ==
    ASSUME PortsInd, NEW d \in DOMAIN heap, NEW x \in {"FLASH", "REMOVED"},
           heap' = [heap EXCEPT ![d].status = x]
    PROVE  StatusSet(d, x)
<1> DEFINE r == [heap[d] EXCEPT !.status = x]
<1>1. heap' = [heap EXCEPT ![d] = r] /\ heap \in Seq(Object)
  BY Parts
<1>2. /\ r.slot = heap[d].slot /\ r.diag = heap[d].diag /\ r.fb = heap[d].fb /\ r.fbh = heap[d].fbh
      /\ r.att = heap[d].att /\ r.status = x /\ r \in Object
  BY ObjectIs DEF Object
<1> HIDE DEF r
<1>3. DOMAIN heap' = DOMAIN heap /\ Len(heap') = Len(heap)
  BY <1>1, <1>2
<1> QED BY <1>1, <1>2, <1>3 DEF StatusSet

LEMMA StatusSetCalm ==
    ASSUME PortsInd, CalmInd, NEW d, NEW x \in {"FLASH", "REMOVED"}, StatusSet(d, x),
           heap[d].att = TRUE, heap[d].fbh # "live",
           UNCHANGED <<bus, mDevintfList, port, ui>>
    PROVE  /\ InOrder' /\ FreshLast' /\ \A e \in DOMAIN heap' : DeviceOK(e)'
           /\ \A p \in Port : PortOK(p)'
           /\ HeapKept
           /\ \A e \in DOMAIN heap : Valid(e)' => Valid(e)
<1>1. InOrder'
  BY DEF StatusSet, CalmInd, InOrder
<1>2. \A e \in DOMAIN heap : Fresh(e)' <=> Fresh(e)
  BY DEF StatusSet, Fresh
<1>3. \A e \in DOMAIN heap : Valid(e)' => Valid(e)
  BY DEF StatusSet, Valid
<1>4. \A e \in DOMAIN heap' : DeviceOK(e)'
  BY <1>2 DEF StatusSet, CalmInd, DeviceOK
<1>5. FreshLast'
  BY <1>2 DEF StatusSet, CalmInd, FreshLast
<1>6. ASSUME NEW p \in Port PROVE PortOK(p)'
  <2>1. PortOK(p) /\ port'[p] = port[p]
    BY DEF CalmInd
  <2>2. port[p].usb = "live" => port[p].active \in DOMAIN heap /\ port[p].active # d
    BY <2>1, LiveIs DEF PortOK
  <2>3. Given(p)' = Given(p)
    BY UISame
  <2> QED BY <2>1, <2>2, <2>3 DEF PortOK, StatusSet
<1>7. HeapKept
  BY DEF HeapKept, StatusSet, Valid
<1> QED BY <1>1, <1>3, <1>4, <1>5, <1>6, <1>7

LEMMA EnterFlashCalm == ASSUME PortsInd, CalmInd, NEW t \in Thread, EnterFlash(t) PROVE CalmInd'
<1> DEFINE d == thr[t].dev
<1>1. /\ thr[t].pc = "setflash" /\ Goto(t, "close") /\ heap' = [heap EXCEPT ![d].status = "FLASH"]
      /\ UNCHANGED <<bus, mDevintfList, port, ui, msgs, clicks, m_bWork, crashed>>
  BY DEF EnterFlash
<1>2. /\ Works(t) /\ thr[t].port \in Port /\ Stage("setflash", port[thr[t].port], thr[t])
      /\ d \in DOMAIN heap /\ heap[d].att = TRUE /\ d = port[thr[t].port].active
  BY <1>1, OwnIs
<1>3. heap[d].fb = FALSE /\ heap[d].fbh # "live"
  BY <1>1, <1>2 DEF CalmInd, ThreadOK, DeviceOK
<1>4. StatusSet(d, "FLASH")
  BY <1>1, <1>2, StatusSetIs
<1>5. /\ InOrder' /\ FreshLast' /\ \A e \in DOMAIN heap' : DeviceOK(e)'
      /\ \A p \in Port : PortOK(p)'
      /\ HeapKept
      /\ \A e \in DOMAIN heap : Valid(e)' => Valid(e)
  BY <1>1, <1>2, <1>3, <1>4, StatusSetCalm
<1>6. PICK r : /\ thr' = [thr EXCEPT ![t] = r] /\ r.pc = "close" /\ r.port = thr[t].port
               /\ r.dev = d /\ r.usb = thr[t].usb /\ r.ok = thr[t].ok
  BY <1>1, GotoSays
<1>7. thr'[t] = r /\ \A u \in Thread : u # t => thr'[u] = thr[u]
  BY <1>6, Parts DEF Threads
<1>8. Begun'
  BY <1>1, Later DEF CalmInd
<1>9. ASSUME NEW u \in Thread PROVE ThreadOK(u)'
  <2>1. CASE u = t
    <3>1. Stage(r.pc, port[r.port], r)
      BY <1>2, <1>6 DEF Stage, Early
    <3> QED BY <1>1, <1>3, <1>4, <1>6, <1>7, <2>1, <3>1 DEF ThreadOK, StatusSet
  <2>2. CASE u # t
    <3>1. thr[u].pc \in {"diag", "setflash", "close", "detach"} => thr[u].dev \in DOMAIN heap
      BY OwnIs
    <3>2. thr'[u] = thr[u] /\ ThreadOK(u)
      BY <1>7, <2>2 DEF CalmInd
    <3> QED BY <1>1, <1>4, <3>1, <3>2 DEF ThreadOK, StatusSet, Works
  <2> QED BY <2>1, <2>2
<1>10. \A u \in Thread : Works(u)' = Works(u) /\ thr'[u].port = thr[u].port
  BY <1>1, <1>6, <1>7 DEF Works
<1>11. OneWorker'
  BY <1>1, <1>10, UISame DEF CalmInd, OneWorker
<1>12. \A p \in Port : Holds(p)' => Holds(p)
  BY <1>1, <1>6, <1>7, UISame DEF Holds
<1>13. Owned'
  <2>1. \A p \in Port : Holds(p) => port[p].active \in DOMAIN heap
    BY HeldIs
  <2> QED BY <1>1, <1>4, <1>12, <2>1 DEF CalmInd, Owned, StatusSet
<1>14. ASSUME NEW p \in Port, Diagging(p)' PROVE Diagging(p)
  <2>1. CASE port'[p].stat = "SWITCH"
    BY <1>1, <2>1 DEF Diagging
  <2>2. ASSUME NEW u \in Thread, thr'[u].port = p,
               \/ thr'[u].pc \in {"diag", "setflash", "close"}
               \/ thr'[u].pc = "begin" /\ heap'[port'[p].active].status = "PLUGIN"
        PROVE  Diagging(p)
    <3>1. CASE u = t
      BY <1>1, <1>6, <1>7, <2>2, <3>1 DEF Diagging
    <3>2. CASE u # t
      <4>1. thr[u].pc = "begin" => port[thr[u].port].active \in DOMAIN heap
        BY WorkerIs DEF Works
      <4> QED BY <1>1, <1>4, <1>7, <2>2, <3>2, <4>1 DEF Diagging, StatusSet
    <3> QED BY <3>1, <3>2
  <2>3. CASE (Assigned(p) \/ Starting(p)) /\ heap'[port'[p].active].status = "PLUGIN"
    <3>1. port[p].active \in DOMAIN heap /\ port'[p] = port[p]
      BY <1>1, <2>3, StartingIs
    <3>2. heap[port[p].active].status = "PLUGIN"
      BY <1>4, <2>3, <3>1 DEF StatusSet
    <3> QED BY <2>3, <3>1, <3>2 DEF Diagging
  <2> QED BY <1>1, <1>14, <2>1, <2>2, <2>3, UISame DEF Diagging
<1>15. MapServed'
  BY <1>1, <1>4, <1>5, <1>14 DEF CalmInd, MapServed, StatusSet
<1>16. UIOK'
  BY <1>1, <1>2, <1>5, <1>6, <1>7, <1>10, UIKept DEF Early
<1> QED BY <1>1, <1>5, <1>8, <1>9, <1>11, <1>13, <1>15, <1>16 DEF CalmInd

LEMMA MarkRemovedCalm == ASSUME PortsInd, CalmInd, NEW t \in Thread, MarkRemoved(t) PROVE CalmInd'
<1> DEFINE d == thr[t].dev
<1>1. /\ thr[t].pc = "mark" /\ thr' = [thr EXCEPT ![t] = NoThread]
      /\ heap' = [heap EXCEPT ![d].status = "REMOVED"]
      /\ UNCHANGED <<bus, mDevintfList, port, ui, msgs, clicks, m_bWork, crashed>>
  BY DEF MarkRemoved
<1>2. d \in DOMAIN heap /\ heap[d].fbh = "dead" /\ heap[d].att = TRUE
  BY <1>1 DEF CalmInd, ThreadOK, DeviceOK
<1>3. StatusSet(d, "REMOVED")
  BY <1>1, <1>2, StatusSetIs
<1>4. /\ InOrder' /\ FreshLast' /\ \A e \in DOMAIN heap' : DeviceOK(e)'
      /\ \A p \in Port : PortOK(p)'
      /\ HeapKept
      /\ \A e \in DOMAIN heap : Valid(e)' => Valid(e)
  BY <1>1, <1>2, <1>3, StatusSetCalm
<1>5. thr'[t].pc = "none" /\ \A u \in Thread : u # t => thr'[u] = thr[u]
  BY <1>1, Parts DEF Threads, NoThread
<1>6. Begun'
  BY <1>1, Later DEF CalmInd
<1>7. ASSUME NEW u \in Thread PROVE ThreadOK(u)'
  <2>1. CASE u = t
    BY <1>5, <2>1 DEF ThreadOK, Works
  <2>2. CASE u # t
    <3>1. thr[u].pc \in {"diag", "setflash", "close", "detach"} => thr[u].dev \in DOMAIN heap
      BY OwnIs
    <3>2. thr'[u] = thr[u] /\ ThreadOK(u)
      BY <1>5, <2>2 DEF CalmInd
    <3> QED BY <1>1, <1>3, <3>1, <3>2 DEF ThreadOK, StatusSet, Works
  <2> QED BY <2>1, <2>2
<1>8. \A u \in Thread : /\ Works(u)' = Works(u) /\ (Works(u) => u # t)
                        /\ u # t => thr'[u].port = thr[u].port
  BY <1>1, <1>5 DEF Works
<1>9. OneWorker'
  BY <1>1, <1>8, UISame DEF CalmInd, OneWorker
<1>10. \A p \in Port : Holds(p)' => Holds(p)
  BY <1>1, <1>5, UISame DEF Holds
<1>11. Owned'
  <2>1. \A p \in Port : Holds(p) => port[p].active \in DOMAIN heap
    BY HeldIs
  <2> QED BY <1>1, <1>3, <1>10, <2>1 DEF CalmInd, Owned, StatusSet
<1>12. ASSUME NEW p \in Port, Diagging(p)' PROVE Diagging(p)
  <2>1. CASE port'[p].stat = "SWITCH"
    BY <1>1, <2>1 DEF Diagging
  <2>2. ASSUME NEW u \in Thread, thr'[u].port = p,
               \/ thr'[u].pc \in {"diag", "setflash", "close"}
               \/ thr'[u].pc = "begin" /\ heap'[port'[p].active].status = "PLUGIN"
        PROVE  Diagging(p)
    <3>1. u # t
      BY <1>5, <2>2
    <3>2. thr[u].pc = "begin" => port[thr[u].port].active \in DOMAIN heap
      BY WorkerIs DEF Works
    <3> QED BY <1>1, <1>3, <1>5, <2>2, <3>1, <3>2 DEF Diagging, StatusSet
  <2>3. CASE (Assigned(p) \/ Starting(p)) /\ heap'[port'[p].active].status = "PLUGIN"
    <3>1. port[p].active \in DOMAIN heap /\ port'[p] = port[p]
      BY <1>1, <2>3, StartingIs
    <3>2. heap[port[p].active].status = "PLUGIN"
      BY <1>3, <2>3, <3>1 DEF StatusSet
    <3> QED BY <2>3, <3>1, <3>2 DEF Diagging
  <2> QED BY <1>1, <1>12, <2>1, <2>2, <2>3, UISame DEF Diagging
<1>13. MapServed'
  BY <1>1, <1>3, <1>4, <1>12 DEF CalmInd, MapServed, StatusSet
<1>14. UIOK'
  BY <1>1, <1>4, <1>5, <1>8, UIKept
<1> QED BY <1>1, <1>4, <1>6, <1>7, <1>9, <1>11, <1>13, <1>14 DEF CalmInd

\* What usb_close leaves of the threads: their copies of the handle are stale.
LEMMA StaleThreadSays ==
    ASSUME PortsInd, NEW s, NEW u \in Thread
    PROVE  /\ StaleThreads(s)[u].pc = thr[u].pc /\ StaleThreads(s)[u].port = thr[u].port
           /\ StaleThreads(s)[u].dev = thr[u].dev /\ StaleThreads(s)[u].ok = thr[u].ok
           /\ SlotOf(thr[u].dev) # s => StaleThreads(s)[u] = thr[u]
<1> DEFINE r == [thr[u] EXCEPT !.usb = Stale(@)]
<1>1. r.pc = thr[u].pc /\ r.port = thr[u].port /\ r.dev = thr[u].dev /\ r.ok = thr[u].ok
  BY ThreadIs DEF ThreadRec
<1>2. StaleThreads(s)[u] = IF SlotOf(thr[u].dev) = s THEN r ELSE thr[u]
  BY DEF StaleThreads
<1> HIDE DEF r
<1> QED BY <1>1, <1>2

\* A port without a live handle to a slot is as it was.
LEMMA StalePortSays ==
    ASSUME PortsInd, NEW s, NEW q \in Port, SlotOf(port[q].active) = s => port[q].usb # "live"
    PROVE  StalePorts(s)[q] = port[q]
<1>1. port[q] \in PortRec(DOMAIN heap)
  BY PortIs
<1>2. port[q].usb # "live" => Stale(port[q].usb) = port[q].usb
  BY DEF Stale
<1>3. port[q].usb # "live" => [port[q] EXCEPT !.usb = Stale(@)] = port[q]
  BY <1>1, <1>2 DEF PortRec
<1> QED BY <1>3 DEF StalePorts

\* Closing no handle changes no object and no port.
LEMMA CloseNone ==
    ASSUME PortsInd, CalmInd
    PROVE  StaleIn(heap, 0) = heap /\ \A q \in Port : StalePorts(0)[q] = port[q]
<1>1. 0 \notin Slot
  BY PoolAssumption DEF Slot
<1>2. \A d \in DOMAIN heap : heap[d].slot # 0
  BY <1>1, ObjectIs
<1>3. StaleIn(heap, 0) = [d \in DOMAIN heap |-> heap[d]]
  BY <1>2 DEF StaleIn
<1>4. heap = [d \in DOMAIN heap |-> heap[d]]
  BY Parts
<1>5. ASSUME NEW q \in Port PROVE SlotOf(port[q].active) = 0 => port[q].usb # "live"
  <2>1. port[q].usb = "live" => port[q].active \in DOMAIN heap /\ 0 \notin DOMAIN heap
    BY LiveIs, Objects
  <2> QED BY <1>2, <2>1 DEF SlotOf
<1> QED BY <1>3, <1>4, <1>5, StalePortSays

LEMMA BeginSwitchCalm == ASSUME PortsInd, CalmInd, NEW t \in Thread, BeginSwitch(t) PROVE CalmInd'
<1> DEFINE p == thr[t].port
           d == thr[t].dev
           f == StalePorts(0)
           h == StaleThreads(0)
           w == [port[p] EXCEPT !.usb = "null", !.stat = "SWITCH"]
           r == [h[t] EXCEPT !.pc = "detach"]
<1>1. thr[t].pc = "close" /\ UNCHANGED <<bus, mDevintfList, ui, msgs, clicks, m_bWork, crashed>>
  BY DEF BeginSwitch
<1>2. /\ Works(t) /\ p \in Port /\ Stage("close", port[p], thr[t])
      /\ d \in DOMAIN heap /\ d = port[p].active /\ Holds(p)
  BY <1>1, OwnIs
<1>3. heap[d].fb = FALSE /\ heap[d].fbh # "live" /\ heap[d].status # "PLUGIN"
  BY <1>1, <1>2 DEF CalmInd, ThreadOK, DeviceOK
<1>4. UsbSlot(MyPort(t)) = 0
  <2>1. port[p].usb # "live"
    BY <1>2, <1>3 DEF CalmInd, PortOK
  <2> QED BY <2>1 DEF UsbSlot, MyPort
<1>5. /\ heap' = StaleIn(heap, 0)
      /\ port' = [f EXCEPT ![p] = [f[p] EXCEPT !.usb = "null", !.stat = "SWITCH"]]
      /\ thr' = [h EXCEPT ![t] = r]
  BY <1>4 DEF BeginSwitch
<1>6. heap' = heap /\ f[p] = port[p] /\ f \in [Port -> PortRec(DOMAIN heap)]
  BY <1>2, <1>5, CloseNone, StalePortsIs
<1>7. w.stat = "SWITCH" /\ w.usb = "null" /\ w.active = d /\ w.evt = FALSE /\ w.map = port[p].map
  <2>1. port[p] \in PortRec(DOMAIN heap) /\ port[p].evt = FALSE
    BY <1>2, PortIs DEF Stage, Early
  <2> QED BY <1>2, <2>1 DEF PortRec
<1>8. port'[p] = w /\ \A q \in Port : q # p => port'[q] = port[q]
  <2>1. port' = [f EXCEPT ![p] = w]
    BY <1>5, <1>6
  <2> HIDE DEF w, f
  <2>2. port'[p] = w /\ \A q \in Port : q # p => port'[q] = f[q]
    BY <1>2, <1>6, <2>1
  <2> QED BY <2>2, CloseNone DEF f
<1> HIDE DEF w, f
<1>9. r.pc = "detach" /\ r.port = p /\ r.dev = d /\ r.ok = FALSE
  <2>1. h[t] \in ThreadRec(DOMAIN heap)
    BY StaleThreadsIs
  <2>2. h[t].port = p /\ h[t].dev = d /\ h[t].ok = FALSE
    BY <1>2, StaleThreadSays DEF Stage
  <2> HIDE DEF h
  <2> QED BY <2>1, <2>2 DEF ThreadRec
<1>10. thr'[t] = r /\ \A u \in Thread : u # t => thr'[u] = h[u]
  <2>1. h \in [Thread -> ThreadRec(DOMAIN heap)]
    BY StaleThreadsIs
  <2> HIDE DEF h, r
  <2> QED BY <1>5, <2>1
<1> HIDE DEF r
<1>11. ASSUME NEW u \in Thread, u # t
       PROVE  /\ thr'[u].pc = thr[u].pc /\ thr'[u].port = thr[u].port /\ thr'[u].dev = thr[u].dev
              /\ thr'[u].ok = thr[u].ok /\ (thr[u].pc = "flash" => thr'[u].usb = thr[u].usb)
  <2>1. thr[u].pc = "flash" => SlotOf(thr[u].dev) # 0
    <3>1. 0 \notin Slot /\ 0 \notin DOMAIN heap
      BY PoolAssumption, Objects DEF Slot
    <3>2. thr[u].pc = "flash" => thr[u].dev \in DOMAIN heap
      BY WorkerIs DEF Works
    <3> QED BY <3>1, <3>2, ObjectIs DEF SlotOf
  <2>2. thr'[u] = h[u]
    BY <1>10, <1>11
  <2> QED BY <2>1, <2>2, StaleThreadSays
<1> HIDE DEF h
<1>12. \A u \in Thread : Works(u)' = Works(u) /\ thr'[u].port = thr[u].port
  BY <1>1, <1>9, <1>10, <1>11 DEF Works
<1>13. Begun'
  BY <1>1, Later DEF CalmInd
<1>14. InOrder' /\ FreshLast' /\ \A e \in DOMAIN heap' : DeviceOK(e)'
  BY <1>1, <1>6, SameDevices DEF CalmInd, InOrder, FreshLast, Fresh
<1>15. ASSUME NEW q \in Port PROVE PortOK(q)'
  <2>1. PortOK(q)
    BY DEF CalmInd
  <2>2. CASE q = p
    BY <1>2, <1>3, <1>6, <1>7, <1>8, <2>1, <2>2 DEF PortOK
  <2>3. CASE q # p
    BY <1>1, <1>6, <1>8, <2>1, <2>3, UISame DEF PortOK
  <2> QED BY <2>2, <2>3
<1>16. ASSUME NEW u \in Thread PROVE ThreadOK(u)'
  <2>1. CASE u = t
    <3>1. Stage(r.pc, w, r)
      BY <1>7, <1>9 DEF Stage, Early
    <3> QED BY <1>3, <1>6, <1>8, <1>9, <1>10, <2>1, <3>1 DEF ThreadOK
  <2>2. CASE u # t
    <3>1. ASSUME Works(u) PROVE Stage(thr'[u].pc, port'[thr'[u].port], thr'[u])
      <4>1. thr[u].port \in Port /\ Stage(thr[u].pc, port[thr[u].port], thr[u])
        BY <3>1, WorkerIs
      <4>2. thr[u].port # p
        BY <1>2, <2>2, <3>1 DEF CalmInd, OneWorker
      <4> QED BY <1>8, <1>11, <2>2, <4>1, <4>2 DEF Stage
    <3>2. ThreadOK(u)
      BY DEF CalmInd
    <3> QED BY <1>6, <1>11, <1>12, <2>2, <3>1, <3>2 DEF ThreadOK
  <2> QED BY <2>1, <2>2
<1>17. OneWorker'
  <2>1. \A q \in Port : port'[q].stat # "IDLE" => port[q].stat # "IDLE"
    BY <1>2, <1>8 DEF Stage
  <2> QED BY <1>1, <1>12, <2>1, UISame DEF CalmInd, OneWorker
<1>18. \A q \in Port : (Holds(q)' => Holds(q)) /\ port'[q].active = port[q].active
  <2>1. ASSUME NEW q \in Port, q # p, Holds(q)' PROVE Holds(q)
    <3>1. \A u \in Thread : thr'[u].port = q => u # t
      BY <1>9, <1>10, <2>1
    <3> QED BY <1>1, <1>8, <1>11, <2>1, <3>1, UISame DEF Holds
  <2> QED BY <1>2, <1>7, <1>8, <2>1
<1>19. Owned'
  BY <1>6, <1>18 DEF CalmInd, Owned
<1>20. ASSUME NEW q \in Port, Diagging(q)' PROVE Diagging(q)
  <2>1. CASE q = p
    BY <1>1, <2>1 DEF Diagging
  <2>2. CASE q # p
    <3>1. \A u \in Thread : thr'[u].port = q => u # t
      BY <1>9, <1>10, <2>2
    <3> QED BY <1>1, <1>6, <1>8, <1>11, <1>20, <2>2, <3>1, UISame DEF Diagging
  <2> QED BY <2>1, <2>2
<1>21. MapServed'
  <2>1. \A q \in Port : port'[q].map = port[q].map
    BY <1>7, <1>8
  <2> QED BY <1>6, <1>20, <2>1 DEF CalmInd, MapServed, Valid
<1>22. UIOK'
  <2>1. CASE ui.i # p
    <3>1. ui.i \in Port => port'[ui.i] = port[ui.i]
      BY <1>8, <2>1
    <3>2. \A u \in Thread : thr[u].port = ui.i => u # t
      BY <2>1
    <3> QED BY <1>1, <1>6, <1>11, <1>12, <3>1, <3>2, HeapSame, UIKept
  <2>2. CASE ui.i = p
    <3>1. ui.pc \in UISteps /\ port[p].stat = "WORKING" /\ Looked /\ Gives
      BY <1>2, UIIs DEF Stage, CalmInd, UIOK
    <3>2. ~Ending(p) /\ ~Taking(p) /\ ~Given(p) /\ ~Starting(p)
      BY <1>1, <1>2, Untaken, NotStarting DEF Early
    <3>3. ui.pc \notin {"pick", "look", "set", "begin"}
      BY <2>2, <3>1, <3>2 DEF Looked, Gives, Starting
    <3>4. ui.pc \notin {"signal", "test", "usb", "attach"}
      BY <2>2, <3>2 DEF Taking
    <3>5. ui.pc \notin {"status", "event"}
      BY <2>2, <3>1, <3>2 DEF Gives, Given, Ending
    <3>6. ui.pc \in {"idle", "start", "port", "work"}
      BY <3>1, <3>3, <3>4, <3>5 DEF UISteps
    <3>7. Gives'
      BY <1>1, <1>7, <1>8, <2>2, <3>1, <3>6 DEF Gives, Given
    <3> QED BY <1>1, <3>6, <3>7 DEF UIOK, Looked, Chosen, Choosing, Ends, Ending
  <2> QED BY <2>1, <2>2
<1> QED BY <1>1, <1>13, <1>14, <1>15, <1>16, <1>17, <1>19, <1>21, <1>22 DEF CalmInd

\* The device waits for a port again; no other port is in its slot.
LEMMA DetachCalm == ASSUME PortsInd, CalmInd, NEW t \in Thread, Detach(t) PROVE CalmInd'
<1> DEFINE p == thr[t].port
           d == thr[t].dev
           o == [heap[d] EXCEPT !.att = FALSE]
<1>1. /\ thr[t].pc = "detach" /\ Goto(t, "wait") /\ heap' = [heap EXCEPT ![port[p].active].att = FALSE]
      /\ UNCHANGED <<bus, mDevintfList, port, ui, msgs, clicks, m_bWork, crashed>>
  BY DEF Detach, MyPort
<1>2. /\ Works(t) /\ p \in Port /\ Stage("detach", port[p], thr[t])
      /\ d \in DOMAIN heap /\ d = port[p].active /\ Holds(p)
  BY <1>1, OwnIs
<1>3. heap[d].fb = FALSE /\ heap[d].fbh = "null" /\ heap[d].status # "PLUGIN"
  BY <1>1, <1>2 DEF CalmInd, ThreadOK, DeviceOK
<1>4. /\ DOMAIN heap' = DOMAIN heap /\ Len(heap') = Len(heap)
      /\ \A e \in DOMAIN heap :
           /\ heap'[e].slot = heap[e].slot /\ heap'[e].diag = heap[e].diag
           /\ heap'[e].fb = heap[e].fb /\ heap'[e].fbh = heap[e].fbh
           /\ heap'[e].status = heap[e].status
           /\ e # d => heap'[e].att = heap[e].att
  <2>1. heap' = [heap EXCEPT ![d] = o] /\ heap \in Seq(Object)
    BY <1>1, <1>2, Parts
  <2>2. /\ o.slot = heap[d].slot /\ o.diag = heap[d].diag /\ o.fb = heap[d].fb /\ o.fbh = heap[d].fbh
        /\ o.status = heap[d].status /\ o \in Object
    BY <1>2, ObjectIs DEF Object
  <2> HIDE DEF o
  <2>3. DOMAIN heap' = DOMAIN heap /\ Len(heap') = Len(heap)
    BY <1>2, <2>1, <2>2
  <2> QED BY <1>2, <2>1, <2>2, <2>3
<1>5. PICK r : /\ thr' = [thr EXCEPT ![t] = r] /\ r.pc = "wait" /\ r.port = p
               /\ r.dev = d /\ r.usb = thr[t].usb /\ r.ok = thr[t].ok
  BY <1>1, GotoSays
<1>6. thr'[t] = r /\ \A u \in Thread : u # t => thr'[u] = thr[u]
  BY <1>5, Parts DEF Threads
<1>7. \A u \in Thread : Works(u)' = Works(u) /\ thr'[u].port = thr[u].port
  BY <1>1, <1>5, <1>6 DEF Works
<1>8. Begun'
  BY <1>1, Later DEF CalmInd
<1>9. \A e \in DOMAIN heap : (Fresh(e)' <=> Fresh(e) /\ e # d) /\ (e # d => (Valid(e)' <=> Valid(e)))
  BY <1>3, <1>4 DEF Fresh, Valid
<1>10. ~Fresh(d)
  BY <1>3 DEF Fresh
<1>11. InOrder' /\ FreshLast' /\ \A e \in DOMAIN heap' : DeviceOK(e)'
  <2>1. InOrder'
    BY <1>1, <1>4 DEF CalmInd, InOrder
  <2>2. FreshLast'
    BY <1>4, <1>9, <1>10 DEF CalmInd, FreshLast
  <2>3. ASSUME NEW e \in DOMAIN heap PROVE DeviceOK(e)'
    <3>1. DeviceOK(e) /\ bus' = bus
      BY <1>1 DEF CalmInd
    <3>2. CASE e = d
      <4>1. ~Fresh(e)'
        BY <1>9, <3>2
      <4> QED BY <1>3, <1>4, <3>1, <3>2, <4>1 DEF DeviceOK
    <3>3. CASE e # d
      BY <1>4, <1>9, <3>1, <3>3 DEF DeviceOK
    <3> QED BY <3>2, <3>3
  <2> QED BY <1>4, <2>1, <2>2, <2>3
<1>12. ASSUME NEW q \in Port PROVE PortOK(q)'
  <2>1. PortOK(q) /\ port'[q] = port[q]
    BY <1>1 DEF CalmInd
  <2>2. port[q].usb = "live" => port[q].active \in DOMAIN heap
    BY LiveIs
  <2>3. Given(q)' = Given(q)
    BY <1>1, UISame
  <2> QED BY <1>4, <2>1, <2>2, <2>3 DEF PortOK
<1>13. ASSUME NEW u \in Thread PROVE ThreadOK(u)'
  <2>1. CASE u = t
    <3>1. Stage(r.pc, port[r.port], r)
      BY <1>2, <1>5 DEF Stage, Early
    <3> QED BY <1>1, <1>5, <1>6, <2>1, <3>1 DEF ThreadOK
  <2>2. CASE u # t
    <3>1. thr[u].pc \in {"diag", "setflash", "close", "detach"} => thr[u].dev \in DOMAIN heap
      BY OwnIs
    <3>2. thr'[u] = thr[u] /\ ThreadOK(u)
      BY <1>6, <2>2 DEF CalmInd
    <3>3. port' = port
      BY <1>1
    <3>4. thr[u].pc \in {"diag", "setflash", "close", "detach"} =>
            heap'[thr[u].dev].fb = heap[thr[u].dev].fb /\ heap'[thr[u].dev].status = heap[thr[u].dev].status
      BY <1>4, <3>1
    <3>5. thr[u].pc = "mark" => thr[u].dev \in DOMAIN heap' /\ heap'[thr[u].dev].fbh = "dead"
      BY <1>4, <3>2 DEF ThreadOK
    <3> QED BY <3>2, <3>3, <3>4, <3>5 DEF ThreadOK, Works
  <2> QED BY <2>1, <2>2
<1>14. OneWorker'
  BY <1>1, <1>7, UISame DEF CalmInd, OneWorker
<1>15. ASSUME NEW q \in Port, Holds(q)' PROVE Holds(q) /\ q # p
  <2>1. Holds(q)
    BY <1>1, <1>5, <1>6, <1>15, UISame DEF Holds
  <2>2. q = p => FALSE
    <3>1. port[p].stat = "SWITCH" /\ port[p].usb = "null"
      BY <1>2 DEF Stage, CalmInd, PortOK
    <3>2. \A u \in Thread : thr'[u].port = p => thr'[u].pc # "detach"
      <4>1. \A u \in Thread : thr[u].port = p /\ thr[u].pc = "detach" => u = t
        BY <1>2 DEF CalmInd, OneWorker, Works
      <4> QED BY <1>5, <1>6, <4>1
    <3>3. \A x \in Port : x = p => ~Assigned(x)'
      BY <1>1, <1>2, NotStarting, UISame
    <3> QED BY <1>1, <1>15, <3>1, <3>2, <3>3 DEF Holds
  <2> QED BY <2>1, <2>2
<1>16. Owned'
  <2>1. \A q \in Port : Holds(q)' => port[q].active \in DOMAIN heap /\ port[q].active # d
    BY <1>2, <1>15, HeldIs DEF CalmInd, Owned
  <2>2. \A q \in Port : Holds(q)' => port'[q].active = port[q].active /\ Holds(q)
    BY <1>1, <1>15
  <2>3. \A q \in Port : Holds(q)' => heap'[port[q].active].att = heap[port[q].active].att
    BY <1>4, <2>1
  <2>4. Owned
    BY DEF CalmInd
  <2> QED BY <2>2, <2>3, <2>4 DEF Owned
<1>17. ASSUME NEW q \in Port, Diagging(q)' PROVE Diagging(q)
  <2>1. CASE port'[q].stat = "SWITCH"
    BY <1>1, <2>1 DEF Diagging
  <2>2. ASSUME NEW u \in Thread, thr'[u].port = q,
               \/ thr'[u].pc \in {"diag", "setflash", "close"}
               \/ thr'[u].pc = "begin" /\ heap'[port'[q].active].status = "PLUGIN"
        PROVE  Diagging(q)
    <3>1. u # t
      BY <1>5, <1>6, <2>2
    <3>2. thr[u].pc = "begin" => port[thr[u].port].active \in DOMAIN heap
      BY WorkerIs DEF Works
    <3>3. thr'[u] = thr[u] /\ port' = port
      BY <1>1, <1>6, <3>1
    <3>4. CASE thr[u].pc \in {"diag", "setflash", "close"}
      BY <2>2, <3>3, <3>4 DEF Diagging
    <3>5. CASE thr[u].pc = "begin"
      <4>1. heap'[port[q].active].status = heap[port[q].active].status
        BY <1>4, <2>2, <3>2, <3>3, <3>5
      <4> QED BY <2>2, <3>3, <3>5, <4>1 DEF Diagging
    <3> QED BY <2>2, <3>3, <3>4, <3>5
  <2>3. CASE (Assigned(q) \/ Starting(q)) /\ heap'[port'[q].active].status = "PLUGIN"
    <3>1. port[q].active \in DOMAIN heap /\ port'[q] = port[q]
      BY <1>1, <2>3, StartingIs
    <3>2. heap[port[q].active].status = "PLUGIN"
      BY <1>4, <2>3, <3>1
    <3> QED BY <2>3, <3>1, <3>2 DEF Diagging
  <2> QED BY <1>1, <1>17, <2>1, <2>2, <2>3, UISame DEF Diagging
<1>18. MapServed'
  <2> SUFFICES ASSUME NEW q \in Port, Diagging(q)', port'[q].map # 0, NEW e \in DOMAIN heap,
                      heap[e].slot = port'[q].map, Valid(e)'
               PROVE  FALSE
    BY <1>4 DEF MapServed
  <2>1. PICK g \in DOMAIN heap : heap[g].slot = port[q].map /\ heap[g].fb = TRUE
    BY <1>1 DEF CalmInd, PortOK
  <2>2. e # d
    BY <1>1, <1>3, <2>1, Objects
  <2> QED BY <1>1, <1>9, <1>17, <2>2 DEF CalmInd, MapServed
<1>19. UIOK'
  <2>1. HeapKept
    <3>1. ~Valid(d)
      BY <1>2, HeldIs DEF Valid
    <3> QED BY <1>3, <1>4, <1>9, <3>1 DEF HeapKept, Valid
  <2> QED BY <1>1, <1>5, <1>6, <1>7, <2>1, UIKept DEF Early
<1> QED BY <1>1, <1>8, <1>11, <1>12, <1>13, <1>14, <1>16, <1>18, <1>19 DEF CalmInd

LEMMA FinishCalm == ASSUME PortsInd, CalmInd, NEW t \in Thread, Finish(t) PROVE CalmInd'
<1> DEFINE p == thr[t].port
           a == port[p].active
           m == IF port[p].map = 0 /\ a # 0 /\ heap[a].diag /\ heap[a].fb THEN SlotOf(a) ELSE port[p].map
           w == [port[p] EXCEPT !.stat = "FINISH", !.map = m]
<1>1. /\ thr[t].pc = "finish" /\ Goto(t, "clean") /\ port' = [port EXCEPT ![p] = w]
      /\ UNCHANGED <<bus, heap, mDevintfList, ui, msgs, clicks, m_bWork, crashed>>
  BY DEF Finish, MyPort, poolVars
<1>2. Works(t) /\ p \in Port /\ Stage("finish", port[p], thr[t]) /\ a \in DOMAIN heap
  BY <1>1, WorkerIs DEF Works
<1>3. m # 0 => \E d \in DOMAIN heap : heap[d].slot = m /\ heap[d].diag = TRUE /\ heap[d].fb = TRUE
  <2>1. heap[a].diag \in BOOLEAN /\ heap[a].fb \in BOOLEAN /\ PortOK(p)
    BY <1>2, ObjectIs DEF CalmInd
  <2>2. CASE port[p].map = 0 /\ a # 0 /\ heap[a].diag /\ heap[a].fb
    <3>1. heap[a].diag = TRUE /\ heap[a].fb = TRUE /\ m = heap[a].slot
      BY <2>1, <2>2 DEF SlotOf
    <3> QED BY <1>2, <3>1
  <2>3. CASE ~(port[p].map = 0 /\ a # 0 /\ heap[a].diag /\ heap[a].fb)
    <3>1. m = port[p].map
      BY <2>3
    <3> QED BY <2>1, <3>1 DEF PortOK
  <2> QED BY <2>2, <2>3
<1> HIDE DEF m
<1>4. /\ w.stat = "FINISH" /\ w.map = m /\ w.active = a /\ w.usb = port[p].usb
      /\ w.evt = port[p].evt
  <2>1. port[p] \in PortRec(DOMAIN heap)
    BY <1>2, PortIs
  <2> QED BY <2>1 DEF PortRec
<1> HIDE DEF w
<1>5. port'[p] = w /\ \A q \in Port : q # p => port'[q] = port[q]
  BY <1>1, <1>2, Parts DEF Ports
<1>6. PICK r : /\ thr' = [thr EXCEPT ![t] = r] /\ r.pc = "clean" /\ r.port = p
               /\ r.dev = thr[t].dev /\ r.usb = thr[t].usb /\ r.ok = thr[t].ok
  BY <1>1, GotoSays
<1>7. thr'[t] = r /\ \A u \in Thread : u # t => thr'[u] = thr[u]
  BY <1>6, Parts DEF Threads
<1>8. \A u \in Thread : Works(u)' = Works(u) /\ thr'[u].port = thr[u].port
  BY <1>1, <1>6, <1>7 DEF Works
<1>9. \A u \in Thread : Works(u) /\ u # t => thr[u].port # p
  BY <1>2 DEF CalmInd, OneWorker
<1>10. Begun'
  BY <1>1, Later DEF CalmInd
<1>11. InOrder' /\ FreshLast' /\ \A e \in DOMAIN heap' : DeviceOK(e)'
  BY <1>1, SameDevices DEF CalmInd, InOrder, FreshLast, Fresh
<1>12. ASSUME NEW q \in Port PROVE PortOK(q)'
  <2>1. PortOK(q)
    BY DEF CalmInd
  <2>2. CASE q = p
    BY <1>1, <1>2, <1>3, <1>4, <1>5, <2>1, <2>2 DEF PortOK
  <2>3. CASE q # p
    BY <1>1, <1>5, <2>1, <2>3, UISame DEF PortOK
  <2> QED BY <2>2, <2>3
<1>13. ASSUME NEW u \in Thread PROVE ThreadOK(u)'
  <2>1. CASE u = t
    <3>1. Stage(r.pc, w, r)
      BY <1>2, <1>4, <1>6 DEF Stage, Early
    <3> QED BY <1>5, <1>6, <1>7, <2>1, <3>1 DEF ThreadOK
  <2>2. CASE u # t
    <3>1. Works(u) => thr[u].port \in Port /\ port'[thr[u].port] = port[thr[u].port]
      BY <1>5, <1>9, <2>2, WorkerIs
    <3>2. thr'[u] = thr[u] /\ ThreadOK(u)
      BY <1>7, <2>2 DEF CalmInd
    <3> QED BY <1>1, <3>1, <3>2 DEF ThreadOK, Works
  <2> QED BY <2>1, <2>2
<1>14. OneWorker'
  <2>1. \A q \in Port : port'[q].stat # "IDLE" => port[q].stat # "IDLE"
    BY <1>2, <1>5 DEF Stage
  <2> QED BY <1>1, <1>8, <2>1, UISame DEF CalmInd, OneWorker
<1>15. \A q \in Port : (Holds(q)' => Holds(q)) /\ port'[q].active = port[q].active
  BY <1>1, <1>4, <1>5, <1>6, <1>7, UISame DEF Holds
<1>16. Owned'
  BY <1>1, <1>15 DEF CalmInd, Owned
<1>17. ASSUME NEW q \in Port, Diagging(q)' PROVE q # p /\ Diagging(q)
  <2>1. CASE q = p
    <3>1. \A u \in Thread : thr'[u].port = p => thr'[u].pc \notin {"begin", "diag", "setflash", "close"}
      BY <1>6, <1>7, <1>9 DEF Works
    <3>2. \A x \in Port : x = p => ~Assigned(x)' /\ ~Starting(x)'
      BY <1>1, <1>2, NotStarting, UISame
    <3> QED BY <1>4, <1>5, <1>17, <2>1, <3>1, <3>2 DEF Diagging
  <2>2. CASE q # p
    <3>1. \A u \in Thread : thr'[u].port = q => u # t
      BY <1>6, <1>7, <2>2
    <3> QED BY <1>1, <1>5, <1>7, <1>17, <2>2, <3>1, UISame DEF Diagging
  <2> QED BY <2>1, <2>2
<1>18. MapServed'
  BY <1>1, <1>5, <1>17 DEF CalmInd, MapServed, Valid
<1>19. UIOK'
  <2>1. CASE ui.i # p
    <3>1. ui.i \in Port => port'[ui.i] = port[ui.i]
      BY <1>5, <2>1
    <3>2. \A u \in Thread : thr[u].port = ui.i => u # t
      BY <2>1
    <3> QED BY <1>1, <1>7, <1>8, <3>1, <3>2, HeapSame, UIKept
  <2>2. CASE ui.i = p
    <3>1. /\ port[p].stat \in {"WORKING", "SWITCH"} /\ UIOK /\ HeapKept
          /\ port'[ui.i] = w /\ ui' = ui /\ heap' = heap
      BY <1>1, <1>2, <1>5, <2>2, HeapSame DEF Stage, CalmInd
    <3>2. ~Given(p) /\ ~Starting(p)
      BY <1>2, NotStarting
    <3>3. Chosen'
      BY <3>1, ChosenKept
    <3>4. Looked'
      BY <1>4, <3>1 DEF Looked
    <3>5. Ends'
      <4>1. Works(t)' /\ thr'[t].port = p /\ thr'[t].pc \notin Early
        BY <1>2, <1>6, <1>7, <1>8 DEF Early
      <4> QED BY <1>4, <2>2, <3>1, <4>1 DEF UIOK, Ends, Ending
    <3>6. Gives'
      BY <1>4, <2>2, <3>1, <3>2 DEF UIOK, Gives, Given, Starting
    <3> QED BY <3>3, <3>4, <3>5, <3>6 DEF UIOK
  <2> QED BY <2>1, <2>2
<1> QED BY <1>1, <1>10, <1>11, <1>12, <1>13, <1>14, <1>16, <1>18, <1>19 DEF CalmInd

\* What closing a port's handle and cleaning the port leave: the handle of its device is dead,
\* and no other port or flashing worker had a copy of it.
Closed(t) ==
    LET p == thr[t].port
        a == port[p].active
    IN  /\ DOMAIN heap' = DOMAIN heap /\ Len(heap') = Len(heap)
        /\ \A e \in DOMAIN heap :
             /\ heap'[e].slot = heap[e].slot /\ heap'[e].diag = heap[e].diag
             /\ heap'[e].fb = heap[e].fb /\ heap'[e].status = heap[e].status
             /\ heap'[e].att = heap[e].att
             /\ port[p].usb # "live" \/ e # a => heap'[e].fbh = heap[e].fbh
        /\ port[p].usb = "live" => heap'[a].fbh = "dead"
        /\ port'[p].stat = "IDLE" /\ port'[p].usb = "null" /\ port'[p].active = 0
        /\ port'[p].evt = FALSE /\ port'[p].map = port[p].map
        /\ \A q \in Port : q # p => port'[q] = port[q]
        /\ thr'[t].pc = "none" \/ (thr'[t].pc = "mark" /\ thr'[t].dev = a /\ port[p].usb = "live")
        /\ \A u \in Thread : u # t =>
             /\ thr'[u].pc = thr[u].pc /\ thr'[u].port = thr[u].port /\ thr'[u].dev = thr[u].dev
             /\ thr'[u].ok = thr[u].ok /\ (thr[u].pc = "flash" => thr'[u].usb = thr[u].usb)

LEMMA ClosedIs == ASSUME PortsInd, CalmInd, NEW t \in Thread, CloseAndClean(t) PROVE Closed(t)
<1> DEFINE p == thr[t].port
           a == port[p].active
           s == UsbSlot(port[p])
           f == StalePorts(s)
           h == StaleThreads(s)
           w == Cleaned(f[p])
           r == IF thr[t].ok THEN [thr[t] EXCEPT !.pc = "mark"] ELSE NoThread
<1>1. /\ thr[t].pc = "clean" /\ heap' = StaleIn(heap, s) /\ port' = [f EXCEPT ![p] = w]
      /\ thr' = [h EXCEPT ![t] = r]
  BY DEF CloseAndClean, MyPort
<1>2. /\ Works(t) /\ p \in Port /\ Stage("clean", port[p], thr[t]) /\ a \in DOMAIN heap
      /\ PortOK(p) /\ port[p].usb \in Pointer
  BY <1>1, WorkerIs, PortIs DEF Works, CalmInd
<1>3. 0 \notin DOMAIN heap /\ 0 \notin Slot /\ heap \in Seq(Object)
  BY Objects, PoolAssumption, Parts DEF Slot
<1>4. s = IF port[p].usb = "live" THEN heap[a].slot ELSE 0
  BY <1>2, <1>3 DEF UsbSlot, SlotOf
<1>5. \A e \in DOMAIN heap : heap[e].slot = s <=> port[p].usb = "live" /\ e = a
  BY <1>2, <1>3, <1>4, Objects, ObjectIs
<1> HIDE DEF s
<1>6. port[p].usb = "live" => heap[a].fbh = "live"
  BY <1>2 DEF PortOK
<1>7. \A q \in Port : q # p /\ (port[q].stat = "WORKING" \/ port[q].usb = "live") /\ port[p].usb = "live" =>
          port[q].active # a
  BY <1>2, Apart
<1>8. /\ DOMAIN heap' = DOMAIN heap /\ Len(heap') = Len(heap)
      /\ \A e \in DOMAIN heap :
           /\ heap'[e].slot = heap[e].slot /\ heap'[e].diag = heap[e].diag
           /\ heap'[e].fb = heap[e].fb /\ heap'[e].status = heap[e].status
           /\ heap'[e].att = heap[e].att
           /\ port[p].usb # "live" \/ e # a => heap'[e].fbh = heap[e].fbh
      /\ port[p].usb = "live" => heap'[a].fbh = "dead"
  <2>1. DOMAIN heap' = DOMAIN heap /\ Len(heap') = Len(heap)
    <3>1. Like(heap', heap)
      BY <1>1, <1>3, LikeStale
    <3> QED BY <1>3, <3>1 DEF Like
  <2>2. ASSUME NEW e \in DOMAIN heap
        PROVE  /\ heap'[e].slot = heap[e].slot /\ heap'[e].diag = heap[e].diag
               /\ heap'[e].fb = heap[e].fb /\ heap'[e].status = heap[e].status
               /\ heap'[e].att = heap[e].att
               /\ heap'[e].fbh = IF heap[e].slot = s THEN Stale(heap[e].fbh) ELSE heap[e].fbh
    <3> DEFINE x == Stale(heap[e].fbh)
               o == [heap[e] EXCEPT !.fbh = x]
    <3>1. heap'[e] = IF heap[e].slot = s THEN o ELSE heap[e]
      BY <1>1 DEF StaleIn
    <3> HIDE DEF x
    <3>2. /\ o.slot = heap[e].slot /\ o.diag = heap[e].diag /\ o.fb = heap[e].fb
          /\ o.status = heap[e].status /\ o.att = heap[e].att /\ o.fbh = x
      BY ObjectIs DEF Object
    <3> HIDE DEF o
    <3> QED BY <3>1, <3>2 DEF x
  <2>3. port[p].usb = "live" => heap'[a].fbh = "dead"
    BY <1>2, <1>5, <1>6, <2>2 DEF Stale
  <2> QED BY <1>5, <2>1, <2>2, <2>3
<1>9. f \in [Port -> PortRec(DOMAIN heap)]
  BY StalePortsIs
<1>10. ASSUME NEW q \in Port, q # p PROVE f[q] = port[q]
  <2>1. ASSUME SlotOf(port[q].active) = s, port[q].usb = "live" PROVE FALSE
    <3>1. port[q].active \in DOMAIN heap
      BY <2>1, LiveIs
    <3>2. heap[port[q].active].slot = s
      BY <1>3, <2>1, <3>1 DEF SlotOf
    <3> QED BY <1>5, <1>7, <1>10, <2>1, <3>1, <3>2
  <2> QED BY <2>1, StalePortSays
<1>11. f[p].map = port[p].map
  <2>1. port[p] \in PortRec(DOMAIN heap)
    BY <1>2, PortIs
  <2>2. f[p] = [port[p] EXCEPT !.usb = Stale(@)] \/ f[p] = port[p]
    BY <1>2 DEF StalePorts
  <2> HIDE DEF f
  <2> QED BY <2>1, <2>2 DEF PortRec
<1> HIDE DEF f
<1>12. w.stat = "IDLE" /\ w.usb = "null" /\ w.active = 0 /\ w.evt = FALSE /\ w.map = port[p].map
  <2>1. f[p] \in PortRec(DOMAIN heap)
    BY <1>2, <1>9
  <2> QED BY <1>11, <2>1 DEF PortRec, Cleaned
<1> HIDE DEF w
<1>13. port'[p] = w /\ \A q \in Port : q # p => port'[q] = port[q]
  BY <1>1, <1>2, <1>9, <1>10
<1>14. r.pc = "none" \/ (r.pc = "mark" /\ r.dev = a /\ port[p].usb = "live")
  <2>1. thr[t] \in ThreadRec(DOMAIN heap) /\ thr[t].ok \in BOOLEAN
    BY ThreadIs DEF ThreadRec
  <2>2. CASE thr[t].ok = TRUE
    <3> DEFINE x == [thr[t] EXCEPT !.pc = "mark"]
    <3>1. r = x
      BY <2>2
    <3>2. x.pc = "mark" /\ x.dev = thr[t].dev
      BY <2>1 DEF ThreadRec
    <3>3. thr[t].dev = a /\ port[p].usb = "live"
      BY <1>2, <2>2 DEF Stage
    <3> HIDE DEF x, r
    <3> QED BY <3>1, <3>2, <3>3
  <2>3. CASE thr[t].ok = FALSE
    BY <2>3 DEF NoThread
  <2> QED BY <2>1, <2>2, <2>3
<1> HIDE DEF r
<1>15. h \in [Thread -> ThreadRec(DOMAIN heap)]
  BY StaleThreadsIs
<1>16. thr'[t] = r /\ \A u \in Thread : u # t => thr'[u] = h[u]
  <2> HIDE DEF h
  <2> QED BY <1>1, <1>15
<1>17. ASSUME NEW u \in Thread, u # t
       PROVE  /\ thr'[u].pc = thr[u].pc /\ thr'[u].port = thr[u].port /\ thr'[u].dev = thr[u].dev
              /\ thr'[u].ok = thr[u].ok /\ (thr[u].pc = "flash" => thr'[u].usb = thr[u].usb)
  <2>1. ASSUME thr[u].pc = "flash" PROVE SlotOf(thr[u].dev) # s
    <3>1. /\ Works(u) /\ thr[u].port \in Port /\ thr[u].dev \in DOMAIN heap
          /\ thr[u].dev = port[thr[u].port].active /\ port[thr[u].port].stat = "WORKING"
      BY <2>1, WorkerIs DEF Works, Stage
    <3>2. thr[u].port # p
      BY <1>2, <1>17, <3>1 DEF CalmInd, OneWorker
    <3> QED BY <1>3, <1>5, <1>7, <3>1, <3>2 DEF SlotOf
  <2>2. thr'[u] = h[u]
    BY <1>16, <1>17
  <2> QED BY <2>1, <2>2, StaleThreadSays
<1> HIDE DEF h
<1> QED BY <1>8, <1>12, <1>13, <1>14, <1>16, <1>17 DEF Closed

LEMMA CloseAndCleanCalm == ASSUME PortsInd, CalmInd, NEW t \in Thread, CloseAndClean(t), ~CleanRace PROVE CalmInd'
<1> DEFINE p == thr[t].port
           a == port[p].active
<1>1. /\ thr[t].pc = "clean" /\ msgs' = Append(msgs, Msg("done", 0))
      /\ UNCHANGED <<bus, mDevintfList, ui, clicks, m_bWork, crashed>>
  BY DEF CloseAndClean
<1>2. /\ Works(t) /\ p \in Port /\ Stage("clean", port[p], thr[t]) /\ a \in DOMAIN heap /\ PortOK(p)
  BY <1>1, WorkerIs DEF Works, CalmInd
<1>3. Closed(t)
  BY ClosedIs
<1>4. /\ DOMAIN heap' = DOMAIN heap /\ Len(heap') = Len(heap)
      /\ \A e \in DOMAIN heap :
           /\ heap'[e].slot = heap[e].slot /\ heap'[e].diag = heap[e].diag
           /\ heap'[e].fb = heap[e].fb /\ heap'[e].status = heap[e].status
           /\ heap'[e].att = heap[e].att
           /\ port[p].usb # "live" \/ e # a => heap'[e].fbh = heap[e].fbh
      /\ port[p].usb = "live" => heap'[a].fbh = "dead"
  BY <1>3 DEF Closed
<1>5. /\ port'[p].stat = "IDLE" /\ port'[p].usb = "null" /\ port'[p].active = 0
      /\ port'[p].evt = FALSE /\ port'[p].map = port[p].map
      /\ \A q \in Port : q # p => port'[q] = port[q]
  BY <1>3 DEF Closed
<1>6. /\ thr'[t].pc = "none" \/ (thr'[t].pc = "mark" /\ thr'[t].dev = a /\ port[p].usb = "live")
      /\ \A u \in Thread : u # t =>
           /\ thr'[u].pc = thr[u].pc /\ thr'[u].port = thr[u].port /\ thr'[u].dev = thr[u].dev
           /\ thr'[u].ok = thr[u].ok /\ (thr[u].pc = "flash" => thr'[u].usb = thr[u].usb)
  BY <1>3 DEF Closed
<1>7. ui.i = p => ui.pc \in {"idle", "start", "port", "pick", "look", "set"}
  <2>1. thr'[t].pc # "clean"
    BY <1>6
  <2> QED BY <1>1, <2>1, UIIs DEF CleanRace, UISteps
<1>8. \A u \in Thread : Works(u) /\ u # t => thr[u].port # p
  BY <1>2 DEF CalmInd, OneWorker
<1>9. port[p].usb = "live" => heap[a].fbh = "live" /\ heap[a].att = TRUE /\ Holds(p)
  <2>1. SUFFICES ASSUME port[p].usb = "live" PROVE heap[a].fbh = "live" /\ heap[a].att = TRUE /\ Holds(p)
    OBVIOUS
  <2>2. ~Taking(p)
    BY <1>7 DEF Taking
  <2>3. Holds(p)
    BY <2>1, <2>2 DEF Holds
  <2> QED BY <1>2, <2>1, <2>3, HeldIs DEF PortOK
<1>10. Begun'
  <2>1. \E k \in {"com", "fastboot", "done"} : \E s : msgs' = Append(msgs, Msg(k, s))
    BY <1>1
  <2> QED BY <1>1, <2>1, Later DEF CalmInd
<1>11. \A e \in DOMAIN heap : (Fresh(e)' <=> Fresh(e)) /\ (Valid(e)' <=> Valid(e))
  BY <1>4 DEF Fresh, Valid
<1>12. ASSUME NEW e \in DOMAIN heap PROVE DeviceOK(e)'
  <2>1. DeviceOK(e) /\ bus' = bus /\ heap[e].fb \in BOOLEAN
    BY <1>1, ObjectIs DEF CalmInd
  <2>2. CASE port[p].usb = "live" /\ e = a
    <3>1. heap[e].fb = TRUE
      BY <1>9, <2>1, <2>2 DEF DeviceOK
    <3> QED BY <1>4, <1>9, <1>11, <2>1, <2>2, <3>1 DEF DeviceOK
  <2>3. CASE ~(port[p].usb = "live" /\ e = a)
    BY <1>4, <1>11, <2>1, <2>3 DEF DeviceOK
  <2> QED BY <2>2, <2>3
<1>13. InOrder' /\ FreshLast'
  <2>1. InOrder'
    BY <1>1, <1>4 DEF CalmInd, InOrder
  <2>2. FreshLast'
    BY <1>4, <1>11 DEF CalmInd, FreshLast
  <2> QED BY <2>1, <2>2
<1>14. ASSUME NEW q \in Port PROVE PortOK(q)'
  <2>1. PortOK(q)
    BY DEF CalmInd
  <2>2. CASE q = p
    BY <1>4, <1>5, <2>1, <2>2 DEF PortOK
  <2>3. CASE q # p
    <3>1. port[q].usb = "live" => port[q].active \in DOMAIN heap
      BY LiveIs
    <3>2. port[q].usb = "live" /\ port[p].usb = "live" => port[q].active # a
      BY <1>2, <2>3, Apart
    <3>3. Given(q)' = Given(q)
      BY <1>1, UISame
    <3> QED BY <1>4, <1>5, <2>1, <2>3, <3>1, <3>2, <3>3 DEF PortOK
  <2> QED BY <2>2, <2>3
<1>15. ASSUME NEW u \in Thread PROVE ThreadOK(u)'
  <2>1. CASE u = t
    BY <1>2, <1>4, <1>6, <2>1 DEF ThreadOK, Works
  <2>2. CASE u # t
    <3>1. ASSUME Works(u) PROVE Stage(thr'[u].pc, port'[thr'[u].port], thr'[u])
      <4>1. thr[u].port \in Port /\ Stage(thr[u].pc, port[thr[u].port], thr[u])
        BY <3>1, WorkerIs
      <4>2. port'[thr[u].port] = port[thr[u].port]
        BY <1>5, <1>8, <2>2, <3>1, <4>1
      <4> QED BY <1>6, <2>2, <4>1, <4>2 DEF Stage
    <3>2. ThreadOK(u)
      BY DEF CalmInd
    <3>3. thr[u].pc \in {"diag", "setflash", "close", "detach"} => thr[u].dev \in DOMAIN heap
      BY OwnIs
    <3>4. thr[u].pc = "mark" => heap'[thr[u].dev].fbh = "dead" /\ thr[u].dev \in DOMAIN heap
      BY <1>4, <3>2 DEF ThreadOK
    <3>5. Works(u)' <=> Works(u)
      BY <1>6, <2>2 DEF Works
    <3> QED BY <1>4, <1>6, <2>2, <3>1, <3>2, <3>3, <3>4, <3>5 DEF ThreadOK
  <2> QED BY <2>1, <2>2
<1>16. \A u \in Thread : /\ Works(u)' => u # t /\ Works(u) /\ thr'[u].port = thr[u].port
                         /\ Works(u) /\ u # t => Works(u)' /\ thr'[u].port = thr[u].port
  BY <1>6 DEF Works
<1>17. OneWorker'
  <2>1. \A u, v \in Thread : Works(u)' /\ Works(v)' /\ thr'[u].port = thr'[v].port => u = v
    BY <1>16 DEF CalmInd, OneWorker
  <2>2. ASSUME NEW q \in Port, port'[q].stat # "IDLE", ~Starting(q)'
        PROVE  \E u \in Thread : Works(u)' /\ thr'[u].port = q
    <3>1. q # p /\ port[q].stat # "IDLE" /\ ~Starting(q)
      BY <1>1, <1>5, <2>2, UISame
    <3>2. PICK u \in Thread : Works(u) /\ thr[u].port = q
      BY <3>1 DEF CalmInd, OneWorker
    <3> QED BY <1>16, <3>1, <3>2
  <2> QED BY <2>1, <2>2 DEF OneWorker
<1>18. ASSUME NEW q \in Port, Holds(q)' PROVE q # p /\ Holds(q)
  <2>1. \A u \in Thread : thr'[u].pc = "detach" => u # t /\ thr[u].port # p
    BY <1>6, <1>8 DEF Works
  <2>2. \A x \in Port : /\ Taking(x)' = Taking(x) /\ Assigned(x)' = Assigned(x)
                        /\ x = p => ~Assigned(x)
    BY <1>1, <1>2, NotStarting, UISame
  <2>3. \A u \in Thread : thr'[u].port = q /\ thr'[u].pc = "detach" =>
                            q # p /\ thr[u].port = q /\ thr[u].pc = "detach"
    BY <1>6, <2>1
  <2>4. q # p
    BY <1>5, <1>18, <2>2, <2>3 DEF Holds
  <2>5. port'[q] = port[q]
    BY <1>5, <2>4
  <2> QED BY <1>18, <2>2, <2>3, <2>4, <2>5 DEF Holds
<1>19. Owned'
  <2>1. \A q \in Port : Holds(q)' => port'[q] = port[q] /\ Holds(q) /\ port[q].active \in DOMAIN heap
    BY <1>5, <1>18, HeldIs
  <2> QED BY <1>4, <2>1 DEF CalmInd, Owned
<1>20. ASSUME NEW q \in Port, Diagging(q)' PROVE q # p /\ Diagging(q)
  <2>1. \A u \in Thread : thr'[u].pc \in {"begin", "diag", "setflash", "close"} =>
                            u # t /\ thr[u].port # p
    BY <1>6, <1>8 DEF Works
  <2>2. \A x \in Port : /\ Assigned(x)' = Assigned(x) /\ Starting(x)' = Starting(x)
                        /\ x = p => ~Assigned(x) /\ ~Starting(x)
    BY <1>1, <1>2, NotStarting, UISame
  <2>3. \A u \in Thread : thr'[u].port = q /\ thr'[u].pc \in {"begin", "diag", "setflash", "close"} =>
                            q # p /\ thr[u].port = q /\ thr[u].pc = thr'[u].pc
    BY <1>6, <2>1
  <2>4. q # p
    BY <1>5, <1>20, <2>2, <2>3 DEF Diagging
  <2>5. \A u \in Thread : thr[u].pc = "begin" => port[thr[u].port].active \in DOMAIN heap
    BY WorkerIs DEF Works
  <2>6. Assigned(q) \/ Starting(q) => port[q].active \in DOMAIN heap
    BY StartingIs
  <2>7. port'[q] = port[q]
    BY <1>5, <2>4
  <2>8. heap'[port[q].active].status = "PLUGIN" /\ port[q].active \in DOMAIN heap =>
           heap[port[q].active].status = "PLUGIN"
    BY <1>4
  <2> QED BY <1>20, <2>2, <2>3, <2>4, <2>5, <2>6, <2>7, <2>8 DEF Diagging
<1>21. MapServed'
  BY <1>4, <1>5, <1>11, <1>20 DEF CalmInd, MapServed
<1>22. UIOK'
  <2>1. HeapKept
    BY <1>4, <1>11 DEF HeapKept, Valid
  <2>2. CASE ui.i # p
    <3>1. ui.i \in Port => port'[ui.i] = port[ui.i]
      BY <1>5, <2>2
    <3>2. \A u \in Thread : thr[u].port = ui.i => u # t
      BY <2>2
    <3> QED BY <1>1, <1>6, <1>16, <2>1, <3>1, <3>2, UIKept
  <2>3. CASE ui.i = p
    <3>1. Chosen'
      BY <1>1, <2>1, ChosenKept
    <3>2. Looked' /\ Gives' /\ Ends'
      BY <1>1, <1>5, <1>7, <2>3 DEF CalmInd, UIOK, Looked, Gives, Given, Ends, Ending
    <3> QED BY <3>1, <3>2 DEF UIOK
  <2> QED BY <2>2, <2>3
<1> QED BY <1>1, <1>4, <1>10, <1>12, <1>13, <1>14, <1>15, <1>17, <1>19, <1>21, <1>22 DEF CalmInd

-----------------------------------------------------------------------------
(* The whole. *)

LEMMA NoCrashStep == ASSUME PortsInd, CalmInd, NEW t \in Thread PROVE ~Crash(t)
<1> SUFFICES ASSUME BadPointer(t) PROVE FALSE
  BY DEF Crash
<1>1. Listed = DOMAIN heap /\ thr[t].pc \in Steps
  <2>1. thr[t] \in ThreadRec(DOMAIN heap)
    BY ThreadIs
  <2> QED BY <2>1, Objects DEF ThreadRec
<1>2. CASE thr[t].pc = "none"
  BY <1>2 DEF BadPointer
<1>3. CASE thr[t].pc = "mark"
  BY <1>1, <1>3 DEF BadPointer, CalmInd, ThreadOK
<1>4. CASE Works(t)
  <2>1. /\ thr[t].port \in Port /\ Stage(thr[t].pc, port[thr[t].port], thr[t])
        /\ port[thr[t].port].active \in DOMAIN heap /\ port[thr[t].port].usb # "dead"
    BY <1>4, WorkerIs DEF CalmInd, PortOK
  <2>2. ~BadActive(t)
    BY <1>1, <2>1 DEF BadActive, MyPort
  <2>3. thr[t].pc # "begin" => thr[t].dev \in Listed
    BY <1>1, <1>4, <2>1 DEF Stage, Works
  <2>4. thr[t].pc = "flash" => thr[t].usb # "dead"
    BY <2>1 DEF Stage
  <2> QED BY <1>1, <1>4, <2>1, <2>2, <2>3, <2>4 DEF BadPointer, MyPort, Works, Steps
<1> QED BY <1>2, <1>3, <1>4 DEF Works

LEMMA InitCalm == Init => CalmInd
<1> SUFFICES ASSUME Init PROVE CalmInd
  OBVIOUS
<1>1. /\ heap = <<>> /\ mDevintfList = <<>> /\ msgs = <<>> /\ m_bWork = FALSE /\ crashed = FALSE
      /\ ui.pc = "idle" /\ ui.dev = 0
  BY DEF Init, PoolInit, Idle
<1>2. \A p \in Port : /\ port[p].stat = "IDLE" /\ port[p].usb = "null" /\ port[p].active = 0
                      /\ port[p].map = 0 /\ port[p].evt = FALSE
  BY DEF Init
<1>3. \A t \in Thread : thr[t].pc = "none"
  BY DEF Init, NoThread
<1>4. Begun /\ InOrder /\ FreshLast
  BY <1>1, <1>2, <1>3 DEF Begun, InOrder, FreshLast
<1>5. OneWorker /\ Owned /\ MapServed
  BY <1>1, <1>2, <1>3 DEF OneWorker, Owned, MapServed, Works, Holds, Diagging, Assigned, Starting
<1>6. \A p \in Port : PortOK(p)
  BY <1>2 DEF PortOK
<1>7. \A t \in Thread : ThreadOK(t)
  BY <1>3 DEF ThreadOK, Works
<1>8. UIOK
  BY <1>1 DEF UIOK, Looked, Chosen, Choosing, Ends, Ending, Gives, Given
<1> QED BY <1>1, <1>4, <1>5, <1>6, <1>7, <1>8 DEF CalmInd

LEMMA NextCalm ==
    ASSUME Calm, PortsInd, CalmInd, [Next]_vars, ~raced'
    PROVE  CalmInd'
<1>0. PortsInd'
  BY NextIs
<1>1. CASE UNCHANGED vars
  <2>1. UNCHANGED <<heap, mDevintfList, port, thr, crashed, ui, clicks, m_bWork, bus, msgs>>
    BY <1>1 DEF vars, poolVars, schedVars
  <2>2. \A k \in DOMAIN msgs' : msgs'[k].kind # "removed"
    BY <2>1 DEF CalmInd, Begun
  <2> QED BY <2>1, <2>2, BusStep
<1>2. CASE Running /\ ~Race
  <2>1. ~FinishRace /\ ~CleanRace
    BY <1>2 DEF Race
  <2>2. CASE Schedule
    BY <2>1, <2>2, SchedulePortCalm, PickDeviceCalm, LookAtPortCalm, SetDevSwitchEvtCalm,
       TestActiveCalm, SetDeviceCalm, UpdateUsbHandleCalm, SetAttachStatusCalm, SetStatusCalm,
       SetEventCalm, AfxBeginThreadCalm, StartFailsCalm, StartCalm, NoScheduleCrash DEF Schedule
  <2>3. CASE Messages
    BY <1>0, <2>3, ComCalm, EnumerateCalm, NoRemoved, FlashDoneCalm, SetWorkCalm DEF Messages
  <2>4. CASE OnStart \/ OnStop
    BY <2>4, OnStartCalm, NoStop
  <2>5. ASSUME NEW t \in Thread, Worker(t) PROVE CalmInd'
    BY <2>1, <2>5, BeginCalm, DiagDownloadCalm, DiagFailsCalm, EnterFlashCalm, BeginSwitchCalm,
       DetachCalm, WaitCalm, CheckHandleCalm, FlashImagesCalm, FinishCalm, CloseAndCleanCalm,
       MarkRemovedCalm DEF Worker
  <2>6. ASSUME NEW s \in Slot, Rebooted(s) \/ Unplug(s) \/ \E m \in PlugModes : PlugIn(s, m)
        PROVE  CalmInd'
    <3>1. ~Unplug(s)
      BY DEF Unplug, Calm
    <3> QED BY <2>6, <3>1, RebootedCalm, PlugInCalm
  <2> QED BY <1>2, <2>2, <2>3, <2>4, <2>5, <2>6, NoCrashStep DEF Running
<1>3. raced' = (raced \/ Race) => ~Race
  OBVIOUS
<1> QED BY <1>1, <1>2, <1>3 DEF Next, Step

\* Through one Start with modems that stay plugged in, and until the UI thread and a worker meet
\* on a port, the devices keep their order in the list, every busy port its one worker, and
\* every port and worker that uses a device or a handle is the only one to do so
\* (mdmfastboot/PST.cpp ScheduleDeviceWork, RunMiFiPST).
THEOREM CalmInductive == Calm => (Spec => [](PortsInd /\ (~raced => CalmInd)))
<1> SUFFICES ASSUME Calm PROVE Spec => [](PortsInd /\ (~raced => CalmInd))
  OBVIOUS
<1>1. Init => PortsInd /\ (~raced => CalmInd)
  BY InitIs, InitCalm
<1>2. PortsInd /\ (~raced => CalmInd) /\ [Next]_vars => (PortsInd /\ (~raced => CalmInd))'
  <2> SUFFICES ASSUME PortsInd, ~raced => CalmInd, [Next]_vars PROVE ~raced' => CalmInd'
    BY NextIs
  <2>1. raced => raced'
    BY DEF Next, Step, vars
  <2> QED BY <2>1, NextCalm
<1> QED BY <1>1, <1>2, PTL DEF Spec

\* No two ports work on one device object, for any number of ports, modems and threads:
\* GetValidDevice hands out nothing that SetDevice or SetDevSwitchEvt attached, although the
\* workers detach and give up their ports while ScheduleDeviceWork walks over them.
THEOREM OneOwnerAlways == Calm => (Spec => []OneOwner)
<1> SUFFICES ASSUME Calm PROVE Spec => []OneOwner
  OBVIOUS
<1>1. PortsInd /\ (~raced => CalmInd) => OneOwner
  BY Apart DEF OneOwner
<1> QED BY <1>1, CalmInductive, PTL

\* The device of a working port is listed and attached, but for the port whose switch
\* SetDevSwitchEvt is ending.
THEOREM WorkingAttachedAlways == Calm => (Spec => []WorkingAttached)
<1> SUFFICES ASSUME Calm PROVE Spec => []WorkingAttached
  OBVIOUS
<1>1. PortsInd /\ (~raced => CalmInd) => WorkingAttached
  <2> SUFFICES ASSUME PortsInd, CalmInd, NEW p \in Port, port[p].stat = "WORKING",
                      ~(ui.i = p /\ ui.pc \in {"test", "usb", "attach"})
               PROVE  port[p].active \in Listed /\ heap[port[p].active].att
    BY DEF WorkingAttached
  <2>1. ~Taking(p)
    BY DEF Taking, CalmInd, UIOK, Ends
  <2>2. Holds(p)
    BY <2>1 DEF Holds
  <2> QED BY <2>2, HeldIs, Objects
<1> QED BY <1>1, CalmInductive, PTL

\* No step of RunMiFiPST or ScheduleDeviceWork follows a NULL pointer, a freed device or a
\* closed handle, unless the UI thread and a worker met on a port before: the map of a port
\* that switches is the slot of a device that had its turn, so that the device which ends the
\* switch is the port's own.
THEOREM NoCrashAlways == Calm => (Spec => []NoCrash)
<1> SUFFICES ASSUME Calm PROVE Spec => []NoCrash
  OBVIOUS
<1>1. PortsInd /\ (~raced => CalmInd) => NoCrash
  BY DEF CalmInd, NoCrash
<1> QED BY <1>1, CalmInductive, PTL

\* A worker that has yet to wait for its modem finds the switch event reset, though only Clean
\* resets it.
THEOREM FreshSignalAlways == Calm => (Spec => []FreshSignal)
<1> SUFFICES ASSUME Calm PROVE Spec => []FreshSignal
  OBVIOUS
<1>1. PortsInd /\ (~raced => CalmInd) => FreshSignal
  BY DEF CalmInd, ThreadOK, Stage, Works, Early, FreshSignal, MyPort
<1> QED BY <1>1, CalmInductive, PTL

\* A port is busy exactly while one worker thread works for it, or is about to be started.
THEOREM PortHasWorkerAlways == Calm => (Spec => []PortHasWorker)
<1> SUFFICES ASSUME Calm PROVE Spec => []PortHasWorker
  OBVIOUS
<1>1. PortsInd /\ (~raced => CalmInd) => PortHasWorker
  <2> SUFFICES ASSUME PortsInd, CalmInd, NEW p \in Port
               PROVE  /\ port[p].stat = "IDLE" => WorkersOf(p) = {}
                      /\ port[p].stat # "IDLE" => \/ \E t \in Thread : WorkersOf(p) = {t}
                                                  \/ WorkersOf(p) = {} /\ ui.i = p /\ ui.pc = "begin"
    BY DEF PortHasWorker
  <2> DEFINE W == WorkersOf(p)
  <2>1. (\A t \in Thread : t \in W <=> thr[t].port = p /\ Works(t)) /\ W \subseteq Thread
    BY DEF WorkersOf, Works
  <2> HIDE DEF W
  <2>2. port[p].stat = "IDLE" => W = {}
    BY <2>1, IdlePort
  <2>3. ASSUME port[p].stat # "IDLE", ~Starting(p) PROVE \E t \in Thread : W = {t}
    <3>1. PICK t \in Thread : Works(t) /\ thr[t].port = p
      BY <2>3 DEF CalmInd, OneWorker
    <3>2. \A u \in W : u = t
      BY <2>1, <3>1 DEF CalmInd, OneWorker
    <3>3. W = {t}
      BY <2>1, <3>1, <3>2
    <3> QED BY <3>3
  <2>4. Starting(p) => W = {} /\ ui.i = p /\ ui.pc = "begin"
    BY <2>1 DEF Starting, CalmInd, UIOK, Gives
  <2>5. /\ port[p].stat = "IDLE" => W = {}
        /\ port[p].stat # "IDLE" => \/ \E t \in Thread : W = {t}
                                    \/ W = {} /\ ui.i = p /\ ui.pc = "begin"
    BY <2>2, <2>3, <2>4
  <2> QED BY <2>5 DEF W
<1> QED BY <1>1, CalmInductive, PTL

==============================================================================
