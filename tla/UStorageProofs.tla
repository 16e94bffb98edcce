--------------------------- MODULE UStorageProofs ---------------------------
(***************************************************************************)
(* What UStorage does for any set of phone kinds and any number of devices *)
(* and disk changes: its types, its session invariants, the truth of the   *)
(* plug flag and the fate of a disk change.                                *)
(***************************************************************************)
EXTENDS UStorage, SequenceTheorems, TLAPS

-----------------------------------------------------------------------------
(* The strengthening.                                                       *)

(* Before the event thread has its sockets nothing has reached main().      *)
QuietStart ==
  /\ evpc = "start" => uevents = <<>>
  /\ ~Hears => ipc = <<>> /\ ~phonePlugin /\ conState = "INIT" /\ pc = "top"

(* main() holds rlock around the exchange with the disk service, only.      *)
LockSpan == (rlock = "main") <=> (pc \in {"query", "unlock"})

(* The last uevent that is not yet read agrees with the bus.                *)
LastUevent ==
  uevents # <<>> => (uevents[Len(uevents)] = "add" <=> bus # NoPhone)

(* The events that wait are those of the last changes, in order.            *)
IpcOrder == \A i \in 1..Len(ipc) : ipc[i] = disk - Len(ipc) + i

(* A change younger than the listing main() is about to send is still in    *)
(* front of rlock while main() holds it, so resetting the notification      *)
(* cannot hit it.                                                           *)
Waits(c) == (\E i \in DOMAIN ipc : ipc[i] = c) \/ evpc = "diskCall"
Young    == IF snap = NoList THEN {} ELSE {c \in Reportable : c > snap}

YoungChange ==
  /\ pc = "unlock" => \A c \in Young : Waits(c)
  /\ pc = "reply" => \A c \in Young : Waits(c) \/ notify

SessionInv == ClaimMatchesPhone /\ StateMatchesPhone /\ QuietStart /\ LockSpan
PlugInv    == PlugFlagSettles /\ LastUevent
ChangeInv  == NoLostChange /\ IpcOrder /\ YoungChange

IInv == TypeOK /\ SessionInv /\ PlugInv /\ ChangeInv

-----------------------------------------------------------------------------
(* Sequences used as queues.                                                *)

(* What Append puts into a queue is its last element.                       *)
LEMMA AppendLast ==
  ASSUME NEW S, NEW q \in Seq(S), NEW e \in S
  PROVE  /\ Append(q, e) \in Seq(S)
         /\ Append(q, e) # <<>>
         /\ Append(q, e)[Len(Append(q, e))] = e
BY AppendProperties

(* Receiving the head leaves the last element in place.                     *)
LEMMA TailLast ==
  ASSUME NEW S, NEW q \in Seq(S), q # <<>>
  PROVE  /\ Tail(q) \in Seq(S)
         /\ Head(q) \in S
         /\ Tail(q) # <<>> => Tail(q)[Len(Tail(q))] = q[Len(q)]
         /\ Tail(q) = <<>> => Head(q) = q[Len(q)]
<1>1. Len(q) \in Nat /\ Len(q) > 0
  BY EmptySeq, LenProperties
<1>2. Tail(q) \in Seq(S) /\ Len(Tail(q)) = Len(q) - 1
  BY HeadTailProperties
<1>3. Head(q) \in S /\ Head(q) = q[1]
  BY HeadTailProperties, <1>1, ElementOfSeq
<1>4. ASSUME Tail(q) # <<>> PROVE Tail(q)[Len(Tail(q))] = q[Len(q)]
  <2>1. Len(Tail(q)) > 0 /\ Len(Tail(q)) \in Nat
    BY <1>2, <1>4, EmptySeq, LenProperties
  <2>2. \A i \in 1..Len(Tail(q)) : Tail(q)[i] = q[i+1]
    BY HeadTailProperties
  <2> QED BY <1>1, <1>2, <2>1, <2>2
<1>5. ASSUME Tail(q) = <<>> PROVE Head(q) = q[Len(q)]
  <2>1. Len(Tail(q)) = 0
    BY <1>2, <1>5, EmptySeq
  <2>2. Len(q) - 1 = 0
    BY <1>2, <2>1, Zenon
  <2>3. Len(q) = 1
    BY <1>1, <2>2
  <2> QED BY <1>3, <2>3
<1> QED BY <1>2, <1>3, <1>4, <1>5

(* ... and every other element.                                             *)
LEMMA TailKeeps ==
  ASSUME NEW S, NEW q \in Seq(S), NEW i \in DOMAIN q, q[i] # Head(q)
  PROVE  \E j \in DOMAIN Tail(q) : Tail(q)[j] = q[i]
<1>1. /\ Len(q) \in Nat /\ DOMAIN q = 1..Len(q)
      /\ i \in Int /\ i >= 1 /\ i <= Len(q)
  BY LenProperties
<1>2. q # <<>> /\ Head(q) = q[1]
  BY <1>1, EmptySeq, HeadTailProperties
<1>3. /\ Tail(q) \in Seq(S) /\ Len(Tail(q)) = Len(q) - 1
      /\ \A k \in 1..Len(Tail(q)) : Tail(q)[k] = q[k + 1]
  BY <1>2, HeadTailProperties
<1>4. DOMAIN Tail(q) = 1..Len(q) - 1
  BY <1>3, LenProperties
<1>5. i - 1 \in 1..Len(q) - 1
  BY <1>1, <1>2
<1>6. Tail(q)[i - 1] = q[(i - 1) + 1]
  BY <1>3, <1>5
<1> QED BY <1>1, <1>4, <1>5, <1>6

(* The uevents a bus change makes: well-typed, and the last one stands last. *)
LEMMA KernelProperties ==
  ASSUME TypeOK, NEW ev \in Seq({"add", "remove"}), ev # <<>>, Kernel(ev)
  PROVE  /\ uevents' \in Seq({"add", "remove"})
         /\ evpc # "start" => /\ uevents' # <<>>
                              /\ uevents'[Len(uevents')] = ev[Len(ev)]
<1>1. CASE evpc = "start"
  BY <1>1 DEF Kernel, TypeOK
<1>2. CASE evpc # "start"
  <2>1. uevents' = uevents \o ev
    BY <1>2 DEF Kernel
  <2>2. uevents \in Seq({"add", "remove"})
    BY DEF TypeOK
  <2>3. Len(ev) \in Nat /\ Len(ev) > 0 /\ Len(uevents) \in Nat
    BY <2>2, EmptySeq, LenProperties
  <2>4. /\ uevents' \in Seq({"add", "remove"})
        /\ Len(uevents') = Len(uevents) + Len(ev)
        /\ \A i \in 1..Len(uevents) + Len(ev) :
              uevents'[i] = IF i <= Len(uevents) THEN uevents[i]
                            ELSE ev[i - Len(uevents)]
    BY <2>1, <2>2, ConcatProperties
  <2>5. uevents'[Len(uevents')] = ev[Len(ev)]
    BY <2>3, <2>4
  <2>6. uevents' # <<>>
    BY <2>3, <2>4, EmptySeq
  <2> QED BY <2>4, <2>5, <2>6
<1> QED BY <1>1, <1>2

-----------------------------------------------------------------------------
(* Types.                                                                   *)

(* An app that has seen nothing yet.                                        *)
LEMMA NoAppType == NoApp \in [list : 0..MaxDisk \cup {NoList}, told : BOOLEAN]
BY DEF NoApp

(* The daemon starts in a well-typed state.                                 *)
LEMMA TypeInit == Init => TypeOK
<1> SUFFICES ASSUME Init PROVE TypeOK
  OBVIOUS
<1> USE UStorageAssumption DEF UStorageAssumption, Init
<1>1. bus \in [dev : Devs, kind : BusKinds] \cup {NoPhone} /\ lastDev \in 0..MaxDevs
  <2>1. CASE bus = NoPhone
    BY <2>1 DEF NoPhone
  <2>2. CASE bus \in [dev : Devs \cap {1}, kind : Kinds]
    <3>1. Devs \cap {1} \subseteq Devs /\ Kinds \subseteq BusKinds
      BY DEF BusKinds, PhoneKinds
    <3>2. bus \in [dev : Devs, kind : BusKinds]
      BY <2>2, <3>1
    <3>3. bus.dev \in 0..MaxDevs
      BY <3>2 DEF Devs
    <3> QED BY <3>2, <3>3
  <2> QED BY <2>1, <2>2
<1>2. /\ uevents \in Seq({"add", "remove"})
      /\ ipc \in Seq(1..MaxDisk) /\ unread \subseteq 1..MaxDisk
  BY EmptySeq
<1>3. phone \in [dev : Devs, kind : PhoneKinds] \cup {NoPhone}
  OBVIOUS
<1>4. app \in [list : 0..MaxDisk \cup {NoList}, told : BOOLEAN]
  BY NoAppType
<1>5. req \in Requests /\ claimed \in SUBSET Devs /\ disk \in 0..MaxDisk
  BY DEF Requests
<1> QED BY <1>1, <1>2, <1>3, <1>4, <1>5 DEF TypeOK

(* The part of the types that main() writes, apart from the bus, where it    *)
(* switches a phone.                                                        *)
Apps   == [list : 0..MaxDisk \cup {NoList}, told : BOOLEAN]
Phones == [dev : Devs, kind : PhoneKinds] \cup {NoPhone}
Steps  == {"top", "detect", "connect", "recv", "lock", "query", "unlock",
           "reply", "loopNext", "getNotify", "push"}

MainType ==
  /\ app \in Apps /\ phone \in Phones /\ claimed \in SUBSET Devs
  /\ pc \in Steps /\ conState \in {"INIT", "CNTING", "CNTED"}
  /\ rlock \in {"free", "main"} /\ req \in Requests
  /\ snap \in 0..MaxDisk \cup {NoList}
  /\ notify \in BOOLEAN /\ missed \in BOOLEAN

WorldType ==
  /\ bus \in [dev : Devs, kind : BusKinds] \cup {NoPhone}
  /\ lastDev \in 0..MaxDevs /\ disk \in 0..MaxDisk
  /\ uevents \in Seq({"add", "remove"})
  /\ ipc \in Seq(1..MaxDisk) /\ unread \subseteq 1..MaxDisk
  /\ evpc \in {"start", "trigger", "poll", "diskCall"} /\ phonePlugin \in BOOLEAN

LEMMA TypeParts == /\ TypeOK <=> WorldType /\ MainType
                   /\ TypeOK' <=> WorldType' /\ MainType'
BY DEF TypeOK, WorldType, MainType, Apps, Phones, Steps

LEMMA WorldStays ==
  ASSUME WorldType, UNCHANGED <<busVars, diskVars, evVars>>
  PROVE  WorldType'
BY DEF WorldType, busVars, diskVars, evVars

LEMMA MainStays ==
  ASSUME MainType, UNCHANGED <<app, rlock, notify, mainVars, missed>>
  PROVE  MainType'
BY DEF MainType, mainVars

(* The event thread's sockets.                                              *)
LEMMA EventTypes ==
  TypeOK /\ (EvBind \/ EvTrigger \/ EvDisk \/ EvDiskUnread) => TypeOK'
<1> SUFFICES ASSUME TypeOK, EvBind \/ EvTrigger \/ EvDisk \/ EvDiskUnread PROVE TypeOK'
  OBVIOUS
<1>0. WorldType /\ MainType
  BY TypeParts
<1>1. MainType'
  <2>1. UNCHANGED <<app, rlock, notify, mainVars, missed>>
    BY DEF EvBind, EvTrigger, EvDisk, EvDiskUnread
  <2> QED BY <1>0, <2>1, MainStays
<1>2. CASE EvBind
  <2>1. WorldType'
    BY <1>0, <1>2 DEF EvBind, WorldType, busVars, diskVars
  <2> QED BY <1>1, <2>1, TypeParts
<1>3. CASE EvTrigger
  <2>1. uevents' \in Seq({"add", "remove"})
    <3>1. "add" \in {"add", "remove"}
      OBVIOUS
    <3>2. Append(uevents, "add") \in Seq({"add", "remove"})
      BY <1>0, <3>1, AppendLast DEF WorldType
    <3> QED BY <1>0, <1>3, <3>2 DEF EvTrigger, WorldType
  <2>2. WorldType'
    BY <1>0, <1>3, <2>1 DEF EvTrigger, WorldType, diskVars
  <2> QED BY <1>1, <2>2, TypeParts
<1>4. CASE EvDisk \/ EvDiskUnread
  <2>1. ipc' \in Seq(1..MaxDisk) /\ Head(ipc) \in 1..MaxDisk
    <3>1. ipc # <<>> /\ ipc' = Tail(ipc)
      BY <1>4 DEF EvDisk, EvDiskUnread
    <3>2. ipc \in Seq(1..MaxDisk)
      BY <1>0 DEF WorldType
    <3> QED BY <3>1, <3>2, TailLast
  <2>2. unread' \subseteq 1..MaxDisk
    BY <1>0, <1>4, <2>1 DEF EvDisk, EvDiskUnread, WorldType
  <2>3. /\ UNCHANGED <<busVars, disk, phonePlugin>>
        /\ evpc' \in {"start", "trigger", "poll", "diskCall"}
    BY <1>4 DEF EvDisk, EvDiskUnread, evVars
  <2>4. WorldType'
    BY <1>0, <2>1, <2>2, <2>3 DEF WorldType, busVars
  <2> QED BY <1>1, <2>4, TypeParts
<1> QED BY <1>2, <1>3, <1>4

(* The values main() writes.                                                *)
LEMMA MainValues ==
  /\ NoApp \in Apps /\ NoPhone \in Phones
  /\ \A S \in SUBSET Devs : \A d : S \ {d} \in SUBSET Devs
  /\ \A a \in Apps : [a EXCEPT !.told = TRUE] \in Apps
  /\ \A l \in 0..MaxDisk \cup {NoList} : [list |-> l, told |-> FALSE] \in Apps
<1>1. NoApp \in Apps
  BY NoAppType DEF Apps
<1>2. \A a \in Apps : [a EXCEPT !.told = TRUE] \in Apps
  BY DEF Apps
<1>3. \A l \in 0..MaxDisk \cup {NoList} : [list |-> l, told |-> FALSE] \in Apps
  BY DEF Apps
<1> QED BY <1>1, <1>2, <1>3 DEF Phones

LEMMA Released ==
  ASSUME MainType, PhoneRelease
  PROVE  phone' \in Phones /\ claimed' \in SUBSET Devs
BY MainValues DEF PhoneRelease, MainType

(* A step that leaves the session alone.                                    *)
LEMMA SessionKept ==
  ASSUME MainType, KeepSession
  PROVE  phone' \in Phones /\ claimed' \in SUBSET Devs /\ conState' \in {"INIT", "CNTING", "CNTED"}
BY DEF MainType, KeepSession

LEMMA DetectTypes == TypeOK /\ Detect => TypeOK'
<1> SUFFICES ASSUME TypeOK, Detect PROVE TypeOK'
  OBVIOUS
<1>0. WorldType /\ MainType
  BY TypeParts
<1>1. CASE DetectClaim
  <2>1. WorldType'
    BY <1>0, <1>1, WorldStays DEF DetectClaim
  <2>2. bus.dev \in Devs /\ bus \in Phones
    <3>1. bus # NoPhone
      BY <1>1 DEF DetectClaim, NoPhone, PhoneKinds
    <3>2. bus \in [dev : Devs, kind : BusKinds] /\ bus.kind \in PhoneKinds
      BY <1>0, <1>1, <3>1 DEF WorldType, DetectClaim
    <3> QED BY <3>2 DEF Phones
  <2>3. claimed' \in SUBSET Devs
    BY <1>0, <1>1, <2>2 DEF MainType, DetectClaim
  <2>4. MainType'
    BY <1>0, <1>1, <2>2, <2>3 DEF MainType, DetectClaim, Main, Steps
  <2> QED BY <2>1, <2>4, TypeParts
<1>2. CASE DetectSwitch
  <2>1. bus \in [dev : Devs, kind : BusKinds]
    BY <1>0, <1>2 DEF WorldType, DetectSwitch, NoPhone
  <2>2. bus' \in [dev : Devs, kind : BusKinds]
    <3>1. "switching" \in BusKinds
      BY DEF BusKinds
    <3> QED BY <1>2, <2>1, <3>1 DEF DetectSwitch
  <2>3. WorldType'
    BY <1>0, <1>2, <2>2 DEF WorldType, DetectSwitch, diskVars, evVars
  <2>4. phone' \in Phones /\ claimed' \in SUBSET Devs
    BY <1>0, <1>2, Released DEF DetectSwitch
  <2>5. MainType'
    BY <1>0, <1>2, <2>4 DEF MainType, DetectSwitch, Main, Steps
  <2> QED BY <2>3, <2>5, TypeParts
<1>3. CASE DetectNothing
  <2>1. WorldType'
    BY <1>0, <1>3, WorldStays DEF DetectNothing
  <2>2. phone' \in Phones /\ claimed' \in SUBSET Devs
    BY <1>0, <1>3, Released DEF DetectNothing
  <2>3. MainType'
    BY <1>0, <1>3, <2>2 DEF MainType, DetectNothing, Main, Steps
  <2> QED BY <2>1, <2>3, TypeParts
<1> QED BY <1>1, <1>2, <1>3 DEF Detect

LEMMA SessionTypes ==
  TypeOK /\ (Connect \/ Recv \/ LoopUnplugged \/ LoopPlugged) => TypeOK'
<1> SUFFICES ASSUME TypeOK, Connect \/ Recv \/ LoopUnplugged \/ LoopPlugged PROVE TypeOK'
  OBVIOUS
<1>0. WorldType /\ MainType
  BY TypeParts
<1>a. WorldType'
  <2>1. UNCHANGED <<busVars, diskVars, evVars>>
    BY DEF Connect, ConnectOk, ConnectFail, Recv, RecvRequest, RecvIdle, RecvRefuse,
           RecvOffline, LoopUnplugged, LoopPlugged
  <2> QED BY <1>0, <2>1, WorldStays
<1>b. ASSUME Offline, pc' \in Steps, UNCHANGED <<rlock, notify, req, snap>> PROVE MainType'
  <2>1. phone' \in Phones /\ claimed' \in SUBSET Devs
    BY <1>0, <1>b, Released DEF Offline
  <2>2. app' \in Apps
    BY <1>b, MainValues DEF Offline
  <2> QED BY <1>0, <1>b, <2>1, <2>2 DEF MainType, Offline
<1>c. ASSUME KeepSession, pc' \in Steps, UNCHANGED <<app, rlock, notify, missed>>,
             req' \in Requests, snap' \in 0..MaxDisk \cup {NoList}
      PROVE  MainType'
  BY <1>0, <1>c, SessionKept DEF MainType
<1>d. req \in Requests /\ snap \in 0..MaxDisk \cup {NoList}
  BY <1>0 DEF MainType
<1>1. CASE ConnectOk
  <2>1. app' \in Apps
    BY <1>1, MainValues DEF ConnectOk
  <2>2. MainType'
    BY <1>0, <1>1, <2>1 DEF MainType, ConnectOk, Main, Steps
  <2> QED BY <1>a, <2>2, TypeParts
<1>2. CASE RecvRefuse
  <2>1. app' \in Apps
    BY <1>2, MainValues DEF RecvRefuse
  <2>2. MainType'
    BY <1>0, <1>2, <2>1 DEF MainType, RecvRefuse, Main, Steps
  <2> QED BY <1>a, <2>2, TypeParts
<1>3. CASE ConnectFail \/ RecvIdle \/ LoopPlugged
  <2>1. pc' \in Steps /\ UNCHANGED <<req, snap, app, rlock, notify, missed>> /\ KeepSession
    BY <1>3 DEF ConnectFail, RecvIdle, LoopPlugged, Main, Steps
  <2> QED BY <1>a, <1>c, <1>d, <2>1, TypeParts
<1>4. CASE RecvRequest
  <2>1. /\ pc' \in Steps /\ UNCHANGED <<app, rlock, notify, missed>> /\ KeepSession
        /\ req' \in Requests /\ snap' = NoList
    BY <1>4 DEF RecvRequest, Main, Steps
  <2> QED BY <1>a, <1>c, <2>1, TypeParts
<1>5. CASE RecvOffline \/ LoopUnplugged
  <2>1. pc' \in Steps /\ UNCHANGED <<rlock, notify, req, snap>> /\ Offline
    BY <1>5 DEF RecvOffline, LoopUnplugged, Main, Steps
  <2> QED BY <1>a, <1>b, <2>1, TypeParts
<1> QED BY <1>1, <1>2, <1>3, <1>4, <1>5 DEF Connect, Recv

LEMMA AnswerTypes ==
  TypeOK /\ (QueryLock \/ Query \/ QueryUnlock \/ Reply) => TypeOK'
<1> SUFFICES ASSUME TypeOK, QueryLock \/ Query \/ QueryUnlock \/ Reply PROVE TypeOK'
  OBVIOUS
<1>0. WorldType /\ MainType
  BY TypeParts
<1>a. WorldType'
  <2>1. UNCHANGED <<busVars, diskVars, evVars>>
    BY DEF QueryLock, Query, QueryUnlock, Reply, ReplyOk, ReplyLost, ReplyOffline
  <2> QED BY <1>0, <2>1, WorldStays
<1>1. CASE QueryLock
  <2>1. MainType'
    BY <1>0, <1>1, SessionKept DEF MainType, QueryLock, Main, Steps
  <2> QED BY <1>a, <2>1, TypeParts
<1>2. CASE Query
  <2>1. snap' \in 0..MaxDisk \cup {NoList}
    BY <1>0, <1>2 DEF WorldType, Query
  <2>2. MainType'
    BY <1>0, <1>2, <2>1, SessionKept DEF MainType, Query, Main, Steps
  <2> QED BY <1>a, <2>2, TypeParts
<1>3. CASE QueryUnlock
  <2>1. notify' = notify \/ notify' = FALSE
    BY <1>3 DEF QueryUnlock
  <2>2. notify' \in BOOLEAN
    BY <1>0, <2>1 DEF MainType
  <2>3. MainType'
    BY <1>0, <1>3, <2>2, SessionKept DEF MainType, QueryUnlock, Main, Steps
  <2> QED BY <1>a, <2>3, TypeParts
<1>4. CASE ReplyOk
  <2>1. app' \in Apps /\ missed' \in BOOLEAN
    <3>1. CASE snap = NoList
      BY <1>0, <1>4, <3>1 DEF MainType, ReplyOk
    <3>2. CASE snap # NoList
      <4>1. app' = [list |-> snap, told |-> FALSE] /\ missed' = FALSE
        BY <1>4, <3>2 DEF ReplyOk
      <4>2. snap \in 0..MaxDisk \cup {NoList}
        BY <1>0 DEF MainType
      <4> QED BY <4>1, <4>2, MainValues
    <3> QED BY <3>1, <3>2
  <2>2. MainType'
    BY <1>0, <1>4, <2>1, SessionKept DEF MainType, ReplyOk, Main, Steps
  <2> QED BY <1>a, <2>2, TypeParts
<1>5. CASE ReplyLost
  <2>1. missed' = missed \/ missed' = TRUE
    BY <1>5 DEF ReplyLost
  <2>2. missed' \in BOOLEAN
    BY <1>0, <2>1 DEF MainType
  <2>3. MainType'
    BY <1>0, <1>5, <2>2, SessionKept DEF MainType, ReplyLost, Main, Steps
  <2> QED BY <1>a, <2>3, TypeParts
<1>6. CASE ReplyOffline
  <2>1. phone' \in Phones /\ claimed' \in SUBSET Devs /\ app' \in Apps
    BY <1>0, <1>6, Released, MainValues DEF ReplyOffline, Offline
  <2>2. MainType'
    BY <1>0, <1>6, <2>1 DEF MainType, ReplyOffline, Offline, Main, Steps
  <2> QED BY <1>a, <2>2, TypeParts
<1> QED BY <1>1, <1>2, <1>3, <1>4, <1>5, <1>6 DEF Reply

LEMMA NotifyTypes ==
  TypeOK /\ (GetNotify \/ PushOk \/ PushLost) => TypeOK'
<1> SUFFICES ASSUME TypeOK, GetNotify \/ PushOk \/ PushLost PROVE TypeOK'
  OBVIOUS
<1>0. WorldType /\ MainType
  BY TypeParts
<1>a. WorldType'
  <2>1. UNCHANGED <<busVars, diskVars, evVars>>
    BY DEF GetNotify, PushOk, PushLost
  <2> QED BY <1>0, <2>1, WorldStays
<1>1. CASE GetNotify
  <2>1. MainType'
    BY <1>0, <1>1, SessionKept DEF MainType, GetNotify, Main, Steps
  <2> QED BY <1>a, <2>1, TypeParts
<1>2. CASE PushOk
  <2>1. app' \in Apps
    BY <1>0, <1>2, MainValues DEF MainType, PushOk
  <2>2. MainType'
    BY <1>0, <1>2, <2>1, SessionKept DEF MainType, PushOk, Main, Steps
  <2> QED BY <1>a, <2>2, TypeParts
<1>3. CASE PushLost
  <2>1. MainType'
    BY <1>0, <1>3, SessionKept DEF MainType, PushLost, Main, Steps
  <2> QED BY <1>a, <2>1, TypeParts
<1> QED BY <1>1, <1>2, <1>3

(* Each step keeps the types.                                               *)
LEMMA TypeStep == TypeOK /\ [Next]_vars => TypeOK'
<1> SUFFICES ASSUME TypeOK, [Next]_vars PROVE TypeOK'
  OBVIOUS
<1> USE UStorageAssumption DEF UStorageAssumption, TypeOK, NoPhone, Devs,
        BusKinds, PhoneKinds, busVars, diskVars, evVars, mainVars, KeepSession, Main
<1>1. CASE PlugPhone
  <2>1. uevents' \in Seq({"add", "remove"})
    BY <1>1, KernelProperties, <<"add">> \in Seq({"add", "remove"}), <<"add">> # <<>> DEF PlugPhone
  <2> QED BY <1>1, <2>1 DEF PlugPhone
<1>2. CASE UnplugPhone
  <2>1. uevents' \in Seq({"add", "remove"})
    BY <1>2, KernelProperties, <<"remove">> \in Seq({"add", "remove"}), <<"remove">> # <<>> DEF UnplugPhone
  <2> QED BY <1>2, <2>1 DEF UnplugPhone
<1>3. CASE Reenumerate
  <2>1. uevents' \in Seq({"add", "remove"})
    BY <1>3, KernelProperties, <<"remove", "add">> \in Seq({"add", "remove"}), <<"remove", "add">> # <<>> DEF Reenumerate
  <2> QED BY <1>3, <2>1 DEF Reenumerate
<1>4. CASE DiskChange
  <2>1. disk' \in 1..MaxDisk
    BY <1>4 DEF DiskChange
  <2>2. ipc' \in Seq(1..MaxDisk)
    BY <1>4, <2>1, AppendProperties DEF DiskChange
  <2>3. evpc' = evpc /\ phonePlugin' = phonePlugin
    BY <1>4 DEF DiskChange
  <2> QED BY <1>4, <2>1, <2>2, <2>3 DEF DiskChange
<1>5. CASE EvBind \/ EvTrigger \/ EvDisk \/ EvDiskUnread
  BY <1>5, EventTypes
<1>6. CASE EvPhone
  <2>1. uevents' \in Seq({"add", "remove"})
    BY <1>6, TailLast DEF EvPhone
  <2>2. phonePlugin' \in BOOLEAN
    BY <1>6 DEF EvPhone
  <2> QED BY <1>6, <2>1, <2>2 DEF EvPhone
<1>7. CASE EvDiskCall
  BY <1>7 DEF EvDiskCall
<1>8. CASE WaitPlugIn \/ Enter
  BY <1>8 DEF WaitPlugIn, Enter, vars
<1>9. CASE Detect
  BY <1>9, DetectTypes
<1>10. CASE Connect \/ Recv \/ LoopUnplugged \/ LoopPlugged
  BY <1>10, SessionTypes
<1>11. CASE QueryLock \/ Query \/ QueryUnlock \/ Reply
  BY <1>11, AnswerTypes
<1>12. CASE GetNotify \/ PushOk \/ PushLost
  BY <1>12, NotifyTypes
<1>13. CASE UNCHANGED vars
  BY <1>13 DEF vars
<1> HIDE DEF TypeOK
<1> QED BY <1>1, <1>2, <1>3, <1>4, <1>5, <1>6, <1>7, <1>8, <1>9, <1>10, <1>11, <1>12, <1>13
        DEF Next, EventThread, MainLoop

(* The types hold in every state.                                           *)
THEOREM TypeCorrect == Spec => []TypeOK
<1> QED BY TypeInit, TypeStep, PTL DEF Spec

-----------------------------------------------------------------------------
(* Sessions: interface, phone structure, connection state and rlock.        *)

LEMMA SessionInit == Init => SessionInv
BY DEF Init, SessionInv, ClaimMatchesPhone, StateMatchesPhone, QuietStart, LockSpan

(* Giving the phone back leaves no interface open.                          *)
LEMMA ReleaseClaims ==
  ASSUME TypeOK, ClaimMatchesPhone
  PROVE  claimed \ {phone.dev} = {}
BY DEF TypeOK, ClaimMatchesPhone, NoPhone

LEMMA SessionStep == TypeOK /\ SessionInv /\ [Next]_vars => SessionInv'
<1> SUFFICES ASSUME TypeOK, SessionInv, [Next]_vars PROVE SessionInv'
  OBVIOUS
<1>t. TypeOK'
  BY TypeStep
<1> USE DEF SessionInv, ClaimMatchesPhone, StateMatchesPhone, QuietStart, LockSpan,
        Hears, busVars, diskVars, evVars, mainVars, KeepSession, Main
<1>1. CASE PlugPhone \/ UnplugPhone \/ Reenumerate
  BY <1>1 DEF PlugPhone, UnplugPhone, Reenumerate, Kernel
<1>2. CASE DiskChange
  BY <1>2 DEF DiskChange
<1>3. CASE EventThread
  BY <1>3 DEF EventThread, EvBind, EvTrigger, EvPhone, EvDisk, EvDiskUnread, EvDiskCall
<1>4. CASE WaitPlugIn \/ Enter
  BY <1>4 DEF WaitPlugIn, Enter, vars, TypeOK
<1>5. CASE DetectClaim
  <2>1. phone' # NoPhone /\ claimed' = {phone'.dev}
    BY <1>5, ReleaseClaims DEF DetectClaim, NoPhone, PhoneKinds
  <2> QED BY <1>5, <2>1 DEF DetectClaim
<1>6. CASE DetectSwitch \/ DetectNothing
  BY <1>6, ReleaseClaims DEF DetectSwitch, DetectNothing, PhoneRelease
<1>7. CASE Connect
  BY <1>7 DEF Connect, ConnectOk, ConnectFail
<1>8. CASE RecvRequest \/ RecvIdle \/ RecvRefuse
  BY <1>8 DEF RecvRequest, RecvIdle, RecvRefuse
<1>9. CASE RecvOffline
  BY <1>9, ReleaseClaims DEF RecvOffline, Offline, PhoneRelease
<1>10. CASE QueryLock \/ Query \/ QueryUnlock
  BY <1>10 DEF QueryLock, Query, QueryUnlock
<1>11. CASE ReplyOk \/ ReplyLost
  BY <1>11 DEF ReplyOk, ReplyLost
<1>12. CASE ReplyOffline
  BY <1>12, ReleaseClaims DEF ReplyOffline, Offline, PhoneRelease
<1>13. CASE LoopUnplugged
  BY <1>13, ReleaseClaims DEF LoopUnplugged, Offline, PhoneRelease
<1>14. CASE LoopPlugged \/ GetNotify \/ PushOk \/ PushLost
  BY <1>14 DEF LoopPlugged, GetNotify, PushOk, PushLost
<1>15. CASE UNCHANGED vars
  BY <1>15 DEF vars
<1> QED BY <1>1, <1>2, <1>3, <1>4, <1>5, <1>6, <1>7, <1>8, <1>9, <1>10, <1>11,
           <1>12, <1>13, <1>14, <1>15
        DEF Next, MainLoop, Detect, Recv, Reply

-----------------------------------------------------------------------------
(* The plug flag.                                                           *)

LEMMA PlugInit == Init => PlugInv
BY DEF Init, PlugInv, PlugFlagSettles, LastUevent, Hears

LEMMA PlugStep == TypeOK /\ SessionInv /\ PlugInv /\ [Next]_vars => PlugInv'
<1> SUFFICES ASSUME TypeOK, SessionInv, PlugInv, [Next]_vars PROVE PlugInv'
  OBVIOUS
<1> USE DEF PlugInv, PlugFlagSettles, LastUevent, Hears
<1>1. CASE PlugPhone
  <2>1. bus' # NoPhone
    BY <1>1 DEF PlugPhone, NoPhone, TypeOK
  <2> QED BY <1>1, <2>1, KernelProperties, <<"add">> \in Seq({"add", "remove"})
          DEF PlugPhone, SessionInv, QuietStart, Kernel, evVars
<1>2. CASE UnplugPhone
  <2> QED BY <1>2, KernelProperties, <<"remove">> \in Seq({"add", "remove"})
          DEF UnplugPhone, SessionInv, QuietStart, Kernel, evVars
<1>3. CASE Reenumerate
  <2>1. bus' # NoPhone
    BY <1>3 DEF Reenumerate, NoPhone, TypeOK
  <2> QED BY <1>3, <2>1, KernelProperties, <<"remove", "add">> \in Seq({"add", "remove"})
          DEF Reenumerate, SessionInv, QuietStart, Kernel, evVars
<1>4. CASE EvBind
  BY <1>4 DEF EvBind, busVars
<1>10. CASE EvTrigger
  <2>1. uevents \in Seq({"add", "remove"})
    BY DEF TypeOK
  <2>2. CASE bus = NoPhone
    BY <1>10, <2>2 DEF EvTrigger, SessionInv, QuietStart
  <2>3. CASE bus # NoPhone
    <3>1. uevents' = Append(uevents, "add")
      BY <1>10, <2>3 DEF EvTrigger
    <3>2. uevents' # <<>> /\ uevents'[Len(uevents')] = "add"
      BY <2>1, <3>1, AppendLast
    <3>3. bus' # NoPhone
      BY <1>10, <2>3 DEF EvTrigger
    <3> QED BY <3>2, <3>3
  <2> QED BY <2>2, <2>3
<1>5. CASE EvPhone
  <2>1. uevents \in Seq({"add", "remove"}) /\ uevents # <<>>
    BY <1>5 DEF EvPhone, TypeOK
  <2>2. /\ uevents' # <<>> => uevents'[Len(uevents')] = uevents[Len(uevents)]
        /\ uevents' = <<>> => Head(uevents) = uevents[Len(uevents)]
    BY <1>5, <2>1, TailLast DEF EvPhone
  <2>3. phonePlugin' <=> Head(uevents) = "add"
    BY <1>5 DEF EvPhone
  <2> QED BY <1>5, <2>1, <2>2, <2>3 DEF EvPhone
<1>6. CASE DetectSwitch
  <2>1. bus # NoPhone /\ bus' # NoPhone
    BY <1>6 DEF DetectSwitch, NoPhone, TypeOK
  <2> QED BY <1>6, <2>1 DEF DetectSwitch, evVars
<1>7. CASE UNCHANGED <<bus, uevents, evpc, phonePlugin>>
  BY <1>7
<1>8. CASE EvDisk \/ EvDiskUnread \/ EvDiskCall
  BY <1>8 DEF EvDisk, EvDiskUnread, EvDiskCall, busVars, evVars
<1>9. ASSUME ~PlugPhone, ~UnplugPhone, ~Reenumerate, ~EventThread, ~DetectSwitch
      PROVE  UNCHANGED <<bus, uevents, evpc, phonePlugin>>
  BY <1>9 DEF Next, MainLoop, DiskChange, WaitPlugIn, Enter, Detect, DetectClaim,
     DetectNothing, Connect, ConnectOk, ConnectFail, Recv, RecvRequest, RecvIdle,
     RecvRefuse, RecvOffline, QueryLock, Query, QueryUnlock, Reply, ReplyOk,
     ReplyLost, ReplyOffline, LoopUnplugged, LoopPlugged, GetNotify, PushOk,
     PushLost, vars, busVars, evVars
<1> QED BY <1>1, <1>2, <1>3, <1>4, <1>5, <1>6, <1>7, <1>8, <1>9, <1>10 DEF EventThread

-----------------------------------------------------------------------------
(* The fate of a disk change.                                               *)

LEMMA ChangeInit == Init => ChangeInv
<1> SUFFICES ASSUME Init PROVE ChangeInv
  OBVIOUS
<1>1. Owed = {} /\ pc = "top"
  BY DEF Init, Owed
<1>2. Len(ipc) = 0
  BY EmptySeq DEF Init
<1> QED BY <1>1, <1>2 DEF ChangeInv, NoLostChange, IpcOrder, YoungChange

(* What there is to report depends on the changes and their events only.    *)
LEMMA SameChanges == UNCHANGED <<disk, unread>> => Reportable' = Reportable
BY DEF Reportable

(* A step that touches no change, no notification and no listing, and goes  *)
(* nowhere near the reply, keeps every change where it is.                  *)
LEMMA ChangeKept ==
  ASSUME ChangeInv,
         UNCHANGED <<diskVars, evpc, notify, app, missed, conState>>,
         pc \notin {"push", "reply"}, pc' \notin {"unlock", "reply"}
  PROVE  ChangeInv'
<1>1. Owed' = Owed
  BY SameChanges DEF Owed, diskVars
<1> QED BY <1>1 DEF ChangeInv, NoLostChange, IpcOrder, YoungChange, UnderWay, diskVars

(* Without a listing in a session nothing is owed.                          *)
LEMMA NothingOwed ==
  ASSUME ChangeInv, UNCHANGED diskVars, app' = NoApp,
         pc' \notin {"unlock", "reply"}
  PROVE  ChangeInv'
<1>1. Owed' = {}
  BY DEF Owed, NoApp
<1> QED BY <1>1 DEF ChangeInv, NoLostChange, IpcOrder, YoungChange, diskVars

(* An event that is accepted leaves those behind it as they are.            *)
LEMMA TailOrder ==
  ASSUME TypeOK, IpcOrder, ipc # <<>>, ipc' = Tail(ipc), disk' = disk
  PROVE  /\ IpcOrder'
         /\ \A c : (\E i \in DOMAIN ipc : ipc[i] = c) /\ c # Head(ipc)
                  => \E i \in DOMAIN ipc' : ipc'[i] = c
<1>1. ipc \in Seq(1..MaxDisk) /\ disk \in Int
  BY UStorageAssumption DEF TypeOK, UStorageAssumption
<1>2. /\ Len(ipc) \in Nat /\ Len(ipc') = Len(ipc) - 1
      /\ \A i \in 1..Len(ipc') : ipc'[i] = ipc[i + 1]
  BY <1>1, LenProperties, HeadTailProperties
<1>3. ASSUME NEW i \in 1..Len(ipc') PROVE ipc'[i] = disk' - Len(ipc') + i
  <2>1. i + 1 \in 1..Len(ipc)
    BY <1>2
  <2>2. ipc[i + 1] = disk - Len(ipc) + (i + 1)
    BY <2>1 DEF IpcOrder
  <2>3. disk - Len(ipc) + (i + 1) = disk' - Len(ipc') + i
    BY <1>1, <1>2
  <2> QED BY <1>2, <2>2, <2>3
<1>4. ASSUME NEW c, \E i \in DOMAIN ipc : ipc[i] = c, c # Head(ipc)
      PROVE  \E i \in DOMAIN ipc' : ipc'[i] = c
  BY <1>1, <1>4, TailKeeps
<1> QED BY <1>3, <1>4 DEF IpcOrder

(* The changes an accepted event takes out of the queue are not owed, or on *)
(* their way behind it.                                                     *)
LEMMA DiskEventStep ==
  ASSUME TypeOK, ChangeInv, EvDisk \/ EvDiskUnread
  PROVE  ChangeInv'
<1>0. /\ ipc # <<>> /\ ipc' = Tail(ipc) /\ disk' = disk /\ evpc = "poll"
      /\ UNCHANGED <<notify, app, missed, conState, pc, snap>>
  BY DEF EvDisk, EvDiskUnread, mainVars
<1>1. /\ IpcOrder'
      /\ \A c : (\E i \in DOMAIN ipc : ipc[i] = c) /\ c # Head(ipc)
               => \E i \in DOMAIN ipc' : ipc'[i] = c
  BY <1>0, TailOrder DEF ChangeInv
<1>2. Reportable' \subseteq Reportable
  BY <1>0 DEF EvDisk, EvDiskUnread, Reportable
<1>3. ASSUME NEW c \in Reportable', Waits(c) PROVE Waits(c)'
  <2>1. CASE evpc' = "diskCall"
    BY <2>1 DEF Waits
  <2>2. CASE evpc' # "diskCall" /\ EvDisk
    <3>1. Head(ipc) % 2 = 1 /\ ~DiskPresent
      BY <2>2 DEF EvDisk
    <3>2. c % 2 = 0 \/ c = disk
      BY <1>0 DEF Reportable
    <3>3. c # Head(ipc)
      BY <3>1, <3>2 DEF DiskPresent
    <3> QED BY <1>0, <1>1, <1>3, <3>3 DEF Waits
  <2>3. CASE EvDiskUnread
    <3>1. c # Head(ipc)
      BY <2>3 DEF EvDiskUnread, Reportable
    <3> QED BY <1>0, <1>1, <1>3, <3>1 DEF Waits
  <2> QED BY <2>1, <2>2, <2>3
<1>4. Owed' \subseteq Owed /\ Young' \subseteq Young
  BY <1>0, <1>2 DEF Owed, Young
<1>5. Owed' \subseteq Reportable' /\ Young' \subseteq Reportable'
  BY DEF Owed, Young
<1>6. NoLostChange'
  <2> SUFFICES ASSUME NEW c \in Owed' PROVE app'.told \/ missed' \/ UnderWay(c)'
    BY DEF NoLostChange
  <2>1. app.told \/ missed \/ Waits(c) \/ UnderWay(c)
    BY <1>4 DEF ChangeInv, NoLostChange
  <2>2. UnderWay(c) => Waits(c) \/ notify \/ pc = "push" \/ (pc = "reply" /\ snap >= c)
    BY DEF UnderWay, Waits
  <2>3. Waits(c) => Waits(c)'
    BY <1>3, <1>5
  <2> QED BY <1>0, <2>1, <2>2, <2>3 DEF UnderWay, Waits
<1>7. YoungChange'
  BY <1>0, <1>3, <1>4, <1>5 DEF ChangeInv, YoungChange
<1> QED BY <1>1, <1>6, <1>7 DEF ChangeInv

(* A new change waits in the queue; those before it stay where they are.    *)
LEMMA DiskChangeStep ==
  ASSUME TypeOK, QuietStart, ChangeInv, DiskChange
  PROVE  ChangeInv'
<1>0. /\ disk \in Int /\ disk >= 0 /\ ipc \in Seq(1..MaxDisk) /\ disk' = disk + 1
      /\ UNCHANGED <<unread, evpc, notify, app, missed, conState, pc, snap>>
  BY UStorageAssumption DEF DiskChange, TypeOK, UStorageAssumption, mainVars, evVars
<1>1. CASE ~Hears
  <2>1. ipc' = <<>> /\ conState' = "INIT" /\ pc' = "top"
    BY <1>0, <1>1 DEF QuietStart, DiskChange
  <2>2. Owed' = {} /\ Len(ipc') = 0
    BY <2>1, EmptySeq DEF Owed
  <2> QED BY <2>1, <2>2 DEF ChangeInv, NoLostChange, IpcOrder, YoungChange
<1>2. CASE Hears
  <2>1. ipc' = Append(ipc, disk')
    BY <1>2 DEF DiskChange
  <2>2. disk' \in 1..MaxDisk
    BY <1>0, UStorageAssumption DEF DiskChange, TypeOK, UStorageAssumption
  <2>3. /\ Len(ipc) \in Nat /\ Len(ipc') = Len(ipc) + 1 /\ ipc' \in Seq(1..MaxDisk)
        /\ \A i \in 1..Len(ipc) : ipc'[i] = ipc[i]
        /\ ipc'[Len(ipc) + 1] = disk'
    BY <1>0, <2>1, <2>2, LenProperties, AppendProperties
  <2>4. DOMAIN ipc = 1..Len(ipc) /\ DOMAIN ipc' = 1..Len(ipc) + 1
    BY <1>0, <2>3, LenProperties
  <2>5. IpcOrder'
    <3> SUFFICES ASSUME NEW i \in 1..Len(ipc') PROVE ipc'[i] = disk' - Len(ipc') + i
      BY DEF IpcOrder
    <3>1. CASE i \in 1..Len(ipc)
      <4>1. ipc'[i] = disk - Len(ipc) + i
        BY <2>3, <3>1 DEF ChangeInv, IpcOrder
      <4>2. disk - Len(ipc) + i = disk' - Len(ipc') + i
        BY <1>0, <2>3, <3>1
      <4> QED BY <4>1, <4>2
    <3>2. CASE i = Len(ipc) + 1
      BY <1>0, <2>3, <3>2
    <3> QED BY <2>3, <3>1, <3>2
  <2>6. \A c : Waits(c) => Waits(c)'
    BY <1>0, <2>3, <2>4 DEF Waits
  <2>7. \A c : c = disk' => Waits(c)'
    <3>1. Len(ipc) + 1 \in DOMAIN ipc'
      BY <2>3, <2>4
    <3>2. \E i \in DOMAIN ipc' : ipc'[i] = disk'
      BY <2>3, <3>1
    <3> QED BY <3>2 DEF Waits
  <2>8. \A c \in Reportable' : c = disk' \/ c \in Reportable
    BY <1>0 DEF Reportable
  <2>9. /\ \A c \in Owed' : c = disk' \/ c \in Owed
        /\ \A c \in Young' : c = disk' \/ c \in Young
    BY <1>0, <2>8 DEF Owed, Young
  <2>10. NoLostChange'
    <3> SUFFICES ASSUME NEW c \in Owed' PROVE app'.told \/ missed' \/ UnderWay(c)'
      BY DEF NoLostChange
    <3>1. CASE c = disk'
      BY <2>7, <3>1 DEF UnderWay, Waits
    <3>2. CASE c \in Owed
      <4>1. app.told \/ missed \/ UnderWay(c)
        BY <3>2 DEF ChangeInv, NoLostChange
      <4>2. UnderWay(c) => Waits(c) \/ notify \/ pc = "push" \/ (pc = "reply" /\ snap >= c)
        BY DEF UnderWay, Waits
      <4> QED BY <1>0, <2>6, <4>1, <4>2 DEF UnderWay, Waits
    <3> QED BY <2>9, <3>1, <3>2
  <2>11. YoungChange'
    BY <1>0, <2>6, <2>7, <2>9 DEF ChangeInv, YoungChange
  <2> QED BY <2>5, <2>10, <2>11 DEF ChangeInv
<1> QED BY <1>1, <1>2

(* Between lock and reply: the list is that of the moment, the notification *)
(* goes for a list that shows what it stood for, and the app gets the list. *)
LEMMA QueryStep ==
  ASSUME TypeOK, LockSpan, ChangeInv, Query \/ QueryUnlock \/ ReplyOk \/ ReplyLost
  PROVE  ChangeInv'
<1>0. /\ UNCHANGED <<disk, unread, ipc, evpc, conState>>
      /\ disk \in Int
  <2>1. UNCHANGED <<disk, unread, ipc, evpc, conState>>
    BY DEF Query, QueryUnlock, ReplyOk, ReplyLost, KeepSession, diskVars, evVars
  <2>2. disk \in Int
    BY UStorageAssumption DEF TypeOK, UStorageAssumption
  <2> QED BY <2>1, <2>2
<1>1. Reportable' = Reportable /\ IpcOrder' /\ \A c : Waits(c)' <=> Waits(c)
  BY <1>0, SameChanges DEF ChangeInv, IpcOrder, Waits
<1>2. CASE Query
  <2>1. pc = "query" /\ pc' = "unlock" /\ UNCHANGED <<app, notify, missed>>
    BY <1>2 DEF Query, Main
  <2>2. Owed' = Owed
    BY <1>0, <1>1, <2>1 DEF Owed
  <2>3. NoLostChange'
    BY <1>0, <2>1, <2>2 DEF ChangeInv, NoLostChange, UnderWay
  <2>4. Young' = {}
    <3>1. CASE snap' = NoList
      BY <3>1 DEF Young
    <3>2. CASE snap' = disk
      BY <1>0, <3>2 DEF Young, Reportable
    <3> QED BY <1>2, <3>1, <3>2 DEF Query
  <2> QED BY <1>1, <2>1, <2>3, <2>4 DEF ChangeInv, YoungChange
<1>3. CASE QueryUnlock
  <2>1. /\ pc = "unlock" /\ pc' = "reply" /\ UNCHANGED <<app, snap, missed>>
        /\ notify' = IF snap = NoList THEN notify ELSE FALSE
    BY <1>3 DEF QueryUnlock, Main
  <2>2. Owed' = Owed /\ Young' = Young
    BY <1>0, <1>1, <2>1 DEF Owed, Young
  <2>3. \A c \in Young : Waits(c)
    BY <2>1 DEF ChangeInv, YoungChange
  <2>4. NoLostChange'
    <3> SUFFICES ASSUME NEW c \in Owed PROVE app'.told \/ missed' \/ UnderWay(c)'
      BY <2>2 DEF NoLostChange
    <3>1. app.told \/ missed \/ Waits(c) \/ notify
      BY <2>1 DEF ChangeInv, NoLostChange, UnderWay, Waits
    <3>2. CASE snap # NoList /\ ~Waits(c)
      <4>1. c \in Reportable /\ c \notin Young
        BY <2>3, <3>2 DEF Owed
      <4>2. ~(c > snap) /\ c \in Int /\ snap \in Int
        BY <1>0, <3>2, <4>1, UStorageAssumption
           DEF Young, Reportable, TypeOK, UStorageAssumption
      <4> QED BY <2>1, <4>2 DEF UnderWay
    <3> QED BY <1>0, <1>1, <2>1, <3>1, <3>2 DEF UnderWay, Waits
  <2>5. YoungChange'
    BY <1>1, <2>1, <2>2, <2>3 DEF YoungChange
  <2> QED BY <1>1, <2>4, <2>5 DEF ChangeInv
<1>4. CASE ReplyOk \/ ReplyLost
  <2>1. pc = "reply" /\ pc' = "loopNext" /\ UNCHANGED <<notify, snap>>
    BY <1>4 DEF ReplyOk, ReplyLost, Main
  <2>2. CASE snap = NoList
    <3>1. UNCHANGED <<app, missed>>
      BY <1>4, <2>2 DEF ReplyOk, ReplyLost
    <3>2. Owed' = Owed /\ \A c \in Owed : ~(snap >= c)
      BY <1>0, <1>1, <2>2, <3>1 DEF Owed, Reportable, NoList
    <3> QED BY <1>0, <1>1, <2>1, <3>1, <3>2
            DEF ChangeInv, NoLostChange, YoungChange, UnderWay
  <2>3. CASE snap # NoList /\ ReplyOk
    <3>1. app'.list = snap
      BY <2>3 DEF ReplyOk
    <3>2. Owed' \subseteq Young
      BY <1>1, <2>3, <3>1 DEF Owed, Young
    <3>3. \A c \in Owed' : Waits(c) \/ notify
      BY <2>1, <3>2 DEF ChangeInv, YoungChange
    <3> QED BY <1>0, <1>1, <2>1, <3>3
            DEF ChangeInv, NoLostChange, YoungChange, UnderWay, Waits
  <2>4. CASE snap # NoList /\ ReplyLost
    <3>1. missed' = TRUE
      BY <2>4 DEF ReplyLost
    <3> QED BY <1>1, <2>1, <3>1 DEF ChangeInv, NoLostChange, YoungChange
  <2> QED BY <1>4, <2>2, <2>3, <2>4
<1> QED BY <1>2, <1>3, <1>4

LEMMA ChangeStep == TypeOK /\ SessionInv /\ ChangeInv /\ [Next]_vars => ChangeInv'
<1> SUFFICES ASSUME TypeOK, SessionInv, ChangeInv, [Next]_vars PROVE ChangeInv'
  OBVIOUS
<1>t. QuietStart /\ LockSpan /\ StateMatchesPhone
  BY DEF SessionInv
<1>a. ASSUME UNCHANGED <<diskVars, evpc, notify, app, missed, conState, pc, snap>>
      PROVE  ChangeInv'
  <2>1. Owed' = Owed /\ Young' = Young
    BY <1>a, SameChanges DEF Owed, Young, diskVars
  <2> QED BY <1>a, <2>1
          DEF ChangeInv, NoLostChange, IpcOrder, YoungChange, UnderWay, Waits, diskVars
<1>1. CASE PlugPhone \/ UnplugPhone \/ Reenumerate \/ EvPhone \/ UNCHANGED vars
  BY <1>1, <1>a DEF PlugPhone, UnplugPhone, Reenumerate, EvPhone, vars, evVars, mainVars
<1>2. CASE DiskChange
  BY <1>2, <1>t, DiskChangeStep
<1>3. CASE EvBind \/ EvTrigger
  <2>1. UNCHANGED <<diskVars, app, conState, pc>> /\ ~Hears
    BY <1>3 DEF EvBind, EvTrigger, mainVars, Hears
  <2>2. conState = "INIT" /\ pc = "top"
    BY <1>t, <2>1 DEF QuietStart
  <2>3. Owed' = {}
    BY <2>1, <2>2 DEF Owed
  <2> QED BY <2>1, <2>2, <2>3
          DEF ChangeInv, NoLostChange, IpcOrder, YoungChange, diskVars
<1>4. CASE EvDisk \/ EvDiskUnread
  BY <1>4, DiskEventStep
<1>5. CASE EvDiskCall
  <2>1. notify' = TRUE /\ pc' = pc /\ UNCHANGED diskVars
    BY <1>5 DEF EvDiskCall, mainVars
  <2>2. pc # "unlock"
    BY <1>5, <1>t DEF EvDiskCall, LockSpan
  <2> QED BY <2>1, <2>2
          DEF ChangeInv, NoLostChange, IpcOrder, YoungChange, UnderWay, diskVars
<1>6. CASE WaitPlugIn \/ Enter
  <2>1. UNCHANGED <<diskVars, evpc, notify, app, missed, conState>>
    BY <1>6 DEF WaitPlugIn, Enter, vars, evVars, mainVars, KeepSession
  <2>2. pc = "top" /\ pc' \in {"top", "detect", "connect", "recv"}
    BY <1>6 DEF WaitPlugIn, Enter, Main, TypeOK
  <2> QED BY <2>1, <2>2, ChangeKept
<1>7. CASE Detect
  <2>1. Owed' = {}
    <3>1. conState' # "CNTED"
      BY <1>7, <1>t DEF Detect, DetectClaim, DetectSwitch, DetectNothing,
         StateMatchesPhone, Main
    <3> QED BY <3>1 DEF Owed
  <2>2. pc' \in {"top", "connect"} /\ UNCHANGED diskVars
    BY <1>7 DEF Detect, DetectClaim, DetectSwitch, DetectNothing, Main
  <2> QED BY <2>1, <2>2 DEF ChangeInv, NoLostChange, IpcOrder, YoungChange, diskVars
<1>8. CASE ConnectFail \/ RecvIdle \/ QueryLock \/ LoopPlugged
  <2>1. UNCHANGED <<diskVars, evpc, notify, app, missed, conState>>
    BY <1>8 DEF ConnectFail, RecvIdle, QueryLock, LoopPlugged, evVars, KeepSession
  <2>2. /\ pc \in {"connect", "recv", "lock", "loopNext"}
        /\ pc' \in {"loopNext", "query", "getNotify", "top"}
    BY <1>8 DEF ConnectFail, RecvIdle, QueryLock, LoopPlugged, Main
  <2> QED BY <2>1, <2>2, ChangeKept
<1>9. CASE RecvRequest
  <2>1. UNCHANGED <<diskVars, evpc, notify, app, missed, conState>> /\ snap' = NoList
    BY <1>9 DEF RecvRequest, evVars, KeepSession
  <2>2. pc = "recv" /\ pc' \in {"lock", "reply"}
    BY <1>9 DEF RecvRequest, Main
  <2>3. Owed' = Owed /\ Young' = {}
    BY <2>1, SameChanges DEF Owed, Young, diskVars
  <2> QED BY <2>1, <2>2, <2>3
          DEF ChangeInv, NoLostChange, IpcOrder, YoungChange, UnderWay, diskVars
<1>10. CASE ConnectOk \/ RecvRefuse \/ RecvOffline \/ ReplyOffline \/ LoopUnplugged
  <2>1. UNCHANGED diskVars /\ app' = NoApp /\ pc' \in {"recv", "loopNext", "top"}
    BY <1>10 DEF ConnectOk, RecvRefuse, RecvOffline, ReplyOffline, LoopUnplugged, Offline,
       Main
  <2> QED BY <2>1, NothingOwed
<1>11. CASE Query \/ QueryUnlock \/ ReplyOk \/ ReplyLost
  BY <1>11, <1>t, QueryStep
<1>12. CASE GetNotify
  <2>1. /\ UNCHANGED <<diskVars, evpc, app, missed, conState>>
        /\ pc = "getNotify" /\ pc' = IF notify THEN "push" ELSE "top"
    BY <1>12 DEF GetNotify, Main, KeepSession, evVars
  <2>2. Owed' = Owed
    BY <2>1, SameChanges DEF Owed, diskVars
  <2> QED BY <2>1, <2>2 DEF ChangeInv, NoLostChange, IpcOrder, YoungChange, UnderWay, diskVars
<1>13. CASE PushOk \/ PushLost
  <2>1. UNCHANGED diskVars /\ pc' = "top"
    BY <1>13 DEF PushOk, PushLost, Main
  <2>2. app'.told \/ missed'
    BY <1>13 DEF PushOk, PushLost, TypeOK
  <2> QED BY <2>1, <2>2 DEF ChangeInv, NoLostChange, IpcOrder, YoungChange, diskVars
<1> QED BY <1>1, <1>2, <1>3, <1>4, <1>5, <1>6, <1>7, <1>8, <1>9, <1>10, <1>11,
           <1>12, <1>13
        DEF Next, EventThread, MainLoop, Connect, Recv, Reply

-----------------------------------------------------------------------------
(* The results.                                                             *)

(* The strengthened invariant holds in every state.                         *)
THEOREM Inductive == Spec => []IInv
<1>1. Init => IInv
  BY TypeInit, SessionInit, PlugInit, ChangeInit DEF IInv
<1>2. IInv /\ [Next]_vars => IInv'
  BY TypeStep, SessionStep, PlugStep, ChangeStep DEF IInv
<1> QED BY <1>1, <1>2, PTL DEF Spec

(* No round of main() leaves an interface open or uses one it gave back.    *)
THEOREM NoLeak == Spec => []ClaimMatchesPhone
<1>1. IInv => ClaimMatchesPhone
  BY DEF IInv, SessionInv
<1> QED BY <1>1, Inductive, PTL

(* Every step of main() finds the connection state it needs.                *)
THEOREM SessionState == Spec => []StateMatchesPhone
<1>1. IInv => StateMatchesPhone
  BY DEF IInv, SessionInv
<1> QED BY <1>1, Inductive, PTL

(* The flag main() polls is the truth once all uevents are read.            *)
THEOREM PlugFlag == Spec => []PlugFlagSettles
<1>1. IInv => PlugFlagSettles
  BY DEF IInv, PlugInv
<1> QED BY <1>1, Inductive, PTL

(* No disk change whose event was read is lost between the threads.         *)
THEOREM ChangesKept == Spec => []NoLostChange
<1>1. IInv => NoLostChange
  BY DEF IInv, ChangeInv
<1> QED BY <1>1, Inductive, PTL

(* A device is given back before another one is taken.                      *)
THEOREM NoSwapCorrect == Spec => NoSwap
<1>1. IInv /\ [Next]_vars
        => [phone # NoPhone /\ phone' # phone
              => /\ phone' = NoPhone /\ conState' = "INIT"
                 /\ phone.dev \notin claimed']_vars
  <2> SUFFICES ASSUME IInv, [Next]_vars, phone # NoPhone, phone' # phone
               PROVE  /\ phone' = NoPhone /\ conState' = "INIT"
                      /\ phone.dev \notin claimed'
    OBVIOUS
  <2>1. IInv'
    BY TypeStep, SessionStep, PlugStep, ChangeStep DEF IInv
  <2>2. conState # "INIT" /\ pc # "detect"
    BY DEF IInv, SessionInv, StateMatchesPhone
  <2>3. RecvOffline \/ ReplyOffline \/ LoopUnplugged
    BY <2>2 DEF Next, EventThread, EvBind, EvTrigger, EvPhone, EvDisk, EvDiskUnread, EvDiskCall,
       MainLoop, PlugPhone, UnplugPhone, Reenumerate, DiskChange, WaitPlugIn, Enter, Detect,
       DetectClaim, DetectSwitch, DetectNothing, Connect, ConnectOk, ConnectFail,
       Recv, RecvRequest, RecvIdle, RecvRefuse, QueryLock, Query, QueryUnlock, Reply,
       ReplyOk, ReplyLost, LoopPlugged, GetNotify, PushOk, PushLost, Main,
       KeepSession, mainVars, vars
  <2>4. phone' = NoPhone /\ conState' = "INIT"
    BY <2>3 DEF RecvOffline, ReplyOffline, LoopUnplugged, Offline, PhoneRelease
  <2>5. claimed' = {}
    BY <2>1, <2>4 DEF IInv, SessionInv, ClaimMatchesPhone
  <2> QED BY <2>4, <2>5
<1> QED BY <1>1, Inductive, PTL DEF Spec, NoSwap

-----------------------------------------------------------------------------
(* The promise about disk changes.                                          *)

(* The daemon's first state is one of the promise's.                        *)
LEMMA NewsInit == Init => News!Init
<1> SUFFICES ASSUME Init PROVE News!Init
  OBVIOUS
<1>1. Len(ipc) = 0
  BY EmptySeq DEF Init
<1>2. disk \in Nat /\ unread = {} /\ disk - Len(ipc) - (IF evpc = "diskCall" THEN 1 ELSE 0) = disk
  <2>1. disk = 0
    BY DEF Init
  <2>2. (IF evpc = "diskCall" THEN 1 ELSE 0) = 0
    BY DEF Init
  <2>3. 0 \in Nat /\ 0 - 0 - 0 = 0
    OBVIOUS
  <2>4. unread = {}
    BY DEF Init
  <2> QED BY <1>1, <2>1, <2>2, <2>3, <2>4, Zenon
<1>3. Hears \in BOOLEAN
  BY Zenon DEF Hears
<1>4. notify = FALSE /\ pc # "unlock"
  BY DEF Init
<1>5. (rlock = "main") = FALSE
  <2>1. rlock # "main"
    BY DEF Init
  <2> QED BY <2>1, Zenon
<1>6. (IF pc = "unlock" THEN snap ELSE NoList) = News!NoList
  BY <1>4 DEF News!NoList, NoList
<1> QED BY <1>2, <1>3, <1>4, <1>5, <1>6, Zenon DEF News!Init

(* Events that wait in the service's socket number a natural number, one    *)
(* fewer when one is accepted, which is the first after those worked off.   *)
LEMMA Waiting ==
  ASSUME TypeOK, IpcOrder
  PROVE  /\ disk \in Nat /\ Len(ipc) \in Nat
         /\ ipc # <<>> => /\ Len(ipc) > 0 /\ Len(Tail(ipc)) = Len(ipc) - 1
                          /\ Head(ipc) = disk - Len(ipc) + 1
<1>1. ipc \in Seq(1..MaxDisk) /\ disk \in Nat
  BY UStorageAssumption DEF TypeOK, UStorageAssumption
<1>2. Len(ipc) \in Nat
  BY <1>1, LenProperties
<1>3. ASSUME ipc # <<>>
      PROVE  /\ Len(ipc) > 0 /\ Len(Tail(ipc)) = Len(ipc) - 1
             /\ Head(ipc) = disk - Len(ipc) + 1
  <2>1. Len(ipc) > 0
    BY <1>1, <1>2, <1>3, EmptySeq
  <2>2. Len(Tail(ipc)) = Len(ipc) - 1 /\ Head(ipc) = ipc[1]
    BY <1>1, <1>3, HeadTailProperties
  <2>3. ipc[1] = disk - Len(ipc) + 1
    BY <1>2, <2>1 DEF IpcOrder
  <2> QED BY <2>1, <2>2, <2>3
<1> QED BY <1>1, <1>2, <1>3

(* A step that moves none of what the promise speaks of is a stutter.       *)
LEMMA NewsStutter ==
  ASSUME UNCHANGED <<diskVars, evpc, notify, rlock>>,
         pc # "unlock", pc' # "unlock" \/ snap' = NoList
  PROVE  UNCHANGED News!vars
BY DEF News!vars, diskVars, Hears

(* Each step of the daemon is one of the promise's, or a stutter.           *)
LEMMA NewsStep == IInv /\ [Next]_vars => [News!Next]_News!vars
<1> SUFFICES ASSUME IInv, [Next]_vars PROVE [News!Next]_News!vars
  OBVIOUS
<1>t. TypeOK /\ QuietStart /\ LockSpan /\ IpcOrder /\ StateMatchesPhone
  BY DEF IInv, SessionInv, ChangeInv
<1>w. /\ disk \in Nat /\ Len(ipc) \in Nat
      /\ ipc # <<>> => /\ Len(ipc) > 0 /\ Len(Tail(ipc)) = Len(ipc) - 1
                       /\ Head(ipc) = disk - Len(ipc) + 1
  BY <1>t, Waiting
<1> USE DEF busVars, diskVars, evVars, mainVars, KeepSession, Main, Hears
<1>1. CASE PlugPhone \/ UnplugPhone \/ Reenumerate \/ EvPhone \/ EvBind \/ UNCHANGED vars
  BY <1>1 DEF PlugPhone, UnplugPhone, Reenumerate, EvPhone, EvBind, vars, News!vars
<1>2. CASE DiskChange
  <2>1. CASE ~Hears
    <3>1. Len(ipc) = 0
      BY <1>t, <2>1, EmptySeq DEF QuietStart
    <3> QED BY <1>2, <1>w, <2>1, <3>1 DEF DiskChange, News!Next, News!Change
  <2>2. CASE Hears
    <3>1. disk' \in 1..MaxDisk
      BY <1>2, <1>t, <1>w, UStorageAssumption DEF DiskChange, TypeOK, UStorageAssumption
    <3>2. Len(ipc') = Len(ipc) + 1
      BY <1>2, <1>t, <2>2, <3>1, AppendProperties DEF DiskChange, TypeOK
    <3> QED BY <1>2, <1>w, <2>2, <3>2 DEF DiskChange, News!Next, News!Change
  <2> QED BY <2>1, <2>2
<1>3. CASE EvTrigger
  BY <1>3 DEF EvTrigger, News!Next, News!Listen
<1>4. CASE EvDisk
  <2>1. CASE evpc' = "diskCall"
    BY <1>4, <1>w, <2>1 DEF EvDisk, News!vars
  <2>2. CASE evpc' # "diskCall"
    <3>1. Head(ipc) % 2 = 1 /\ ~DiskPresent /\ evpc' = "poll" /\ ipc # <<>>
      BY <1>4, <2>2 DEF EvDisk
    <3>2. Head(ipc) # disk
      BY <3>1 DEF DiskPresent
    <3>3. Len(ipc) > 1
      BY <1>w, <3>1, <3>2
    <3> QED BY <1>4, <1>w, <3>1, <3>3 DEF EvDisk, News!Next, News!Skip
  <2> QED BY <2>1, <2>2
<1>12. CASE EvDiskUnread
  BY <1>12, <1>w DEF EvDiskUnread, News!Next, News!Miss
<1>5. CASE EvDiskCall
  BY <1>5, <1>w DEF EvDiskCall, News!Next, News!Record
<1>6. CASE WaitPlugIn \/ Enter \/ Detect \/ Connect
  <2>1. /\ UNCHANGED <<diskVars, evpc, notify, rlock>>
        /\ pc # "unlock" /\ pc' # "unlock"
    BY <1>6, <1>t DEF WaitPlugIn, Enter, Detect, DetectClaim, DetectSwitch,
       DetectNothing, Connect, ConnectOk, ConnectFail, vars, TypeOK
  <2> QED BY <2>1, NewsStutter
<1>7. CASE Recv \/ Reply \/ LoopUnplugged \/ LoopPlugged \/ PushOk \/ PushLost
  <2>1. /\ UNCHANGED <<diskVars, evpc, notify, rlock>>
        /\ pc # "unlock" /\ pc' # "unlock"
    BY <1>7 DEF Recv, RecvRequest, RecvIdle, RecvRefuse, RecvOffline, Reply, ReplyOk,
       ReplyLost, ReplyOffline, LoopUnplugged, LoopPlugged, PushOk, PushLost
  <2> QED BY <2>1, NewsStutter
<1>8. CASE QueryLock
  <2>1. Hears
    BY <1>8, <1>t DEF QueryLock, QuietStart
  <2> QED BY <1>8, <2>1 DEF QueryLock, News!Next, News!Ask
<1>9. CASE Query
  <2>1. rlock = "main"
    BY <1>9, <1>t DEF Query, LockSpan
  <2>2. CASE snap' = disk
    BY <1>9, <2>1, <2>2 DEF Query, News!Next, News!Take, News!NoList, NoList
  <2>3. CASE snap' = NoList
    BY <1>9, <2>3, NewsStutter DEF Query
  <2> QED BY <1>9, <2>2, <2>3 DEF Query
<1>10. CASE QueryUnlock
  <2>1. rlock = "main"
    BY <1>10, <1>t DEF QueryUnlock, LockSpan
  <2>2. CASE snap = NoList
    BY <1>10, <2>1, <2>2
       DEF QueryUnlock, News!Next, News!Refuse, News!NoList, NoList
  <2>3. CASE snap # NoList
    BY <1>10, <2>1, <2>3
       DEF QueryUnlock, News!Next, News!Answer, News!NoList, NoList
  <2> QED BY <2>2, <2>3
<1>11. CASE GetNotify
  <2>1. CASE notify
    BY <1>11, <2>1 DEF GetNotify, News!Next, News!Announce
  <2>2. CASE ~notify
    BY <1>11, <1>t, <2>2, NewsStutter DEF GetNotify, TypeOK
  <2> QED BY <2>1, <2>2
<1> QED BY <1>1, <1>2, <1>3, <1>4, <1>5, <1>6, <1>7, <1>8, <1>9, <1>10, <1>11, <1>12
        DEF Next, EventThread, MainLoop

(* The two threads of the daemon keep the promise of DiskNews.              *)
THEOREM Implements == Spec => ImplementsNews
<1>1. Init => News!Init
  BY NewsInit
<1>2. IInv /\ [Next]_vars => [News!Next]_News!vars
  BY NewsStep
<1> QED BY <1>1, <1>2, Inductive, PTL DEF Spec, ImplementsNews, News!Spec
=============================================================================
