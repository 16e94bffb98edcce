------------------------------ MODULE UStorage ------------------------------
(***************************************************************************)
(* The daemon: its main loop (usStorage.c), the event thread (usEvent.c),  *)
(* the claim of the phone's USB interface (usProtocol_PhoneDetect and      *)
(* _PhoneRelease) and the pending plug notification that both threads      *)
(* share under rlock (usDisk.c), with the phone, the USB bus and the disk  *)
(* service as the environment.                                             *)
(*                                                                         *)
(* The transport is abstracted to the result codes it returns to main();   *)
(* ItunesMux opens it up.                                                  *)
(***************************************************************************)
EXTENDS Integers, Sequences

CONSTANTS Kinds,      (* the kinds of phone a user may plug in              *)
          MaxDevs,    (* bound: devices the bus enumerates in a behaviour   *)
          MaxDisk     (* bound: plugs and unplugs of the disk               *)

ASSUME UStorageAssumption ==
       /\ Kinds \subseteq {"ios", "aoa", "android"}
       /\ MaxDevs \in Nat
       /\ MaxDisk \in Nat

VARIABLES
  (* the outside world *)
  bus,          \* what sits at PHONE_BUS_LOC: [dev, kind]
  lastDev,      \* the last device number the bus handed out
  uevents,      \* the netlink socket: phone uevents not yet received
  disk,         \* number of disk changes so far; odd: a disk is present
  ipc,          \* UPNPD_EVENT_IPC: the changes whose event is not yet accepted
  app,          \* the phone's app: the listing it holds, a notification seen
  (* the event thread *)
  evpc,         \* "start", "trigger", "poll", "diskCall": in usDisk_PlugCallBack
  phonePlugin,  \* the flag phoneCallBack writes and main() reads
  (* shared by both threads, under rlock *)
  rlock,        \* "free" or "main"; the event thread takes and frees it in a step
  notify,       \* notifyInfo.valid
  (* main() *)
  pc,           \* where main() is
  conState,     \* "INIT", "CNTING", "CNTED"
  phone,        \* usContext.phone: [dev, kind]; dev 0 is the zeroed structure
  claimed,      \* the devices whose interface libusb holds open for the daemon
  req,          \* the request main() is serving
  snap,         \* the disk state the reply carries, or NoList
  (* history *)
  unread,       \* the changes whose event handleIPC() threw away
  missed        \* in this session a report of a disk change was lost on the wire

busVars  == <<bus, lastDev, uevents>>
diskVars == <<disk, ipc, unread>>
evVars   == <<evpc, phonePlugin>>
mainVars == <<pc, conState, phone, claimed, req, snap>>
vars == <<busVars, diskVars, evVars, app, rlock, notify, mainVars, missed>>

-----------------------------------------------------------------------------
NoPhone == [dev |-> 0, kind |-> "none"]
NoList  == -1
NoApp   == [list |-> NoList, told |-> FALSE]

Devs        == 1..MaxDevs
PhoneKinds  == {"ios", "aoa"}                \* PRO_IOS, PRO_ANDROID
BusKinds    == PhoneKinds \cup {"android", "switching"}
DiskQueries == {"DISKLUN", "DISKINFO"}
Requests    == DiskQueries \cup {"LIST", "SAFEREMOVE", "OTHER"}

DiskPresent == disk % 2 = 1
Hears       == evpc \notin {"start", "trigger"}  \* UPNPD_EVENT_IPC is there
Live        == phone.dev # 0 /\ phone.dev = bus.dev

TypeOK ==
  /\ bus \in [dev : Devs, kind : BusKinds] \cup {NoPhone}
  /\ lastDev \in 0..MaxDevs
  /\ uevents \in Seq({"add", "remove"})
  /\ disk \in 0..MaxDisk
  /\ ipc \in Seq(1..MaxDisk) /\ unread \subseteq 1..MaxDisk
  /\ app \in [list : 0..MaxDisk \cup {NoList}, told : BOOLEAN]
  /\ evpc \in {"start", "trigger", "poll", "diskCall"}
  /\ phonePlugin \in BOOLEAN
  /\ rlock \in {"free", "main"}
  /\ notify \in BOOLEAN
  /\ pc \in {"top", "detect", "connect", "recv", "lock", "query", "unlock",
             "reply", "loopNext", "getNotify", "push"}
  /\ conState \in {"INIT", "CNTING", "CNTED"}
  /\ phone \in [dev : Devs, kind : PhoneKinds] \cup {NoPhone}
  /\ claimed \in SUBSET Devs
  /\ req \in Requests
  /\ snap \in 0..MaxDisk \cup {NoList}
  /\ missed \in BOOLEAN

Init ==
  /\ bus \in {NoPhone} \cup [dev : Devs \cap {1}, kind : Kinds]
  /\ lastDev = bus.dev
  /\ uevents = <<>>
  /\ disk = 0 /\ ipc = <<>> /\ unread = {}
  /\ app = NoApp /\ missed = FALSE
  /\ evpc = "start" /\ phonePlugin = FALSE
  /\ rlock = "free" /\ notify = FALSE
  /\ pc = "top" /\ conState = "INIT"
  /\ phone = NoPhone /\ claimed = {}
  /\ req = "OTHER" /\ snap = NoList

-----------------------------------------------------------------------------
(* The USB bus and the kernel.  A uevent reaches the daemon only once the   *)
(* event thread has bound its netlink socket.                               *)

Kernel(events) == uevents' = IF evpc = "start" THEN uevents ELSE uevents \o events

PlugPhone ==
  /\ bus = NoPhone
  /\ lastDev < MaxDevs
  /\ \E k \in Kinds : bus' = [dev |-> lastDev + 1, kind |-> k]
  /\ lastDev' = lastDev + 1
  /\ Kernel(<<"add">>)
  /\ UNCHANGED <<diskVars, evVars, app, rlock, notify, mainVars, missed>>

UnplugPhone ==
  /\ bus # NoPhone
  /\ bus' = NoPhone
  /\ Kernel(<<"remove">>)
  /\ UNCHANGED <<lastDev, diskVars, evVars, app, rlock, notify, mainVars, missed>>

(* An Android phone told to become an accessory leaves the bus and comes    *)
(* back as another device.                                                  *)
Reenumerate ==
  /\ bus.kind = "switching"
  /\ lastDev < MaxDevs
  /\ bus' = [dev |-> lastDev + 1, kind |-> "aoa"]
  /\ lastDev' = lastDev + 1
  /\ Kernel(<<"remove", "add">>)
  /\ UNCHANGED <<diskVars, evVars, app, rlock, notify, mainVars, missed>>

(* The disk service mounts or drops the disk, then posts the event: an odd  *)
(* change is an "add", an even one a "remove".                              *)
DiskChange ==
  /\ disk < MaxDisk
  /\ disk' = disk + 1
  /\ ipc' = IF Hears THEN Append(ipc, disk') ELSE ipc
  /\ UNCHANGED <<unread, busVars, evVars, app, rlock, notify, mainVars, missed>>

-----------------------------------------------------------------------------
(* The event thread, vs_eventFunc().                                        *)

(* initNetlinkSock() binds its socket ...                                   *)
EvBind ==
  /\ evpc = "start"
  /\ evpc' = "trigger"
  /\ UNCHANGED <<busVars, diskVars, phonePlugin, app, rlock, notify, mainVars, missed>>

(* Fault: the kernel is asked before the socket is bound, for nobody to hear. *)
EvTriggerEarly ==
  /\ evpc = "trigger"
  /\ evpc' = "poll"
  /\ UNCHANGED <<busVars, diskVars, phonePlugin, app, rlock, notify, mainVars, missed>>

(* ... and asks the kernel to repeat the "add" of a phone that is there;      *)
(* then ipcServerInit() opens the other socket.                              *)
EvTrigger ==
  /\ evpc = "trigger"
  /\ evpc' = "poll"
  /\ uevents' = IF bus = NoPhone THEN uevents ELSE Append(uevents, "add")
  /\ UNCHANGED <<bus, lastDev, diskVars, phonePlugin, app, rlock, notify,
                 mainVars, missed>>

(* handlePlug(), handlePhonePlug() and the callback phoneCallBack().         *)
EvPhone ==
  /\ evpc = "poll"
  /\ uevents # <<>>
  /\ phonePlugin' = (Head(uevents) = "add")
  /\ uevents' = Tail(uevents)
  /\ UNCHANGED <<bus, lastDev, diskVars, evpc, app, rlock, notify, mainVars, missed>>

(* handleIPC() and handleStoragePlug(): an "add" whose device node cannot be *)
(* opened goes no further, another event goes to usDisk_PlugCallBack() ...    *)
EvDisk ==
  /\ evpc = "poll"
  /\ ipc # <<>>
  /\ evpc' = IF Head(ipc) % 2 = 1 /\ ~DiskPresent THEN "poll" ELSE "diskCall"
  /\ ipc' = Tail(ipc)
  /\ UNCHANGED <<busVars, disk, unread, phonePlugin, app, rlock, notify,
                 mainVars, missed>>

(* ... unless its message is cut short or the name in it is not that of a     *)
(* disk ("sd", "mmcblk"): such an event is thrown away, whatever it was.      *)
EvDiskUnread ==
  /\ evpc = "poll"
  /\ ipc # <<>>
  /\ unread' = unread \cup {Head(ipc)}
  /\ ipc' = Tail(ipc)
  /\ UNCHANGED <<busVars, disk, evVars, app, rlock, notify, mainVars, missed>>

(* Fault: the notification is recorded without taking rlock.                 *)
EvDiskCallUnlocked ==
  /\ evpc = "diskCall"
  /\ notify' = TRUE
  /\ evpc' = "poll"
  /\ UNCHANGED <<busVars, diskVars, phonePlugin, app, rlock, mainVars, missed>>

(* usDisk_PlugCallBack(): waits for rlock, then records one notification,    *)
(* over the one that may be pending.                                         *)
EvDiskCall ==
  /\ evpc = "diskCall"
  /\ rlock = "free"
  /\ notify' = TRUE
  /\ evpc' = "poll"
  /\ UNCHANGED <<busVars, diskVars, phonePlugin, app, rlock, mainVars, missed>>

EventThread == EvBind \/ EvTrigger \/ EvPhone \/ EvDisk \/ EvDiskUnread \/ EvDiskCall

-----------------------------------------------------------------------------
(* main().  Sleeps are not modelled: between two steps any time may pass.   *)

Main(from, to) == pc = from /\ pc' = to

(* Fault: the structure is zeroed, the interface stays open.                 *)
PhoneReleaseLeaking ==
  /\ claimed' = claimed
  /\ phone' = NoPhone

(* usProtocol_PhoneRelease(): give the interface back, zero the structure.  *)
PhoneRelease ==
  /\ claimed' = claimed \ {phone.dev}
  /\ phone' = NoPhone

(* Fault: the connection state survives the release.                         *)
OfflineKeepingState ==
  /\ UNCHANGED conState
  /\ PhoneRelease
  /\ app' = NoApp /\ missed' = FALSE

(* "Maybe Offline....": the session is over for any result code that is     *)
(* neither EUSTOR_USB_TIMEOUT nor EUSTOR_PRO_REFUSE.                        *)
Offline ==
  /\ conState' = "INIT"
  /\ PhoneRelease
  /\ app' = NoApp /\ missed' = FALSE

KeepSession == UNCHANGED <<conState, phone, claimed>>

WaitPlugIn ==
  /\ Main("top", "top")
  /\ ~phonePlugin
  /\ UNCHANGED vars

Enter ==
  /\ phonePlugin
  /\ Main("top", CASE conState = "INIT"   -> "detect"
                   [] conState = "CNTING" -> "connect"
                   [] conState = "CNTED"  -> "recv")
  /\ KeepSession
  /\ UNCHANGED <<busVars, diskVars, evVars, app, rlock, notify, req, snap, missed>>

(* Fault: after the attempt to switch a phone, the loop goes on to claim it.  *)
DetectClaimAny ==
  /\ Main("detect", "connect")
  /\ bus # NoPhone
  /\ bus.dev \notin claimed \ {phone.dev}
  /\ phone' = bus
  /\ claimed' = (claimed \ {phone.dev}) \cup {bus.dev}
  /\ conState' = "CNTING"
  /\ UNCHANGED <<busVars, diskVars, evVars, app, rlock, notify, req, snap, missed>>

(* usProtocol_PhoneDetect() finds a phone, opens it and claims its interface. *)
DetectClaim ==
  /\ Main("detect", "connect")
  /\ bus.kind \in PhoneKinds
  /\ bus.dev \notin claimed \ {phone.dev}
  /\ phone' = bus
  /\ claimed' = (claimed \ {phone.dev}) \cup {bus.dev}
  /\ conState' = "CNTING"
  /\ UNCHANGED <<busVars, diskVars, evVars, app, rlock, notify, req, snap, missed>>

(* ... finds an Android phone that is no accessory yet and switches it: the   *)
(* phone is taken up by a later round, as the device it comes back as.        *)
DetectSwitch ==
  /\ Main("detect", "top")
  /\ bus.kind = "android"
  /\ bus' = [bus EXCEPT !.kind = "switching"]
  /\ PhoneRelease
  /\ UNCHANGED <<lastDev, uevents, diskVars, evVars, app, rlock, notify,
                 conState, req, snap, missed>>

(* ... finds nothing, or a step of the opening fails.                         *)
DetectNothing ==
  /\ Main("detect", "top")
  /\ PhoneRelease
  /\ UNCHANGED <<busVars, diskVars, evVars, app, rlock, notify, conState, req,
                 snap, missed>>

(* usProtocol_ConnectPhone(): an accessory needs no handshake and always      *)
(* succeeds, even if it has left; an iPhone has to answer.                    *)
ConnectOk ==
  /\ Main("connect", "recv")
  /\ phone.kind = "ios" => Live
  /\ conState' = "CNTED"
  /\ app' = NoApp /\ missed' = FALSE
  /\ UNCHANGED <<busVars, diskVars, evVars, rlock, notify, phone, claimed, req, snap>>

ConnectFail ==
  /\ Main("connect", "loopNext")
  /\ phone.kind = "ios"
  /\ KeepSession
  /\ UNCHANGED <<busVars, diskVars, evVars, app, rlock, notify, req, snap, missed>>

(* usStorage_RecvPackage() returns a request, and usStorage_ProtocolHandle()  *)
(* dispatches it.  SAFEREMOVE has an empty branch: its reply has size 0.      *)
RecvRequest ==
  /\ \E r \in Requests :
       /\ req' = r
       /\ Main("recv", IF r \in DiskQueries THEN "lock" ELSE "reply")
  /\ Live
  /\ snap' = NoList
  /\ KeepSession
  /\ UNCHANGED <<busVars, diskVars, evVars, app, rlock, notify, missed>>

(* Fault: a receive that times out starts the next round with a `continue`    *)
(* (main() has it commented out).                                             *)
RecvIdleContinue ==
  /\ Main("recv", "top")
  /\ Live
  /\ KeepSession
  /\ UNCHANGED <<busVars, diskVars, evVars, app, rlock, notify, req, snap, missed>>

(* ... times out, or drops what it read (truRecvSize 0).                      *)
RecvIdle ==
  /\ Main("recv", "loopNext")
  /\ Live
  /\ KeepSession
  /\ UNCHANGED <<busVars, diskVars, evVars, app, rlock, notify, req, snap, missed>>

(* ... sees the iPhone reset the connection.                                  *)
RecvRefuse ==
  /\ Main("recv", "loopNext")
  /\ Live /\ phone.kind = "ios"
  /\ conState' = "CNTING"
  /\ app' = NoApp /\ missed' = FALSE
  /\ UNCHANGED <<busVars, diskVars, evVars, rlock, notify, phone, claimed, req, snap>>

(* Fault: a lost device is taken for a refused connection.                    *)
RecvOfflineRetrying ==
  /\ Main("recv", "loopNext")
  /\ conState' = "CNTING"
  /\ PhoneRelease
  /\ app' = NoApp /\ missed' = FALSE
  /\ UNCHANGED <<busVars, diskVars, evVars, rlock, notify, req, snap>>

(* ... fails: the only outcome left once the device has gone.                 *)
RecvOffline ==
  /\ Main("recv", "loopNext")
  /\ Offline
  /\ UNCHANGED <<busVars, diskVars, evVars, rlock, notify, req, snap>>

(* usDisk_diskLun() and usDisk_diskInfo() ask the disk service under rlock.   *)
QueryLock ==
  /\ Main("lock", "query")
  /\ rlock = "free"
  /\ rlock' = "main"
  /\ KeepSession
  /\ UNCHANGED <<busVars, diskVars, evVars, app, notify, req, snap, missed>>

(* The service answers with its state of now, or the exchange fails.          *)
Query ==
  /\ Main("query", "unlock")
  /\ snap' \in {disk, NoList}
  /\ KeepSession
  /\ UNCHANGED <<busVars, diskVars, evVars, app, rlock, notify, req, missed>>

(* Fault: the notification is reset whether or not the service answered.      *)
QueryUnlockCancelling ==
  /\ Main("unlock", "reply")
  /\ notify' = FALSE
  /\ rlock' = "free"
  /\ KeepSession
  /\ UNCHANGED <<busVars, diskVars, evVars, app, req, snap, missed>>

(* "Reset Notify Info": a listing makes the pending notification needless.    *)
QueryUnlock ==
  /\ Main("unlock", "reply")
  /\ notify' = IF snap = NoList THEN notify ELSE FALSE
  /\ rlock' = "free"
  /\ KeepSession
  /\ UNCHANGED <<busVars, diskVars, evVars, app, req, snap, missed>>

(* usProtocol_SendPackage() of the reply.  The app that gets a listing knows  *)
(* the disks as they were when the service answered.                          *)
ReplyOk ==
  /\ Main("reply", "loopNext")
  /\ Live /\ req # "SAFEREMOVE"
  /\ IF snap = NoList THEN UNCHANGED <<app, missed>>
     ELSE app' = [list |-> snap, told |-> FALSE] /\ missed' = FALSE
  /\ KeepSession
  /\ UNCHANGED <<busVars, diskVars, evVars, rlock, notify, req, snap>>

(* It times out, which main() takes for no reason to end the session; of a    *)
(* directory listing every failure is ignored.                                *)
ReplyLost ==
  /\ Main("reply", "loopNext")
  /\ req = "LIST" \/ (Live /\ req # "SAFEREMOVE")
  /\ missed' = IF snap = NoList THEN missed ELSE TRUE
  /\ KeepSession
  /\ UNCHANGED <<busVars, diskVars, evVars, app, rlock, notify, req, snap>>

(* It fails; a reply of size 0 always does (EUSTOR_ARG).                      *)
ReplyOffline ==
  /\ Main("reply", "loopNext")
  /\ req # "LIST"
  /\ Offline
  /\ UNCHANGED <<busVars, diskVars, evVars, rlock, notify, req, snap>>

(* Fault: an unplugged phone resets the state and is not released.            *)
LoopUnpluggedKeeping ==
  /\ Main("loopNext", "top")
  /\ ~phonePlugin
  /\ conState' = "INIT" /\ UNCHANGED <<phone, claimed>>
  /\ app' = NoApp /\ missed' = FALSE
  /\ UNCHANGED <<busVars, diskVars, evVars, rlock, notify, req, snap>>

(* loop_next: every round ends here, except those that end in a `continue`.   *)
LoopUnplugged ==
  /\ Main("loopNext", "top")
  /\ ~phonePlugin
  /\ Offline
  /\ UNCHANGED <<busVars, diskVars, evVars, rlock, notify, req, snap>>

LoopPlugged ==
  /\ phonePlugin
  /\ Main("loopNext", IF conState = "CNTED" THEN "getNotify" ELSE "top")
  /\ KeepSession
  /\ UNCHANGED <<busVars, diskVars, evVars, app, rlock, notify, req, snap, missed>>

(* usStorage_notifyPlug(): usDisk_getNotifyInfo() consumes the notification   *)
(* under rlock, ...                                                           *)
GetNotify ==
  /\ Main("getNotify", IF notify THEN "push" ELSE "top")
  /\ rlock = "free"
  /\ notify' = FALSE
  /\ KeepSession
  /\ UNCHANGED <<busVars, diskVars, evVars, app, rlock, req, snap, missed>>

(* ... and the result of sending it is not looked at.                         *)
PushOk ==
  /\ Main("push", "top")
  /\ Live
  /\ app' = [app EXCEPT !.told = TRUE]
  /\ KeepSession
  /\ UNCHANGED <<busVars, diskVars, evVars, rlock, notify, req, snap, missed>>

PushLost ==
  /\ Main("push", "top")
  /\ missed' = TRUE
  /\ KeepSession
  /\ UNCHANGED <<busVars, diskVars, evVars, app, rlock, notify, req, snap>>

Detect  == DetectClaim \/ DetectSwitch \/ DetectNothing
Connect == ConnectOk \/ ConnectFail
Recv    == RecvRequest \/ RecvIdle \/ RecvRefuse \/ RecvOffline
Reply   == ReplyOk \/ ReplyLost \/ ReplyOffline
MainLoop == \/ WaitPlugIn \/ Enter \/ Detect \/ Connect \/ Recv
            \/ QueryLock \/ Query \/ QueryUnlock \/ Reply
            \/ LoopUnplugged \/ LoopPlugged \/ GetNotify \/ PushOk \/ PushLost

Next == \/ PlugPhone \/ UnplugPhone \/ Reenumerate \/ DiskChange
        \/ EventThread \/ MainLoop

Spec == Init /\ [][Next]_vars

(* The two threads run on, and rlock, which main() frees before every reply,  *)
(* is in the end granted to the event thread that waits for it; a phone that  *)
(* stays in is not refused for ever; a phone told to switch comes back.       *)
(* Users and disks owe nothing.                                               *)
Fairness ==
  /\ WF_vars(EventThread) /\ SF_vars(EvDiskCall)
  /\ WF_vars(MainLoop) /\ WF_vars(Reenumerate)
  /\ SF_vars(DetectClaim) /\ SF_vars(DetectSwitch) /\ SF_vars(ConnectOk)

FairSpec == Spec /\ Fairness

-----------------------------------------------------------------------------
(* Safety.                                                                    *)

(* The daemon holds exactly the interface its phone structure names: no round *)
(* leaves one open behind it (it would make the next claim of that device     *)
(* fail) and none is used after it was given back.                            *)
ClaimMatchesPhone == claimed = IF phone = NoPhone THEN {} ELSE {phone.dev}

(* A connection state past CON_INIT goes with a phone structure in use, and   *)
(* each step of main() with the state it needs: nothing is sent or received   *)
(* outside a session.                                                         *)
StateMatchesPhone ==
  /\ (conState = "INIT") <=> (phone = NoPhone)
  /\ pc = "detect" => conState = "INIT"
  /\ pc = "connect" => conState = "CNTING"
  /\ pc \in {"recv", "lock", "query", "unlock", "reply", "getNotify", "push"}
       => conState = "CNTED"

(* Once the event thread has read all uevents, the flag main() polls is the   *)
(* truth about the bus.                                                       *)
PlugFlagSettles == Hears /\ uevents = <<>> => (phonePlugin <=> bus # NoPhone)

(* The disk changes to report: those whose event was or will be read, save an *)
(* "add" of a disk that has left again (its removal is to be reported).       *)
Reportable == {c \in (1..disk) \ unread : c % 2 = 0 \/ c = disk}

(* Those the app's listing does not show.                                     *)
Owed == IF conState = "CNTED" /\ app.list # NoList
        THEN {c \in Reportable : c > app.list} ELSE {}

(* Change c is on its way to the app, somewhere between the service's socket  *)
(* and the wire: as an event, as the one notification that stands for all     *)
(* before it, or in a listing.                                                *)
UnderWay(c) ==
  \/ \E i \in DOMAIN ipc : ipc[i] = c
  \/ evpc = "diskCall" \/ notify \/ pc = "push"
  \/ pc = "reply" /\ snap >= c

(* No change is dropped between the threads: of each one it is owed the app   *)
(* was told, or will be, unless the wire lost the message.  Resetting the     *)
(* pending notification in diskLun/diskInfo must not lose a change that the   *)
(* listing does not show.                                                     *)
NoLostChange == \A c \in Owed : app.told \/ missed \/ UnderWay(c)

-----------------------------------------------------------------------------
(* Action properties and liveness.                                            *)

(* The two threads keep the promise about disk changes (DiskNews): a change   *)
(* whose event was accepted is recorded, or thrown away unread, or passed     *)
(* over with a later one still to come; nothing is recorded between lock and  *)
(* unlock, and the notification goes away for a list taken there or for its   *)
(* announcement.                                                              *)
News == INSTANCE DiskNews WITH
  listening <- Hears,
  recorded  <- disk - Len(ipc) - (IF evpc = "diskCall" THEN 1 ELSE 0),
  pending   <- notify,
  busy      <- rlock = "main",
  snap      <- IF pc = "unlock" THEN snap ELSE NoList

ImplementsNews == News!Spec

(* The daemon never moves from one device to another without giving the first *)
(* one back, and it never gives back a device it keeps using.                 *)
NoSwap == [][phone # NoPhone /\ phone' # phone
              => phone' = NoPhone /\ conState' = "INIT" /\ phone.dev \notin claimed']_vars

(* An app that is owed a change is told, or gets a listing that shows it,     *)
(* however many requests it sends meanwhile, unless the wire loses the        *)
(* message, the event is thrown away after all, or the phone leaves.          *)
ChangeReported == Owed # {} /\ Live ~> app.told \/ missed \/ Owed = {} \/ ~Live

(* A phone that stays plugged in is served again and again.  The one way out  *)
(* is the iPhone that left and came back while main() was connecting to it:   *)
(* CON_CNTING never goes back to CON_INIT by itself.                          *)
Served      == conState = "CNTED" /\ Live
DeadConnect == conState = "CNTING" /\ phone.kind = "ios" /\ ~Live
PhoneServed == <>[](bus.kind \in PhoneKinds \cup {"android"}) => []<>Served \/ <>[]DeadConnect
=============================================================================
