------------------------------ MODULE DiskIpc ------------------------------
(***************************************************************************)
(* The build for devices with a disk service of their own (diskipc.c): a   *)
(* DISKLUN or DISKINFO request is answered by a call to that service over  *)
(* a UNIX socket, under the lock that the event thread needs to record a   *)
(* disk change (usDisk.c).                                                 *)
(*                                                                         *)
(* The service is external: it keeps a list of disks, tells the daemon of  *)
(* a change after it made it, and accepts calls in their order, answers    *)
(* them, fails them, is slow, dies or starts anew.  UStorage takes the     *)
(* call as one step; here it is taken apart.                               *)
(***************************************************************************)
EXTENDS Integers, Sequences, SequencesExt

CONSTANTS Disks,       (* the disks a user may plug in                        *)
          Statuses,    (* the states the service reports of a disk            *)
          Backlog,     (* calls that may wait for the service to accept them    *)
          MaxNodes,    (* nodes that fit the reply buffer, of a DISKLUN       *)
          MaxInfo,     (* and entries that fit it, of a DISKINFO              *)
          NumValues,   (* values of the int16 disknum: 2^16, fewer in TLC     *)
          MaxChanges   (* bound: changes of the service's list                *)

ASSUME DiskIpcAssumption ==
  /\ Statuses \subseteq {"mounted", "init", "sfremove", "mnt_err"}
  /\ {MaxNodes, MaxInfo, MaxChanges} \subseteq Nat
  /\ Backlog \in Nat \ {0}
  /\ NumValues \in Nat \ {0}

VARIABLES
  (* the disk service *)
  hist,     \* the lists of disks it had; the last is its list
  events,   \* UPNPD_EVENT_IPC: the changes the daemon has not yet accepted
  up,       \* the service is there
  waiting,  \* the calls it has not accepted; an open one is the last of them
  conn,     \* the call: "none", "open", "asked", "answering", "done", "closed"
  wire,     \* the answer on its way to the daemon
  answer,   \* the list the service is answering with
  (* the event thread and what it shares *)
  evpc,     \* "poll", "read": in ipcRead(), "call": in usDisk_PlugCallBack()
  event,    \* the change it is told of
  msg,      \* what has come of its message: "part" (or nothing), "whole", "cut"
  rlock,    \* "free" or "main"; the event thread takes and frees it in a step
  notify,   \* notifyInfo.valid
  (* main() *)
  pc,       \* where it is; "idle" outside the two requests
  req,      \* "lun" or "info"
  hdr,      \* the service's header: response, len, and whose list follows
  list,     \* disklist: the entries not yet looked at
  nodes,    \* what it has written to the reply buffer
  disknum,  \* of the operation_diskLun at the start of the buffer
  reply,    \* the last reply
  (* history *)
  asked,    \* the service's list when the request came
  told,     \* the last change recorded in notifyInfo, or thrown away
  unread    \* the changes whose event was thrown away

service == <<hist, events>>
queue   == <<up, waiting>>
call    == <<queue, conn, wire, answer>>
evVars  == <<evpc, event, msg>>
mainVars == <<pc, req, hdr, list, nodes, disknum, reply, asked>>
past == <<told, unread>>
vars == <<service, call, evVars, rlock, notify, mainVars, past>>

-----------------------------------------------------------------------------
Entry    == [dev : Disks, status : Statuses]
Versions == 1..MaxChanges + 1
Header   == [res : {"ok", "fail"}, len : Nat, ver : Versions]
Body     == [res : {"body"}, len : {0}, ver : Versions]
Reply    == [req : {"none", "lun", "info"}, ok : BOOLEAN, num : 0..NumValues - 1,
             len : Nat, nodes : Seq(Disks), ver : Versions, since : Versions]
NoHeader == [res |-> "fail", len |-> 0, ver |-> 1]
NoReply  == [req |-> "none", ok |-> FALSE, num |-> 0, len |-> 0, nodes |-> <<>>,
             ver |-> 1, since |-> 1]

Version == Len(hist)

Devs(l) == [i \in DOMAIN l |-> l[i].dev]

Steps == {"idle", "lock", "connect", "write", "hdr", "body", "check", "loop",
          "failed", "ok"}

TypeOK ==
  /\ hist \in Seq(Seq(Entry)) /\ Len(hist) \in Versions
  /\ events \in Seq(Versions)
  /\ up \in BOOLEAN /\ waiting \in 0..Backlog
  /\ conn \in {"none", "open", "asked", "answering", "done", "closed"}
  /\ wire \in Seq(Header \cup Body) /\ answer \in Versions
  /\ evpc \in {"poll", "read", "call"} /\ event \in Versions
  /\ msg \in {"part", "whole", "cut"}
  /\ rlock \in {"free", "main"} /\ notify \in BOOLEAN
  /\ pc \in Steps /\ req \in {"lun", "info"}
  /\ hdr \in Header /\ list \in Seq(Entry)
  /\ nodes \in Seq(Disks)
  /\ Len(nodes) <= IF req = "lun" THEN MaxNodes ELSE MaxInfo
  /\ disknum \in 0..NumValues - 1
  /\ reply \in Reply
  /\ {asked, told} \subseteq Versions /\ unread \subseteq Versions

Init ==
  /\ hist = <<<<>>>> /\ events = <<>>
  /\ up \in BOOLEAN /\ waiting = 0
  /\ conn = "none" /\ wire = <<>> /\ answer = 1
  /\ evpc = "poll" /\ event = 1 /\ msg = "part"
  /\ rlock = "free" /\ notify = FALSE
  /\ pc = "idle" /\ req = "lun"
  /\ hdr = NoHeader /\ list = <<>> /\ nodes = <<>> /\ disknum = 0
  /\ reply = NoReply
  /\ asked = 1 /\ told = 1 /\ unread = {}

-----------------------------------------------------------------------------
(* The disk service.                                                          *)

(* A disk comes, goes or changes its state; then the daemon is told.          *)
Change ==
  LET l == hist[Version] IN
  /\ up /\ Version <= MaxChanges
  /\ \/ \E d \in Disks, s \in Statuses :
          /\ \A i \in DOMAIN l : l[i].dev # d
          /\ hist' = Append(hist, Append(l, [dev |-> d, status |-> s]))
     \/ \E i \in DOMAIN l :
          LET others == RemoveAt(l, i) IN
          \/ hist' = Append(hist, others)
          \/ \E s \in Statuses :
               hist' = Append(hist, Append(others, [dev |-> l[i].dev, status |-> s]))
  /\ events' = Append(events, Len(hist'))
  /\ UNCHANGED <<call, evVars, rlock, notify, mainVars, past>>

(* Calls are accepted in their order, the daemon's latest last.               *)
Accept ==
  /\ waiting > 0 /\ waiting' = waiting - 1
  /\ UNCHANGED <<service, up, conn, wire, answer, evVars, rlock, notify,
                 mainVars, past>>

(* A call that was accepted is answered with the list of the moment; the      *)
(* header says what follows.                                                  *)
Answer ==
  /\ conn = "asked" /\ waiting = 0
  /\ \E res \in {"ok", "fail"} :
       LET len == IF res = "ok" THEN Len(hist[Version]) ELSE 0 IN
       /\ wire' = Append(wire, [res |-> res, len |-> len, ver |-> Version])
       /\ conn' = IF len > 0 THEN "answering" ELSE "done"
  /\ answer' = Version
  /\ UNCHANGED <<service, queue, evVars, rlock, notify, mainVars, past>>

AnswerBody ==
  /\ conn = "answering" /\ conn' = "done"
  /\ wire' = Append(wire, [res |-> "body", len |-> 0, ver |-> answer])
  /\ UNCHANGED <<service, queue, answer, evVars, rlock, notify, mainVars,
                 past>>

InService == {"open", "asked", "answering"}

(* It drops the call.                                                         *)
Drops ==
  /\ conn \in InService /\ conn' = "closed"
  /\ waiting = 0
  /\ UNCHANGED <<service, queue, wire, answer, evVars, rlock, notify,
                 mainVars, past>>

(* It dies, and with it every call, accepted or not; another is started.      *)
Dies ==
  /\ up /\ up' = FALSE
  /\ waiting' = 0
  /\ conn' = IF conn \in InService THEN "closed" ELSE conn
  /\ UNCHANGED <<service, wire, answer, evVars, rlock, notify, mainVars,
                 past>>

Starts ==
  /\ ~up /\ up' = TRUE
  /\ UNCHANGED <<service, waiting, conn, wire, answer, evVars, rlock, notify,
                 mainVars, past>>

-----------------------------------------------------------------------------
(* The event thread.                                                          *)

(* handleIPC(): the service's connection is accepted ...                       *)
EvAccept ==
  /\ evpc = "poll" /\ events # <<>>
  /\ evpc' = "read"
  /\ event' = Head(events) /\ events' = Tail(events)
  /\ UNCHANGED <<hist, call, msg, rlock, notify, mainVars, past>>

(* ... and its message may come in parts, or never, or be cut off.            *)
EvMessage ==
  /\ evpc = "read" /\ msg = "part" /\ msg' \in {"whole", "cut"}
  /\ UNCHANGED <<service, call, evpc, event, rlock, notify, mainVars, past>>

PassOn == evpc' = "call" /\ UNCHANGED past

ThrowAway ==
  /\ evpc' = "poll"
  /\ told' = event /\ unread' = unread \cup {event}

(* Fault: the end of the connection is taken for a read of nothing.           *)
EvReadOn ==
  /\ evpc = "read" /\ msg = "whole" /\ msg' = "part"
  /\ PassOn \/ ThrowAway
  /\ UNCHANGED <<service, event, call, rlock, notify, mainVars>>

(* ipcRead() ends with the whole message or the end of the connection, and    *)
(* not before.  What was cut off is thrown away, and so is in                 *)
(* handleStoragePlug() an event with the name of no disk, or of one that came *)
(* and cannot be opened; the others are passed on.                            *)
EvRead ==
  /\ evpc = "read" /\ msg \in {"whole", "cut"} /\ msg' = "part"
  /\ (msg = "whole" /\ PassOn) \/ ThrowAway
  /\ UNCHANGED <<service, event, call, rlock, notify, mainVars>>

(* usDisk_PlugCallBack(); disk_aciton_func() has nothing to do here.          *)
EvCall ==
  /\ evpc = "call" /\ rlock = "free"
  /\ notify' = TRUE /\ told' = event
  /\ evpc' = "poll"
  /\ UNCHANGED <<service, event, msg, call, rlock, mainVars, unread>>

-----------------------------------------------------------------------------
(* main().                                                                    *)

Go(from, to) == pc = from /\ pc' = to

(* Another request is served; it leaves its payload in the buffer.            *)
OtherRequest ==
  /\ pc = "idle"
  /\ disknum' \in 0..NumValues - 1
  /\ UNCHANGED <<service, call, evVars, rlock, notify, pc, req, hdr, list,
                 nodes, reply, asked, past>>

(* usStorage_notifyPlug(): a change that is pending is announced.             *)
NotifyPlug ==
  /\ pc = "idle" /\ rlock = "free"
  /\ notify /\ notify' = FALSE
  /\ UNCHANGED <<service, call, evVars, rlock, mainVars, past>>

(* usDecode_DiskLunHandle() or _DiskInfoHandle().                             *)
Call ==
  /\ Go("idle", "lock")
  /\ req' \in {"lun", "info"}
  /\ asked' = Version
  /\ UNCHANGED <<service, call, evVars, rlock, notify, hdr, list, nodes,
                 disknum, reply, past>>

Lock ==
  /\ Go("lock", "connect")
  /\ rlock = "free" /\ rlock' = "main"
  /\ UNCHANGED <<service, call, evVars, notify, req, hdr, list, nodes,
                 disknum, reply, asked, past>>

(* ipc_client_init(): connect() waits while too many calls do, and the        *)
(* timeout set before is one of read() only.                                  *)
Connect ==
  /\ Go("connect", "write")
  /\ up /\ waiting < Backlog /\ waiting' = waiting + 1
  /\ conn' = "open" /\ wire' = <<>>
  /\ UNCHANGED <<service, up, answer, evVars, rlock, notify, req, hdr, list,
                 nodes, disknum, reply, asked, past>>

(* There is no service.                                                       *)
ConnectFails ==
  /\ Go("connect", "failed")
  /\ ~up
  /\ UNCHANGED <<service, call, evVars, rlock, notify, req, hdr, list, nodes,
                 disknum, reply, asked, past>>

(* ipc_write().                                                               *)
Write ==
  /\ Go("write", "hdr")
  /\ conn = "open" /\ conn' = "asked"
  /\ UNCHANGED <<service, queue, wire, answer, evVars, rlock, notify, req,
                 hdr, list, nodes, disknum, reply, asked, past>>

WriteFails ==
  /\ Go("write", "failed")
  /\ conn = "closed" /\ conn' = "none"
  /\ UNCHANGED <<service, queue, wire, answer, evVars, rlock, notify, req,
                 hdr, list, nodes, disknum, reply, asked, past>>

(* ipc_read() of the header.                                                  *)
ReadHdr ==
  /\ pc = "hdr" /\ wire # <<>>
  /\ hdr' = Head(wire) /\ wire' = Tail(wire)
  /\ list' = <<>>
  /\ pc' = IF hdr'.len > 0 THEN "body" ELSE "check"
  /\ conn' = IF hdr'.len > 0 THEN conn ELSE "none"
  /\ UNCHANGED <<service, queue, answer, evVars, rlock, notify, req, nodes,
                 disknum, reply, asked, past>>

(* ipc_read() of the list, after which the call is closed.                    *)
ReadBody ==
  /\ Go("body", "check")
  /\ wire # <<>> /\ wire' = Tail(wire)
  /\ list' = hist[Head(wire).ver]
  /\ conn' = "none"
  /\ UNCHANGED <<service, queue, answer, evVars, rlock, notify, req, hdr,
                 nodes, disknum, reply, asked, past>>

(* Fault: the socket has no receive timeout.                                  *)
ReadFailsClosed ==
  /\ pc \in {"hdr", "body"} /\ pc' = "failed"
  /\ wire = <<>> /\ conn = "closed"
  /\ conn' = "none"
  /\ UNCHANGED <<service, queue, wire, answer, evVars, rlock, notify, req,
                 hdr, list, nodes, disknum, reply, asked, past>>

(* The call was closed, or SO_RCVTIMEO ran out; a call not yet accepted still *)
(* waits for the service, closed as it is.                                    *)
ReadFails ==
  /\ pc \in {"hdr", "body"} /\ pc' = "failed"
  /\ wire = <<>>
  /\ conn' = "none"
  /\ UNCHANGED <<service, queue, wire, answer, evVars, rlock, notify, req,
                 hdr, list, nodes, disknum, reply, asked, past>>

(* disk_getdisk_lun() and _info() look at the response.  For a DISKINFO it is *)
(* copied to the buffer, which thus holds the service's bytes.                *)
Check ==
  /\ pc = "check"
  /\ pc' = IF hdr.res = "fail" THEN "failed"
           ELSE IF req = "lun" THEN "loop"
           ELSE IF Len(list) > MaxInfo THEN "failed" ELSE "ok"
  /\ nodes' = IF pc' = "ok" THEN Devs(list) ELSE <<>>
  /\ disknum' \in IF nodes' = <<>> THEN {disknum} ELSE 0..NumValues - 1
  /\ UNCHANGED <<service, call, evVars, rlock, notify, req, hdr, list, reply,
                 asked, past>>

(* One turn of the loop over disklist: the disk is added to the reply, or     *)
(* there is no room and the list ends here.                                   *)
AddDisk(room) ==
  /\ pc = "loop" /\ list # <<>>
  /\ pc' = IF Len(nodes) < room THEN "loop" ELSE "ok"
  /\ IF pc' = "ok" THEN UNCHANGED <<list, nodes, disknum>>
     ELSE /\ nodes' = Append(nodes, Head(list).dev)
          /\ disknum' = (disknum + 1) % NumValues
          /\ list' = Tail(list)
  /\ UNCHANGED <<service, call, evVars, rlock, notify, req, hdr, reply, asked,
                 past>>

(* Fault: the state of the disk is not looked at.                             *)
ListDiskAny == AddDisk(MaxNodes)

(* Fault: the buffer is found full one node too late.                         *)
ListDiskOver == list # <<>> /\ Head(list).status = "mounted" /\ AddDisk(MaxNodes + 1)

ListDisk == list # <<>> /\ Head(list).status = "mounted" /\ AddDisk(MaxNodes)

(* A disk that is not mounted is to be passed over: "continue" goes back to   *)
(* the same disk.                                                             *)
Filter ==
  /\ pc = "loop" /\ list # <<>>
  /\ Head(list).status # "mounted"
  /\ UNCHANGED vars

ListEnd ==
  /\ Go("loop", "ok")
  /\ list = <<>>
  /\ UNCHANGED <<service, call, evVars, rlock, notify, req, hdr, list, nodes,
                 disknum, reply, asked, past>>

(* The lock is given back and the app has its reply.  The size of a DISKINFO  *)
(* reply counts the service's header, which is not copied.                    *)
Return(ok) ==
  /\ pc' = "idle" /\ rlock' = "free"
  /\ reply' = [req |-> req, ok |-> ok, num |-> disknum,
               len |-> IF ok /\ req = "info" THEN Len(nodes) + 1
                       ELSE IF ok THEN Len(nodes) ELSE 0,
               nodes |-> IF ok THEN nodes ELSE <<>>, ver |-> hdr.ver, since |-> asked]
  /\ hdr' = NoHeader /\ list' = <<>> /\ nodes' = <<>>
  /\ UNCHANGED <<service, call, evVars, req, disknum, asked, past>>

(* Fault: the pending notification is cancelled whatever the result.          *)
UnlockCancelling ==
  /\ pc \in {"ok", "failed"}
  /\ notify' = FALSE
  /\ Return(pc = "ok")

(* The end of usDisk_diskLun() or _diskInfo(): a result cancels the pending   *)
(* notification.                                                              *)
Unlock ==
  /\ pc \in {"ok", "failed"}
  /\ notify' = (notify /\ pc = "failed")
  /\ Return(pc = "ok")

Main == \/ Lock \/ Connect \/ ConnectFails \/ Write \/ WriteFails
        \/ ReadHdr \/ ReadBody \/ ReadFails \/ Check
        \/ ListDisk \/ Filter \/ ListEnd \/ Unlock

Next == \/ Change \/ Accept \/ Answer \/ AnswerBody \/ Drops \/ Dies \/ Starts
        \/ EvAccept \/ EvMessage \/ EvRead \/ EvCall
        \/ OtherRequest \/ NotifyPlug \/ Call \/ Main

Spec == Init /\ [][Next]_vars

(* main() never stops by itself; the event thread, when it waits for rlock,   *)
(* gets it if main() gives it back again and again.  Of the service nothing   *)
(* is assumed.                                                                *)
FairSpec == Spec /\ WF_vars(Main) /\ WF_vars(EvRead) /\ SF_vars(EvCall)

-----------------------------------------------------------------------------
(* A DISKLUN reply holds the mounted disks, in order and cut to the buffer,   *)
(* and a DISKINFO reply all disks, of one list that the service had between   *)
(* the request and the reply: never a mix, nor the answer to an older call.   *)
(* (at says where in that list the nodes come from.)                          *)
Shown(l) == {k \in DOMAIN l : reply.req = "lun" => l[k].status = "mounted"}

ListExact ==
  reply.ok =>
    LET l == hist[reply.ver]
        n == Len(reply.nodes)
    IN /\ reply.ver >= reply.since
       /\ \E at \in [1..n -> Shown(l)] :
            /\ \A i \in 1..n : l[at[i]].dev = reply.nodes[i]
            /\ \A i, j \in 1..n : i < j => at[i] < at[j]
            /\ \A k \in Shown(l) :
                 \/ \E i \in 1..n : at[i] = k
                 \/ reply.req = "lun" /\ n = MaxNodes /\ \A i \in 1..n : at[i] < k

(* A call that is taken apart keeps the promise about disk changes that main()*)
(* and the event thread make (DiskNews): the list is the one the service had  *)
(* when it answered, nothing is recorded while the call lasts, and neither a  *)
(* failed call nor one that overlaps with an event loses the notification.    *)
News == INSTANCE DiskNews WITH
  disk      <- Version,
  listening <- TRUE,
  unread    <- unread,
  recorded  <- told,
  pending   <- notify,
  busy      <- rlock = "main",
  snap      <- IF pc \in {"body", "check", "loop", "ok"} THEN hdr.ver
               ELSE IF pc = "hdr" /\ wire # <<>> THEN Head(wire).ver
               ELSE -1

ImplementsNews == News!Spec

(* Whatever the service does (it may be slow, silent or dead), a request is   *)
(* answered, save for the loop that stays at a disk which is not mounted and  *)
(* for connect(), which stays while the service is there and accepts nothing. *)
Spins == pc = "loop" /\ list # <<>> /\ Head(list).status # "mounted"

Stuck == pc = "connect" /\ up /\ waiting = Backlog

CallAnswered == <>[]Stuck \/ (pc = "lock" ~> pc = "idle" \/ Spins)

(* The event thread, on which the phone's departure waits as well, works an   *)
(* event off while main() has its calls.  What keeps it for good is a service *)
(* that neither finishes its message nor closes, since ipcRead() has no       *)
(* timeout, or a call that does not return (see above), since it needs rlock. *)
Silent == evpc = "read" /\ msg = "part"

EventProceeds == <>[]Silent \/ <>[]Stuck \/ (evpc # "poll" ~> evpc = "poll" \/ Spins)

(* "Set socket timeout to 60s": a call does not wait for ever to be connected. *)
CallTimesOut == pc = "connect" ~> pc # "connect"

(* "Filter Not mounted disk": such a disk is passed over, and the call        *)
(* returns.                                                                   *)
CallReturns == pc = "lock" ~> pc = "idle"

(* protocol.h on disknum: "disk number".                                      *)
DiskNumExact == reply.ok /\ reply.req = "lun" => reply.num = Len(reply.nodes)

(* protocol.h on len: "payload length".                                       *)
PayloadLength == reply.len = Len(reply.nodes)
=============================================================================
