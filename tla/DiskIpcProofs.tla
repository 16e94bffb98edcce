--------------------------- MODULE DiskIpcProofs ---------------------------
(***************************************************************************)
(* What DiskIpc does for any disks, any list of them and any size of the   *)
(* reply buffer: its types, that a reply shows one list of the service,    *)
(* and that a call taken apart keeps the promise of DiskNews.              *)
(***************************************************************************)
EXTENDS DiskIpc, SequenceTheorems, TLAPS

-----------------------------------------------------------------------------
(* The strengthening.                                                       *)

(* rlock is held from Lock to Unlock.                                       *)
LockSpan == rlock = "main" <=> pc \notin {"idle", "lock"}

(* Events come in the order of the changes, one for each.                   *)
Read == IF evpc = "poll" THEN told ELSE told + 1

EventOrder ==
  /\ evpc # "poll" => event = Read
  /\ \A i \in DOMAIN events : events[i] = Read + i
  /\ Read + Len(events) = Version

(* A header of the call: its list is one that the service, whose lists are  *)
(* lists, has had since the since-th.                                       *)
HeaderFits(h, since, lists) ==
  /\ h \in Header
  /\ since <= h.ver /\ h.ver <= Len(lists)
  /\ h.len = IF h.res = "ok" THEN Len(lists[h.ver]) ELSE 0

(* What is on the wire is the answer to this call, in order.                *)
WireFits ==
  /\ asked <= Version
  /\ pc \notin {"write", "hdr", "body"} => conn = "none"
  /\ pc = "write" => conn \in {"open", "closed"} /\ wire = <<>>
  /\ pc = "hdr" =>
       \/ wire = <<>> /\ conn \in {"asked", "closed"}
       \/ /\ Len(wire) = 1 /\ HeaderFits(wire[1], asked, hist)
          /\ \/ conn = "answering" /\ wire[1].len > 0 /\ answer = wire[1].ver
             \/ conn = "done" /\ wire[1].len = 0
             \/ conn = "closed"
       \/ /\ Len(wire) = 2 /\ HeaderFits(wire[1], asked, hist) /\ wire[1].len > 0
          /\ wire[2].ver = wire[1].ver
          /\ conn = "done"
  /\ pc = "body" =>
       /\ HeaderFits(hdr, asked, hist) /\ hdr.len > 0
       /\ \/ wire = <<>> /\ conn = "answering" /\ answer = hdr.ver
          \/ wire = <<>> /\ conn \in {"closed", "done"}
          \/ Len(wire) = 1 /\ wire[1].ver = hdr.ver /\ conn = "done"
  /\ pc = "check" =>
       HeaderFits(hdr, asked, hist) /\ list = IF hdr.res = "ok" THEN hist[hdr.ver] ELSE <<>>

(* The nodes written so far are the first disks of that list, all of them   *)
(* mounted; the loop has the rest before it.                                *)
Gathered ==
  pc \in {"loop", "ok"} =>
    LET l == hist[hdr.ver]
        n == Len(nodes)
    IN /\ asked <= hdr.ver /\ hdr.ver <= Version
       /\ pc = "loop" => req = "lun"
       /\ \A i \in 1..n : i \in DOMAIN l /\ nodes[i] = l[i].dev
       /\ req = "info" => n = Len(l)
       /\ req = "lun" =>
            /\ \A i \in 1..n : l[i].status = "mounted"
            /\ Len(list) = Len(l) - n
            /\ \A i \in 1..Len(l) - n : list[i] = l[n + i]
            /\ pc = "ok" => list = <<>> \/ n = MaxNodes

(* A header and a reply are of a list that the service had.                 *)
ReplyKnown == hdr.ver <= Version /\ reply.ver <= Version

(* Each request starts with an empty reply buffer.                          *)
Fresh == pc \notin {"loop", "ok"} => nodes = <<>>

IInv == /\ TypeOK /\ LockSpan /\ EventOrder /\ WireFits /\ Fresh /\ Gathered /\ ReplyKnown
        /\ ListExact

-----------------------------------------------------------------------------
(* Sequences and numbers.                                                   *)

LEMMA Bounds ==
  /\ MaxNodes \in Nat /\ MaxInfo \in Nat /\ MaxChanges \in Nat
  /\ Backlog \in Nat /\ Backlog > 0
  /\ NumValues \in Nat /\ NumValues > 0
BY DiskIpcAssumption

LEMMA AppendAt ==
  ASSUME NEW S, NEW s \in Seq(S), NEW e \in S
  PROVE  /\ Append(s, e) \in Seq(S)
         /\ Len(Append(s, e)) = Len(s) + 1 /\ Len(s) \in Nat
         /\ \A i \in 1..Len(s) : Append(s, e)[i] = s[i]
         /\ Append(s, e)[Len(s) + 1] = e
OBVIOUS

LEMMA TailAt ==
  ASSUME NEW S, NEW s \in Seq(S), s # <<>>
  PROVE  /\ Head(s) \in S /\ Head(s) = s[1]
         /\ Tail(s) \in Seq(S) /\ Len(Tail(s)) = Len(s) - 1 /\ Len(s) \in Nat \ {0}
         /\ \A i \in 1..Len(s) - 1 : Tail(s)[i] = s[i + 1]
OBVIOUS

LEMMA RemoveAtType ==
  ASSUME NEW S, NEW s \in Seq(S), NEW i \in DOMAIN s
  PROVE  RemoveAt(s, i) \in Seq(S)
<1>1. i \in Nat /\ Len(s) \in Nat /\ 1 <= i /\ i <= Len(s)
  OBVIOUS
<1>2. SubSeq(s, 1, i - 1) \in Seq(S) /\ SubSeq(s, i + 1, Len(s)) \in Seq(S)
  BY <1>1
<1> QED BY <1>2, ConcatProperties DEF RemoveAt

(* disknum is counted modulo the width of an int16.                         *)
LEMMA Modulo ==
  ASSUME NEW d \in Int
  PROVE  d % NumValues \in 0..NumValues - 1
BY Bounds

(* The lists of the service so far stay as they are.                        *)
LEMMA HistGrows ==
  ASSUME TypeOK, Change
  PROVE  /\ hist' \in Seq(Seq(Entry))
         /\ Version' = Version + 1 /\ Version \in Nat
         /\ \A v \in 1..Version : hist'[v] = hist[v]
<1>1. /\ hist \in Seq(Seq(Entry)) /\ Version \in Nat /\ Version >= 1
  BY DEF TypeOK, Version, Versions
<1>2. hist[Version] \in Seq(Entry)
  BY <1>1 DEF Version
<1>3. \E l \in Seq(Entry) : hist' = Append(hist, l)
  <2> DEFINE l == hist[Version]
  <2>1. CASE \E d \in Disks, s \in Statuses :
               hist' = Append(hist, Append(l, [dev |-> d, status |-> s]))
    <3>1. PICK d \in Disks, s \in Statuses :
                 hist' = Append(hist, Append(l, [dev |-> d, status |-> s]))
      BY <2>1
    <3>2. [dev |-> d, status |-> s] \in Entry
      BY DEF Entry
    <3> HIDE DEF l
    <3>3. Append(l, [dev |-> d, status |-> s]) \in Seq(Entry)
      BY <3>2, <1>2, AppendAt DEF l
    <3> QED BY <3>1, <3>3, Zenon
  <2>2. ASSUME NEW i \in DOMAIN l
        PROVE  RemoveAt(l, i) \in Seq(Entry) /\ l[i].dev \in Disks
    <3>1. RemoveAt(l, i) \in Seq(Entry)
      BY <1>2, RemoveAtType, Zenon
    <3>2. l[i] \in Entry
      BY <1>2
    <3> QED BY <3>1, <3>2 DEF Entry
  <2>3. CASE \E i \in DOMAIN l : hist' = Append(hist, RemoveAt(l, i))
    BY <2>2, <2>3, Zenon
  <2>4. CASE \E i \in DOMAIN l, s \in Statuses :
               hist' = Append(hist, Append(RemoveAt(l, i), [dev |-> l[i].dev, status |-> s]))
    <3>1. PICK i \in DOMAIN l, s \in Statuses :
            hist' = Append(hist, Append(RemoveAt(l, i), [dev |-> l[i].dev, status |-> s]))
      BY <2>4
    <3> DEFINE o == RemoveAt(l, i)
               e == [dev |-> l[i].dev, status |-> s]
    <3>2. o \in Seq(Entry) /\ e \in Entry
      BY <2>2 DEF Entry
    <3>3. hist' = Append(hist, Append(o, e))
      BY <3>1
    <3> HIDE DEF o, e, l
    <3>4. Append(o, e) \in Seq(Entry)
      BY <3>2, AppendAt
    <3> QED BY <3>3, <3>4, Zenon
  <2> QED BY <2>1, <2>3, <2>4, Zenon DEF Change
<1>4. PICK l \in Seq(Entry) : hist' = Append(hist, l)
  BY <1>3
<1>5. \A v \in 1..Version : hist'[v] = hist[v]
  BY <1>1, <1>4, AppendAt DEF Version
<1>6. hist' \in Seq(Seq(Entry)) /\ Len(hist') = Version + 1
  BY <1>1, <1>4, AppendAt DEF Version
<1> QED BY <1>1, <1>5, <1>6 DEF Version

-----------------------------------------------------------------------------
(* Types.                                                                   *)

LEMMA EntryAt ==
  ASSUME NEW l \in Seq(Entry)
  PROVE  \A i \in 1..Len(l) : l[i] \in Entry /\ l[i].dev \in Disks
<1>1. \A i \in 1..Len(l) : l[i] \in Entry
  OBVIOUS
<1>2. \A e \in Entry : e.dev \in Disks
  BY DEF Entry
<1> QED BY <1>1, <1>2, Zenon

LEMMA DevsType ==
  ASSUME NEW l \in Seq(Entry)
  PROVE  /\ Devs(l) \in Seq(Disks) /\ Len(Devs(l)) = Len(l) /\ Len(l) \in Nat
         /\ \A i \in 1..Len(l) : Devs(l)[i] = l[i].dev
<1>1. Len(l) \in Nat /\ DOMAIN l = 1..Len(l)
  OBVIOUS
<1>2. Devs(l) = [i \in 1..Len(l) |-> l[i].dev]
  BY <1>1 DEF Devs
<1>3. Devs(l) \in [1..Len(l) -> Disks]
  BY <1>2, EntryAt
<1> QED BY <1>1, <1>2, <1>3

LEMMA TypeInit == Init => TypeOK
<1> SUFFICES ASSUME Init PROVE TypeOK
  OBVIOUS
<1>1. 1 \in Versions /\ 0 \in 0..NumValues - 1
  BY Bounds DEF Versions
<1>2. hist \in Seq(Seq(Entry)) /\ Len(hist) \in Versions
  <2>1. <<>> \in Seq(Entry)
    OBVIOUS
  <2> DEFINE e == <<>>
             S == Seq(Entry)
  <2>2. e \in S /\ hist = <<e>>
    BY <2>1 DEF Init
  <2> HIDE DEF e, S
  <2>3. hist \in Seq(S) /\ Len(hist) = 1
    BY <2>2
  <2> QED BY <2>3, <1>1 DEF S
<1>3. /\ events \in Seq(Versions) /\ wire \in Seq(Header \cup Body)
      /\ list \in Seq(Entry) /\ nodes \in Seq(Disks) /\ Len(nodes) = 0
  BY EmptySeq DEF Init
<1>4. hdr \in Header
  BY <1>1 DEF Init, NoHeader, Header
<1>5. reply \in Reply
  BY <1>1, EmptySeq DEF Init, NoReply, Reply
<1>6. /\ disknum \in 0..NumValues - 1 /\ {asked, told} \subseteq Versions /\ unread \subseteq Versions
      /\ waiting \in 0..Backlog /\ up \in BOOLEAN
      /\ answer \in Versions /\ event \in Versions
  BY <1>1, Bounds DEF Init
<1>7. Len(nodes) <= IF req = "lun" THEN MaxNodes ELSE MaxInfo
  BY <1>3, Bounds
<1>8. pc \in Steps /\ msg \in {"part", "whole", "cut"} /\ req \in {"lun", "info"}
  BY DEF Init, Steps
<1>9. /\ conn \in {"none", "open", "asked", "answering", "done", "closed"}
      /\ evpc \in {"poll", "read", "call"}
      /\ rlock \in {"free", "main"} /\ notify \in BOOLEAN
  BY DEF Init
<1> QED BY <1>2, <1>3, <1>4, <1>5, <1>6, <1>7, <1>8, <1>9, Zenon DEF TypeOK

(* The parts of TypeOK that actions keep together.                          *)
ServiceType == hist \in Seq(Seq(Entry)) /\ Len(hist) \in Versions /\ events \in Seq(Versions)
CallType == /\ up \in BOOLEAN /\ waiting \in 0..Backlog
            /\ conn \in {"none", "open", "asked", "answering", "done", "closed"}
            /\ wire \in Seq(Header \cup Body) /\ answer \in Versions
EvType == evpc \in {"poll", "read", "call"} /\ event \in Versions /\ msg \in {"part", "whole", "cut"}
LockType == rlock \in {"free", "main"} /\ notify \in BOOLEAN
MainType == pc \in Steps /\ req \in {"lun", "info"} /\ hdr \in Header /\ list \in Seq(Entry)
NodesType == /\ nodes \in Seq(Disks) /\ Len(nodes) <= IF req = "lun" THEN MaxNodes ELSE MaxInfo
             /\ disknum \in 0..NumValues - 1
PastType == /\ reply \in Reply /\ asked \in Versions /\ told \in Versions
            /\ unread \subseteq Versions

LEMMA TypeParts ==
  TypeOK <=> /\ ServiceType /\ CallType /\ EvType /\ LockType
             /\ MainType /\ NodesType /\ PastType
<1>1. {asked, told} \subseteq Versions <=> asked \in Versions /\ told \in Versions
  OBVIOUS
<1> QED BY <1>1, Zenon
        DEF TypeOK, ServiceType, CallType, EvType, LockType, MainType, NodesType, PastType

(* An action that leaves a part alone keeps its types.                      *)
LEMMA TypeSame ==
  /\ UNCHANGED <<hist, events>> /\ ServiceType => ServiceType'
  /\ UNCHANGED <<up, waiting, conn, wire, answer>> /\ CallType => CallType'
  /\ UNCHANGED <<evpc, event, msg>> /\ EvType => EvType'
  /\ UNCHANGED <<rlock, notify>> /\ LockType => LockType'
  /\ UNCHANGED <<req, hdr, list>> /\ pc' \in Steps /\ MainType => MainType'
  /\ UNCHANGED <<nodes, req, disknum>> /\ NodesType => NodesType'
  /\ UNCHANGED <<reply, asked, told, unread>> /\ PastType => PastType'
BY DEF ServiceType, CallType, EvType, LockType, MainType, NodesType, PastType

LEMMA TypeService ==
  ASSUME TypeOK, Change \/ Accept \/ Answer \/ AnswerBody \/ Drops \/ Dies \/ Starts
  PROVE  TypeOK'
<1>1. UNCHANGED <<evpc, event, msg, rlock, notify, pc, req, hdr, list, nodes, disknum,
                  reply, asked, told, unread>>
  BY DEF Change, Accept, Answer, AnswerBody, Drops, Dies, Starts, service, queue, call, evVars, mainVars, past
<1>2. /\ ServiceType /\ CallType /\ EvType /\ LockType /\ MainType /\ NodesType /\ PastType
      /\ pc \in Steps
  BY TypeParts DEF MainType
<1>3. EvType' /\ LockType' /\ MainType' /\ NodesType' /\ PastType'
  BY <1>1, <1>2, TypeSame
<1>4. ServiceType' /\ CallType' => TypeOK'
  BY <1>3, TypeParts, PTL
<1>5. /\ Version \in Nat /\ Version \in Versions /\ Len(hist[Version]) \in Nat
      /\ wire \in Seq(Header \cup Body) /\ answer \in Versions /\ events \in Seq(Versions)
  BY <1>2 DEF ServiceType, CallType, Versions, Version
<1>6. CASE Change
  <2>1. /\ hist' \in Seq(Seq(Entry)) /\ Version' = Version + 1 /\ Version <= MaxChanges
    BY <1>6, HistGrows DEF Change
  <2>2. Len(hist') \in Versions
    BY <2>1, <1>5, Bounds DEF Version, Versions
  <2>3. events' \in Seq(Versions)
    BY <1>6, <2>2, <1>5, AppendAt DEF Change
  <2>4. CallType'
    BY <1>2, <1>6, TypeSame DEF Change, call, queue
  <2> QED BY <2>1, <2>2, <2>3, <2>4, <1>4 DEF ServiceType
<1>7. CASE Answer
  <2>1. PICK res \in {"ok", "fail"} :
          LET len == IF res = "ok" THEN Len(hist[Version]) ELSE 0
          IN /\ wire' = Append(wire, [res |-> res, len |-> len, ver |-> Version])
             /\ conn' = IF len > 0 THEN "answering" ELSE "done"
    BY <1>7 DEF Answer
  <2> DEFINE h == [res |-> res, len |-> IF res = "ok" THEN Len(hist[Version]) ELSE 0,
                   ver |-> Version]
  <2>2. h \in Header \cup Body
    BY <1>5 DEF Header
  <2>3. wire' = Append(wire, h)
    BY <2>1
  <2> HIDE DEF h
  <2>4. wire' \in Seq(Header \cup Body)
    BY <2>2, <2>3, <1>5, AppendAt
  <2>5. conn' \in {"answering", "done"} /\ answer' \in Versions
    BY <1>5, <1>7 DEF Answer
  <2>6. ServiceType'
    BY <1>2, <1>7, TypeSame DEF Answer, service
  <2> QED BY <1>2, <1>7, <2>4, <2>5, <2>6, <1>4 DEF CallType, Answer, queue
<1>8. CASE AnswerBody
  <2> DEFINE b == [res |-> "body", len |-> 0, ver |-> answer]
  <2>1. b \in Header \cup Body
    BY <1>5 DEF Body
  <2>2. wire' = Append(wire, b)
    BY <1>8 DEF AnswerBody
  <2> HIDE DEF b
  <2>3. wire' \in Seq(Header \cup Body)
    BY <2>1, <2>2, <1>5, AppendAt
  <2>4. ServiceType'
    BY <1>2, <1>8, TypeSame DEF AnswerBody, service
  <2> QED BY <1>2, <1>8, <2>3, <2>4, <1>4 DEF AnswerBody, CallType, queue
<1>9. CASE Accept \/ Drops \/ Dies \/ Starts
  <2>1. ServiceType'
    BY <1>2, <1>9, TypeSame DEF Accept, Drops, Dies, Starts, service
  <2>2. CallType'
    <3>1. /\ up' \in BOOLEAN /\ waiting' \in 0..Backlog /\ UNCHANGED <<wire, answer>>
      <4>1. waiting \in 0..Backlog /\ up \in BOOLEAN
        BY <1>2 DEF CallType
      <4>2. CASE Accept
        <5>1. waiting > 0 /\ waiting' = waiting - 1 /\ UNCHANGED <<up, wire, answer>>
          BY <4>2 DEF Accept
        <5> QED BY <4>1, <5>1, Bounds
      <4>3. CASE Drops
        BY <4>1, <4>3 DEF Drops, queue
      <4>4. CASE Dies
        <5>1. up' = FALSE /\ waiting' = 0 /\ UNCHANGED <<wire, answer>>
          BY <4>4 DEF Dies
        <5>2. 0 \in 0..Backlog
          BY Bounds
        <5> QED BY <5>1, <5>2, Zenon
      <4>5. CASE Starts
        <5>1. up' = TRUE /\ UNCHANGED <<waiting, wire, answer>>
          BY <4>5 DEF Starts
        <5> QED BY <4>1, <5>1, Zenon
      <4> QED BY <1>9, <4>2, <4>3, <4>4, <4>5
    <3>2. conn' = conn \/ conn' = "closed"
      BY <1>9 DEF Accept, Drops, Dies, Starts, queue
    <3> QED BY <1>2, <3>1, <3>2 DEF CallType
  <2> QED BY <2>1, <2>2, <1>4
<1> QED BY <1>6, <1>7, <1>8, <1>9

LEMMA TypeEvents ==
  ASSUME TypeOK, EvAccept \/ EvMessage \/ EvRead \/ EvCall \/ OtherRequest \/ NotifyPlug
  PROVE  TypeOK'
<1>1. /\ UNCHANGED <<hist, up, waiting, conn, wire, answer, pc, req, hdr, list, nodes, reply, asked>>
      /\ events' = events \/ (events # <<>> /\ events' = Tail(events) /\ event' = Head(events))
      /\ event' = event \/ (events # <<>> /\ event' = Head(events))
      /\ evpc' \in {"poll", "read", "call"} /\ msg' \in {"part", "whole", "cut"}
      /\ rlock' \in {"free", "main"} /\ notify' \in BOOLEAN
      /\ told' = told \/ told' = event
      /\ unread' = unread \/ unread' = unread \cup {event}
      /\ disknum' \in 0..NumValues - 1
  BY DEF EvAccept, EvMessage, EvRead, PassOn, ThrowAway, EvCall, OtherRequest, NotifyPlug, TypeOK,
     service, queue, call, evVars, mainVars, past
<1>2. /\ ServiceType /\ CallType /\ EvType /\ LockType /\ MainType /\ NodesType /\ PastType
      /\ pc \in Steps
  BY TypeParts DEF MainType
<1>3. CallType' /\ MainType'
  BY <1>1, <1>2, TypeSame
<1>4. events # <<>> => Head(events) \in Versions /\ Tail(events) \in Seq(Versions)
  BY <1>2, TailAt DEF ServiceType
<1>5. ServiceType' /\ EvType'
  BY <1>1, <1>2, <1>4 DEF ServiceType, EvType
<1>6. LockType' /\ NodesType' /\ PastType'
  BY <1>1, <1>2 DEF LockType, NodesType, PastType, EvType
<1> QED BY <1>3, <1>5, <1>6, TypeParts, PTL

LEMMA TypeMain ==
  ASSUME TypeOK, WireFits, Fresh, Gathered, Call \/ Main
  PROVE  TypeOK'
<1> USE DEF service, queue, call, evVars, mainVars, past
<1>1. UNCHANGED <<hist, events, evpc, event, msg, told, unread>>
  BY DEF Call, Main, Lock, Connect, ConnectFails, Write, WriteFails, ReadHdr, ReadBody,
     ReadFails, Check, ListDisk, AddDisk, Filter, ListEnd, Unlock, Return, vars
<1>2. /\ ServiceType /\ CallType /\ EvType /\ LockType /\ MainType /\ NodesType /\ PastType
      /\ pc \in Steps
  BY TypeParts DEF MainType
<1>3. ServiceType' /\ EvType'
  BY <1>1, <1>2, TypeSame
<1>4. CallType' /\ LockType' /\ MainType' /\ NodesType' /\ PastType' => TypeOK'
  BY <1>3, TypeParts, PTL
<1>5. /\ Version \in Versions /\ asked \in Versions /\ told \in Versions
      /\ NoHeader \in Header /\ <<>> \in Seq(Entry) /\ <<>> \in Seq(Disks)
      /\ wire # <<>> => Tail(wire) \in Seq(Header \cup Body)
  <2>1. Version \in Versions /\ asked \in Versions /\ told \in Versions /\ 1 \in Versions
    BY <1>2, Bounds DEF ServiceType, PastType, Version, Versions
  <2>2. wire # <<>> => Tail(wire) \in Seq(Header \cup Body)
    BY <1>2, TailAt DEF CallType
  <2> QED BY <2>1, <2>2, EmptySeq DEF NoHeader, Header
<1>6. CASE Call
  <2>1. CallType' /\ LockType' /\ PastType'
    BY <1>1, <1>2, <1>5, <1>6 DEF Call, CallType, LockType, PastType
  <2>2. MainType'
    BY <1>2, <1>6 DEF Call, Go, MainType, Steps
  <2>3. nodes = <<>> /\ nodes' = nodes /\ Len(<<>>) = 0
    BY <1>6, EmptySeq DEF Call, Go, Fresh
  <2>4. NodesType'
    BY <1>2, <1>6, <2>3, Bounds DEF Call, NodesType
  <2> QED BY <2>1, <2>2, <2>4, <1>4
<1>7. CASE Lock \/ Connect \/ ConnectFails \/ Write \/ WriteFails \/ ReadFails \/ ListEnd \/ Filter
  <2>1. UNCHANGED <<req, hdr, list, nodes, disknum, reply, asked>> /\ pc' \in Steps
    BY <1>2, <1>7 DEF Lock, Connect, ConnectFails, Write, WriteFails, ReadFails, ListEnd,
       Filter, Go, Steps, vars
  <2>2. MainType' /\ NodesType' /\ PastType'
    BY <1>1, <1>2, <2>1, TypeSame
  <2>3. CallType'
    <3>1. CASE Connect
      <4>1. <<>> \in Seq(Header \cup Body)
        BY EmptySeq
      <4>2. up' \in BOOLEAN /\ waiting' \in 0..Backlog
        BY <1>2, <3>1, Bounds DEF Connect, CallType
      <4> QED BY <1>2, <3>1, <4>1, <4>2 DEF Connect, CallType
    <3>2. CASE ~Connect
      BY <1>2, <1>7, <3>2 DEF Lock, ConnectFails, Write, WriteFails, ReadFails, ListEnd,
         Filter, vars, CallType
    <3> QED BY <3>1, <3>2
  <2>4. LockType'
    BY <1>2, <1>7 DEF Lock, Connect, ConnectFails, Write, WriteFails, ReadFails, ListEnd,
       Filter, vars, LockType
  <2> QED BY <2>2, <2>3, <2>4, <1>4
<1>8. CASE ReadHdr
  <2>1. hdr' \in Header
    <3>1. wire # <<>> /\ pc = "hdr" /\ hdr' = Head(wire)
      BY <1>8 DEF ReadHdr
    <3>2. HeaderFits(wire[1], asked, hist)
      BY <3>1 DEF WireFits
    <3>3. Head(wire) = wire[1]
      BY <3>1, <1>2, TailAt DEF CallType
    <3> QED BY <3>1, <3>2, <3>3 DEF HeaderFits
  <2>2. MainType'
    BY <1>2, <1>5, <1>8, <2>1 DEF ReadHdr, MainType, Steps
  <2>3. CallType'
    BY <1>2, <1>5, <1>8 DEF ReadHdr, CallType
  <2>4. NodesType' /\ PastType' /\ LockType'
    BY <1>1, <1>2, <1>8, TypeSame DEF ReadHdr
  <2> QED BY <2>2, <2>3, <2>4, <1>4
<1>9. CASE ReadBody
  <2>1. list' \in Seq(Entry)
    <3>1. wire # <<>> /\ pc = "body" /\ list' = hist[Head(wire).ver]
      BY <1>9 DEF ReadBody, Go
    <3>2. Head(wire) = wire[1]
      BY <3>1, <1>2, TailAt DEF CallType
    <3>3. wire[1].ver = hdr.ver /\ hdr.ver <= Version /\ hdr.ver \in Versions
      BY <3>1, <1>2 DEF WireFits, HeaderFits, MainType, Header, Version
    <3>4. hdr.ver \in 1..Len(hist)
      BY <3>3 DEF Versions, Version
    <3> QED BY <3>1, <3>2, <3>3, <3>4, <1>2 DEF ServiceType
  <2>2. MainType'
    BY <1>2, <1>9, <2>1 DEF ReadBody, Go, MainType, Steps
  <2>3. CallType'
    BY <1>2, <1>5, <1>9 DEF ReadBody, CallType
  <2>4. NodesType' /\ PastType' /\ LockType'
    BY <1>1, <1>2, <1>9, TypeSame DEF ReadBody
  <2> QED BY <2>2, <2>3, <2>4, <1>4
<1>10. CASE Check
  <2>1. UNCHANGED <<up, waiting, conn, wire, answer, rlock, notify, req, hdr, list, reply, asked>> /\ pc' \in Steps
    BY <1>10 DEF Check, Steps
  <2>2. MainType' /\ CallType' /\ LockType' /\ PastType'
    BY <1>1, <1>2, <2>1, TypeSame
  <2>3. disknum' \in 0..NumValues - 1
    BY <1>2, <1>10 DEF Check, NodesType
  <2>4. nodes' \in Seq(Disks) /\ Len(nodes') <= IF req = "lun" THEN MaxNodes ELSE MaxInfo
    <3>1. CASE nodes' = <<>>
      BY <3>1, Bounds, EmptySeq
    <3>2. CASE nodes' = Devs(list) /\ req # "lun" /\ Len(list) <= MaxInfo
      BY <1>2, <3>2, DevsType DEF MainType
    <3>3. Len(list) \in Nat
      BY <1>2 DEF MainType
    <3> QED BY <1>10, <3>1, <3>2, <3>3, Bounds DEF Check
  <2>5. NodesType'
    BY <2>1, <2>3, <2>4 DEF NodesType
  <2> QED BY <2>2, <2>5, <1>4
<1>11. CASE ListDisk
  <2>1. UNCHANGED <<up, waiting, conn, wire, answer, rlock, notify, req, hdr, reply, asked>> /\ pc' \in Steps
    BY <1>11 DEF ListDisk, AddDisk, Steps
  <2>2. CallType' /\ LockType' /\ PastType'
    BY <1>1, <1>2, <2>1, TypeSame
  <2>3. list # <<>> /\ list \in Seq(Entry) /\ nodes \in Seq(Disks) /\ Len(nodes) \in Nat
    BY <1>2, <1>11 DEF ListDisk, MainType, NodesType
  <2>4. Tail(list) \in Seq(Entry) /\ Head(list).dev \in Disks
    <3>1. Head(list) \in Entry
      BY <2>3, TailAt
    <3> QED BY <2>3, <3>1, TailAt DEF Entry
  <2>5. MainType'
    BY <1>2, <1>11, <2>1, <2>4 DEF ListDisk, AddDisk, MainType
  <2>6. NodesType'
    <3>1. CASE UNCHANGED <<nodes, disknum>>
      BY <1>2, <2>1, <3>1 DEF NodesType
    <3>2. CASE /\ nodes' = Append(nodes, Head(list).dev) /\ Len(nodes) < MaxNodes
               /\ disknum' = (disknum + 1) % NumValues
      <4>1. nodes' \in Seq(Disks) /\ Len(nodes') = Len(nodes) + 1
        BY <2>3, <2>4, <3>2, AppendAt
      <4>2. disknum' \in 0..NumValues - 1
        BY <1>2, <3>2, Modulo, Bounds DEF NodesType
      <4>3. req = "lun"
        BY <1>11 DEF ListDisk, AddDisk, Gathered
      <4>4. Len(nodes') <= MaxNodes
        BY <2>3, <3>2, <4>1, Bounds
      <4> QED BY <2>1, <4>1, <4>2, <4>3, <4>4 DEF NodesType
    <3> QED BY <1>11, <3>1, <3>2 DEF ListDisk, AddDisk
  <2> QED BY <2>2, <2>5, <2>6, <1>4
<1>12. CASE Unlock
  <2>1. PICK ok \in BOOLEAN : Return(ok) /\ notify' = (notify /\ pc = "failed")
    <3>1. (pc = "ok") \in BOOLEAN /\ Return(pc = "ok") /\ notify' = (notify /\ pc = "failed")
      BY <1>12 DEF Unlock
    <3> DEFINE ok == pc = "ok"
    <3> HIDE DEF ok
    <3>2. ok \in BOOLEAN /\ Return(ok) /\ notify' = (notify /\ pc = "failed")
      BY <3>1, Zenon DEF ok
    <3> QED BY <3>2, Zenon
  <2>2. UNCHANGED <<up, waiting, conn, wire, answer, req, disknum, asked, told>>
    BY <2>1 DEF Return
  <2>3. CallType'
    BY <1>2, <2>2, TypeSame
  <2>4. LockType'
    BY <2>1 DEF Return, LockType
  <2>5. MainType'
    BY <1>2, <1>5, <2>1, <2>2 DEF Return, MainType, Steps
  <2>6. NodesType'
    <3>1. nodes' = <<>> /\ Len(<<>>) = 0
      BY <2>1, EmptySeq DEF Return
    <3> QED BY <1>2, <1>5, <2>2, <3>1, Bounds DEF NodesType
  <2>7. PastType'
    <3>1. /\ req \in {"none", "lun", "info"} /\ disknum \in 0..NumValues - 1
          /\ hdr.ver \in Versions /\ asked \in Versions /\ Len(nodes) \in Nat
          /\ nodes \in Seq(Disks)
      BY <1>2, <1>5 DEF MainType, NodesType, Header
    <3> DEFINE len == IF ok /\ req = "info" THEN Len(nodes) + 1 ELSE IF ok THEN Len(nodes) ELSE 0
               n == IF ok THEN nodes ELSE <<>>
    <3>2. len \in Nat /\ n \in Seq(Disks)
      BY <3>1, EmptySeq
    <3>3. reply' = [req |-> req, ok |-> ok, num |-> disknum, len |-> len, nodes |-> n,
                    ver |-> hdr.ver, since |-> asked]
      BY <2>1 DEF Return
    <3> HIDE DEF len, n
    <3>4. reply' \in Reply
      BY <3>1, <3>2, <3>3 DEF Reply
    <3> QED BY <1>1, <1>2, <2>2, <3>4 DEF PastType
  <2> QED BY <2>3, <2>4, <2>5, <2>6, <2>7, <1>4
<1> QED BY <1>6, <1>7, <1>8, <1>9, <1>10, <1>11, <1>12 DEF Main

LEMMA TypeStep == TypeOK /\ WireFits /\ Fresh /\ Gathered /\ [Next]_vars => TypeOK'
<1> SUFFICES ASSUME TypeOK, WireFits, Fresh, Gathered, [Next]_vars PROVE TypeOK'
  OBVIOUS
<1>1. CASE UNCHANGED vars
  BY <1>1 DEF vars, service, queue, call, evVars, mainVars, past, TypeOK
<1> QED BY <1>1, TypeService, TypeEvents, TypeMain, Zenon DEF Next

-----------------------------------------------------------------------------
(* The lock and the events.                                                 *)

LEMMA LockStep == TypeOK /\ LockSpan /\ [Next]_vars => LockSpan'
<1> SUFFICES ASSUME TypeOK, LockSpan, [Next]_vars PROVE LockSpan'
  OBVIOUS
<1> USE DEF service, queue, call, evVars, mainVars, past, LockSpan
<1>1. CASE Change \/ Accept \/ Answer \/ AnswerBody \/ Drops \/ Dies \/ Starts \/ EvAccept \/ EvMessage \/ EvRead \/ EvCall
           \/ OtherRequest \/ NotifyPlug \/ UNCHANGED vars
  BY <1>1 DEF Change, Accept, Answer, AnswerBody, Drops, Dies, Starts, EvAccept, EvMessage, EvRead, EvCall,
     OtherRequest, NotifyPlug, vars
<1>2. CASE Call \/ Lock \/ Connect \/ ConnectFails \/ Write \/ WriteFails \/ ReadHdr \/ ReadBody
  BY <1>2 DEF Call, Lock, Connect, ConnectFails, Write, WriteFails, ReadHdr, ReadBody, Go
<1>3. CASE ReadFails \/ Check \/ ListDisk \/ Filter \/ ListEnd
  BY <1>3 DEF ReadFails, Check, ListDisk, AddDisk, Filter, ListEnd, Go, vars
<1>4. CASE Unlock
  BY <1>4 DEF Unlock, Return
<1> QED BY <1>1, <1>2, <1>3, <1>4 DEF Next, Main

LEMMA EventStep == TypeOK /\ EventOrder /\ [Next]_vars => EventOrder'
<1> SUFFICES ASSUME TypeOK, EventOrder, [Next]_vars PROVE EventOrder'
  OBVIOUS
<1> USE DEF service, queue, call, evVars, mainVars, past
<1>0. /\ Version \in Nat /\ told \in Nat /\ event \in Nat /\ Read \in Nat
      /\ events \in Seq(Versions) /\ Len(events) \in Nat /\ DOMAIN events = 1..Len(events)
      /\ \A i \in 1..Len(events) : events[i] \in Nat
  <2>1. /\ events \in Seq(Versions) /\ Versions \subseteq Nat
        /\ told \in Versions /\ event \in Versions
    BY Bounds DEF TypeOK, Versions
  <2>2. \A i \in 1..Len(events) : events[i] \in Versions
    BY <2>1
  <2>3. Len(events) \in Nat /\ DOMAIN events = 1..Len(events) /\ Version \in Nat
    BY <2>1 DEF TypeOK, Version
  <2>4. told \in Nat /\ event \in Nat
    BY <2>1
  <2>5. Read \in Nat
    BY <2>4 DEF Read
  <2> QED BY <2>1, <2>2, <2>3, <2>4, <2>5
<1>1. CASE Change
  <2>1. /\ events' = Append(events, Version') /\ Version' = Version + 1
        /\ UNCHANGED <<evpc, event, told>> /\ Read' = Read
    BY <1>1, HistGrows DEF Change, Version, Read
  <2>2. /\ Len(events') = Len(events) + 1 /\ DOMAIN events' = 1..Len(events) + 1
        /\ \A i \in 1..Len(events) : events'[i] = events[i]
        /\ events'[Len(events) + 1] = Version + 1
    BY <2>1, <1>0 DEF Versions
  <2>3. \A i \in DOMAIN events' : events'[i] = Read' + i
    <3> SUFFICES ASSUME NEW i \in DOMAIN events' PROVE events'[i] = Read' + i
      OBVIOUS
    <3>1. CASE i = Len(events) + 1
      BY <3>1, <2>1, <2>2, <1>0 DEF EventOrder
    <3>2. CASE i \in 1..Len(events)
      BY <3>2, <2>1, <2>2, <1>0 DEF EventOrder
    <3> QED BY <3>1, <3>2, <2>2, <1>0
  <2>4. Read' + Len(events') = Version'
    BY <2>1, <2>2, <1>0 DEF EventOrder
  <2> QED BY <2>1, <2>3, <2>4 DEF EventOrder
<1>2. CASE EvAccept
  <2>1. /\ events # <<>> /\ evpc = "poll" /\ evpc' = "read" /\ UNCHANGED <<hist, told>>
        /\ event' = events[1] /\ Len(events') = Len(events) - 1
        /\ DOMAIN events' = 1..Len(events) - 1
        /\ \A i \in 1..Len(events) - 1 : events'[i] = events[i + 1]
        /\ Len(events) >= 1
    BY <1>2, <1>0, TailAt DEF EvAccept
  <2>2. Version' = Version /\ Read' = Read + 1
    BY <2>1 DEF Version, Read
  <2>3. 1 \in DOMAIN events /\ \A i \in 1..Len(events) - 1 : i + 1 \in DOMAIN events
    BY <2>1, <1>0
  <2>4. \A i \in DOMAIN events : events[i] = Read + i
    BY DEF EventOrder
  <2>5. event' = Read'
    BY <2>1, <2>2, <2>3, <2>4
  <2>6. \A i \in DOMAIN events' : events'[i] = Read' + i
    <3> SUFFICES ASSUME NEW i \in DOMAIN events' PROVE events'[i] = Read' + i
      OBVIOUS
    <3>1. i \in 1..Len(events) - 1 /\ i + 1 \in DOMAIN events
      BY <2>1, <2>3
    <3>2. events'[i] = Read + (i + 1)
      BY <3>1, <2>1, <2>4
    <3> QED BY <3>1, <3>2, <2>2, <1>0
  <2>7. Read' + Len(events') = Version'
    <3>1. Read + Len(events) = Version
      BY DEF EventOrder
    <3>2. Len(events') = Len(events) - 1
      BY <2>1
    <3> QED BY <3>1, <3>2, <2>2, <1>0
  <2> QED BY <2>5, <2>6, <2>7 DEF EventOrder
<1>3. CASE EvCall \/ (EvRead /\ ThrowAway)
  <2>1. /\ evpc # "poll" /\ evpc' = "poll" /\ told' = event
        /\ UNCHANGED <<hist, events>>
    BY <1>3 DEF EvCall, EvRead, ThrowAway
  <2>2. Read' = Read
    BY <2>1 DEF EventOrder, Read
  <2> QED BY <2>1, <2>2 DEF EventOrder, Version
<1>4. CASE EvRead /\ PassOn
  <2>1. UNCHANGED <<hist, events, event, told>> /\ evpc = "read" /\ evpc' = "call"
    BY <1>4 DEF EvRead, PassOn
  <2> QED BY <2>1 DEF EventOrder, Version, Read
<1>5. CASE UNCHANGED <<hist, events, evpc, event, told>>
  BY <1>5 DEF EventOrder, Version, Read
<1>6. EvRead => (EvRead /\ ThrowAway) \/ (EvRead /\ PassOn)
  BY DEF EvRead
<1> QED BY <1>1, <1>2, <1>3, <1>4, <1>5, <1>6
        DEF Next, Main, Accept, Answer, AnswerBody, Drops, Dies, Starts, EvMessage, OtherRequest, NotifyPlug, Call,
            Lock, Connect, ConnectFails, Write, WriteFails, ReadHdr, ReadBody, ReadFails, Check,
            ListDisk, AddDisk, Filter, ListEnd, Unlock, Return, vars

-----------------------------------------------------------------------------
(* The call.                                                                *)

LEMMA Numbers ==
  ASSUME TypeOK
  PROVE  /\ Version \in Nat /\ Version >= 1 /\ asked \in Nat /\ answer \in Nat /\ Len(wire) \in Nat
         /\ \A i \in 1..Version : hist[i] \in Seq(Entry) /\ Len(hist[i]) \in Nat
         /\ wire \in Seq(Header \cup Body)
         /\ hdr \in Header /\ hdr.ver \in Nat /\ hdr.ver >= 1
         /\ reply.ver \in Nat /\ reply.ver >= 1
<1>1. /\ Versions \subseteq Nat /\ (\A v \in Versions : v >= 1)
      /\ {told, asked, answer} \subseteq Versions
  BY Bounds DEF TypeOK, Versions
<1>2. hist \in Seq(Seq(Entry)) /\ wire \in Seq(Header \cup Body) /\ Len(hist) \in Versions
  BY DEF TypeOK
<1>3. \A i \in 1..Len(hist) : hist[i] \in Seq(Entry) /\ Len(hist[i]) \in Nat
  BY <1>2
<1>4. hdr \in Header /\ hdr.ver \in Versions /\ reply.ver \in Versions
  BY DEF TypeOK, Header, Reply
<1>5. /\ Len(wire) \in Nat /\ wire \in Seq(Header \cup Body)
      /\ Version \in Nat /\ Version >= 1
  BY <1>1, <1>2 DEF Version
<1>6. hdr.ver \in Nat /\ hdr.ver >= 1 /\ reply.ver \in Nat /\ reply.ver >= 1
  BY <1>1, <1>4
<1>7. asked \in Nat /\ answer \in Nat
  BY <1>1
<1> QED BY <1>3, <1>4, <1>5, <1>6, <1>7 DEF Version

(* A header that fits the call still does when the list changes.            *)
LEMMA StillFits ==
  ASSUME TypeOK, Change, NEW h, HeaderFits(h, asked, hist)
  PROVE  HeaderFits(h, asked', hist')
<1>1. /\ Version' = Version + 1 /\ Version \in Nat
      /\ \A v \in 1..Version : hist'[v] = hist[v]
  BY HistGrows
<1>2. asked' = asked /\ asked \in Nat /\ h \in Header /\ h.ver \in Nat /\ h.ver >= 1
  BY Numbers, Bounds DEF Change, mainVars, HeaderFits, Header, Versions
<1>3. h.ver \in 1..Version /\ asked <= h.ver
  BY <1>1, <1>2 DEF HeaderFits, Version
<1>4. hist'[h.ver] = hist[h.ver] /\ h.ver <= Version'
  BY <1>1, <1>3
<1> QED BY <1>2, <1>3, <1>4 DEF HeaderFits, Version

LEMMA WireStep == TypeOK /\ WireFits /\ [Next]_vars => WireFits'
<1> SUFFICES ASSUME TypeOK, WireFits, [Next]_vars PROVE WireFits'
  OBVIOUS
<1> USE DEF service, queue, call, evVars, mainVars, past
<1>0. /\ Version \in Nat /\ Version >= 1 /\ asked \in Nat /\ answer \in Nat /\ Len(wire) \in Nat
      /\ \A i \in 1..Version : hist[i] \in Seq(Entry) /\ Len(hist[i]) \in Nat
      /\ wire \in Seq(Header \cup Body)
  BY Numbers
<1>s. UNCHANGED <<hist, asked, conn, wire, answer, pc, hdr, list>> => WireFits'
  <2> SUFFICES ASSUME UNCHANGED <<hist, asked, conn, wire, answer, pc, hdr, list>> PROVE WireFits'
    OBVIOUS
  <2> QED BY DEF WireFits, Version
<1>1. CASE Change
  <2>1. /\ UNCHANGED <<asked, conn, wire, answer, pc, hdr, list>> /\ Version' = Version + 1
        /\ \A v \in 1..Version : hist'[v] = hist[v]
    BY <1>1, HistGrows DEF Change
  <2>2. HeaderFits(wire[1], asked, hist) => HeaderFits(wire[1], asked', hist')
    BY <1>1, StillFits
  <2>3. HeaderFits(hdr, asked, hist) => HeaderFits(hdr, asked', hist')
    BY <1>1, StillFits
  <2>4. pc = "check" => hist'[hdr.ver] = hist[hdr.ver]
    <3> SUFFICES ASSUME pc = "check" PROVE hist'[hdr.ver] = hist[hdr.ver]
      OBVIOUS
    <3>1. hdr.ver \in 1..Version
      BY Numbers DEF WireFits, HeaderFits, Version
    <3> QED BY <3>1, <2>1
  <2>5. asked' <= Version'
    BY <2>1, <1>0 DEF WireFits
  <2> QED BY <2>1, <2>2, <2>3, <2>4, <2>5 DEF WireFits
<1>2. CASE Answer
  <2>1. PICK res \in {"ok", "fail"} :
          LET len == IF res = "ok" THEN Len(hist[Version]) ELSE 0
          IN /\ wire' = Append(wire, [res |-> res, len |-> len, ver |-> Version])
             /\ conn' = IF len > 0 THEN "answering" ELSE "done"
    BY <1>2 DEF Answer
  <2> DEFINE len == IF res = "ok" THEN Len(hist[Version]) ELSE 0
             h == [res |-> res, len |-> len, ver |-> Version]
  <2>2. /\ conn = "asked" /\ answer' = Version /\ UNCHANGED <<hist, asked, pc, hdr, list>>
    BY <1>2 DEF Answer
  <2>3. pc = "hdr" /\ wire = <<>>
    <3>1. pc \in Steps
      BY DEF TypeOK
    <3> QED BY <2>2, <3>1 DEF WireFits, Steps
  <2>4. len \in Nat
    BY <1>0
  <2>5. wire' = <<h>> /\ conn' = (IF len > 0 THEN "answering" ELSE "done")
    BY <2>1, <2>3
  <2>6. HeaderFits(h, asked, hist)
    <3>1. h \in Header
      BY <2>4, <1>0 DEF Header, TypeOK, Version
    <3>2. h.ver = Version /\ h.res = res /\ h.len = len
      OBVIOUS
    <3>3. asked <= Version
      BY DEF WireFits
    <3> HIDE DEF h
    <3> QED BY <3>1, <3>2, <3>3, <1>0 DEF HeaderFits, Version
  <2>7. HeaderFits(h, asked', hist')
    BY <2>2, <2>6
  <2>8. h.ver = Version /\ h.len = len
    OBVIOUS
  <2> HIDE DEF h
  <2>9. Len(wire') = 1 /\ wire'[1] = h
    BY <2>5
  <2>10. /\ pc' = "hdr" /\ asked' <= Version'
         /\ \/ conn' = "answering" /\ wire'[1].len > 0 /\ answer' = wire'[1].ver
            \/ conn' = "done" /\ wire'[1].len = 0
    BY <2>2, <2>3, <2>4, <2>5, <2>8, <2>9 DEF WireFits, Version
  <2> HIDE DEF len
  <2> QED BY <2>7, <2>9, <2>10 DEF WireFits
<1>3. CASE AnswerBody
  <2> DEFINE b == [res |-> "body", len |-> 0, ver |-> answer]
  <2>1. /\ conn = "answering" /\ conn' = "done" /\ wire' = Append(wire, b)
        /\ UNCHANGED <<hist, asked, pc, hdr, list, answer>>
    BY <1>3 DEF AnswerBody
  <2>2. b.ver = answer
    OBVIOUS
  <2>b. b \in Header \cup Body
    BY DEF TypeOK, Body
  <2> HIDE DEF b
  <2>3. HeaderFits(wire[1], asked, hist) <=> HeaderFits(wire[1], asked', hist')
    BY <2>1
  <2>4. HeaderFits(hdr, asked, hist) <=> HeaderFits(hdr, asked', hist')
    BY <2>1
  <2>5. asked' <= Version' /\ pc \in Steps
    BY <2>1 DEF WireFits, Version, TypeOK
  <2>6. CASE pc = "hdr"
    <3>1. Len(wire) = 1 /\ HeaderFits(wire[1], asked, hist) /\ wire[1].len > 0 /\ answer = wire[1].ver
      BY <2>1, <2>6 DEF WireFits
    <3>2. Len(wire') = 2 /\ wire'[1] = wire[1] /\ wire'[2] = b
      <4> DEFINE S == Header \cup Body
      <4>1. wire \in Seq(S) /\ b \in S
        BY <2>b, <1>0
      <4> HIDE DEF S
      <4>2. wire' = Append(wire, b)
        BY <2>1
      <4>3. /\ Len(Append(wire, b)) = Len(wire) + 1 /\ Append(wire, b)[Len(wire) + 1] = b
            /\ \A i \in 1..Len(wire) : Append(wire, b)[i] = wire[i]
        BY <4>1, AppendAt
      <4> QED BY <4>2, <4>3, <3>1
    <3>3. HeaderFits(wire'[1], asked', hist')
      BY <3>1, <3>2, <2>3, Zenon
    <3> QED BY <3>1, <3>2, <3>3, <2>1, <2>2, <2>5, <2>6 DEF WireFits
  <2>7. CASE pc = "body"
    <3>1. wire = <<>> /\ answer = hdr.ver /\ HeaderFits(hdr, asked, hist) /\ hdr.len > 0
      BY <2>1, <2>7, <1>0 DEF WireFits
    <3>2. Len(wire') = 1 /\ wire'[1] = b
      BY <3>1, <2>1
    <3> QED BY <3>1, <3>2, <2>1, <2>2, <2>4, <2>5, <2>7 DEF WireFits
  <2> QED BY <2>1, <2>5, <2>6, <2>7 DEF WireFits, Steps
<1>4. CASE (Drops \/ Dies) /\ conn \in InService
  <2>1. /\ conn \in {"open", "asked", "answering"} /\ conn' = "closed"
        /\ UNCHANGED <<hist, asked, pc, hdr, list, answer, wire>>
    BY <1>4 DEF Drops, Dies, InService
  <2>2. \A h : HeaderFits(h, asked, hist) <=> HeaderFits(h, asked', hist')
    BY <2>1
  <2>3. asked' <= Version' /\ pc \in Steps
    BY <2>1 DEF WireFits, Version, TypeOK
  <2>4. CASE pc = "write"
    BY <2>1, <2>3, <2>4 DEF WireFits
  <2>5. CASE pc = "hdr"
    BY <2>1, <2>2, <2>3, <2>5 DEF WireFits
  <2>6. CASE pc = "body"
    BY <2>1, <2>2, <2>3, <2>6 DEF WireFits
  <2> QED BY <2>1, <2>3, <2>4, <2>5, <2>6 DEF WireFits, Steps
<1>5. CASE \/ Accept \/ Starts \/ ((Drops \/ Dies) /\ conn \notin InService)
           \/ EvAccept \/ EvMessage \/ EvRead \/ EvCall \/ OtherRequest \/ NotifyPlug
           \/ Filter \/ UNCHANGED vars
  BY <1>5, <1>s DEF Accept, Starts, Drops, Dies, EvAccept, EvMessage, EvRead, EvCall, OtherRequest, NotifyPlug, Filter, vars
<1>6. CASE Call
  <2>1. pc = "idle" /\ pc' = "lock" /\ asked' = Version /\ UNCHANGED <<hist, conn>>
    BY <1>6 DEF Call, Go
  <2> QED BY <2>1, <1>0 DEF WireFits, Version
<1>7. CASE Lock \/ Connect \/ ConnectFails \/ WriteFails \/ ReadFails \/ ListEnd
  <2>1. /\ UNCHANGED <<hist, asked>>
        /\ pc' \in {"connect", "write", "failed", "ok"}
        /\ pc' = "write" => conn' = "open" /\ wire' = <<>>
        /\ pc' # "write" => conn' = "none"
    BY <1>7 DEF Lock, Connect, ConnectFails, WriteFails, ReadFails, ListEnd, Go, WireFits
  <2> QED BY <2>1 DEF WireFits, Version
<1>8. CASE Write
  <2>1. /\ UNCHANGED <<hist, asked, wire>> /\ pc = "write"
        /\ pc' = "hdr" /\ conn' = "asked"
    BY <1>8 DEF Write, Go
  <2> QED BY <2>1 DEF WireFits, Version
<1>9. CASE ReadHdr
  <2>1. /\ UNCHANGED <<hist, asked, answer>> /\ pc = "hdr" /\ wire # <<>>
        /\ hdr' = wire[1] /\ list' = <<>>
        /\ Len(wire') = Len(wire) - 1 /\ \A i \in 1..Len(wire) - 1 : wire'[i] = wire[i + 1]
        /\ wire' \in Seq(Header \cup Body)
        /\ pc' = (IF hdr'.len > 0 THEN "body" ELSE "check")
        /\ conn' = (IF hdr'.len > 0 THEN conn ELSE "none")
    BY <1>9, <1>0, TailAt DEF ReadHdr
  <2>2. HeaderFits(wire[1], asked, hist) /\ (Len(wire) = 1 \/ Len(wire) = 2)
    BY <2>1 DEF WireFits
  <2>3. HeaderFits(hdr', asked', hist')
    BY <2>1, <2>2
  <2>4. hdr' \in Header /\ hdr'.len \in Nat
    BY <2>1, <2>2 DEF HeaderFits, Header
  <2>5. asked' <= Version'
    BY <2>1 DEF WireFits, Version
  <2>6. CASE hdr'.len > 0
    <3>1. pc' = "body" /\ conn' = conn
      BY <2>1, <2>6
    <3>2. CASE Len(wire) = 1
      <4>1. wire' = <<>>
        BY <3>2, <2>1, EmptySeq
      <4>2. (conn = "answering" /\ answer = wire[1].ver) \/ conn = "closed"
        BY <3>2, <2>1, <2>4, <2>6 DEF WireFits
      <4> QED BY <4>1, <4>2, <3>1, <2>1, <2>3, <2>5, <2>6 DEF WireFits
    <3>3. CASE Len(wire) = 2
      <4>1. Len(wire') = 1 /\ wire'[1] = wire[2] /\ wire[2].ver = wire[1].ver /\ conn = "done"
        BY <3>3, <2>1 DEF WireFits
      <4> QED BY <4>1, <3>1, <2>1, <2>3, <2>5, <2>6 DEF WireFits
    <3> QED BY <3>2, <3>3, <2>2
  <2>7. CASE ~(hdr'.len > 0)
    <3>1. pc' = "check" /\ conn' = "none" /\ hdr'.len = 0
      BY <2>1, <2>4, <2>7
    <3>2. list' = IF hdr'.res = "ok" THEN hist'[hdr'.ver] ELSE <<>>
      <4>1. CASE hdr'.res = "ok"
        <5>1. Len(hist[wire[1].ver]) = 0
          BY <4>1, <3>1, <2>1, <2>2 DEF HeaderFits
        <5>2. wire[1].ver \in 1..Version
          BY <2>1, <2>2, <2>4, <1>0, Bounds DEF HeaderFits, Header, Versions, Version
        <5>3. hist[wire[1].ver] = <<>>
          BY <5>1, <5>2, <1>0, EmptySeq
        <5> QED BY <5>3, <4>1, <2>1
      <4>2. CASE hdr'.res # "ok"
        BY <4>2, <2>1
      <4> QED BY <4>1, <4>2
    <3> QED BY <3>1, <3>2, <2>3, <2>5 DEF WireFits
  <2> QED BY <2>6, <2>7
<1>10. CASE ReadBody
  <2>1. /\ UNCHANGED <<hist, asked, hdr>> /\ pc = "body" /\ pc' = "check" /\ conn' = "none"
        /\ wire # <<>> /\ list' = hist[wire[1].ver]
    BY <1>10, <1>0, TailAt DEF ReadBody, Go
  <2>2. HeaderFits(hdr, asked, hist) /\ hdr.len > 0 /\ wire[1].ver = hdr.ver
    BY <2>1 DEF WireFits
  <2>3. hdr.res = "ok"
    BY <2>2 DEF HeaderFits
  <2>4. HeaderFits(hdr, asked', hist') /\ asked' <= Version'
    BY <2>1, <2>2 DEF WireFits, Version
  <2> QED BY <2>1, <2>2, <2>3, <2>4 DEF WireFits
<1>11. CASE Check \/ ListDisk \/ Unlock
  <2>1. /\ UNCHANGED <<hist, asked, conn>> /\ pc \in {"check", "loop", "ok", "failed"}
        /\ pc' \in {"failed", "loop", "ok", "idle"}
    BY <1>11 DEF Check, ListDisk, AddDisk, Unlock, Return
  <2> QED BY <2>1 DEF WireFits, Version
<1> QED BY <1>1, <1>2, <1>3, <1>4, <1>5, <1>6, <1>7, <1>8, <1>9, <1>10, <1>11 DEF Next, Main

LEMMA FreshStep == TypeOK /\ Fresh /\ [Next]_vars => Fresh'
<1> SUFFICES ASSUME TypeOK, Fresh, [Next]_vars PROVE Fresh'
  OBVIOUS
<1> USE DEF service, queue, call, evVars, mainVars, past, Fresh
<1>1. CASE Change \/ Accept \/ Answer \/ AnswerBody \/ Drops \/ Dies \/ Starts \/ EvAccept \/ EvMessage \/ EvRead \/ EvCall
           \/ OtherRequest \/ NotifyPlug \/ UNCHANGED vars
  BY <1>1 DEF Change, Accept, Answer, AnswerBody, Drops, Dies, Starts, EvAccept, EvMessage, EvRead, EvCall,
     OtherRequest, NotifyPlug, vars
<1>2. CASE Call \/ Lock \/ Connect \/ ConnectFails \/ Write \/ WriteFails \/ ReadHdr \/ ReadBody
  BY <1>2 DEF Call, Lock, Connect, ConnectFails, Write, WriteFails, ReadHdr, ReadBody, Go
<1>3. CASE ReadFails \/ Check \/ Filter \/ ListEnd
  BY <1>3 DEF ReadFails, Check, Filter, ListEnd, Go, vars
<1>4. CASE ListDisk
  BY <1>4 DEF ListDisk, AddDisk
<1>5. CASE Unlock
  BY <1>5 DEF Unlock, Return
<1> QED BY <1>1, <1>2, <1>3, <1>4, <1>5 DEF Next, Main

LEMMA GatheredStep == TypeOK /\ WireFits /\ Fresh /\ Gathered /\ [Next]_vars => Gathered'
<1> SUFFICES ASSUME TypeOK, WireFits, Fresh, Gathered, [Next]_vars PROVE Gathered'
  OBVIOUS
<1> USE DEF service, queue, call, evVars, mainVars, past
<1>0. /\ Version \in Nat /\ Version >= 1 /\ asked \in Nat
      /\ hdr.ver \in Nat /\ hdr.ver >= 1
      /\ \A i \in 1..Version : hist[i] \in Seq(Entry) /\ Len(hist[i]) \in Nat
      /\ list \in Seq(Entry) /\ Len(list) \in Nat /\ nodes \in Seq(Disks) /\ Len(nodes) \in Nat
      /\ req \in {"lun", "info"} /\ Len(nodes) <= IF req = "lun" THEN MaxNodes ELSE MaxInfo
  BY Numbers DEF TypeOK
<1>s. UNCHANGED <<hist, asked, pc, req, hdr, list, nodes>> => Gathered'
  BY DEF Gathered, Version
<1>i. pc' \notin {"loop", "ok"} => Gathered'
  BY DEF Gathered
<1>1. CASE Change
  <2>1. /\ UNCHANGED <<asked, pc, req, hdr, list, nodes>> /\ Version' = Version + 1
        /\ \A v \in 1..Version : hist'[v] = hist[v]
    BY <1>1, HistGrows DEF Change
  <2> SUFFICES ASSUME pc \in {"loop", "ok"} PROVE Gathered'
    BY <2>1, <1>i
  <2>2. hdr.ver \in 1..Version
    BY <1>0 DEF Gathered
  <2>3. hist'[hdr.ver] = hist[hdr.ver] /\ hdr.ver <= Version'
    BY <2>1, <2>2, <1>0
  <2> QED BY <2>1, <2>3 DEF Gathered
<1>2. CASE Accept \/ Answer \/ AnswerBody \/ Drops \/ Dies \/ Starts \/ EvAccept \/ EvMessage \/ EvRead \/ EvCall
           \/ OtherRequest \/ NotifyPlug \/ Filter \/ UNCHANGED vars
  BY <1>2, <1>s DEF Accept, Answer, AnswerBody, Drops, Dies, Starts, EvAccept, EvMessage, EvRead, EvCall,
     OtherRequest, NotifyPlug, Filter, vars
<1>3. CASE Call \/ Lock \/ Connect \/ ConnectFails \/ Write \/ WriteFails \/ ReadHdr \/ ReadBody
           \/ ReadFails \/ Unlock
  BY <1>3, <1>i DEF Call, Lock, Connect, ConnectFails, Write, WriteFails, ReadHdr, ReadBody,
     ReadFails, Unlock, Return, Go
<1>4. CASE Check
  <2>1. /\ UNCHANGED <<hist, asked, req, hdr, list>> /\ pc = "check"
        /\ pc' = (IF hdr.res = "fail" THEN "failed"
                  ELSE IF req = "lun" THEN "loop"
                  ELSE IF Len(list) > MaxInfo THEN "failed" ELSE "ok")
        /\ nodes' = IF pc' = "ok" THEN Devs(list) ELSE <<>>
    BY <1>4 DEF Check
  <2> SUFFICES ASSUME pc' \in {"loop", "ok"} PROVE Gathered'
    BY <1>i
  <2>2. hdr.res = "ok" /\ hdr.ver \in 1..Version /\ asked <= hdr.ver
    BY <2>1, <1>0 DEF WireFits, HeaderFits, Header, Version
  <2> DEFINE l == hist[hdr.ver]
  <2>3. list = l /\ l \in Seq(Entry) /\ Len(l) \in Nat
    BY <2>1, <2>2, <1>0 DEF WireFits
  <2>4. CASE req = "lun"
    <3>1. pc' = "loop" /\ nodes' = <<>> /\ Len(nodes') = 0
      BY <2>1, <2>2, <2>4, EmptySeq
    <3>2. \A i \in 1..Len(l) - 0 : list[i] = l[0 + i]
      BY <2>3
    <3> HIDE DEF l
    <3> QED BY <3>1, <3>2, <2>1, <2>2, <2>3, <2>4 DEF Gathered, Version, l
  <2>5. CASE req = "info"
    <3>1. pc' = "ok" /\ nodes' = Devs(list)
      BY <2>1, <2>2, <2>5
    <3>2. Len(nodes') = Len(l) /\ \A i \in 1..Len(l) : nodes'[i] = l[i].dev /\ i \in DOMAIN l
      BY <3>1, <2>3, DevsType
    <3> HIDE DEF l
    <3> QED BY <3>1, <3>2, <2>1, <2>2, <2>3, <2>5 DEF Gathered, Version, l
  <2> QED BY <2>4, <2>5, <1>0
<1>5. CASE ListDisk
  <2> DEFINE l == hist[hdr.ver]
             n == Len(nodes)
  <2>1. /\ UNCHANGED <<hist, asked, req, hdr>> /\ pc = "loop" /\ list # <<>>
        /\ Head(list).status = "mounted"
    BY <1>5 DEF ListDisk, AddDisk
  <2>2. /\ asked <= hdr.ver /\ hdr.ver <= Version /\ req = "lun"
        /\ \A i \in 1..n : i \in DOMAIN l /\ nodes[i] = l[i].dev /\ l[i].status = "mounted"
        /\ Len(list) = Len(l) - n
        /\ \A i \in 1..Len(l) - n : list[i] = l[n + i]
    BY <2>1 DEF Gathered
  <2>3. l \in Seq(Entry) /\ Len(l) \in Nat /\ DOMAIN l = 1..Len(l)
    BY <2>2, <1>0
  <2>4. CASE pc' = "ok" /\ ~(n < MaxNodes) /\ UNCHANGED <<list, nodes>>
    <3>1. n = MaxNodes
      BY <2>2, <2>4, <1>0, Bounds
    <3> QED BY <3>1, <2>1, <2>2, <2>4 DEF Gathered, Version
  <2>5. CASE /\ pc' = "loop" /\ nodes' = Append(nodes, Head(list).dev)
             /\ list' = Tail(list)
    <3>1. /\ Head(list) = list[1] /\ Head(list) \in Entry /\ Len(list) >= 1
          /\ Len(list') = Len(list) - 1
          /\ \A i \in 1..Len(list) - 1 : list'[i] = list[i + 1]
      BY <2>1, <2>5, <1>0, TailAt
    <3>2. Head(list).dev \in Disks
      BY <3>1 DEF Entry
    <3>3. /\ Len(nodes') = n + 1 /\ nodes'[n + 1] = Head(list).dev
          /\ \A i \in 1..n : nodes'[i] = nodes[i]
      BY <3>2, <2>5, <1>0, AppendAt
    <3>4. list[1] = l[n + 1] /\ n + 1 \in DOMAIN l
      BY <3>1, <2>2, <2>3, <1>0
    <3>5. \A i \in 1..n + 1 : i \in DOMAIN l /\ nodes'[i] = l[i].dev /\ l[i].status = "mounted"
      <4> SUFFICES ASSUME NEW i \in 1..n + 1
                   PROVE  i \in DOMAIN l /\ nodes'[i] = l[i].dev /\ l[i].status = "mounted"
        OBVIOUS
      <4>1. CASE i = n + 1
        BY <4>1, <3>1, <3>3, <3>4, <2>1
      <4>2. CASE i \in 1..n
        BY <4>2, <3>3, <2>2
      <4> QED BY <4>1, <4>2, <1>0
    <3>6. Len(list') = Len(l) - (n + 1)
      BY <3>1, <2>2, <2>3, <1>0
    <3>7. \A i \in 1..Len(l) - (n + 1) : list'[i] = l[(n + 1) + i]
      <4> SUFFICES ASSUME NEW i \in 1..Len(l) - (n + 1) PROVE list'[i] = l[(n + 1) + i]
        OBVIOUS
      <4>1. i \in 1..Len(list) - 1 /\ i + 1 \in 1..Len(l) - n /\ n + (i + 1) = (n + 1) + i
        BY <2>2, <2>3, <1>0
      <4>2. list'[i] = list[i + 1] /\ list[i + 1] = l[n + (i + 1)]
        BY <4>1, <3>1, <2>2
      <4> QED BY <4>1, <4>2
    <3>8. l' = l /\ Len(nodes') = n + 1
      BY <3>3, <2>1
    <3>9. /\ asked' <= hdr'.ver /\ hdr'.ver <= Version' /\ req' = "lun" /\ pc' = "loop"
          /\ hist'[hdr'.ver] = l
      BY <2>1, <2>2, <2>5 DEF Version
    <3> HIDE DEF n, l
    <3> QED BY <3>5, <3>6, <3>7, <3>8, <3>9 DEF Gathered
  <2> QED BY <1>5, <2>4, <2>5 DEF ListDisk, AddDisk
<1>6. CASE ListEnd
  <2>1. UNCHANGED <<hist, asked, req, hdr, list, nodes>> /\ pc = "loop" /\ pc' = "ok" /\ list = <<>>
    BY <1>6 DEF ListEnd, Go
  <2> QED BY <2>1 DEF Gathered, Version
<1> QED BY <1>1, <1>2, <1>3, <1>4, <1>5, <1>6 DEF Next, Main

-----------------------------------------------------------------------------
(* The reply.                                                               *)

(* The nodes of a reply r are those of the list l.                          *)
ShownOf(r, l) == {k \in DOMAIN l : r.req = "lun" => l[k].status = "mounted"}

Fits(r, l) ==
  LET n == Len(r.nodes) IN
  \E at \in [1..n -> ShownOf(r, l)] :
     /\ \A i \in 1..n : l[at[i]].dev = r.nodes[i]
     /\ \A i, j \in 1..n : i < j => at[i] < at[j]
     /\ \A k \in ShownOf(r, l) :
          \/ \E i \in 1..n : at[i] = k
          \/ r.req = "lun" /\ n = MaxNodes /\ \A i \in 1..n : at[i] < k

LEMMA ExactParts ==
  ListExact <=> (reply.ok => reply.ver >= reply.since /\ Fits(reply, hist[reply.ver]))
BY Zenon DEF ListExact, Shown, ShownOf, Fits

(* The result of a call that was gathered fits its list.                    *)
LEMMA GatheredFits ==
  ASSUME TypeOK, Gathered, pc = "ok", NEW r, r.nodes = nodes, r.req = req
  PROVE  Fits(r, hist[hdr.ver])
<1> DEFINE l == hist[hdr.ver]
           n == Len(nodes)
           at == [i \in 1..n |-> i]
<1>1. /\ hdr.ver \in 1..Version /\ n \in Nat /\ req \in {"lun", "info"} /\ list \in Seq(Entry)
  BY Numbers DEF TypeOK, Gathered
<1>2. l \in Seq(Entry) /\ Len(l) \in Nat /\ DOMAIN l = 1..Len(l)
  BY <1>1, Numbers
<1>3. /\ \A i \in 1..n : i \in DOMAIN l /\ nodes[i] = l[i].dev
      /\ req = "lun" => \A i \in 1..n : l[i].status = "mounted"
  BY DEF Gathered
<1>4. at \in [1..n -> ShownOf(r, l)]
  BY <1>3 DEF ShownOf
<1>5. \A i \in 1..n : l[at[i]].dev = r.nodes[i]
  BY <1>3
<1>6. \A i, j \in 1..n : i < j => at[i] < at[j]
  OBVIOUS
<1>7. ASSUME NEW k \in ShownOf(r, l)
      PROVE  \/ \E i \in 1..n : at[i] = k
             \/ r.req = "lun" /\ n = MaxNodes /\ \A i \in 1..n : at[i] < k
  <2>1. k \in 1..Len(l)
    BY <1>2 DEF ShownOf
  <2>2. CASE k \in 1..n
    BY <2>2
  <2>3. CASE k \notin 1..n
    <3>1. n < k /\ n < Len(l)
      BY <2>1, <2>3, <1>1, <1>2
    <3>2. req = "lun" /\ (list = <<>> \/ n = MaxNodes) /\ Len(list) = Len(l) - n
      BY <3>1, <1>1, <1>2 DEF Gathered
    <3>3. list # <<>>
      BY <3>1, <3>2, <1>1, <1>2, EmptySeq
    <3>4. \A i \in 1..n : at[i] < k
      BY <3>1, <2>1, <1>1
    <3> QED BY <3>2, <3>3, <3>4
  <2> QED BY <2>2, <2>3
<1> HIDE DEF at, l
<1> QED BY <1>4, <1>5, <1>6, <1>7, Zenon DEF Fits, l

LEMMA ReplyStep ==
  TypeOK /\ Gathered /\ ReplyKnown /\ ListExact /\ WireFits /\ [Next]_vars
    => ReplyKnown' /\ ListExact'
<1> SUFFICES ASSUME TypeOK, Gathered, ReplyKnown, ListExact, WireFits, [Next]_vars
             PROVE  ReplyKnown' /\ ListExact'
  OBVIOUS
<1> USE DEF service, queue, call, evVars, mainVars, past
<1>a. reply.ok => reply.ver >= reply.since /\ Fits(reply, hist[reply.ver])
  BY ExactParts
<1>b. (reply'.ok => reply'.ver >= reply'.since /\ Fits(reply', hist'[reply'.ver])) => ListExact'
  <2>1. (ListExact <=> (reply.ok => reply.ver >= reply.since /\ Fits(reply, hist[reply.ver])))'
    BY ExactParts, PTL
  <2>2. ListExact' <=>
          (reply'.ok => reply'.ver >= reply'.since /\ Fits(reply', hist'[reply'.ver]))
    BY <2>1
  <2> QED BY <2>2
<1>0. /\ Version \in Nat /\ reply.ver \in Nat /\ reply.ver >= 1 /\ hdr.ver \in Nat
  BY Numbers
<1>1. CASE UNCHANGED <<hist, reply>> /\ (hdr' = hdr \/ ReadHdr)
  <2>1. Version' = Version /\ ListExact'
    BY <1>1, <1>a, <1>b DEF Version
  <2>2. CASE hdr' = hdr
    BY <1>1, <2>1, <2>2 DEF ReplyKnown
  <2>3. CASE ReadHdr
    <3>1. pc = "hdr" /\ wire # <<>> /\ hdr' = wire[1]
      BY <2>3, Numbers, TailAt DEF ReadHdr
    <3>2. hdr'.ver <= Version
      BY <3>1 DEF WireFits, HeaderFits, Version
    <3> QED BY <1>1, <2>1, <3>2 DEF ReplyKnown
  <2> QED BY <1>1, <2>2, <2>3
<1>2. CASE Change
  <2>1. /\ reply' = reply /\ hdr' = hdr /\ Version' = Version + 1
        /\ \A v \in 1..Version : hist'[v] = hist[v]
    BY <1>2, HistGrows DEF Change
  <2>2. hist'[reply.ver] = hist[reply.ver]
    BY <2>1, <1>0 DEF ReplyKnown
  <2> QED BY <2>1, <2>2, <1>0, <1>a, <1>b DEF ReplyKnown
<1>3. CASE Unlock
  <2>0. hdr'.ver = 1 /\ reply'.ver = hdr.ver /\ Version' = Version /\ Version >= 1
    BY <1>3, Numbers DEF Unlock, Return, NoHeader, Version
  <2>k. ReplyKnown'
    BY <2>0, <1>0 DEF ReplyKnown
  <2>1. CASE pc = "ok"
    <3>1. /\ reply'.ok /\ reply'.ver = hdr.ver /\ reply'.since = asked /\ reply'.req = req
          /\ reply'.nodes = nodes /\ UNCHANGED hist
      BY <1>3, <2>1 DEF Unlock, Return
    <3>2. asked <= hdr.ver /\ hdr.ver <= Version
      BY <2>1 DEF Gathered
    <3>3. Fits(reply', hist[hdr.ver])
      BY <2>1, <3>1, GatheredFits, Zenon
    <3>4. hdr.ver >= asked /\ Version' = Version
      BY <3>1, <3>2, <1>0, Numbers DEF Version
    <3>5. reply'.ver >= reply'.since /\ Fits(reply', hist'[reply'.ver])
      BY <3>1, <3>3, <3>4
    <3> QED BY <2>k, <3>5, <1>b
  <2>2. CASE pc # "ok"
    <3>1. ~reply'.ok /\ reply'.ver = hdr.ver /\ UNCHANGED hist
      BY <1>3, <2>2 DEF Unlock, Return
    <3> QED BY <2>k, <3>1, <1>b
  <2> QED BY <2>1, <2>2
<1> QED BY <1>1, <1>2, <1>3
        DEF Next, Main, Accept, Answer, AnswerBody, Drops, Dies, Starts, EvAccept, EvMessage, EvRead, EvCall, OtherRequest,
            NotifyPlug, Call, Lock, Connect, ConnectFails, Write, WriteFails, ReadHdr, ReadBody,
            ReadFails, Check, ListDisk, AddDisk, Filter, ListEnd, vars

-----------------------------------------------------------------------------
(* The strengthening is invariant: whatever the service does between the    *)
(* steps of a call, and whichever of them fails, the next call starts anew. *)
LEMMA InitIInv == Init => IInv
<1> SUFFICES ASSUME Init PROVE IInv
  OBVIOUS
<1>1. TypeOK
  BY TypeInit
<1>2. Version = 1
  BY DEF Init, Version
<1>3. events = <<>> /\ DOMAIN events = {}
  BY DEF Init
<1>4. LockSpan /\ Fresh /\ Gathered /\ WireFits
  BY <1>2 DEF Init, LockSpan, Fresh, Gathered, WireFits
<1>5. EventOrder
  BY <1>2, <1>3 DEF Init, EventOrder, Read
<1>6. ReplyKnown /\ ListExact
  BY <1>2 DEF Init, ReplyKnown, ListExact, NoHeader, NoReply
<1> QED BY <1>1, <1>4, <1>5, <1>6 DEF IInv

THEOREM Inductive == Spec => []IInv
<1>1. Init => IInv
  BY InitIInv
<1>2. IInv /\ [Next]_vars => IInv'
  BY TypeStep, LockStep, EventStep, WireStep, FreshStep, GatheredStep, ReplyStep DEF IInv
<1> QED BY <1>1, <1>2, PTL DEF Spec

(* What the call, the event thread and the reply hold is well-formed, and   *)
(* no more nodes are written than there is room for.                        *)
THEOREM TypeCorrect == Spec => []TypeOK
BY Inductive, PTL DEF IInv

(* disk_getdisk_lun() and _info(): a reply shows the disks of one list that *)
(* the service had between the request and the reply, in order, and only    *)
(* the end of a list that does not fit is left out.                         *)
THEOREM RepliesExact == Spec => []ListExact
BY Inductive, PTL DEF IInv

-----------------------------------------------------------------------------
(* The promise of DiskNews.                                                 *)

LEMMA NewsInit == Init => News!Init
BY DEF Init, News!Init, News!NoList, Version

(* A step that moves none of what the promise speaks of is a stutter.       *)
LEMMA NewsStutter ==
  ASSUME UNCHANGED <<hist, told, unread, notify, rlock>>,
         \/ UNCHANGED <<pc, hdr, wire>>
         \/ UNCHANGED hdr /\ pc \in {"body", "check", "loop", "ok"}
                         /\ pc' \in {"body", "check", "loop", "ok"}
         \/ /\ pc \notin {"body", "check", "loop", "ok"} /\ (pc = "hdr" => wire = <<>>)
            /\ pc' \notin {"body", "check", "loop", "ok"} /\ (pc' = "hdr" => wire' = <<>>)
  PROVE  UNCHANGED News!vars
BY DEF News!vars, Version

(* Each step of the call, of the event thread and of the service is one of  *)
(* the promise's, or a stutter.                                             *)
LEMMA NewsStep == IInv /\ [Next]_vars => [News!Next]_News!vars
<1> SUFFICES ASSUME IInv, [Next]_vars PROVE [News!Next]_News!vars
  OBVIOUS
<1>t. TypeOK /\ LockSpan /\ EventOrder /\ WireFits
  BY DEF IInv
<1>0. /\ Version \in Nat /\ told \in Nat /\ event \in Nat /\ hdr.ver \in Nat /\ hdr.ver >= 1
      /\ Len(events) \in Nat
      /\ wire \in Seq(Header \cup Body) /\ Len(wire) \in Nat /\ notify \in BOOLEAN
  <2>1. Versions \subseteq Nat
    BY Bounds DEF Versions
  <2>2. /\ told \in Versions /\ event \in Versions /\ notify \in BOOLEAN
        /\ events \in Seq(Versions)
    BY <1>t DEF TypeOK
  <2>3. told \in Nat /\ event \in Nat /\ Len(events) \in Nat
    BY <2>1, <2>2
  <2> QED BY <1>t, <2>2, <2>3, Numbers
<1> USE DEF service, queue, call, evVars, mainVars, past
<1>1. CASE Change
  <2>1. Version' = Version + 1 /\ UNCHANGED <<told, unread, notify, rlock, pc, hdr, wire>>
    BY <1>1, <1>t, HistGrows DEF Change
  <2> QED BY <2>1 DEF News!Next, News!Change
<1>2. CASE Answer
  <2>1. /\ conn = "asked" /\ UNCHANGED <<hist, told, unread, notify, rlock, pc, hdr>>
    BY <1>2 DEF Answer
  <2>2. pc = "hdr" /\ wire = <<>>
    <3>1. pc \in Steps
      BY <1>t DEF TypeOK
    <3> QED BY <2>1, <1>t, <3>1 DEF WireFits, Steps
  <2>3. wire' # <<>> /\ Head(wire').ver = Version
    <3>1. PICK h : wire' = Append(wire, h) /\ h.ver = Version
      BY <1>2 DEF Answer
    <3>2. wire' = <<h>>
      BY <3>1, <2>2
    <3> QED BY <3>1, <3>2
  <2>4. rlock = "main"
    BY <2>2, <1>t DEF LockSpan
  <2> QED BY <2>1, <2>2, <2>3, <2>4 DEF News!Next, News!Take, News!NoList, Version
<1>3. CASE AnswerBody
  <2>1. /\ conn = "answering" /\ UNCHANGED <<hist, told, unread, notify, rlock, pc, hdr>>
        /\ \E b \in Header \cup Body : wire' = Append(wire, b)
    <3>1. [res |-> "body", len |-> 0, ver |-> answer] \in Header \cup Body
      BY <1>t DEF Body, TypeOK
    <3> QED BY <1>3, <3>1 DEF AnswerBody
  <2>2. pc \in {"hdr", "body"} /\ (pc = "hdr" => wire # <<>>)
    <3>1. pc \in Steps
      BY <1>t DEF TypeOK
    <3> QED BY <2>1, <1>t, <3>1 DEF WireFits, Steps
  <2>3. CASE pc = "body"
    BY <2>1, <2>3, NewsStutter
  <2>4. CASE pc = "hdr"
    <3>1. wire' # <<>> /\ Head(wire') = Head(wire)
      <4> DEFINE S == Header \cup Body
      <4> HIDE DEF S
      <4>1. wire \in Seq(S) /\ wire # <<>>
        BY <1>0, <2>2, <2>4 DEF S
      <4>2. PICK b \in S : wire' = Append(wire, b)
        BY <2>1 DEF S
      <4> QED BY <4>1, <4>2
    <3> QED BY <2>1, <2>2, <2>4, <3>1 DEF News!vars, Version
  <2> QED BY <2>2, <2>3, <2>4
<1>4. CASE Accept \/ Drops \/ Dies \/ Starts \/ EvAccept \/ EvMessage \/ OtherRequest \/ Filter \/ UNCHANGED vars
  <2>1. UNCHANGED <<hist, told, unread, notify, rlock, pc, hdr, wire>>
    BY <1>4 DEF Accept, Drops, Dies, Starts, EvAccept, EvMessage, OtherRequest, Filter, vars
  <2> QED BY <2>1, NewsStutter
<1>5. CASE EvCall
  <2>1. /\ told' = event /\ notify' = TRUE /\ rlock = "free" /\ evpc = "call"
        /\ UNCHANGED <<hist, rlock, pc, hdr, wire, unread>>
    BY <1>5 DEF EvCall
  <2>2. told < event /\ event <= Version
    BY <2>1, <1>t, <1>0 DEF EventOrder, Read
  <2>3. told' \in told + 1 .. Version
    BY <2>1, <2>2, <1>0
  <2> QED BY <2>1, <2>3 DEF News!Next, News!Record, Version
<1>6. CASE NotifyPlug
  <2>1. /\ rlock = "free" /\ notify /\ notify' = FALSE
        /\ UNCHANGED <<hist, told, unread, rlock, pc, hdr, wire>>
    BY <1>6 DEF NotifyPlug
  <2> QED BY <2>1 DEF News!Next, News!Announce, Version
<1>7. CASE Call \/ Connect \/ ConnectFails \/ Write \/ WriteFails
  <2>1. /\ UNCHANGED <<hist, told, unread, notify, rlock>>
        /\ pc \notin {"body", "check", "loop", "ok", "hdr"}
        /\ pc' \notin {"body", "check", "loop", "ok"} /\ (pc' = "hdr" => wire' = <<>>)
    BY <1>7, <1>t DEF Call, Connect, ConnectFails, Write, WriteFails, Go, WireFits
  <2> QED BY <2>1, NewsStutter
<1>8. CASE Lock
  <2>1. /\ rlock = "free" /\ rlock' = "main" /\ pc = "lock" /\ pc' = "connect"
        /\ UNCHANGED <<hist, told, unread, notify>>
    BY <1>8 DEF Lock, Go
  <2> QED BY <2>1 DEF News!Next, News!Ask, Version
<1>9. CASE ReadHdr
  <2>1. /\ pc = "hdr" /\ wire # <<>> /\ hdr' = Head(wire) /\ pc' \in {"body", "check"}
        /\ UNCHANGED <<hist, told, unread, notify, rlock>>
    BY <1>9 DEF ReadHdr
  <2> QED BY <2>1 DEF News!vars, Version
<1>10. CASE ReadBody \/ ListDisk \/ ListEnd
  <2>1. /\ UNCHANGED <<hist, told, unread, notify, rlock, hdr>>
        /\ pc \in {"body", "check", "loop", "ok"} /\ pc' \in {"body", "check", "loop", "ok"}
    BY <1>10 DEF ReadBody, ListDisk, AddDisk, ListEnd, Go
  <2> QED BY <2>1, NewsStutter
<1>11. CASE ReadFails \/ Check
  <2>1. /\ UNCHANGED <<hist, told, unread, notify, rlock, hdr>> /\ pc \in {"hdr", "body", "check"}
        /\ pc = "hdr" => wire = <<>> /\ pc' = "failed"
        /\ pc' \in {"failed", "loop", "ok"}
    BY <1>11 DEF ReadFails, Check
  <2>2. rlock = "main"
    BY <2>1, <1>t DEF LockSpan
  <2>3. CASE pc = "hdr" \/ pc' # "failed"
    BY <2>1, <2>3, NewsStutter
  <2>4. CASE pc # "hdr" /\ pc' = "failed"
    BY <2>1, <2>2, <2>4, <1>0 DEF News!Next, News!Spoil, News!NoList, Version
  <2> QED BY <2>3, <2>4
<1>12. CASE Unlock
  <2>1. /\ pc \in {"ok", "failed"} /\ pc' = "idle" /\ rlock' = "free" /\ UNCHANGED <<hist, told, unread>>
        /\ notify' = (notify /\ pc = "failed")
    BY <1>12 DEF Unlock, Return
  <2>2. rlock = "main"
    BY <2>1, <1>t DEF LockSpan
  <2>3. CASE pc = "ok"
    <3>1. notify' = FALSE
      BY <2>1, <2>3
    <3> QED BY <2>1, <2>2, <2>3, <3>1, <1>0 DEF News!Next, News!Answer, News!NoList, Version
  <2>4. CASE pc = "failed"
    <3>1. notify' = notify
      BY <2>1, <2>4, <1>0
    <3> QED BY <2>1, <2>2, <2>4, <3>1 DEF News!Next, News!Refuse, News!NoList, Version
  <2> QED BY <2>1, <2>3, <2>4
<1>13. CASE EvRead /\ ThrowAway
  <2>1. /\ told' = event /\ unread' = unread \cup {event} /\ evpc = "read"
        /\ UNCHANGED <<hist, notify, rlock, pc, hdr, wire>>
    BY <1>13 DEF EvRead, ThrowAway
  <2>2. event = told + 1 /\ event <= Version
    BY <2>1, <1>t, <1>0 DEF EventOrder, Read
  <2> QED BY <2>1, <2>2, <1>0 DEF News!Next, News!Miss, Version
<1>14. CASE EvRead /\ PassOn
  <2>1. UNCHANGED <<hist, told, unread, notify, rlock, pc, hdr, wire>>
    BY <1>14 DEF EvRead, PassOn
  <2> QED BY <2>1, NewsStutter
<1>15. EvRead => (EvRead /\ ThrowAway) \/ (EvRead /\ PassOn)
  BY DEF EvRead
<1> QED BY <1>1, <1>2, <1>3, <1>4, <1>5, <1>6, <1>7, <1>8, <1>9, <1>10, <1>11, <1>12, <1>13,
           <1>14, <1>15
        DEF Next, Main

(* A call that is taken apart keeps the promise of DiskNews.                *)
THEOREM Implements == Spec => ImplementsNews
<1>1. Init => News!Init
  BY NewsInit
<1>2. IInv /\ [Next]_vars => [News!Next]_News!vars
  BY NewsStep
<1> QED BY <1>1, <1>2, Inductive, PTL DEF Spec, ImplementsNews, News!Spec
=============================================================================
