------------------------------ MODULE Requests ------------------------------
(***************************************************************************)
(* Requests for files, from the first byte of a package to its answer:     *)
(* usStorage_RecvPackage() and usStorage_ProtocolHandle() of usStorage.c,  *)
(* the handlers of usDecode.c, the file operations of usDisk.c, over the   *)
(* stream of an Android phone (aoa_RecvProPackage, usUsb.c).               *)
(*                                                                         *)
(* A package is a header and payload, of which one read may get a part,    *)
(* even of the header, or more than one.  The app sends a request, waits for its answer or gives  *)
(* up, and always finishes a package it began.  The phone hands on what it *)
(* receives when a USB packet comes that is not full; of an answer the app *)
(* takes the header and as much as that says.  The disk has a cache: what *)
(* was not written back is lost when it is pulled out.  LIST and the disk  *)
(* and firmware requests have modules of their own.                        *)
(***************************************************************************)
EXTENDS Integers, Sequences, SequencesExt

CONSTANTS Paths,      (* files and (empty) directories of the disk            *)
          Requests,   (* what the app may ask for                             *)
          BufSize,    (* uspaylen, in units of the header and payload         *)
          UsbPacket,  (* 512: what a full USB packet holds                    *)
          MaxTag,     (* bound: requests                                      *)
          MaxGiveUp,  (* bound: requests the app does not wait for            *)
          MaxUnplug   (* bound: times the disk is pulled out                  *)

(* A payload has the fields of its structure in protocol.h.                   *)
ASSUME RequestsAssumption ==
  /\ {BufSize, MaxTag, MaxGiveUp, MaxUnplug} \subseteq Nat
  /\ UsbPacket \in Nat /\ UsbPacket > 1
  /\ \A r \in Requests :
       /\ r.op \in {"READ", "WRITE", "CREATE", "DELETE", "MOVE"} => r.path \in Paths
       /\ r.op = "MOVE" => r.to \in Paths
       /\ r.op \in {"READ", "WRITE"} => r.offset \in Nat
       /\ r.op = "READ" => r.size \in Nat
       /\ r.op = "WRITE" => r.data \in Seq(Nat)

VARIABLES
  (* the app and the stream *)
  sent,      \* the requests sent, by tag
  sending,   \* what the app has left to send of the last one
  waiting,   \* it waits for the answer to that
  givenup,   \* requests it did not wait for
  pipe,      \* sent and not received
  inbox,     \* of the answers, what the app can read
  held,      \* what has come to the phone after that
  (* main() *)
  pc,        \* "recv", "write" (the loop of usDisk_diskWrite), "reply"
  buf,       \* usContext.uspayload
  wpos,      \* already, of usDisk_diskWrite
  reply,     \* the answer's relag and payload
  rpos,      \* already, of aoa_SendProPackage
  (* the disk *)
  fs,        \* what the file system shows
  stored,    \* what is on the medium
  present, readonly, unplugs,
  (* history *)
  before,    \* fs when the request was received
  steady,    \* the disk has been there since then
  promised,  \* what the app may count on, path by path, since its last SYNC_WRITE
  clean      \* what is in this session's streams is whole: nothing of it was lost
             \* to a timeout, skipped, or is for a request that was given up

back   == <<inbox, held>>
stream == <<sent, sending, waiting, givenup, pipe, back>>
disk   == <<fs, stored, present, readonly, unplugs>>
hist   == <<before, steady, promised, clean>>
vars   == <<stream, pc, buf, wpos, reply, rpos, disk, hist>>

-----------------------------------------------------------------------------
None    == [kind |-> "none", data |-> <<>>]
Dir     == [kind |-> "dir", data |-> <<>>]
File(d) == [kind |-> "file", data |-> d]
Nothing == [p \in Paths |-> None]
Content == [kind : {"none", "dir", "file"}, data : Seq(Nat)]
Unsure  == [kind |-> "any", data |-> <<>>]

(* A request's payload: a unit for each that it writes, one for a path.       *)
PayLen(r) == CASE r.op = "MAGIC" -> 0 [] r.op = "WRITE" -> Len(r.data) [] OTHER -> 1

(* A header may be cut in two.                                                *)
HdrLen     == 2
UnitsOf(r) == HdrLen + PayLen(r)
Units(t)   == UnitsOf(sent[t])
Package(t) == [i \in 1..Units(t) |-> <<t, i - 1>>]

(* The unit that a header begins with.                                        *)
IsHeader(u) == u[2] = 0

Tag      == buf[1][1]
Request  == sent[Tag]

(* Fault: the loop goes on at "curSize <= totalSize".                          *)
CompleteOver == pc = "recv" /\ buf # <<>> /\ Len(buf) > Units(Tag)

Complete == pc = "recv" /\ buf # <<>> /\ Len(buf) >= Units(Tag)
NoReply  == [ok |-> FALSE, data |-> <<>>]

(* An answer's units carry the request's tag and the length in the header,    *)
(* which is one of them.                                                      *)
Answers(t, len) == [i \in 1..len |-> <<t, i - 1, len>>]
ReplyUnits      == Answers(Tag, 1 + Len(reply.data))

TypeOK ==
  /\ sent \in Seq(Requests) /\ Len(sent) <= MaxTag
  /\ sending \in Seq((1..MaxTag) \X Nat) /\ pipe \in Seq((1..MaxTag) \X Nat)
  /\ waiting \in BOOLEAN /\ givenup \in 0..MaxGiveUp
  /\ pc \in {"recv", "write", "reply"}
  /\ buf \in Seq((1..MaxTag) \X Nat) /\ Len(buf) <= BufSize
  /\ buf # <<>> => IsHeader(buf[1])
  /\ pc # "recv" => buf # <<>>
  /\ wpos \in Nat /\ rpos \in Nat
  /\ reply \in [ok : BOOLEAN, data : Seq(Nat)]
  /\ {inbox, held} \subseteq Seq((1..MaxTag) \X Nat \X Nat)
  /\ {fs, stored} \subseteq [Paths -> Content]
  /\ present \in BOOLEAN /\ readonly \in BOOLEAN /\ unplugs \in 0..MaxUnplug
  /\ ~present => fs = Nothing
  /\ steady \in BOOLEAN /\ clean \in BOOLEAN

Init ==
  /\ sent = <<>> /\ sending = <<>> /\ waiting = FALSE /\ givenup = 0 /\ pipe = <<>>
  /\ inbox = <<>> /\ held = <<>>
  /\ pc = "recv" /\ buf = <<>> /\ wpos = 0 /\ reply = NoReply /\ rpos = 0
  /\ fs \in [Paths -> {None, File(<<0>>)}] /\ stored = fs
  /\ present = TRUE /\ readonly = FALSE /\ unplugs = 0
  /\ before = Nothing /\ steady = TRUE
  /\ promised = [p \in Paths |-> Unsure]
  /\ clean = TRUE

-----------------------------------------------------------------------------
(* The app, and the phone.                                                    *)

(* Nothing is left of what went before.                                       *)
Quiet == pc = "recv" /\ pipe = <<>> /\ buf = <<>> /\ inbox = <<>> /\ held = <<>>

Ask ==
  /\ ~waiting /\ sending = <<>> /\ Len(sent) < MaxTag
  /\ \E r \in Requests :
       /\ sent' = Append(sent, r)
       /\ sending' = [i \in 1..UnitsOf(r) |-> <<Len(sent) + 1, i - 1>>]
  /\ waiting' = TRUE /\ clean' = (clean \/ Quiet)
  /\ UNCHANGED <<givenup, pipe, back, pc, buf, wpos, reply, rpos, disk,
                 before, steady, promised>>

Send ==
  /\ sending # <<>>
  /\ pipe' = Append(pipe, Head(sending)) /\ sending' = Tail(sending)
  /\ UNCHANGED <<sent, waiting, givenup, back, pc, buf, wpos, reply, rpos, disk, hist>>

(* The next request may be sent while this one is in the stream.              *)
GiveUp ==
  /\ waiting /\ sending = <<>> /\ givenup < MaxGiveUp
  /\ givenup' = givenup + 1
  /\ waiting' = FALSE /\ clean' = FALSE
  /\ UNCHANGED <<sent, sending, pipe, back, pc, buf, wpos, reply, rpos, disk,
                 before, steady, promised>>

(* The app takes an answer, which is for the request it waits for or for one  *)
(* that it gave up; what does not begin with a header is of no use.           *)
Taken == SubSeq(inbox, 1, inbox[1][3])

TakeAnswer ==
  /\ inbox # <<>>
  /\ \/ /\ IsHeader(inbox[1]) /\ Len(inbox) >= inbox[1][3]
        /\ inbox' = SubSeq(inbox, inbox[1][3] + 1, Len(inbox))
        /\ waiting' = (waiting /\ inbox[1][1] # Len(sent))
     \/ ~IsHeader(inbox[1]) /\ inbox' = Tail(inbox) /\ UNCHANGED waiting
  /\ UNCHANGED <<sent, sending, givenup, pipe, held, pc, buf, wpos, reply, rpos, disk, hist>>

NewSession ==
  /\ pc' = "recv" /\ buf' = <<>> /\ pipe' = <<>> /\ sending' = <<>>
  /\ inbox' = <<>> /\ held' = <<>>
  /\ waiting' = FALSE /\ clean' = TRUE

(* The phone leaves, and comes back.                                          *)
PhoneLeaves ==
  /\ pc = "recv" /\ ~Complete
  /\ waiting \/ pipe # <<>>
  /\ NewSession
  /\ UNCHANGED <<sent, givenup, wpos, reply, rpos, disk, before, steady, promised>>

-----------------------------------------------------------------------------
(* The disk.                                                                  *)

Writeback ==
  /\ present /\ stored # fs
  /\ stored' = fs
  /\ UNCHANGED <<stream, pc, buf, wpos, reply, rpos, fs, present, readonly, unplugs, hist>>

(* It is pulled out; what the app knew of changes that were not synced is     *)
(* void, and it will be told.                                                 *)
Unplug ==
  /\ present /\ unplugs < MaxUnplug
  /\ unplugs' = unplugs + 1
  /\ present' = FALSE /\ fs' = Nothing
  /\ steady' = FALSE
  /\ UNCHANGED <<stream, pc, buf, wpos, reply, rpos, stored, readonly, before, promised,
                 clean>>

Replug ==
  /\ ~present
  /\ present' = TRUE /\ readonly' = FALSE /\ fs' = stored
  /\ UNCHANGED <<stream, pc, buf, wpos, reply, rpos, stored, unplugs, hist>>

(* The kernel makes a file system with errors read-only.                      *)
Errors ==
  /\ present /\ ~readonly
  /\ readonly' = TRUE
  /\ UNCHANGED <<stream, pc, buf, wpos, reply, rpos, fs, stored, present, unplugs, hist>>

-----------------------------------------------------------------------------
(* usStorage_RecvPackage().                                                   *)

Take(k) ==
  /\ k <= Len(pipe)
  /\ pipe' = SubSeq(pipe, k + 1, Len(pipe))
  /\ UNCHANGED <<sent, sending, waiting, givenup, back>>

(* The first read; what is shorter than a header, does not begin with one, or *)
(* is too big, is skipped.                                                    *)
RecvFirst ==
  /\ pc = "recv" /\ buf = <<>>
  /\ \E k \in 1..BufSize :
       LET got == SubSeq(pipe, 1, k) IN
       /\ Take(k)
       /\ IF k >= HdrLen /\ IsHeader(got[1]) /\ Units(got[1][1]) <= BufSize
          THEN buf' = got /\ UNCHANGED clean
          ELSE clean' = FALSE /\ UNCHANGED buf
  /\ UNCHANGED <<pc, wpos, reply, rpos, disk, before, steady, promised>>

ReadRest(room) ==
  /\ pc = "recv" /\ buf # <<>> /\ ~Complete
  /\ \E k \in 1..room :
       /\ Take(k)
       /\ buf' = buf \o SubSeq(pipe, 1, k)
  /\ UNCHANGED <<pc, wpos, reply, rpos, disk, hist>>

(* Fault: the room for them is taken to be the whole buffer.                  *)
RecvMoreOver == ReadRest(BufSize)

(* The reads for the rest of a package.                                       *)
RecvMore == ReadRest(BufSize - Len(buf))

(* Fault: the package is handled as far as it was received.                   *)
RecvTimeoutHandling ==
  /\ pc = "recv" /\ ~Complete
  /\ sending # <<>>
  /\ Take(Len(pipe))
  /\ buf' = IF buf = <<>> THEN buf ELSE buf \o [i \in 1..(Units(Tag) - Len(buf)) |-> <<Tag, 0>>]
  /\ clean' = FALSE
  /\ UNCHANGED <<pc, wpos, reply, rpos, disk, before, steady, promised>>

(* A read times out while the app is in the middle of a package, and what it  *)
(* got is lost with what was there.                                           *)
RecvTimeout ==
  /\ pc = "recv" /\ ~Complete
  /\ sending # <<>>
  /\ Take(Len(pipe))
  /\ buf' = <<>>
  /\ clean' = FALSE
  /\ UNCHANGED <<pc, wpos, reply, rpos, disk, before, steady, promised>>

-----------------------------------------------------------------------------
(* usStorage_ProtocolHandle() and the handlers.                               *)

Start(op) ==
  /\ Complete /\ Request.op = op
  /\ before' = fs /\ steady' = TRUE

(* A path that is changed may no longer be counted on.                        *)
Changed(ps) == promised' = [p \in Paths |-> IF p \in ps THEN Unsure ELSE promised[p]]

Answer(ok, data) == pc' = "reply" /\ reply' = [ok |-> ok, data |-> data]

Finish(ok, data) ==
  /\ Answer(ok, data)
  /\ UNCHANGED <<stream, buf, wpos, rpos, stored, present, readonly, unplugs, clean>>

Least(a, b) == IF a < b THEN a ELSE b

(* usDecode_ReadHandle(): the end of the file ends the read.                  *)
Read ==
  /\ Start("READ")
  /\ LET f == fs[Request.path] IN
     \/ f.kind = "file" /\ Finish(TRUE, SubSeq(f.data, Request.offset + 1,
                                       Least(Request.offset + Request.size, Len(f.data))))
     \/ Finish(FALSE, <<>>)
  /\ UNCHANGED <<fs, promised>>

Create ==
  /\ Start("CREATE")
  /\ LET p    == Request.path
         made == [fs EXCEPT ![p] = IF Request.dir THEN Dir ELSE File(<<>>)] IN
     \/ fs[p] = None /\ present /\ ~readonly /\ fs' = made /\ Changed({p}) /\ Finish(TRUE, <<>>)
     \/ fs[p] # None /\ UNCHANGED <<fs, promised>> /\ Finish(TRUE, <<>>)
     \* utime() fails, or what goes before
     \/ /\ fs[p] = None /\ present /\ ~readonly
        /\ fs' = made /\ Changed({p}) /\ Finish(FALSE, <<>>)
     \/ UNCHANGED <<fs, promised>> /\ Finish(FALSE, <<>>)

(* usDecode_DeleteHandle(): remove() of a file says when it fails, rm -rf of  *)
(* a directory does not.                                                      *)
Delete ==
  /\ Start("DELETE")
  /\ LET p    == Request.path
         able == present /\ ~readonly
         gone == fs' = [fs EXCEPT ![p] = None] /\ Changed({p}) IN
     \/ ~Request.dir /\ fs[p] # None /\ able /\ gone /\ Finish(TRUE, <<>>)
     \/ ~Request.dir /\ UNCHANGED <<fs, promised>> /\ Finish(FALSE, <<>>)
     \/ Request.dir /\ able /\ gone /\ Finish(TRUE, <<>>)
     \/ Request.dir /\ ~able /\ UNCHANGED <<fs, promised>> /\ Finish(TRUE, <<>>)

(* rename().                                                                  *)
Renames(from, to) ==
  /\ present /\ ~readonly
  /\ fs[from] # None /\ fs[to].kind \in {"none", fs[from].kind}

Move ==
  /\ Start("MOVE")
  /\ LET from == Request.path  to == Request.to IN
     \/ /\ Renames(from, to)
        /\ fs' = [fs EXCEPT ![from] = None, ![to] = fs[from]]
        /\ Changed({from, to}) /\ Finish(TRUE, <<>>)
     \/ UNCHANGED <<fs, promised>> /\ Finish(FALSE, <<>>)

(* Fault: the answer does not wait for the writes.                            *)
SyncLater ==
  /\ Start("SYNC_WRITE")
  /\ Answer(TRUE, <<>>)
  /\ IF present /\ ~readonly THEN promised' = fs ELSE UNCHANGED promised
  /\ UNCHANGED <<stream, buf, wpos, rpos, disk, clean>>

(* usDecode_SyncCacheHandle(): sync() writes everything back, or says nothing *)
(* where the file system is in error.                                         *)
Sync ==
  /\ Start("SYNC_WRITE")
  /\ Answer(TRUE, <<>>)
  /\ IF present /\ ~readonly THEN stored' = fs /\ promised' = fs ELSE UNCHANGED <<stored, promised>>
  /\ UNCHANGED <<stream, buf, wpos, rpos, fs, present, readonly, unplugs, clean>>

(* PRO_BASIC_MAGIC, and a request there is no handler for.                    *)
Basic ==
  /\ \E op \in {"MAGIC", "UNKNOWN"} : Start(op) /\ Finish(op = "MAGIC", <<>>)
  /\ UNCHANGED <<fs, promised>>

(* Requests whose outcome is up to the system: the configuration files are    *)
(* read, the clock is set.                                                    *)
System(op) ==
  /\ Start(op)
  /\ \E ok \in BOOLEAN : Finish(ok, <<>>)
  /\ UNCHANGED <<fs, promised>>

FirmwareInfo == System("FIRMWARE_INFO")
SyncTime     == System("SYNC_TIME")

(* SAFEREMOVE leaves nothing to send, which SendPackage refuses; main() takes *)
(* the phone for offline and looks for it again.                              *)
SafeRemove ==
  /\ Complete /\ Request.op = "SAFEREMOVE"
  /\ buf' = <<>>
  /\ UNCHANGED <<stream, pc, wpos, reply, rpos, disk, hist>>

-----------------------------------------------------------------------------
(* usDecode_WriteHandle(): usDisk_diskWrite() writes to a file there is.      *)

WriteOpen ==
  /\ Start("WRITE")
  /\ LET p == Request.path IN
     \/ /\ fs[p].kind = "file" /\ ~readonly /\ Request.data # <<>>
        /\ pc' = "write" /\ wpos' = 0 /\ Changed({p})
        /\ UNCHANGED <<stream, buf, reply, rpos, disk, clean>>
     \/ UNCHANGED <<fs, promised>> /\ Finish(FALSE, <<>>)

(* data with d from offset on; a gap is filled with zeros.                    *)
Overlay(data, offset, d) ==
  LET end == offset + Len(d)
      len == IF end > Len(data) THEN end ELSE Len(data)
  IN [i \in 1..len |-> IF i > offset /\ i <= end THEN d[i - offset]
                       ELSE IF i <= Len(data) THEN data[i] ELSE 0]

(* One write() of the loop.                                                   *)
WriteStep ==
  /\ pc = "write" /\ wpos < Len(Request.data) /\ present /\ ~readonly /\ steady
  /\ \E n \in 1..(Len(Request.data) - wpos) :
       /\ wpos' = wpos + n
       /\ fs' = [fs EXCEPT ![Request.path].data =
                   Overlay(@, Request.offset + wpos, SubSeq(Request.data, wpos + 1, wpos + n))]
  /\ UNCHANGED <<stream, pc, buf, reply, rpos, stored, present, readonly, unplugs, hist>>

EndWrite(ok) ==
  /\ Answer(ok, <<>>)
  /\ UNCHANGED <<stream, buf, wpos, rpos, disk, hist>>

WriteDone  == pc = "write" /\ wpos = Len(Request.data) /\ EndWrite(TRUE)

(* Fault: "But we think is ok", as with trueWrite.                            *)
WriteFailsOk == pc = "write" /\ wpos < Len(Request.data) /\ EndWrite(TRUE)

(* The disk is full, or gone: with trueWrite NULL this is an error, whatever  *)
(* was written.                                                               *)
WriteFails == pc = "write" /\ wpos < Len(Request.data) /\ EndWrite(FALSE)

-----------------------------------------------------------------------------
(* usProtocol_SendPackage() of the answer, aoa_SendProPackage(), and main().  *)

(* The handlers' local state ends with them.                                  *)
Forget ==
  wpos' = 0 /\ reply' = NoReply /\ rpos' = 0 /\ before' = Nothing /\ steady' = TRUE

(* A transfer of full packets only would not be seen to end: "sndSize =       *)
(* freeSize-1".                                                               *)
Transfer == LET free == Len(ReplyUnits) - rpos IN
            IF free % UsbPacket = 0 THEN free - 1 ELSE free

(* What the phone hands on of what it has got: all, when the end of a         *)
(* transfer shows.                                                            *)
Arrives(units, end) ==
  /\ inbox' = IF end THEN inbox \o held \o units ELSE inbox
  /\ held' = IF end THEN <<>> ELSE held \o units

(* Fault: a second transfer begins where the first one did.                   *)
PartAgain(n) == SubSeq(ReplyUnits, 1, n)

Part(n) == SubSeq(ReplyUnits, rpos + 1, rpos + n)

Reply ==
  /\ pc = "reply"
  /\ Arrives(Part(Transfer), Transfer % UsbPacket # 0)
  /\ IF rpos + Transfer = Len(ReplyUnits)
     THEN pc' = "recv" /\ buf' = <<>> /\ Forget
     ELSE /\ rpos' = rpos + Transfer
          /\ UNCHANGED <<pc, buf, wpos, reply, before, steady>>
  /\ UNCHANGED <<sent, sending, waiting, givenup, pipe, disk, promised, clean>>

(* A timeout keeps the session, though some packets may have reached the      *)
(* phone.                                                                     *)
ReplyTimeout ==
  /\ pc = "reply" /\ pc' = "recv" /\ buf' = <<>>
  /\ \E n \in 0..Transfer : n % UsbPacket = 0 /\ Arrives(Part(n), FALSE)
  /\ clean' = FALSE
  /\ Forget
  /\ UNCHANGED <<sent, sending, waiting, givenup, pipe, disk, promised>>

ReplyFails ==
  /\ pc = "reply"
  /\ NewSession /\ Forget
  /\ UNCHANGED <<sent, givenup, disk, promised>>

Handle == \/ Read \/ Create \/ Delete \/ Move \/ Sync \/ Basic
          \/ FirmwareInfo \/ SyncTime \/ SafeRemove
          \/ WriteOpen \/ WriteStep \/ WriteDone \/ WriteFails
          \/ Reply \/ ReplyTimeout \/ ReplyFails

Next == \/ Ask \/ Send \/ GiveUp \/ TakeAnswer \/ PhoneLeaves
        \/ Writeback \/ Unplug \/ Replug \/ Errors
        \/ RecvFirst \/ RecvMore \/ RecvTimeout \/ Handle

Spec == Init /\ [][Next]_vars

(* The app finishes its package and reads, and main() runs; the disk takes or *)
(* refuses what is written to it.                                             *)
FairSpec ==
  /\ Spec
  /\ WF_vars(Send) /\ WF_vars(TakeAnswer)
  /\ WF_vars(RecvFirst) /\ WF_vars(RecvMore) /\ WF_vars(Handle)

-----------------------------------------------------------------------------
(* What is handled is a package as the app sent it: neither a part of one     *)
(* whose rest did not come in time nor parts of two.                          *)
WholePackages == (Complete \/ pc # "recv") => IsPrefix(Package(Tag), buf)

(* What the app takes for an answer is one as main() sent it, in the order of *)
(* its units, whatever transfers it came in.                                  *)
TakenWhole == TakeAnswer /\ IsHeader(inbox[1]) => Taken = Answers(Taken[1][1], Len(Taken))

AnswersWhole == [][clean => TakenWhole]_vars

(* The same after timeouts.  The code keeps the session when the time for an  *)
(* answer is up, so this does not hold.                                       *)
AnswersWholeLate == [][TakenWhole]_vars

(* An answer without error means that what was asked is done, all of it and   *)
(* nothing else, unless the disk left in the meantime; and a read returns     *)
(* what is in the file.  (For DELETE, see DeleteDone.)                        *)
Done(r) ==
  CASE r.op = "WRITE" ->
         fs = [before EXCEPT ![r.path].data = Overlay(@, r.offset, r.data)]
    [] r.op = "CREATE" ->
         /\ fs[r.path] # None
         /\ \A p \in Paths : before[p] # None \/ p # r.path => fs[p] = before[p]
    [] r.op = "MOVE" ->
         fs = [before EXCEPT ![r.path] = None, ![r.to] = before[r.path]]
    [] r.op = "READ" ->
         \A i \in 1..r.size :
           IF r.offset + i <= Len(fs[r.path].data)
           THEN i <= Len(reply.data) /\ reply.data[i] = fs[r.path].data[r.offset + i]
           ELSE i > Len(reply.data)
    [] OTHER -> TRUE

OkMeansDone == pc = "reply" /\ reply.ok /\ steady => Done(Request)

(* What an answered SYNC_WRITE covered (of a file system without errors) is   *)
(* there whenever the disk is, even after it was pulled out, until the app    *)
(* changes it.                                                                *)
SyncedKept ==
  present => \A p \in Paths : promised[p] # Unsure => fs[p] = promised[p]

(* A request is answered, or its session ends: no disk and no file keeps      *)
(* main() from it.  That is, unless something of the stream is lost: to a     *)
(* timeout in the middle of a package or of an answer, to a read that ends    *)
(* within a header, or with a package that does not fit the buffer; or        *)
(* unless the app gives up.  It holds again from the first request on that is *)
(* made when nothing is left of that in the streams.  And one request has no  *)
(* answer in the code.                                                        *)
Implemented == Last(sent).op # "SAFEREMOVE"

Answered == [](waiting /\ clean /\ Implemented => <>(~waiting \/ ~clean))

(* protocol.h on relag: "Response Code": each request has its response, an    *)
(* error if nothing else.                                                     *)
Responded == [](waiting /\ clean => <>(~waiting \/ ~clean))

(* protocol.h: USTOR_EOK is "successful": what was deleted is gone.           *)
DeleteDone ==
  pc = "reply" /\ reply.ok /\ Request.op = "DELETE" => fs[Request.path] = None
=============================================================================
