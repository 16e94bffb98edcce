----------------------------- MODULE ItunesMux -----------------------------
(***************************************************************************)
(* The daemon's end of the iPhone's packet protocol (usProtocol.c): a TCP  *)
(* look-alike inside usbmux packets over two USB pipes, spoken by one      *)
(* thread that sends, receives and waits in turn.  The phone (its usbmux   *)
(* end and the app behind it) is the environment.                          *)
(*                                                                         *)
(* One claim of one phone: the module ends where main() releases it.  A    *)
(* packet to the phone travels whole, as one transfer; one from the phone  *)
(* may take two.  Lengths are in units; sequence numbers are only added to *)
(* and compared for equality in the code, so their 32 bits do not show.    *)
(***************************************************************************)
EXTENDS Integers, Sequences

CONSTANTS MaxPacket,   (* IOS_MAX_PACKET: the most one packet carries        *)
          TxWin,       (* IOS_WIN_SIZE: the window the daemon advertises     *)
          PhoneBuf,    (* what the phone buffers for its app                 *)
          MaxSeg,      (* the most the phone puts in a packet                *)
          MaxPkg,      (* the longest package the upper layer sends          *)
          Pipe,        (* packets a USB pipe holds before its reader is late *)
          MaxTx, MaxRx (* bounds: units sent each way in one connection      *)

ASSUME ItunesMuxAssumption ==
  /\ {MaxPacket, PhoneBuf, MaxSeg, MaxPkg, Pipe, MaxTx, MaxRx} \subseteq Nat \ {0}
  /\ TxWin \in Nat /\ TxWin > MaxSeg

VARIABLES
  pc,       \* where the thread is
  tx_seq, tx_ack, rx_ack, rx_win,   \* of struct mux_itunes
  interBuf, \* the numbers in the header of a packet whose rest has not come
  left,     \* of the package being sent, or of the segment being received
  win,      \* itunes_SendProPackage's own copy of rx_win
  out, in,  \* the two USB pipes
  phone,    \* the phone's end of the connection, and the rest it has to send
  cut       \* history: in this connection a packet was given up half-way

seqVars == <<tx_seq, tx_ack, rx_ack, rx_win>>
recvVars == <<interBuf, cut>>
vars == <<pc, seqVars, recvVars, left, win, out, in, phone>>

Least(a, b) == IF a < b THEN a ELSE b

Handshake == {"version", "versionWait", "setup", "syn", "synWait", "ctlWait", "final"}
Session   == {"idle", "rest", "dataAck", "segment", "winWait"}

Packet(type, seq, ack, len, window) ==
  [type |-> type, seq |-> seq, ack |-> ack, len |-> len, win |-> window]

(* itunes_SendTCP() fills in the daemon's numbers.                            *)
Tcp(type, len) == Packet(type, tx_seq, tx_ack, len, TxWin)
Mux(type)      == Packet(type, 0, 0, 0, 0)

(* A packet with "head" is an "ack" of which the "rest" is another transfer.  *)
Packets == [type : {"version", "setup", "control", "syn", "synack", "ack", "rst",
                    "head", "rest"},
            seq : Nat, ack : Nat, len : Nat, win : Nat]

TypeOK ==
  /\ pc \in Handshake \cup Session \cup {"reset", "released"}
  /\ {tx_seq, tx_ack, rx_ack, rx_win, left, win} \subseteq Nat
  /\ out \in Seq(Packets) /\ in \in Seq(Packets)
  /\ phone \in [conn : {"closed", "synRcvd", "estab"}, rcvNxt : Nat,
                sndNxt : Nat, acked : Nat, held : Nat, rest : BOOLEAN]
  /\ interBuf \in [ack : Nat, win : Nat] /\ cut \in BOOLEAN

Closed == [conn |-> "closed", rcvNxt |-> 0, sndNxt |-> 0, acked |-> 0, held |-> 0,
           rest |-> FALSE]
Unread == [ack |-> 0, win |-> 0]

Init ==
  /\ pc = "version"
  /\ tx_seq = 0 /\ tx_ack = 0 /\ rx_ack = 0 /\ rx_win = 0
  /\ left = 0 /\ win = 0
  /\ out = <<>> /\ in = <<>>
  /\ phone = Closed
  /\ interBuf = Unread /\ cut = FALSE

-----------------------------------------------------------------------------
(* The phone.  It takes one packet at a time and answers when its pipe has    *)
(* room.                                                                      *)

Free == IF phone.held > PhoneBuf THEN 0 ELSE PhoneBuf - phone.held

Take(type) == out # <<>> /\ Head(out).type = type /\ out' = Tail(out)

Answer(p) == ~phone.rest /\ Len(in) < Pipe /\ in' = Append(in, p)

(* A reset carries a message and a closed window (itunes.log:96).             *)
Refusal(p) == Packet("rst", 0, p.seq + p.len + (IF p.type = "syn" THEN 1 ELSE 0), 1, 0)

PhoneVersion ==
  /\ Take("version")
  /\ Answer(Mux("version"))
  /\ UNCHANGED <<pc, seqVars, recvVars, left, win, phone>>

PhoneSetup ==
  /\ Take("setup")
  /\ UNCHANGED <<pc, seqVars, recvVars, left, win, in, phone>>

(* A message of the phone's usbmux end, at any time after the first contact.  *)
PhoneControl ==
  /\ pc # "version"
  /\ Answer(Mux("control"))
  /\ UNCHANGED <<pc, seqVars, recvVars, left, win, out, phone>>

(* A SYN opens a closed connection if the app listens.  Repeated, it is       *)
(* answered as before or, if it does not fit, resets the connection.          *)
PhoneSyn ==
  /\ Take("syn")
  /\ LET p == Head(out) IN
     \/ /\ phone.conn = "closed"
        /\ phone' = [Closed EXCEPT !.conn = "synRcvd", !.rcvNxt = p.seq + 1, !.sndNxt = 1]
        /\ Answer(Packet("synack", 0, p.seq + 1, 0, PhoneBuf))
     \/ /\ phone.conn = "synRcvd" /\ p.seq + 1 = phone.rcvNxt
        /\ Answer(Packet("synack", 0, p.seq + 1, 0, PhoneBuf))
        /\ UNCHANGED phone
     \/ phone' = Closed /\ Answer(Refusal(p))
  /\ UNCHANGED <<pc, seqVars, recvVars, left, win>>

(* A packet that fits is taken in, and acknowledged at once or later; one     *)
(* that does not fit resets the connection.                                   *)
Fits(p) ==
  /\ phone.conn # "closed"
  /\ p.seq = phone.rcvNxt
  /\ phone.acked <= p.ack /\ p.ack <= phone.sndNxt

PhoneTake ==
  /\ Take("ack")
  /\ LET p == Head(out) IN
     \/ /\ Fits(p)
        /\ phone' = [phone EXCEPT !.conn = "estab", !.rcvNxt = @ + p.len,
                                  !.acked = p.ack, !.held = @ + p.len]
        /\ \/ UNCHANGED in
           \/ /\ p.len > 0
              /\ Answer(Packet("ack", phone.sndNxt, p.seq + p.len, 0,
                               IF Free > p.len THEN Free - p.len ELSE 0))
     \/ ~Fits(p) /\ phone' = Closed /\ Answer(Refusal(p))
  /\ UNCHANGED <<pc, seqVars, recvVars, left, win>>

(* The app sends, as far as the daemon's window lets it; a packet of more    *)
(* than a unit may go out in two transfers.                                   *)
PhoneSend ==
  /\ phone.conn = "estab"
  /\ \E len \in 1..MaxSeg : \E type \in {"ack"} \cup (IF len > 1 THEN {"head"} ELSE {}) :
       /\ phone.sndNxt + len <= MaxRx + 1
       /\ phone.sndNxt + len - phone.acked <= TxWin
       /\ Answer(Packet(type, phone.sndNxt, phone.rcvNxt, len, Free))
       /\ phone' = [phone EXCEPT !.sndNxt = @ + len, !.rest = (type = "head")]
  /\ UNCHANGED <<pc, seqVars, recvVars, left, win, out>>

PhoneRest ==
  /\ phone.rest /\ phone' = [phone EXCEPT !.rest = FALSE]
  /\ Len(in) < Pipe /\ in' = Append(in, Packet("rest", 0, 0, 0, 0))
  /\ UNCHANGED <<pc, seqVars, recvVars, left, win, out>>

(* The app reads; a window that was closed is announced as open again.        *)
PhoneRead ==
  /\ phone.conn = "estab" /\ phone.held > 0
  /\ phone' = [phone EXCEPT !.held = 0]
  /\ IF phone.held < PhoneBuf THEN UNCHANGED in
     ELSE Answer(Packet("ack", phone.sndNxt, phone.rcvNxt, 0, PhoneBuf))
  /\ UNCHANGED <<pc, seqVars, recvVars, left, win, out>>

(* The app quits.                                                             *)
PhoneReset ==
  /\ phone.conn # "closed"
  /\ phone' = Closed
  /\ Answer(Packet("rst", phone.sndNxt, phone.rcvNxt, 1, 0))
  /\ UNCHANGED <<pc, seqVars, recvVars, left, win, out>>

PhoneReacts == PhoneVersion \/ PhoneSetup \/ PhoneSyn \/ PhoneTake \/ PhoneRest

-----------------------------------------------------------------------------
(* usUsb_BlukPacketSend() and _Receive().  A send times out when the phone    *)
(* is late in reading, a receive when the phone is late in answering.         *)

Sent(p)  == Len(out) < Pipe /\ out' = Append(out, p)
NotSent  == Len(out) = Pipe /\ UNCHANGED out
Received(types) == in # <<>> /\ Head(in).type \in types /\ in' = Tail(in)
Nothing  == in = <<>> /\ UNCHANGED in

Go(from, to) == pc = from /\ pc' = to

NoteHeader == rx_ack' = Head(in).ack /\ rx_win' = Head(in).win

ZeroSequence == tx_seq' = 0 /\ tx_ack' = 0 /\ rx_ack' = 0 /\ rx_win' = 0

-----------------------------------------------------------------------------
(* LINUX_ConnectIOSPhone() and itunes_getIOSProVersion().  Any failure is     *)
(* retried by main() from the top; what succeeded before is not undone.       *)

SendVersion ==
  /\ \/ Go("version", "versionWait") /\ Sent(Mux("version"))
     \/ Go("version", "version") /\ NotSent
  /\ ZeroSequence
  /\ UNCHANGED <<recvVars, left, win, in, phone>>

RecvVersion ==
  /\ \/ Go("versionWait", "version") /\ (Nothing \/ Received({"control"}))
     \/ /\ Received({"version"})
        /\ Go("versionWait", "setup") \/ Go("versionWait", "syn")
  /\ UNCHANGED <<seqVars, recvVars, left, win, out, phone>>

(* The version is known by now: when this send fails, the retry skips it.     *)
SendSetup ==
  /\ Go("setup", "syn")
  /\ Sent(Mux("setup")) \/ NotSent
  /\ UNCHANGED <<seqVars, recvVars, left, win, in, phone>>

SendSyn ==
  /\ \/ Go("syn", "synWait") /\ Sent(Tcp("syn", 0))
     \/ Go("syn", "syn") /\ NotSent
  /\ UNCHANGED <<seqVars, recvVars, left, win, in, phone>>

SynTimeout ==
  /\ Go("synWait", "syn") \/ Go("ctlWait", "syn")
  /\ Nothing
  /\ UNCHANGED <<seqVars, recvVars, left, win, out, phone>>

RecvControl ==
  /\ \/ Received({"control"}) /\ (Go("synWait", "ctlWait") \/ Go("ctlWait", "syn"))
     \/ Received({"version"}) /\ (Go("synWait", "syn") \/ Go("ctlWait", "syn"))
  /\ UNCHANGED <<seqVars, recvVars, left, win, out, phone>>

Awaited(type) == pc \in {"synWait", "ctlWait"} /\ Received({type})

RecvSynAck ==
  /\ Awaited("synack") /\ NoteHeader
  /\ tx_seq' = tx_seq + 1 /\ tx_ack' = tx_ack + 1
  /\ pc' = "final"
  /\ cut' = FALSE
  /\ UNCHANGED <<interBuf, left, win, out, phone>>

RecvRefusal ==
  /\ Awaited("rst")
  /\ ZeroSequence
  /\ pc' = "syn"
  /\ UNCHANGED <<recvVars, left, win, out, phone>>

(* A packet of an earlier connection, perhaps too long for the buffer, or the *)
(* rest of one, of which nothing is used.                                     *)
RecvStale ==
  /\ Awaited("ack") \/ Awaited("head") \/ Awaited("rest")
  /\ \/ Head(in).type # "rest" /\ NoteHeader
     \/ (Head(in).len > 0 \/ Head(in).type = "rest") /\ UNCHANGED <<rx_ack, rx_win>>
  /\ pc' = "syn"
  /\ UNCHANGED <<recvVars, tx_seq, tx_ack, left, win, out, phone>>

SendFinal ==
  /\ \/ Go("final", "idle") /\ Sent(Tcp("ack", 0))
     \/ Go("final", "syn") /\ NotSent
  /\ UNCHANGED <<seqVars, recvVars, left, win, in, phone>>

-----------------------------------------------------------------------------
(* itunes_RecvProPackage() and itunes_ResetReceive().                         *)

(* A control or version packet ends the session: EUSTOR_PRO_PACKAGE.          *)
RecvOther ==
  /\ Received({"control", "version"})
  /\ Go("idle", "released")
  /\ UNCHANGED <<seqVars, recvVars, left, win, out, phone>>

RecvSegment ==
  /\ Received({"ack"}) /\ NoteHeader
  /\ left' = Head(in).len
  /\ Go("idle", IF left' > 0 THEN "dataAck" ELSE "idle")
  /\ UNCHANGED <<recvVars, tx_seq, tx_ack, win, out, phone>>

(* The header tells that more is to come; it is decoded when all is in.       *)
RecvHead ==
  /\ Received({"head"})
  /\ left' = Head(in).len
  /\ interBuf' = [ack |-> Head(in).ack, win |-> Head(in).win]
  /\ Go("idle", "rest")
  /\ UNCHANGED <<seqVars, win, out, phone, cut>>

(* Fault: the rest is left for the next call.                                 *)
RecvRestUnread ==
  /\ Received({"rest"})
  /\ Go("rest", "idle")
  /\ rx_ack' = interBuf.ack /\ rx_win' = interBuf.win
  /\ interBuf' = Unread /\ left' = 0
  /\ UNCHANGED <<tx_seq, tx_ack, win, out, phone, cut>>

RecvRest ==
  /\ Received({"rest"})
  /\ Go("rest", "dataAck")
  /\ rx_ack' = interBuf.ack /\ rx_win' = interBuf.win
  /\ interBuf' = Unread
  /\ UNCHANGED <<tx_seq, tx_ack, left, win, out, phone, cut>>

(* A rest that is late is given up like an answer that is late: the session   *)
(* goes on, and nothing is remembered of the half that came.                  *)
RestTimeout ==
  /\ Nothing
  /\ Go("rest", "idle")
  /\ left' = 0 /\ interBuf' = Unread /\ cut' = TRUE
  /\ UNCHANGED <<seqVars, win, out, phone>>

(* The late rest is then decoded as a packet: its bytes may say anything, the *)
(* length that decides what follows it included.                              *)
RecvGarbled ==
  /\ in # <<>> /\ Head(in).type = "rest"
  /\ \/ Go("idle", "released") /\ in' = Tail(in) /\ UNCHANGED tx_ack
     \/ Go("idle", "reset") /\ in' = Tail(in) /\ UNCHANGED tx_ack
     \/ /\ Go("idle", "idle")
        /\ \E n \in 1..Len(in) : in' = SubSeq(in, n + 1, Len(in))
        /\ \E junk \in 0..MaxSeg : tx_ack' = tx_ack + junk
  /\ UNCHANGED <<recvVars, tx_seq, rx_ack, rx_win, left, win, out, phone>>

(* Fault: the header is counted with the payload.                             *)
AckSegmentTotal ==
  /\ Go("dataAck", "idle")
  /\ Sent(Tcp("ack", 0)) \/ NotSent
  /\ tx_ack' = tx_ack + left + 1
  /\ left' = 0
  /\ UNCHANGED <<recvVars, tx_seq, rx_ack, rx_win, win, in, phone>>

(* Fault: only what the daemon sends carries acknowledgements.                *)
AckSegmentSilent ==
  /\ Go("dataAck", "idle")
  /\ tx_ack' = tx_ack + left
  /\ left' = 0
  /\ UNCHANGED <<recvVars, tx_seq, rx_ack, rx_win, win, out, in, phone>>

(* The acknowledgement goes out with the number of before the segment; its    *)
(* result is ignored.                                                         *)
AckSegment ==
  /\ Go("dataAck", "idle")
  /\ Sent(Tcp("ack", 0)) \/ NotSent
  /\ tx_ack' = tx_ack + left
  /\ left' = 0
  /\ UNCHANGED <<recvVars, tx_seq, rx_ack, rx_win, win, in, phone>>

(* Fault: the flags are not looked at.                                        *)
RecvResetIgnored ==
  /\ Received({"rst", "synack"}) /\ NoteHeader
  /\ Go("idle", "idle")
  /\ UNCHANGED <<recvVars, tx_seq, tx_ack, left, win, out, phone>>

(* Any other flags than TH_ACK: "Connection Reset".                           *)
RecvReset ==
  /\ Received({"rst", "synack"}) /\ NoteHeader
  /\ Go("idle", "reset")
  /\ UNCHANGED <<recvVars, tx_seq, tx_ack, left, win, out, phone>>

(* The answers to what is under way are read off before the retry ...         *)
ResetDrain ==
  /\ Go("reset", "reset")
  /\ rx_ack # tx_seq
  /\ \/ Received({"control", "version", "rest"}) /\ UNCHANGED <<rx_ack, rx_win>>
     \/ Received({"synack", "ack", "head", "rst"}) /\ NoteHeader
  /\ UNCHANGED <<recvVars, tx_seq, tx_ack, left, win, out, phone>>

(* ... until the last is in, or none comes, or one overflows the buffer.      *)
ResetDone ==
  /\ Go("reset", "syn")
  /\ \/ (rx_ack = tx_seq \/ in = <<>>) /\ UNCHANGED in
     \/ rx_ack # tx_seq /\ Received({"ack", "head"}) /\ Head(in).len > 0
  /\ ZeroSequence
  /\ UNCHANGED <<recvVars, left, win, out, phone>>

-----------------------------------------------------------------------------
(* itunes_SendProPackage().                                                   *)

StartPackage ==
  /\ \E size \in 1..MaxPkg : tx_seq + size <= MaxTx + 1 /\ left' = size
  /\ win' = rx_win
  /\ Go("idle", IF rx_win = 0 THEN "winWait" ELSE "segment")
  /\ UNCHANGED <<seqVars, recvVars, out, in, phone>>

(* Fault: the window left is not a limit.                                     *)
SegmentSizeUnlimited == Least(left, MaxPacket)

SegmentSize == Least(Least(left, MaxPacket), win)

SendSegment ==
  /\ pc = "segment"
  /\ Sent(Tcp("ack", SegmentSize))
  /\ tx_seq' = tx_seq + SegmentSize
  /\ left' = left - SegmentSize
  /\ win' = win - SegmentSize
  /\ pc' = IF left' = 0 THEN "idle" ELSE IF win' = 0 THEN "winWait" ELSE "segment"
  /\ UNCHANGED <<recvVars, tx_ack, rx_ack, rx_win, in, phone>>

(* Fault: a segment that was not sent is counted.                             *)
SendTimeoutCounting ==
  /\ \/ /\ Go("segment", "idle") /\ NotSent /\ UNCHANGED in
        /\ tx_seq' = tx_seq + SegmentSize
     \/ Go("winWait", "idle") /\ Nothing /\ UNCHANGED <<out, tx_seq>>
  /\ left' = 0
  /\ UNCHANGED <<recvVars, tx_ack, rx_ack, rx_win, win, phone>>

(* The rest of the package is given up, the session goes on.                  *)
SendTimeout ==
  /\ \/ Go("segment", "idle") /\ NotSent /\ UNCHANGED in
     \/ Go("winWait", "idle") /\ Nothing /\ UNCHANGED out
  /\ left' = 0
  /\ UNCHANGED <<seqVars, recvVars, win, phone>>

(* itunes_ReceiveAck(): a bare TCP header of whatever flags is taken.         *)
RecvWindow ==
  /\ Received({"ack", "synack", "rst"}) /\ Head(in).len = 0
  /\ NoteHeader
  /\ win' = rx_win'
  /\ Go("winWait", "segment")
  /\ UNCHANGED <<recvVars, tx_seq, tx_ack, left, out, phone>>

(* Anything else is EUSTOR_PRO_REVACK, and the session ends.                  *)
RecvNoAck ==
  /\ \/ Received({"control", "version", "rest"})
     \/ Received({"ack", "head", "rst"}) /\ Head(in).len > 0
  /\ Go("winWait", "released")
  /\ UNCHANGED <<seqVars, recvVars, left, win, out, phone>>

(* main() releases the phone; its next claim starts a new connection.         *)
Released == pc = "released" /\ UNCHANGED vars

Connect == \/ SendVersion \/ RecvVersion \/ SendSetup \/ SendSyn \/ SynTimeout
           \/ RecvControl \/ RecvSynAck \/ RecvRefusal \/ RecvStale \/ SendFinal
Receive == \/ RecvOther \/ RecvSegment \/ RecvReset
           \/ RecvHead \/ RecvRest \/ RestTimeout \/ RecvGarbled
Daemon  == \/ Connect \/ Receive \/ AckSegment \/ ResetDrain \/ ResetDone
           \/ StartPackage \/ SendSegment \/ SendTimeout \/ RecvWindow \/ RecvNoAck

Next == \/ Daemon \/ Released
        \/ PhoneReacts \/ PhoneControl \/ PhoneSend \/ PhoneRead \/ PhoneReset

Spec == Init /\ [][Next]_vars

(* Both ends keep working; the app may stop sending or quit at any time.      *)
Fairness == WF_vars(Daemon) /\ WF_vars(PhoneReacts) /\ WF_vars(PhoneRead)

FairSpec == Spec /\ Fairness

-----------------------------------------------------------------------------
(* Sums(pipe)[i] is what the first i packets of a pipe carry.                 *)
Sums(pipe) ==
  LET sum[i \in 0..Len(pipe)] == IF i = 0 THEN 0 ELSE sum[i - 1] + pipe[i].len IN sum

Bytes(pipe) == Sums(pipe)[Len(pipe)]

(* Both ends are in the same connection: no SYN is under way, and no answer   *)
(* to one, nor a reset.                                                       *)
Joined ==
  /\ phone.conn = "estab" /\ pc \in Session
  /\ \A i \in DOMAIN out : out[i].type # "syn"
  /\ \A i \in DOMAIN in : in[i].type \in {"ack", "head", "rest", "control"}

Established == Joined /\ ~cut

(* The segments on their way to the phone follow each other without a gap or  *)
(* an overlap, from what the phone has up to tx_seq: a send that timed out    *)
(* must not have moved tx_seq, and a reset must have set it back.             *)
DownInSync ==
  Established =>
    /\ \A i \in DOMAIN out : out[i].seq = phone.rcvNxt + Bytes(SubSeq(out, 1, i - 1))
    /\ tx_seq = phone.rcvNxt + Bytes(out)

(* What the daemon will have acknowledged is what the phone has sent, though  *)
(* each acknowledgement goes out before tx_ack counts its segment, though the *)
(* acknowledgement may time out and though a segment may come in two parts.   *)
Reading  == IF pc \in {"rest", "dataAck"} THEN left ELSE 0
UpInSync == Established => phone.sndNxt = tx_ack + Reading + Bytes(in)

(* The same though a packet was given up half-way.  The code keeps the        *)
(* session, so this does not hold.                                            *)
UpInSyncCut == Joined => phone.sndNxt = tx_ack + Reading + Bytes(in)

(* A session whose other end has gone is noticed: the reset that tells the    *)
(* daemon is on its way to it.                                                *)
NoHalfOpen ==
  pc \in Session /\ ~cut /\ phone.conn = "closed" =>
     \E i \in DOMAIN in : in[i].type = "rst"

(* The transport implements the two byte streams.                             *)
Stream(n) == IF Established THEN n ELSE 0
Channel == INSTANCE ByteStream WITH
             open <- Established,
             down <- Stream(tx_seq - 1), downGot <- Stream(phone.rcvNxt - 1),
             up <- Stream(phone.sndNxt - 1), upGot <- Stream(tx_ack + Reading - 1)
ImplementsStream == Channel!Spec

(* The acknowledgements lag a segment behind, and still never leave the phone *)
(* with a window that stays closed, unless one of them timed out.             *)
Stalled == Established /\ phone.sndNxt + 1 - phone.acked > TxWin
UploadProgresses ==
  [](pc = "dataAck" => Len(out) < Pipe) => (Stalled ~> ~Stalled)

(* "Peer Windows is full": no more is sent than the phone has room for.       *)
WindowRespected == Established => phone.held + Bytes(out) <= PhoneBuf
=============================================================================
