-------------------------- MODULE ItunesMuxProofs --------------------------
(***************************************************************************)
(* Both ends of the iPhone's connection stay in step, in both directions,  *)
(* for every size of packets, windows and pipes, though the phone quits,   *)
(* SYNs are repeated and any send or receive times out; and with that the  *)
(* transport implements the two byte streams.                              *)
(***************************************************************************)
EXTENDS ItunesMux, TLAPS, SequenceTheorems, NaturalsInduction, WellFoundedInduction

-----------------------------------------------------------------------------
(* The inductive invariant.                                                   *)

Waiting == {"synWait", "ctlWait"}
Mine    == {"final"} \cup Session
Linked  == Waiting \cup Mine

Data == {"ack", "head", "rest"}

(* What the phone sends, and how long it is.                                  *)
InShape ==
  \A i \in DOMAIN in :
    /\ in[i].type \in {"version", "control", "synack", "rst"} \cup Data
    /\ in[i].type \in {"version", "control", "synack", "rest"} => in[i].len = 0
    /\ in[i].type = "rst" => in[i].len = 1

(* A rest follows its head at once ...                                        *)
RestsFollow ==
  /\ \A i \in DOMAIN in : i > 1 /\ in[i].type = "rest" => in[i - 1].type = "head"
  /\ phone.rest => phone.conn = "estab"
  /\ phone.rest /\ in # <<>> => in[Len(in)].type = "head"

(* ... so that the daemon, until it gives one up, meets it only where it      *)
(* waits for it.                                                              *)
RestsAwaited ==
  pc \in Mine /\ ~cut =>
    /\ in # <<>> /\ in[1].type = "rest" => pc = "rest"
    /\ in = <<>> /\ phone.rest => pc = "rest"

(* Whatever an earlier connection has left in the pipe, a reset comes behind  *)
(* it: behind its data, behind its SYN's answer, and between its data and the *)
(* answer to the next SYN.                                                    *)
Buried(i) == \E j \in DOMAIN in : j > i /\ in[j].type = "rst"
Outdated ==
  /\ phone.conn # "estab" => \A i \in DOMAIN in : in[i].type \in Data => Buried(i)
  /\ phone.conn = "closed" => \A i \in DOMAIN in : in[i].type = "synack" => Buried(i)
  /\ \A i, j \in DOMAIN in : in[i].type \in Data /\ in[j].type = "synack" /\ i < j =>
       \E k \in i..j : in[k].type = "rst"

PhoneNumbers ==
  /\ phone.conn # "closed" => phone.rcvNxt >= 1 /\ phone.sndNxt >= 1
  /\ phone.conn = "synRcvd" => phone.sndNxt = 1

(* Since its last SYN the daemon has sent an unbroken chain of packets, from  *)
(* what the phone has (when it has taken that SYN) to what comes next.        *)
NoSyn   == \A i \in DOMAIN out : out[i].type # "syn"
Live(i) == \A j \in DOMAIN out : j > i => out[j].type # "syn"
Edge    == IF pc \in Waiting THEN tx_seq + 1 ELSE tx_seq
End(p)  == IF p.type = "syn" THEN p.seq + 1 ELSE p.seq + p.len
Start   == IF out = <<>> THEN Edge ELSE out[1].seq
Behind(i) == IF i < Len(out) THEN out[i + 1].seq ELSE Edge

Chain ==
  pc \in Linked =>
    /\ \A i \in DOMAIN out :
         Live(i) => out[i].type \in {"syn", "ack"} /\ End(out[i]) = Behind(i)
    /\ pc \in Waiting \cup {"final"} /\ out # <<>> => out[Len(out)].type = "syn"
    /\ NoSyn /\ phone.conn # "closed" => Start = phone.rcvNxt
    /\ NoSyn /\ pc \in Waiting \cup {"final"} => phone.conn # "estab"
    /\ pc \in Mine => tx_ack >= 1

(* While no packet was given up and no reset is on its way, the session is    *)
(* with the phone as it is now, and its count of what came is right.          *)
Clean == pc \in Mine /\ ~cut /\ \A i \in DOMAIN in : in[i].type # "rst"
InStep ==
  Clean =>
    /\ phone.conn # "closed"
    /\ phone.conn = "synRcvd" =>
         /\ pc \notin {"rest", "dataAck"}
         /\ \A i \in DOMAIN out : Live(i) /\ out[i].type = "ack" => out[i].ack = tx_ack
    /\ phone.conn = "estab" /\ NoSyn =>
         /\ phone.sndNxt = tx_ack + Reading + Bytes(in)
         /\ (\E i \in DOMAIN in : in[i].type = "synack") => tx_ack = 1 /\ Reading = 0

IInv == /\ TypeOK /\ InShape /\ RestsFollow /\ RestsAwaited /\ Outdated
        /\ PhoneNumbers /\ Chain /\ InStep

-----------------------------------------------------------------------------
(* Induction, and what the first packets of a pipe carry.                     *)

LEMMA LeastElement ==
  ASSUME NEW T, T \subseteq Nat, T # {}
  PROVE  \E x \in T : \A y \in T : x <= y
<1>1. IsWellFoundedOn(OpToRel(<, Nat), Nat)
  BY NatLessThanWellFounded
<1>2. PICK x \in T : \A y \in T : ~(<<y, x>> \in OpToRel(<, Nat))
  BY <1>1, WFMin, Zenon
<1>3. ASSUME NEW y \in T PROVE x <= y
  <2>1. y \in Nat /\ x \in Nat
    OBVIOUS
  <2>2. ~(y < x)
    BY <1>2, <2>1 DEF OpToRel
  <2> QED BY <2>1, <2>2
<1> QED BY <1>3

LEMMA Induction ==
  ASSUME NEW S, S \subseteq Nat, 0 \in S, \A n \in S : n + 1 \in S
  PROVE  S = Nat
<1> SUFFICES ASSUME Nat \ S # {} PROVE FALSE
  OBVIOUS
<1>1. PICK x \in Nat \ S : \A y \in Nat \ S : x <= y
  <2> DEFINE T == Nat \ S
  <2>1. T \subseteq Nat /\ T # {}
    OBVIOUS
  <2> HIDE DEF T
  <2>2. \E x \in T : \A y \in T : x <= y
    BY <2>1, LeastElement
  <2> QED BY <2>2 DEF T
<1>2. x # 0
  OBVIOUS
<1>3. x - 1 \in S
  BY <1>1, <1>2
<1> QED BY <1>3

Adds(f, s, n) ==
  /\ DOMAIN f = 0..n /\ f[0] = 0
  /\ \A i \in 1..n : f[i] = f[i - 1] + s[i].len

LEMMA PacketLen ==
  ASSUME NEW s \in Seq(Packets), NEW i \in 1..Len(s)
  PROVE  s[i].len \in Nat
<1>1. s[i] \in Packets
  OBVIOUS
<1> QED BY <1>1 DEF Packets

LEMMA AddsNat ==
  ASSUME NEW s \in Seq(Packets), NEW n \in 0..Len(s), NEW f, Adds(f, s, n)
  PROVE  \A i \in 0..n : f[i] \in Nat
<1> DEFINE S == {i \in Nat : i <= n => f[i] \in Nat}
<1>1. 0 \in S
  BY DEF Adds
<1>2. ASSUME NEW i \in S PROVE i + 1 \in S
  <2>1. ASSUME i + 1 <= n PROVE f[i + 1] \in Nat
    <3>1. f[i] \in Nat /\ i + 1 \in 1..n /\ (i + 1) - 1 = i /\ i + 1 \in 1..Len(s)
      BY <2>1
    <3>2. s[i + 1].len \in Nat
      BY <3>1, PacketLen
    <3>3. f[i + 1] = f[i] + s[i + 1].len
      BY <3>1 DEF Adds
    <3> QED BY <3>1, <3>2, <3>3
  <2> QED BY <2>1
<1>3. S = Nat
  <2>1. S \subseteq Nat /\ \A i \in S : i + 1 \in S
    BY <1>2
  <2> HIDE DEF S
  <2> QED BY <1>1, <2>1, Induction
<1> QED BY <1>3

LEMMA AddsUnique ==
  ASSUME NEW s, NEW n \in Nat, NEW f, NEW g, Adds(f, s, n), NEW m \in Nat, m >= n, Adds(g, s, m)
  PROVE  \A i \in 0..n : f[i] = g[i]
<1> DEFINE S == {i \in Nat : i <= n => f[i] = g[i]}
<1>1. 0 \in S
  BY DEF Adds
<1>2. ASSUME NEW i \in S PROVE i + 1 \in S
  <2>1. ASSUME i + 1 <= n PROVE f[i + 1] = g[i + 1]
    <3>1. f[i] = g[i] /\ i + 1 \in 1..n /\ i + 1 \in 1..m /\ (i + 1) - 1 = i
      BY <2>1
    <3> QED BY <3>1 DEF Adds
  <2> QED BY <2>1
<1>3. S = Nat
  <2>1. S \subseteq Nat /\ \A i \in S : i + 1 \in S
    BY <1>2
  <2> HIDE DEF S
  <2> QED BY <1>1, <2>1, Induction
<1> QED BY <1>3

LEMMA SumsAdds ==
  ASSUME NEW s \in Seq(Packets)
  PROVE  Adds(Sums(s), s, Len(s))
<1> DEFINE R(f, n) == f = [i \in 0..n |-> IF i = 0 THEN 0 ELSE f[i - 1] + s[i].len]
           S == {n \in Nat : \E f : R(f, n)}
<1>1. 0 \in S
  <2> DEFINE f == [i \in 0..0 |-> 0]
  <2>1. f = [i \in 0..0 |-> IF i = 0 THEN 0 ELSE f[i - 1] + s[i].len]
    OBVIOUS
  <2> HIDE DEF f
  <2> QED BY <2>1
<1>2. ASSUME NEW n \in S PROVE n + 1 \in S
  <2>1. PICK f : R(f, n)
    OBVIOUS
  <2> DEFINE g == [i \in 0..n + 1 |-> IF i <= n THEN f[i] ELSE f[n] + s[n + 1].len]
  <2>2. \A i \in 0..n : g[i] = f[i]
    OBVIOUS
  <2>3. g[n + 1] = f[n] + s[n + 1].len /\ DOMAIN g = 0..n + 1
    OBVIOUS
  <2>4. \A i \in 0..n : f[i] = IF i = 0 THEN 0 ELSE f[i - 1] + s[i].len
    BY <2>1
  <2>f. g = [i \in 0..n + 1 |-> g[i]]
    OBVIOUS
  <2> HIDE DEF g
  <2>5. \A i \in 0..n + 1 : g[i] = IF i = 0 THEN 0 ELSE g[i - 1] + s[i].len
    <3> TAKE i \in 0..n + 1
    <3>1. CASE i = n + 1
      BY <3>1, <2>2, <2>3
    <3>2. CASE i \in 0..n
      <4>1. i # 0 => i - 1 \in 0..n
        BY <3>2
      <4> QED BY <3>2, <4>1, <2>2, <2>4
    <3> QED BY <3>1, <3>2
  <2>6. R(g, n + 1)
    BY <2>f, <2>5
  <2> HIDE DEF R
  <2> QED BY <2>6
<1>3. S = Nat
  <2>1. S \subseteq Nat /\ \A i \in S : i + 1 \in S
    BY <1>2
  <2> HIDE DEF S
  <2> QED BY <1>1, <2>1, Induction
<1>4. R(Sums(s), Len(s))
  <2>1. \E f : R(f, Len(s))
    BY <1>3
  <2> QED BY <2>1 DEF Sums
<1>5. DOMAIN Sums(s) = 0..Len(s)
  BY <1>4
<1>6. \A i \in 0..Len(s) : Sums(s)[i] = IF i = 0 THEN 0 ELSE Sums(s)[i - 1] + s[i].len
  <2> DEFINE f == Sums(s)
  <2>1. f = [i \in 0..Len(s) |-> IF i = 0 THEN 0 ELSE f[i - 1] + s[i].len]
    BY <1>4
  <2> HIDE DEF f
  <2>2. \A i \in 0..Len(s) : f[i] = IF i = 0 THEN 0 ELSE f[i - 1] + s[i].len
    BY <2>1
  <2> QED BY <2>2 DEF f
<1> QED BY <1>5, <1>6 DEF Adds

LEMMA BytesNat ==
  ASSUME NEW s \in Seq(Packets)
  PROVE  Bytes(s) \in Nat /\ \A i \in 0..Len(s) : Sums(s)[i] \in Nat
BY SumsAdds, AddsNat DEF Bytes

LEMMA BytesEmpty == Bytes(<<>>) = 0
<1>1. <<>> \in Seq(Packets) /\ Len(<<>>) = 0
  OBVIOUS
<1> QED BY <1>1, SumsAdds DEF Bytes, Adds

LEMMA BytesAppend ==
  ASSUME NEW s \in Seq(Packets), NEW p \in Packets
  PROVE  Bytes(Append(s, p)) = Bytes(s) + p.len
<1> DEFINE t == Append(s, p)
<1>1. /\ t \in Seq(Packets) /\ Len(t) = Len(s) + 1 /\ Len(s) \in Nat
      /\ t[Len(s) + 1] = p /\ \A i \in 1..Len(s) : t[i] = s[i]
  OBVIOUS
<1> HIDE DEF t
<1>2. Adds(Sums(t), t, Len(t)) /\ Adds(Sums(s), s, Len(s))
  BY <1>1, SumsAdds
<1>3. Adds(Sums(s), t, Len(s))
  BY <1>1, <1>2 DEF Adds
<1>4. \A i \in 0..Len(s) : Sums(s)[i] = Sums(t)[i]
  <2>1. Len(t) \in Nat /\ Len(t) >= Len(s)
    BY <1>1
  <2> QED BY <1>1, <1>2, <1>3, <2>1, AddsUnique
<1>5. Sums(t)[Len(s) + 1] = Sums(t)[Len(s)] + p.len
  <2>1. Len(s) + 1 \in 1..Len(t) /\ (Len(s) + 1) - 1 = Len(s)
    BY <1>1
  <2> QED BY <2>1, <1>1, <1>2 DEF Adds
<1> QED BY <1>1, <1>4, <1>5 DEF Bytes, t

LEMMA BytesTail ==
  ASSUME NEW s \in Seq(Packets), s # <<>>
  PROVE  Bytes(s) = s[1].len + Bytes(Tail(s))
<1> DEFINE t == Tail(s)
<1>1. /\ t \in Seq(Packets) /\ Len(t) = Len(s) - 1 /\ Len(s) \in Nat /\ Len(s) > 0
      /\ \A i \in 1..Len(t) : t[i] = s[i + 1]
  OBVIOUS
<1> HIDE DEF t
<1>2. Adds(Sums(t), t, Len(t)) /\ Adds(Sums(s), s, Len(s))
  BY <1>1, SumsAdds
<1>3. \A i \in 0..Len(s) : Sums(s)[i] \in Nat
  BY BytesNat
<1>4. s[1].len \in Nat
  BY <1>1, PacketLen
<1>5. Sums(s)[1] = s[1].len
  BY <1>1, <1>2, <1>4 DEF Adds
<1> DEFINE g == [i \in 0..Len(t) |-> Sums(s)[i + 1] - s[1].len]
<1>6. Adds(g, t, Len(t))
  <2>1. DOMAIN g = 0..Len(t) /\ g[0] = 0
    BY <1>1, <1>4, <1>5
  <2>2. ASSUME NEW i \in 1..Len(t) PROVE g[i] = g[i - 1] + t[i].len
    <3>1. /\ i \in 0..Len(t) /\ i - 1 \in 0..Len(t) /\ i + 1 \in 1..Len(s)
          /\ (i + 1) - 1 = i /\ (i - 1) + 1 = i /\ i \in 0..Len(s)
      BY <1>1
    <3>2. Sums(s)[i + 1] = Sums(s)[i] + t[i].len
      BY <3>1, <1>1, <1>2 DEF Adds
    <3>3. g[i] = Sums(s)[i + 1] - s[1].len /\ g[i - 1] = Sums(s)[i] - s[1].len
      BY <3>1
    <3>4. t[i].len \in Nat
      BY <1>1, PacketLen
    <3>5. Sums(s)[i + 1] \in Nat /\ Sums(s)[i] \in Nat
      BY <3>1, <1>1, <1>3
    <3> HIDE DEF g
    <3> DEFINE a == Sums(s)[i + 1]  b == Sums(s)[i]  c == s[1].len  d == t[i].len
    <3>6. /\ a \in Nat /\ b \in Nat /\ c \in Nat /\ d \in Nat
          /\ a = b + d /\ g[i] = a - c /\ g[i - 1] = b - c
      BY <3>2, <3>3, <3>4, <3>5, <1>4
    <3> HIDE DEF a, b, c, d
    <3>7. g[i] = g[i - 1] + d
      BY <3>6
    <3> QED BY <3>7 DEF d
  <2> HIDE DEF g
  <2> QED BY <2>1, <2>2 DEF Adds
<1>7. Sums(t)[Len(t)] = g[Len(t)]
  <2> HIDE DEF g
  <2>1. Len(t) \in Nat /\ Len(t) >= Len(t) /\ Len(t) \in 0..Len(t)
    BY <1>1
  <2>2. \A i \in 0..Len(t) : Sums(t)[i] = g[i]
    BY <1>2, <1>6, <2>1, AddsUnique
  <2> QED BY <2>1, <2>2
<1>8. g[Len(t)] = Sums(s)[Len(s)] - s[1].len
  BY <1>1
<1>9. Sums(s)[Len(s)] \in Nat
  BY <1>1, <1>3
<1> QED BY <1>4, <1>7, <1>8, <1>9 DEF Bytes, t

(* The packets before the i-th.                                               *)
LEMMA BytesBefore ==
  ASSUME NEW s \in Seq(Packets), NEW i \in 1..Len(s)
  PROVE  Bytes(SubSeq(s, 1, i - 1)) = Sums(s)[i - 1]
<1> DEFINE t == SubSeq(s, 1, i - 1)
<1>1. /\ t \in Seq(Packets) /\ Len(t) = i - 1 /\ \A j \in 1..i - 1 : t[j] = s[j]
      /\ i - 1 \in Nat /\ Len(s) \in Nat /\ Len(s) >= i - 1
  OBVIOUS
<1> HIDE DEF t
<1>2. Adds(Sums(t), t, i - 1) /\ Adds(Sums(s), s, Len(s))
  BY <1>1, SumsAdds
<1>3. Adds(Sums(t), s, i - 1)
  BY <1>1, <1>2 DEF Adds
<1>4. \A j \in 0..i - 1 : Sums(t)[j] = Sums(s)[j]
  BY <1>1, <1>2, <1>3, AddsUnique
<1> QED BY <1>1, <1>4 DEF Bytes, t

-----------------------------------------------------------------------------
(* Types.                                                                     *)

DaemonType ==
  /\ pc \in Handshake \cup Session \cup {"reset", "released"}
  /\ tx_seq \in Nat /\ tx_ack \in Nat /\ rx_ack \in Nat /\ rx_win \in Nat
  /\ left \in Nat /\ win \in Nat
RecvType == interBuf \in [ack : Nat, win : Nat] /\ cut \in BOOLEAN
PhoneType ==
  phone \in [conn : {"closed", "synRcvd", "estab"}, rcvNxt : Nat,
             sndNxt : Nat, acked : Nat, held : Nat, rest : BOOLEAN]
PipesType == out \in Seq(Packets) /\ in \in Seq(Packets)

LEMMA TypeParts ==
  TypeOK <=> /\ DaemonType /\ RecvType /\ PhoneType
             /\ PipesType
<1>1. {tx_seq, tx_ack, rx_ack, rx_win, left, win} \subseteq Nat <=>
        /\ tx_seq \in Nat /\ tx_ack \in Nat /\ rx_ack \in Nat /\ rx_win \in Nat
        /\ left \in Nat /\ win \in Nat
  BY Zenon
<1> QED BY <1>1, Zenon DEF TypeOK, DaemonType, RecvType, PhoneType, PipesType

LEMMA Bounds ==
  /\ MaxPacket \in Nat /\ PhoneBuf \in Nat /\ MaxSeg \in Nat /\ MaxPkg \in Nat
  /\ Pipe \in Nat /\ Pipe > 0 /\ MaxTx \in Nat /\ MaxRx \in Nat /\ TxWin \in Nat
BY ItunesMuxAssumption

LEMMA PacketType ==
  ASSUME NEW type \in {"version", "setup", "control", "syn", "synack", "ack", "rst",
                       "head", "rest"},
         NEW seq \in Nat, NEW ack \in Nat, NEW len \in Nat, NEW window \in Nat
  PROVE  /\ Packet(type, seq, ack, len, window) \in Packets
         /\ Packet(type, seq, ack, len, window).type = type
         /\ Packet(type, seq, ack, len, window).seq = seq
         /\ Packet(type, seq, ack, len, window).ack = ack
         /\ Packet(type, seq, ack, len, window).len = len
BY DEF Packet, Packets

LEMMA MuxType ==
  ASSUME NEW type \in {"version", "setup", "control"}
  PROVE  Mux(type) \in Packets /\ Mux(type).type = type /\ Mux(type).len = 0
BY PacketType DEF Mux

LEMMA TcpType ==
  ASSUME DaemonType, NEW type \in {"syn", "ack"}, NEW len \in Nat
  PROVE  /\ Tcp(type, len) \in Packets /\ Tcp(type, len).type = type
         /\ Tcp(type, len).seq = tx_seq /\ Tcp(type, len).ack = tx_ack
         /\ Tcp(type, len).len = len
<1>1. /\ tx_seq \in Nat /\ tx_ack \in Nat /\ TxWin \in Nat
      /\ type \in {"version", "setup", "control", "syn", "synack", "ack", "rst", "head", "rest"}
  BY Bounds DEF DaemonType
<1> QED BY <1>1 DEF Tcp, Packet, Packets

LEMMA RefusalType ==
  ASSUME NEW p \in Packets
  PROVE  Refusal(p) \in Packets /\ Refusal(p).type = "rst" /\ Refusal(p).len = 1
<1> DEFINE n == p.seq + p.len + (IF p.type = "syn" THEN 1 ELSE 0)
<1>1. n \in Nat
  BY DEF Packets
<1>2. Refusal(p) = Packet("rst", 0, n, 1, 0)
  BY DEF Refusal
<1> HIDE DEF n
<1> QED BY <1>1, <1>2 DEF Packet, Packets

LEMMA Firsts ==
  ASSUME NEW s \in Seq(Packets), s # <<>>
  PROVE  /\ Head(s) = s[1] /\ s[1] \in Packets /\ 1 \in DOMAIN s
         /\ s[1].len \in Nat /\ s[1].seq \in Nat /\ s[1].ack \in Nat /\ s[1].win \in Nat
         /\ Tail(s) \in Seq(Packets)
<1>1. /\ Head(s) = s[1] /\ s[1] \in Packets /\ Tail(s) \in Seq(Packets)
      /\ 1 \in DOMAIN s
  OBVIOUS
<1> QED BY <1>1 DEF Packets

LEMMA Tails ==
  ASSUME NEW s \in Seq(Packets), s # <<>>
  PROVE  /\ Tail(s) \in Seq(Packets) /\ Len(Tail(s)) = Len(s) - 1 /\ Len(s) \in Nat
         /\ Len(s) > 0 /\ DOMAIN s = 1..Len(s) /\ DOMAIN Tail(s) = 1..Len(s) - 1
         /\ \A i \in 1..Len(s) - 1 : Tail(s)[i] = s[i + 1]
OBVIOUS

LEMMA Appends ==
  ASSUME NEW s \in Seq(Packets), NEW p \in Packets
  PROVE  /\ Append(s, p) \in Seq(Packets) /\ Len(Append(s, p)) = Len(s) + 1
         /\ Len(s) \in Nat /\ DOMAIN s = 1..Len(s) /\ DOMAIN Append(s, p) = 1..Len(s) + 1
         /\ \A i \in 1..Len(s) : Append(s, p)[i] = s[i]
         /\ Append(s, p)[Len(s) + 1] = p /\ Append(s, p) # <<>>
OBVIOUS

(* What a step of the phone does, as far as the pipe to the daemon shows.     *)
Puts(p) ==
  /\ p \in Packets /\ ~phone.rest /\ in' = Append(in, p)
  /\ \/ /\ p.type \in {"version", "control"} /\ p.len = 0
        /\ phone'.conn = phone.conn /\ phone'.rest = phone.rest
     \/ /\ p.type = "synack" /\ p.len = 0 /\ phone.conn # "estab"
        /\ phone'.conn = "synRcvd" /\ ~phone'.rest
     \/ p.type = "rst" /\ p.len = 1 /\ phone'.conn = "closed" /\ ~phone'.rest
     \/ p.type = "ack" /\ phone.conn # "closed" /\ phone'.conn = "estab" /\ ~phone'.rest
     \/ p.type = "head" /\ phone.conn = "estab" /\ phone'.conn = "estab" /\ phone'.rest
Quiet ==
  /\ in' = in /\ phone'.rest = phone.rest
  /\ phone'.conn = phone.conn \/ (phone.conn # "closed" /\ phone'.conn = "estab")

LEMMA ClosedType ==
  /\ Closed.conn = "closed" /\ Closed.rest = FALSE
  /\ Closed \in [conn : {"closed", "synRcvd", "estab"}, rcvNxt : Nat,
                 sndNxt : Nat, acked : Nat, held : Nat, rest : BOOLEAN]
BY DEF Closed

LEMMA PhoneVersionPuts ==
  ASSUME TypeOK, PhoneVersion
  PROVE  (\E p \in Packets : Puts(p)) /\ PhoneType' /\ out' \in Seq(Packets) /\ in' \in Seq(Packets)
<1> DEFINE p == Mux("version")
<1>1. p \in Packets /\ p.type = "version" /\ p.len = 0
  BY MuxType
<1>2. ~phone.rest /\ in' = Append(in, p) /\ phone' = phone /\ out # <<>> /\ out' = Tail(out)
  BY DEF PhoneVersion, Answer, Take
<1> HIDE DEF p
<1>3. Puts(p)
  BY <1>1, <1>2, Zenon DEF Puts
<1>4. PhoneType' /\ out' \in Seq(Packets)
  BY <1>2, TypeParts, Firsts DEF PhoneType, PipesType
<1>5. in' \in Seq(Packets)
  BY <1>1, <1>2, TypeParts, Appends DEF PipesType
<1> QED BY <1>1, <1>3, <1>4, <1>5

LEMMA PhoneControlPuts ==
  ASSUME TypeOK, PhoneControl
  PROVE  (\E p \in Packets : Puts(p)) /\ PhoneType' /\ out' \in Seq(Packets) /\ in' \in Seq(Packets)
<1> DEFINE p == Mux("control")
<1>1. p \in Packets /\ p.type = "control" /\ p.len = 0
  BY MuxType
<1>2. ~phone.rest /\ in' = Append(in, p) /\ phone' = phone /\ out' = out
  BY DEF PhoneControl, Answer
<1> HIDE DEF p
<1>3. Puts(p)
  BY <1>1, <1>2, Zenon DEF Puts
<1>4. PhoneType' /\ out' \in Seq(Packets)
  BY <1>2, TypeParts DEF PipesType, PhoneType
<1>5. in' \in Seq(Packets)
  BY <1>1, <1>2, TypeParts, Appends DEF PipesType
<1> QED BY <1>1, <1>3, <1>4, <1>5

(* The two outcomes that close the connection.                                *)
LEMMA ClosePuts ==
  ASSUME TypeOK, phone' = Closed, NEW p \in Packets, p.type = "rst", p.len = 1, Answer(p)
  PROVE  Puts(p) /\ PhoneType' /\ in' \in Seq(Packets)
<1>1. ~phone.rest /\ in' = Append(in, p)
  BY DEF Answer
<1>2. phone'.conn = "closed" /\ ~phone'.rest /\ PhoneType'
  BY ClosedType DEF PhoneType
<1>3. in' \in Seq(Packets)
  BY <1>1, TypeParts, Appends DEF PipesType
<1> QED BY <1>1, <1>2, <1>3, Zenon DEF Puts

LEMMA PhoneSynPuts ==
  ASSUME TypeOK, PhoneSyn
  PROVE  (\E p \in Packets : Puts(p)) /\ PhoneType' /\ out' \in Seq(Packets) /\ in' \in Seq(Packets)
<1>1. out # <<>> /\ out' = Tail(out) /\ out \in Seq(Packets) /\ in \in Seq(Packets)
  BY TypeParts DEF PipesType, PhoneSyn, Take
<1>2. out' \in Seq(Packets) /\ Head(out) \in Packets /\ Head(out).seq \in Nat
  BY <1>1, Firsts
<1> DEFINE q == Head(out)
           p == Packet("synack", 0, q.seq + 1, 0, PhoneBuf)
<1>3. p \in Packets /\ p.type = "synack" /\ p.len = 0
  <2> DEFINE n == q.seq + 1
  <2>1. n \in Nat /\ PhoneBuf \in Nat
    BY <1>2, Bounds
  <2> HIDE DEF n
  <2>2. Packet("synack", 0, n, 0, PhoneBuf) \in Packets
    BY <2>1 DEF Packet, Packets
  <2> QED BY <2>2 DEF n, Packet
<1> HIDE DEF p
<1>4. CASE /\ phone.conn = "closed"
           /\ phone' = [Closed EXCEPT !.conn = "synRcvd", !.rcvNxt = q.seq + 1, !.sndNxt = 1]
           /\ Answer(p)
  <2>1. ~phone.rest /\ in' = Append(in, p)
    BY <1>4 DEF Answer
  <2>2. phone'.conn = "synRcvd" /\ ~phone'.rest /\ PhoneType'
    <3>1. q.seq + 1 \in Nat
      BY <1>2
    <3> DEFINE n == q.seq + 1
    <3>2. n \in Nat /\ phone' = [Closed EXCEPT !.conn = "synRcvd", !.rcvNxt = n, !.sndNxt = 1]
      BY <1>4, <3>1
    <3> HIDE DEF n
    <3> QED BY <3>2 DEF Closed, PhoneType
  <2>3. Puts(p)
    BY <1>3, <1>4, <2>1, <2>2, Zenon DEF Puts
  <2>4. in' \in Seq(Packets)
    BY <1>1, <1>3, <2>1, Appends
  <2> QED BY <1>2, <1>3, <2>2, <2>3, <2>4
<1>5. CASE phone.conn = "synRcvd" /\ Answer(p) /\ phone' = phone
  <2>1. ~phone.rest /\ in' = Append(in, p)
    BY <1>5 DEF Answer
  <2>2. phone'.conn = "synRcvd" /\ ~phone'.rest /\ PhoneType'
    BY <1>5, <2>1, TypeParts DEF PipesType, PhoneType
  <2>3. Puts(p)
    BY <1>3, <1>5, <2>1, <2>2, Zenon DEF Puts
  <2>4. in' \in Seq(Packets)
    BY <1>1, <1>3, <2>1, Appends
  <2> QED BY <1>2, <1>3, <2>2, <2>3, <2>4
<1>6. CASE phone' = Closed /\ Answer(Refusal(q))
  BY <1>2, <1>6, RefusalType, ClosePuts
<1> QED BY <1>4, <1>5, <1>6, Zenon DEF PhoneSyn, p

LEMMA PhoneTakePuts ==
  ASSUME TypeOK, PhoneTake
  PROVE  /\ (\E p \in Packets : Puts(p)) \/ Quiet
         /\ PhoneType' /\ out' \in Seq(Packets) /\ in' \in Seq(Packets)
         /\ \/ phone' = Closed
            \/ /\ Fits(Head(out)) /\ phone'.conn = "estab" /\ phone'.sndNxt = phone.sndNxt
               /\ phone'.rcvNxt = phone.rcvNxt + Head(out).len
               /\ \/ in' = in
                  \/ \E p \in Packets : in' = Append(in, p) /\ p.type = "ack" /\ p.len = 0
<1>1. out # <<>> /\ out' = Tail(out) /\ out \in Seq(Packets) /\ in \in Seq(Packets)
  BY TypeParts DEF PipesType, PhoneTake, Take
<1> DEFINE q == Head(out)
<1>2. out' \in Seq(Packets) /\ q \in Packets /\ q.seq \in Nat /\ q.len \in Nat /\ q.ack \in Nat
  BY <1>1, Firsts
<1>3. CASE /\ Fits(q)
           /\ phone' = [phone EXCEPT !.conn = "estab", !.rcvNxt = @ + q.len,
                                     !.acked = q.ack, !.held = @ + q.len]
  <2>1. phone.conn # "closed"
    BY <1>3 DEF Fits
  <2>2. /\ phone'.conn = "estab" /\ phone'.rest = phone.rest /\ PhoneType'
        /\ phone'.sndNxt = phone.sndNxt /\ phone'.rcvNxt = phone.rcvNxt + q.len
    <3>1. PhoneType
      BY TypeParts
    <3> DEFINE n == q.len
               a == q.ack
    <3>2. n \in Nat /\ a \in Nat
          /\ phone' = [phone EXCEPT !.conn = "estab", !.rcvNxt = @ + n,
                                    !.acked = a, !.held = @ + n]
      BY <1>2, <1>3
    <3> HIDE DEF n, a
    <3>3. phone.rcvNxt \in Nat /\ phone.held \in Nat
      BY <3>1 DEF PhoneType
    <3>4. phone.rcvNxt + n \in Nat /\ phone.held + n \in Nat
      BY <3>2, <3>3
    <3>5. phone' = [phone EXCEPT !.conn = "estab", !.rcvNxt = phone.rcvNxt + n,
                                 !.acked = a, !.held = phone.held + n]
      BY <3>2
    <3>6. /\ phone'.conn = "estab" /\ phone'.rest = phone.rest /\ PhoneType'
          /\ phone'.sndNxt = phone.sndNxt /\ phone'.rcvNxt = phone.rcvNxt + n
      BY <3>1, <3>2, <3>4, <3>5 DEF PhoneType
    <3> QED BY <3>6 DEF n
  <2>3. CASE in' = in
    <3>1. Quiet
      BY <2>1, <2>2, <2>3 DEF Quiet
    <3> QED BY <1>1, <1>2, <1>3, <2>2, <2>3, <3>1
  <2>4. CASE Answer(Packet("ack", phone.sndNxt, q.seq + q.len, 0,
                           IF Free > q.len THEN Free - q.len ELSE 0))
    <3> DEFINE p == Packet("ack", phone.sndNxt, q.seq + q.len, 0,
                           IF Free > q.len THEN Free - q.len ELSE 0)
    <3>1. p \in Packets /\ p.type = "ack" /\ p.len = 0
      <4>1. phone.sndNxt \in Nat /\ Free \in Nat
        BY TypeParts, Bounds DEF PhoneType, Free
      <4>2. (IF Free > q.len THEN Free - q.len ELSE 0) \in Nat
        BY <4>1, <1>2
      <4> DEFINE w == IF Free > q.len THEN Free - q.len ELSE 0
                 n == q.seq + q.len
      <4>3. w \in Nat /\ n \in Nat
        BY <1>2, <4>2
      <4> HIDE DEF w, n
      <4>4. /\ Packet("ack", phone.sndNxt, n, 0, w) \in Packets
            /\ Packet("ack", phone.sndNxt, n, 0, w).type = "ack"
            /\ Packet("ack", phone.sndNxt, n, 0, w).len = 0
        BY <4>1, <4>3 DEF Packet, Packets
      <4> QED BY <4>4 DEF w, n
    <3>2. ~phone.rest /\ in' = Append(in, p)
      BY <2>4 DEF Answer
    <3> HIDE DEF p
    <3>3. Puts(p)
      BY <2>1, <2>2, <3>1, <3>2, Zenon DEF Puts
    <3>4. in' \in Seq(Packets)
      BY <1>1, <3>1, <3>2, Appends
    <3> QED BY <1>2, <1>3, <2>2, <3>1, <3>2, <3>3, <3>4
  <2> QED BY <1>3, <2>3, <2>4, Zenon DEF PhoneTake
<1>4. CASE phone' = Closed /\ Answer(Refusal(q))
  BY <1>2, <1>4, RefusalType, ClosePuts
<1> QED BY <1>3, <1>4, Zenon DEF PhoneTake

LEMMA PhoneSetupQuiet ==
  ASSUME TypeOK, PhoneSetup
  PROVE  Quiet /\ PhoneType' /\ out' \in Seq(Packets) /\ in' \in Seq(Packets)
<1>1. out # <<>> /\ out' = Tail(out) /\ in' = in /\ phone' = phone
  BY DEF PhoneSetup, Take
<1>2. out' \in Seq(Packets) /\ in' \in Seq(Packets)
  BY <1>1, TypeParts, Firsts DEF PipesType
<1>3. Quiet
  <2>1. phone'.rest = phone.rest /\ phone'.conn = phone.conn
    BY <1>1
  <2> QED BY <1>1, <2>1, Zenon DEF Quiet
<1>4. PhoneType'
  BY <1>1, TypeParts DEF PhoneType
<1> QED BY <1>2, <1>3, <1>4

LEMMA PhoneSendPuts ==
  ASSUME TypeOK, PhoneSend
  PROVE  /\ \E p \in Packets : /\ Puts(p)
                               /\ p.type \in {"ack", "head"} /\ p.len \in Nat /\ p.len > 0
                               /\ phone'.sndNxt = phone.sndNxt + p.len
                               /\ phone'.rcvNxt = phone.rcvNxt
                               /\ phone.conn = "estab" /\ phone'.conn = "estab"
                               /\ in' = Append(in, p)
         /\ PhoneType' /\ out' \in Seq(Packets) /\ in' \in Seq(Packets)
<1>1. PICK len \in 1..MaxSeg, type \in {"ack", "head"} :
        /\ Answer(Packet(type, phone.sndNxt, phone.rcvNxt, len, Free))
        /\ phone' = [phone EXCEPT !.sndNxt = @ + len, !.rest = (type = "head")]
  BY Zenon DEF PhoneSend
<1>2. phone.conn = "estab" /\ out' = out /\ out \in Seq(Packets) /\ in \in Seq(Packets) /\ PhoneType
  BY TypeParts DEF PipesType, PhoneSend
<1>3. len \in Nat /\ len > 0
  BY Bounds
<1> DEFINE p == Packet(type, phone.sndNxt, phone.rcvNxt, len, Free)
<1>4. phone.sndNxt \in Nat /\ phone.rcvNxt \in Nat /\ Free \in Nat
  BY <1>2, Bounds DEF PhoneType, Free
<1>5. p \in Packets /\ p.type = type /\ p.len = len
  BY <1>3, <1>4 DEF Packet, Packets
<1>6. ~phone.rest /\ in' = Append(in, p)
  BY <1>1 DEF Answer
<1> HIDE DEF p
<1>7. /\ phone'.conn = "estab" /\ phone'.rest = (type = "head")
      /\ phone'.sndNxt = phone.sndNxt + len /\ phone'.rcvNxt = phone.rcvNxt /\ PhoneType'
  <2>1. phone.sndNxt + len \in Nat
    BY <1>3, <1>4
  <2>2. phone' = [phone EXCEPT !.sndNxt = phone.sndNxt + len, !.rest = (type = "head")]
    BY <1>1
  <2>3. (type = "head") \in BOOLEAN
    OBVIOUS
  <2> QED BY <1>2, <2>1, <2>2, <2>3 DEF PhoneType
<1>8. Puts(p)
  <2>1. CASE type = "ack"
    BY <2>1, <1>2, <1>5, <1>6, <1>7, Zenon DEF Puts
  <2>2. CASE type = "head"
    BY <2>2, <1>2, <1>5, <1>6, <1>7, Zenon DEF Puts
  <2> QED BY <2>1, <2>2
<1>9. in' \in Seq(Packets)
  BY <1>2, <1>5, <1>6, Appends
<1> QED BY <1>2, <1>3, <1>5, <1>6, <1>7, <1>8, <1>9

RestPacket == Packet("rest", 0, 0, 0, 0)

LEMMA PhoneRestPuts ==
  ASSUME TypeOK, PhoneRest
  PROVE  /\ RestPacket \in Packets /\ RestPacket.type = "rest" /\ RestPacket.len = 0
         /\ phone.rest /\ ~phone'.rest /\ phone'.conn = phone.conn
         /\ phone'.rcvNxt = phone.rcvNxt /\ phone'.sndNxt = phone.sndNxt
         /\ in' = Append(in, RestPacket)
         /\ PhoneType' /\ out' \in Seq(Packets) /\ in' \in Seq(Packets)
<1>1. RestPacket \in Packets /\ RestPacket.type = "rest" /\ RestPacket.len = 0
  BY DEF RestPacket, Packet, Packets
<1>2. /\ in' = Append(in, RestPacket) /\ out' = out /\ phone.rest
      /\ phone' = [phone EXCEPT !.rest = FALSE]
  BY DEF PhoneRest, RestPacket
<1>3. out \in Seq(Packets) /\ in \in Seq(Packets) /\ PhoneType
  BY TypeParts DEF PipesType
<1>4. in' \in Seq(Packets)
  BY <1>1, <1>2, <1>3, Appends
<1> QED BY <1>1, <1>2, <1>3, <1>4 DEF PhoneType

LEMMA PhoneReadPuts ==
  ASSUME TypeOK, PhoneRead
  PROVE  /\ \/ Quiet
            \/ \E p \in Packets : Puts(p) /\ p.type = "ack" /\ p.len = 0 /\ in' = Append(in, p)
         /\ phone.conn = "estab" /\ phone'.conn = "estab"
         /\ phone'.rcvNxt = phone.rcvNxt /\ phone'.sndNxt = phone.sndNxt
         /\ PhoneType' /\ out' \in Seq(Packets) /\ in' \in Seq(Packets)
<1>1. out \in Seq(Packets) /\ in \in Seq(Packets) /\ PhoneType /\ out' = out
  BY TypeParts DEF PipesType, PhoneRead
<1>2. /\ phone.conn = "estab" /\ phone'.conn = "estab" /\ phone'.rest = phone.rest
      /\ phone'.rcvNxt = phone.rcvNxt /\ phone'.sndNxt = phone.sndNxt /\ PhoneType'
  BY <1>1 DEF PhoneRead, PhoneType
<1>3. CASE in' = in
  BY <1>1, <1>2, <1>3 DEF Quiet
<1>4. CASE Answer(Packet("ack", phone.sndNxt, phone.rcvNxt, 0, PhoneBuf))
  <2> DEFINE p == Packet("ack", phone.sndNxt, phone.rcvNxt, 0, PhoneBuf)
  <2>1. phone.sndNxt \in Nat /\ phone.rcvNxt \in Nat /\ PhoneBuf \in Nat
    BY <1>1, Bounds DEF PhoneType
  <2>2. p \in Packets /\ p.type = "ack" /\ p.len = 0
    BY <2>1 DEF Packet, Packets
  <2>3. ~phone.rest /\ in' = Append(in, p)
    BY <1>4 DEF Answer
  <2> HIDE DEF p
  <2>4. phone.conn # "closed" /\ ~phone'.rest
    BY <1>2, <2>3
  <2>5. Puts(p)
    BY <1>2, <2>2, <2>3, <2>4, Zenon DEF Puts
  <2>6. in' \in Seq(Packets)
    BY <1>1, <2>2, <2>3, Appends
  <2> QED BY <1>1, <1>2, <2>2, <2>3, <2>5, <2>6
<1> QED BY <1>3, <1>4, Zenon DEF PhoneRead

LEMMA PhoneResetPuts ==
  ASSUME TypeOK, PhoneReset
  PROVE  (\E p \in Packets : Puts(p)) /\ PhoneType' /\ out' \in Seq(Packets) /\ in' \in Seq(Packets)
<1> DEFINE p == Packet("rst", phone.sndNxt, phone.rcvNxt, 1, 0)
<1>1. out \in Seq(Packets) /\ PhoneType /\ out' = out
  BY TypeParts DEF PipesType, PhoneReset
<1>2. phone.sndNxt \in Nat /\ phone.rcvNxt \in Nat
  BY <1>1 DEF PhoneType
<1>3. p \in Packets /\ p.type = "rst" /\ p.len = 1
  BY <1>2 DEF Packet, Packets
<1>4. phone' = Closed /\ Answer(p)
  BY DEF PhoneReset
<1> HIDE DEF p
<1>5. Puts(p) /\ PhoneType' /\ in' \in Seq(Packets)
  BY <1>3, <1>4, ClosePuts
<1> QED BY <1>1, <1>3, <1>5

PhoneSteps ==
  \/ PhoneVersion \/ PhoneSetup \/ PhoneSyn \/ PhoneTake \/ PhoneRest
  \/ PhoneControl \/ PhoneSend \/ PhoneRead \/ PhoneReset

LEMMA PhoneKeeps ==
  PhoneSteps => UNCHANGED <<pc, seqVars, recvVars, left, win>>
BY DEF PhoneSteps, PhoneVersion, PhoneSetup, PhoneSyn, PhoneTake, PhoneRest, PhoneControl,
       PhoneSend, PhoneRead, PhoneReset

LEMMA PhoneTypes ==
  ASSUME TypeOK, PhoneSteps
  PROVE  TypeOK'
<1>1. PhoneType' /\ out' \in Seq(Packets) /\ in' \in Seq(Packets)
  BY PhoneVersionPuts, PhoneSetupQuiet, PhoneSynPuts, PhoneTakePuts, PhoneRestPuts,
     PhoneControlPuts, PhoneSendPuts, PhoneReadPuts, PhoneResetPuts, Zenon DEF PhoneSteps
<1>2. UNCHANGED <<pc, seqVars, recvVars, left, win>>
  BY PhoneKeeps
<1>3. DaemonType' /\ RecvType'
  BY <1>2, TypeParts DEF PipesType, DaemonType, RecvType, seqVars, recvVars
<1>4. PipesType'
  BY <1>1 DEF PipesType
<1> QED BY <1>1, <1>3, <1>4, TypeParts, PTL

-----------------------------------------------------------------------------
(* The pipe to the daemon.                                                    *)

(* What the daemon does to it: it takes packets off, at least one.            *)
Drops == /\ in # <<>> /\ \E n \in 1..Len(in) : in' = SubSeq(in, n + 1, Len(in))
         /\ phone' = phone

LEMMA Dropped ==
  ASSUME NEW s \in Seq(Packets), NEW n \in 1..Len(s), NEW t, t = SubSeq(s, n + 1, Len(s))
  PROVE  /\ t \in Seq(Packets) /\ Len(t) = Len(s) - n /\ Len(s) \in Nat /\ n \in Nat /\ n <= Len(s)
         /\ DOMAIN s = 1..Len(s) /\ DOMAIN t = 1..Len(s) - n
         /\ \A i \in 1..Len(s) - n : t[i] = s[n + i]
OBVIOUS

LEMMA ReceivedDrops ==
  ASSUME TypeOK, NEW types, Received(types), phone' = phone
  PROVE  /\ Drops /\ in # <<>> /\ in[1].type \in types /\ Head(in) = in[1] /\ in' = Tail(in)
         /\ in \in Seq(Packets) /\ in' \in Seq(Packets) /\ in[1] \in Packets
         /\ in[1].len \in Nat /\ in[1].ack \in Nat /\ in[1].win \in Nat
<1>1. in \in Seq(Packets) /\ in # <<>> /\ in' = Tail(in) /\ Head(in).type \in types
  BY TypeParts DEF PipesType, Received
<1>2. 1 \in 1..Len(in) /\ Tail(in) = SubSeq(in, 1 + 1, Len(in))
  BY <1>1
<1>3. Drops
  BY <1>1, <1>2 DEF Drops
<1> QED BY <1>1, <1>3, Firsts

LEMMA InShapeDrops ==
  ASSUME TypeOK, InShape, Drops
  PROVE  InShape'
<1>1. PICK n \in 1..Len(in) : in' = SubSeq(in, n + 1, Len(in))
  BY DEF Drops
<1>2. in \in Seq(Packets)
  BY TypeParts DEF PipesType
<1>3. /\ DOMAIN in = 1..Len(in) /\ DOMAIN in' = 1..Len(in) - n /\ Len(in) \in Nat /\ n \in Nat
      /\ \A i \in 1..Len(in) - n : in'[i] = in[n + i]
  BY <1>1, <1>2, Dropped
<1>4. \A i \in DOMAIN in' : n + i \in DOMAIN in /\ in'[i] = in[n + i]
  BY <1>3
<1> QED BY <1>4, Zenon DEF InShape

LEMMA InShapePuts ==
  ASSUME TypeOK, InShape, NEW p \in Packets, in' = Append(in, p),
         p.type \in {"version", "control", "synack", "rst"} \cup Data,
         p.type \in {"version", "control", "synack", "rest"} => p.len = 0,
         p.type = "rst" => p.len = 1
  PROVE  InShape'
<1>1. in \in Seq(Packets)
  BY TypeParts DEF PipesType
<1>2. /\ DOMAIN in = 1..Len(in) /\ DOMAIN in' = 1..Len(in) + 1 /\ Len(in) \in Nat
      /\ \A i \in 1..Len(in) : in'[i] = in[i]
      /\ in'[Len(in) + 1] = p
  BY <1>1, Appends
<1>3. \A i \in DOMAIN in' : (i \in DOMAIN in /\ in'[i] = in[i]) \/ in'[i] = p
  BY <1>2
<1> QED BY <1>3, Zenon DEF InShape

LEMMA RestsFollowDrops ==
  ASSUME TypeOK, RestsFollow, Drops
  PROVE  RestsFollow'
<1>1. PICK n \in 1..Len(in) : in' = SubSeq(in, n + 1, Len(in))
  BY DEF Drops
<1>2. in \in Seq(Packets) /\ phone' = phone /\ in # <<>>
  BY TypeParts DEF PipesType, Drops
<1>3. /\ DOMAIN in = 1..Len(in) /\ DOMAIN in' = 1..Len(in) - n /\ Len(in) \in Nat /\ n \in Nat
      /\ Len(in') = Len(in) - n /\ n <= Len(in)
      /\ \A i \in 1..Len(in) - n : in'[i] = in[n + i]
  BY <1>1, <1>2, Dropped
<1>4. ASSUME NEW i \in DOMAIN in', i > 1, in'[i].type = "rest"
      PROVE  in'[i - 1].type = "head"
  <2>1. /\ n + i \in DOMAIN in /\ n + i > 1 /\ in'[i] = in[n + i] /\ i - 1 \in 1..Len(in) - n
        /\ n + (i - 1) = (n + i) - 1
    BY <1>3, <1>4
  <2>2. in[(n + i) - 1].type = "head"
    BY <1>4, <2>1 DEF RestsFollow
  <2>3. in'[i - 1] = in[n + (i - 1)]
    BY <1>3, <2>1
  <2> QED BY <2>1, <2>2, <2>3
<1>5. in' # <<>> => in'[Len(in')] = in[Len(in)]
  <2>1. in' # <<>> => Len(in) - n \in 1..Len(in) - n
    BY <1>2, <1>3, Dropped
  <2> QED BY <1>3, <2>1
<1> QED BY <1>2, <1>4, <1>5 DEF RestsFollow

LEMMA RestsFollowPuts ==
  ASSUME TypeOK, RestsFollow, NEW p, Puts(p)
  PROVE  RestsFollow'
<1>1. in \in Seq(Packets) /\ p \in Packets /\ in' = Append(in, p)
  BY TypeParts DEF PipesType, Puts
<1>2. /\ DOMAIN in = 1..Len(in) /\ DOMAIN in' = 1..Len(in) + 1 /\ Len(in) \in Nat
      /\ \A i \in 1..Len(in) : in'[i] = in[i]
      /\ in'[Len(in) + 1] = p /\ Len(in') = Len(in) + 1
  BY <1>1, Appends
<1>3. p.type # "rest" /\ (phone'.rest => phone'.conn = "estab" /\ p.type = "head")
  BY DEF Puts
<1>4. ASSUME NEW i \in DOMAIN in', i > 1, in'[i].type = "rest"
      PROVE  in'[i - 1].type = "head"
  <2>1. i # Len(in) + 1
    BY <1>2, <1>3, <1>4
  <2>2. i \in DOMAIN in /\ i - 1 \in DOMAIN in
    BY <2>1, <1>2, <1>4
  <2>3. in[i - 1].type = "head"
    BY <2>2, <1>2, <1>4 DEF RestsFollow
  <2> QED BY <2>2, <2>3, <1>2
<1> QED BY <1>2, <1>3, <1>4 DEF RestsFollow

LEMMA RestsFollowQuiet ==
  ASSUME RestsFollow, Quiet
  PROVE  RestsFollow'
BY Zenon DEF RestsFollow, Quiet

LEMMA RestsFollowRest ==
  ASSUME TypeOK, RestsFollow, PhoneRest
  PROVE  RestsFollow'
<1>1. in \in Seq(Packets)
  BY TypeParts DEF PipesType
<1>p. /\ RestPacket \in Packets /\ RestPacket.type = "rest" /\ phone.rest /\ ~phone'.rest
      /\ in' = Append(in, RestPacket)
  BY PhoneRestPuts
<1>2. /\ DOMAIN in = 1..Len(in) /\ DOMAIN in' = 1..Len(in) + 1 /\ Len(in) \in Nat
      /\ \A i \in 1..Len(in) : in'[i] = in[i]
      /\ Len(in') = Len(in) + 1
  BY <1>1, <1>p, Appends
<1>4. ASSUME NEW i \in DOMAIN in', i > 1, in'[i].type = "rest"
      PROVE  in'[i - 1].type = "head"
  <2>1. CASE i = Len(in) + 1
    <3>1. in # <<>> /\ i - 1 = Len(in) /\ Len(in) \in DOMAIN in
      BY <2>1, <1>1, <1>2, <1>4
    <3>2. in[Len(in)].type = "head"
      BY <1>p, <3>1 DEF RestsFollow
    <3> QED BY <3>1, <3>2, <1>2
  <2>2. CASE i # Len(in) + 1
    <3>2. i \in DOMAIN in /\ i - 1 \in DOMAIN in
      BY <2>2, <1>2, <1>4
    <3>3. in[i - 1].type = "head"
      BY <3>2, <1>2, <1>4 DEF RestsFollow
    <3> QED BY <3>2, <3>3, <1>2
  <2> QED BY <2>1, <2>2
<1> QED BY <1>p, <1>4 DEF RestsFollow

(* What lies in the pipe at i, and the resets behind it, move up by n.        *)
LEMMA OutdatedDrops ==
  ASSUME TypeOK, Outdated, Drops
  PROVE  Outdated'
<1>1. PICK n \in 1..Len(in) : in' = SubSeq(in, n + 1, Len(in))
  BY DEF Drops
<1>2. in \in Seq(Packets) /\ phone' = phone
  BY TypeParts DEF PipesType, Drops
<1>3. /\ DOMAIN in = 1..Len(in) /\ DOMAIN in' = 1..Len(in) - n /\ Len(in) \in Nat /\ n \in Nat
      /\ \A i \in 1..Len(in) - n : in'[i] = in[n + i]
  BY <1>1, <1>2, Dropped
<1>4. \A i \in DOMAIN in' : i \in Nat /\ n + i \in DOMAIN in /\ in'[i] = in[n + i]
  BY <1>3
<1>5. \A j \in DOMAIN in : j > n => j - n \in DOMAIN in' /\ in'[j - n] = in[j]
  <2> TAKE j \in DOMAIN in
  <2> HAVE j > n
  <2>1. j - n \in DOMAIN in' /\ n + (j - n) = j
    BY <1>3
  <2> QED BY <2>1, <1>4
<1>6. ASSUME NEW i \in DOMAIN in', Buried(n + i)
      PROVE  Buried(i)'
  <2>1. PICK j \in DOMAIN in : j > n + i /\ in[j].type = "rst"
    BY <1>6 DEF Buried
  <2>2. j > n /\ j - n > i
    BY <2>1, <1>3, <1>4
  <2>3. j - n \in DOMAIN in' /\ in'[j - n].type = "rst"
    BY <2>1, <2>2, <1>5
  <2> QED BY <2>2, <2>3 DEF Buried
<1>7. ASSUME NEW i \in DOMAIN in', NEW j \in DOMAIN in',
             in'[i].type \in Data, in'[j].type = "synack", i < j
      PROVE  \E k \in i..j : in'[k].type = "rst"
  <2>1. n + i < n + j
    BY <1>3, <1>4, <1>7
  <2>2. PICK k \in (n + i)..(n + j) : in[k].type = "rst"
    <3>1. \E k \in (n + i)..(n + j) : in[k].type = "rst"
      BY <1>4, <1>7, <2>1, Zenon DEF Outdated
    <3> QED BY <3>1
  <2>3. k \in DOMAIN in /\ k > n /\ k - n \in i..j
    BY <1>3, <1>4, <2>2
  <2> QED BY <2>2, <2>3, <1>5
<1>8. ASSUME phone'.conn # "estab", NEW i \in DOMAIN in', in'[i].type \in Data
      PROVE  Buried(i)'
  <2>1. Buried(n + i)
    BY <1>2, <1>4, <1>8 DEF Outdated
  <2> QED BY <2>1, <1>6
<1>9. ASSUME phone'.conn = "closed", NEW i \in DOMAIN in', in'[i].type = "synack"
      PROVE  Buried(i)'
  <2>1. Buried(n + i)
    BY <1>2, <1>4, <1>9 DEF Outdated
  <2> QED BY <2>1, <1>6
<1>10. /\ phone'.conn # "estab" => \A i \in DOMAIN in' : in'[i].type \in Data => Buried(i)'
       /\ phone'.conn = "closed" => \A i \in DOMAIN in' : in'[i].type = "synack" => Buried(i)'
  BY <1>8, <1>9
<1>11. \A i, j \in DOMAIN in' : in'[i].type \in Data /\ in'[j].type = "synack" /\ i < j =>
         \E k \in i..j : in'[k].type = "rst"
  BY <1>7
<1> QED BY <1>10, <1>11, Zenon DEF Outdated

LEMMA OutdatedPuts ==
  ASSUME TypeOK, Outdated, NEW p \in Packets, in' = Append(in, p),
         p.type \in Data => phone'.conn = "estab",
         p.type = "synack" => phone.conn # "estab" /\ phone'.conn = "synRcvd",
         p.type = "rst" \/ phone'.conn = phone.conn \/ phone'.conn = "estab" \/ p.type = "synack"
  PROVE  Outdated'
<1>1. in \in Seq(Packets)
  BY TypeParts DEF PipesType
<1>2. /\ DOMAIN in = 1..Len(in) /\ DOMAIN in' = 1..Len(in) + 1 /\ Len(in) \in Nat
      /\ \A i \in 1..Len(in) : in'[i] = in[i]
      /\ in'[Len(in) + 1] = p
  BY <1>1, Appends
<1>3. \A i \in DOMAIN in : i \in DOMAIN in' /\ in'[i] = in[i] /\ i < Len(in) + 1
  BY <1>2
<1>4. Len(in) + 1 \in DOMAIN in' /\ \A i \in DOMAIN in' : i \in DOMAIN in \/ i = Len(in) + 1
  BY <1>2
<1>5. ASSUME NEW i \in DOMAIN in, Buried(i) \/ p.type = "rst"
      PROVE  Buried(i)'
  <2>1. CASE Buried(i)
    <3>1. PICK j \in DOMAIN in : j > i /\ in[j].type = "rst"
      BY <2>1 DEF Buried
    <3> QED BY <3>1, <1>3 DEF Buried
  <2>2. CASE p.type = "rst"
    <3>1. Len(in) + 1 > i
      BY <1>2
    <3> QED BY <3>1, <2>2, <1>2, <1>4 DEF Buried
  <2> QED BY <1>5, <2>1, <2>2
<1>6. ASSUME phone'.conn # "estab", NEW i \in DOMAIN in', in'[i].type \in Data
      PROVE  Buried(i)'
  <2>1. i \in DOMAIN in /\ in[i].type \in Data
    BY <1>2, <1>3, <1>4, <1>6
  <2>2. Buried(i) \/ p.type = "rst"
    BY <2>1, <1>6 DEF Outdated
  <2> QED BY <2>1, <2>2, <1>5
<1>7. ASSUME phone'.conn = "closed", NEW i \in DOMAIN in', in'[i].type = "synack"
      PROVE  Buried(i)'
  <2>1. p.type # "synack"
    BY <1>7
  <2>2. i \in DOMAIN in /\ in[i].type = "synack"
    BY <1>2, <1>3, <1>4, <1>7, <2>1
  <2>3. Buried(i) \/ p.type = "rst"
    BY <2>1, <2>2, <1>7 DEF Outdated
  <2> QED BY <2>2, <2>3, <1>5
<1>8. ASSUME NEW i \in DOMAIN in', NEW j \in DOMAIN in',
             in'[i].type \in Data, in'[j].type = "synack", i < j
      PROVE  \E k \in i..j : in'[k].type = "rst"
  <2>1. i \in DOMAIN in
    BY <1>2, <1>8
  <2>2. CASE j \in DOMAIN in
    <3>1. PICK k \in i..j : in[k].type = "rst"
      <4>1. in[i].type \in Data /\ in[j].type = "synack"
        BY <1>3, <1>8, <2>1, <2>2
      <4>2. \E k \in i..j : in[k].type = "rst"
        BY <1>8, <2>1, <2>2, <4>1, Zenon DEF Outdated
      <4> QED BY <4>2
    <3>2. k \in DOMAIN in
      BY <1>2, <2>1, <2>2
    <3> QED BY <3>1, <3>2, <1>3
  <2>3. CASE j = Len(in) + 1
    <3>1. phone.conn # "estab"
      BY <2>3, <1>2, <1>8
    <3>2. PICK k \in DOMAIN in : k > i /\ in[k].type = "rst"
      <4>1. in[i].type \in Data
        BY <1>3, <1>8, <2>1
      <4> QED BY <3>1, <4>1, <2>1 DEF Outdated, Buried
    <3>3. k \in i..j
      BY <1>2, <2>1, <2>3, <3>2
    <3> QED BY <3>2, <3>3, <1>3
  <2> QED BY <1>4, <2>2, <2>3
<1>9. /\ phone'.conn # "estab" => \A i \in DOMAIN in' : in'[i].type \in Data => Buried(i)'
      /\ phone'.conn = "closed" => \A i \in DOMAIN in' : in'[i].type = "synack" => Buried(i)'
  BY <1>6, <1>7
<1>10. \A i, j \in DOMAIN in' : in'[i].type \in Data /\ in'[j].type = "synack" /\ i < j =>
         \E k \in i..j : in'[k].type = "rst"
  BY <1>8
<1> QED BY <1>9, <1>10, Zenon DEF Outdated

LEMMA OutdatedQuiet ==
  ASSUME Outdated, Quiet
  PROVE  Outdated'
<1>1. in' = in /\ (phone'.conn = phone.conn \/ (phone.conn # "closed" /\ phone'.conn = "estab"))
  BY DEF Quiet
<1>2. (phone'.conn # "estab" => phone.conn # "estab") /\ (phone'.conn = "closed" => phone.conn = "closed")
  BY <1>1
<1> QED BY <1>1, <1>2 DEF Outdated, Buried

(* The phone's steps, seen from the pipe to the daemon.                       *)
PipeParts == InShape /\ RestsFollow /\ RestsAwaited /\ Outdated

LEMMA PutsKeep ==
  ASSUME TypeOK, PipeParts, NEW p, Puts(p), UNCHANGED <<pc, cut>>
  PROVE  PipeParts'
<1>1. p \in Packets /\ in' = Append(in, p) /\ in \in Seq(Packets)
  BY TypeParts DEF PipesType, Puts
<1>2. /\ p.type \in {"version", "control", "synack", "rst"} \cup Data
      /\ p.type \in {"version", "control", "synack", "rest"} => p.len = 0
      /\ p.type = "rst" => p.len = 1
      /\ p.type \in Data => phone'.conn = "estab"
      /\ p.type = "synack" => phone.conn # "estab" /\ phone'.conn = "synRcvd"
      /\ p.type = "rst" \/ phone'.conn = phone.conn \/ phone'.conn = "estab" \/ p.type = "synack"
      /\ p.type # "rest"
  BY DEF Puts, Data
<1>3. InShape'
  BY <1>1, <1>2, InShapePuts DEF PipeParts
<1>4. RestsFollow'
  BY RestsFollowPuts DEF PipeParts
<1>5. Outdated'
  BY <1>1, <1>2, OutdatedPuts DEF PipeParts
<1>6. RestsAwaited'
  <2>1. /\ in' # <<>> /\ in'[Len(in) + 1] = p /\ Len(in) \in Nat
        /\ \A i \in 1..Len(in) : in'[i] = in[i]
    BY <1>1, Appends
  <2>2. in'[1].type = "rest" => in # <<>> /\ in[1].type = "rest"
    <3>1. CASE in = <<>>
      BY <3>1, <2>1, <1>2
    <3>2. CASE in # <<>>
      BY <3>2, <2>1, <1>1
    <3> QED BY <3>1, <3>2
  <2> QED BY <2>1, <2>2 DEF PipeParts, RestsAwaited
<1> QED BY <1>3, <1>4, <1>5, <1>6 DEF PipeParts

LEMMA QuietKeeps ==
  ASSUME PipeParts, Quiet, UNCHANGED <<pc, cut>>
  PROVE  PipeParts'
<1>1. in' = in /\ phone'.rest = phone.rest
  BY DEF Quiet
<1>2. InShape'
  BY <1>1 DEF PipeParts, InShape
<1>3. RestsFollow' /\ Outdated'
  BY RestsFollowQuiet, OutdatedQuiet DEF PipeParts
<1>4. RestsAwaited'
  BY <1>1, Zenon DEF PipeParts, RestsAwaited
<1> QED BY <1>2, <1>3, <1>4 DEF PipeParts

LEMMA RestKeeps ==
  ASSUME TypeOK, PipeParts, PhoneRest
  PROVE  PipeParts'
<1>1. /\ RestPacket \in Packets /\ RestPacket.type = "rest" /\ RestPacket.len = 0
      /\ phone.rest /\ phone'.conn = phone.conn /\ in' = Append(in, RestPacket)
  BY PhoneRestPuts
<1>2. in \in Seq(Packets) /\ UNCHANGED <<pc, cut>>
  BY TypeParts DEF PipesType, PhoneRest, recvVars
<1>3. InShape'
  BY <1>1, InShapePuts DEF PipeParts, Data
<1>4. RestsFollow'
  BY RestsFollowRest DEF PipeParts
<1>5. Outdated'
  <2>1. phone.conn = "estab" /\ phone'.conn = "estab"
    BY <1>1 DEF PipeParts, RestsFollow
  <2> QED BY <1>1, <2>1, OutdatedPuts DEF PipeParts, Data
<1>6. RestsAwaited'
  <2>1. /\ in' # <<>> /\ Len(in) \in Nat /\ \A i \in 1..Len(in) : in'[i] = in[i]
    BY <1>1, <1>2, Appends
  <2>2. CASE in = <<>>
    BY <1>1, <1>2, <2>1, <2>2 DEF PipeParts, RestsAwaited
  <2>3. CASE in # <<>>
    <3>1. in'[1] = in[1]
      BY <1>2, <2>1, <2>3
    <3> QED BY <1>2, <2>1, <2>3, <3>1 DEF PipeParts, RestsAwaited
  <2> QED BY <2>2, <2>3
<1> QED BY <1>3, <1>4, <1>5, <1>6 DEF PipeParts

LEMMA PhonePipe ==
  ASSUME TypeOK, PipeParts, PhoneSteps
  PROVE  PipeParts'
<1>1. UNCHANGED <<pc, cut>>
  BY PhoneKeeps DEF recvVars
<1>2. (\E p \in Packets : Puts(p)) \/ Quiet \/ PhoneRest
  BY PhoneVersionPuts, PhoneSetupQuiet, PhoneSynPuts, PhoneTakePuts, PhoneControlPuts,
     PhoneSendPuts, PhoneReadPuts, PhoneResetPuts, Zenon DEF PhoneSteps
<1>3. CASE \E p \in Packets : Puts(p)
  <2>1. PICK p \in Packets : Puts(p)
    BY <1>3
  <2> QED BY <1>1, <2>1, PutsKeep
<1>4. CASE Quiet
  BY <1>1, <1>4, QuietKeeps
<1>5. CASE PhoneRest
  BY <1>5, RestKeeps
<1> QED BY <1>2, <1>3, <1>4, <1>5

LEMMA PhoneNumbersKept ==
  ASSUME TypeOK, PhoneNumbers, PhoneSteps
  PROVE  PhoneNumbers'
<1>1. /\ phone.rcvNxt \in Nat /\ phone.sndNxt \in Nat /\ out \in Seq(Packets)
      /\ phone.conn \in {"closed", "synRcvd", "estab"}
  BY TypeParts DEF PhoneType, PipesType
<1>2. CASE phone'.conn = phone.conn /\ phone'.rcvNxt = phone.rcvNxt /\ phone'.sndNxt = phone.sndNxt
  BY <1>2 DEF PhoneNumbers
<1>3. CASE phone' = Closed
  BY <1>3 DEF PhoneNumbers, Closed
<1>4. CASE PhoneSyn
  <2>1. out # <<>> /\ Head(out).seq \in Nat
    BY <1>1, <1>4, Firsts DEF PhoneSyn, Take
  <2>2. CASE phone' = [Closed EXCEPT !.conn = "synRcvd", !.rcvNxt = Head(out).seq + 1, !.sndNxt = 1]
    <3>1. phone'.rcvNxt = Head(out).seq + 1 /\ phone'.sndNxt = 1 /\ phone'.conn = "synRcvd"
      BY <2>2 DEF Closed
    <3> QED BY <2>1, <3>1 DEF PhoneNumbers
  <2>3. CASE phone' = phone
    BY <2>3 DEF PhoneNumbers
  <2> QED BY <1>3, <1>4, <2>2, <2>3, Zenon DEF PhoneSyn
<1>5. CASE PhoneTake
  <2>1. out # <<>> /\ Head(out).len \in Nat
    BY <1>1, <1>5, Firsts DEF PhoneTake, Take
  <2> DEFINE q == Head(out)
  <2>2. CASE /\ Fits(q)
             /\ phone' = [phone EXCEPT !.conn = "estab", !.rcvNxt = @ + q.len,
                                       !.acked = q.ack, !.held = @ + q.len]
    <3>1. phone'.rcvNxt = phone.rcvNxt + q.len /\ phone'.sndNxt = phone.sndNxt /\ phone'.conn = "estab"
      BY <2>2, TypeParts DEF PhoneType
    <3>2. phone.conn # "closed"
      BY <2>2 DEF Fits
    <3> QED BY <1>1, <2>1, <3>1, <3>2 DEF PhoneNumbers
  <2> QED BY <1>3, <1>5, <2>2, Zenon DEF PhoneTake
<1>6. CASE PhoneSend
  <2>1. PICK p \in Packets : /\ p.len \in Nat /\ phone'.sndNxt = phone.sndNxt + p.len
                             /\ phone'.rcvNxt = phone.rcvNxt
                             /\ phone.conn = "estab" /\ phone'.conn = "estab"
    BY <1>6, PhoneSendPuts
  <2> QED BY <1>1, <2>1 DEF PhoneNumbers
<1>7. CASE PhoneRead
  BY <1>2, <1>7, PhoneReadPuts
<1>8. CASE PhoneRest
  BY <1>2, <1>8, PhoneRestPuts
<1>9. CASE PhoneReset
  BY <1>3, <1>9 DEF PhoneReset
<1>10. CASE PhoneVersion \/ PhoneSetup \/ PhoneControl
  <2>1. phone' = phone
    BY <1>10 DEF PhoneVersion, PhoneSetup, PhoneControl
  <2> QED BY <2>1 DEF PhoneNumbers
<1> QED BY <1>4, <1>5, <1>6, <1>7, <1>8, <1>9, <1>10 DEF PhoneSteps

-----------------------------------------------------------------------------
(* The pipe to the phone.                                                     *)

LEMMA ChainSame ==
  ASSUME Chain, out' = out, pc' \in Linked => pc \in Linked /\ Edge' = Edge,
         pc' \in Mine => tx_ack' >= 1,
         pc' \in Waiting \cup {"final"} => pc \in Waiting \cup {"final"},
         \/ phone'.conn = "closed"
         \/ phone'.conn = phone.conn /\ phone'.rcvNxt = phone.rcvNxt
  PROVE  Chain'
<1> SUFFICES ASSUME pc' \in Linked PROVE Chain'
  BY DEF Chain
<1>1. pc \in Linked /\ Edge' = Edge
  OBVIOUS
<1>2. NoSyn' <=> NoSyn
  BY DEF NoSyn
<1>3. Start' = Start
  BY <1>1 DEF Start
<1>4. \A i \in DOMAIN out : (Live(i)' <=> Live(i)) /\ Behind(i)' = Behind(i)
  BY <1>1 DEF Live, Behind
<1>5. \A i \in DOMAIN out' :
        Live(i)' => out'[i].type \in {"syn", "ack"} /\ End(out'[i]) = Behind(i)'
  BY <1>1, <1>4 DEF Chain
<1>6. pc' \in Waiting \cup {"final"} /\ out' # <<>> => out'[Len(out')].type = "syn"
  BY <1>1 DEF Chain
<1>7. /\ NoSyn' /\ phone'.conn # "closed" => Start' = phone'.rcvNxt
      /\ NoSyn' /\ pc' \in Waiting \cup {"final"} => phone'.conn # "estab"
  BY <1>1, <1>2, <1>3, Zenon DEF Chain
<1> QED BY <1>1, <1>5, <1>6, <1>7 DEF Chain

(* What was behind the first packet is where the rest starts.                 *)
LEMMA OneLess ==
  ASSUME Len(out) \in Nat, Len(out) > 0, Len(out') = Len(out) - 1,
         \A i \in 1..Len(out) - 1 : out'[i] = out[i + 1],
         out' \in Seq(Packets), Edge' = Edge
  PROVE  Behind(1) = Start'
<1>1. CASE Len(out) > 1
  <2>1. 1 \in 1..Len(out) - 1 /\ 1 + 1 = 2
    BY <1>1
  <2>2. out'[1] = out[2] /\ Len(out') # 0
    BY <1>1, <2>1
  <2>3. out' # <<>>
    BY <2>2
  <2> QED BY <1>1, <2>1, <2>2, <2>3 DEF Behind, Start
<1>2. CASE Len(out) = 1
  <2>1. Len(out') = 0
    BY <1>2
  <2>2. out' = <<>>
    BY <2>1
  <2> QED BY <1>2, <2>2 DEF Behind, Start
<1> QED BY <1>1, <1>2

(* The phone takes the first packet.                                          *)
LEMMA ChainTail ==
  ASSUME TypeOK, Chain, pc \in Linked, out # <<>>, out' = Tail(out),
         UNCHANGED <<pc, tx_seq, tx_ack>>
  PROVE  /\ \A i \in DOMAIN out' :
              Live(i)' => out'[i].type \in {"syn", "ack"} /\ End(out'[i]) = Behind(i)'
         /\ NoSyn' => out[1].type \in {"syn", "ack"} /\ End(out[1]) = Start'
         /\ NoSyn' /\ out[1].type # "syn" => NoSyn
         /\ pc' \in Waiting \cup {"final"} /\ out' # <<>> => out'[Len(out')].type = "syn"
<1>1. /\ out \in Seq(Packets) /\ out' \in Seq(Packets) /\ Len(out') = Len(out) - 1
      /\ Len(out) \in Nat /\ Len(out) > 0
      /\ DOMAIN out = 1..Len(out) /\ DOMAIN out' = 1..Len(out) - 1
      /\ \A i \in 1..Len(out) - 1 : out'[i] = out[i + 1]
  BY TypeParts, Tails DEF PipesType
<1>2. Edge' = Edge
  BY DEF Edge
<1>3. \A j \in DOMAIN out : j > 1 => j - 1 \in DOMAIN out' /\ out'[j - 1] = out[j]
  <2> TAKE j \in DOMAIN out
  <2> HAVE j > 1
  <2>1. j - 1 \in 1..Len(out) - 1 /\ (j - 1) + 1 = j
    BY <1>1
  <2> QED BY <2>1, <1>1
<1>4. ASSUME NEW i \in DOMAIN out', Live(i)'
      PROVE  out'[i].type \in {"syn", "ack"} /\ End(out'[i]) = Behind(i)'
  <2>1. i + 1 \in DOMAIN out /\ out'[i] = out[i + 1]
    BY <1>1
  <2>2. Live(i + 1)
    <3> SUFFICES ASSUME NEW j \in DOMAIN out, j > i + 1 PROVE out[j].type # "syn"
      BY DEF Live
    <3>1. j > 1 /\ j - 1 > i
      BY <1>1
    <3>2. out'[j - 1].type # "syn"
      BY <3>1, <1>3, <1>4 DEF Live
    <3> QED BY <3>1, <3>2, <1>3
  <2>3. Behind(i)' = Behind(i + 1)
    <3>1. CASE i + 1 < Len(out)
      <4>1. i < Len(out') /\ i + 1 \in 1..Len(out) - 1
        BY <3>1, <1>1
      <4>2. out'[i + 1] = out[(i + 1) + 1]
        BY <4>1, <1>1
      <4> QED BY <3>1, <4>1, <4>2 DEF Behind
    <3>2. CASE ~(i + 1 < Len(out))
      <4>1. ~(i < Len(out'))
        BY <3>2, <1>1
      <4> QED BY <3>2, <4>1, <1>2 DEF Behind
    <3> QED BY <3>1, <3>2
  <2>4. out[i + 1].type \in {"syn", "ack"} /\ End(out[i + 1]) = Behind(i + 1)
    BY <2>1, <2>2 DEF Chain
  <2> QED BY <2>1, <2>3, <2>4
<1>5. ASSUME NoSyn' PROVE out[1].type \in {"syn", "ack"} /\ End(out[1]) = Start'
  <2>1. 1 \in DOMAIN out
    BY <1>1
  <2>2. Live(1)
    <3> SUFFICES ASSUME NEW j \in DOMAIN out, j > 1 PROVE out[j].type # "syn"
      BY DEF Live
    <3> QED BY <1>3, <1>5 DEF NoSyn
  <2>3. out[1].type \in {"syn", "ack"} /\ End(out[1]) = Behind(1)
    BY <2>1, <2>2 DEF Chain
  <2>4. Behind(1) = Start'
    BY <1>1, <1>2, OneLess
  <2> QED BY <2>3, <2>4
<1>6. ASSUME NoSyn', out[1].type # "syn" PROVE NoSyn
  <2> SUFFICES ASSUME NEW j \in DOMAIN out PROVE out[j].type # "syn"
    BY DEF NoSyn
  <2>1. CASE j = 1
    BY <2>1, <1>6
  <2>2. CASE j > 1
    BY <2>2, <1>3, <1>6 DEF NoSyn
  <2> QED BY <2>1, <2>2, <1>1
<1>7. ASSUME pc' \in Waiting \cup {"final"}, out' # <<>> PROVE out'[Len(out')].type = "syn"
  <2>1. out[Len(out)].type = "syn"
    BY <1>7 DEF Chain
  <2>2. Len(out) > 1 /\ Len(out) \in DOMAIN out
    BY <1>1, <1>7
  <2> QED BY <2>1, <2>2, <1>1, <1>3
<1> QED BY <1>4, <1>5, <1>6, <1>7

LEMMA PhoneChain ==
  ASSUME TypeOK, Chain, PhoneSteps
  PROVE  Chain'
<1>1. UNCHANGED <<pc, tx_seq, tx_ack>>
  BY PhoneKeeps DEF seqVars
<1>2. CASE /\ out' = out
           /\ \/ phone'.conn = "closed"
              \/ phone'.conn = phone.conn /\ phone'.rcvNxt = phone.rcvNxt
  <2>1. pc' \in Linked => pc \in Linked /\ Edge' = Edge
    BY <1>1 DEF Edge
  <2>2. pc' \in Mine => tx_ack' >= 1
    BY <1>1 DEF Linked, Chain
  <2> QED BY <1>1, <1>2, <2>1, <2>2, ChainSame
<1> SUFFICES ASSUME pc \in Linked PROVE Chain'
  BY <1>1 DEF Chain
<1>3. PhoneSend \/ PhoneRead \/ PhoneRest \/ PhoneReset \/ PhoneControl =>
        /\ out' = out
        /\ \/ phone'.conn = "closed"
           \/ phone'.conn = phone.conn /\ phone'.rcvNxt = phone.rcvNxt
  <2>1. PhoneSend => out' = out /\ phone'.conn = phone.conn /\ phone'.rcvNxt = phone.rcvNxt
    BY PhoneSendPuts DEF PhoneSend
  <2>2. PhoneRead => out' = out /\ phone'.conn = phone.conn /\ phone'.rcvNxt = phone.rcvNxt
    BY PhoneReadPuts DEF PhoneRead
  <2>3. PhoneRest => out' = out /\ phone'.conn = phone.conn /\ phone'.rcvNxt = phone.rcvNxt
    BY PhoneRestPuts DEF PhoneRest
  <2>4. PhoneReset => out' = out /\ phone'.conn = "closed"
    BY ClosedType DEF PhoneReset
  <2>5. PhoneControl => out' = out /\ phone'.conn = phone.conn /\ phone'.rcvNxt = phone.rcvNxt
    BY DEF PhoneControl
  <2> QED BY <2>1, <2>2, <2>3, <2>4, <2>5, Zenon
<1>4. ASSUME out # <<>>, out' = Tail(out),
             NoSyn' /\ phone'.conn # "closed" => phone'.rcvNxt = End(out[1]),
             NoSyn' /\ pc \in Waiting \cup {"final"} => phone'.conn # "estab"
      PROVE  Chain'
  <2>1. /\ \A i \in DOMAIN out' :
             Live(i)' => out'[i].type \in {"syn", "ack"} /\ End(out'[i]) = Behind(i)'
        /\ NoSyn' => End(out[1]) = Start'
        /\ pc' \in Waiting \cup {"final"} /\ out' # <<>> => out'[Len(out')].type = "syn"
    BY <1>1, <1>4, ChainTail
  <2>2. NoSyn' /\ phone'.conn # "closed" => Start' = phone'.rcvNxt
    BY <1>4, <2>1
  <2>3. NoSyn' /\ pc' \in Waiting \cup {"final"} => phone'.conn # "estab"
    BY <1>1, <1>4
  <2>4. pc' \in Mine => tx_ack' >= 1
    BY <1>1 DEF Chain
  <2> QED BY <1>1, <2>1, <2>2, <2>3, <2>4 DEF Chain
<1>5. ASSUME out # <<>>, out' = Tail(out)
      PROVE  /\ Head(out) = out[1] /\ out[1].seq \in Nat /\ out[1].len \in Nat
             /\ out \in Seq(Packets)
             /\ NoSyn' => out[1].type \in {"syn", "ack"} /\ End(out[1]) = Start'
             /\ NoSyn' /\ out[1].type # "syn" => NoSyn
  <2>1. out \in Seq(Packets)
    BY TypeParts DEF PipesType
  <2> QED BY <1>1, <1>5, <2>1, ChainTail, Firsts
<1>6. CASE PhoneVersion \/ PhoneSetup
  <2>1. out # <<>> /\ out' = Tail(out) /\ Head(out).type \in {"version", "setup"}
    BY <1>6 DEF PhoneVersion, PhoneSetup, Take
  <2>2. ~NoSyn'
    BY <2>1, <1>5
  <2> QED BY <2>1, <2>2, <1>4
<1>7. CASE PhoneSyn
  <2>1. out # <<>> /\ out' = Tail(out) /\ Head(out).type = "syn"
    BY <1>7 DEF PhoneSyn, Take
  <2>2. out[1].type = "syn" /\ Head(out) = out[1]
    BY <2>1, <1>5
  <2>3. NoSyn' => End(out[1]) = out[1].seq + 1
    BY <2>2 DEF End
  <2>4. \/ phone'.conn = "closed"
        \/ phone'.conn = "synRcvd" /\ phone'.rcvNxt = out[1].seq + 1
    <3>1. CASE phone' = [Closed EXCEPT !.conn = "synRcvd", !.rcvNxt = out[1].seq + 1, !.sndNxt = 1]
      BY <3>1 DEF Closed
    <3>2. CASE phone.conn = "synRcvd" /\ out[1].seq + 1 = phone.rcvNxt /\ phone' = phone
      BY <3>2
    <3>3. CASE phone' = Closed
      BY <3>3, ClosedType
    <3> QED BY <1>7, <2>2, <3>1, <3>2, <3>3, Zenon DEF PhoneSyn
  <2> QED BY <2>1, <2>3, <2>4, <1>4
<1>8. CASE PhoneTake
  <2>1. out # <<>> /\ out' = Tail(out) /\ Head(out).type = "ack"
    BY <1>8 DEF PhoneTake, Take
  <2>2. out[1].type = "ack" /\ Head(out) = out[1]
    BY <2>1, <1>5
  <2>3. NoSyn' => NoSyn
    BY <2>1, <2>2, <1>5
  <2>4. CASE phone' = Closed
    BY <2>4, <2>1, <1>4, ClosedType
  <2>5. CASE Fits(out[1]) /\ phone'.conn = "estab" /\ phone'.rcvNxt = phone.rcvNxt + out[1].len
    <3>1. phone.conn # "closed" /\ phone.rcvNxt = out[1].seq
      BY <2>5 DEF Fits
    <3>2. phone'.rcvNxt = End(out[1])
      BY <2>1, <2>2, <2>5, <3>1, <1>5 DEF End
    <3>3. NoSyn' => pc \notin Waiting \cup {"final"}
      <4> SUFFICES ASSUME NoSyn', pc \in Waiting \cup {"final"} PROVE FALSE
        OBVIOUS
      <4>1. out[Len(out)].type = "syn"
        BY <2>1 DEF Chain
      <4>2. Len(out) \in DOMAIN out
        BY <2>1, <1>5
      <4> QED BY <4>1, <4>2, <2>3 DEF NoSyn
    <3> QED BY <2>1, <3>2, <3>3, <1>4
  <2>6. CASE /\ Fits(out[1])
             /\ phone' = [phone EXCEPT !.conn = "estab", !.rcvNxt = @ + out[1].len,
                                       !.acked = out[1].ack, !.held = @ + out[1].len]
    <3>1. phone'.conn = "estab" /\ phone'.rcvNxt = phone.rcvNxt + out[1].len
      BY <2>6, TypeParts DEF PhoneType
    <3> QED BY <2>5, <2>6, <3>1
  <2> QED BY <1>8, <2>2, <2>4, <2>6, Zenon DEF PhoneTake
<1> QED BY <1>2, <1>3, <1>6, <1>7, <1>8, Zenon DEF PhoneSteps

-----------------------------------------------------------------------------
(* The session and the phone.                                                 *)

LEMMA BytesZero ==
  ASSUME NEW s \in Seq(Packets), \A i \in DOMAIN s : s[i].len = 0
  PROVE  Bytes(s) = 0
<1>1. Len(s) \in Nat /\ DOMAIN s = 1..Len(s)
  OBVIOUS
<1> DEFINE f == [i \in 0..Len(s) |-> 0]
<1>2. Adds(f, s, Len(s))
  BY <1>1 DEF Adds
<1>3. f[Len(s)] = 0
  BY <1>1
<1> HIDE DEF f
<1>4. Adds(Sums(s), s, Len(s))
  BY SumsAdds
<1>5. \A i \in 0..Len(s) : f[i] = Sums(s)[i]
  BY <1>1, <1>2, <1>4, AddsUnique
<1> QED BY <1>1, <1>3, <1>5 DEF Bytes

LEMMA LiveTail ==
  ASSUME TypeOK, out # <<>>, out' = Tail(out), NEW i \in DOMAIN out', Live(i)'
  PROVE  i + 1 \in DOMAIN out /\ out'[i] = out[i + 1] /\ Live(i + 1)
<1>1. /\ out \in Seq(Packets) /\ Len(out) \in Nat
      /\ DOMAIN out = 1..Len(out) /\ DOMAIN out' = 1..Len(out) - 1
      /\ \A j \in 1..Len(out) - 1 : out'[j] = out[j + 1]
  BY TypeParts, Tails DEF PipesType
<1>2. ASSUME NEW j \in DOMAIN out, j > i + 1 PROVE out[j].type # "syn"
  <2>1. j - 1 \in DOMAIN out' /\ j - 1 > i /\ (j - 1) + 1 = j
    BY <1>1, <1>2
  <2>2. out'[j - 1].type # "syn"
    BY <2>1 DEF Live
  <2> QED BY <2>1, <2>2, <1>1
<1> QED BY <1>1, <1>2 DEF Live

(* With no reset in the pipe there is nothing in it that is outdated.         *)
LEMMA CleanPipe ==
  ASSUME TypeOK, InShape, Outdated, Clean, phone.conn # "estab"
  PROVE  Bytes(in) = 0 /\ \A i \in DOMAIN in : in[i].type \notin Data
<1>1. \A i \in DOMAIN in : ~Buried(i)
  BY DEF Clean, Buried
<1>2. \A i \in DOMAIN in : in[i].type \notin Data
  BY <1>1 DEF Outdated
<1>3. \A i \in DOMAIN in : in[i].len = 0
  <2> TAKE i \in DOMAIN in
  <2>1. in[i].type \in {"version", "control", "synack", "rst"} /\ in[i].type # "rst"
    BY <1>2 DEF InShape, Clean
  <2> QED BY <2>1 DEF InShape
<1> QED BY <1>2, <1>3, BytesZero, TypeParts DEF PipesType

LEMMA PhoneKinds ==
  ASSUME TypeOK, PhoneSteps
  PROVE  (\E p \in Packets : Puts(p)) \/ Quiet \/ PhoneRest
BY PhoneVersionPuts, PhoneSetupQuiet, PhoneSynPuts, PhoneTakePuts, PhoneControlPuts,
   PhoneSendPuts, PhoneReadPuts, PhoneResetPuts, Zenon DEF PhoneSteps

LEMMA CleanBack ==
  ASSUME TypeOK, InStep, PhoneSteps, Clean'
  PROVE  /\ Clean /\ phone.conn # "closed" /\ phone'.conn # "closed"
         /\ phone'.conn = "synRcvd" => phone.conn = "synRcvd"
<1>1. UNCHANGED <<pc, cut>> /\ in \in Seq(Packets)
  BY PhoneKeeps, TypeParts DEF recvVars, PipesType
<1>2. CASE \E p \in Packets : Puts(p)
  <2>1. PICK p \in Packets : Puts(p)
    BY <1>2
  <2>2. in' = Append(in, p)
    BY <2>1 DEF Puts
  <2>3. /\ DOMAIN in = 1..Len(in) /\ DOMAIN in' = 1..Len(in) + 1 /\ Len(in) \in Nat
        /\ \A i \in 1..Len(in) : in'[i] = in[i]
        /\ in'[Len(in) + 1] = p
    BY <1>1, <2>2, Appends
  <2>4. Len(in) + 1 \in DOMAIN in' /\ \A i \in DOMAIN in : i \in DOMAIN in' /\ in'[i] = in[i]
    BY <2>3
  <2>5. p.type # "rst" /\ Clean
    BY <1>1, <2>3, <2>4 DEF Clean
  <2>6. phone.conn # "closed"
    BY <2>5 DEF InStep
  <2>7. phone.conn \in {"closed", "synRcvd", "estab"}
    BY TypeParts DEF PhoneType
  <2> QED BY <2>1, <2>5, <2>6, <2>7 DEF Puts
<1>3. CASE Quiet
  <2>1. Clean
    BY <1>1, <1>3 DEF Clean, Quiet
  <2> QED BY <1>3, <2>1 DEF Quiet, InStep
<1>4. CASE PhoneRest
  <2>1. RestPacket \in Packets /\ in' = Append(in, RestPacket) /\ phone'.conn = phone.conn
    BY <1>4, PhoneRestPuts
  <2>2. \A i \in DOMAIN in : i \in DOMAIN in' /\ in'[i] = in[i]
    <3>1. /\ DOMAIN in = 1..Len(in) /\ DOMAIN in' = 1..Len(in) + 1 /\ Len(in) \in Nat
          /\ \A i \in 1..Len(in) : in'[i] = in[i]
      BY <1>1, <2>1, Appends
    <3> QED BY <3>1
  <2>3. Clean
    BY <1>1, <2>2 DEF Clean
  <2> QED BY <2>1, <2>3 DEF InStep
<1> QED BY <1>2, <1>3, <1>4, PhoneKinds

(* What the phone sends is what comes, while the connection stays.            *)
LEMMA InStepSends ==
  ASSUME TypeOK, Clean, InStep, phone.conn = "estab", NoSyn, UNCHANGED <<pc, tx_ack, left>>,
         \/ in' = in /\ phone'.sndNxt = phone.sndNxt
         \/ \E p \in Packets : /\ in' = Append(in, p) /\ p.type # "synack"
                               /\ phone'.sndNxt = phone.sndNxt + p.len
  PROVE  /\ phone'.sndNxt = tx_ack' + Reading' + Bytes(in')
         /\ (\E i \in DOMAIN in' : in'[i].type = "synack") => tx_ack' = 1 /\ Reading' = 0
<1>1. Reading' = Reading
  BY DEF Reading
<1>2. /\ phone.sndNxt = tx_ack + Reading + Bytes(in)
      /\ (\E i \in DOMAIN in : in[i].type = "synack") => tx_ack = 1 /\ Reading = 0
  BY DEF InStep
<1>3. CASE in' = in /\ phone'.sndNxt = phone.sndNxt
  BY <1>1, <1>2, <1>3
<1>4. CASE \E p \in Packets : /\ in' = Append(in, p) /\ p.type # "synack"
                              /\ phone'.sndNxt = phone.sndNxt + p.len
  <2>1. PICK p \in Packets : /\ in' = Append(in, p) /\ p.type # "synack"
                             /\ phone'.sndNxt = phone.sndNxt + p.len
    BY <1>4
  <2>2. in \in Seq(Packets)
    BY TypeParts DEF PipesType
  <2>3. Bytes(in') = Bytes(in) + p.len
    BY <2>1, <2>2, BytesAppend
  <2>4. Bytes(in) \in Nat /\ p.len \in Nat /\ tx_ack \in Nat /\ Reading \in Nat
    BY <2>2, BytesNat, TypeParts DEF Packets, DaemonType, Reading
  <2>5. phone'.sndNxt = tx_ack' + Reading' + Bytes(in')
    BY <1>1, <1>2, <2>1, <2>3, <2>4
  <2>6. ASSUME NEW i \in DOMAIN in', in'[i].type = "synack"
        PROVE  tx_ack' = 1 /\ Reading' = 0
    <3>1. /\ DOMAIN in = 1..Len(in) /\ DOMAIN in' = 1..Len(in) + 1 /\ Len(in) \in Nat
          /\ \A j \in 1..Len(in) : in'[j] = in[j]
          /\ in'[Len(in) + 1] = p
      BY <2>1, <2>2, Appends
    <3>2. i \in 1..Len(in) \/ i = Len(in) + 1
      BY <3>1
    <3>3. i \in DOMAIN in /\ in[i].type = "synack"
      BY <2>1, <2>6, <3>1, <3>2
    <3> QED BY <1>1, <1>2, <3>3
  <2> QED BY <2>5, <2>6
<1> QED BY <1>3, <1>4

LEMMA PhoneInStep ==
  ASSUME TypeOK, InShape, RestsFollow, Outdated, PhoneNumbers, Chain, InStep, PhoneSteps
  PROVE  InStep'
<1> SUFFICES ASSUME Clean' PROVE InStep'
  BY DEF InStep
<1>1. UNCHANGED <<pc, tx_seq, tx_ack, left, cut>>
  BY PhoneKeeps DEF seqVars, recvVars
<1>2. /\ Clean /\ phone.conn # "closed" /\ phone'.conn # "closed"
      /\ phone'.conn = "synRcvd" => phone.conn = "synRcvd"
  BY CleanBack
<1>3. pc \in Mine /\ pc \in Linked
  BY <1>2 DEF Clean, Linked
<1>4. phone' # Closed
  BY <1>2, ClosedType
<1>5. phone.conn \in {"closed", "synRcvd", "estab"} /\ out \in Seq(Packets) /\ in \in Seq(Packets)
  BY TypeParts DEF PhoneType, PipesType
<1>6. out' = out \/ (out # <<>> /\ out' = Tail(out))
  BY DEF PhoneSteps, PhoneVersion, PhoneSetup, PhoneSyn, PhoneTake, PhoneRest, PhoneControl,
         PhoneSend, PhoneRead, PhoneReset, Take
<1>7. ASSUME phone'.conn = "synRcvd"
      PROVE  /\ pc' \notin {"rest", "dataAck"}
             /\ \A i \in DOMAIN out' : Live(i)' /\ out'[i].type = "ack" => out'[i].ack = tx_ack'
  <2>1. /\ pc \notin {"rest", "dataAck"}
        /\ \A i \in DOMAIN out : Live(i) /\ out[i].type = "ack" => out[i].ack = tx_ack
    BY <1>2, <1>7 DEF InStep
  <2>2. CASE out' = out
    BY <1>1, <2>1, <2>2 DEF Live
  <2>3. CASE out # <<>> /\ out' = Tail(out)
    <3>1. ASSUME NEW i \in DOMAIN out', Live(i)', out'[i].type = "ack"
          PROVE  out'[i].ack = tx_ack
      BY <2>1, <2>3, <3>1, LiveTail
    <3> QED BY <1>1, <2>1, <3>1
  <2> QED BY <1>6, <2>2, <2>3
<1>8. ASSUME phone'.conn = "estab", NoSyn'
      PROVE  /\ phone'.sndNxt = tx_ack' + Reading' + Bytes(in')
             /\ (\E i \in DOMAIN in' : in'[i].type = "synack") => tx_ack' = 1 /\ Reading' = 0
  <2>1. ASSUME phone.conn = "estab", NoSyn,
               \/ in' = in /\ phone'.sndNxt = phone.sndNxt
               \/ \E p \in Packets : /\ in' = Append(in, p) /\ p.type # "synack"
                                     /\ phone'.sndNxt = phone.sndNxt + p.len
        PROVE  /\ phone'.sndNxt = tx_ack' + Reading' + Bytes(in')
               /\ (\E i \in DOMAIN in' : in'[i].type = "synack") => tx_ack' = 1 /\ Reading' = 0
    BY <1>1, <1>2, <2>1, InStepSends
  <2>2. out' = out => NoSyn
    BY <1>8 DEF NoSyn
  <2>3. ASSUME out # <<>>, out' = Tail(out)
        PROVE  /\ out[1].type \in {"syn", "ack"} /\ Head(out) = out[1]
               /\ out[1].type # "syn" => NoSyn
    BY <1>1, <1>3, <1>5, <1>8, <2>3, ChainTail, Firsts
  <2>n. phone.sndNxt \in Nat /\ tx_ack \in Nat
    BY TypeParts DEF PhoneType, DaemonType
  <2>4. CASE PhoneVersion \/ PhoneSetup
    <3>1. out # <<>> /\ out' = Tail(out) /\ Head(out).type \in {"version", "setup"}
      BY <2>4 DEF PhoneVersion, PhoneSetup, Take
    <3> QED BY <3>1, <2>3
  <2>5. CASE PhoneControl
    <3>1. out' = out /\ phone' = phone /\ in' = Append(in, Mux("control"))
      BY <2>5 DEF PhoneControl, Answer
    <3>2. Mux("control") \in Packets /\ Mux("control").type # "synack" /\ Mux("control").len = 0
      BY MuxType
    <3>3. phone'.sndNxt = phone.sndNxt + Mux("control").len
      BY <2>n, <3>1, <3>2
    <3> QED BY <1>8, <2>1, <2>2, <3>1, <3>2, <3>3
  <2>6. CASE PhoneSyn
    <3>1. \/ phone' = [Closed EXCEPT !.conn = "synRcvd", !.rcvNxt = Head(out).seq + 1, !.sndNxt = 1]
          \/ phone.conn = "synRcvd" /\ phone' = phone
      BY <1>4, <2>6, Zenon DEF PhoneSyn
    <3>2. phone'.conn = "synRcvd"
      BY <3>1 DEF Closed
    <3> QED BY <1>8, <3>2
  <2>7. CASE PhoneTake
    <3>1. out # <<>> /\ out' = Tail(out) /\ Head(out).type = "ack"
      BY <2>7 DEF PhoneTake, Take
    <3>2. out[1].type = "ack" /\ Head(out) = out[1] /\ NoSyn
      BY <3>1, <2>3
    <3>3. /\ Fits(out[1]) /\ phone'.sndNxt = phone.sndNxt
          /\ \/ in' = in
             \/ \E p \in Packets : in' = Append(in, p) /\ p.type = "ack" /\ p.len = 0
      BY <1>4, <2>7, <3>2, PhoneTakePuts
    <3>4. CASE phone.conn = "estab"
      <4>1. CASE in' = in
        BY <4>1, <3>2, <3>3, <3>4, <2>1
      <4>2. CASE \E p \in Packets : in' = Append(in, p) /\ p.type = "ack" /\ p.len = 0
        <5>1. PICK p \in Packets : in' = Append(in, p) /\ p.type = "ack" /\ p.len = 0
          BY <4>2
        <5>2. phone'.sndNxt = phone.sndNxt + p.len /\ p.type # "synack"
          BY <5>1, <3>3, <2>n
        <5> QED BY <5>1, <5>2, <3>2, <3>4, <2>1
      <4> QED BY <3>3, <4>1, <4>2
    <3>5. CASE phone.conn = "synRcvd"
      <4>1. /\ pc \notin {"rest", "dataAck"}
            /\ \A i \in DOMAIN out : Live(i) /\ out[i].type = "ack" => out[i].ack = tx_ack
        BY <1>2, <3>5 DEF InStep
      <4>2. 1 \in DOMAIN out /\ Live(1)
        BY <1>5, <3>1, <3>2, Firsts DEF NoSyn, Live
      <4>3. out[1].ack = tx_ack
        BY <3>2, <4>1, <4>2
      <4>4. tx_ack = 1 /\ phone'.sndNxt = 1
        <5>1. phone.sndNxt = 1 /\ tx_ack >= 1
          BY <1>3, <3>5 DEF PhoneNumbers, Chain
        <5>2. tx_ack <= phone.sndNxt
          BY <3>3, <4>3 DEF Fits
        <5> QED BY <2>n, <3>3, <5>1, <5>2
      <4>5. Reading' = 0
        BY <1>1, <4>1 DEF Reading
      <4>6. Bytes(in) = 0
        BY <1>2, <3>5, CleanPipe
      <4>7. Bytes(in') = 0
        <5>1. CASE \E p \in Packets : in' = Append(in, p) /\ p.type = "ack" /\ p.len = 0
          <6>1. PICK p \in Packets : in' = Append(in, p) /\ p.type = "ack" /\ p.len = 0
            BY <5>1
          <6>2. Bytes(in') = Bytes(in) + p.len
            BY <1>5, <6>1, BytesAppend
          <6> QED BY <4>6, <6>1, <6>2
        <5> QED BY <3>3, <4>6, <5>1
      <4> QED BY <1>1, <4>4, <4>5, <4>7
    <3> QED BY <1>2, <1>5, <3>4, <3>5
  <2>8. CASE PhoneSend
    <3>1. /\ out' = out
          /\ \E p \in Packets : /\ in' = Append(in, p) /\ p.type # "synack" /\ phone.conn = "estab"
                                /\ phone'.sndNxt = phone.sndNxt + p.len
      <4>1. out' = out
        BY <2>8 DEF PhoneSend
      <4>2. PICK p \in Packets : /\ p.type \in {"ack", "head"} /\ phone.conn = "estab"
                                 /\ phone'.sndNxt = phone.sndNxt + p.len /\ in' = Append(in, p)
        BY <2>8, PhoneSendPuts
      <4> QED BY <4>1, <4>2
    <3> QED BY <3>1, <2>1, <2>2
  <2>9. CASE PhoneRest
    <3>1. /\ out' = out /\ phone.conn = "estab" /\ RestPacket \in Packets
          /\ in' = Append(in, RestPacket) /\ RestPacket.type # "synack"
          /\ phone'.sndNxt = phone.sndNxt + RestPacket.len
      BY <2>9, <2>n, PhoneRestPuts DEF PhoneRest, RestsFollow
    <3> QED BY <3>1, <2>1, <2>2
  <2>10. CASE PhoneRead
    <3>1. /\ out' = out /\ phone.conn = "estab" /\ phone'.sndNxt = phone.sndNxt
          /\ in' = in \/ \E p \in Packets : in' = Append(in, p) /\ p.type = "ack" /\ p.len = 0
      BY <2>10, PhoneReadPuts DEF PhoneRead, Quiet
    <3>2. CASE in' = in
      BY <3>1, <3>2, <2>1, <2>2
    <3>3. CASE \E p \in Packets : in' = Append(in, p) /\ p.type = "ack" /\ p.len = 0
      <4>1. PICK p \in Packets : in' = Append(in, p) /\ p.type = "ack" /\ p.len = 0
        BY <3>3
      <4>2. phone'.sndNxt = phone.sndNxt + p.len /\ p.type # "synack"
        BY <4>1, <3>1, <2>n
      <4> QED BY <3>1, <4>1, <4>2, <2>1, <2>2
    <3> QED BY <3>1, <3>2, <3>3
  <2>11. CASE PhoneReset
    BY <1>4, <2>11 DEF PhoneReset
  <2> QED BY <2>4, <2>5, <2>6, <2>7, <2>8, <2>9, <2>10, <2>11 DEF PhoneSteps
<1> QED BY <1>2, <1>7, <1>8 DEF InStep

LEMMA PhoneStep == IInv /\ PhoneSteps => IInv'
<1> SUFFICES ASSUME IInv, PhoneSteps PROVE IInv'
  OBVIOUS
<1>1. TypeOK /\ PipeParts /\ PhoneNumbers /\ Chain /\ InStep
  BY DEF IInv, PipeParts
<1>2. TypeOK' /\ PipeParts' /\ PhoneNumbers' /\ Chain' /\ InStep'
  BY <1>1, PhoneTypes, PhonePipe, PhoneNumbersKept, PhoneChain, PhoneInStep DEF PipeParts
<1> QED BY <1>2 DEF IInv, PipeParts

-----------------------------------------------------------------------------
(* The daemon's steps keep the types.                                         *)

LEMMA SentType ==
  ASSUME TypeOK, NEW p \in Packets, Sent(p) \/ NotSent
  PROVE  out' \in Seq(Packets)
<1>1. out \in Seq(Packets)
  BY TypeParts DEF PipesType
<1>2. out' = Append(out, p) \/ out' = out
  BY DEF Sent, NotSent
<1> QED BY <1>1, <1>2, Appends


LEMMA ConnectTypes ==
  ASSUME TypeOK, Connect
  PROVE  TypeOK'
<1>1. DaemonType /\ RecvType /\ PhoneType /\ out \in Seq(Packets) /\ in \in Seq(Packets)
  BY TypeParts DEF PipesType
<1>2. ASSUME DaemonType', RecvType', out' \in Seq(Packets), in' \in Seq(Packets), phone' = phone
      PROVE  TypeOK'
  <2>1. PhoneType' /\ PipesType'
    BY <1>1, <1>2 DEF PhoneType, PipesType
  <2> QED BY <1>2, <2>1, TypeParts, PTL
<1>3. \A types : Received(types) =>
        /\ in' \in Seq(Packets) /\ Head(in).ack \in Nat /\ Head(in).win \in Nat
  BY <1>1, Firsts DEF Received
<1>4. Nothing => in' \in Seq(Packets)
  BY <1>1 DEF Nothing
<1>5. UNCHANGED recvVars => RecvType'
  BY <1>1 DEF RecvType, recvVars
<1>6. CASE SendVersion
  <2>1. pc' \in Handshake /\ ZeroSequence /\ UNCHANGED <<recvVars, left, win, in, phone>>
    BY <1>6 DEF SendVersion, Go, Handshake
  <2>2. DaemonType'
    BY <1>1, <2>1 DEF DaemonType, ZeroSequence
  <2>3. out' \in Seq(Packets)
    BY <1>6, MuxType, SentType DEF SendVersion
  <2> QED BY <1>1, <1>2, <1>5, <2>1, <2>2, <2>3
<1>7. CASE RecvVersion
  <2>1. pc' \in Handshake /\ UNCHANGED <<seqVars, recvVars, left, win, out, phone>>
    BY <1>7 DEF RecvVersion, Go, Handshake
  <2>2. DaemonType'
    BY <1>1, <2>1 DEF DaemonType, seqVars
  <2>3. in' \in Seq(Packets)
    BY <1>3, <1>4, <1>7, Zenon DEF RecvVersion
  <2> QED BY <1>1, <1>2, <1>5, <2>1, <2>2, <2>3
<1>8. CASE SendSetup
  <2>1. pc' \in Handshake /\ UNCHANGED <<seqVars, recvVars, left, win, in, phone>>
    BY <1>8 DEF SendSetup, Go, Handshake
  <2>2. DaemonType'
    BY <1>1, <2>1 DEF DaemonType, seqVars
  <2>3. out' \in Seq(Packets)
    BY <1>8, MuxType, SentType DEF SendSetup
  <2> QED BY <1>1, <1>2, <1>5, <2>1, <2>2, <2>3
<1>9. CASE SendSyn
  <2>1. pc' \in Handshake /\ UNCHANGED <<seqVars, recvVars, left, win, in, phone>>
    BY <1>9 DEF SendSyn, Go, Handshake
  <2>2. DaemonType'
    BY <1>1, <2>1 DEF DaemonType, seqVars
  <2>3. Tcp("syn", 0) \in Packets
    BY <1>1, TcpType
  <2>4. out' \in Seq(Packets)
    BY <1>9, <2>3, SentType DEF SendSyn
  <2> QED BY <1>1, <1>2, <1>5, <2>1, <2>2, <2>4
<1>10. CASE SynTimeout
  <2>1. pc' \in Handshake /\ UNCHANGED <<seqVars, recvVars, left, win, out, phone>>
    BY <1>10 DEF SynTimeout, Go, Handshake
  <2>2. DaemonType'
    BY <1>1, <2>1 DEF DaemonType, seqVars
  <2> QED BY <1>1, <1>2, <1>4, <1>5, <1>10, <2>1, <2>2 DEF SynTimeout
<1>11. CASE RecvControl
  <2>1. pc' \in Handshake /\ UNCHANGED <<seqVars, recvVars, left, win, out, phone>>
    BY <1>11 DEF RecvControl, Go, Handshake
  <2>2. DaemonType'
    BY <1>1, <2>1 DEF DaemonType, seqVars
  <2>3. in' \in Seq(Packets)
    BY <1>3, <1>11, Zenon DEF RecvControl
  <2> QED BY <1>1, <1>2, <1>5, <2>1, <2>2, <2>3
<1>12. CASE RecvSynAck
  <2>1. /\ Received({"synack"}) /\ rx_ack' = Head(in).ack /\ rx_win' = Head(in).win
        /\ tx_seq' = tx_seq + 1 /\ tx_ack' = tx_ack + 1 /\ pc' = "final" /\ cut' = FALSE
        /\ UNCHANGED <<interBuf, left, win, out, phone>>
    BY <1>12 DEF RecvSynAck, Awaited, NoteHeader
  <2>2. in' \in Seq(Packets) /\ rx_ack' \in Nat /\ rx_win' \in Nat
    BY <1>3, <2>1
  <2>3. DaemonType'
    BY <1>1, <2>1, <2>2 DEF DaemonType, Handshake
  <2>4. RecvType'
    BY <1>1, <2>1 DEF RecvType
  <2> QED BY <1>1, <1>2, <2>1, <2>2, <2>3, <2>4
<1>13. CASE RecvRefusal
  <2>1. /\ Received({"rst"}) /\ ZeroSequence /\ pc' = "syn"
        /\ UNCHANGED <<recvVars, left, win, out, phone>>
    BY <1>13 DEF RecvRefusal, Awaited
  <2>2. DaemonType'
    BY <1>1, <2>1 DEF DaemonType, ZeroSequence, Handshake
  <2> QED BY <1>1, <1>2, <1>3, <1>5, <2>1, <2>2
<1>14. CASE RecvStale
  <2>1. /\ Received({"ack"}) \/ Received({"head"}) \/ Received({"rest"})
        /\ pc' = "syn" /\ UNCHANGED <<recvVars, tx_seq, tx_ack, left, win, out, phone>>
        /\ NoteHeader \/ UNCHANGED <<rx_ack, rx_win>>
    BY <1>14 DEF RecvStale, Awaited
  <2>2. in' \in Seq(Packets) /\ Head(in).ack \in Nat /\ Head(in).win \in Nat
    BY <1>3, <2>1, Zenon
  <2>3. rx_ack' \in Nat /\ rx_win' \in Nat
    BY <1>1, <2>1, <2>2 DEF NoteHeader, DaemonType
  <2>4. DaemonType'
    BY <1>1, <2>1, <2>3 DEF DaemonType, Handshake
  <2> QED BY <1>1, <1>2, <1>5, <2>1, <2>2, <2>4
<1>15. CASE SendFinal
  <2>1. pc' \in Handshake \cup Session /\ UNCHANGED <<seqVars, recvVars, left, win, in, phone>>
    BY <1>15 DEF SendFinal, Go, Handshake, Session
  <2>2. DaemonType'
    BY <1>1, <2>1 DEF DaemonType, seqVars
  <2>3. Tcp("ack", 0) \in Packets
    BY <1>1, TcpType
  <2>4. out' \in Seq(Packets)
    BY <1>15, <2>3, SentType DEF SendFinal
  <2> QED BY <1>1, <1>2, <1>5, <2>1, <2>2, <2>4
<1> QED BY <1>6, <1>7, <1>8, <1>9, <1>10, <1>11, <1>12, <1>13, <1>14, <1>15 DEF Connect

LEMMA SegmentSizeIs ==
  ASSUME TypeOK
  PROVE  SegmentSize \in Nat /\ left - SegmentSize \in Nat /\ win - SegmentSize \in Nat
<1>1. left \in Nat /\ win \in Nat /\ MaxPacket \in Nat
  BY TypeParts, Bounds DEF DaemonType
<1> QED BY <1>1 DEF SegmentSize, Least

SessionSteps ==
  \/ Receive \/ AckSegment \/ ResetDrain \/ ResetDone
  \/ StartPackage \/ SendSegment \/ SendTimeout \/ RecvWindow \/ RecvNoAck

LEMMA SessionTypes ==
  ASSUME TypeOK, SessionSteps
  PROVE  TypeOK'
<1>1. DaemonType /\ RecvType /\ PhoneType /\ out \in Seq(Packets) /\ in \in Seq(Packets)
  BY TypeParts DEF PipesType
<1>2. ASSUME DaemonType', RecvType', out' \in Seq(Packets), in' \in Seq(Packets), phone' = phone
      PROVE  TypeOK'
  <2>1. PhoneType' /\ PipesType'
    BY <1>1, <1>2 DEF PhoneType, PipesType
  <2> QED BY <1>2, <2>1, TypeParts, PTL
<1>3. \A types : Received(types) =>
        /\ in' \in Seq(Packets) /\ Head(in).ack \in Nat /\ Head(in).win \in Nat
        /\ Head(in).len \in Nat
  BY <1>1, Firsts DEF Received
<1>4. Nothing => in' \in Seq(Packets)
  BY <1>1 DEF Nothing
<1>5. UNCHANGED recvVars => RecvType'
  BY <1>1 DEF RecvType, recvVars
<1>6. Unread \in [ack : Nat, win : Nat] /\ cut \in BOOLEAN /\ interBuf.ack \in Nat /\ interBuf.win \in Nat
  BY <1>1 DEF Unread, RecvType
<1>7. CASE RecvOther
  <2>1. pc' = "released" /\ UNCHANGED <<seqVars, recvVars, left, win, out, phone>>
    BY <1>7 DEF RecvOther, Go
  <2>2. DaemonType'
    BY <1>1, <2>1 DEF DaemonType, seqVars
  <2> QED BY <1>1, <1>2, <1>3, <1>5, <1>7, <2>1, <2>2 DEF RecvOther
<1>8. CASE RecvSegment
  <2>1. /\ Received({"ack"}) /\ rx_ack' = Head(in).ack /\ rx_win' = Head(in).win
        /\ left' = Head(in).len /\ pc' \in Session
        /\ UNCHANGED <<recvVars, tx_seq, tx_ack, win, out, phone>>
    BY <1>8 DEF RecvSegment, NoteHeader, Go, Session
  <2>2. in' \in Seq(Packets) /\ rx_ack' \in Nat /\ rx_win' \in Nat /\ left' \in Nat
    BY <1>3, <2>1
  <2>3. DaemonType'
    BY <1>1, <2>1, <2>2 DEF DaemonType
  <2> QED BY <1>1, <1>2, <1>5, <2>1, <2>2, <2>3
<1>9. CASE RecvReset
  <2>1. /\ Received({"rst", "synack"}) /\ rx_ack' = Head(in).ack /\ rx_win' = Head(in).win
        /\ pc' = "reset" /\ UNCHANGED <<recvVars, tx_seq, tx_ack, left, win, out, phone>>
    BY <1>9 DEF RecvReset, NoteHeader, Go
  <2>2. in' \in Seq(Packets) /\ rx_ack' \in Nat /\ rx_win' \in Nat
    BY <1>3, <2>1
  <2>3. DaemonType'
    BY <1>1, <2>1, <2>2 DEF DaemonType
  <2> QED BY <1>1, <1>2, <1>5, <2>1, <2>2, <2>3
<1>10. CASE RecvHead
  <2>1. /\ Received({"head"}) /\ left' = Head(in).len /\ pc' = "rest"
        /\ interBuf' = [ack |-> Head(in).ack, win |-> Head(in).win]
        /\ UNCHANGED <<seqVars, win, out, phone, cut>>
    BY <1>10 DEF RecvHead, Go
  <2>2. in' \in Seq(Packets) /\ Head(in).ack \in Nat /\ Head(in).win \in Nat /\ left' \in Nat
    BY <1>3, <2>1
  <2>3. DaemonType'
    BY <1>1, <2>1, <2>2 DEF DaemonType, Session, seqVars
  <2>4. RecvType'
    BY <1>6, <2>1, <2>2 DEF RecvType
  <2> QED BY <1>1, <1>2, <2>1, <2>2, <2>3, <2>4
<1>11. CASE RecvRest
  <2>1. /\ Received({"rest"}) /\ pc' = "dataAck"
        /\ rx_ack' = interBuf.ack /\ rx_win' = interBuf.win /\ interBuf' = Unread
        /\ UNCHANGED <<tx_seq, tx_ack, left, win, out, phone, cut>>
    BY <1>11 DEF RecvRest, Go
  <2>2. in' \in Seq(Packets)
    BY <1>3, <2>1
  <2>3. DaemonType'
    BY <1>1, <1>6, <2>1 DEF DaemonType, Session
  <2>4. RecvType'
    BY <1>6, <2>1 DEF RecvType
  <2> QED BY <1>1, <1>2, <2>1, <2>2, <2>3, <2>4
<1>12. CASE RestTimeout
  <2>1. /\ Nothing /\ pc' = "idle" /\ left' = 0 /\ interBuf' = Unread /\ cut' = TRUE
        /\ UNCHANGED <<seqVars, win, out, phone>>
    BY <1>12 DEF RestTimeout, Go
  <2>2. DaemonType'
    BY <1>1, <2>1 DEF DaemonType, Session, seqVars
  <2>3. RecvType'
    BY <1>6, <2>1 DEF RecvType
  <2> QED BY <1>1, <1>2, <1>4, <2>1, <2>2, <2>3
<1>13. CASE RecvGarbled
  <2>1. /\ in # <<>> /\ pc' \in {"released", "reset", "idle"}
        /\ UNCHANGED <<recvVars, tx_seq, rx_ack, rx_win, left, win, out, phone>>
    BY <1>13 DEF RecvGarbled, Go
  <2>2. CASE in' = Tail(in) /\ tx_ack' = tx_ack
    <3>1. DaemonType'
      BY <1>1, <2>1, <2>2 DEF DaemonType, Session
    <3> QED BY <1>1, <1>2, <1>5, <2>1, <2>2, <3>1, Firsts
  <2>3. CASE /\ \E n \in 1..Len(in) : in' = SubSeq(in, n + 1, Len(in))
             /\ \E junk \in 0..MaxSeg : tx_ack' = tx_ack + junk
    <3>1. tx_ack' \in Nat
      BY <1>1, <2>3, Bounds DEF DaemonType
    <3>2. DaemonType'
      BY <1>1, <2>1, <3>1 DEF DaemonType, Session
    <3>3. in' \in Seq(Packets)
      BY <1>1, <2>3, Dropped
    <3> QED BY <1>1, <1>2, <1>5, <2>1, <3>2, <3>3
  <2> QED BY <1>13, <2>2, <2>3 DEF RecvGarbled
<1>14. CASE AckSegment
  <2>1. /\ pc' = "idle" /\ tx_ack' = tx_ack + left /\ left' = 0
        /\ UNCHANGED <<recvVars, tx_seq, rx_ack, rx_win, win, in, phone>>
    BY <1>14 DEF AckSegment, Go
  <2>2. DaemonType'
    BY <1>1, <2>1 DEF DaemonType, Session
  <2>3. Tcp("ack", 0) \in Packets
    BY <1>1, TcpType
  <2>4. out' \in Seq(Packets)
    BY <1>14, <2>3, SentType DEF AckSegment
  <2> QED BY <1>1, <1>2, <1>5, <2>1, <2>2, <2>4
<1>15. CASE ResetDrain
  <2>1. /\ \/ Received({"control", "version", "rest"}) /\ UNCHANGED <<rx_ack, rx_win>>
           \/ Received({"synack", "ack", "head", "rst"}) /\ NoteHeader
        /\ pc' = "reset" /\ UNCHANGED <<recvVars, tx_seq, tx_ack, left, win, out, phone>>
    BY <1>15 DEF ResetDrain, Go
  <2>2. in' \in Seq(Packets) /\ Head(in).ack \in Nat /\ Head(in).win \in Nat
    BY <1>3, <2>1, Zenon
  <2>3. rx_ack' \in Nat /\ rx_win' \in Nat
    BY <1>1, <2>1, <2>2 DEF NoteHeader, DaemonType
  <2>4. DaemonType'
    BY <1>1, <2>1, <2>3 DEF DaemonType
  <2> QED BY <1>1, <1>2, <1>5, <2>1, <2>2, <2>4
<1>16. CASE ResetDone
  <2>1. /\ in' = in \/ Received({"ack", "head"})
        /\ pc' = "syn" /\ ZeroSequence /\ UNCHANGED <<recvVars, left, win, out, phone>>
    BY <1>16 DEF ResetDone, Go
  <2>2. in' \in Seq(Packets)
    BY <1>1, <1>3, <2>1
  <2>3. DaemonType'
    BY <1>1, <2>1 DEF DaemonType, ZeroSequence, Handshake
  <2> QED BY <1>1, <1>2, <1>5, <2>1, <2>2, <2>3
<1>17. CASE StartPackage
  <2>1. /\ left' \in Nat /\ win' = rx_win /\ pc' \in Session
        /\ UNCHANGED <<seqVars, recvVars, out, in, phone>>
    BY <1>17, Bounds DEF StartPackage, Go, Session
  <2>2. DaemonType'
    BY <1>1, <2>1 DEF DaemonType, seqVars
  <2> QED BY <1>1, <1>2, <1>5, <2>1, <2>2
<1>18. CASE SendSegment
  <2>1. /\ pc' \in Session /\ tx_seq' = tx_seq + SegmentSize
        /\ left' = left - SegmentSize /\ win' = win - SegmentSize
        /\ UNCHANGED <<recvVars, tx_ack, rx_ack, rx_win, in, phone>>
    BY <1>18 DEF SendSegment, Session
  <2>2. SegmentSize \in Nat /\ left - SegmentSize \in Nat /\ win - SegmentSize \in Nat
    BY SegmentSizeIs
  <2>3. DaemonType'
    BY <1>1, <2>1, <2>2 DEF DaemonType
  <2>4. Tcp("ack", SegmentSize) \in Packets
    BY <1>1, <2>2, TcpType
  <2>5. out' \in Seq(Packets)
    BY <1>18, <2>4, SentType DEF SendSegment
  <2> QED BY <1>1, <1>2, <1>5, <2>1, <2>3, <2>5
<1>19. CASE SendTimeout
  <2>1. /\ pc' = "idle" /\ left' = 0 /\ UNCHANGED <<seqVars, recvVars, win, phone>>
        /\ out' = out /\ in' = in
    BY <1>19 DEF SendTimeout, Go, NotSent, Nothing
  <2>2. DaemonType'
    BY <1>1, <2>1 DEF DaemonType, Session, seqVars
  <2> QED BY <1>1, <1>2, <1>5, <2>1, <2>2
<1>20. CASE RecvWindow
  <2>1. /\ Received({"ack", "synack", "rst"}) /\ rx_ack' = Head(in).ack /\ rx_win' = Head(in).win
        /\ win' = rx_win' /\ pc' = "segment"
        /\ UNCHANGED <<recvVars, tx_seq, tx_ack, left, out, phone>>
    BY <1>20 DEF RecvWindow, NoteHeader, Go
  <2>2. in' \in Seq(Packets) /\ rx_ack' \in Nat /\ rx_win' \in Nat
    BY <1>3, <2>1
  <2>3. DaemonType'
    BY <1>1, <2>1, <2>2 DEF DaemonType, Session
  <2> QED BY <1>1, <1>2, <1>5, <2>1, <2>2, <2>3
<1>21. CASE RecvNoAck
  <2>1. /\ pc' = "released" /\ UNCHANGED <<seqVars, recvVars, left, win, out, phone>>
        /\ Received({"control", "version", "rest"}) \/ Received({"ack", "head", "rst"})
    BY <1>21 DEF RecvNoAck, Go
  <2>2. in' \in Seq(Packets)
    BY <1>3, <2>1, Zenon
  <2>3. DaemonType'
    BY <1>1, <2>1 DEF DaemonType, seqVars
  <2> QED BY <1>1, <1>2, <1>5, <2>1, <2>2, <2>3
<1> QED BY <1>7, <1>8, <1>9, <1>10, <1>11, <1>12, <1>13, <1>14, <1>15, <1>16, <1>17, <1>18,
           <1>19, <1>20, <1>21 DEF SessionSteps, Receive

-----------------------------------------------------------------------------
(* The daemon's steps keep the rest.                                          *)

LEMMA DaemonStep ==
  ASSUME IInv, TypeOK', phone' = phone, in' = in \/ Drops, Chain', RestsAwaited', InStep'
  PROVE  IInv'
<1>1. TypeOK /\ InShape /\ RestsFollow /\ Outdated /\ PhoneNumbers
  BY DEF IInv
<1>2. InShape' /\ RestsFollow' /\ Outdated'
  <2>1. CASE in' = in
    BY <1>1, <2>1 DEF InShape, RestsFollow, Outdated, Buried
  <2>2. CASE Drops
    BY <1>1, <2>2, InShapeDrops, RestsFollowDrops, OutdatedDrops
  <2> QED BY <2>1, <2>2
<1>3. PhoneNumbers'
  BY <1>1 DEF PhoneNumbers
<1> QED BY <1>2, <1>3 DEF IInv

(* ... and out of the session there is nothing left to keep.                  *)
LEMMA Outside ==
  ASSUME IInv, TypeOK', phone' = phone, in' = in \/ Drops, pc' \notin Linked
  PROVE  IInv'
<1>1. Chain' /\ RestsAwaited' /\ InStep'
  BY DEF Linked, Chain, RestsAwaited, Clean, InStep
<1> QED BY <1>1, DaemonStep

LEMMA Apart ==
  /\ "version" \notin Linked /\ "versionWait" \notin Linked /\ "setup" \notin Linked
  /\ "syn" \notin Linked /\ "reset" \notin Linked /\ "released" \notin Linked
  /\ Waiting \cap Mine = {} /\ Mine \subseteq Linked /\ Session \subseteq Mine
  /\ "final" \in Mine /\ "final" \notin Session /\ Session \cap Waiting = {}
  /\ Session = {"idle", "rest", "dataAck", "segment", "winWait"}
BY DEF Linked, Waiting, Mine, Session

LEMMA ChainAppend ==
  ASSUME TypeOK, Chain, pc \in Mine, pc' \in Session, NEW p \in Packets, out' = Append(out, p),
         p.type = "ack", p.seq = tx_seq, tx_seq' = tx_seq + p.len, phone' = phone, tx_ack' >= 1
  PROVE  Chain'
<1>1. /\ out \in Seq(Packets) /\ DOMAIN out = 1..Len(out) /\ DOMAIN out' = 1..Len(out) + 1
      /\ Len(out) \in Nat /\ Len(out') = Len(out) + 1
      /\ \A i \in 1..Len(out) : out'[i] = out[i]
      /\ out'[Len(out) + 1] = p /\ out' # <<>>
  BY TypeParts, Appends DEF PipesType
<1>2. pc \in Linked /\ Edge = tx_seq /\ Edge' = tx_seq' /\ pc' \notin Waiting \cup {"final"}
      /\ pc' \in Linked
  BY Apart DEF Edge
<1>3. \A i \in DOMAIN out : i \in DOMAIN out' /\ out'[i] = out[i] /\ (Live(i)' => Live(i))
  BY <1>1 DEF Live
<1>4. ASSUME NEW i \in DOMAIN out', Live(i)'
      PROVE  out'[i].type \in {"syn", "ack"} /\ End(out'[i]) = Behind(i)'
  <2>1. CASE i = Len(out) + 1
    <3>1. Behind(i)' = tx_seq'
      BY <1>1, <1>2, <2>1 DEF Behind
    <3> QED BY <1>1, <2>1, <3>1 DEF End
  <2>2. CASE i \in 1..Len(out)
    <3>1. Live(i) /\ out'[i] = out[i] /\ i \in DOMAIN out
      BY <1>1, <1>3, <1>4, <2>2
    <3>2. out[i].type \in {"syn", "ack"} /\ End(out[i]) = Behind(i)
      BY <1>2, <3>1 DEF Chain
    <3>3. Behind(i)' = Behind(i)
      <4>1. CASE i = Len(out)
        BY <1>1, <1>2, <4>1 DEF Behind
      <4>2. CASE i < Len(out)
        <5>1. i + 1 \in 1..Len(out) /\ i < Len(out')
          BY <1>1, <2>2, <4>2
        <5> QED BY <1>1, <4>2, <5>1 DEF Behind
      <4> QED BY <1>1, <2>2, <4>1, <4>2
    <3> QED BY <3>1, <3>2, <3>3
  <2>3. i \in 1..Len(out) \/ i = Len(out) + 1
    BY <1>1
  <2> QED BY <2>1, <2>2, <2>3
<1>5. NoSyn' => NoSyn
  BY <1>3 DEF NoSyn
<1>6. Start' = Start
  <2>1. CASE out = <<>>
    BY <1>1, <1>2, <2>1 DEF Start
  <2>2. CASE out # <<>>
    <3>1. 1 \in 1..Len(out)
      BY <1>1, <2>2
    <3> QED BY <1>1, <2>2, <3>1 DEF Start
  <2> QED BY <2>1, <2>2
<1>7. NoSyn' /\ phone'.conn # "closed" => Start' = phone'.rcvNxt
  BY <1>2, <1>5, <1>6 DEF Chain
<1> QED BY <1>2, <1>4, <1>7 DEF Chain

LEMMA ChainSyn ==
  ASSUME TypeOK, pc' \in Waiting, NEW p \in Packets, out' = Append(out, p),
         p.type = "syn", p.seq = tx_seq, tx_seq' = tx_seq
  PROVE  Chain'
<1>1. /\ out \in Seq(Packets) /\ DOMAIN out = 1..Len(out) /\ DOMAIN out' = 1..Len(out) + 1
      /\ Len(out) \in Nat /\ Len(out') = Len(out) + 1
      /\ out'[Len(out) + 1] = p
  BY TypeParts, Appends DEF PipesType
<1>2. Len(out) + 1 \in DOMAIN out'
  BY <1>1
<1>3. ~NoSyn'
  BY <1>1, <1>2 DEF NoSyn
<1>4. ASSUME NEW i \in DOMAIN out', Live(i)'
      PROVE  out'[i].type \in {"syn", "ack"} /\ End(out'[i]) = Behind(i)'
  <2>1. i = Len(out) + 1
    <3>1. ~(Len(out) + 1 > i)
      BY <1>1, <1>2, <1>4 DEF Live
    <3> QED BY <1>1, <3>1
  <2>2. Behind(i)' = tx_seq + 1
    BY <1>1, <2>1 DEF Behind, Edge
  <2> QED BY <1>1, <2>1, <2>2 DEF End
<1>5. pc' \notin Mine
  BY Apart
<1> QED BY <1>1, <1>3, <1>4, <1>5 DEF Chain

(* Behind anything but a head there is no rest.                               *)
LEMMA NoRestNext ==
  ASSUME TypeOK, RestsFollow, NEW types, Received(types), "head" \notin types, phone' = phone
  PROVE  RestsAwaited'
<1>1. in \in Seq(Packets) /\ in # <<>> /\ in' = Tail(in) /\ in[1].type # "head"
  BY ReceivedDrops
<1>2. /\ Len(in') = Len(in) - 1 /\ Len(in) \in Nat /\ Len(in) > 0
      /\ DOMAIN in = 1..Len(in) /\ \A i \in 1..Len(in) - 1 : in'[i] = in[i + 1]
  BY <1>1, Tails
<1>3. in' # <<>> => in'[1].type # "rest"
  <2> HAVE in' # <<>>
  <2>1. Len(in) > 1
    BY <1>1, <1>2
  <2>2. 1 \in 1..Len(in) - 1 /\ 2 \in DOMAIN in /\ 2 > 1 /\ 2 - 1 = 1 /\ 1 + 1 = 2
    BY <1>2, <2>1
  <2>3. in[2].type # "rest"
    BY <1>1, <2>2 DEF RestsFollow
  <2> QED BY <1>2, <2>2, <2>3
<1>4. in' = <<>> => ~phone'.rest
  <2> HAVE in' = <<>>
  <2>1. Len(in) = 1
    BY <1>2
  <2> QED BY <1>1, <2>1 DEF RestsFollow
<1> QED BY <1>3, <1>4 DEF RestsAwaited

(* What was taken off was no reset: the session was clean before.             *)
LEMMA CleanBefore ==
  ASSUME TypeOK, NEW types, Received(types), "rst" \notin types, pc \in Mine, cut' = cut, Clean',
         phone' = phone
  PROVE  /\ Clean /\ 1 \in DOMAIN in
         /\ \A i \in DOMAIN in' : i + 1 \in DOMAIN in /\ in'[i] = in[i + 1] /\ 1 < i + 1
<1>1. in \in Seq(Packets) /\ in # <<>> /\ in' = Tail(in) /\ in[1].type # "rst"
  BY ReceivedDrops
<1>2. /\ Len(in) \in Nat /\ Len(in) > 0 /\ DOMAIN in = 1..Len(in)
      /\ DOMAIN in' = 1..Len(in) - 1 /\ \A i \in 1..Len(in) - 1 : in'[i] = in[i + 1]
  BY <1>1, Tails
<1>3. ASSUME NEW i \in DOMAIN in PROVE in[i].type # "rst"
  <2>1. CASE i = 1
    BY <1>1, <2>1
  <2>2. CASE i > 1
    <3>1. i - 1 \in DOMAIN in' /\ in'[i - 1] = in[i]
      <4>1. i - 1 \in 1..Len(in) - 1 /\ (i - 1) + 1 = i
        BY <1>2, <2>2
      <4> QED BY <1>2, <4>1
    <3> QED BY <3>1 DEF Clean
  <2> QED BY <1>2, <2>1, <2>2
<1> QED BY <1>2, <1>3 DEF Clean

LEMMA ReceivedBytes ==
  ASSUME TypeOK, NEW types, Received(types)
  PROVE  /\ Bytes(in) = in[1].len + Bytes(in') /\ Bytes(in') \in Nat
         /\ in[1].len \in Nat /\ Head(in) = in[1]
<1>1. in \in Seq(Packets) /\ in # <<>> /\ in' = Tail(in)
  BY TypeParts DEF PipesType, Received
<1> QED BY <1>1, BytesTail, BytesNat, Firsts

LEMMA ReadingNat == TypeOK => Reading \in Nat /\ tx_ack \in Nat /\ left \in Nat
BY TypeParts DEF Reading, DaemonType

LEMMA ConnectStep ==
  ASSUME IInv, Connect
  PROVE  IInv'
<1>1. TypeOK /\ InShape /\ RestsFollow /\ RestsAwaited /\ Outdated /\ Chain /\ InStep
  BY DEF IInv
<1>2. TypeOK'
  BY <1>1, ConnectTypes
<1>3. phone' = phone
  BY DEF Connect, SendVersion, RecvVersion, SendSetup, SendSyn, SynTimeout, RecvControl,
         RecvSynAck, RecvRefusal, RecvStale, SendFinal
<1>4. \A types : Received(types) => Drops
  BY <1>1, <1>3, ReceivedDrops
<1>5. in' = in \/ Drops
  BY <1>4, Zenon DEF Connect, SendVersion, RecvVersion, SendSetup, SendSyn, SynTimeout,
       RecvControl, RecvSynAck, RecvRefusal, RecvStale, SendFinal, Awaited, Nothing
<1>6. CASE pc' \notin Linked
  BY <1>2, <1>3, <1>5, <1>6, Outside
<1>7. CASE SendVersion \/ RecvVersion \/ SendSetup \/ SynTimeout \/ RecvRefusal \/ RecvStale
  <2>1. pc' \in {"version", "versionWait", "setup", "syn"}
    BY <1>7 DEF SendVersion, RecvVersion, SendSetup, SynTimeout, RecvRefusal, RecvStale, Go
  <2> QED BY <2>1, <1>6, Apart
<1>8. ASSUME pc' \in Waiting
      PROVE  RestsAwaited' /\ InStep'
  BY <1>8, Apart DEF RestsAwaited, InStep, Clean
<1>9. CASE SendSyn
  <2>1. CASE pc' = "syn"
    BY <2>1, <1>6, Apart
  <2>2. CASE pc' = "synWait" /\ Sent(Tcp("syn", 0))
    <3> DEFINE p == Tcp("syn", 0)
    <3>1. p \in Packets /\ p.type = "syn" /\ p.seq = tx_seq
      BY <1>1, TcpType, TypeParts
    <3>2. out' = Append(out, p) /\ tx_seq' = tx_seq /\ pc' \in Waiting
      BY <1>9, <2>2 DEF SendSyn, Sent, seqVars, Waiting
    <3> HIDE DEF p
    <3>3. Chain'
      BY <1>1, <3>1, <3>2, ChainSyn
    <3> QED BY <1>2, <1>3, <1>5, <1>8, <3>2, <3>3, DaemonStep
  <2> QED BY <1>9, <2>1, <2>2 DEF SendSyn, Go
<1>10. CASE RecvControl
  <2>1. CASE pc' = "syn"
    BY <2>1, <1>6, Apart
  <2>2. CASE pc = "synWait" /\ pc' = "ctlWait"
    <3>1. pc \in Waiting /\ pc' \in Waiting /\ pc \in Linked /\ pc' \notin Mine
      BY <2>2, Apart DEF Waiting, Linked
    <3>2. out' = out /\ Edge' = Edge
      BY <1>10, <3>1 DEF RecvControl, seqVars, Edge
    <3>3. Chain'
      BY <1>1, <1>3, <3>1, <3>2, ChainSame
    <3> QED BY <1>2, <1>3, <1>5, <1>8, <3>1, <3>3, DaemonStep
  <2> QED BY <1>10, <2>1, <2>2 DEF RecvControl, Go
<1>11. CASE RecvSynAck
  <2>1. /\ pc \in Waiting /\ Received({"synack"}) /\ tx_seq' = tx_seq + 1 /\ tx_ack' = tx_ack + 1
        /\ pc' = "final" /\ cut' = FALSE /\ out' = out
    BY <1>11 DEF RecvSynAck, Awaited, Waiting
  <2>2. pc \in Linked /\ pc' \in Mine /\ pc' \notin Waiting
    BY <2>1, Apart DEF Linked
  <2>3. Chain'
    <3>1. Edge' = Edge
      BY <2>1, <2>2 DEF Edge
    <3>2. tx_ack' >= 1
      BY <1>1, <2>1, TypeParts DEF DaemonType
    <3> QED BY <1>1, <1>3, <2>1, <2>2, <3>1, <3>2, ChainSame
  <2>4. RestsAwaited'
    <3>1. "head" \notin {"synack"}
      OBVIOUS
    <3> QED BY <1>1, <1>3, <2>1, <3>1, NoRestNext
  <2>5. InStep'
    <3> SUFFICES ASSUME Clean' PROVE InStep'
      BY DEF InStep
    <3>1. \A i \in DOMAIN in' : in'[i].type # "rst"
      BY DEF Clean
    <3>2. in[1].type = "synack" /\ in' = Tail(in) /\ in \in Seq(Packets) /\ in # <<>>
      BY <1>1, <1>3, <2>1, ReceivedDrops
    <3>3. /\ Len(in) \in Nat /\ Len(in) > 0 /\ DOMAIN in = 1..Len(in)
          /\ DOMAIN in' = 1..Len(in) - 1 /\ \A i \in 1..Len(in) - 1 : in'[i] = in[i + 1]
      BY <3>2, Tails
    <3>4. phone.conn # "closed"
      <4> SUFFICES ASSUME phone.conn = "closed" PROVE FALSE
        OBVIOUS
      <4>1. 1 \in DOMAIN in
        BY <3>3
      <4>2. PICK j \in DOMAIN in : j > 1 /\ in[j].type = "rst"
        BY <1>1, <3>2, <4>1 DEF Outdated, Buried
      <4>3. j - 1 \in 1..Len(in) - 1 /\ (j - 1) + 1 = j
        BY <3>3, <4>2
      <4> QED BY <3>1, <3>3, <4>2, <4>3
    <3>5. \A i \in DOMAIN out' : Live(i)' /\ out'[i].type = "ack" => out'[i].ack = tx_ack'
      <4> SUFFICES ASSUME NEW i \in DOMAIN out, Live(i), out[i].type = "ack" PROVE FALSE
        BY <2>1 DEF Live
      <4>1. /\ out \in Seq(Packets) /\ DOMAIN out = 1..Len(out) /\ Len(out) \in Nat
            /\ out # <<>> /\ Len(out) \in DOMAIN out
        BY <1>1, TypeParts DEF PipesType
      <4>2. out[Len(out)].type = "syn"
        BY <1>1, <2>1, <2>2, <4>1 DEF Chain
      <4>3. CASE i = Len(out)
        BY <4>2, <4>3
      <4>4. CASE i < Len(out)
        BY <4>1, <4>2, <4>4 DEF Live
      <4> QED BY <4>1, <4>3, <4>4
    <3>6. NoSyn' => phone'.conn # "estab"
      BY <2>1, <2>3, <2>2, Apart DEF Chain
    <3>7. pc' \notin {"rest", "dataAck"}
      BY <2>1
    <3> QED BY <1>3, <3>4, <3>5, <3>6, <3>7 DEF InStep
  <2> QED BY <1>2, <1>3, <1>5, <2>3, <2>4, <2>5, DaemonStep
<1>12. CASE SendFinal
  <2>1. CASE pc' = "syn"
    BY <2>1, <1>6, Apart
  <2>2. CASE pc = "final" /\ pc' = "idle" /\ Sent(Tcp("ack", 0))
    <3> DEFINE p == Tcp("ack", 0)
    <3>1. p \in Packets /\ p.type = "ack" /\ p.seq = tx_seq /\ p.ack = tx_ack /\ p.len = 0
      BY <1>1, TcpType, TypeParts
    <3>2. /\ out' = Append(out, p) /\ UNCHANGED <<tx_seq, tx_ack, in, cut>>
          /\ pc \in Mine /\ pc \in Linked /\ pc' \in Session
      BY <1>12, <2>2, Apart DEF SendFinal, Sent, seqVars, recvVars
    <3> HIDE DEF p
    <3>3. Chain'
      <4>1. tx_seq' = tx_seq + p.len /\ tx_ack' >= 1
        BY <1>1, <3>1, <3>2, TypeParts DEF DaemonType, Chain
      <4> QED BY <1>1, <1>3, <3>1, <3>2, <4>1, ChainAppend
    <3>4. RestsAwaited'
      BY <1>1, <1>3, <2>2, <3>2 DEF RestsAwaited
    <3>5. InStep'
      <4> SUFFICES ASSUME Clean' PROVE InStep'
        BY DEF InStep
      <4>1. Clean
        BY <3>2 DEF Clean
      <4>2. /\ DOMAIN out = 1..Len(out) /\ DOMAIN out' = 1..Len(out) + 1 /\ Len(out) \in Nat
            /\ \A i \in 1..Len(out) : out'[i] = out[i]
            /\ out'[Len(out) + 1] = p
        BY <1>1, <3>1, <3>2, TypeParts, Appends DEF PipesType
      <4>3. \A i \in DOMAIN out : i \in DOMAIN out' /\ out'[i] = out[i] /\ (Live(i)' => Live(i))
        BY <4>2 DEF Live
      <4>4. NoSyn' => NoSyn
        BY <4>3 DEF NoSyn
      <4>5. NoSyn' => phone'.conn # "estab"
        BY <1>1, <1>3, <2>2, <3>2, <4>4 DEF Chain
      <4>6. ASSUME phone'.conn = "synRcvd", NEW i \in DOMAIN out', Live(i)', out'[i].type = "ack"
            PROVE  out'[i].ack = tx_ack'
        <5>1. CASE i = Len(out) + 1
          BY <3>1, <3>2, <4>2, <5>1
        <5>2. CASE i \in DOMAIN out
          BY <1>1, <1>3, <3>2, <4>1, <4>3, <4>6, <5>2 DEF InStep
        <5> QED BY <4>2, <5>1, <5>2
      <4>7. pc' \notin {"rest", "dataAck"} /\ phone'.conn # "closed"
        BY <1>1, <1>3, <2>2, <4>1 DEF InStep
      <4> QED BY <4>5, <4>6, <4>7 DEF InStep
    <3> QED BY <1>2, <1>3, <1>5, <3>3, <3>4, <3>5, DaemonStep
  <2> QED BY <1>12, <2>1, <2>2 DEF SendFinal, Go
<1> QED BY <1>7, <1>9, <1>10, <1>11, <1>12 DEF Connect

(* A packet of data is read.                                                  *)
LEMMA ReadKeepsStep ==
  ASSUME IInv, pc \in Mine, NEW types, types \subseteq Data, Received(types), cut' = cut,
         phone' = phone, out' = out, tx_ack' = tx_ack, Reading' = Reading + in[1].len
  PROVE  InStep'
<1>1. TypeOK /\ InShape /\ Outdated /\ InStep
  BY DEF IInv
<1> SUFFICES ASSUME Clean' PROVE InStep'
  BY DEF InStep
<1>2. "rst" \notin types /\ in[1].type \in Data
  BY <1>1, ReceivedDrops DEF Data
<1>3. /\ Clean /\ 1 \in DOMAIN in
      /\ \A i \in DOMAIN in' : i + 1 \in DOMAIN in /\ in'[i] = in[i + 1] /\ 1 < i + 1
  BY <1>1, <1>2, CleanBefore
<1>4. phone.conn = "estab"
  BY <1>1, <1>2, <1>3, CleanPipe
<1>5. ASSUME NEW i \in DOMAIN in', in'[i].type = "synack" PROVE FALSE
  <2>1. PICK k \in 1..(i + 1) : in[k].type = "rst"
    <3>1. i + 1 \in DOMAIN in /\ in[i + 1].type = "synack" /\ 1 < i + 1
      BY <1>3, <1>5
    <3> QED BY <1>1, <1>2, <1>3, <3>1 DEF Outdated
  <2>2. k \in DOMAIN in
    <3>1. in \in Seq(Packets) /\ i + 1 \in DOMAIN in
      BY <1>1, <1>3, TypeParts DEF PipesType
    <3> QED BY <3>1
  <2> QED BY <1>3, <2>1, <2>2 DEF Clean
<1>6. NoSyn' => phone'.sndNxt = tx_ack' + Reading' + Bytes(in')
  <2> HAVE NoSyn'
  <2>1. NoSyn
    BY DEF NoSyn
  <2>2. phone.sndNxt = tx_ack + Reading + Bytes(in)
    BY <1>1, <1>3, <1>4, <2>1 DEF InStep
  <2>3. /\ Bytes(in) = in[1].len + Bytes(in') /\ Bytes(in') \in Nat /\ in[1].len \in Nat
        /\ Reading \in Nat /\ tx_ack \in Nat
    BY <1>1, ReceivedBytes, ReadingNat
  <2> QED BY <2>2, <2>3
<1> QED BY <1>4, <1>5, <1>6 DEF InStep

(* The three steps that read data.                                            *)
Reads == RecvSegment \/ RecvHead \/ RecvRest

LEMMA ReadShape ==
  ASSUME IInv, Reads
  PROVE  /\ \E types \in SUBSET Data :
              Received(types) /\ (pc' = "rest" \/ "head" \notin types)
         /\ pc \in Session /\ pc' \in Session /\ phone' = phone /\ out' = out
         /\ UNCHANGED <<cut, tx_seq, tx_ack>>
         /\ Reading' = Reading + in[1].len
<1>1. TypeOK /\ InShape
  BY DEF IInv
<1>2. CASE RecvSegment
  <2>1. /\ pc = "idle" /\ Received({"ack"}) /\ left' = Head(in).len
        /\ pc' = IF left' > 0 THEN "dataAck" ELSE "idle"
        /\ UNCHANGED <<cut, tx_seq, tx_ack, phone, out>>
    BY <1>2 DEF RecvSegment, Go, recvVars
  <2>2. /\ Head(in) = in[1] /\ in[1].len \in Nat
    BY <1>1, <2>1, ReceivedBytes
  <2>3. Reading' = Reading + in[1].len
    BY <2>1, <2>2 DEF Reading
  <2> QED BY <2>1, <2>3, Apart DEF Data
<1>3. CASE RecvHead
  <2>1. /\ pc = "idle" /\ Received({"head"}) /\ left' = Head(in).len /\ pc' = "rest"
        /\ UNCHANGED <<cut, tx_seq, tx_ack, phone, out>>
    BY <1>3 DEF RecvHead, Go, seqVars
  <2>2. /\ Head(in) = in[1] /\ in[1].len \in Nat
    BY <1>1, <2>1, ReceivedBytes
  <2>3. Reading' = Reading + in[1].len
    BY <2>1, <2>2 DEF Reading
  <2> QED BY <2>1, <2>3, Apart DEF Data
<1>4. CASE RecvRest
  <2>1. /\ pc = "rest" /\ Received({"rest"}) /\ left' = left /\ pc' = "dataAck"
        /\ UNCHANGED <<cut, tx_seq, tx_ack, phone, out>>
    BY <1>4 DEF RecvRest, Go
  <2>2. in[1].len = 0
    <3>1. in # <<>> /\ in[1].type = "rest" /\ in \in Seq(Packets)
      BY <1>1, <2>1, ReceivedDrops
    <3>2. 1 \in DOMAIN in
      BY <3>1, Firsts
    <3> QED BY <1>1, <3>1, <3>2 DEF InShape
  <2>3. Reading' = Reading + in[1].len
    BY <1>1, <2>1, <2>2, ReadingNat DEF Reading
  <2> QED BY <2>1, <2>3, Apart DEF Data
<1> QED BY <1>2, <1>3, <1>4 DEF Reads

LEMMA ReceiveStep ==
  ASSUME IInv, Receive
  PROVE  IInv'
<1>1. TypeOK /\ InShape /\ RestsFollow /\ RestsAwaited /\ Outdated /\ Chain /\ InStep
  BY DEF IInv
<1>2. TypeOK' /\ phone' = phone /\ out' = out
  BY <1>1, SessionTypes DEF SessionSteps, Receive, RecvOther, RecvSegment, RecvReset, RecvHead,
       RecvRest, RestTimeout, RecvGarbled
<1>3. \A types : Received(types) => Drops
  BY <1>1, <1>2, ReceivedDrops
<1>4. Nothing => in' = in
  BY DEF Nothing
<1>5. ASSUME in' = in \/ Drops, pc \in Session, pc' \in Session, tx_seq' = tx_seq,
             tx_ack' >= tx_ack, RestsAwaited', InStep'
      PROVE  IInv'
  <2>1. pc \in Linked /\ pc' \in Mine /\ pc' \notin Waiting \cup {"final"} /\ pc \notin Waiting
        /\ pc \in Mine
    BY <1>5, Apart
  <2>2. Edge' = Edge
    BY <1>5, <2>1 DEF Edge
  <2>3. tx_ack' >= 1
    <3>1. tx_ack >= 1
      BY <1>1, <2>1 DEF Chain
    <3>2. tx_ack \in Nat /\ tx_ack' \in Nat
      BY <1>1, <1>2, Zenon DEF TypeOK
    <3> QED BY <1>5, <3>1, <3>2
  <2>4. Chain'
    BY <1>1, <1>2, <2>1, <2>2, <2>3, ChainSame
  <2> QED BY <1>2, <1>5, <2>4, DaemonStep
<1>6. CASE RecvOther \/ RecvReset
  <2>1. pc' \in {"released", "reset"}
    BY <1>6 DEF RecvOther, RecvReset, Go
  <2>2. Drops
    BY <1>3, <1>6 DEF RecvOther, RecvReset
  <2> QED BY <1>2, <2>1, <2>2, Outside, Apart
<1>7. CASE Reads
  <2>1. PICK types \in SUBSET Data :
               Received(types) /\ (pc' = "rest" \/ "head" \notin types)
    BY <1>7, ReadShape
  <2>2. /\ pc \in Session /\ pc' \in Session
        /\ UNCHANGED <<cut, tx_seq, tx_ack>> /\ Reading' = Reading + in[1].len
    BY <1>7, ReadShape
  <2>3. InStep'
    <3>1. pc \in Mine
      BY <2>2, Apart
    <3> QED BY <1>2, <2>1, <2>2, <3>1, ReadKeepsStep
  <2>4. RestsAwaited'
    <3>1. CASE pc' = "rest"
      BY <3>1 DEF RestsAwaited
    <3>2. CASE "head" \notin types
      BY <1>1, <1>2, <2>1, <3>2, NoRestNext
    <3> QED BY <2>1, <3>1, <3>2
  <2>5. tx_ack' >= tx_ack
    BY <1>1, <2>2, ReadingNat
  <2> QED BY <1>3, <1>5, <2>1, <2>2, <2>3, <2>4, <2>5
<1>8. ASSUME cut' = TRUE PROVE RestsAwaited' /\ InStep'
  BY <1>8 DEF RestsAwaited, InStep, Clean
<1>9. CASE RestTimeout
  <2>1. pc = "rest" /\ pc' = "idle" /\ cut' = TRUE /\ UNCHANGED <<tx_seq, tx_ack, in>>
    BY <1>9 DEF RestTimeout, Go, Nothing, seqVars
  <2>2. pc \in Session /\ pc' \in Session /\ tx_ack' >= tx_ack
    BY <1>1, <2>1, Apart, ReadingNat
  <2> QED BY <1>5, <1>8, <2>1, <2>2
<1>10. CASE RecvGarbled
  <2>1. /\ in # <<>> /\ in[1].type = "rest" /\ pc = "idle" /\ in \in Seq(Packets)
        /\ UNCHANGED <<cut, tx_seq>>
    <3>1. in # <<>> /\ Head(in).type = "rest" /\ pc = "idle" /\ UNCHANGED <<cut, tx_seq>>
      BY <1>10 DEF RecvGarbled, Go, recvVars
    <3> QED BY <1>1, <3>1, TypeParts, Firsts DEF PipesType
  <2>2. cut' = TRUE
    <3>1. cut \in BOOLEAN
      BY <1>1, TypeParts DEF RecvType
    <3>2. cut
      BY <1>1, <2>1, Apart DEF RestsAwaited
    <3> QED BY <2>1, <3>1, <3>2
  <2>3. CASE pc' \in {"released", "reset"} /\ in' = Tail(in)
    <3>1. 1 \in 1..Len(in) /\ Tail(in) = SubSeq(in, 1 + 1, Len(in))
      BY <2>1
    <3>2. Drops
      BY <1>2, <2>1, <2>3, <3>1 DEF Drops
    <3> QED BY <1>2, <2>3, <3>2, Outside, Apart
  <2>4. CASE /\ pc' = "idle"
             /\ \E n \in 1..Len(in) : in' = SubSeq(in, n + 1, Len(in))
             /\ \E junk \in 0..MaxSeg : tx_ack' = tx_ack + junk
    <3>1. Drops
      BY <1>2, <2>1, <2>4 DEF Drops
    <3>2. tx_ack' >= tx_ack
      BY <1>1, <2>4, ReadingNat, Bounds
    <3>3. pc \in Session /\ pc' \in Session
      BY <2>1, <2>4, Apart
    <3> QED BY <1>5, <1>8, <2>1, <2>2, <3>1, <3>2, <3>3
  <2> QED BY <1>10, <2>3, <2>4 DEF RecvGarbled, Go
<1> QED BY <1>6, <1>7, <1>9, <1>10 DEF Receive, Reads

(* The steps in which the daemon sends, or does not.                          *)
Sends == SendSegment \/ SendTimeout \/ StartPackage \/ AckSegment

LEMMA SendShape ==
  ASSUME IInv, Sends
  PROVE  /\ TypeOK' /\ phone' = phone /\ in' = in /\ cut' = cut /\ pc \in Session /\ pc' \in Session
         /\ pc # "rest" /\ pc' \notin {"rest", "dataAck"}
         /\ tx_ack' = tx_ack + Reading /\ Reading' = 0 /\ tx_ack' \in Nat
         /\ pc = "dataAck" \/ (tx_ack' = tx_ack /\ Reading = 0)
         /\ \/ out' = out /\ tx_seq' = tx_seq
            \/ \E p \in Packets : /\ out' = Append(out, p) /\ p.type = "ack" /\ p.seq = tx_seq
                                  /\ p.ack = tx_ack /\ tx_seq' = tx_seq + p.len
<1>1. TypeOK
  BY DEF IInv
<1>2. TypeOK' /\ phone' = phone /\ in' = in /\ cut' = cut /\ pc \in Session /\ pc' \in Session
      /\ pc # "rest" /\ pc' \notin {"rest", "dataAck"}
  <2>1. TypeOK'
    BY <1>1, SessionTypes DEF SessionSteps, Sends
  <2>2. phone' = phone /\ in' = in /\ cut' = cut
    BY DEF Sends, SendSegment, SendTimeout, StartPackage, AckSegment, Nothing, recvVars
  <2>3. pc \in Session /\ pc' \in Session /\ pc # "rest" /\ pc' \notin {"rest", "dataAck"}
    BY DEF Sends, SendSegment, SendTimeout, StartPackage, AckSegment, Go, Session
  <2> QED BY <2>1, <2>2, <2>3
<1>3. /\ tx_ack' = tx_ack + Reading /\ Reading' = 0 /\ tx_ack' \in Nat
      /\ pc = "dataAck" \/ (tx_ack' = tx_ack /\ Reading = 0)
  <2>1. CASE AckSegment
    BY <1>1, <2>1, ReadingNat DEF AckSegment, Go, Reading
  <2>2. CASE SendSegment \/ SendTimeout \/ StartPackage
    <3>1. tx_ack' = tx_ack /\ pc \notin {"rest", "dataAck"}
      BY <2>2 DEF SendSegment, SendTimeout, StartPackage, Go, seqVars
    <3>2. Reading = 0 /\ Reading' = 0
      BY <1>2, <3>1 DEF Reading
    <3> QED BY <1>1, <3>1, <3>2, ReadingNat
  <2> QED BY <2>1, <2>2 DEF Sends
<1>4. \/ out' = out /\ tx_seq' = tx_seq
      \/ \E p \in Packets : /\ out' = Append(out, p) /\ p.type = "ack" /\ p.seq = tx_seq
                            /\ p.ack = tx_ack /\ tx_seq' = tx_seq + p.len
  <2>1. CASE SendSegment
    <3>1. SegmentSize \in Nat
      BY <1>1, SegmentSizeIs
    <3> DEFINE n == SegmentSize
               p == Tcp("ack", n)
    <3>2. /\ p \in Packets /\ p.type = "ack" /\ p.seq = tx_seq /\ p.ack = tx_ack /\ p.len = n
      BY <1>1, <3>1, TcpType, TypeParts
    <3>3. out' = Append(out, p) /\ tx_seq' = tx_seq + n
      BY <2>1 DEF SendSegment, Sent
    <3> HIDE DEF p, n
    <3> QED BY <3>2, <3>3
  <2>2. CASE AckSegment
    <3> DEFINE p == Tcp("ack", 0)
    <3>1. /\ p \in Packets /\ p.type = "ack" /\ p.seq = tx_seq /\ p.ack = tx_ack /\ p.len = 0
      BY <1>1, TcpType, TypeParts
    <3>2. (out' = Append(out, p) \/ out' = out) /\ tx_seq' = tx_seq /\ tx_seq \in Nat
      BY <1>1, <2>2, TypeParts DEF AckSegment, Sent, NotSent, DaemonType
    <3> HIDE DEF p
    <3>3. tx_seq' = tx_seq + p.len
      BY <3>1, <3>2
    <3> QED BY <3>1, <3>2, <3>3
  <2>3. CASE SendTimeout \/ StartPackage
    BY <2>3 DEF SendTimeout, StartPackage, NotSent, seqVars
  <2> QED BY <2>1, <2>2, <2>3 DEF Sends
<1> QED BY <1>2, <1>3, <1>4

LEMMA SendStep ==
  ASSUME IInv, Sends
  PROVE  IInv'
<1>1. TypeOK /\ InShape /\ RestsFollow /\ RestsAwaited /\ Outdated /\ Chain /\ InStep
  BY DEF IInv
<1>2. TypeOK' /\ phone' = phone /\ in' = in /\ cut' = cut /\ pc \in Session /\ pc' \in Session
      /\ pc # "rest" /\ pc' \notin {"rest", "dataAck"}
  BY SendShape
<1>3. /\ tx_ack' = tx_ack + Reading /\ Reading' = 0 /\ tx_ack' \in Nat
      /\ pc = "dataAck" \/ (tx_ack' = tx_ack /\ Reading = 0)
  BY SendShape
<1>4. \/ out' = out /\ tx_seq' = tx_seq
      \/ \E p \in Packets : /\ out' = Append(out, p) /\ p.type = "ack" /\ p.seq = tx_seq
                            /\ p.ack = tx_ack /\ tx_seq' = tx_seq + p.len
  BY SendShape
<1>5. pc \in Linked /\ pc \in Mine /\ pc' \in Mine /\ pc' \in Linked
      /\ pc \notin Waiting /\ pc' \notin Waiting \cup {"final"}
  BY <1>2, Apart
<1>6. tx_ack' >= 1
  <2>1. tx_ack >= 1 /\ tx_ack \in Nat /\ Reading \in Nat
    BY <1>1, <1>5, ReadingNat DEF Chain
  <2> QED BY <1>3, <2>1
<1>7. Chain'
  <2>1. CASE out' = out /\ tx_seq' = tx_seq
    <3>1. Edge' = Edge
      BY <1>5, <2>1 DEF Edge
    <3> QED BY <1>1, <1>2, <1>5, <1>6, <2>1, <3>1, ChainSame
  <2>2. CASE \E p \in Packets : /\ out' = Append(out, p) /\ p.type = "ack" /\ p.seq = tx_seq
                                /\ p.ack = tx_ack /\ tx_seq' = tx_seq + p.len
    BY <1>1, <1>2, <1>5, <1>6, <2>2, ChainAppend
  <2> QED BY <1>4, <2>1, <2>2
<1>8. RestsAwaited'
  BY <1>1, <1>2, <1>5 DEF RestsAwaited
<1>9. InStep'
  <2> SUFFICES ASSUME Clean' PROVE InStep'
    BY DEF InStep
  <2>1. Clean
    BY <1>2, <1>5 DEF Clean
  <2>2. phone'.conn # "closed"
    BY <1>1, <1>2, <2>1 DEF InStep
  <2>3. out \in Seq(Packets)
    BY <1>1, TypeParts DEF PipesType
  <2>4. NoSyn' => NoSyn
    <3>1. CASE out' = out
      BY <3>1 DEF NoSyn
    <3>2. CASE \E p \in Packets : out' = Append(out, p)
      <4>1. PICK p \in Packets : out' = Append(out, p)
        BY <3>2
      <4>2. \A i \in DOMAIN out : i \in DOMAIN out' /\ out'[i] = out[i]
        BY <2>3, <4>1, Appends
      <4> QED BY <4>2 DEF NoSyn
    <3> QED BY <1>4, <3>1, <3>2
  <2>5. ASSUME phone'.conn = "synRcvd", NEW i \in DOMAIN out', Live(i)', out'[i].type = "ack"
        PROVE  out'[i].ack = tx_ack'
    <3>1. /\ pc # "dataAck"
          /\ \A j \in DOMAIN out : Live(j) /\ out[j].type = "ack" => out[j].ack = tx_ack
      BY <1>1, <1>2, <2>1, <2>5 DEF InStep
    <3>2. tx_ack' = tx_ack
      BY <1>3, <3>1
    <3>3. CASE out' = out
      BY <2>5, <3>1, <3>2, <3>3 DEF Live
    <3>4. CASE \E p \in Packets : out' = Append(out, p) /\ p.ack = tx_ack
      <4>1. PICK p \in Packets : out' = Append(out, p) /\ p.ack = tx_ack
        BY <3>4
      <4>2. /\ DOMAIN out = 1..Len(out) /\ DOMAIN out' = 1..Len(out) + 1 /\ Len(out) \in Nat
            /\ \A j \in 1..Len(out) : out'[j] = out[j]
            /\ out'[Len(out) + 1] = p
        BY <2>3, <4>1, Appends
      <4>3. CASE i = Len(out) + 1
        BY <3>2, <4>1, <4>2, <4>3
      <4>4. CASE i \in 1..Len(out)
        <5>1. Live(i)
          BY <2>5, <4>2, <4>4 DEF Live
        <5> QED BY <2>5, <3>1, <3>2, <4>2, <4>4, <5>1
      <4> QED BY <4>2, <4>3, <4>4
    <3> QED BY <1>4, <3>3, <3>4
  <2>6. ASSUME phone'.conn = "estab", NoSyn'
        PROVE  /\ phone'.sndNxt = tx_ack' + Reading' + Bytes(in')
               /\ (\E i \in DOMAIN in' : in'[i].type = "synack") => tx_ack' = 1 /\ Reading' = 0
    <3>1. /\ phone.sndNxt = tx_ack + Reading + Bytes(in)
          /\ (\E i \in DOMAIN in : in[i].type = "synack") => tx_ack = 1 /\ Reading = 0
      BY <1>1, <1>2, <2>1, <2>4, <2>6 DEF InStep
    <3>2. Bytes(in) \in Nat /\ tx_ack \in Nat /\ Reading \in Nat
      BY <1>1, BytesNat, ReadingNat, TypeParts DEF PipesType
    <3> QED BY <1>2, <1>3, <3>1, <3>2
  <2> QED BY <1>2, <2>2, <2>5, <2>6 DEF InStep
<1> QED BY <1>2, <1>7, <1>8, <1>9, DaemonStep

(* itunes_ReceiveAck() counts nothing, so it must not take what counts.       *)
LEMMA WindowStep ==
  ASSUME IInv, RecvWindow
  PROVE  IInv'
<1>1. TypeOK /\ InShape /\ RestsFollow /\ RestsAwaited /\ Outdated /\ Chain /\ InStep
  BY DEF IInv
<1>2. /\ TypeOK' /\ phone' = phone /\ out' = out /\ UNCHANGED <<cut, tx_seq, tx_ack>>
      /\ pc = "winWait" /\ pc' = "segment"
      /\ Received({"ack", "synack", "rst"}) /\ Head(in).len = 0
  BY <1>1, SessionTypes DEF SessionSteps, RecvWindow, Go, recvVars
<1>3. /\ Drops /\ in[1].type \in {"ack", "synack", "rst"} /\ Head(in) = in[1] /\ in' = Tail(in)
      /\ in \in Seq(Packets) /\ in # <<>>
  BY <1>1, <1>2, ReceivedDrops
<1>4. 1 \in DOMAIN in
  BY <1>3, Firsts
<1>5. in[1].type \in {"ack", "synack"}
  BY <1>1, <1>2, <1>3, <1>4 DEF InShape
<1>6. Received({"ack", "synack"})
  BY <1>3, <1>5 DEF Received
<1>7. pc \in Linked /\ pc \in Mine /\ pc' \in Mine /\ pc' \in Linked
      /\ pc \notin Waiting /\ pc' \notin Waiting \cup {"final"}
  BY <1>2, Apart
<1>8. Chain'
  <2>1. Edge' = Edge /\ tx_ack' >= 1
    BY <1>1, <1>2, <1>7 DEF Edge, Chain
  <2> QED BY <1>1, <1>2, <1>7, <2>1, ChainSame
<1>9. RestsAwaited'
  BY <1>1, <1>2, <1>6, NoRestNext
<1>10. InStep'
  <2> SUFFICES ASSUME Clean' PROVE InStep'
    BY DEF InStep
  <2>1. /\ Clean
        /\ \A i \in DOMAIN in' : i + 1 \in DOMAIN in /\ in'[i] = in[i + 1]
    BY <1>1, <1>2, <1>6, <1>7, CleanBefore
  <2>2. /\ phone'.conn # "closed"
        /\ phone'.conn = "synRcvd" =>
             \A i \in DOMAIN out' : Live(i)' /\ out'[i].type = "ack" => out'[i].ack = tx_ack'
    BY <1>1, <1>2, <2>1 DEF InStep, Live
  <2>3. Reading = 0 /\ Reading' = 0
    BY <1>2 DEF Reading
  <2>4. ASSUME phone'.conn = "estab", NoSyn'
        PROVE  /\ phone'.sndNxt = tx_ack' + Reading' + Bytes(in')
               /\ (\E i \in DOMAIN in' : in'[i].type = "synack") => tx_ack' = 1 /\ Reading' = 0
    <3>1. NoSyn
      BY <1>2, <2>4 DEF NoSyn
    <3>2. /\ phone.sndNxt = tx_ack + Reading + Bytes(in)
          /\ (\E i \in DOMAIN in : in[i].type = "synack") => tx_ack = 1 /\ Reading = 0
      BY <1>1, <1>2, <2>1, <2>4, <3>1 DEF InStep
    <3>3. Bytes(in) = Bytes(in')
      BY <1>1, <1>2, <1>6, ReceivedBytes
    <3> QED BY <1>2, <2>1, <2>3, <3>2, <3>3
  <2>5. pc' \notin {"rest", "dataAck"}
    BY <1>2
  <2> QED BY <2>2, <2>4, <2>5 DEF InStep
<1> QED BY <1>2, <1>3, <1>8, <1>9, <1>10, DaemonStep

LEMMA LeavingStep ==
  ASSUME IInv, ResetDrain \/ ResetDone \/ RecvNoAck
  PROVE  IInv'
<1>1. TypeOK /\ TypeOK'
  BY SessionTypes DEF IInv, SessionSteps
<1>2. phone' = phone /\ pc' \in {"reset", "syn", "released"}
  BY DEF ResetDrain, ResetDone, RecvNoAck, Go
<1>3. \A types : Received(types) => Drops
  BY <1>1, <1>2, ReceivedDrops
<1>4. in' = in \/ Drops
  BY <1>3, Zenon DEF ResetDrain, ResetDone, RecvNoAck
<1> QED BY <1>1, <1>2, <1>4, Outside, Apart

-----------------------------------------------------------------------------
(* The invariant, and what follows from it.                                   *)

LEMMA Initially == Init => IInv
<1> SUFFICES ASSUME Init PROVE IInv
  OBVIOUS
<1>1. /\ pc = "version" /\ tx_seq = 0 /\ tx_ack = 0 /\ rx_ack = 0 /\ rx_win = 0
      /\ left = 0 /\ win = 0 /\ out = <<>> /\ in = <<>> /\ phone = Closed
      /\ interBuf = Unread /\ cut = FALSE
  BY DEF Init
<1>2. DaemonType /\ RecvType
  BY <1>1 DEF DaemonType, RecvType, Handshake, Unread
<1>3. PhoneType /\ PipesType
  BY <1>1, ClosedType DEF PhoneType, PipesType
<1>4. TypeOK
  BY <1>2, <1>3, TypeParts
<1>5. InShape /\ RestsFollow /\ Outdated /\ PhoneNumbers
  BY <1>1, ClosedType DEF InShape, RestsFollow, Outdated, PhoneNumbers
<1>6. pc \notin Linked /\ pc \notin Mine
  BY <1>1, Apart
<1>7. RestsAwaited /\ Chain /\ InStep
  BY <1>6 DEF RestsAwaited, Chain, InStep, Clean
<1> QED BY <1>4, <1>5, <1>7 DEF IInv

LEMMA Stutters == IInv /\ UNCHANGED vars => IInv'
<1> SUFFICES ASSUME IInv, UNCHANGED vars PROVE IInv'
  OBVIOUS
<1>1. UNCHANGED <<pc, tx_seq, tx_ack, rx_ack, rx_win, interBuf, cut, left, win, out, in, phone>>
  BY DEF vars, seqVars, recvVars
<1>2. TypeOK /\ InShape /\ RestsFollow /\ RestsAwaited /\ Outdated /\ PhoneNumbers /\ Chain /\ InStep
  BY DEF IInv
<1>3. TypeOK'
  BY <1>1, <1>2 DEF TypeOK
<1>4. RestsAwaited'
  BY <1>1, <1>2 DEF RestsAwaited
<1>5. Edge' = Edge /\ Reading' = Reading /\ (pc \in Mine => tx_ack >= 1)
  BY <1>1, <1>2, Apart DEF Edge, Reading, Chain
<1>6. Chain'
  BY <1>1, <1>2, <1>5, ChainSame
<1>7. InStep'
  BY <1>1, <1>2, <1>5 DEF InStep, Clean, Live, NoSyn
<1> QED BY <1>1, <1>2, <1>3, <1>4, <1>6, <1>7, DaemonStep

(* The invariant is inductive: Spec implies it whatever the constants are.    *)
THEOREM Inductive == Spec => []IInv
<1>1. IInv /\ [Next]_vars => IInv'
  <2> SUFFICES ASSUME IInv, [Next]_vars PROVE IInv'
    OBVIOUS
  <2>1. CASE Connect
    BY <2>1, ConnectStep
  <2>2. CASE Receive
    BY <2>2, ReceiveStep
  <2>3. CASE Sends
    BY <2>3, SendStep
  <2>4. CASE RecvWindow
    BY <2>4, WindowStep
  <2>5. CASE ResetDrain \/ ResetDone \/ RecvNoAck
    BY <2>5, LeavingStep
  <2>6. CASE PhoneSteps
    BY <2>6, PhoneStep
  <2>7. CASE Released \/ UNCHANGED vars
    BY <2>7, Stutters DEF Released
  <2> QED BY <2>1, <2>2, <2>3, <2>4, <2>5, <2>6, <2>7
          DEF Next, Daemon, Sends, PhoneReacts, PhoneSteps
<1> QED BY <1>1, Initially, PTL DEF Spec

(* pc, the numbers and the pipes keep their types, and the pipes hold only    *)
(* packets.                                                                   *)
THEOREM TypeCorrect == Spec => []TypeOK
<1>1. IInv => TypeOK
  BY DEF IInv
<1> QED BY <1>1, Inductive, PTL

(* In an established connection the invariant is about both ends.             *)
LEMMA EstablishedParts ==
  ASSUME IInv, Established
  PROVE  /\ pc \in Session /\ pc \in Mine /\ pc \in Linked /\ pc \notin Waiting
         /\ Clean /\ NoSyn /\ phone.conn = "estab" /\ Edge = tx_seq
         /\ phone.rcvNxt \in Nat /\ phone.sndNxt \in Nat /\ tx_seq \in Nat
         /\ phone.rcvNxt >= 1 /\ tx_ack >= 1
         /\ phone.sndNxt = tx_ack + Reading + Bytes(in)
         /\ tx_ack \in Nat /\ Reading \in Nat /\ Bytes(in) \in Nat
         /\ Start = phone.rcvNxt
         /\ \A i \in DOMAIN out : out[i].seq + out[i].len = Behind(i)
<1>1. TypeOK /\ PhoneNumbers /\ Chain /\ InStep
  BY DEF IInv
<1>2. pc \in Session /\ phone.conn = "estab" /\ ~cut /\ NoSyn
      /\ \A i \in DOMAIN in : in[i].type \in {"ack", "head", "rest", "control"}
  BY DEF Established, Joined, NoSyn
<1>3. pc \in Mine /\ pc \in Linked /\ pc \notin Waiting
  BY <1>2, Apart
<1>4. Clean
  BY <1>2, <1>3 DEF Clean
<1>5. Edge = tx_seq
  BY <1>3 DEF Edge
<1>6. phone.rcvNxt \in Nat /\ phone.sndNxt \in Nat /\ tx_seq \in Nat
  BY <1>1, TypeParts DEF PhoneType, DaemonType
<1>7. tx_ack \in Nat /\ Reading \in Nat /\ Bytes(in) \in Nat
  BY <1>1, ReadingNat, BytesNat, TypeParts DEF PipesType
<1>8. phone.rcvNxt >= 1 /\ tx_ack >= 1 /\ Start = phone.rcvNxt
  BY <1>1, <1>2, <1>3 DEF PhoneNumbers, Chain
<1>9. phone.sndNxt = tx_ack + Reading + Bytes(in)
  BY <1>1, <1>2, <1>4 DEF InStep
<1>10. ASSUME NEW i \in DOMAIN out PROVE out[i].seq + out[i].len = Behind(i)
  <2>1. Live(i) /\ out[i].type # "syn"
    BY <1>2 DEF Live, NoSyn
  <2>2. End(out[i]) = Behind(i)
    BY <1>1, <1>3, <2>1 DEF Chain
  <2> QED BY <2>1, <2>2 DEF End
<1> QED BY <1>2, <1>3, <1>4, <1>5, <1>6, <1>7, <1>8, <1>9, <1>10

(* A chain of segments without a gap: what comes before the next is the sum   *)
(* of what the others carry.                                                  *)
LEMMA Unbroken ==
  ASSUME NEW s \in Seq(Packets), NEW from \in Nat, NEW to \in Nat,
         IF s = <<>> THEN from = to ELSE s[1].seq = from,
         \A i \in DOMAIN s :
            s[i].seq + s[i].len = IF i < Len(s) THEN s[i + 1].seq ELSE to
  PROVE  /\ \A i \in DOMAIN s : s[i].seq = from + Sums(s)[i - 1]
         /\ to = from + Bytes(s)
<1>1. Adds(Sums(s), s, Len(s)) /\ Len(s) \in Nat /\ DOMAIN s = 1..Len(s)
  BY SumsAdds
<1>2. \A i \in 0..Len(s) : Sums(s)[i] \in Nat
  BY BytesNat
<1> DEFINE S == {n \in Nat : n < Len(s) => s[n + 1].seq = from + Sums(s)[n]}
<1>3. 0 \in S
  <2>1. ASSUME 0 < Len(s) PROVE s[1].seq = from + Sums(s)[0]
    <3>1. Sums(s)[0] = 0 /\ s # <<>>
      BY <1>1, <2>1 DEF Adds
    <3> QED BY <3>1
  <2> QED BY <2>1
<1>4. ASSUME NEW n \in S PROVE n + 1 \in S
  <2>1. ASSUME n + 1 < Len(s) PROVE s[(n + 1) + 1].seq = from + Sums(s)[n + 1]
    <3>1. n + 1 \in 1..Len(s) /\ n \in 0..Len(s) /\ (n + 1) - 1 = n
      BY <1>1, <2>1
    <3>2. s[n + 1].seq = from + Sums(s)[n]
      BY <1>1, <2>1
    <3>3. s[n + 1].seq + s[n + 1].len = s[(n + 1) + 1].seq
      BY <1>1, <2>1, <3>1
    <3>4. Sums(s)[n + 1] = Sums(s)[n] + s[n + 1].len
      BY <1>1, <3>1 DEF Adds
    <3>5. s[n + 1].len \in Nat /\ Sums(s)[n] \in Nat
      BY <1>2, <3>1, PacketLen
    <3> QED BY <3>2, <3>3, <3>4, <3>5
  <2> QED BY <2>1
<1>5. S = Nat
  <2>1. S \subseteq Nat /\ \A n \in S : n + 1 \in S
    BY <1>4
  <2> HIDE DEF S
  <2> QED BY <1>3, <2>1, Induction
<1>6. ASSUME NEW i \in DOMAIN s PROVE s[i].seq = from + Sums(s)[i - 1]
  <2>1. i - 1 \in S /\ i - 1 < Len(s) /\ (i - 1) + 1 = i
    BY <1>1, <1>5
  <2> QED BY <2>1
<1>7. to = from + Bytes(s)
  <2>1. CASE s = <<>>
    BY <2>1, BytesEmpty
  <2>2. CASE s # <<>>
    <3> DEFINE k == Len(s)
    <3>1. k \in DOMAIN s /\ k \in 1..Len(s) /\ k - 1 \in 0..Len(s) /\ ~(k < Len(s))
      BY <1>1, <2>2
    <3>2. s[k].seq + s[k].len = to /\ s[k].seq = from + Sums(s)[k - 1]
      BY <1>6, <3>1
    <3>3. Sums(s)[k] = Sums(s)[k - 1] + s[k].len /\ Bytes(s) = Sums(s)[k]
      BY <1>1, <3>1 DEF Adds, Bytes
    <3>4. s[k].len \in Nat /\ Sums(s)[k - 1] \in Nat
      BY <1>2, <3>1, PacketLen
    <3> QED BY <3>2, <3>3, <3>4
  <2> QED BY <2>1, <2>2
<1> QED BY <1>6, <1>7

LEMMA Follows == IInv => DownInSync /\ UpInSync /\ NoHalfOpen
<1> SUFFICES ASSUME IInv PROVE DownInSync /\ UpInSync /\ NoHalfOpen
  OBVIOUS
<1>1. DownInSync
  <2> SUFFICES ASSUME Established
               PROVE  /\ \A i \in DOMAIN out :
                           out[i].seq = phone.rcvNxt + Bytes(SubSeq(out, 1, i - 1))
                      /\ tx_seq = phone.rcvNxt + Bytes(out)
    BY DEF DownInSync
  <2>1. out \in Seq(Packets)
    BY TypeParts DEF IInv, PipesType
  <2>2. /\ phone.rcvNxt \in Nat /\ tx_seq \in Nat /\ Edge = tx_seq /\ Start = phone.rcvNxt
        /\ \A i \in DOMAIN out : out[i].seq + out[i].len = Behind(i)
    BY EstablishedParts
  <2>3. IF out = <<>> THEN phone.rcvNxt = tx_seq ELSE out[1].seq = phone.rcvNxt
    BY <2>2 DEF Start
  <2>4. \A i \in DOMAIN out :
          out[i].seq + out[i].len = IF i < Len(out) THEN out[i + 1].seq ELSE tx_seq
    BY <2>2 DEF Behind
  <2>5. /\ \A i \in DOMAIN out : out[i].seq = phone.rcvNxt + Sums(out)[i - 1]
        /\ tx_seq = phone.rcvNxt + Bytes(out)
    BY <2>1, <2>2, <2>3, <2>4, Unbroken
  <2>6. \A i \in DOMAIN out : i \in 1..Len(out)
    BY <2>1
  <2> QED BY <2>1, <2>5, <2>6, BytesBefore
<1>2. UpInSync
  BY EstablishedParts DEF UpInSync
<1>3. NoHalfOpen
  <2> SUFFICES ASSUME pc \in Session, ~cut, phone.conn = "closed",
                      \A i \in DOMAIN in : in[i].type # "rst"
               PROVE  FALSE
    BY DEF NoHalfOpen
  <2>1. Clean
    BY Apart DEF Clean
  <2> QED BY <2>1 DEF IInv, InStep
<1> QED BY <1>1, <1>2, <1>3

(* The segments on their way to the phone follow each other from what it has  *)
(* up to tx_seq, whichever sends timed out, whichever SYNs were repeated and  *)
(* however often the app quit before.                                         *)
THEOREM DownStays == Spec => []DownInSync
BY Inductive, Follows, PTL

(* What the daemon will have acknowledged is what the phone has sent, though  *)
(* acknowledgements time out and segments come in two parts.                  *)
THEOREM UpStays == Spec => []UpInSync
BY Inductive, Follows, PTL

(* A session whose phone has gone has the reset that ends it on its way.      *)
THEOREM NoneHalfOpen == Spec => []NoHalfOpen
BY Inductive, Follows, PTL

-----------------------------------------------------------------------------
(* The refinement: every step of the transport is one of the streams'.        *)

(* What the counts of an established connection have to do with each other.   *)
Counts ==
  /\ tx_seq \in Nat /\ phone.rcvNxt \in Nat /\ phone.sndNxt \in Nat
  /\ tx_ack \in Nat /\ Reading \in Nat
  /\ 1 <= phone.rcvNxt /\ phone.rcvNxt <= tx_seq
  /\ 1 <= tx_ack /\ tx_ack + Reading <= phone.sndNxt /\ 1 <= phone.sndNxt

LEMMA CountsHold == IInv /\ Established => Counts
<1> SUFFICES ASSUME IInv, Established PROVE Counts
  OBVIOUS
<1>1. tx_seq = phone.rcvNxt + Bytes(out)
  BY Follows DEF DownInSync
<1>2. Bytes(out) \in Nat
  BY TypeParts, BytesNat DEF IInv, PipesType
<1>3. /\ phone.rcvNxt \in Nat /\ phone.sndNxt \in Nat /\ tx_seq \in Nat
      /\ phone.rcvNxt >= 1 /\ tx_ack >= 1
      /\ phone.sndNxt = tx_ack + Reading + Bytes(in)
      /\ tx_ack \in Nat /\ Reading \in Nat /\ Bytes(in) \in Nat
  BY EstablishedParts
<1> QED BY <1>1, <1>2, <1>3 DEF Counts

LEMMA Mapped ==
  /\ Established => /\ Stream(tx_seq - 1) = tx_seq - 1
                    /\ Stream(phone.rcvNxt - 1) = phone.rcvNxt - 1
                    /\ Stream(phone.sndNxt - 1) = phone.sndNxt - 1
                    /\ Stream(tx_ack + Reading - 1) = tx_ack + Reading - 1
  /\ ~Established => /\ Stream(tx_seq - 1) = 0 /\ Stream(phone.rcvNxt - 1) = 0
                     /\ Stream(phone.sndNxt - 1) = 0 /\ Stream(tx_ack + Reading - 1) = 0
BY DEF Stream

LEMMA MappedNext ==
  /\ Established' => /\ Stream(tx_seq - 1)' = tx_seq' - 1
                     /\ Stream(phone.rcvNxt - 1)' = phone'.rcvNxt - 1
                     /\ Stream(phone.sndNxt - 1)' = phone'.sndNxt - 1
                     /\ Stream(tx_ack + Reading - 1)' = tx_ack' + Reading' - 1
  /\ ~Established' => /\ Stream(tx_seq - 1)' = 0 /\ Stream(phone.rcvNxt - 1)' = 0
                      /\ Stream(phone.sndNxt - 1)' = 0 /\ Stream(tx_ack + Reading - 1)' = 0
BY DEF Stream

(* The counts of before and after a step, as numbers.                         *)
CountsAre(d, dg, u, ug) ==
  /\ Stream(tx_seq - 1) = d /\ Stream(phone.rcvNxt - 1) = dg
  /\ Stream(phone.sndNxt - 1) = u /\ Stream(tx_ack + Reading - 1) = ug

CountsBecome(d, dg, u, ug) ==
  /\ Stream(tx_seq - 1)' = d /\ Stream(phone.rcvNxt - 1)' = dg
  /\ Stream(phone.sndNxt - 1)' = u /\ Stream(tx_ack + Reading - 1)' = ug

OneGrows(d, dg, u, ug, d1, dg1, u1, ug1) ==
  /\ d \in Nat /\ dg \in Nat /\ u \in Nat /\ ug \in Nat
  /\ d1 \in Nat /\ dg1 \in Nat /\ u1 \in Nat /\ ug1 \in Nat
  /\ dg1 <= d1 /\ ug1 <= u1
  /\ \/ d1 >= d /\ dg1 = dg /\ u1 = u /\ ug1 = ug
     \/ d1 = d /\ dg1 >= dg /\ u1 = u /\ ug1 = ug
     \/ d1 = d /\ dg1 = dg /\ u1 >= u /\ ug1 = ug
     \/ d1 = d /\ dg1 = dg /\ u1 = u /\ ug1 >= ug

LEMMA StreamsNext ==
  ASSUME NEW d, NEW dg, NEW u, NEW ug, NEW d1, NEW dg1, NEW u1, NEW ug1,
         CountsAre(d, dg, u, ug), CountsBecome(d1, dg1, u1, ug1),
         OneGrows(d, dg, u, ug, d1, dg1, u1, ug1), Established, Established'
  PROVE  [Channel!Next]_Channel!vars
<1> USE DEF CountsAre, CountsBecome
<1>1. Established' = Established
  BY DEF Established, Joined
<1>2. \/ d1 > d /\ dg1 = dg /\ u1 = u /\ ug1 = ug
      \/ d1 = d /\ dg1 > dg /\ dg1 <= d /\ u1 = u /\ ug1 = ug
      \/ d1 = d /\ dg1 = dg /\ u1 > u /\ ug1 = ug
      \/ d1 = d /\ dg1 = dg /\ u1 = u /\ ug1 > ug /\ ug1 <= u
      \/ d1 = d /\ dg1 = dg /\ u1 = u /\ ug1 = ug
  BY DEF OneGrows
<1>3. CASE d1 > d /\ dg1 = dg /\ u1 = u /\ ug1 = ug
  BY <1>1, <1>3 DEF Channel!Next, Channel!DaemonWrites
<1>4. CASE d1 = d /\ dg1 > dg /\ dg1 <= d /\ u1 = u /\ ug1 = ug
  BY <1>1, <1>4 DEF Channel!Next, Channel!PhoneReads
<1>5. CASE d1 = d /\ dg1 = dg /\ u1 > u /\ ug1 = ug
  BY <1>1, <1>5 DEF Channel!Next, Channel!PhoneWrites
<1>6. CASE d1 = d /\ dg1 = dg /\ u1 = u /\ ug1 > ug /\ ug1 <= u
  BY <1>1, <1>6 DEF Channel!Next, Channel!DaemonReads
<1>7. CASE d1 = d /\ dg1 = dg /\ u1 = u /\ ug1 = ug
  BY <1>1, <1>7 DEF Channel!vars, Channel!streams
<1> QED BY <1>2, <1>3, <1>4, <1>5, <1>6, <1>7

(* One count at a time may grow.                                              *)
LEMMA Grows ==
  ASSUME Established, Established', Counts, Counts',
         \/ /\ tx_seq' >= tx_seq /\ phone'.rcvNxt = phone.rcvNxt
            /\ phone'.sndNxt = phone.sndNxt /\ tx_ack' + Reading' = tx_ack + Reading
         \/ /\ tx_seq' = tx_seq /\ phone'.rcvNxt >= phone.rcvNxt
            /\ phone'.sndNxt = phone.sndNxt /\ tx_ack' + Reading' = tx_ack + Reading
         \/ /\ tx_seq' = tx_seq /\ phone'.rcvNxt = phone.rcvNxt
            /\ phone'.sndNxt >= phone.sndNxt /\ tx_ack' + Reading' = tx_ack + Reading
         \/ /\ tx_seq' = tx_seq /\ phone'.rcvNxt = phone.rcvNxt
            /\ phone'.sndNxt = phone.sndNxt /\ tx_ack' + Reading' >= tx_ack + Reading
  PROVE  [Channel!Next]_Channel!vars
<1> DEFINE t == tx_seq  r == phone.rcvNxt  s == phone.sndNxt  g == tx_ack  l == Reading
           t1 == tx_seq'  r1 == phone'.rcvNxt  s1 == phone'.sndNxt  g1 == tx_ack'  l1 == Reading'
<1>1. /\ t \in Nat /\ r \in Nat /\ s \in Nat /\ g \in Nat /\ l \in Nat
      /\ 1 <= r /\ r <= t /\ 1 <= g /\ g + l <= s
      /\ t1 \in Nat /\ r1 \in Nat /\ s1 \in Nat /\ g1 \in Nat /\ l1 \in Nat
      /\ 1 <= r1 /\ r1 <= t1 /\ 1 <= g1 /\ g1 + l1 <= s1
  BY DEF Counts
<1>2. \/ t1 >= t /\ r1 = r /\ s1 = s /\ g1 + l1 = g + l
      \/ t1 = t /\ r1 >= r /\ s1 = s /\ g1 + l1 = g + l
      \/ t1 = t /\ r1 = r /\ s1 >= s /\ g1 + l1 = g + l
      \/ t1 = t /\ r1 = r /\ s1 = s /\ g1 + l1 >= g + l
  OBVIOUS
<1>3. /\ Stream(tx_seq - 1) = t - 1 /\ Stream(phone.rcvNxt - 1) = r - 1
      /\ Stream(phone.sndNxt - 1) = s - 1 /\ Stream(tx_ack + Reading - 1) = g + l - 1
      /\ Stream(tx_seq - 1)' = t1 - 1 /\ Stream(phone.rcvNxt - 1)' = r1 - 1
      /\ Stream(phone.sndNxt - 1)' = s1 - 1 /\ Stream(tx_ack + Reading - 1)' = g1 + l1 - 1
  BY Mapped, MappedNext
<1> HIDE DEF t, r, s, g, l, t1, r1, s1, g1, l1
<1> DEFINE d == t - 1  dg == r - 1  u == s - 1  ug == g + l - 1
           d1 == t1 - 1  dg1 == r1 - 1  u1 == s1 - 1  ug1 == g1 + l1 - 1
<1>4. /\ d \in Nat /\ dg \in Nat /\ u \in Nat /\ ug \in Nat
      /\ d1 \in Nat /\ dg1 \in Nat /\ u1 \in Nat /\ ug1 \in Nat
      /\ dg1 <= d1 /\ ug1 <= u1
  BY <1>1
<1>5. \/ d1 >= d /\ dg1 = dg /\ u1 = u /\ ug1 = ug
      \/ d1 = d /\ dg1 >= dg /\ u1 = u /\ ug1 = ug
      \/ d1 = d /\ dg1 = dg /\ u1 >= u /\ ug1 = ug
      \/ d1 = d /\ dg1 = dg /\ u1 = u /\ ug1 >= ug
  BY <1>1, <1>2
<1>6. CountsAre(d, dg, u, ug) /\ CountsBecome(d1, dg1, u1, ug1)
  BY <1>3 DEF CountsAre, CountsBecome
<1> HIDE DEF d, dg, u, ug, d1, dg1, u1, ug1
<1>7. OneGrows(d, dg, u, ug, d1, dg1, u1, ug1)
  BY <1>4, <1>5 DEF OneGrows
<1> QED BY <1>6, <1>7, StreamsNext

LEMMA Opens ==
  ASSUME ~Established, Established', Counts', tx_ack' + Reading' = 1
  PROVE  Channel!Next
<1> DEFINE t1 == tx_seq'  r1 == phone'.rcvNxt  s1 == phone'.sndNxt  g1 == tx_ack'  l1 == Reading'
<1>1. /\ t1 \in Nat /\ r1 \in Nat /\ s1 \in Nat /\ 1 <= r1 /\ r1 <= t1 /\ 1 <= s1
      /\ g1 \in Nat /\ l1 \in Nat /\ g1 + l1 = 1
  BY DEF Counts
<1>2. /\ Stream(tx_seq - 1)' = t1 - 1 /\ Stream(phone.rcvNxt - 1)' = r1 - 1
      /\ Stream(phone.sndNxt - 1)' = s1 - 1 /\ Stream(tx_ack + Reading - 1)' = g1 + l1 - 1
  BY MappedNext
<1> HIDE DEF t1, r1, s1, g1, l1
<1>3. t1 - 1 \in Nat /\ s1 - 1 \in Nat /\ r1 - 1 \in 0..t1 - 1 /\ g1 + l1 - 1 = 0
  BY <1>1
<1> QED BY <1>2, <1>3 DEF Channel!Next, Channel!Open

LEMMA Closes ==
  ASSUME Established, ~Established'
  PROVE  Channel!Next
BY MappedNext DEF Channel!Next, Channel!Close, Channel!streams

LEMMA StaysClosed ==
  ASSUME ~Established, ~Established'
  PROVE  UNCHANGED Channel!vars
<1>1. Established' = Established
  BY DEF Established, Joined
<1> QED BY <1>1, Mapped, MappedNext DEF Channel!vars, Channel!streams

LEMMA CountsNext == IInv' /\ Established' => Counts'
BY CountsHold, PTL

(* Only steps into an established connection are left to look at.             *)
LEMMA IntoClosed ==
  ASSUME ~Established'
  PROVE  [Channel!Next]_Channel!vars
BY StaysClosed, Closes

LEMMA EstablishedNext ==
  ASSUME Established'
  PROVE  /\ pc' \in Session /\ ~cut' /\ phone'.conn = "estab" /\ NoSyn' /\ Clean'
         /\ \A i \in DOMAIN in' : in'[i].type \in {"ack", "head", "rest", "control"}
<1>1. /\ pc' \in Session /\ ~cut' /\ phone'.conn = "estab" /\ NoSyn'
      /\ \A i \in DOMAIN in' : in'[i].type \in {"ack", "head", "rest", "control"}
  BY DEF Established, Joined, NoSyn
<1>2. pc' \in Mine
  BY <1>1, Apart
<1> QED BY <1>1, <1>2 DEF Clean

LEMMA EstablishedNow ==
  ASSUME pc \in Session, ~cut, phone.conn = "estab", NoSyn,
         \A i \in DOMAIN in : in[i].type \in {"ack", "head", "rest", "control"}
  PROVE  Established
BY DEF Established, Joined, NoSyn

LEMMA PhoneAppends ==
  ASSUME TypeOK, PhoneSteps, NEW i \in DOMAIN in
  PROVE  i \in DOMAIN in' /\ in'[i] = in[i]
<1>1. in \in Seq(Packets)
  BY TypeParts DEF PipesType
<1>2. ASSUME NEW p \in Packets, in' = Append(in, p)
      PROVE  i \in DOMAIN in' /\ in'[i] = in[i]
  <2>1. /\ DOMAIN in = 1..Len(in) /\ DOMAIN in' = 1..Len(in) + 1 /\ Len(in) \in Nat
        /\ \A j \in 1..Len(in) : in'[j] = in[j]
    BY <1>1, <1>2, Appends
  <2> QED BY <2>1
<1>3. CASE \E p \in Packets : Puts(p)
  BY <1>2, <1>3 DEF Puts
<1>4. CASE Quiet
  BY <1>4 DEF Quiet
<1>5. CASE PhoneRest
  BY <1>2, <1>5, PhoneRestPuts
<1> QED BY <1>3, <1>4, <1>5, PhoneKinds

LEMMA PhoneChannel ==
  ASSUME IInv, PhoneSteps, IInv'
  PROVE  [Channel!Next]_Channel!vars
<1> SUFFICES ASSUME Established' PROVE [Channel!Next]_Channel!vars
  BY IntoClosed
<1>1. TypeOK /\ InShape /\ RestsFollow /\ Outdated /\ PhoneNumbers /\ Chain /\ InStep
  BY DEF IInv
<1>2. UNCHANGED <<pc, tx_seq, tx_ack, left, cut>> /\ Reading' = Reading
  BY PhoneKeeps DEF seqVars, recvVars, Reading
<1>3. /\ pc \in Session /\ ~cut /\ phone'.conn = "estab" /\ NoSyn' /\ Clean'
      /\ \A i \in DOMAIN in' : in'[i].type \in {"ack", "head", "rest", "control"}
  BY <1>2, EstablishedNext
<1>4. Clean /\ phone.conn # "closed"
  BY <1>1, <1>3, CleanBack
<1>5. pc \in Linked /\ pc \in Mine
  BY <1>3, Apart
<1>6. phone' # Closed
  BY <1>3, ClosedType
<1>7. \A i \in DOMAIN in : in[i].type \in {"ack", "head", "rest", "control"}
  BY <1>1, <1>3, PhoneAppends
<1>8. phone.rcvNxt \in Nat /\ phone.sndNxt \in Nat /\ tx_ack \in Nat /\ out \in Seq(Packets)
  BY <1>1, TypeParts DEF PhoneType, DaemonType, PipesType
<1>9. out' = out => NoSyn
  BY <1>3 DEF NoSyn
<1>10. ASSUME phone.conn = "estab", NoSyn,
              \/ phone'.rcvNxt >= phone.rcvNxt /\ phone'.sndNxt = phone.sndNxt
              \/ phone'.rcvNxt = phone.rcvNxt /\ phone'.sndNxt >= phone.sndNxt
       PROVE  [Channel!Next]_Channel!vars
  <2>1. Established
    BY <1>3, <1>7, <1>10, EstablishedNow
  <2>2. Counts /\ Counts'
    BY <2>1, CountsHold, CountsNext
  <2>3. tx_seq' = tx_seq /\ tx_ack' + Reading' = tx_ack + Reading
    BY <1>2
  <2> QED BY <1>10, <2>1, <2>2, <2>3, Grows
<1>11. ASSUME out # <<>>, out' = Tail(out)
       PROVE  /\ out[1].type \in {"syn", "ack"} /\ Head(out) = out[1]
              /\ out[1].len \in Nat /\ (out[1].type # "syn" => NoSyn)
  BY <1>1, <1>2, <1>3, <1>5, <1>8, <1>11, ChainTail, Firsts
<1>12. CASE PhoneVersion \/ PhoneSetup
  <2>1. out # <<>> /\ out' = Tail(out) /\ Head(out).type \in {"version", "setup"}
    BY <1>12 DEF PhoneVersion, PhoneSetup, Take
  <2> QED BY <2>1, <1>11
<1>13. CASE PhoneControl
  <2>1. out' = out /\ phone' = phone
    BY <1>13 DEF PhoneControl
  <2>2. phone.conn = "estab" /\ phone'.rcvNxt >= phone.rcvNxt /\ phone'.sndNxt = phone.sndNxt
    BY <1>3, <1>8, <2>1
  <2> QED BY <1>9, <1>10, <2>1, <2>2
<1>14. CASE PhoneSyn
  <2>1. \/ phone' = [Closed EXCEPT !.conn = "synRcvd", !.rcvNxt = Head(out).seq + 1, !.sndNxt = 1]
        \/ phone.conn = "synRcvd" /\ phone' = phone
    BY <1>6, <1>14, Zenon DEF PhoneSyn
  <2>2. phone'.conn = "synRcvd"
    BY <2>1 DEF Closed
  <2> QED BY <1>3, <2>2
<1>15. CASE PhoneTake
  <2>1. out # <<>> /\ out' = Tail(out) /\ Head(out).type = "ack"
    BY <1>15 DEF PhoneTake, Take
  <2>2. out[1].type = "ack" /\ Head(out) = out[1] /\ NoSyn /\ out[1].len \in Nat
    BY <1>11, <2>1
  <2>3. Fits(out[1]) /\ phone'.sndNxt = phone.sndNxt /\ phone'.rcvNxt = phone.rcvNxt + out[1].len
    BY <1>1, <1>6, <1>15, <2>2, PhoneTakePuts
  <2>4. phone'.rcvNxt >= phone.rcvNxt
    BY <1>8, <2>2, <2>3
  <2>5. CASE phone.conn = "estab"
    BY <1>10, <2>2, <2>3, <2>4, <2>5
  <2>6. CASE phone.conn = "synRcvd"
    <3>1. /\ pc \notin {"rest", "dataAck"}
          /\ \A i \in DOMAIN out : Live(i) /\ out[i].type = "ack" => out[i].ack = tx_ack
      BY <1>1, <1>4, <2>6 DEF InStep
    <3>2. 1 \in DOMAIN out /\ Live(1)
      BY <1>8, <2>1, <2>2, Firsts DEF NoSyn, Live
    <3>3. tx_ack <= phone.sndNxt /\ phone.sndNxt = 1 /\ tx_ack >= 1
      BY <1>1, <1>5, <2>2, <2>3, <2>6, <3>1, <3>2 DEF Fits, PhoneNumbers, Chain
    <3>4. tx_ack = 1 /\ Reading = 0
      BY <1>8, <3>1, <3>3 DEF Reading
    <3>5. tx_ack' + Reading' = 1
      BY <1>2, <3>4
    <3>6. ~Established
      BY <2>6 DEF Established, Joined
    <3> QED BY <3>5, <3>6, CountsNext, Opens
  <2>7. phone.conn \in {"closed", "synRcvd", "estab"}
    BY <1>1, TypeParts DEF PhoneType
  <2> QED BY <1>4, <2>5, <2>6, <2>7
<1>16. CASE PhoneSend
  <2>1. out' = out
    BY <1>16 DEF PhoneSend
  <2>2. PICK p \in Packets : /\ p.len \in Nat /\ phone'.sndNxt = phone.sndNxt + p.len
                             /\ phone'.rcvNxt = phone.rcvNxt /\ phone.conn = "estab"
    BY <1>1, <1>16, PhoneSendPuts
  <2>3. phone'.sndNxt >= phone.sndNxt
    BY <1>8, <2>2
  <2> QED BY <1>9, <1>10, <2>1, <2>2, <2>3
<1>17. CASE PhoneRest
  <2>1. /\ out' = out /\ phone.conn = "estab"
        /\ phone'.sndNxt = phone.sndNxt /\ phone'.rcvNxt = phone.rcvNxt
    BY <1>1, <1>17, PhoneRestPuts DEF PhoneRest, RestsFollow
  <2>2. phone'.rcvNxt >= phone.rcvNxt
    BY <1>8, <2>1
  <2> QED BY <1>9, <1>10, <2>1, <2>2
<1>18. CASE PhoneRead
  <2>1. /\ out' = out /\ phone.conn = "estab"
        /\ phone'.sndNxt = phone.sndNxt /\ phone'.rcvNxt = phone.rcvNxt
    BY <1>1, <1>18, PhoneReadPuts DEF PhoneRead
  <2>2. phone'.rcvNxt >= phone.rcvNxt
    BY <1>8, <2>1
  <2> QED BY <1>9, <1>10, <2>1, <2>2
<1>19. CASE PhoneReset
  BY <1>6, <1>19 DEF PhoneReset
<1> QED BY <1>12, <1>13, <1>14, <1>15, <1>16, <1>17, <1>18, <1>19 DEF PhoneSteps

LEMMA DaemonChannel ==
  ASSUME IInv, Daemon, IInv'
  PROVE  [Channel!Next]_Channel!vars
<1> SUFFICES ASSUME Established' PROVE [Channel!Next]_Channel!vars
  BY IntoClosed
<1>1. TypeOK /\ InShape /\ RestsAwaited /\ Chain /\ InStep
  BY DEF IInv
<1>2. /\ pc' \in Session /\ ~cut' /\ phone'.conn = "estab" /\ NoSyn' /\ Clean'
      /\ \A i \in DOMAIN in' : in'[i].type \in {"ack", "head", "rest", "control"}
  BY EstablishedNext
<1>3. pc' \notin {"version", "versionWait", "setup", "syn", "synWait", "ctlWait", "final",
                  "reset", "released"}
  BY <1>2 DEF Session
<1>4. /\ tx_seq \in Nat /\ tx_ack \in Nat /\ Reading \in Nat /\ in \in Seq(Packets)
      /\ out \in Seq(Packets)
  BY <1>1, ReadingNat, TypeParts DEF DaemonType, PipesType
<1>5. ASSUME pc \in Session, ~cut, phone' = phone, NoSyn,
             \A i \in DOMAIN in : in[i].type \in {"ack", "head", "rest", "control"}
      PROVE  Established /\ Counts /\ Counts'
  <2>1. Established
    BY <1>2, <1>5, EstablishedNow
  <2> QED BY <2>1, CountsHold, CountsNext
<1>6. ASSUME NEW types, Received(types), types \subseteq Data, phone' = phone
      PROVE  \A i \in DOMAIN in : in[i].type \in {"ack", "head", "rest", "control"}
  <2>1. in' = Tail(in) /\ in # <<>> /\ in[1].type \in Data
    BY <1>1, <1>6, ReceivedDrops
  <2>2. /\ DOMAIN in = 1..Len(in) /\ DOMAIN in' = 1..Len(in) - 1 /\ Len(in) \in Nat
        /\ \A i \in 1..Len(in) - 1 : in'[i] = in[i + 1]
    BY <1>4, <2>1, Tails
  <2> TAKE i \in DOMAIN in
  <2>3. CASE i = 1
    BY <2>1, <2>3 DEF Data
  <2>4. CASE i > 1
    <3>1. i - 1 \in 1..Len(in) - 1 /\ (i - 1) + 1 = i
      BY <2>2, <2>4
    <3> QED BY <1>2, <2>2, <3>1
  <2> QED BY <2>2, <2>3, <2>4
<1>7. CASE Connect
  <2>1. SendFinal
    BY <1>3, <1>7 DEF Connect, SendVersion, RecvVersion, SendSetup, SendSyn, SynTimeout,
         RecvControl, RecvSynAck, RecvRefusal, RecvStale, Go
  <2>2. pc = "final" /\ out' = Append(out, Tcp("ack", 0)) /\ phone' = phone
    BY <1>3, <2>1 DEF SendFinal, Go, Sent
  <2>3. Tcp("ack", 0) \in Packets
    BY <1>1, TcpType, TypeParts
  <2>4. \A i \in DOMAIN out : i \in DOMAIN out' /\ out'[i] = out[i]
    BY <1>4, <2>2, <2>3, Appends
  <2>5. NoSyn
    BY <1>2, <2>4 DEF NoSyn
  <2>6. phone.conn # "estab"
    BY <1>1, <2>2, <2>5, Apart DEF Chain
  <2> QED BY <1>2, <2>2, <2>6
<1>8. CASE RecvOther \/ RecvReset \/ RestTimeout \/ ResetDrain \/ ResetDone \/ RecvNoAck
  BY <1>2, <1>3, <1>8 DEF RecvOther, RecvReset, RestTimeout, ResetDrain, ResetDone, RecvNoAck, Go
<1>9. CASE Reads
  <2>1. PICK types \in SUBSET Data :
               Received(types) /\ (pc' = "rest" \/ "head" \notin types)
    BY <1>9, ReadShape
  <2>2. /\ pc \in Session /\ phone' = phone /\ out' = out /\ UNCHANGED <<cut, tx_seq, tx_ack>>
        /\ Reading' = Reading + in[1].len
    BY <1>9, ReadShape
  <2>3. NoSyn /\ \A i \in DOMAIN in : in[i].type \in {"ack", "head", "rest", "control"}
    BY <1>2, <1>6, <2>1, <2>2 DEF NoSyn
  <2>4. in[1].len \in Nat
    BY <1>1, <2>1, ReceivedBytes
  <2>5. tx_ack' + Reading' >= tx_ack + Reading
    BY <1>4, <2>2, <2>4
  <2>6. Established /\ Counts /\ Counts'
    BY <1>2, <1>5, <2>2, <2>3
  <2> QED BY <2>2, <2>5, <2>6, Grows
<1>10. CASE RecvGarbled
  <2>1. in # <<>> /\ Head(in).type = "rest" /\ pc = "idle" /\ cut' = cut
    BY <1>10 DEF RecvGarbled, Go, recvVars
  <2>2. in[1].type = "rest"
    BY <1>4, <2>1, Firsts
  <2>3. cut
    BY <1>1, <2>1, <2>2, Apart DEF RestsAwaited
  <2> QED BY <1>2, <2>1, <2>3
<1>11. CASE Sends
  <2>1. /\ phone' = phone /\ in' = in /\ cut' = cut /\ pc \in Session
        /\ tx_ack' = tx_ack + Reading /\ Reading' = 0
    BY <1>11, SendShape
  <2>2. \/ out' = out /\ tx_seq' = tx_seq
        \/ \E p \in Packets : out' = Append(out, p) /\ tx_seq' = tx_seq + p.len
    BY <1>11, SendShape
  <2>3. tx_seq' >= tx_seq /\ \A i \in DOMAIN out : i \in DOMAIN out' /\ out'[i] = out[i]
    <3>1. CASE out' = out /\ tx_seq' = tx_seq
      BY <1>4, <3>1
    <3>2. CASE \E p \in Packets : out' = Append(out, p) /\ tx_seq' = tx_seq + p.len
      <4>1. PICK p \in Packets : out' = Append(out, p) /\ tx_seq' = tx_seq + p.len
        BY <3>2
      <4>2. p.len \in Nat
        BY DEF Packets
      <4>3. \A i \in DOMAIN out : i \in DOMAIN out' /\ out'[i] = out[i]
        BY <1>4, <4>1, Appends
      <4> QED BY <1>4, <4>1, <4>2, <4>3
    <3> QED BY <2>2, <3>1, <3>2
  <2>4. NoSyn
    BY <1>2, <2>3 DEF NoSyn
  <2>5. Established /\ Counts /\ Counts'
    BY <1>2, <1>5, <2>1, <2>4
  <2>6. tx_ack' + Reading' = tx_ack + Reading
    BY <1>4, <2>1
  <2> QED BY <2>1, <2>3, <2>5, <2>6, Grows
<1>12. CASE RecvWindow
  <2>1. /\ Received({"ack", "synack", "rst"}) /\ Head(in).len = 0 /\ phone' = phone /\ out' = out
        /\ pc = "winWait" /\ pc' = "segment" /\ UNCHANGED <<cut, tx_seq, tx_ack>>
    BY <1>12 DEF RecvWindow, Go, recvVars
  <2>2. /\ in # <<>> /\ in[1].type \in {"ack", "synack", "rst"} /\ Head(in) = in[1]
        /\ in' = Tail(in) /\ 1 \in DOMAIN in
    BY <1>1, <1>4, <2>1, ReceivedDrops, Firsts
  <2>3. NoSyn /\ Reading = 0 /\ Reading' = 0
    BY <1>2, <2>1 DEF NoSyn, Reading
  <2>4. CASE in[1].type = "ack"
    <3>1. Received({"ack"}) /\ {"ack"} \subseteq Data
      BY <2>2, <2>4 DEF Received, Data
    <3>2. \A i \in DOMAIN in : in[i].type \in {"ack", "head", "rest", "control"}
      BY <1>6, <2>1, <3>1
    <3>3. Established /\ Counts /\ Counts'
      BY <1>2, <1>5, <2>1, <2>3, <3>2, Apart
    <3>4. tx_ack' + Reading' = tx_ack + Reading
      BY <2>1, <2>3
    <3>5. tx_seq' >= tx_seq /\ phone'.rcvNxt = phone.rcvNxt /\ phone'.sndNxt = phone.sndNxt
      BY <1>4, <2>1
    <3> QED BY <3>3, <3>4, <3>5, Grows
  <2>5. CASE in[1].type = "synack"
    <3>1. Received({"synack"})
      BY <2>2, <2>5 DEF Received
    <3>2. Clean
      BY <1>1, <1>2, <2>1, <3>1, CleanBefore, Apart
    <3>3. tx_ack = 1
      BY <1>1, <1>2, <2>1, <2>2, <2>3, <2>5, <3>2 DEF InStep
    <3>4. tx_ack' + Reading' = 1
      BY <2>1, <2>3, <3>3
    <3>5. ~Established
      BY <2>2, <2>5 DEF Established, Joined
    <3> QED BY <3>4, <3>5, CountsNext, Opens
  <2>6. in[1].type # "rst"
    BY <1>1, <2>1, <2>2 DEF InShape
  <2> QED BY <2>2, <2>4, <2>5, <2>6
<1> QED BY <1>7, <1>8, <1>9, <1>10, <1>11, <1>12 DEF Daemon, Receive, Reads, Sends

LEMMA ChannelStep == IInv /\ [Next]_vars /\ IInv' => [Channel!Next]_Channel!vars
<1> SUFFICES ASSUME IInv, [Next]_vars, IInv' PROVE [Channel!Next]_Channel!vars
  OBVIOUS
<1>1. CASE Daemon
  BY <1>1, DaemonChannel
<1>2. CASE PhoneSteps
  BY <1>2, PhoneChannel
<1>3. CASE UNCHANGED vars
  <2>1. UNCHANGED <<pc, tx_seq, tx_ack, left, cut, in, out, phone>>
    BY <1>3 DEF vars, seqVars, recvVars
  <2>2. Established' = Established /\ Reading' = Reading
    BY <2>1 DEF Established, Joined, Reading
  <2> QED BY <2>1, <2>2 DEF Channel!vars, Channel!streams, Stream
<1> QED BY <1>1, <1>2, <1>3 DEF Next, Released, PhoneReacts, PhoneSteps

LEMMA ChannelInit == Init => Channel!Init
<1> SUFFICES ASSUME Init PROVE Channel!Init
  OBVIOUS
<1>1. ~Established
  BY DEF Init, Established, Joined, Session
<1>2. Established = FALSE
  BY <1>1 DEF Established
<1> QED BY <1>1, <1>2, Mapped DEF Channel!Init, Channel!streams

(* The transport implements two byte streams: whatever times out, is repeated *)
(* or is reset, while a connection is established (and no packet was given up *)
(* half-way) each stream is read as far as it was written, and no further,    *)
(* and a new connection starts them afresh.                                   *)
THEOREM Implements == Spec => ImplementsStream
<1>1. Init => Channel!Init
  BY ChannelInit
<1>2. IInv /\ [Next]_vars /\ IInv' => [Channel!Next]_Channel!vars
  BY ChannelStep
<1> QED BY <1>1, <1>2, Inductive, PTL DEF Spec, ImplementsStream, Channel!Spec
=============================================================================
