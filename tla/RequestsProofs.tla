--------------------------- MODULE RequestsProofs ---------------------------
(***************************************************************************)
(* What Requests does for any requests, paths, sizes of the buffer and of  *)
(* a USB packet: its types, that only whole packages are handled, that an  *)
(* answer without error means what it says, that synced data are kept, and *)
(* that the app takes whole answers.                                       *)
(***************************************************************************)
EXTENDS Requests, SequenceTheorems, TLAPS

-----------------------------------------------------------------------------
(* The strengthening.                                                       *)

Unit       == (1..MaxTag) \X Nat
AnswerUnit == (1..MaxTag) \X Nat \X Nat
ReplyType  == [ok : BOOLEAN, data : Seq(Nat)]

(* What follows the first unit of a header.                                 *)
Follow(r) == UnitsOf(r) - 1

(* Each header in s has its package after it; reqs are the requests sent.   *)
PackagesIn(s, reqs) ==
  \A i \in DOMAIN s :
    /\ s[i][1] \in 1..Len(reqs)
    /\ s[i][2] = 0 => \A k \in 1..Follow(reqs[s[i][1]]) :
                        i + k \in DOMAIN s /\ s[i + k] = <<s[i][1], k>>

(* What is in the buffer or yet to come, as the app sent it.                *)
Coming == (buf \o pipe) \o sending

(* A request is handled from a complete package on.                         *)
Handling == pc # "recv" => Len(buf) >= Units(Tag)

ArrivalType ==
  /\ sent \in Seq(Requests) /\ Len(sent) <= MaxTag
  /\ sending \in Seq(Unit) /\ pipe \in Seq(Unit)
  /\ pc \in {"recv", "write", "reply"}
  /\ buf \in Seq(Unit) /\ Len(buf) <= BufSize
  /\ buf # <<>> => IsHeader(buf[1])
  /\ pc # "recv" => buf # <<>>

Arriving == ArrivalType /\ PackagesIn(Coming, sent) /\ Handling

(* Each header of an answer in s has the rest of that answer after it.      *)
AnswersIn(s) ==
  \A i \in DOMAIN s :
    s[i][2] = 0 => \A k \in 0..s[i][3] - 1 :
                     i + k \in DOMAIN s /\ s[i + k] = <<s[i][1], k, s[i][3]>>

(* What of an answer main() has not sent yet, and all that is to be read.   *)
Unsent == IF pc = "reply" THEN SubSeq(ReplyUnits, rpos + 1, Len(ReplyUnits)) ELSE <<>>
Going  == (inbox \o held) \o Unsent

AnswerType == reply \in ReplyType /\ inbox \in Seq(AnswerUnit) /\ held \in Seq(AnswerUnit)

ReplyPos == rpos \in Nat /\ IF pc = "reply" THEN rpos < Len(ReplyUnits) ELSE rpos = 0

Answering == AnswerType /\ ReplyPos /\ (clean => AnswersIn(Going))

DiskType ==
  /\ fs \in [Paths -> Content] /\ stored \in [Paths -> Content]
  /\ present \in BOOLEAN /\ readonly \in BOOLEAN /\ unplugs \in 0..MaxUnplug
  /\ ~present => fs = Nothing

FlagType ==
  waiting \in BOOLEAN /\ givenup \in 0..MaxGiveUp /\ steady \in BOOLEAN /\ clean \in BOOLEAN

(* What the app may count on is on the medium too.                          *)
Synced ==
  \A p \in Paths : promised[p] # Unsure =>
    stored[p] = promised[p] /\ (present => fs[p] = promised[p])

(* A file being written is nothing to count on.                             *)
Kept == Synced /\ (pc = "write" => promised[Request.path] = Unsure)

(* The file with the first w units of what is written to it.                *)
Overlaid(r, w) ==
  [before EXCEPT ![r.path].data = Overlay(@, r.offset, SubSeq(r.data, 1, w))]

(* The loop of usDisk_diskWrite() has written wpos units, and no more.      *)
Writing ==
  /\ wpos \in Nat
  /\ pc = "write" =>
       /\ Request.op = "WRITE" /\ Request.data # <<>> /\ wpos <= Len(Request.data)
       /\ before \in [Paths -> Content]
       /\ steady => present /\ fs = IF wpos = 0 THEN before ELSE Overlaid(Request, wpos)

(* While such an answer waits, no disk can be put back.                     *)
OkPresent ==
  pc = "reply" /\ reply.ok /\ steady /\ Request.op \in {"READ", "WRITE", "CREATE", "MOVE"}
    => present

IInv == /\ TypeOK /\ Arriving /\ Answering /\ Kept /\ Writing /\ OkPresent /\ OkMeansDone

-----------------------------------------------------------------------------
(* Sequences.                                                               *)

LEMMA Bounds ==
  /\ BufSize \in Nat /\ MaxTag \in Nat /\ MaxGiveUp \in Nat /\ MaxUnplug \in Nat
  /\ UsbPacket \in Nat /\ UsbPacket > 1
BY RequestsAssumption

LEMMA AppendAt ==
  ASSUME NEW S, NEW s \in Seq(S), NEW e \in S
  PROVE  /\ Append(s, e) \in Seq(S)
         /\ Len(Append(s, e)) = Len(s) + 1 /\ Len(s) \in Nat
         /\ \A i \in 1..Len(s) : Append(s, e)[i] = s[i]
         /\ Append(s, e)[Len(s) + 1] = e
OBVIOUS

LEMMA ConcatAt ==
  ASSUME NEW S, NEW s \in Seq(S), NEW t \in Seq(S)
  PROVE  /\ s \o t \in Seq(S) /\ Len(s) \in Nat /\ Len(t) \in Nat
         /\ Len(s \o t) = Len(s) + Len(t)
         /\ DOMAIN s = 1..Len(s) /\ DOMAIN t = 1..Len(t)
         /\ DOMAIN (s \o t) = 1..Len(s) + Len(t)
         /\ \A i \in 1..Len(s) : (s \o t)[i] = s[i]
         /\ \A i \in 1..Len(t) : (s \o t)[Len(s) + i] = t[i]
<1>1. /\ s \o t \in Seq(S) /\ Len(s) \in Nat /\ Len(t) \in Nat
      /\ Len(s \o t) = Len(s) + Len(t)
  OBVIOUS
<1>2. \A i \in 1..Len(s) + Len(t) :
        (s \o t)[i] = IF i <= Len(s) THEN s[i] ELSE t[i - Len(s)]
  BY ConcatProperties
<1>3. \A i \in 1..Len(s) : i \in 1..Len(s) + Len(t) /\ i <= Len(s)
  BY <1>1
<1>4. \A i \in 1..Len(t) :
        /\ Len(s) + i \in 1..Len(s) + Len(t) /\ ~(Len(s) + i <= Len(s))
        /\ (Len(s) + i) - Len(s) = i
  BY <1>1
<1>5. DOMAIN s = 1..Len(s) /\ DOMAIN t = 1..Len(t) /\ DOMAIN (s \o t) = 1..Len(s) + Len(t)
  BY <1>1
<1> QED BY <1>1, <1>2, <1>3, <1>4, <1>5

(* Two equations that many steps need, each under a name: a step that cites *)
(* the lemma matches the name, and expands it only afterwards.              *)
Regroups(a, b, c) == (a \o b) \o c = a \o (b \o c)

LEMMA Regroup ==
  ASSUME NEW S, NEW a \in Seq(S), NEW b \in Seq(S), NEW c \in Seq(S)
  PROVE  Regroups(a, b, c)
<1>1. (a \o b) \o c = a \o (b \o c)
  BY ConcatAssociative
<1> QED BY <1>1 DEF Regroups

(* A sequence is what a cut of it gives.                                    *)
LEMMA Cut ==
  ASSUME NEW S, NEW s \in Seq(S), NEW k \in 0..Len(s)
  PROVE  /\ SubSeq(s, 1, k) \in Seq(S) /\ SubSeq(s, k + 1, Len(s)) \in Seq(S)
         /\ Len(SubSeq(s, 1, k)) = k /\ Len(SubSeq(s, k + 1, Len(s))) = Len(s) - k
         /\ \A i \in 1..k : SubSeq(s, 1, k)[i] = s[i]
         /\ \A i \in 1..Len(s) - k : SubSeq(s, k + 1, Len(s))[i] = s[k + i]
         /\ SubSeq(s, 1, k) \o SubSeq(s, k + 1, Len(s)) = s
<1> DEFINE a == SubSeq(s, 1, k)
           b == SubSeq(s, k + 1, Len(s))
<1>1. Len(s) \in Nat /\ k \in Nat /\ k <= Len(s)
  OBVIOUS
<1>2. a \in Seq(S) /\ Len(a) = k /\ \A i \in 1..k : a[i] = s[i]
  BY <1>1
<1>3. b \in Seq(S) /\ Len(b) = Len(s) - k /\ \A i \in 1..Len(s) - k : b[i] = s[k + i]
  BY <1>1
<1> HIDE DEF a, b
<1>4. /\ a \o b \in Seq(S) /\ Len(a \o b) = Len(s)
      /\ \A i \in 1..k : (a \o b)[i] = a[i]
      /\ \A i \in 1..Len(s) - k : (a \o b)[k + i] = b[i]
  BY <1>1, <1>2, <1>3, ConcatAt
<1>5. \A i \in 1..Len(s) : (a \o b)[i] = s[i]
  <2> TAKE i \in 1..Len(s)
  <2>1. CASE i <= k
    BY <2>1, <1>1, <1>2, <1>4
  <2>2. CASE i > k
    <3>1. i - k \in 1..Len(s) - k /\ k + (i - k) = i
      BY <2>2, <1>1
    <3> QED BY <3>1, <1>3, <1>4
  <2>3. i <= k \/ i > k
    BY <1>1
  <2> QED BY <2>1, <2>2, <2>3
<1>6. a \o b = s
  BY <1>4, <1>5, SeqEqual
<1> QED BY <1>2, <1>3, <1>6 DEF a, b

-----------------------------------------------------------------------------
(* Requests and packages.                                                   *)

LEMMA PayLenNat ==
  ASSUME NEW r \in Requests
  PROVE  PayLen(r) \in Nat /\ (r.op = "WRITE" => PayLen(r) = Len(r.data) /\ r.data \in Seq(Nat))
<1>1. r.op = "WRITE" => r.data \in Seq(Nat) /\ Len(r.data) \in Nat
  BY RequestsAssumption
<1> QED BY <1>1 DEF PayLen

LEMMA FollowNat ==
  ASSUME NEW r \in Requests
  PROVE  Follow(r) \in Nat /\ UnitsOf(r) = 1 + Follow(r)
BY PayLenNat DEF Follow, UnitsOf, HdrLen

LEMMA PackagesDrop ==
  ASSUME NEW S, NEW d \in Seq(S), NEW s \in Seq(S), NEW reqs \in Seq(Requests),
         PackagesIn(d \o s, reqs)
  PROVE  PackagesIn(s, reqs)
<1> DEFINE t == d \o s
<1>1. /\ Len(d) \in Nat /\ Len(s) \in Nat
      /\ DOMAIN s = 1..Len(s) /\ DOMAIN t = 1..Len(d) + Len(s)
      /\ \A i \in 1..Len(s) : t[Len(d) + i] = s[i]
  BY ConcatAt
<1>2. PackagesIn(t, reqs)
  OBVIOUS
<1> HIDE DEF t
<1> SUFFICES ASSUME NEW i \in DOMAIN s
             PROVE  /\ s[i][1] \in 1..Len(reqs)
                    /\ s[i][2] = 0 => \A k \in 1..Follow(reqs[s[i][1]]) :
                         i + k \in DOMAIN s /\ s[i + k] = <<s[i][1], k>>
  BY DEF PackagesIn
<1> DEFINE j == Len(d) + i
           n == Follow(reqs[s[i][1]])
<1>3. j \in DOMAIN t /\ t[j] = s[i]
  BY <1>1
<1>4. s[i][1] \in 1..Len(reqs)
  BY <1>2, <1>3 DEF PackagesIn
<1>5. n \in Nat
  BY <1>4, FollowNat
<1>6. ASSUME s[i][2] = 0, NEW k \in 1..n
      PROVE  i + k \in DOMAIN s /\ s[i + k] = <<s[i][1], k>>
  <2>1. j + k \in DOMAIN t /\ t[j + k] = <<s[i][1], k>>
    BY <1>2, <1>3, <1>6 DEF PackagesIn
  <2>2. i + k \in 1..Len(s) /\ Len(d) + (i + k) = j + k
    BY <2>1, <1>1, <1>5
  <2> QED BY <2>1, <2>2, <1>1
<1> QED BY <1>4, <1>6

LEMMA PackagesAdd ==
  ASSUME NEW S, NEW s \in Seq(S), NEW reqs \in Seq(Requests), NEW r \in Requests,
         PackagesIn(s, reqs), NEW p \in Seq(S),
         Len(p) = 1 + Follow(r),
         \A i \in 1..1 + Follow(r) : p[i] = <<Len(reqs) + 1, i - 1>>
  PROVE  PackagesIn(s \o p, Append(reqs, r))
<1> DEFINE t == s \o p
           more == Append(reqs, r)
           n == Follow(r)
<1>1. n \in Nat
  BY FollowNat
<1>2. /\ Len(more) = Len(reqs) + 1 /\ Len(reqs) \in Nat
      /\ \A i \in 1..Len(reqs) : more[i] = reqs[i]
      /\ more[Len(reqs) + 1] = r
  BY AppendAt
<1>3. Len(p) = 1 + n /\ \A i \in 1..1 + n : p[i] = <<Len(reqs) + 1, i - 1>>
  OBVIOUS
<1>4. /\ Len(s) \in Nat /\ DOMAIN s = 1..Len(s) /\ DOMAIN t = 1..Len(s) + Len(p)
      /\ \A i \in 1..Len(s) : t[i] = s[i]
      /\ \A i \in 1..Len(p) : t[Len(s) + i] = p[i]
  BY ConcatAt
<1> HIDE DEF t, more, n
<1> SUFFICES ASSUME NEW i \in DOMAIN t
             PROVE  /\ t[i][1] \in 1..Len(more)
                    /\ t[i][2] = 0 => \A k \in 1..Follow(more[t[i][1]]) :
                         i + k \in DOMAIN t /\ t[i + k] = <<t[i][1], k>>
  BY DEF PackagesIn, t, more
<1>6. CASE i <= Len(s)
  <2>1. i \in DOMAIN s /\ t[i] = s[i]
    BY <1>6, <1>4, <1>1
  <2>2. /\ s[i][1] \in 1..Len(reqs)
        /\ s[i][2] = 0 => \A k \in 1..Follow(reqs[s[i][1]]) :
             i + k \in DOMAIN s /\ s[i + k] = <<s[i][1], k>>
    BY <2>1 DEF PackagesIn
  <2>3. more[s[i][1]] = reqs[s[i][1]] /\ s[i][1] \in 1..Len(more)
    BY <2>2, <1>2
  <2>4. \A m \in DOMAIN s : m \in DOMAIN t /\ t[m] = s[m]
    BY <1>1, <1>4
  <2> QED BY <2>1, <2>2, <2>3, <2>4
<1>7. CASE i > Len(s)
  <2>1. i - Len(s) \in 1..1 + n /\ Len(s) + (i - Len(s)) = i
    <3> DEFINE a == Len(s)
    <3>1. a \in Nat /\ n \in Nat /\ i \in 1..a + (1 + n) /\ i > a
      BY <1>7, <1>3, <1>4, <1>1
    <3> HIDE DEF a
    <3>2. i - a \in 1..1 + n /\ a + (i - a) = i
      BY <3>1
    <3> QED BY <3>2 DEF a
  <2>2. t[i] = <<Len(reqs) + 1, i - Len(s) - 1>>
    BY <2>1, <1>4, <1>3
  <2>3. t[i][1] = Len(reqs) + 1 /\ t[i][2] = i - Len(s) - 1
    <3> DEFINE a == Len(reqs) + 1  b == i - Len(s) - 1
    <3>1. t[i] = <<a, b>>
      BY <2>2
    <3> HIDE DEF a, b
    <3>2. t[i][1] = a /\ t[i][2] = b
      BY <3>1
    <3> QED BY <3>2 DEF a, b
  <2>4. ASSUME t[i][2] = 0, NEW k \in 1..n
        PROVE  i + k \in DOMAIN t /\ t[i + k] = <<t[i][1], k>>
    <3>1. i = Len(s) + 1
      <4> DEFINE a == Len(s)
      <4>1. a \in Nat /\ a + (i - a) = i /\ i - a - 1 = 0 /\ i \in Int
        BY <2>3, <2>4, <2>1, <1>4
      <4> HIDE DEF a
      <4>2. i = a + 1
        BY <4>1
      <4> QED BY <4>2 DEF a
    <3>2. k + 1 \in 1..1 + n /\ i + k = Len(s) + (k + 1) /\ i + k \in DOMAIN t /\ (k + 1) - 1 = k
      BY <3>1, <1>3, <1>4, <1>1
    <3> QED BY <3>2, <2>3, <1>4, <1>3
  <2>5. t[i][1] \in 1..Len(more) /\ Follow(more[t[i][1]]) = n
    BY <2>3, <1>2 DEF n
  <2> QED BY <2>4, <2>5
<1> QED BY <1>6, <1>7, <1>4, <1>1

-----------------------------------------------------------------------------
(* Types, in parts.                                                         *)

LEMMA TypeParts ==
  ASSUME Arriving, AnswerType, ReplyPos, DiskType, FlagType, Writing
  PROVE  TypeOK
<1>1. {inbox, held} \subseteq Seq((1..MaxTag) \X Nat \X Nat)
  BY DEF AnswerType, AnswerUnit
<1>2. /\ sent \in Seq(Requests) /\ Len(sent) <= MaxTag
      /\ sending \in Seq((1..MaxTag) \X Nat) /\ pipe \in Seq((1..MaxTag) \X Nat)
      /\ pc \in {"recv", "write", "reply"}
      /\ buf \in Seq((1..MaxTag) \X Nat) /\ Len(buf) <= BufSize
      /\ buf # <<>> => IsHeader(buf[1])
      /\ pc # "recv" => buf # <<>>
  BY DEF Arriving, ArrivalType, Unit
<1>3. {fs, stored} \subseteq [Paths -> Content]
  BY DEF DiskType
<1>4. reply \in [ok : BOOLEAN, data : Seq(Nat)]
  BY DEF AnswerType, ReplyType
<1>5. wpos \in Nat /\ rpos \in Nat
  BY DEF Writing, ReplyPos
<1>6. /\ waiting \in BOOLEAN /\ givenup \in 0..MaxGiveUp
      /\ steady \in BOOLEAN /\ clean \in BOOLEAN
  BY DEF FlagType
<1>7. /\ present \in BOOLEAN /\ readonly \in BOOLEAN /\ unplugs \in 0..MaxUnplug
      /\ ~present => fs = Nothing
  BY DEF DiskType
<1> QED BY <1>1, <1>2, <1>3, <1>4, <1>5, <1>6, <1>7, Zenon DEF TypeOK

LEMMA PartsOfType ==
  ASSUME TypeOK
  PROVE  DiskType /\ FlagType
<1>1. fs \in [Paths -> Content] /\ stored \in [Paths -> Content]
  BY Zenon DEF TypeOK
<1> QED BY <1>1, Zenon DEF TypeOK, DiskType, FlagType

(* The request in the buffer is one that was sent.                          *)
LEMMA TagKnown ==
  ASSUME Arriving, buf # <<>>
  PROVE  /\ Tag \in 1..Len(sent) /\ Tag \in 1..MaxTag /\ Request \in Requests
         /\ Follow(Request) \in Nat /\ Units(Tag) = 1 + Follow(Request)
<1>1. /\ sent \in Seq(Requests) /\ Len(sent) <= MaxTag /\ MaxTag \in Nat
      /\ buf \in Seq(Unit) /\ pipe \in Seq(Unit) /\ sending \in Seq(Unit)
  BY Bounds DEF Arriving, ArrivalType
<1>2. Len(buf) \in Nat /\ Len(buf) >= 1
  BY <1>1
<1>3. 1 \in DOMAIN Coming /\ Coming[1] = buf[1]
  <2>1. /\ buf \o pipe \in Seq(Unit) /\ Len(buf \o pipe) = Len(buf) + Len(pipe)
        /\ Len(pipe) \in Nat /\ (buf \o pipe)[1] = buf[1]
    BY <1>1, <1>2, ConcatAt
  <2>2. /\ Len(sending) \in Nat
        /\ DOMAIN Coming = 1..Len(buf \o pipe) + Len(sending)
        /\ \A i \in 1..Len(buf \o pipe) : Coming[i] = (buf \o pipe)[i]
    <3> DEFINE b == buf \o pipe
    <3>1. b \in Seq(Unit) /\ Coming = b \o sending
      BY <2>1 DEF Coming
    <3> HIDE DEF b
    <3>2. /\ Len(sending) \in Nat /\ DOMAIN (b \o sending) = 1..Len(b) + Len(sending)
          /\ \A i \in 1..Len(b) : (b \o sending)[i] = b[i]
      BY <3>1, <1>1, ConcatAt
    <3> QED BY <3>1, <3>2 DEF b
  <2> QED BY <2>1, <2>2, <1>2
<1>4. Tag \in 1..Len(sent)
  BY <1>3, Zenon DEF Arriving, PackagesIn, Tag
<1>5. Request \in Requests
  BY <1>4, <1>1 DEF Request
<1> QED BY <1>1, <1>4, <1>5, FollowNat DEF Units, Request

(* What RequestsAssumption says of it.                                      *)
LEMMA Fields ==
  ASSUME NEW r \in Requests
  PROVE  /\ r.op \in {"READ", "WRITE", "CREATE", "DELETE", "MOVE"} => r.path \in Paths
         /\ r.op = "MOVE" => r.to \in Paths
         /\ r.op \in {"READ", "WRITE"} => r.offset \in Nat
         /\ r.op = "READ" => r.size \in Nat
         /\ r.op = "WRITE" => r.data \in Seq(Nat)
BY RequestsAssumption

-----------------------------------------------------------------------------
(* Packages that arrive.                                                    *)

LEMMA ArrivingSame ==
  ASSUME Arriving, UNCHANGED <<sent, sending, pipe, buf>>,
         pc' \in {"recv", "write", "reply"},
         pc' # "recv" => Complete \/ pc # "recv"
  PROVE  Arriving'
<1>1. Coming' = Coming
  BY DEF Coming
<1>2. PackagesIn(Coming', sent')
  BY <1>1 DEF Arriving
<1>3. Units(Tag)' = Units(Tag)
  BY DEF Units, Tag
<1>4. ArrivalType'
  BY DEF Arriving, ArrivalType, Complete
<1>5. Handling'
  BY <1>3 DEF Arriving, Handling, Complete
<1> QED BY <1>2, <1>4, <1>5 DEF Arriving, PackagesIn

LEMMA ArrivingDropped ==
  ASSUME Arriving, UNCHANGED <<sent, sending, pipe>>, buf' = <<>>, pc' = "recv"
  PROVE  Arriving'
<1>1. /\ sent \in Seq(Requests) /\ BufSize \in Nat
      /\ buf \in Seq(Unit) /\ pipe \in Seq(Unit) /\ sending \in Seq(Unit)
  BY Bounds DEF Arriving, ArrivalType
<1>2. Coming' = pipe \o sending
  BY <1>1, ConcatEmptySeq, Zenon DEF Coming
<1>3. Coming = buf \o (pipe \o sending) /\ pipe \o sending \in Seq(Unit)
  <2>1. pipe \o sending \in Seq(Unit)
    BY <1>1, ConcatProperties
  <2>2. (buf \o pipe) \o sending = buf \o (pipe \o sending)
    <3>1. buf \in Seq(Unit) /\ pipe \in Seq(Unit) /\ sending \in Seq(Unit)
      BY <1>1
    <3>2. Regroups(buf, pipe, sending)
      BY <3>1, Regroup
    <3> QED BY <3>2 DEF Regroups
  <2> QED BY <2>1, <2>2 DEF Coming
<1>4. PackagesIn(Coming', sent')
  BY <1>1, <1>2, <1>3, PackagesDrop, Zenon DEF Arriving
<1>5. ArrivalType'
  <2>1. <<>> \in Seq(Unit) /\ Len(<<>>) = 0
    BY EmptySeq
  <2> QED BY <2>1, <1>1 DEF Arriving, ArrivalType
<1> QED BY <1>4, <1>5 DEF Arriving, Handling, PackagesIn

LEMMA ArrivingNew ==
  ASSUME Arriving, NewSession, sent' = sent
  PROVE  Arriving'
<1>1. <<>> \in Seq(Unit) /\ Len(<<>>) = 0 /\ BufSize \in Nat /\ DOMAIN <<>> = {}
  BY EmptySeq, Bounds
<1>2. Coming' = <<>>
  BY <1>1, ConcatEmptySeq, Zenon DEF Coming, NewSession
<1>3. PackagesIn(Coming', sent')
  BY <1>1, <1>2 DEF PackagesIn
<1>4. ArrivalType'
  BY <1>1 DEF Arriving, ArrivalType, NewSession
<1> QED BY <1>3, <1>4 DEF Arriving, Handling, PackagesIn, NewSession

LEMMA ArrivingAsk ==
  ASSUME Arriving, Ask
  PROVE  Arriving'
<1>1. /\ sent \in Seq(Requests) /\ Len(sent) < MaxTag /\ MaxTag \in Nat /\ Len(sent) \in Nat
      /\ buf \in Seq(Unit) /\ pipe \in Seq(Unit) /\ sending = <<>>
  BY Bounds DEF Arriving, ArrivalType, Ask
<1>2. PICK r \in Requests :
        /\ sent' = Append(sent, r)
        /\ sending' = [i \in 1..UnitsOf(r) |-> <<Len(sent) + 1, i - 1>>]
  BY DEF Ask
<1>3. /\ sent' \in Seq(Requests) /\ Len(sent') = Len(sent) + 1
      /\ sent'[Len(sent')] = r
      /\ \A t \in 1..Len(sent) : sent'[t] = sent[t]
  BY <1>1, <1>2, AppendAt
<1>5. Follow(r) \in Nat /\ UnitsOf(r) = 1 + Follow(r)
  BY FollowNat
<1>6. /\ sending' \in Seq(Unit) /\ Len(sending') = 1 + Follow(r)
      /\ \A i \in 1..1 + Follow(r) : sending'[i] = <<Len(sent) + 1, i - 1>>
  <2>1. sending' = [i \in 1..(1 + Follow(r)) |-> <<Len(sent) + 1, i - 1>>]
    BY <1>2, <1>5
  <2>2. \A i \in 1..(1 + Follow(r)) : <<Len(sent) + 1, i - 1>> \in Unit
    BY <1>1, <1>5 DEF Unit
  <2> QED BY <2>1, <2>2, <1>5
<1>7. buf \o pipe \in Seq(Unit) /\ Coming = buf \o pipe /\ Coming' = (buf \o pipe) \o sending'
  <2>1. buf \o pipe \in Seq(Unit)
    BY <1>1, ConcatProperties
  <2> QED BY <2>1, <1>1, ConcatEmptySeq, Zenon DEF Coming, Ask
<1>8. PackagesIn(Coming', sent')
  BY <1>1, <1>2, <1>6, <1>7, PackagesAdd, Zenon DEF Arriving
<1>9. ArrivalType'
  BY <1>1, <1>3, <1>6 DEF Arriving, ArrivalType, Ask
<1>10. Handling'
  <2>1. CASE pc = "recv"
    BY <2>1 DEF Handling, Ask
  <2>2. CASE pc # "recv"
    <3>1. Tag \in 1..Len(sent)
      BY <2>2, TagKnown DEF Arriving, ArrivalType
    <3>2. Units(Tag)' = Units(Tag)
      BY <3>1, <1>3 DEF Units, Tag, Ask
    <3> QED BY <3>2 DEF Handling, Arriving, Ask
  <2> QED BY <2>1, <2>2
<1> QED BY <1>8, <1>9, <1>10 DEF Arriving, PackagesIn

LEMMA ArrivingSend ==
  ASSUME Arriving, Send
  PROVE  Arriving'
<1>1. /\ buf \in Seq(Unit) /\ pipe \in Seq(Unit) /\ sending \in Seq(Unit) /\ sending # <<>>
  BY DEF Arriving, ArrivalType, Send
<1>2. /\ Head(sending) \in Unit /\ Tail(sending) \in Seq(Unit)
      /\ pipe' = Append(pipe, Head(sending)) /\ sending' = Tail(sending)
  BY <1>1 DEF Send
<1>3. /\ pipe' \in Seq(Unit) /\ pipe' = pipe \o <<Head(sending)>>
      /\ <<Head(sending)>> \in Seq(Unit)
      /\ <<Head(sending)>> \o sending' = sending
  <2>1. Append(pipe, Head(sending)) = pipe \o <<Head(sending)>>
    BY <1>1, <1>2, AppendIsConcat
  <2>2. <<Head(sending)>> \o Tail(sending) = sending
    <3> DEFINE one == <<Head(sending)>>
               rest == Tail(sending)
    <3>1. /\ one \in Seq(Unit) /\ rest \in Seq(Unit) /\ Len(one) = 1
          /\ Len(sending) \in Nat /\ Len(rest) = Len(sending) - 1
          /\ one[1] = sending[1] /\ \A i \in 1..Len(sending) - 1 : rest[i] = sending[i + 1]
      BY <1>1
    <3> HIDE DEF one, rest
    <3>2. /\ one \o rest \in Seq(Unit) /\ Len(one \o rest) = Len(sending)
          /\ (one \o rest)[1] = one[1]
          /\ \A i \in 1..Len(sending) - 1 : (one \o rest)[1 + i] = rest[i]
      BY <3>1, ConcatAt
    <3>3. \A i \in 1..Len(sending) : (one \o rest)[i] = sending[i]
      <4> TAKE i \in 1..Len(sending)
      <4>1. CASE i = 1
        BY <4>1, <3>1, <3>2
      <4>2. CASE i # 1
        <5> DEFINE c == Len(sending)
        <5>0. c \in Nat /\ i \in 1..c
          BY <3>1
        <5> HIDE DEF c
        <5>1. i - 1 \in 1..c - 1 /\ 1 + (i - 1) = i /\ (i - 1) + 1 = i
          BY <4>2, <5>0
        <5> QED BY <5>1, <3>1, <3>2 DEF c
      <4> QED BY <4>1, <4>2
    <3> QED BY <3>2, <3>3, <1>1, SeqEqual DEF one, rest
  <2> QED BY <2>1, <2>2, <1>2, <1>1
<1>4. Coming' = Coming
  <2> DEFINE one == <<Head(sending)>>
  <2>1. Coming' = (buf \o (pipe \o one)) \o sending'
    BY <1>3 DEF Coming, Send
  <2> HIDE DEF one
  <2>2. one \in Seq(Unit) /\ sending' \in Seq(Unit) /\ one \o sending' = sending
    BY <1>2, <1>3 DEF one
  <2>3. /\ buf \o pipe \in Seq(Unit) /\ pipe \o one \in Seq(Unit)
        /\ buf \o (pipe \o one) = (buf \o pipe) \o one
    <3>1. (buf \o pipe) \o one = buf \o (pipe \o one)
      <4>1. buf \in Seq(Unit) /\ pipe \in Seq(Unit) /\ one \in Seq(Unit)
        BY <1>1, <2>2
      <4>2. Regroups(buf, pipe, one)
        BY <4>1, Regroup
      <4> QED BY <4>2 DEF Regroups
    <3>2. buf \o pipe \in Seq(Unit) /\ pipe \o one \in Seq(Unit)
      BY <1>1, <2>2, ConcatProperties
    <3> QED BY <3>1, <3>2
  <2>4. ((buf \o pipe) \o one) \o sending' = (buf \o pipe) \o (one \o sending')
    <3> DEFINE b == buf \o pipe
               rest == sending'
    <3>1. b \in Seq(Unit) /\ one \in Seq(Unit) /\ rest \in Seq(Unit)
      BY <2>2, <2>3
    <3> HIDE DEF b, rest
    <3>2. Regroups(b, one, rest)
      BY <3>1, Regroup
    <3> QED BY <3>2 DEF b, rest, Regroups
  <2> QED BY <2>1, <2>2, <2>3, <2>4 DEF Coming
<1>5. PackagesIn(Coming', sent')
  BY <1>4 DEF Arriving, Send
<1>6. ArrivalType'
  BY <1>2, <1>3 DEF Arriving, ArrivalType, Send
<1>7. Handling'
  <2>1. Units(Tag)' = Units(Tag)
    BY DEF Units, Tag, Send
  <2> QED BY <2>1 DEF Arriving, Handling, Send
<1> QED BY <1>5, <1>6, <1>7 DEF Arriving, PackagesIn

LEMMA ArrivingFirst ==
  ASSUME Arriving, RecvFirst
  PROVE  Arriving'
<1>1. /\ pipe \in Seq(Unit) /\ sending \in Seq(Unit) /\ sent \in Seq(Requests)
      /\ BufSize \in Nat /\ Len(pipe) \in Nat
      /\ buf = <<>> /\ pc = "recv" /\ pc' = pc
  BY Bounds DEF Arriving, ArrivalType, RecvFirst
<1>2. PICK k \in 1..BufSize :
        LET got == SubSeq(pipe, 1, k) IN
        /\ Take(k)
        /\ IF k >= HdrLen /\ IsHeader(got[1]) /\ Units(got[1][1]) <= BufSize
           THEN buf' = got /\ UNCHANGED clean
           ELSE clean' = FALSE /\ UNCHANGED buf
  BY Zenon DEF RecvFirst
<1> DEFINE got == SubSeq(pipe, 1, k)
           rest == SubSeq(pipe, k + 1, Len(pipe))
<1>3. k \in 0..Len(pipe) /\ sent' = sent /\ sending' = sending /\ pipe' = rest
  BY <1>1, <1>2 DEF Take
<1>4. /\ got \in Seq(Unit) /\ rest \in Seq(Unit) /\ Len(got) = k
      /\ got \o rest = pipe
  BY <1>1, <1>3, Cut
<1>5. \/ buf' = got /\ IsHeader(got[1])
      \/ buf' = buf
  BY <1>2
<1> HIDE DEF got, rest
<1>6. Coming = pipe \o sending
  BY <1>1, ConcatEmptySeq, Zenon DEF Coming
<1>7. <<>> \in Seq(Unit) /\ Len(<<>>) = 0
  BY EmptySeq
<1>8. CASE buf' = got /\ IsHeader(got[1])
  <2>1. Coming' = Coming
    BY <1>3, <1>4, <1>6, <1>8 DEF Coming
  <2>2. ArrivalType'
    BY <1>1, <1>3, <1>4, <1>8 DEF Arriving, ArrivalType
  <2>3. PackagesIn(Coming', sent')
    BY <2>1, <1>3 DEF Arriving
  <2> QED BY <2>2, <2>3, <1>1 DEF Arriving, Handling, PackagesIn
<1>9. CASE buf' = buf
  <2>1. Coming' = rest \o sending
    BY <1>1, <1>3, <1>4, <1>9, ConcatEmptySeq, Zenon DEF Coming
  <2>2. rest \o sending \in Seq(Unit)
    BY <1>1, <1>4, ConcatProperties
  <2>3. (got \o rest) \o sending = got \o (rest \o sending)
    <3>1. got \in Seq(Unit) /\ rest \in Seq(Unit) /\ sending \in Seq(Unit)
      BY <1>1, <1>4
    <3>2. Regroups(got, rest, sending)
      BY <3>1, Regroup
    <3> QED BY <3>2 DEF Regroups
  <2>4. PackagesIn(Coming', sent')
    BY <2>1, <2>2, <2>3, <1>1, <1>3, <1>4, <1>6, PackagesDrop, Zenon DEF Arriving
  <2>5. ArrivalType'
    BY <1>1, <1>3, <1>4, <1>7, <1>9 DEF Arriving, ArrivalType
  <2> QED BY <2>4, <2>5, <1>1 DEF Arriving, Handling, PackagesIn
<1> QED BY <1>5, <1>8, <1>9

LEMMA ArrivingMore ==
  ASSUME Arriving, RecvMore
  PROVE  Arriving'
<1>1. /\ buf \in Seq(Unit) /\ pipe \in Seq(Unit) /\ sending \in Seq(Unit)
      /\ BufSize \in Nat /\ Len(pipe) \in Nat /\ Len(buf) \in Nat
      /\ buf # <<>> /\ pc = "recv" /\ pc' = pc
  BY Bounds DEF Arriving, ArrivalType, RecvMore, ReadRest
<1>2. PICK k \in 1..(BufSize - Len(buf)) : Take(k) /\ buf' = buf \o SubSeq(pipe, 1, k)
  BY Zenon DEF RecvMore, ReadRest
<1> DEFINE got == SubSeq(pipe, 1, k)
           rest == SubSeq(pipe, k + 1, Len(pipe))
<1>3. k \in 0..Len(pipe) /\ sent' = sent /\ sending' = sending /\ pipe' = rest /\ buf' = buf \o got
  BY <1>1, <1>2 DEF Take
<1>4. /\ got \in Seq(Unit) /\ rest \in Seq(Unit) /\ Len(got) = k
      /\ got \o rest = pipe
  BY <1>1, <1>3, Cut
<1> HIDE DEF got, rest
<1>5. /\ buf \o got \in Seq(Unit) /\ Len(buf \o got) = Len(buf) + k
      /\ \A i \in 1..Len(buf) : (buf \o got)[i] = buf[i]
  <2>1. buf \in Seq(Unit) /\ got \in Seq(Unit)
    BY <1>1, <1>4
  <2>2. /\ buf \o got \in Seq(Unit) /\ Len(buf \o got) = Len(buf) + Len(got)
        /\ \A i \in 1..Len(buf) : (buf \o got)[i] = buf[i]
    BY <2>1, ConcatAt
  <2> QED BY <2>2, <1>4
<1>6. (buf \o got) \o rest = buf \o pipe
  <2>1. buf \in Seq(Unit) /\ got \in Seq(Unit) /\ rest \in Seq(Unit)
    BY <1>1, <1>4
  <2>2. Regroups(buf, got, rest)
    BY <2>1, Regroup
  <2> QED BY <2>2, <1>4 DEF Regroups
<1>7. Coming' = Coming
  BY <1>3, <1>6 DEF Coming
<1>8. PackagesIn(Coming', sent')
  BY <1>3, <1>7 DEF Arriving
<1>9. ArrivalType'
  <2>1. Len(buf') <= BufSize
    BY <1>1, <1>2, <1>3, <1>5
  <2>2. 1 \in 1..Len(buf)
    BY <1>1
  <2>3. buf'[1] = buf[1]
    BY <2>2, <1>3, <1>5
  <2> QED BY <2>1, <2>3, <1>1, <1>3, <1>4, <1>5 DEF Arriving, ArrivalType, IsHeader
<1> QED BY <1>8, <1>9, <1>1 DEF Arriving, Handling, PackagesIn

LEMMA ArrivingTimeout ==
  ASSUME Arriving, RecvTimeout
  PROVE  Arriving'
<1>1. /\ buf \in Seq(Unit) /\ pipe \in Seq(Unit) /\ sending \in Seq(Unit)
      /\ sent \in Seq(Requests) /\ BufSize \in Nat /\ Len(pipe) \in Nat
      /\ pc = "recv" /\ pc' = pc /\ buf' = <<>>
      /\ sent' = sent /\ sending' = sending /\ pipe' = SubSeq(pipe, Len(pipe) + 1, Len(pipe))
  BY Bounds DEF Arriving, ArrivalType, RecvTimeout, Take
<1>2. <<>> \in Seq(Unit) /\ Len(<<>>) = 0
  BY EmptySeq
<1>3. pipe' = <<>>
  BY <1>1
<1>4. Coming' = sending
  BY <1>1, <1>2, <1>3, ConcatEmptySeq, Zenon DEF Coming
<1>5. buf \o pipe \in Seq(Unit)
  BY <1>1, ConcatProperties
<1>6. PackagesIn(Coming', sent')
  BY <1>1, <1>4, <1>5, PackagesDrop, Zenon DEF Arriving, Coming
<1>7. ArrivalType'
  BY <1>1, <1>2, <1>3 DEF Arriving, ArrivalType
<1> QED BY <1>6, <1>7, <1>1 DEF Arriving, Handling, PackagesIn

LEMMA ArrivingInit == Init => Arriving
<1> SUFFICES ASSUME Init PROVE Arriving
  OBVIOUS
<1>1. /\ <<>> \in Seq(Unit) /\ Len(<<>>) = 0 /\ DOMAIN <<>> = {}
      /\ BufSize \in Nat /\ MaxTag \in Nat
  BY EmptySeq, Bounds
<1>2. Coming = <<>>
  BY <1>1, ConcatEmptySeq, Zenon DEF Coming, Init
<1>3. PackagesIn(Coming, sent)
  BY <1>1, <1>2 DEF PackagesIn
<1>4. sent \in Seq(Requests) /\ Len(sent) = 0
  BY EmptySeq DEF Init
<1>5. ArrivalType
  BY <1>1, <1>4 DEF ArrivalType, Init
<1> QED BY <1>3, <1>5 DEF Arriving, Handling, Init

-----------------------------------------------------------------------------
(* Answers on their way.                                                    *)

LEMMA AnswersDrop ==
  ASSUME NEW S, NEW d \in Seq(S), NEW s \in Seq(S), AnswersIn(d \o s),
         \A i \in DOMAIN s : s[i][3] \in Nat
  PROVE  AnswersIn(s)
<1> DEFINE t == d \o s
<1>1. /\ Len(d) \in Nat /\ Len(s) \in Nat
      /\ DOMAIN s = 1..Len(s) /\ DOMAIN t = 1..Len(d) + Len(s)
      /\ \A i \in 1..Len(s) : t[Len(d) + i] = s[i]
  BY ConcatAt
<1>2. AnswersIn(t)
  OBVIOUS
<1> HIDE DEF t
<1> SUFFICES ASSUME NEW i \in DOMAIN s, s[i][2] = 0, NEW k \in 0..s[i][3] - 1
             PROVE  i + k \in DOMAIN s /\ s[i + k] = <<s[i][1], k, s[i][3]>>
  BY DEF AnswersIn
<1> DEFINE j == Len(d) + i
<1>3. j \in DOMAIN t /\ t[j] = s[i]
  BY <1>1
<1>4. j + k \in DOMAIN t /\ t[j + k] = <<s[i][1], k, s[i][3]>>
  BY <1>2, <1>3 DEF AnswersIn
<1>5. i \in Nat /\ k \in Nat /\ i >= 1
  <2>1. s[i][3] \in Nat
    OBVIOUS
  <2> QED BY <2>1, <1>1
<1>6. i + k \in 1..Len(s) /\ Len(d) + (i + k) = j + k
  <2> DEFINE a == Len(d)  b == Len(s)
  <2>1. a \in Nat /\ b \in Nat /\ (a + i) + k \in 1..a + b
    BY <1>1, <1>4
  <2> HIDE DEF a, b
  <2>2. i + k \in 1..b /\ a + (i + k) = (a + i) + k
    BY <2>1, <1>5
  <2> QED BY <2>2 DEF a, b
<1> QED BY <1>4, <1>6, <1>1

LEMMA AnswersAdd ==
  ASSUME NEW S, NEW s \in Seq(S), AnswersIn(s), NEW t,
         NEW a \in Seq(S), \A i \in 1..Len(a) : a[i] = <<t, i - 1, Len(a)>>,
         \A i \in DOMAIN s : s[i][3] \in Nat
  PROVE  AnswersIn(s \o a)
<1> DEFINE u == s \o a
           n == Len(a)
<1>1. /\ Len(s) \in Nat /\ n \in Nat
      /\ DOMAIN s = 1..Len(s) /\ DOMAIN u = 1..Len(s) + n
      /\ \A i \in 1..Len(s) : u[i] = s[i]
      /\ \A i \in 1..n : u[Len(s) + i] = a[i]
  BY ConcatAt
<1> HIDE DEF u, n
<1> SUFFICES ASSUME NEW i \in DOMAIN u, u[i][2] = 0, NEW k \in 0..u[i][3] - 1
             PROVE  i + k \in DOMAIN u /\ u[i + k] = <<u[i][1], k, u[i][3]>>
  BY DEF AnswersIn, u
<1>2. CASE i <= Len(s)
  <2>1. i \in DOMAIN s /\ u[i] = s[i]
    BY <1>1, <1>2
  <2>2. i + k \in DOMAIN s /\ s[i + k] = <<s[i][1], k, s[i][3]>>
    BY <2>1 DEF AnswersIn
  <2>3. i + k \in DOMAIN u /\ u[i + k] = s[i + k]
    BY <2>2, <1>1
  <2> QED BY <2>1, <2>2, <2>3
<1>3. CASE i > Len(s)
  <2>1. i - Len(s) \in 1..n /\ Len(s) + (i - Len(s)) = i
    BY <1>1, <1>3
  <2>2. u[i] = <<t, i - Len(s) - 1, n>>
    BY <2>1, <1>1 DEF n
  <2>3. i = Len(s) + 1 /\ u[i][3] = n /\ u[i][1] = t
    BY <2>1, <2>2, <1>1
  <2>4. k + 1 \in 1..n /\ i + k = Len(s) + (k + 1) /\ (k + 1) - 1 = k
    BY <2>3, <1>1
  <2>5. u[i + k] = a[k + 1] /\ a[k + 1] = <<t, k, n>> /\ i + k \in DOMAIN u
    BY <2>4, <1>1 DEF n
  <2> QED BY <2>3, <2>5
<1> QED BY <1>1, <1>2, <1>3

LEMMA UnitLengths ==
  ASSUME NEW s \in Seq(AnswerUnit)
  PROVE  \A i \in DOMAIN s : s[i][3] \in Nat /\ s[i][1] \in 1..MaxTag
<1>1. \A i \in DOMAIN s : s[i] \in AnswerUnit
  OBVIOUS
<1>2. \A u \in AnswerUnit : u[3] \in Nat /\ u[1] \in 1..MaxTag
  BY DEF AnswerUnit
<1> QED BY <1>1, <1>2, Zenon

LEMMA ReplyUnitsType ==
  Tag \in 1..MaxTag /\ reply \in ReplyType =>
    /\ ReplyUnits \in Seq(AnswerUnit)
    /\ Len(ReplyUnits) = 1 + Len(reply.data) /\ Len(reply.data) \in Nat
    /\ \A i \in 1..Len(ReplyUnits) : ReplyUnits[i] = <<Tag, i - 1, Len(ReplyUnits)>>
<1> SUFFICES ASSUME Tag \in 1..MaxTag, reply \in ReplyType
             PROVE  /\ ReplyUnits \in Seq(AnswerUnit)
                    /\ Len(ReplyUnits) = 1 + Len(reply.data) /\ Len(reply.data) \in Nat
                    /\ \A i \in 1..Len(ReplyUnits) :
                         ReplyUnits[i] = <<Tag, i - 1, Len(ReplyUnits)>>
  OBVIOUS
<1>1. Len(reply.data) \in Nat
  BY DEF ReplyType
<1> DEFINE n == 1 + Len(reply.data)
<1>2. n \in Nat
  BY <1>1
<1>3. ReplyUnits = [i \in 1..n |-> <<Tag, i - 1, n>>]
  BY DEF ReplyUnits, Answers
<1> HIDE DEF n
<1>4. \A i \in 1..n : <<Tag, i - 1, n>> \in AnswerUnit
  BY <1>2, Bounds DEF AnswerUnit
<1>5. ReplyUnits \in Seq(AnswerUnit) /\ Len(ReplyUnits) = n
      /\ \A i \in 1..n : ReplyUnits[i] = <<Tag, i - 1, n>>
  BY <1>2, <1>3, <1>4
<1> QED BY <1>1, <1>5 DEF n


LEMMA AnsweringSame ==
  ASSUME Answering, UNCHANGED <<inbox, held, rpos>>, reply' \in ReplyType,
         pc = "reply" => UNCHANGED <<pc, buf, reply>>,
         pc # "reply" => pc' # "reply",
         clean' => clean
  PROVE  Answering'
<1>1. Unsent' = Unsent
  BY DEF Unsent, ReplyUnits, Tag
<1>2. Going' = Going
  BY <1>1 DEF Going
<1>3. clean' => AnswersIn(Going)'
  BY <1>2 DEF Answering, AnswersIn
<1>4. ReplyPos'
  <2>1. pc = "reply" => ReplyUnits' = ReplyUnits
    BY DEF ReplyUnits, Tag
  <2> QED BY <2>1 DEF Answering, ReplyPos
<1>5. AnswerType'
  BY DEF Answering, AnswerType
<1> QED BY <1>3, <1>4, <1>5 DEF Answering

LEMMA AnsweringHandled ==
  ASSUME Answering, Tag \in 1..MaxTag, pc # "reply", pc' = "reply",
         UNCHANGED <<inbox, held, rpos, buf, clean>>, reply' \in ReplyType
  PROVE  Answering'
<1> DEFINE a == inbox \o held
<1>1. a \in Seq(AnswerUnit) /\ Going = a
  <2>1. a \in Seq(AnswerUnit)
    BY ConcatProperties DEF Answering, AnswerType
  <2>2. Going = a \o <<>>
    BY DEF Going, Unsent
  <2> HIDE DEF a
  <2> QED BY <2>1, <2>2, ConcatEmptySeq
<1>2. Tag' = Tag
  BY DEF Tag
<1>3. /\ ReplyUnits' \in Seq(AnswerUnit) /\ Len(ReplyUnits') \in Nat /\ Len(ReplyUnits') > 0
      /\ \A i \in 1..Len(ReplyUnits') : ReplyUnits'[i] = <<Tag, i - 1, Len(ReplyUnits')>>
  <2>1. (Tag \in 1..MaxTag /\ reply \in ReplyType)' =>
          (/\ ReplyUnits \in Seq(AnswerUnit)
           /\ Len(ReplyUnits) = 1 + Len(reply.data) /\ Len(reply.data) \in Nat
           /\ \A i \in 1..Len(ReplyUnits) : ReplyUnits[i] = <<Tag, i - 1, Len(ReplyUnits)>>)'
    BY ReplyUnitsType, PTL
  <2> QED BY <2>1, <1>2
<1>4. rpos = 0 /\ rpos' = 0
  BY DEF Answering, ReplyPos
<1>5. Going' = a \o ReplyUnits'
  <2> DEFINE u == ReplyUnits'
  <2>1. Unsent' = SubSeq(u, 1, Len(u))
    BY <1>4 DEF Unsent
  <2>2. u \in Seq(AnswerUnit)
    BY <1>3
  <2> HIDE DEF u
  <2>3. SubSeq(u, 1, Len(u)) = u
    BY <2>2, SubSeqFull
  <2> QED BY <2>1, <2>3 DEF Going, u
<1>6. clean' => AnswersIn(Going)'
  <2> HAVE clean'
  <2> DEFINE u == ReplyUnits'
  <2>1. AnswersIn(a) /\ \A i \in DOMAIN a : a[i][3] \in Nat
    BY <1>1, UnitLengths, Zenon DEF Answering
  <2>2. u \in Seq(AnswerUnit) /\ \A i \in 1..Len(u) : u[i] = <<Tag, i - 1, Len(u)>>
    BY <1>3
  <2> HIDE DEF a, u
  <2>3. AnswersIn(a \o u)
    BY <2>1, <2>2, <1>1, AnswersAdd, Zenon
  <2>4. Going' = a \o u
    BY <1>5 DEF u
  <2> QED BY <2>3, <2>4 DEF AnswersIn
<1>7. ReplyPos'
  BY <1>3, <1>4 DEF ReplyPos
<1>8. AnswerType'
  BY DEF Answering, AnswerType
<1> QED BY <1>6, <1>7, <1>8 DEF Answering

LEMMA AnsweringNew ==
  ASSUME NewSession, rpos' = 0, reply' \in ReplyType
  PROVE  Answering'
<1>1. <<>> \in Seq(AnswerUnit) /\ Len(<<>>) = 0 /\ DOMAIN <<>> = {}
  BY EmptySeq
<1>2. Going' = <<>>
  BY <1>1, ConcatEmptySeq, Zenon DEF Going, Unsent, NewSession
<1>3. AnswersIn(Going)'
  BY <1>1, <1>2 DEF AnswersIn
<1> QED BY <1>1, <1>3 DEF Answering, AnswerType, ReplyPos, NewSession

(* When the streams have run dry the session is as good as a new one.       *)
LEMMA AnsweringAsk ==
  ASSUME Answering, Ask
  PROVE  Answering'
<1>1. UNCHANGED <<inbox, held, rpos, reply, pc, buf>>
  BY DEF Ask, back
<1>2. reply' \in ReplyType
  BY <1>1 DEF Answering, AnswerType
<1>3. CASE clean' => clean
  BY <1>1, <1>2, <1>3, AnsweringSame
<1>4. CASE Quiet
  <2>1. <<>> \in Seq(AnswerUnit) /\ DOMAIN <<>> = {}
    BY EmptySeq
  <2>2. Going' = <<>>
    BY <1>1, <1>4, <2>1, ConcatEmptySeq, Zenon DEF Going, Unsent, Quiet
  <2>3. AnswersIn(Going)'
    BY <2>1, <2>2 DEF AnswersIn
  <2> QED BY <1>1, <1>2, <1>4, <2>1, <2>3 DEF Answering, AnswerType, ReplyPos, Quiet
<1> QED BY <1>3, <1>4, Zenon DEF Ask

LEMMA AnsweringInit == Init => Answering
<1> SUFFICES ASSUME Init PROVE Answering
  OBVIOUS
<1>1. <<>> \in Seq(AnswerUnit) /\ <<>> \in Seq(Nat) /\ Len(<<>>) = 0 /\ DOMAIN <<>> = {}
  BY EmptySeq
<1>2. Going = <<>>
  BY <1>1, ConcatEmptySeq, Zenon DEF Going, Unsent, Init
<1>3. AnswersIn(Going)
  BY <1>1, <1>2 DEF AnswersIn
<1>4. reply \in ReplyType
  BY <1>1 DEF Init, NoReply, ReplyType
<1> QED BY <1>1, <1>3, <1>4 DEF Answering, AnswerType, ReplyPos, Init

(* Whether the phone hands them on or holds them, units come after those    *)
(* before them.                                                             *)
LEMMA ArrivesAfter ==
  ASSUME NEW S, inbox \in Seq(S), held \in Seq(S), NEW units \in Seq(S), NEW end \in BOOLEAN,
         Arrives(units, end)
  PROVE  /\ inbox' \in Seq(S) /\ held' \in Seq(S)
         /\ inbox' \o held' = (inbox \o held) \o units
<1>1. inbox \o held \in Seq(S) /\ held \o units \in Seq(S) /\ <<>> \in Seq(S)
  BY ConcatProperties, EmptySeq
<1> DEFINE a == inbox \o held
<1>2. CASE end
  <2>1. inbox' = a \o units /\ held' = <<>>
    BY <1>2 DEF Arrives
  <2> HIDE DEF a
  <2>2. a \in Seq(S)
    BY <1>1 DEF a
  <2>3. a \o units \in Seq(S)
    BY <2>2, ConcatProperties
  <2>4. (a \o units) \o <<>> = a \o units
    BY <2>3, ConcatEmptySeq
  <2> QED BY <2>1, <2>3, <2>4, <1>1 DEF a
<1>3. CASE ~end
  <2>1. inbox' = inbox /\ held' = held \o units
    BY <1>3 DEF Arrives
  <2>2. Regroups(inbox, held, units)
    BY Regroup
  <2> QED BY <2>1, <2>2, <1>1 DEF Regroups
<1> QED BY <1>2, <1>3

(* A transfer is a part of what is left.                                    *)
LEMMA Transferred ==
  ASSUME Answering, Tag \in 1..MaxTag, pc = "reply"
  PROVE  /\ ReplyUnits \in Seq(AnswerUnit) /\ Len(ReplyUnits) \in Nat
         /\ rpos \in Nat /\ Transfer \in Nat /\ rpos + Transfer <= Len(ReplyUnits)
<1>1. ReplyUnits \in Seq(AnswerUnit) /\ Len(ReplyUnits) \in Nat
  BY ReplyUnitsType DEF Answering, AnswerType
<1>2. rpos \in Nat /\ rpos < Len(ReplyUnits)
  BY DEF Answering, ReplyPos
<1> DEFINE free == Len(ReplyUnits) - rpos
<1>3. free \in Nat \ {0} /\ rpos + free = Len(ReplyUnits)
  BY <1>1, <1>2
<1>4. Transfer = free - 1 \/ Transfer = free
  BY Zenon DEF Transfer
<1> DEFINE t == Transfer
           l == Len(ReplyUnits)
<1>5. t = free - 1 \/ t = free
  BY <1>4
<1> HIDE DEF t, l
<1>6. rpos \in Nat /\ l \in Nat /\ l - rpos \in Nat \ {0} /\ (t = (l - rpos) - 1 \/ t = l - rpos)
  BY <1>1, <1>2, <1>3, <1>5 DEF l
<1>7. t \in Nat /\ rpos + t <= l
  BY <1>6
<1> QED BY <1>1, <1>2, <1>7 DEF t, l

LEMMA UnsentType ==
  ASSUME Answering, pc = "reply" => Tag \in 1..MaxTag
  PROVE  Unsent \in Seq(AnswerUnit)
<1>1. CASE pc = "reply"
  <2>1. /\ ReplyUnits \in Seq(AnswerUnit) /\ Len(ReplyUnits) \in Nat
        /\ rpos \in Nat /\ rpos < Len(ReplyUnits)
    BY <1>1, ReplyUnitsType DEF Answering, AnswerType, ReplyPos
  <2> DEFINE u == ReplyUnits
  <2> HIDE DEF u
  <2>2. u \in Seq(AnswerUnit) /\ rpos \in 0..Len(u)
    BY <2>1 DEF u
  <2>3. SubSeq(u, rpos + 1, Len(u)) \in Seq(AnswerUnit)
    BY <2>2, Cut
  <2> QED BY <2>3, <1>1 DEF Unsent, u
<1>2. CASE pc # "reply"
  BY <1>2, EmptySeq DEF Unsent
<1> QED BY <1>1, <1>2

LEMMA PartType ==
  ASSUME NEW S, NEW s \in Seq(S), NEW m \in Nat, NEW n \in Nat, m + n <= Len(s)
  PROVE  /\ SubSeq(s, m + 1, m + n) \in Seq(S)
         /\ SubSeq(s, m + 1, m + n) \o SubSeq(s, m + n + 1, Len(s)) = SubSeq(s, m + 1, Len(s))
<1>1. /\ Len(s) \in Nat /\ m + 1 \in 1..Len(s) + 1
      /\ m + n \in (m + 1) - 1..Len(s) /\ Len(s) \in m + n..Len(s)
  OBVIOUS
<1>2. SubSeq(s, m + 1, m + n) \in Seq(S)
  BY <1>1
<1> DEFINE a == m + 1
           b == m + n
           c == Len(s)
<1>3. a \in 1..Len(s) + 1 /\ b \in a - 1..Len(s) /\ c \in b..Len(s)
  BY <1>1
<1> HIDE DEF a, b, c
<1>4. SubSeq(s, a, b) \o SubSeq(s, b + 1, c) = SubSeq(s, a, c)
  BY <1>3, ConcatAdjacentSubSeq
<1> QED BY <1>2, <1>4 DEF a, b, c

LEMMA AnsweringTaken ==
  ASSUME Answering, pc = "reply" => Tag \in 1..MaxTag, TakeAnswer
  PROVE  Answering'
<1>1. /\ inbox \in Seq(AnswerUnit) /\ held \in Seq(AnswerUnit) /\ Len(inbox) \in Nat
      /\ inbox # <<>>
  BY DEF Answering, AnswerType, TakeAnswer
<1>2. PICK k \in 0..Len(inbox) : inbox' = SubSeq(inbox, k + 1, Len(inbox))
  <2>1. CASE /\ IsHeader(inbox[1]) /\ Len(inbox) >= inbox[1][3]
             /\ inbox' = SubSeq(inbox, inbox[1][3] + 1, Len(inbox))
    <3>1. 1 \in DOMAIN inbox
      BY <1>1
    <3>2. inbox[1][3] \in Nat
      BY <1>1, <3>1, UnitLengths
    <3> DEFINE n == inbox[1][3]
    <3>3. n \in Nat /\ Len(inbox) >= n /\ inbox' = SubSeq(inbox, n + 1, Len(inbox))
      BY <2>1, <3>2
    <3> HIDE DEF n
    <3>4. n \in 0..Len(inbox)
      BY <3>3, <1>1
    <3> QED BY <3>3, <3>4
  <2>2. CASE inbox' = Tail(inbox)
    <3>1. 1 \in 0..Len(inbox)
      BY <1>1
    <3>2. Tail(inbox) = SubSeq(inbox, 1 + 1, Len(inbox))
      BY <1>1
    <3> QED BY <2>2, <3>1, <3>2, Zenon
  <2> QED BY <2>1, <2>2, Zenon DEF TakeAnswer
<1> DEFINE d == SubSeq(inbox, 1, k)
           rest == SubSeq(inbox, k + 1, Len(inbox))
<1>3. /\ d \in Seq(AnswerUnit) /\ rest \in Seq(AnswerUnit) /\ d \o rest = inbox
  BY <1>1, Cut
<1>4. inbox' = rest
  BY <1>2
<1> HIDE DEF d, rest
<1>5. Unsent' = Unsent
  BY DEF Unsent, ReplyUnits, Tag, TakeAnswer
<1>6. ReplyPos'
  <2>1. ReplyUnits' = ReplyUnits
    BY DEF ReplyUnits, Tag, TakeAnswer
  <2> QED BY <2>1 DEF Answering, ReplyPos, TakeAnswer
<1>7. AnswerType'
  BY <1>3, <1>4 DEF Answering, AnswerType, TakeAnswer
<1>8. clean' => AnswersIn(Going)'
  <2> HAVE clean'
  <2> DEFINE u == Unsent
  <2>1. d \in Seq(AnswerUnit) /\ rest \in Seq(AnswerUnit) /\ held \in Seq(AnswerUnit) /\ u \in Seq(AnswerUnit)
    BY <1>1, <1>3, UnsentType
  <2>2. Going = ((d \o rest) \o held) \o u /\ Going' = (rest \o held) \o u
    BY <1>3, <1>4, <1>5 DEF Going, TakeAnswer
  <2> HIDE DEF u
  <2>3. (d \o rest) \o held = d \o (rest \o held)
    <3>1. d \in Seq(AnswerUnit) /\ rest \in Seq(AnswerUnit) /\ held \in Seq(AnswerUnit)
      BY <2>1
    <3>2. Regroups(d, rest, held)
      BY <3>1, Regroup
    <3> QED BY <3>2 DEF Regroups
  <2> DEFINE b == rest \o held
  <2>4. b \in Seq(AnswerUnit)
    BY <2>1, ConcatProperties
  <2>5. Going = (d \o b) \o u /\ Going' = b \o u
    BY <2>2, <2>3
  <2> HIDE DEF b
  <2>6. (d \o b) \o u = d \o (b \o u)
    <3>1. d \in Seq(AnswerUnit) /\ b \in Seq(AnswerUnit) /\ u \in Seq(AnswerUnit)
      BY <2>1, <2>4
    <3>2. Regroups(d, b, u)
      BY <3>1, Regroup
    <3> QED BY <3>2 DEF Regroups
  <2>7. b \o u \in Seq(AnswerUnit)
    BY <2>1, <2>4, ConcatProperties
  <2>8. \A i \in DOMAIN (b \o u) : (b \o u)[i][3] \in Nat
    BY <2>7, UnitLengths, Zenon
  <2>9. AnswersIn(d \o (b \o u))
    BY <2>5, <2>6 DEF Answering, TakeAnswer, hist
  <2>10. AnswersIn(b \o u)
    BY <2>1, <2>7, <2>8, <2>9, AnswersDrop, Zenon
  <2> QED BY <2>5, <2>10 DEF AnswersIn
<1> QED BY <1>6, <1>7, <1>8 DEF Answering

LEMMA AnsweringReply ==
  ASSUME Answering, pc = "reply" => Tag \in 1..MaxTag, Reply
  PROVE  Answering'
<1> DEFINE u == ReplyUnits
           n == Transfer
<1>1. /\ pc = "reply" /\ Tag \in 1..MaxTag
      /\ inbox \in Seq(AnswerUnit) /\ held \in Seq(AnswerUnit) /\ reply \in ReplyType
  BY DEF Answering, AnswerType, Reply
<1>2. u \in Seq(AnswerUnit) /\ Len(u) \in Nat /\ rpos \in Nat /\ n \in Nat /\ rpos + n <= Len(u)
  BY <1>1, Transferred
<1>3. \E end \in BOOLEAN : Arrives(SubSeq(u, rpos + 1, rpos + n), end)
  <2> DEFINE e == n % UsbPacket # 0
  <2>1. e \in BOOLEAN
    OBVIOUS
  <2>2. Arrives(SubSeq(u, rpos + 1, rpos + n), e)
    BY Zenon DEF Reply, Part
  <2> QED BY <2>1, <2>2, Zenon
<1>4. \/ rpos + n = Len(u) /\ pc' = "recv" /\ rpos' = 0 /\ reply' = NoReply
      \/ rpos + n # Len(u) /\ rpos' = rpos + n /\ UNCHANGED <<pc, buf, reply>>
  BY Zenon DEF Reply, Forget
<1>5. clean' = clean
  BY DEF Reply
<1>6. Going = (inbox \o held) \o SubSeq(u, rpos + 1, Len(u))
  BY <1>1 DEF Going, Unsent
<1>7. ReplyUnits' = u \/ pc' = "recv"
  BY <1>4 DEF ReplyUnits, Tag
<1> HIDE DEF u, n
<1> DEFINE part == SubSeq(u, rpos + 1, rpos + n)
           rest == SubSeq(u, rpos + n + 1, Len(u))
<1>8. part \in Seq(AnswerUnit) /\ part \o rest = SubSeq(u, rpos + 1, Len(u))
  BY <1>2, PartType
<1>9. rest \in Seq(AnswerUnit)
  <2>1. rpos + n \in 0..Len(u)
    BY <1>2
  <2> QED BY <1>2, <2>1, Cut
<1>10. /\ inbox' \in Seq(AnswerUnit) /\ held' \in Seq(AnswerUnit)
       /\ inbox' \o held' = (inbox \o held) \o part
  <2>1. PICK end \in BOOLEAN : Arrives(part, end)
    BY <1>3
  <2> HIDE DEF part
  <2> QED BY <1>1, <1>8, <2>1, ArrivesAfter, Zenon
<1>11. Unsent' = rest
  <2>1. CASE rpos + n = Len(u) /\ pc' = "recv"
    <3>1. rest = <<>>
      <4>1. rest = SubSeq(u, Len(u) + 1, Len(u))
        BY <2>1
      <4> QED BY <4>1, <1>2
    <3> QED BY <2>1, <3>1 DEF Unsent
  <2>2. CASE rpos + n # Len(u) /\ rpos' = rpos + n /\ UNCHANGED <<pc, buf, reply>>
    <3>1. ReplyUnits' = u /\ pc' = "reply"
      BY <2>2, <1>1, <1>7
    <3> QED BY <2>2, <3>1 DEF Unsent
  <2> QED BY <1>4, <2>1, <2>2
<1>12. Going' = Going
  <2> DEFINE a == inbox \o held
  <2>1. a \in Seq(AnswerUnit)
    BY <1>1, ConcatProperties
  <2>2. Going' = (a \o part) \o rest /\ Going = a \o (part \o rest)
    BY <1>6, <1>8, <1>10, <1>11 DEF Going
  <2>3. part \in Seq(AnswerUnit)
    BY <1>8
  <2> HIDE DEF a, part, rest
  <2>4. (a \o part) \o rest = a \o (part \o rest)
    <3>1. a \in Seq(AnswerUnit) /\ part \in Seq(AnswerUnit) /\ rest \in Seq(AnswerUnit)
      BY <2>1, <2>3, <1>9
    <3>2. Regroups(a, part, rest)
      BY <3>1, Regroup
    <3> QED BY <3>2 DEF Regroups
  <2> QED BY <2>2, <2>4
<1>13. clean' => AnswersIn(Going)'
  BY <1>5, <1>12 DEF Answering, AnswersIn
<1>14. AnswerType'
  <2>1. NoReply \in ReplyType
    BY EmptySeq DEF NoReply, ReplyType
  <2>2. reply' \in ReplyType
    BY <2>1, <1>1, <1>4
  <2> QED BY <2>2, <1>10 DEF AnswerType
<1>15. ReplyPos'
  <2>1. CASE rpos + n = Len(u) /\ pc' = "recv" /\ rpos' = 0
    BY <2>1 DEF ReplyPos
  <2>2. CASE rpos + n # Len(u) /\ rpos' = rpos + n /\ UNCHANGED <<pc, buf, reply>>
    <3>1. ReplyUnits' = u /\ pc' = "reply"
      BY <2>2, <1>1, <1>7
    <3>2. rpos + n \in Nat /\ rpos + n < Len(u)
      BY <2>2, <1>2
    <3> QED BY <2>2, <3>1, <3>2 DEF ReplyPos
  <2> QED BY <1>4, <2>1, <2>2
<1> QED BY <1>13, <1>14, <1>15 DEF Answering

LEMMA AnsweringTimeout ==
  ASSUME Answering, pc = "reply" => Tag \in 1..MaxTag, ReplyTimeout
  PROVE  Answering'
<1>1. /\ pc = "reply" /\ Tag \in 1..MaxTag
      /\ inbox \in Seq(AnswerUnit) /\ held \in Seq(AnswerUnit)
      /\ pc' = "recv" /\ ~clean' /\ rpos' = 0 /\ reply' = NoReply
  BY DEF Answering, AnswerType, ReplyTimeout, Forget
<1>2. PICK n \in 0..Transfer : Arrives(Part(n), FALSE)
  BY Zenon DEF ReplyTimeout
<1> DEFINE u == ReplyUnits
<1>3. u \in Seq(AnswerUnit) /\ rpos \in Nat /\ n \in Nat /\ rpos + n <= Len(u)
  <2>1. u \in Seq(AnswerUnit) /\ Len(u) \in Nat /\ rpos \in Nat /\ Transfer \in Nat
        /\ rpos + Transfer <= Len(u)
    BY <1>1, Transferred
  <2> HIDE DEF u
  <2>2. n \in Nat /\ n <= Transfer
    BY <2>1
  <2> QED BY <2>1, <2>2
<1>4. Part(n) = SubSeq(u, rpos + 1, rpos + n)
  BY DEF Part
<1> HIDE DEF u
<1>5. Part(n) \in Seq(AnswerUnit)
  BY <1>3, <1>4, PartType
<1>6. inbox' \in Seq(AnswerUnit) /\ held' \in Seq(AnswerUnit)
  BY <1>1, <1>2, <1>5, ArrivesAfter, Zenon
<1>7. NoReply \in ReplyType
  BY EmptySeq DEF NoReply, ReplyType
<1> QED BY <1>1, <1>6, <1>7 DEF Answering, AnswerType, ReplyPos

-----------------------------------------------------------------------------
(* The handlers that answer at once.                                        *)

(* What each of them does.                                                  *)
Handled ==
  /\ Complete /\ pc' = "reply" /\ reply' \in ReplyType
  /\ UNCHANGED <<stream, buf, wpos, rpos, present, readonly, unplugs, clean>>
  /\ before' = fs /\ steady' = TRUE
  /\ fs' \in [Paths -> Content] /\ stored' \in [Paths -> Content]
  /\ ~present => fs' = fs
  /\ Synced'
  /\ reply'.ok => Done(Request)'
  /\ reply'.ok /\ Request.op \in {"READ", "WRITE", "CREATE", "MOVE"} => present

LEMMA SyncedSame ==
  ASSUME Synced, UNCHANGED <<promised, stored, fs, present>>
  PROVE  Synced'
BY DEF Synced

LEMMA SyncedChanged ==
  ASSUME Synced, NEW ps, Changed(ps), UNCHANGED <<stored, present>>,
         \A p \in Paths \ ps : fs'[p] = fs[p]
  PROVE  Synced'
<1> SUFFICES ASSUME NEW p \in Paths, promised'[p] # Unsure
             PROVE  stored'[p] = promised'[p] /\ (present' => fs'[p] = promised'[p])
  BY DEF Synced
<1>1. p \notin ps /\ promised'[p] = promised[p]
  BY DEF Changed
<1> QED BY <1>1 DEF Synced

LEMMA Contents ==
  /\ None \in Content /\ Dir \in Content /\ Dir # None
  /\ \A d \in Seq(Nat) : File(d) \in Content /\ File(d) # None
<1>1. <<>> \in Seq(Nat)
  BY EmptySeq
<1>2. None \in Content /\ Dir \in Content /\ \A d \in Seq(Nat) : File(d) \in Content
  BY <1>1 DEF None, Dir, File, Content
<1>3. None.kind = "none" /\ Dir.kind = "dir" /\ \A d : File(d).kind = "file"
  BY DEF None, Dir, File
<1> QED BY <1>2, <1>3

LEMMA AnswerOf ==
  ASSUME NEW ok \in BOOLEAN, NEW data \in Seq(Nat), Answer(ok, data)
  PROVE  pc' = "reply" /\ reply' \in ReplyType /\ reply'.ok = ok /\ reply'.data = data
<1>1. pc' = "reply" /\ reply' = [ok |-> ok, data |-> data]
  BY Zenon DEF Answer
<1>2. [ok |-> ok, data |-> data] \in ReplyType
  BY Zenon DEF ReplyType
<1> QED BY <1>1, <1>2

(* A handler that finishes has what is the same for all of them.            *)
LEMMA Finishing ==
  ASSUME NEW op, Start(op), NEW ok \in BOOLEAN, NEW data \in Seq(Nat), Finish(ok, data)
  PROVE  /\ Complete /\ Request.op = op /\ pc' = "reply" /\ reply' \in ReplyType
         /\ reply'.ok = ok /\ reply'.data = data
         /\ UNCHANGED <<stream, buf, wpos, rpos, stored, present, readonly, unplugs, clean>>
         /\ before' = fs /\ steady' = TRUE
         /\ Request' = Request
<1>1. Answer(ok, data)
  BY DEF Finish
<1>2. pc' = "reply" /\ reply' \in ReplyType /\ reply'.ok = ok /\ reply'.data = data
  BY <1>1, AnswerOf, Zenon
<1>3. UNCHANGED <<stream, buf, wpos, rpos, stored, present, readonly, unplugs, clean>>
  BY Zenon DEF Finish
<1>4. Complete /\ Request.op = op /\ before' = fs /\ steady' = TRUE
  BY Zenon DEF Start
<1>5. Request' = Request
  BY <1>3 DEF Request, Tag, stream
<1> QED BY <1>2, <1>3, <1>4, <1>5

(* One that does nothing and says so, or is asked nothing about files.      *)
LEMMA FinishingIdle ==
  ASSUME DiskType, Synced, NEW op, Start(op), NEW ok \in BOOLEAN, NEW data \in Seq(Nat),
         Finish(ok, data), UNCHANGED <<fs, promised>>,
         ok => op \notin {"READ", "WRITE", "CREATE", "MOVE"}
  PROVE  Handled
<1>1. /\ Complete /\ Request.op = op /\ pc' = "reply" /\ reply' \in ReplyType
      /\ reply'.ok = ok
      /\ UNCHANGED <<stream, buf, wpos, rpos, stored, present, readonly, unplugs, clean>>
      /\ before' = fs /\ steady' = TRUE
      /\ Request' = Request
  BY Finishing, Zenon
<1>2. Synced'
  BY <1>1, SyncedSame
<1>3. reply'.ok => Done(Request)'
  BY <1>1 DEF Done
<1> QED BY <1>1, <1>2, <1>3 DEF Handled, DiskType

LEMMA PathOf ==
  ASSUME Arriving, Complete
  PROVE  /\ Request \in Requests
         /\ Request.op \in {"READ", "WRITE", "CREATE", "DELETE", "MOVE"} => Request.path \in Paths
<1>1. Request \in Requests
  BY TagKnown DEF Complete
<1> QED BY <1>1, Fields

(* A part of a sequence, by where it starts and how long it is.             *)
Slice(s, m, n) ==
  /\ SubSeq(s, m + 1, m + n) \in Seq(Nat) /\ Len(SubSeq(s, m + 1, m + n)) = n
  /\ \A i \in 1..n : SubSeq(s, m + 1, m + n)[i] = s[m + i]

LEMMA SliceAt ==
  ASSUME NEW s \in Seq(Nat), NEW m \in Nat, NEW n \in Nat, m + n <= Len(s)
  PROVE  Slice(s, m, n)
<1> DEFINE a == m + 1
           b == m + n
           t == SubSeq(s, a, b)
<1>1. Len(s) \in Nat /\ a \in Nat /\ b \in Nat /\ a >= 1 /\ b <= Len(s) /\ b >= a - 1
      /\ b - a + 1 = n
  OBVIOUS
<1>2. \A i \in 1..n : a + i - 1 = m + i
  OBVIOUS
<1> HIDE DEF a, b
<1>3. t \in Seq(Nat) /\ Len(t) = b - a + 1 /\ \A i \in 1..(b - a + 1) : t[i] = s[a + i - 1]
  BY <1>1
<1> HIDE DEF t
<1>4. t \in Seq(Nat) /\ Len(t) = n /\ \A i \in 1..n : t[i] = s[m + i]
  BY <1>1, <1>2, <1>3
<1> QED BY <1>4 DEF t, a, b, Slice

LEMMA ReadPart ==
  ASSUME NEW s \in Seq(Nat), NEW o \in Nat, NEW z \in Nat
  PROVE  LET d == SubSeq(s, o + 1, Least(o + z, Len(s)))
         IN /\ d \in Seq(Nat)
            /\ \A i \in 1..z : IF o + i <= Len(s) THEN i <= Len(d) /\ d[i] = s[o + i]
                               ELSE i > Len(d)
<1> DEFINE m == Least(o + z, Len(s))
           d == SubSeq(s, o + 1, m)
<1>1. /\ Len(s) \in Nat /\ m \in Nat /\ m <= Len(s) /\ m <= o + z
      /\ m = Len(s) \/ m = o + z
  BY DEF Least
<1> HIDE DEF m
<1>2. \A i \in (o + 1)..m : s[i] \in Nat
  BY <1>1
<1>3. /\ d \in Seq(Nat) /\ Len(d) = IF o + 1 <= m THEN m - o ELSE 0
      /\ \A i \in 1..m - o : d[i] = s[o + i]
  <2>1. CASE o + 1 <= m
    <3> DEFINE k == m - o
    <3>1. k \in Nat /\ o + k = m /\ o + k <= Len(s)
      BY <2>1, <1>1
    <3> HIDE DEF k
    <3>2. Slice(s, o, k)
      BY <3>1, SliceAt
    <3>3. /\ d \in Seq(Nat) /\ Len(d) = k
          /\ \A i \in 1..k : d[i] = s[o + i]
      BY <3>1, <3>2 DEF Slice, d
    <3> QED BY <2>1, <3>3 DEF k
  <2>2. CASE ~(o + 1 <= m)
    <3>1. m - o <= 0 /\ o + 1 > m
      BY <2>2, <1>1
    <3>2. d = <<>>
      <4>1. o + 1 \in Int /\ m \in Int
        BY <1>1
      <4> QED BY <4>1, <3>1, SubSeqEmpty
    <3>3. 1..m - o = {}
      BY <3>1, <1>1
    <3> HIDE DEF d
    <3>4. d \in Seq(Nat) /\ Len(d) = 0
      BY <3>2
    <3>5. \A i \in 1..m - o : d[i] = s[o + i]
      BY <3>3
    <3> QED BY <2>2, <3>4, <3>5
  <2> QED BY <2>1, <2>2
<1> HIDE DEF d
<1>4. ASSUME NEW i \in 1..z
      PROVE  IF o + i <= Len(s) THEN i <= Len(d) /\ d[i] = s[o + i] ELSE i > Len(d)
  <2>1. CASE o + i <= Len(s)
    <3>1. i \in 1..m - o /\ o + 1 <= m /\ i <= m - o
      BY <2>1, <1>1
    <3>2. Len(d) = m - o
      BY <3>1, <1>3
    <3>3. d[i] = s[o + i]
      BY <3>1, <1>3
    <3> QED BY <2>1, <3>1, <3>2, <3>3
  <2>2. CASE o + i > Len(s)
    <3>1. i > m - o /\ i > 0
      BY <2>2, <1>1
    <3> QED BY <2>2, <3>1, <1>3, <1>1
  <2> QED BY <2>1, <2>2, <1>1
<1> QED BY <1>3, <1>4 DEF d, m

LEMMA ReadHandled ==
  ASSUME Arriving, DiskType, Synced, Read
  PROVE  Handled
<1> DEFINE f == fs[Request.path]
           d == SubSeq(f.data, Request.offset + 1,
                       Least(Request.offset + Request.size, Len(f.data)))
<1>1. Start("READ") /\ UNCHANGED <<fs, promised>>
  BY Zenon DEF Read
<1>2. /\ Complete /\ Request.op = "READ"
  BY <1>1 DEF Start
<1>3. Request \in Requests /\ Request.path \in Paths
  BY <1>2, PathOf
<1>4. Request.offset \in Nat /\ Request.size \in Nat
  BY <1>2, <1>3, Fields
<1>5. f \in Content /\ f.data \in Seq(Nat)
  <2>1. f \in Content
    BY <1>3 DEF DiskType
  <2>2. \A c \in Content : c.data \in Seq(Nat)
    BY DEF Content
  <2> QED BY <2>1, <2>2
<1>6. /\ d \in Seq(Nat)
      /\ \A i \in 1..Request.size :
           IF Request.offset + i <= Len(f.data)
           THEN i <= Len(d) /\ d[i] = f.data[Request.offset + i] ELSE i > Len(d)
  BY <1>4, <1>5, ReadPart
<1>7. CASE f.kind = "file" /\ Finish(TRUE, d)
  <2>1. /\ Complete /\ Request.op = "READ" /\ pc' = "reply" /\ reply' \in ReplyType
        /\ reply'.ok = TRUE /\ reply'.data = d
        /\ UNCHANGED <<stream, buf, wpos, rpos, stored, present, readonly, unplugs, clean>>
        /\ before' = fs /\ steady' = TRUE
        /\ Request' = Request
    <3> HIDE DEF d
    <3> QED BY <1>1, <1>6, <1>7, Finishing, Zenon
  <2>2. present
    <3>1. f # None
      BY <1>7 DEF None
    <3> QED BY <3>1, <1>3 DEF DiskType, Nothing
  <2>3. Synced'
    BY <1>1, <2>1, SyncedSame
  <2>4. fs'[Request'.path] = f /\ Request'.op = "READ"
    BY <1>1, <2>1
  <2> HIDE DEF f, d
  <2>5. Done(Request)'
    BY <2>1, <2>4, <1>6 DEF Done
  <2> QED BY <2>1, <2>2, <2>3, <2>5, <1>1 DEF Handled, DiskType
<1>8. CASE Finish(FALSE, <<>>)
  <2>1. <<>> \in Seq(Nat)
    BY EmptySeq
  <2> QED BY <2>1, <1>1, <1>8, FinishingIdle, Zenon
<1> QED BY <1>7, <1>8, Zenon DEF Read

(* One that changes the file system, which is there.                        *)
LEMMA FinishingChange ==
  ASSUME DiskType, Synced, present, NEW op, Start(op), NEW ok \in BOOLEAN, Finish(ok, <<>>),
         NEW ps, Changed(ps), fs' \in [Paths -> Content],
         \A p \in Paths \ ps : fs'[p] = fs[p],
         ok => Done(Request)'
  PROVE  Handled
<1>1. <<>> \in Seq(Nat)
  BY EmptySeq
<1>2. /\ Complete /\ Request.op = op /\ pc' = "reply" /\ reply' \in ReplyType
      /\ reply'.ok = ok
      /\ UNCHANGED <<stream, buf, wpos, rpos, stored, present, readonly, unplugs, clean>>
      /\ before' = fs /\ steady' = TRUE
  BY <1>1, Finishing, Zenon
<1>3. Synced'
  BY <1>2, SyncedChanged
<1>4. reply'.ok => Done(Request)'
  BY <1>2
<1> QED BY <1>2, <1>3, <1>4 DEF Handled, DiskType

LEMMA CreateHandled ==
  ASSUME Arriving, DiskType, Synced, Create
  PROVE  Handled
<1> DEFINE p == Request.path
           c == IF Request.dir THEN Dir ELSE File(<<>>)
           made == [fs EXCEPT ![p] = c]
<1>1. Start("CREATE")
  BY Zenon DEF Create
<1>2. Complete /\ Request.op = "CREATE"
  BY <1>1 DEF Start
<1>3. p \in Paths
  BY <1>2, PathOf
<1>4. c \in Content /\ c # None
  <2>1. CASE Request.dir
    BY <2>1, Contents
  <2>2. CASE ~Request.dir
    BY <2>2, Contents, EmptySeq
  <2> QED BY <2>1, <2>2
<1>5. <<>> \in Seq(Nat)
  BY EmptySeq
<1>6. \/ \E ok \in BOOLEAN : /\ fs[p] = None /\ present /\ fs' = made /\ Changed({p})
                             /\ Finish(ok, <<>>)
      \/ fs[p] # None /\ UNCHANGED <<fs, promised>> /\ Finish(TRUE, <<>>)
      \/ UNCHANGED <<fs, promised>> /\ Finish(FALSE, <<>>)
  <2>1. TRUE \in BOOLEAN /\ FALSE \in BOOLEAN
    OBVIOUS
  <2> QED BY <2>1, Zenon DEF Create
<1> HIDE DEF c
<1>7. ASSUME NEW ok \in BOOLEAN, fs[p] = None, present, fs' = made, Changed({p}),
             Finish(ok, <<>>)
      PROVE  Handled
  <2>1. /\ fs' \in [Paths -> Content] /\ \A q \in Paths \ {p} : fs'[q] = fs[q]
        /\ fs'[p] = c
    BY <1>3, <1>4, <1>7 DEF DiskType
  <2>2. before' = fs /\ Request' = Request
    BY <1>1, <1>5, <1>7, Finishing, Zenon
  <2>3. ok => Done(Request)'
    BY <2>1, <2>2, <1>2, <1>4, <1>7 DEF Done
  <2> QED BY <1>1, <1>7, <2>1, <2>3, FinishingChange, Zenon
<1>8. CASE fs[p] # None /\ UNCHANGED <<fs, promised>> /\ Finish(TRUE, <<>>)
  <2>1. /\ Complete /\ pc' = "reply" /\ reply' \in ReplyType /\ reply'.ok = TRUE
        /\ UNCHANGED <<stream, buf, wpos, rpos, stored, present, readonly, unplugs, clean>>
        /\ before' = fs /\ steady' = TRUE /\ Request' = Request
    BY <1>1, <1>5, <1>8, Finishing, Zenon
  <2>2. present
    BY <1>3, <1>8 DEF DiskType, Nothing
  <2>3. Synced'
    BY <1>8, <2>1, SyncedSame
  <2>4. Done(Request)'
    BY <2>1, <1>2, <1>8 DEF Done
  <2> QED BY <2>1, <2>2, <2>3, <2>4, <1>8 DEF Handled, DiskType
<1>9. CASE UNCHANGED <<fs, promised>> /\ Finish(FALSE, <<>>)
  BY <1>1, <1>5, <1>9, FinishingIdle, Zenon
<1> QED BY <1>6, <1>7, <1>8, <1>9

LEMMA DeleteHandled ==
  ASSUME Arriving, DiskType, Synced, Delete
  PROVE  Handled
<1> DEFINE p == Request.path
<1>1. Start("DELETE")
  BY Zenon DEF Delete
<1>2. Complete /\ Request.op = "DELETE"
  BY <1>1 DEF Start
<1>3. p \in Paths
  BY <1>2, PathOf
<1>4. <<>> \in Seq(Nat) /\ TRUE \in BOOLEAN /\ FALSE \in BOOLEAN
  BY EmptySeq
<1>5. \/ present /\ fs' = [fs EXCEPT ![p] = None] /\ Changed({p}) /\ Finish(TRUE, <<>>)
      \/ \E ok \in BOOLEAN : UNCHANGED <<fs, promised>> /\ Finish(ok, <<>>)
  BY <1>4, Zenon DEF Delete
<1>6. CASE present /\ fs' = [fs EXCEPT ![p] = None] /\ Changed({p}) /\ Finish(TRUE, <<>>)
  <2>1. fs' \in [Paths -> Content] /\ \A q \in Paths \ {p} : fs'[q] = fs[q]
    BY <1>3, <1>6, Contents DEF DiskType
  <2>2. Request' = Request
    BY <1>1, <1>4, <1>6, Finishing, Zenon
  <2>3. Done(Request)'
    BY <2>2, <1>2 DEF Done
  <2> QED BY <1>1, <1>4, <1>6, <2>1, <2>3, FinishingChange, Zenon
<1>7. ASSUME NEW ok \in BOOLEAN, UNCHANGED <<fs, promised>> /\ Finish(ok, <<>>)
      PROVE  Handled
  <2>1. "DELETE" \notin {"READ", "WRITE", "CREATE", "MOVE"}
    OBVIOUS
  <2> QED BY <2>1, <1>1, <1>4, <1>7, FinishingIdle, Zenon
<1> QED BY <1>5, <1>6, <1>7

LEMMA MoveHandled ==
  ASSUME Arriving, DiskType, Synced, Move
  PROVE  Handled
<1> DEFINE from == Request.path
           to == Request.to
<1>1. Start("MOVE")
  BY Zenon DEF Move
<1>2. Complete /\ Request.op = "MOVE"
  BY <1>1 DEF Start
<1>3. from \in Paths /\ to \in Paths
  BY <1>2, PathOf, Fields
<1>4. <<>> \in Seq(Nat) /\ TRUE \in BOOLEAN /\ FALSE \in BOOLEAN
  BY EmptySeq
<1>5. \/ /\ present /\ fs' = [fs EXCEPT ![from] = None, ![to] = fs[from]]
         /\ Changed({from, to}) /\ Finish(TRUE, <<>>)
      \/ UNCHANGED <<fs, promised>> /\ Finish(FALSE, <<>>)
  BY Zenon DEF Move, Renames
<1>6. CASE /\ present /\ fs' = [fs EXCEPT ![from] = None, ![to] = fs[from]]
           /\ Changed({from, to}) /\ Finish(TRUE, <<>>)
  <2>1. fs[from] \in Content /\ None \in Content
    BY <1>3, Contents DEF DiskType
  <2>2. fs' \in [Paths -> Content] /\ \A q \in Paths \ {from, to} : fs'[q] = fs[q]
    BY <1>3, <1>6, <2>1 DEF DiskType
  <2>3. Request' = Request /\ before' = fs
    BY <1>1, <1>4, <1>6, Finishing, Zenon
  <2>4. Done(Request)'
    BY <2>3, <1>2, <1>6 DEF Done
  <2> QED BY <1>1, <1>4, <1>6, <2>2, <2>4, FinishingChange, Zenon
<1>7. CASE UNCHANGED <<fs, promised>> /\ Finish(FALSE, <<>>)
  BY <1>1, <1>4, <1>7, FinishingIdle, Zenon
<1> QED BY <1>5, <1>6, <1>7

LEMMA SyncHandled ==
  ASSUME Arriving, DiskType, Synced, Sync
  PROVE  Handled
<1>1. Start("SYNC_WRITE") /\ Answer(TRUE, <<>>)
  BY Zenon DEF Sync
<1>2. Complete /\ Request.op = "SYNC_WRITE" /\ before' = fs /\ steady' = TRUE
  BY <1>1 DEF Start
<1>3. <<>> \in Seq(Nat) /\ TRUE \in BOOLEAN
  BY EmptySeq
<1>4. pc' = "reply" /\ reply' \in ReplyType
  BY <1>1, <1>3, AnswerOf, Zenon
<1>5. UNCHANGED <<stream, buf, wpos, rpos, fs, present, readonly, unplugs, clean>>
  BY Zenon DEF Sync
<1>6. Request' = Request
  BY <1>5 DEF Request, Tag, stream
<1>7. Done(Request)'
  BY <1>6, <1>2 DEF Done
<1>8. \/ stored' = fs /\ promised' = fs
      \/ UNCHANGED <<stored, promised>>
  BY Zenon DEF Sync
<1>9. Synced'
  BY <1>5, <1>8 DEF Synced
<1>10. stored' \in [Paths -> Content]
  BY <1>8 DEF DiskType
<1> QED BY <1>2, <1>4, <1>5, <1>7, <1>9, <1>10 DEF Handled, DiskType

LEMMA OtherHandled ==
  ASSUME DiskType, Synced, Basic \/ FirmwareInfo \/ SyncTime
  PROVE  Handled
<1>1. <<>> \in Seq(Nat)
  BY EmptySeq
<1>2. PICK op \in {"MAGIC", "UNKNOWN", "FIRMWARE_INFO", "SYNC_TIME"}, ok \in BOOLEAN :
        Start(op) /\ Finish(ok, <<>>) /\ UNCHANGED <<fs, promised>>
  <2>1. CASE Basic
    <3>1. PICK op \in {"MAGIC", "UNKNOWN"} : Start(op) /\ Finish(op = "MAGIC", <<>>)
      BY <2>1, Zenon DEF Basic
    <3> DEFINE ok == op = "MAGIC"
    <3>2. ok \in BOOLEAN /\ op \in {"MAGIC", "UNKNOWN", "FIRMWARE_INFO", "SYNC_TIME"}
      OBVIOUS
    <3>3. Start(op) /\ Finish(ok, <<>>) /\ UNCHANGED <<fs, promised>>
      BY <2>1, <3>1, Zenon DEF Basic
    <3> HIDE DEF ok
    <3> QED BY <3>2, <3>3, Zenon
  <2>2. ASSUME NEW op \in {"FIRMWARE_INFO", "SYNC_TIME"}, System(op)
        PROVE  \E o \in {"MAGIC", "UNKNOWN", "FIRMWARE_INFO", "SYNC_TIME"}, ok \in BOOLEAN :
                 Start(o) /\ Finish(ok, <<>>) /\ UNCHANGED <<fs, promised>>
    <3>1. op \in {"MAGIC", "UNKNOWN", "FIRMWARE_INFO", "SYNC_TIME"}
      OBVIOUS
    <3> QED BY <2>2, <3>1, Zenon DEF System
  <2> QED BY <2>1, <2>2, Zenon DEF FirmwareInfo, SyncTime
<1>3. op \notin {"READ", "WRITE", "CREATE", "MOVE"}
  OBVIOUS
<1> QED BY <1>1, <1>2, <1>3, FinishingIdle, Zenon

-----------------------------------------------------------------------------
(* usDisk_diskWrite().                                                      *)

OverlayIs(s, o, d) ==
  /\ Overlay(s, o, d) \in Seq(Nat)
  /\ Len(Overlay(s, o, d)) = IF o + Len(d) > Len(s) THEN o + Len(d) ELSE Len(s)
  /\ \A i \in 1..Len(Overlay(s, o, d)) :
       Overlay(s, o, d)[i] = IF i > o /\ i <= o + Len(d) THEN d[i - o]
                             ELSE IF i <= Len(s) THEN s[i] ELSE 0

LEMMA OverlayAt ==
  ASSUME NEW s \in Seq(Nat), NEW o \in Nat, NEW d \in Seq(Nat)
  PROVE  OverlayIs(s, o, d)
<1> DEFINE len == IF o + Len(d) > Len(s) THEN o + Len(d) ELSE Len(s)
           unit(i) == IF i > o /\ i <= o + Len(d) THEN d[i - o]
                      ELSE IF i <= Len(s) THEN s[i] ELSE 0
<1>1. len \in Nat /\ Len(s) \in Nat /\ Len(d) \in Nat
  OBVIOUS
<1>2. Overlay(s, o, d) = [i \in 1..len |-> unit(i)]
  BY Zenon DEF Overlay
<1>3. \A i \in 1..len : unit(i) \in Nat
  OBVIOUS
<1> HIDE DEF unit, len
<1>4. Overlay(s, o, d) \in Seq(Nat) /\ Len(Overlay(s, o, d)) = len
      /\ \A i \in 1..len : Overlay(s, o, d)[i] = unit(i)
  BY <1>1, <1>2, <1>3
<1> QED BY <1>4, Zenon DEF unit, len, OverlayIs

(* Two writes, the second where the first ended, are one.                   *)
WrittenOn(s, o, d, w, n) ==
  Overlay(Overlay(s, o, SubSeq(d, 1, w)), o + w, SubSeq(d, w + 1, w + n))
    = Overlay(s, o, SubSeq(d, 1, w + n))

LEMMA OverlayTwice ==
  ASSUME NEW s \in Seq(Nat), NEW o \in Nat, NEW d \in Seq(Nat),
         NEW w \in Nat, NEW n \in Nat, n > 0, w + n <= Len(d)
  PROVE  WrittenOn(s, o, d, w, n)
<1> DEFINE a == SubSeq(d, 1, w)
           b == SubSeq(d, w + 1, w + n)
           c == SubSeq(d, 1, w + n)
<1>1. Len(s) \in Nat /\ Len(d) \in Nat /\ o + w \in Nat /\ w + n \in Nat
  OBVIOUS
<1>2. a \in Seq(Nat) /\ Len(a) = w /\ \A i \in 1..w : a[i] = d[i]
  <2>1. w \in 0..Len(d)
    BY <1>1
  <2> QED BY <2>1, Cut
<1>3. b \in Seq(Nat) /\ Len(b) = n /\ \A i \in 1..n : b[i] = d[w + i]
  <2>1. Slice(d, w, n)
    BY SliceAt
  <2> QED BY <2>1 DEF Slice
<1>4. c \in Seq(Nat) /\ Len(c) = w + n /\ \A i \in 1..w + n : c[i] = d[i]
  <2> DEFINE k == w + n
  <2>1. k \in 0..Len(d)
    BY <1>1
  <2> HIDE DEF k
  <2>2. /\ SubSeq(d, 1, k) \in Seq(Nat) /\ Len(SubSeq(d, 1, k)) = k
        /\ \A i \in 1..k : SubSeq(d, 1, k)[i] = d[i]
    BY <2>1, Cut
  <2> QED BY <2>2 DEF k
<1> HIDE DEF a, b, c
<1> DEFINE x == Overlay(s, o, a)
           y == Overlay(x, o + w, b)
           z == Overlay(s, o, c)
           inner == IF o + w > Len(s) THEN o + w ELSE Len(s)
           outer == IF o + (w + n) > Len(s) THEN o + (w + n) ELSE Len(s)
<1>5. /\ x \in Seq(Nat) /\ Len(x) = inner
      /\ \A i \in 1..inner : x[i] = IF i > o /\ i <= o + w THEN a[i - o]
                                    ELSE IF i <= Len(s) THEN s[i] ELSE 0
  <2>1. /\ x \in Seq(Nat)
        /\ Len(x) = IF o + Len(a) > Len(s) THEN o + Len(a) ELSE Len(s)
        /\ \A i \in 1..Len(x) : x[i] = IF i > o /\ i <= o + Len(a) THEN a[i - o]
                                       ELSE IF i <= Len(s) THEN s[i] ELSE 0
    <3>1. OverlayIs(s, o, a)
      BY <1>2, OverlayAt
    <3> QED BY <3>1 DEF OverlayIs
  <2> HIDE DEF x
  <2> QED BY <2>1, <1>2
<1> HIDE DEF x
<1>6. /\ z \in Seq(Nat) /\ Len(z) = outer
      /\ \A i \in 1..outer : z[i] = IF i > o /\ i <= o + (w + n) THEN c[i - o]
                                    ELSE IF i <= Len(s) THEN s[i] ELSE 0
  <2>1. /\ z \in Seq(Nat)
        /\ Len(z) = IF o + Len(c) > Len(s) THEN o + Len(c) ELSE Len(s)
        /\ \A i \in 1..Len(z) : z[i] = IF i > o /\ i <= o + Len(c) THEN c[i - o]
                                       ELSE IF i <= Len(s) THEN s[i] ELSE 0
    <3>1. OverlayIs(s, o, c)
      BY <1>4, OverlayAt
    <3> QED BY <3>1 DEF OverlayIs
  <2> HIDE DEF z
  <2> QED BY <2>1, <1>4
<1>7. /\ y \in Seq(Nat)
      /\ Len(y) = IF (o + w) + n > inner THEN (o + w) + n ELSE inner
      /\ \A i \in 1..Len(y) : y[i] = IF i > o + w /\ i <= (o + w) + n THEN b[i - (o + w)]
                                     ELSE IF i <= inner THEN x[i] ELSE 0
  <2>1. /\ y \in Seq(Nat)
        /\ Len(y) = IF (o + w) + Len(b) > Len(x) THEN (o + w) + Len(b) ELSE Len(x)
        /\ \A i \in 1..Len(y) :
             y[i] = IF i > o + w /\ i <= (o + w) + Len(b) THEN b[i - (o + w)]
                    ELSE IF i <= Len(x) THEN x[i] ELSE 0
    <3> DEFINE k == o + w
    <3>1. x \in Seq(Nat) /\ k \in Nat /\ b \in Seq(Nat)
      BY <1>1, <1>3, <1>5
    <3> HIDE DEF k
    <3>2. /\ Overlay(x, k, b) \in Seq(Nat)
          /\ Len(Overlay(x, k, b)) = IF k + Len(b) > Len(x) THEN k + Len(b) ELSE Len(x)
          /\ \A i \in 1..Len(Overlay(x, k, b)) :
               Overlay(x, k, b)[i] = IF i > k /\ i <= k + Len(b) THEN b[i - k]
                                     ELSE IF i <= Len(x) THEN x[i] ELSE 0
      <4>1. OverlayIs(x, k, b)
        BY <3>1, OverlayAt
      <4> QED BY <4>1 DEF OverlayIs
    <3> QED BY <3>2 DEF k
  <2> HIDE DEF y, inner
  <2> QED BY <2>1, <1>3, <1>5
<1> HIDE DEF y, z
<1>8. Len(y) = outer
  BY <1>1, <1>7
<1>9. \A i \in 1..outer : y[i] = z[i]
  <2> TAKE i \in 1..outer
  <2>1. i \in Nat /\ i > 0 /\ i <= outer
    BY <1>1
  <2>2. y[i] = IF i > o + w /\ i <= (o + w) + n THEN b[i - (o + w)]
               ELSE IF i <= inner THEN x[i] ELSE 0
    BY <1>7, <1>8
  <2>3. z[i] = IF i > o /\ i <= o + (w + n) THEN c[i - o]
               ELSE IF i <= Len(s) THEN s[i] ELSE 0
    BY <1>6
  <2>4. CASE i > o + w /\ i <= (o + w) + n
    <3>1. i - (o + w) \in 1..n /\ i - o \in 1..w + n /\ w + (i - (o + w)) = i - o
      BY <2>4, <2>1, <1>1
    <3>2. b[i - (o + w)] = d[i - o] /\ c[i - o] = d[i - o]
      BY <3>1, <1>3, <1>4
    <3>3. i > o /\ i <= o + (w + n)
      BY <2>4, <2>1, <1>1
    <3> QED BY <2>2, <2>3, <2>4, <3>2, <3>3
  <2>5. CASE i > o /\ i <= o + w
    <3>1. i - o \in 1..w /\ i - o \in 1..w + n /\ i \in 1..inner /\ ~(i > o + w)
          /\ i <= o + (w + n) /\ i <= inner
      BY <2>5, <2>1, <1>1
    <3>2. x[i] = a[i - o] /\ a[i - o] = d[i - o] /\ c[i - o] = d[i - o]
      BY <2>5, <3>1, <1>2, <1>4, <1>5
    <3> QED BY <2>2, <2>3, <2>5, <3>1, <3>2
  <2>6. CASE i <= o
    <3>1. i \in 1..inner /\ i <= inner /\ ~(i > o) /\ ~(i > o + w)
      BY <2>6, <2>1, <1>1
    <3>2. x[i] = IF i <= Len(s) THEN s[i] ELSE 0
      BY <3>1, <1>5
    <3> QED BY <2>2, <2>3, <3>1, <3>2
  <2>7. CASE i > (o + w) + n
    <3>1. i <= Len(s) /\ i \in 1..inner /\ i <= inner /\ ~(i <= o + w) /\ ~(i <= o + (w + n))
          /\ ~(i <= (o + w) + n)
      BY <2>7, <2>1, <1>1
    <3>2. x[i] = IF i <= Len(s) THEN s[i] ELSE 0
      BY <3>1, <1>5
    <3> QED BY <2>2, <2>3, <3>1, <3>2
  <2>8. \/ i > o + w /\ i <= (o + w) + n
        \/ i > o /\ i <= o + w
        \/ i <= o
        \/ i > (o + w) + n
    BY <2>1, <1>1
  <2> QED BY <2>4, <2>5, <2>6, <2>7, <2>8
<1>10. y = z
  BY <1>6, <1>7, <1>8, <1>9, SeqEqual
<1> QED BY <1>10 DEF WrittenOn, x, y, z, a, b, c

LEMMA ContentData ==
  ASSUME NEW c \in Content
  PROVE  /\ c.data \in Seq(Nat)
         /\ \A d \in Seq(Nat) : [c EXCEPT !.data = d] \in Content
BY DEF Content

LEMMA WriteOpened ==
  ASSUME Arriving, DiskType, Kept, WriteOpen
  PROVE  \/ Handled
         \/ /\ pc = "recv" /\ pc' = "write" /\ Complete
            /\ UNCHANGED <<stream, buf, reply, rpos, disk, clean>>
            /\ steady' = TRUE
            /\ Kept' /\ Writing'
<1> DEFINE p == Request.path
<1>1. Start("WRITE")
  BY Zenon DEF WriteOpen
<1>2. Complete /\ Request.op = "WRITE" /\ before' = fs /\ steady' = TRUE
  BY <1>1 DEF Start
<1>3. p \in Paths /\ Request.data \in Seq(Nat)
  BY <1>2, PathOf, Fields
<1>4. CASE /\ fs[p].kind = "file" /\ Request.data # <<>>
           /\ pc' = "write" /\ wpos' = 0 /\ Changed({p})
           /\ UNCHANGED <<stream, buf, reply, rpos, disk, clean>>
  <2>1. Request' = Request /\ UNCHANGED <<fs, stored, present>>
    BY <1>4 DEF Request, Tag, stream, disk
  <2>2. Synced'
    BY <1>4, <2>1, SyncedChanged DEF Kept
  <2>3. promised'[p] = Unsure
    BY <1>3, <1>4 DEF Changed
  <2>4. Kept'
    BY <2>1, <2>2, <2>3 DEF Kept
  <2>5. present
    <3>1. fs[p] # None
      BY <1>4 DEF None
    <3> QED BY <3>1, <1>3 DEF DiskType, Nothing
  <2>6. Writing'
    BY <1>2, <1>3, <1>4, <2>1, <2>5 DEF Writing, DiskType
  <2> QED BY <1>2, <1>4, <2>4, <2>6 DEF Complete
<1>5. CASE UNCHANGED <<fs, promised>> /\ Finish(FALSE, <<>>)
  <2>1. <<>> \in Seq(Nat)
    BY EmptySeq
  <2> QED BY <2>1, <1>1, <1>5, FinishingIdle, Zenon DEF Kept
<1> QED BY <1>4, <1>5, Zenon DEF WriteOpen

LEMMA WriteStepped ==
  ASSUME Arriving, DiskType, Kept, Writing, WriteStep
  PROVE  Kept' /\ Writing' /\ DiskType'
<1> DEFINE p == Request.path
           d == Request.data
           o == Request.offset
<1>1. /\ pc = "write" /\ wpos < Len(d) /\ present /\ steady
      /\ UNCHANGED <<stream, pc, buf, reply, rpos, stored, present, readonly, unplugs, hist>>
  BY Zenon DEF WriteStep
<1>2. /\ Request.op = "WRITE" /\ d # <<>> /\ wpos \in Nat /\ wpos <= Len(d)
      /\ before \in [Paths -> Content]
      /\ fs = IF wpos = 0 THEN before ELSE Overlaid(Request, wpos)
  BY <1>1 DEF Writing
<1>3. Request' = Request
  BY <1>1 DEF Request, Tag, stream
<1>4. p \in Paths /\ o \in Nat /\ d \in Seq(Nat) /\ Len(d) \in Nat
  <2>1. Request \in Requests
    BY <1>1, TagKnown DEF Arriving, ArrivalType
  <2> QED BY <2>1, <1>2, Fields
<1>5. PICK n \in 1..(Len(d) - wpos) :
        /\ wpos' = wpos + n
        /\ fs' = [fs EXCEPT ![p].data = Overlay(@, o + wpos, SubSeq(d, wpos + 1, wpos + n))]
  BY Zenon DEF WriteStep
<1>6. n \in Nat \ {0} /\ wpos + n <= Len(d)
  BY <1>2, <1>4, <1>5
<1> HIDE DEF p, d, o
<1>7. fs[p] \in Content /\ before[p] \in Content
  BY <1>2, <1>4 DEF DiskType
<1> DEFINE more == SubSeq(d, wpos + 1, wpos + n)
           new == Overlay(fs[p].data, o + wpos, more)
<1>8. new \in Seq(Nat)
  <2>1. more \in Seq(Nat) /\ o + wpos \in Nat
    BY <1>2, <1>4, <1>6
  <2> HIDE DEF more
  <2>2. fs[p].data \in Seq(Nat)
    BY <1>7, ContentData
  <2>3. OverlayIs(fs[p].data, o + wpos, more)
    BY <2>1, <2>2, OverlayAt
  <2> QED BY <2>3 DEF OverlayIs
<1>9. fs' = [fs EXCEPT ![p] = [fs[p] EXCEPT !.data = new]]
  BY <1>5
<1>10. new = Overlay(before[p].data, o, SubSeq(d, 1, wpos + n))
  <2>1. before[p].data \in Seq(Nat)
    BY <1>7, ContentData
  <2>2. CASE wpos = 0
    <3>1. wpos + 1 = 1 /\ o + wpos = o
      BY <2>2, <1>4
    <3> QED BY <2>2, <3>1, <1>2
  <2>3. CASE wpos # 0
    <3>1. fs[p].data = Overlay(before[p].data, o, SubSeq(d, 1, wpos))
      <4> DEFINE x == Overlay(before[p].data, o, SubSeq(d, 1, wpos))
      <4>1. fs = [before EXCEPT ![p] = [before[p] EXCEPT !.data = x]]
        BY <2>3, <1>2 DEF Overlaid, p, d, o
      <4> HIDE DEF x
      <4>2. fs[p] = [before[p] EXCEPT !.data = x]
        BY <4>1, <1>2, <1>4
      <4>3. before[p] \in [kind : {"none", "dir", "file"}, data : Seq(Nat)]
        BY <1>7 DEF Content
      <4> QED BY <4>2, <4>3 DEF x
    <3> DEFINE s == before[p].data
    <3>2. /\ s \in Seq(Nat) /\ o \in Nat /\ d \in Seq(Nat)
          /\ wpos \in Nat /\ n \in Nat /\ n > 0 /\ wpos + n <= Len(d)
      BY <2>1, <1>2, <1>4, <1>6
    <3>3. new = Overlay(Overlay(s, o, SubSeq(d, 1, wpos)), o + wpos,
                        SubSeq(d, wpos + 1, wpos + n))
      BY <3>1
    <3> HIDE DEF s, new, more
    <3>4. WrittenOn(s, o, d, wpos, n)
      BY <3>2, OverlayTwice
    <3> QED BY <3>3, <3>4 DEF s, WrittenOn
  <2> QED BY <2>2, <2>3
<1> HIDE DEF new
<1>11. fs' \in [Paths -> Content] /\ \A q \in Paths \ {p} : fs'[q] = fs[q]
  <2>1. [fs[p] EXCEPT !.data = new] \in Content
    BY <1>7, <1>8, ContentData
  <2> QED BY <2>1, <1>4, <1>9 DEF DiskType
<1>12. fs' = Overlaid(Request, wpos)'
  <2>1. fs' = [before EXCEPT ![p] = [before[p] EXCEPT !.data = new]]
    <3> DEFINE f == [before EXCEPT ![p] = [before[p] EXCEPT !.data = new]]
    <3>1. [fs[p] EXCEPT !.data = new] = [before[p] EXCEPT !.data = new]
          /\ \A q \in Paths \ {p} : fs[q] = before[q]
      <4>1. CASE wpos = 0
        BY <4>1, <1>2
      <4>2. CASE wpos # 0
        <5> DEFINE x == Overlay(before[p].data, o, SubSeq(d, 1, wpos))
        <5>1. fs = [before EXCEPT ![p] = [before[p] EXCEPT !.data = x]]
          BY <4>2, <1>2 DEF Overlaid, p, d, o
        <5> HIDE DEF x
        <5>2. /\ fs[p] = [before[p] EXCEPT !.data = x]
              /\ \A q \in Paths \ {p} : fs[q] = before[q]
          BY <5>1, <1>2, <1>4
        <5>3. before[p] \in [kind : {"none", "dir", "file"}, data : Seq(Nat)]
          BY <1>7 DEF Content
        <5> QED BY <5>2, <5>3
      <4> QED BY <4>1, <4>2
    <3>2. /\ f \in [Paths -> {[before[p] EXCEPT !.data = new]} \cup Content]
          /\ f[p] = [before[p] EXCEPT !.data = new]
          /\ \A q \in Paths \ {p} : f[q] = before[q]
      BY <1>2, <1>4
    <3>3. fs'[p] = [fs[p] EXCEPT !.data = new]
      BY <1>4, <1>9 DEF DiskType
    <3> HIDE DEF f
    <3>4. \A q \in Paths : fs'[q] = f[q]
      BY <3>1, <3>2, <3>3, <1>11
    <3>5. fs' = f
      BY <3>2, <3>4, <1>11
    <3> QED BY <3>5 DEF f
  <2>2. before' = before
    BY <1>1 DEF hist
  <2> QED BY <2>1, <2>2, <1>3, <1>5, <1>10 DEF Overlaid, p, d, o
<1>13. Synced'
  <2>1. promised' = promised /\ stored' = stored /\ present' = present
    BY <1>1 DEF hist
  <2>2. promised[p] = Unsure
    BY <1>1 DEF Kept, p
  <2> QED BY <2>1, <2>2, <1>11 DEF Kept, Synced
<1>14. Kept'
  BY <1>13, <1>1, <1>3 DEF Kept, hist
<1>15. Writing'
  <2>1. wpos' \in Nat /\ wpos' <= Len(Request'.data) /\ wpos' # 0
    BY <1>2, <1>3, <1>5, <1>6 DEF d
  <2>2. before' \in [Paths -> Content] /\ Request'.op = "WRITE" /\ Request'.data # <<>>
    BY <1>1, <1>2, <1>3 DEF hist, d
  <2> QED BY <2>1, <2>2, <1>12, <1>1 DEF Writing
<1>16. DiskType'
  BY <1>1, <1>11 DEF DiskType
<1> QED BY <1>14, <1>15, <1>16

-----------------------------------------------------------------------------
(* The steps.                                                               *)

Parts == /\ Arriving /\ Answering /\ DiskType /\ FlagType
         /\ Kept /\ Writing /\ OkPresent /\ OkMeansDone

LEMMA PartsType == Parts => TypeOK
BY TypeParts DEF Parts, Answering

LEMMA IInvParts == IInv <=> Parts
<1>1. IInv => Parts
  BY PartsOfType DEF IInv, Parts
<1>2. Parts => IInv
  BY PartsType DEF IInv, Parts
<1> QED BY <1>1, <1>2

(* The parts about the disk and what is done with it.                       *)
Doing == Kept /\ Writing /\ OkPresent /\ OkMeansDone

LEMMA PartsDoing == Parts <=> Arriving /\ Answering /\ DiskType /\ FlagType /\ Doing
BY DEF Parts, Doing

LEMMA DoneSame ==
  ASSUME UNCHANGED <<fs, before, reply>>, Request' = Request, Done(Request)
  PROVE  Done(Request)'
BY DEF Done

LEMMA DoingSame ==
  ASSUME Doing, UNCHANGED <<wpos, fs, stored, present, before, steady, promised, pc, reply>>,
         pc # "recv" => Request' = Request
  PROVE  Doing'
<1>1. Kept'
  <2>1. Synced'
    BY SyncedSame DEF Doing, Kept
  <2> QED BY <2>1 DEF Doing, Kept
<1>2. Writing'
  BY DEF Doing, Writing, Overlaid
<1>3. OkPresent'
  BY DEF Doing, OkPresent
<1>4. OkMeansDone'
  <2> SUFFICES ASSUME pc' = "reply" /\ reply'.ok /\ steady' PROVE Done(Request)'
    BY DEF OkMeansDone
  <2>1. pc = "reply" /\ reply.ok /\ steady
    OBVIOUS
  <2> QED BY <2>1, DoneSame DEF Doing, OkMeansDone
<1> QED BY <1>1, <1>2, <1>3, <1>4 DEF Doing

LEMMA DoingEnded ==
  ASSUME Doing, pc' = "recv", wpos' \in Nat, UNCHANGED <<fs, stored, present, promised>>
  PROVE  Doing'
<1>1. Synced'
  BY SyncedSame DEF Doing, Kept
<1> QED BY <1>1 DEF Doing, Kept, Writing, OkPresent, OkMeansDone

LEMMA HandledStep ==
  ASSUME Parts, Handled
  PROVE  Parts'
<1>1. pc = "recv" /\ buf # <<>> /\ Complete
  BY DEF Handled, Complete
<1>2. Arriving'
  BY <1>1, ArrivingSame DEF Parts, Handled, stream
<1>3. Answering'
  <2>1. Tag \in 1..MaxTag
    BY <1>1, TagKnown DEF Parts
  <2> QED BY <1>1, <2>1, AnsweringHandled DEF Parts, Handled, stream, back
<1>4. DiskType'
  BY DEF Parts, Handled, DiskType
<1>5. FlagType'
  BY DEF Parts, Handled, FlagType, stream
<1>6. Request' = Request
  BY DEF Handled, Request, Tag, stream
<1>7. Kept' /\ Writing'
  BY DEF Parts, Handled, Kept, Writing
<1>8. OkPresent' /\ OkMeansDone'
  BY <1>6 DEF Handled, OkPresent, OkMeansDone
<1> QED BY <1>2, <1>3, <1>4, <1>5, <1>7, <1>8 DEF Parts

(* The app and the phone.                                                   *)
LEMMA AppStep ==
  ASSUME Parts, Ask \/ Send \/ GiveUp \/ TakeAnswer \/ PhoneLeaves
  PROVE  Parts'
<1>1. Arriving /\ Answering /\ DiskType /\ FlagType /\ Doing
  BY PartsDoing
<1>2. reply \in ReplyType /\ givenup \in Nat /\ MaxGiveUp \in Nat
  BY <1>1, Bounds DEF Answering, AnswerType, FlagType
<1>3. pc # "recv" => Tag \in 1..Len(sent) /\ Tag \in 1..MaxTag
  <2>1. pc # "recv" => buf # <<>>
    BY <1>1 DEF Arriving, ArrivalType
  <2> QED BY <1>1, <2>1, TagKnown
<1>4. DiskType'
  BY <1>1 DEF DiskType, disk, Ask, Send, GiveUp, TakeAnswer, PhoneLeaves
<1>5. UNCHANGED <<wpos, fs, stored, present, before, steady, promised, pc, reply>>
  BY DEF disk, hist, Ask, Send, GiveUp, TakeAnswer, PhoneLeaves, NewSession
<1>6. CASE Ask
  <2>1. Arriving'
    BY <1>1, <1>6, ArrivingAsk
  <2>2. Answering'
    BY <1>1, <1>6, AnsweringAsk
  <2>3. FlagType'
    <3>1. clean' \in BOOLEAN
      BY <1>1, <1>6, Zenon DEF FlagType, Ask
    <3> QED BY <1>1, <1>6, <3>1 DEF FlagType, Ask
  <2>4. pc # "recv" => Request' = Request
    <3> SUFFICES ASSUME pc # "recv" PROVE Request' = Request
      OBVIOUS
    <3>1. PICK r \in Requests : sent' = Append(sent, r)
      BY <1>6 DEF Ask
    <3>2. sent \in Seq(Requests)
      BY <1>1 DEF Arriving, ArrivalType
    <3>3. \A t \in 1..Len(sent) : sent'[t] = sent[t]
      BY <3>1, <3>2, AppendAt
    <3> QED BY <3>3, <1>3, <1>6 DEF Request, Tag, Ask
  <2>5. Doing'
    BY <1>1, <1>5, <2>4, DoingSame
  <2> QED BY <1>4, <2>1, <2>2, <2>3, <2>5, PartsDoing, PTL
<1>7. CASE Send
  <2>1. Arriving'
    BY <1>1, <1>7, ArrivingSend
  <2>2. Answering'
    BY <1>1, <1>2, <1>7, AnsweringSame DEF Send, back, hist
  <2>3. FlagType'
    BY <1>1, <1>7 DEF FlagType, Send, hist
  <2>4. Request' = Request
    BY <1>7 DEF Request, Tag, Send
  <2>5. Doing'
    BY <1>1, <1>5, <2>4, DoingSame
  <2> QED BY <1>4, <2>1, <2>2, <2>3, <2>5, PartsDoing, PTL
<1>8. CASE GiveUp
  <2>1. Arriving'
    BY <1>1, <1>8, ArrivingSame DEF GiveUp, Arriving, ArrivalType
  <2>2. Answering'
    BY <1>1, <1>2, <1>8, AnsweringSame DEF GiveUp, back
  <2>3. FlagType'
    <3>1. givenup' \in 0..MaxGiveUp
      BY <1>2, <1>8 DEF GiveUp
    <3> QED BY <1>1, <1>8, <3>1 DEF FlagType, GiveUp
  <2>4. Request' = Request
    BY <1>8 DEF Request, Tag, GiveUp
  <2>5. Doing'
    BY <1>1, <1>5, <2>4, DoingSame
  <2> QED BY <1>4, <2>1, <2>2, <2>3, <2>5, PartsDoing, PTL
<1>9. CASE TakeAnswer
  <2>1. Arriving'
    BY <1>1, <1>9, ArrivingSame DEF TakeAnswer, Arriving, ArrivalType
  <2>2. Answering'
    BY <1>1, <1>3, <1>9, AnsweringTaken
  <2>3. FlagType'
    <3>1. waiting' \in BOOLEAN
      BY <1>1, <1>9, Zenon DEF FlagType, TakeAnswer
    <3> QED BY <1>1, <1>9, <3>1 DEF FlagType, TakeAnswer, hist
  <2>4. Request' = Request
    BY <1>9 DEF Request, Tag, TakeAnswer
  <2>5. Doing'
    BY <1>1, <1>5, <2>4, DoingSame
  <2> QED BY <1>4, <2>1, <2>2, <2>3, <2>5, PartsDoing, PTL
<1>10. CASE PhoneLeaves
  <2>1. Arriving'
    BY <1>1, <1>10, ArrivingNew DEF PhoneLeaves
  <2>2. rpos' = 0
    BY <1>1, <1>10 DEF PhoneLeaves, Answering, ReplyPos
  <2>3. Answering'
    BY <1>2, <1>10, <2>2, AnsweringNew DEF PhoneLeaves
  <2>4. FlagType'
    BY <1>1, <1>10 DEF FlagType, PhoneLeaves, NewSession
  <2>5. Doing'
    BY <1>1, <1>5, <1>10, DoingSame DEF PhoneLeaves
  <2> QED BY <1>4, <2>1, <2>3, <2>4, <2>5, PartsDoing, PTL
<1> QED BY <1>6, <1>7, <1>8, <1>9, <1>10

(* The disk.                                                                *)
LEMMA DiskStep ==
  ASSUME Parts, Writeback \/ Unplug \/ Replug \/ Errors
  PROVE  Parts'
<1>1. Arriving /\ Answering /\ DiskType /\ FlagType /\ Doing
  BY PartsDoing
<1>2. reply \in ReplyType /\ MaxUnplug \in Nat
  BY <1>1, Bounds DEF Answering, AnswerType
<1>3. UNCHANGED <<stream, pc, buf, wpos, reply, rpos, before, promised, clean>>
  BY DEF Writeback, Unplug, Replug, Errors, hist
<1>4. Arriving'
  BY <1>1, <1>3, ArrivingSame DEF stream, Arriving, ArrivalType
<1>5. Answering'
  BY <1>1, <1>2, <1>3, AnsweringSame DEF stream, back
<1>6. FlagType'
  BY <1>1, <1>3 DEF FlagType, stream, Writeback, Unplug, Replug, Errors, hist
<1>7. DiskType'
  <2>1. Nothing \in [Paths -> Content]
    BY Contents DEF Nothing
  <2>2. fs' \in [Paths -> Content] /\ stored' \in [Paths -> Content]
    BY <1>1, <2>1 DEF DiskType, Writeback, Unplug, Replug, Errors
  <2>3. unplugs' \in 0..MaxUnplug
    BY <1>1, <1>2 DEF DiskType, Writeback, Unplug, Replug, Errors
  <2>4. present' \in BOOLEAN /\ readonly' \in BOOLEAN
    BY <1>1 DEF DiskType, Writeback, Unplug, Replug, Errors
  <2>5. ~present' => fs' = Nothing
    BY <1>1 DEF DiskType, Writeback, Unplug, Replug, Errors
  <2> QED BY <2>2, <2>3, <2>4, <2>5 DEF DiskType
<1>8. Request' = Request
  BY <1>3 DEF Request, Tag, stream
<1>9. CASE Writeback
  <2>1. Synced'
    BY <1>1, <1>9 DEF Doing, Kept, Synced, Writeback, hist
  <2>2. Kept'
    BY <2>1, <1>1, <1>3, <1>8 DEF Doing, Kept
  <2>3. UNCHANGED <<wpos, fs, present, before, steady, pc, reply>>
    BY <1>9 DEF Writeback, hist
  <2>4. Writing' /\ OkPresent'
    BY <2>3, <1>1, <1>8 DEF Doing, Writing, Overlaid, OkPresent
  <2>5. OkMeansDone'
    BY <2>3, <1>1, <1>8, DoneSame DEF Doing, OkMeansDone
  <2> QED BY <2>2, <2>4, <2>5, <1>1, <1>4, <1>5, <1>6, <1>7 DEF Parts
<1>10. CASE Unplug
  <2>1. ~steady' /\ ~present' /\ stored' = stored
    BY <1>10 DEF Unplug
  <2>2. Kept'
    BY <2>1, <1>1, <1>3, <1>8 DEF Doing, Kept, Synced
  <2>3. Writing'
    BY <2>1, <1>1, <1>3, <1>8 DEF Doing, Writing
  <2>4. OkPresent' /\ OkMeansDone'
    BY <2>1 DEF OkPresent, OkMeansDone
  <2> QED BY <2>2, <2>3, <2>4, <1>4, <1>5, <1>6, <1>7 DEF Parts
<1>11. CASE Replug
  <2>1. ~present /\ fs' = stored /\ stored' = stored /\ steady' = steady
    BY <1>11 DEF Replug, hist
  <2>2. Kept'
    BY <2>1, <1>1, <1>3, <1>8 DEF Doing, Kept, Synced
  <2>3. Writing'
    BY <2>1, <1>1, <1>3, <1>8 DEF Doing, Writing
  <2>4. pc = "reply" /\ reply.ok /\ steady
          => Request.op \notin {"READ", "WRITE", "CREATE", "MOVE"}
    BY <2>1, <1>1 DEF Doing, OkPresent
  <2>5. OkPresent'
    BY <2>1, <2>4, <1>3, <1>8 DEF OkPresent
  <2>6. OkMeansDone'
    BY <2>1, <2>4, <1>3, <1>8 DEF OkMeansDone, Done
  <2> QED BY <2>2, <2>3, <2>5, <2>6, <1>4, <1>5, <1>6, <1>7 DEF Parts
<1>12. CASE Errors
  <2>1. Doing'
    BY <1>1, <1>8, <1>12, DoingSame DEF Errors, hist
  <2> QED BY <2>1, <1>4, <1>5, <1>6, <1>7, PartsDoing, PTL
<1> QED BY <1>9, <1>10, <1>11, <1>12

(* usStorage_RecvPackage(), and SAFEREMOVE.                                 *)
LEMMA RecvStep ==
  ASSUME Parts, RecvFirst \/ RecvMore \/ RecvTimeout \/ SafeRemove
  PROVE  Parts'
<1>1. Arriving /\ Answering /\ DiskType /\ FlagType /\ Doing
  BY PartsDoing
<1>2. reply \in ReplyType
  BY <1>1 DEF Answering, AnswerType
<1>3. /\ pc = "recv" /\ pc' = "recv"
      /\ UNCHANGED <<wpos, reply, rpos, disk, before, steady, promised>>
  BY DEF RecvFirst, RecvMore, ReadRest, RecvTimeout, SafeRemove, Complete, hist
<1>4. UNCHANGED <<sent, sending, waiting, givenup, inbox, held>>
  <2>1. CASE RecvFirst
    BY <2>1, Zenon DEF RecvFirst, Take, back
  <2>2. CASE RecvMore
    BY <2>2, Zenon DEF RecvMore, ReadRest, Take, back
  <2>3. CASE RecvTimeout
    BY <2>3, Zenon DEF RecvTimeout, Take, back
  <2>4. CASE SafeRemove
    BY <2>4, Zenon DEF SafeRemove, stream, back
  <2> QED BY <2>1, <2>2, <2>3, <2>4
<1>5. clean' = clean \/ clean' = FALSE
  <2>1. CASE RecvFirst
    BY <2>1, Zenon DEF RecvFirst
  <2>2. CASE RecvMore
    BY <2>2, Zenon DEF RecvMore, ReadRest, hist
  <2>3. CASE RecvTimeout
    BY <2>3, Zenon DEF RecvTimeout
  <2>4. CASE SafeRemove
    BY <2>4, Zenon DEF SafeRemove, hist
  <2> QED BY <2>1, <2>2, <2>3, <2>4
<1>6. Answering'
  BY <1>1, <1>2, <1>3, <1>4, <1>5, AnsweringSame
<1>7. DiskType'
  BY <1>1, <1>3 DEF DiskType, disk
<1>8. FlagType'
  BY <1>1, <1>3, <1>4, <1>5 DEF FlagType
<1>9. Doing'
  BY <1>1, <1>3, DoingSame DEF disk
<1>10. Arriving'
  <2>1. CASE RecvFirst
    BY <1>1, <2>1, ArrivingFirst
  <2>2. CASE RecvMore
    BY <1>1, <2>2, ArrivingMore
  <2>3. CASE RecvTimeout
    BY <1>1, <2>3, ArrivingTimeout
  <2>4. CASE SafeRemove
    BY <1>1, <1>3, <2>4, ArrivingDropped DEF SafeRemove, stream
  <2> QED BY <2>1, <2>2, <2>3, <2>4
<1> QED BY <1>6, <1>7, <1>8, <1>9, <1>10, PartsDoing, PTL

(* The loop of usDisk_diskWrite().                                          *)
LEMMA WriteSteps ==
  ASSUME Parts, WriteOpen \/ WriteStep \/ WriteDone \/ WriteFails
  PROVE  Parts'
<1>1. /\ Arriving /\ Answering /\ DiskType /\ FlagType /\ Doing
      /\ Kept /\ Writing /\ reply \in ReplyType
  BY PartsDoing DEF Doing, Answering, AnswerType
<1>2. CASE WriteOpen
  <2>1. CASE Handled
    BY <2>1, HandledStep
  <2>2. CASE /\ pc = "recv" /\ pc' = "write" /\ Complete
             /\ UNCHANGED <<stream, buf, reply, rpos, disk, clean>>
             /\ steady' = TRUE
             /\ Kept' /\ Writing'
    <3>1. Arriving'
      BY <1>1, <2>2, ArrivingSame DEF stream
    <3>2. Answering'
      BY <1>1, <2>2, AnsweringSame DEF stream, back
    <3>3. DiskType'
      BY <1>1, <2>2 DEF DiskType, disk
    <3>4. FlagType'
      BY <1>1, <2>2 DEF FlagType, stream
    <3> QED BY <2>2, <3>1, <3>2, <3>3, <3>4 DEF Parts, OkPresent, OkMeansDone
  <2> QED BY <1>1, <1>2, <2>1, <2>2, WriteOpened
<1>3. CASE WriteStep
  <2>1. Kept' /\ Writing' /\ DiskType'
    BY <1>1, <1>3, WriteStepped
  <2>2. /\ pc = "write" /\ pc' = pc
        /\ UNCHANGED <<stream, buf, reply, rpos, steady, clean>>
    BY <1>3 DEF WriteStep, hist
  <2>3. Arriving'
    BY <1>1, <2>2, ArrivingSame DEF stream, Arriving, ArrivalType
  <2>4. Answering'
    BY <1>1, <2>2, AnsweringSame DEF stream, back
  <2>5. FlagType'
    BY <1>1, <2>2 DEF FlagType, stream
  <2> QED BY <2>1, <2>2, <2>3, <2>4, <2>5 DEF Parts, OkPresent, OkMeansDone
<1>4. ASSUME NEW ok \in BOOLEAN, pc = "write", EndWrite(ok),
             ok => wpos = Len(Request.data)
      PROVE  Parts'
  <2>1. <<>> \in Seq(Nat)
    BY EmptySeq
  <2>2. /\ pc' = "reply" /\ reply' \in ReplyType /\ reply'.ok = ok
        /\ UNCHANGED <<stream, buf, wpos, rpos, disk, hist>>
    BY <1>4, <2>1, AnswerOf, Zenon DEF EndWrite
  <2>3. buf # <<>>
    BY <1>1, <1>4 DEF Arriving, ArrivalType
  <2>4. Tag \in 1..MaxTag /\ Request \in Requests
    BY <1>1, <2>3, TagKnown
  <2>5. Request' = Request
    BY <2>2 DEF Request, Tag, stream
  <2>6. Arriving'
    BY <1>1, <1>4, <2>2, ArrivingSame DEF stream
  <2>7. Answering'
    BY <1>1, <1>4, <2>2, <2>4, AnsweringHandled DEF stream, back, hist
  <2>8. DiskType' /\ FlagType'
    BY <1>1, <2>2 DEF DiskType, FlagType, stream, disk, hist
  <2>9. Kept' /\ Writing'
    <3>1. Synced'
      BY <1>1, <2>2, SyncedSame DEF Kept, disk, hist
    <3> QED BY <1>1, <2>2, <3>1 DEF Kept, Writing
  <2>10. ASSUME ok, steady
         PROVE  present /\ Done(Request)'
    <3>1. /\ present /\ Request.op = "WRITE" /\ Request.data # <<>>
          /\ wpos = Len(Request.data)
          /\ fs = IF wpos = 0 THEN before ELSE Overlaid(Request, wpos)
      BY <1>1, <1>4, <2>10 DEF Writing
    <3>2. Request.data \in Seq(Nat)
      BY <2>4, <3>1, Fields
    <3> DEFINE d == Request.data
    <3>3. d \in Seq(Nat) /\ d # <<>> /\ wpos = Len(d)
      BY <3>1, <3>2
    <3> HIDE DEF d
    <3>4. wpos # 0 /\ SubSeq(d, 1, wpos) = d
      BY <3>3, SubSeqFull
    <3>5. fs = [before EXCEPT ![Request.path].data = Overlay(@, Request.offset, Request.data)]
      BY <3>1, <3>4 DEF Overlaid, d
    <3>6. fs' = fs /\ before' = before
      BY <2>2 DEF disk, hist
    <3> QED BY <3>1, <3>5, <3>6, <2>5 DEF Done
  <2>11. OkPresent' /\ OkMeansDone'
    BY <2>2, <2>10 DEF OkPresent, OkMeansDone, disk, hist
  <2> QED BY <2>6, <2>7, <2>8, <2>9, <2>11 DEF Parts
<1>5. CASE WriteDone
  BY <1>4, <1>5, Zenon DEF WriteDone
<1>6. CASE WriteFails
  BY <1>4, <1>6, Zenon DEF WriteFails
<1> QED BY <1>2, <1>3, <1>5, <1>6

(* The answer goes out.                                                     *)
LEMMA ReplyStep ==
  ASSUME Parts, Reply \/ ReplyTimeout \/ ReplyFails
  PROVE  Parts'
<1>1. Arriving /\ Answering /\ DiskType /\ FlagType /\ Doing
  BY PartsDoing
<1>2. pc = "reply" /\ reply \in ReplyType
  BY <1>1 DEF Reply, ReplyTimeout, ReplyFails, Answering, AnswerType
<1>3. Tag \in 1..MaxTag
  <2>1. buf # <<>>
    BY <1>1, <1>2 DEF Arriving, ArrivalType
  <2> QED BY <1>1, <2>1, TagKnown
<1>4. DiskType'
  BY <1>1 DEF DiskType, disk, Reply, ReplyTimeout, ReplyFails
<1>5. UNCHANGED <<fs, stored, present, promised>>
  BY DEF disk, Reply, ReplyTimeout, ReplyFails
<1>6. NoReply \in ReplyType
  BY EmptySeq DEF NoReply, ReplyType
<1>7. CASE Reply
  <2>1. UNCHANGED <<sent, sending, waiting, givenup, pipe, clean>>
    BY <1>7, Zenon DEF Reply
  <2>2. Answering'
    BY <1>1, <1>3, <1>7, AnsweringReply
  <2>3. CASE pc' = "recv" /\ buf' = <<>> /\ Forget
    <3>1. Arriving'
      BY <1>1, <2>1, <2>3, ArrivingDropped
    <3>2. FlagType'
      BY <1>1, <2>1, <2>3 DEF FlagType, Forget
    <3>3. Doing'
      BY <1>1, <1>5, <2>3, DoingEnded DEF Forget
    <3> QED BY <1>4, <2>2, <3>1, <3>2, <3>3, PartsDoing, PTL
  <2>4. CASE UNCHANGED <<pc, buf, wpos, reply, before, steady>>
    <3>1. Arriving'
      BY <1>1, <1>2, <2>1, <2>4, ArrivingSame
    <3>2. FlagType'
      BY <1>1, <2>1, <2>4 DEF FlagType
    <3>3. Request' = Request
      BY <2>1, <2>4 DEF Request, Tag
    <3>4. Doing'
      BY <1>1, <1>5, <2>4, <3>3, DoingSame
    <3> QED BY <1>4, <2>2, <3>1, <3>2, <3>4, PartsDoing, PTL
  <2> QED BY <1>7, <2>3, <2>4, Zenon DEF Reply
<1>8. CASE ReplyTimeout
  <2>1. Arriving'
    BY <1>1, <1>8, ArrivingDropped DEF ReplyTimeout
  <2>2. Answering'
    BY <1>1, <1>3, <1>8, AnsweringTimeout
  <2>3. FlagType'
    BY <1>1, <1>8 DEF FlagType, ReplyTimeout, Forget
  <2>4. Doing'
    BY <1>1, <1>5, <1>8, DoingEnded DEF ReplyTimeout, Forget
  <2> QED BY <1>4, <2>1, <2>2, <2>3, <2>4, PartsDoing, PTL
<1>9. CASE ReplyFails
  <2>1. Arriving'
    BY <1>1, <1>9, ArrivingNew DEF ReplyFails
  <2>2. Answering'
    BY <1>6, <1>9, AnsweringNew DEF ReplyFails, Forget
  <2>3. FlagType'
    BY <1>1, <1>9 DEF FlagType, ReplyFails, NewSession, Forget
  <2>4. Doing'
    BY <1>1, <1>5, <1>9, DoingEnded DEF ReplyFails, NewSession, Forget
  <2> QED BY <1>4, <2>1, <2>2, <2>3, <2>4, PartsDoing, PTL
<1> QED BY <1>7, <1>8, <1>9

-----------------------------------------------------------------------------
(* The results.                                                             *)

LEMMA InitParts == Init => Parts
<1> SUFFICES ASSUME Init PROVE Parts
  OBVIOUS
<1>1. Arriving /\ Answering
  BY ArrivingInit, AnsweringInit
<1>2. DiskType
  <2>1. <<0>> \in Seq(Nat) /\ MaxUnplug \in Nat
    BY Bounds
  <2>2. None \in Content /\ File(<<0>>) \in Content
    BY <2>1, Contents
  <2>3. {None, File(<<0>>)} \subseteq Content
    BY <2>2
  <2>4. fs \in [Paths -> Content] /\ stored \in [Paths -> Content]
    <3> DEFINE S == {None, File(<<0>>)}
    <3>1. fs \in [Paths -> S] /\ stored = fs
      BY DEF Init
    <3>2. S \subseteq Content
      BY <2>3
    <3> HIDE DEF S
    <3> QED BY <3>1, <3>2
  <2>5. unplugs \in 0..MaxUnplug
    BY <2>1 DEF Init
  <2> QED BY <2>4, <2>5 DEF DiskType, Init
<1>3. FlagType
  <2>1. givenup \in 0..MaxGiveUp
    BY Bounds DEF Init
  <2> QED BY <2>1 DEF FlagType, Init
<1>4. Kept /\ Writing /\ OkPresent /\ OkMeansDone
  BY DEF Init, Kept, Synced, Writing, OkPresent, OkMeansDone
<1> QED BY <1>1, <1>2, <1>3, <1>4 DEF Parts

LEMMA NextParts == Parts /\ [Next]_vars => Parts'
<1> SUFFICES ASSUME Parts, [Next]_vars PROVE Parts'
  OBVIOUS
<1>1. CASE Ask \/ Send \/ GiveUp \/ TakeAnswer \/ PhoneLeaves
  BY <1>1, AppStep
<1>2. CASE Writeback \/ Unplug \/ Replug \/ Errors
  BY <1>2, DiskStep
<1>3. CASE RecvFirst \/ RecvMore \/ RecvTimeout \/ SafeRemove
  BY <1>3, RecvStep
<1>4. CASE Read \/ Create \/ Delete \/ Move \/ Sync \/ Basic \/ FirmwareInfo \/ SyncTime
  <2>1. Arriving /\ DiskType /\ Synced
    BY DEF Parts, Kept
  <2>2. Handled
    BY <1>4, <2>1, ReadHandled, CreateHandled, DeleteHandled, MoveHandled, SyncHandled,
       OtherHandled
  <2> QED BY <2>2, HandledStep
<1>5. CASE WriteOpen \/ WriteStep \/ WriteDone \/ WriteFails
  BY <1>5, WriteSteps
<1>6. CASE Reply \/ ReplyTimeout \/ ReplyFails
  BY <1>6, ReplyStep
<1>7. CASE UNCHANGED vars
  <2>1. UNCHANGED <<stream, pc, buf, wpos, reply, rpos, disk, hist>>
    BY <1>7 DEF vars
  <2>2. Arriving /\ Answering /\ DiskType /\ FlagType /\ Doing /\ reply \in ReplyType
    BY PartsDoing DEF Answering, AnswerType
  <2>3. Arriving'
    BY <2>1, <2>2, ArrivingSame DEF stream, Arriving, ArrivalType
  <2>4. Answering'
    BY <2>1, <2>2, AnsweringSame DEF stream, back, hist
  <2>5. DiskType' /\ FlagType'
    BY <2>1, <2>2 DEF DiskType, FlagType, disk, stream, hist
  <2>6. Request' = Request
    BY <2>1 DEF Request, Tag, stream
  <2>7. Doing'
    BY <2>1, <2>2, <2>6, DoingSame DEF disk, hist
  <2> QED BY <2>3, <2>4, <2>5, <2>7, PartsDoing, PTL
<1> QED BY <1>1, <1>2, <1>3, <1>4, <1>5, <1>6, <1>7, Zenon DEF Next, Handle

(* IInv holds in every behaviour.                                           *)
THEOREM Inductive == Spec => []IInv
<1>1. Init => Parts
  BY InitParts
<1>2. Parts /\ [Next]_vars => Parts'
  BY NextParts
<1> QED BY <1>1, <1>2, IInvParts, PTL DEF Spec

(* The variables have their types, whatever is asked and lost; the buffer is *)
(* never overrun.                                                           *)
THEOREM TypeCorrect == Spec => []TypeOK
<1>1. IInv => TypeOK
  BY DEF IInv
<1> QED BY <1>1, Inductive, PTL

(* usStorage_RecvPackage() hands on whole packages, whatever reads and      *)
(* timeouts cut them up.                                                    *)
THEOREM PackagesWhole == Spec => []WholePackages
<1>1. IInv => WholePackages
  <2> SUFFICES ASSUME Arriving, Complete \/ pc # "recv"
               PROVE  IsPrefix(Package(Tag), buf)
    BY DEF IInv, WholePackages
  <2>1. buf # <<>> /\ Len(buf) >= Units(Tag)
    BY DEF Arriving, ArrivalType, Handling, Complete
  <2>2. buf \in Seq(Unit) /\ Len(buf) \in Nat /\ buf[1][2] = 0 /\ pipe \in Seq(Unit)
        /\ sending \in Seq(Unit)
    BY <2>1 DEF Arriving, ArrivalType, IsHeader
  <2> DEFINE n == Units(Tag)
             r == Request
  <2>3. Request \in Requests /\ Follow(Request) \in Nat /\ n = 1 + Follow(Request)
    BY <2>1, TagKnown
  <2>4. \A i \in 1..Len(buf) : i \in DOMAIN Coming /\ Coming[i] = buf[i]
    <3> DEFINE b == buf \o pipe
    <3>1. /\ b \in Seq(Unit) /\ Len(b) = Len(buf) + Len(pipe) /\ Len(pipe) \in Nat
          /\ \A i \in 1..Len(buf) : b[i] = buf[i]
      BY <2>2, ConcatAt
    <3> HIDE DEF b
    <3>2. /\ DOMAIN (b \o sending) = 1..Len(b) + Len(sending) /\ Len(sending) \in Nat
          /\ \A i \in 1..Len(b) : (b \o sending)[i] = b[i]
      <4>1. b \in Seq(Unit) /\ sending \in Seq(Unit)
        BY <2>2, <3>1
      <4> QED BY <4>1, ConcatAt
    <3>3. Coming = b \o sending
      BY DEF Coming, b
    <3> QED BY <2>2, <3>1, <3>2, <3>3
  <2>5. 1 \in 1..Len(buf) /\ Coming[1] = buf[1]
    BY <2>1, <2>2, <2>4
  <2>6. \A k \in 1..Follow(Request) : Coming[1 + k] = <<Tag, k>>
    BY <2>2, <2>4, <2>5, Zenon DEF Arriving, PackagesIn, Tag, Request
  <2> HIDE DEF n
  <2>7. \A i \in 1..n : buf[i] = <<Tag, i - 1>>
    <3> TAKE i \in 1..n
    <3>1. n \in Nat /\ i \in 1..Len(buf)
      BY <2>1, <2>2, <2>3 DEF n
    <3>2. CASE i = 1
      <4>1. buf[1] \in Unit
        BY <2>5, <2>2
      <4>2. buf[1] = <<Tag, 0>>
        BY <4>1, <2>2 DEF Unit, Tag
      <4> QED BY <3>2, <4>2
    <3>3. CASE i # 1
      <4>1. i - 1 \in 1..Follow(Request) /\ 1 + (i - 1) = i
        BY <3>3, <2>3
      <4> QED BY <4>1, <3>1, <2>4, <2>6
    <3> QED BY <3>2, <3>3
  <2>8. /\ Package(Tag) = [i \in 1..n |-> <<Tag, i - 1>>]
        /\ n \in Nat /\ n <= Len(buf)
    BY <2>1, <2>3 DEF Package, n
  <2>9. \A i \in 1..n : <<Tag, i - 1>> \in Unit
    <3>1. \A i \in 1..n : i \in 1..Len(buf)
      BY <2>8, <2>2
    <3>2. \A i \in 1..Len(buf) : buf[i] \in Unit
      BY <2>2
    <3> QED BY <2>7, <3>1, <3>2, Zenon
  <2> DEFINE p == Package(Tag)
  <2>10. p \in Seq(Unit) /\ Len(p) = n /\ \A i \in 1..n : p[i] = <<Tag, i - 1>>
    BY <2>8, <2>9
  <2> HIDE DEF p
  <2>11. SubSeq(buf, 1, n) \in Seq(Unit) /\ Len(SubSeq(buf, 1, n)) = n
         /\ \A i \in 1..n : SubSeq(buf, 1, n)[i] = buf[i]
    <3>1. n \in 0..Len(buf)
      BY <2>2, <2>8
    <3> QED BY <2>2, <3>1, Cut
  <2>12. SubSeq(p, 1, n) = p
    BY <2>10, SubSeqFull
  <2>13. SubSeq(buf, 1, n) = p
    BY <2>7, <2>10, <2>11, SeqEqual
  <2> QED BY <2>8, <2>10, <2>12, <2>13 DEF IsPrefix, p
<1> QED BY <1>1, Inductive, PTL

(* An answer without error means that what was asked is done, all of it and *)
(* nothing else, unless the disk left in the meantime.                      *)
THEOREM AnswersTrue == Spec => []OkMeansDone
<1>1. IInv => OkMeansDone
  BY DEF IInv
<1> QED BY <1>1, Inductive, PTL

(* What an answered SYNC_WRITE covered is there whenever the disk is, even  *)
(* after it was pulled out, until the app changes it.                       *)
THEOREM SyncedStays == Spec => []SyncedKept
<1>1. IInv => SyncedKept
  BY DEF IInv, Kept, Synced, SyncedKept
<1> QED BY <1>1, Inductive, PTL

(* While no timeout has broken up the streams, what the app takes for an    *)
(* answer is one as main() sent it, whatever transfers it came in.          *)
THEOREM AnswersTaken == Spec => AnswersWhole
<1>1. IInv /\ [Next]_vars => (clean => TakenWhole)
  <2> SUFFICES ASSUME Arriving, Answering, clean, inbox # <<>>, IsHeader(inbox[1]),
                      IsHeader(inbox[1]) => Len(inbox) >= inbox[1][3]
               PROVE  Taken = Answers(Taken[1][1], Len(Taken))
    BY Zenon DEF IInv, TakenWhole, TakeAnswer
  <2> DEFINE n == inbox[1][3]
             t == inbox[1][1]
  <2>1. /\ inbox \in Seq(AnswerUnit) /\ held \in Seq(AnswerUnit) /\ Len(inbox) \in Nat
        /\ 1 \in DOMAIN inbox /\ DOMAIN inbox = 1..Len(inbox)
    BY DEF Answering, AnswerType
  <2>2. n \in Nat /\ n <= Len(inbox) /\ inbox[1][2] = 0
    <3>1. n \in Nat
      BY <2>1, UnitLengths
    <3> QED BY <3>1 DEF IsHeader
  <2>3. \A i \in 1..Len(inbox) : i \in DOMAIN Going /\ Going[i] = inbox[i]
    <3> DEFINE b == inbox \o held
               u == Unsent
    <3>1. pc = "reply" => Tag \in 1..MaxTag
      <4>1. pc = "reply" => buf # <<>>
        BY DEF Arriving, ArrivalType
      <4> QED BY <4>1, TagKnown
    <3>2. u \in Seq(AnswerUnit)
      BY <3>1, UnsentType
    <3>3. /\ b \in Seq(AnswerUnit) /\ Len(b) = Len(inbox) + Len(held)
          /\ Len(held) \in Nat /\ \A i \in 1..Len(inbox) : b[i] = inbox[i]
      BY <2>1, ConcatAt
    <3>4. Going = b \o u
      BY DEF Going
    <3> HIDE DEF b, u
    <3>5. b \in Seq(AnswerUnit) /\ u \in Seq(AnswerUnit)
      BY <3>2, <3>3
    <3>6. /\ DOMAIN (b \o u) = 1..Len(b) + Len(u) /\ Len(u) \in Nat
          /\ \A i \in 1..Len(b) : (b \o u)[i] = b[i]
      BY <3>5, ConcatAt
    <3> QED BY <2>1, <3>3, <3>4, <3>6
  <2>4. \A k \in 0..n - 1 : Going[1 + k] = <<t, k, n>>
    <3>1. 1 \in 1..Len(inbox)
      BY <2>1
    <3>2. 1 \in DOMAIN Going /\ Going[1] = inbox[1]
      BY <2>3, <3>1
    <3> QED BY <2>2, <3>2, Zenon DEF Answering, AnswersIn
  <2> HIDE DEF n, t
  <2>5. \A i \in 1..n : inbox[i] = <<t, i - 1, n>>
    <3> TAKE i \in 1..n
    <3>1. i - 1 \in 0..n - 1 /\ 1 + (i - 1) = i /\ i \in 1..Len(inbox)
      BY <2>1, <2>2
    <3> QED BY <3>1, <2>3, <2>4
  <2>6. /\ Taken \in Seq(AnswerUnit) /\ Len(Taken) = n
        /\ \A i \in 1..n : Taken[i] = <<t, i - 1, n>>
    <3>1. n \in 0..Len(inbox)
      BY <2>1, <2>2
    <3>2. /\ SubSeq(inbox, 1, n) \in Seq(AnswerUnit) /\ Len(SubSeq(inbox, 1, n)) = n
          /\ \A i \in 1..n : SubSeq(inbox, 1, n)[i] = inbox[i]
      BY <2>1, <3>1, Cut
    <3>3. Taken = SubSeq(inbox, 1, n)
      BY DEF Taken, n
    <3> QED BY <3>2, <3>3, <2>5
  <2> DEFINE a == Answers(Taken[1][1], n)
  <2>7. \A i \in 1..n : a[i] = <<t, i - 1, n>> /\ Taken[i] = a[i]
    <3> TAKE i \in 1..n
    <3>1. 1 \in 1..n
      BY <2>2
    <3>2. Taken[1][1] = t
      BY <3>1, <2>6
    <3> QED BY <3>2, <2>6 DEF Answers
  <2>8. a \in Seq(AnswerUnit) /\ Len(a) = n
    <3>1. \A i \in 1..n : <<Taken[1][1], i - 1, n>> \in AnswerUnit
      <4> TAKE i \in 1..n
      <4>1. 1 \in 1..n
        BY <2>2
      <4>2. Taken[1][1] = t /\ Taken[i] = <<t, i - 1, n>> /\ Taken[i] \in AnswerUnit
        BY <4>1, <2>6
      <4> QED BY <4>2
    <3> QED BY <3>1, <2>2 DEF Answers
  <2> HIDE DEF a
  <2>9. Taken = a
    BY <2>6, <2>7, <2>8, SeqEqual
  <2> QED BY <2>6, <2>9 DEF a
<1> QED BY <1>1, Inductive, PTL DEF Spec, AnswersWhole
=============================================================================
