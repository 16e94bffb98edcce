--------------------------- MODULE FirmwareProofs ---------------------------
(***************************************************************************)
(* What Firmware does for any images, any length of a block, and any       *)
(* descriptor numbers: its types, the fate of the file's descriptor, and   *)
(* what an accepted file, or a refused one, says about what was sent.      *)
(***************************************************************************)
EXTENDS Firmware, SequenceTheorems, TLAPS

-----------------------------------------------------------------------------
(* The strengthening.                                                       *)

(* A block is written for an image that the app has.                        *)
WritesImage == pc = "write" => version # 0

ImageOpen == fd # Closed /\ owner[fd] = "image"

(* The file begins with the header of the image it was begun for: before    *)
(* the first block is complete nothing but it is written, and whatever is   *)
(* sent again comes after it.                                               *)
HeaderFirst ==
  version # 0 =>
    /\ \A i \in DOMAIN file : i <= BlockLen => file[i] = <<version, 1, i>>
    /\ ImageOpen /\ Len(file) < BlockLen =>
         /\ pc = "write" => block = 1 /\ already = Len(file)
         /\ pc = "wait" => Len(file) = 0 /\ next = 1

(* As long as nothing has failed the file holds what was acknowledged, and  *)
(* what is written of the block after that.  After a failure the number is  *)
(* the file's no more, and what is written next goes astray.                *)
InHand == IF pc = "write" THEN Written(0, already) ELSE <<>>

FileIsAcked ==
  ~stray =>
    \/ ~ImageOpen /\ acked = <<>> /\ (pc = "write" => already = 0)
    \/ version # 0 /\ file = acked \o InHand

(* After an answer to UPDATE_END there is nothing to write to.              *)
EndCloses == result # "none" => fd = Closed

FileInv == WritesImage /\ HeaderFirst /\ FileIsAcked /\ EndCloses

IInv == TypeOK /\ NoLeak /\ FileInv /\ AcceptedWhole /\ AckedAccepted

-----------------------------------------------------------------------------
(* Blocks and images.                                                       *)

(* Where the elements of two sequences are in their concatenation.          *)
LEMMA ConcatAt ==
  ASSUME NEW S, NEW s \in Seq(S), NEW t \in Seq(S), NEW m, NEW n,
         Len(s) = m, Len(t) = n
  PROVE  /\ s \o t \in Seq(S)
         /\ Len(s \o t) = m + n
         /\ \A i \in 1..m : (s \o t)[i] = s[i]
         /\ \A i \in 1..n : (s \o t)[m + i] = t[i]
OBVIOUS

(* A block is a sequence of units, all of them of this block.               *)
LEMMA BlockProperties ==
  ASSUME NEW v \in Versions, NEW b \in 1..2
  PROVE  /\ Block(v, b) \in Seq(Unit)
         /\ Len(Block(v, b)) = BlockLen
         /\ \A u \in 1..BlockLen : Block(v, b)[u] = <<v, b, u>>
<1>1. \A u \in 1..BlockLen : <<v, b, u>> \in Unit
  BY DEF Unit
<1> QED BY <1>1, FirmwareAssumption DEF Block

(* What WriteStep has written of a block is a sequence of units.            *)
LEMMA WrittenProperties ==
  ASSUME version \in Versions, block \in 1..2,
         NEW from \in Nat, NEW n \in Nat, from + n <= BlockLen
  PROVE  /\ Written(from, n) \in Seq(Unit)
         /\ Len(Written(from, n)) = n
         /\ \A u \in 1..n : Written(from, n)[u] = <<version, block, from + u>>
<1>1. \A u \in 1..n : <<version, block, from + u>> \in Unit
  BY FirmwareAssumption DEF Unit
<1> QED BY <1>1 DEF Written

(* The header comes first in an image, then the body.                       *)
LEMMA ImageProperties ==
  ASSUME NEW v \in Versions
  PROVE  /\ Image(v) \in Seq(Unit)
         /\ Len(Image(v)) = 2 * BlockLen
         /\ \A i \in 1..BlockLen : Image(v)[i] = <<v, 1, i>>
         /\ \A i \in 1..BlockLen : Image(v)[BlockLen + i] = <<v, 2, i>>
<1>1. BlockLen \in Nat
  BY FirmwareAssumption
<1>2. /\ Block(v, 1) \in Seq(Unit) /\ Len(Block(v, 1)) = BlockLen
      /\ \A u \in 1..BlockLen : Block(v, 1)[u] = <<v, 1, u>>
  BY BlockProperties
<1>3. /\ Block(v, 2) \in Seq(Unit) /\ Len(Block(v, 2)) = BlockLen
      /\ \A u \in 1..BlockLen : Block(v, 2)[u] = <<v, 2, u>>
  BY BlockProperties
<1> HIDE DEF Block
<1>4. /\ Image(v) \in Seq(Unit)
      /\ Len(Image(v)) = BlockLen + BlockLen
      /\ \A i \in 1..BlockLen : Image(v)[i] = Block(v, 1)[i]
      /\ \A i \in 1..BlockLen : Image(v)[BlockLen + i] = Block(v, 2)[i]
  BY <1>2, <1>3, ConcatAt DEF Image
<1>5. BlockLen + BlockLen = 2 * BlockLen
  BY <1>1
<1>6. \A i \in 1..BlockLen : Image(v)[i] = <<v, 1, i>> /\ Image(v)[BlockLen + i] = <<v, 2, i>>
  BY <1>2, <1>3, <1>4, Zenon
<1> QED BY <1>4, <1>5, <1>6, Zenon

(* Two writes after each other are one.                                     *)
LEMMA WrittenConcat ==
  ASSUME version \in Versions, block \in 1..2,
         NEW a \in Nat, NEW n \in Nat, a + n <= BlockLen
  PROVE  Written(0, a) \o Written(a, n) = Written(0, a + n)
<1>1. BlockLen \in Nat
  BY FirmwareAssumption
<1>2. /\ Written(0, a) \in Seq(Unit) /\ Len(Written(0, a)) = a
      /\ \A u \in 1..a : Written(0, a)[u] = <<version, block, u>>
  <2>1. 0 \in Nat /\ 0 + a <= BlockLen /\ \A u \in 1..a : 0 + u = u
    BY <1>1
  <2> QED BY <2>1, WrittenProperties
<1>3. /\ Written(a, n) \in Seq(Unit) /\ Len(Written(a, n)) = n
      /\ \A u \in 1..n : Written(a, n)[u] = <<version, block, a + u>>
  BY <1>1, WrittenProperties
<1>4. /\ Written(0, a + n) \in Seq(Unit) /\ Len(Written(0, a + n)) = a + n
      /\ \A u \in 1..(a + n) : Written(0, a + n)[u] = <<version, block, u>>
  <2>1. 0 \in Nat /\ a + n \in Nat /\ 0 + (a + n) <= BlockLen /\ \A u \in 1..(a + n) : 0 + u = u
    BY <1>1
  <2> QED BY <2>1, WrittenProperties
<1> DEFINE s == Written(0, a) \o Written(a, n)
           t == Written(0, a + n)
<1>5. /\ s \in Seq(Unit) /\ Len(s) = a + n
      /\ \A i \in 1..a : s[i] = Written(0, a)[i]
      /\ \A i \in 1..n : s[a + i] = Written(a, n)[i]
  <2>1. /\ Written(0, a) \in Seq(Unit) /\ Len(Written(0, a)) = a
        /\ Written(a, n) \in Seq(Unit) /\ Len(Written(a, n)) = n
    BY <1>2, <1>3, Zenon
  <2> QED BY <2>1, ConcatAt
<1> HIDE DEF s
<1>6. ASSUME NEW i \in 1..(a + n) PROVE s[i] = t[i]
  <2>1. t[i] = <<version, block, i>>
    BY <1>4, Zenon
  <2>2. CASE i <= a
    <3>1. i \in 1..a
      BY <2>2
    <3> QED BY <1>2, <1>5, <2>1, <3>1, Zenon
  <2>3. CASE ~(i <= a)
    <3>1. i - a \in 1..n /\ a + (i - a) = i
      BY <2>3
    <3>2. Written(a, n)[i - a] = <<version, block, i>>
      BY <1>3, <3>1, Zenon
    <3>3. s[a + (i - a)] = Written(a, n)[i - a]
      BY <1>5, <3>1, Zenon
    <3> QED BY <2>1, <3>1, <3>2, <3>3, Zenon
  <2> QED BY <2>2, <2>3
<1> HIDE DEF t
<1>7. t \in Seq(Unit) /\ Len(t) = a + n
  BY <1>4 DEF t
<1>8. s = t
  BY <1>5, <1>6, <1>7, SeqEqual
<1> QED BY <1>8 DEF s, t

-----------------------------------------------------------------------------
(* Types.                                                                   *)

LEMMA TypeInit == Init => TypeOK
<1> SUFFICES ASSUME Init PROVE TypeOK
  OBVIOUS
<1>1. BlockLen \in Nat /\ MaxRequests \in Nat /\ MaxOther \in Nat
  BY FirmwareAssumption
<1>2. flash \in [runs : BOOLEAN, got : Seq(Unit)]
  BY DEF Init
<1>3. file \in Seq(Unit) /\ acked \in Seq(Unit) /\ accepted \in Seq(Unit)
  BY DEF Init
<1>4. owner \in [Fds -> {"free", "image", "other"}]
  BY DEF Init
<1>5. fd = Closed /\ other = Closed /\ opened \in 0..MaxOther /\ pc = "wait"
      /\ block \in 1..2 /\ next \in 1..3 /\ already \in 0..BlockLen
      /\ version = 0 /\ requests \in 0..MaxRequests
  BY <1>1 DEF Init
<1>6. result \in {"none", "ok", "crc"} /\ stray \in BOOLEAN
  BY DEF Init
<1> QED BY <1>2, <1>3, <1>4, <1>5, <1>6 DEF TypeOK

LEMMA FreedType ==
  ASSUME TypeOK, NEW n \in Fds \cup {Closed}
  PROVE  Freed(n) \in [Fds -> {"free", "image", "other"}]
BY DEF TypeOK, Freed

LEMMA TypeStep == TypeOK /\ WritesImage /\ [Next]_vars => TypeOK' /\ WritesImage'
<1> SUFFICES ASSUME TypeOK, WritesImage, [Next]_vars PROVE TypeOK' /\ WritesImage'
  OBVIOUS
<1>a. BlockLen \in Nat \ {0} /\ MaxRequests \in Nat /\ MaxOther \in Nat /\ Closed \notin Fds
  BY FirmwareAssumption DEF Closed
<1> USE DEF TypeOK, WritesImage, process, app, hist
<1>1. CASE OtherOpen
  BY <1>1, <1>a DEF OtherOpen, Opens
<1>2. CASE OtherClose
  BY <1>2, <1>a, FreedType DEF OtherClose
<1>3. CASE Start
  <2>1. Freed(fd) \in [Fds -> {"free", "image", "other"}]
    BY FreedType
  <2>2. owner' \in [Fds -> {"free", "image", "other"}] /\ fd' \in Fds \cup {Closed}
    BY <1>3, <2>1 DEF Start, StartWith, Opens
  <2>3. version' \in Versions \cup {0} /\ file' \in Seq(Unit)
    <3>1. \/ file' = <<>> /\ version' \in Versions
          \/ file' = file /\ version' = 0
      BY <1>3 DEF Start, StartWith
    <3>2. CASE file' = <<>> /\ version' \in Versions
      <4>1. <<>> \in Seq(Unit)
        OBVIOUS
      <4> QED BY <3>2, <4>1, Zenon
    <3>3. CASE file' = file /\ version' = 0
      BY <3>3
    <3> QED BY <3>1, <3>2, <3>3
  <2>4. pc' = "wait" /\ next' = 1 /\ acked' = <<>> /\ result' = "none"
        /\ requests' \in 0..MaxRequests
        /\ UNCHANGED <<other, opened, block, already, flash, accepted>>
    BY <1>3, <1>a DEF Start, StartWith, Receive
  <2>5. stray' = FALSE
    BY <1>3 DEF Start, StartWith
  <2>6. stray' \in BOOLEAN
    BY <2>5
  <2> QED BY <1>a, <2>2, <2>3, <2>4, <2>6
<1>4. CASE Data \/ DataRefused
  BY <1>4, <1>a DEF Data, DataRefused, Receive
<1>5. CASE WriteStep
  <2>1. PICK n \in 1..(BlockLen - already) :
          /\ already' = already + n
          /\ file' = IF owner[fd] = "image" THEN file \o Written(already, n) ELSE file
    BY <1>5 DEF WriteStep, WriteFrom
  <2>2. version \in Versions
    BY <1>5 DEF WriteStep, WriteFrom
  <2>3. Written(already, n) \in Seq(Unit)
    BY <2>2, <1>a, WrittenProperties
  <2>4. file' \in Seq(Unit)
    BY <2>1, <2>3
  <2>5. stray' \in BOOLEAN
    BY <1>5 DEF WriteStep, WriteFrom
  <2> QED BY <1>5, <1>a, <2>1, <2>4, <2>5 DEF WriteStep, WriteFrom
<1>6. CASE WriteDone
  <2>1. Block(version, block) \in Seq(Unit)
    BY <1>6, BlockProperties DEF WriteDone
  <2>2. acked' \in Seq(Unit)
    BY <1>6, <2>1 DEF WriteDone
  <2> QED BY <1>6, <1>a, <2>2 DEF WriteDone
<1>7. CASE WriteFails
  BY <1>7, <1>a, FreedType DEF WriteFails
<1>8. CASE End
  <2>1. owner' \in [Fds -> {"free", "image", "other"}] /\ fd' = Closed
    BY <1>8, FreedType DEF End
  <2>2. result' \in {"ok", "crc"} /\ accepted' \in Seq(Unit)
        /\ flash' \in [runs : BOOLEAN, got : Seq(Unit)]
    <3>1. [runs |-> TRUE, got |-> <<>>] \in [runs : BOOLEAN, got : Seq(Unit)]
      OBVIOUS
    <3>2. CASE Same(file)
      BY <1>8, <3>1, <3>2 DEF End
    <3>3. CASE ~Same(file)
      BY <1>8, <3>3 DEF End
    <3> QED BY <3>2, <3>3
  <2>3. pc' = "wait" /\ requests' \in 0..MaxRequests
        /\ UNCHANGED <<other, opened, block, already, file, version, next, acked, stray>>
    BY <1>8, <1>a DEF End, Receive
  <2> QED BY <1>a, <2>1, <2>2, <2>3
<1>9. CASE Flash
  <2> DEFINE n == Len(flash.got)
  <2>1. flash' \in [runs : BOOLEAN, got : Seq(Unit)]
    <3>1. CASE n < Len(file)
      <4>1. file[n + 1] \in Unit
        BY <3>1
      <4>2. Append(flash.got, file[n + 1]) \in Seq(Unit)
        BY <4>1
      <4> QED BY <1>9, <3>1, <4>2 DEF Flash
    <3>2. CASE ~(n < Len(file))
      BY <1>9, <3>2 DEF Flash
    <3> QED BY <3>1, <3>2
  <2> QED BY <1>9, <1>a, <2>1 DEF Flash
<1>10. CASE UNCHANGED vars
  BY <1>10 DEF vars
<1> QED BY <1>1, <1>2, <1>3, <1>4, <1>5, <1>6, <1>7, <1>8, <1>9, <1>10 DEF Next

-----------------------------------------------------------------------------
(* The file's descriptor.                                                   *)

LEMMA NoLeakStep == TypeOK /\ NoLeak /\ [Next]_vars => NoLeak'
<1> SUFFICES ASSUME TypeOK, NoLeak, [Next]_vars, NEW n \in Fds, owner'[n] = "image"
             PROVE  n = fd'
  BY DEF NoLeak
<1> USE DEF TypeOK, NoLeak, process, app, hist
<1>1. CASE OtherOpen
  BY <1>1 DEF OtherOpen, Opens
<1>2. CASE OtherClose
  BY <1>2 DEF OtherClose, Freed
<1>3. CASE Start
  <2>1. \A m \in Fds : Freed(fd)[m] # "image"
    BY FirmwareAssumption DEF Freed, Closed
  <2>2. Freed(fd) \in [Fds -> {"free", "image", "other"}]
    BY FreedType
  <2> QED BY <1>3, <2>1, <2>2 DEF Start, StartWith, Opens
<1>4. CASE WriteFails
  BY <1>4 DEF WriteFails, Freed
<1>5. CASE End
  BY <1>5 DEF End, Freed
<1>6. CASE UNCHANGED process
  BY <1>6
<1> QED BY <1>1, <1>2, <1>3, <1>4, <1>5, <1>6
        DEF Next, vars, Data, DataRefused, WriteStep, WriteFrom, WriteDone, Flash

-----------------------------------------------------------------------------
(* The file and what was acknowledged of it.                                *)

(* Only UPDATE_START gives the file a number.                               *)
LEMMA OpenStays ==
  ASSUME TypeOK, [Next]_vars, ~Start, ImageOpen'
  PROVE  ImageOpen /\ fd' = fd
<1> USE DEF TypeOK, ImageOpen, process, app, hist
<1>1. CASE OtherOpen
  BY <1>1 DEF OtherOpen, Opens
<1>2. CASE OtherClose
  BY <1>2 DEF OtherClose, Freed
<1>3. CASE WriteFails
  BY <1>3 DEF WriteFails, Freed
<1>4. CASE End
  BY <1>4 DEF End
<1>5. CASE UNCHANGED process
  BY <1>5
<1> QED BY <1>1, <1>2, <1>3, <1>4, <1>5
        DEF Next, vars, Data, DataRefused, WriteStep, WriteFrom, WriteDone, Flash

LEMMA HeaderStep ==
  TypeOK /\ WritesImage /\ HeaderFirst /\ [Next]_vars => HeaderFirst'
<1> SUFFICES ASSUME TypeOK, WritesImage, HeaderFirst, [Next]_vars PROVE HeaderFirst'
  OBVIOUS
<1>a. BlockLen \in Nat \ {0}
  BY FirmwareAssumption
<1>1. CASE Start
  <2>1. \/ file' = <<>> /\ next' = 1
        \/ version' = 0
    BY <1>1 DEF Start, StartWith
  <2>2. pc' = "wait"
    BY <1>1 DEF Start, StartWith, Receive, TypeOK
  <2> QED BY <2>1, <2>2 DEF HeaderFirst
<1>2. CASE UNCHANGED <<pc, block, already, file, version, next>> /\ ~Start
  BY <1>2, OpenStays DEF HeaderFirst
<1>3. CASE Data
  <2>1. ImageOpen' => ImageOpen
    BY <1>3 DEF Data, ImageOpen, process
  <2>2. UNCHANGED <<file, version, next>> /\ already' = 0 /\ pc = "wait" /\ pc' = "write"
        /\ (next = 1 => block' = 1)
    BY <1>3 DEF Data, Receive
  <2> QED BY <2>1, <2>2 DEF HeaderFirst, TypeOK
<1>4. CASE WriteStep
  <2>1. PICK n \in 1..(BlockLen - already) :
          /\ already' = already + n
          /\ file' = IF owner[fd] = "image" THEN file \o Written(already, n) ELSE file
    BY <1>4 DEF WriteStep, WriteFrom
  <2>2. pc = "write" /\ version # 0 /\ version \in Versions /\ block \in 1..2 /\ already \in 0..BlockLen
        /\ file \in Seq(Unit)
    BY <1>4 DEF WriteStep, WriteFrom, WritesImage, TypeOK
  <2>3. UNCHANGED <<owner, fd, pc, block, version, next>>
    BY <1>4 DEF WriteStep, WriteFrom, process, app
  <2>4. CASE ImageOpen
    <3>1. /\ Written(already, n) \in Seq(Unit)
          /\ Len(Written(already, n)) = n
          /\ \A u \in 1..n : Written(already, n)[u] = <<version, block, already + u>>
      <4>1. already \in Nat /\ n \in Nat /\ already + n <= BlockLen
        BY <2>2, <1>a
      <4> QED BY <2>2, <4>1, WrittenProperties
    <3>2. /\ file' \in Seq(Unit) /\ Len(file') = Len(file) + n
          /\ \A i \in 1..Len(file) : file'[i] = file[i]
          /\ \A i \in 1..n : file'[Len(file) + i] = Written(already, n)[i]
      <4>1. file' = file \o Written(already, n)
        BY <2>1, <2>4 DEF ImageOpen
      <4>2. Written(already, n) \in Seq(Unit) /\ Len(Written(already, n)) = n
        BY <3>1, Zenon
      <4> DEFINE w == Written(already, n)
      <4>3. w \in Seq(Unit) /\ Len(w) = n
        BY <4>2
      <4> HIDE DEF w
      <4>4. /\ file \o w \in Seq(Unit) /\ Len(file \o w) = Len(file) + n
            /\ \A i \in 1..Len(file) : (file \o w)[i] = file[i]
            /\ \A i \in 1..n : (file \o w)[Len(file) + i] = w[i]
        BY <2>2, <4>3, ConcatAt
      <4> QED BY <4>1, <4>4, Zenon DEF w
    <3>3. ASSUME NEW i \in DOMAIN file', i <= BlockLen
          PROVE  file'[i] = <<version, 1, i>>
      <4>1. i \in 1..Len(file) + n
        BY <3>2
      <4>2. CASE i <= Len(file)
        BY <2>2, <3>2, <3>3, <4>1, <4>2 DEF HeaderFirst
      <4>3. CASE i > Len(file)
        <5>1. block = 1 /\ already = Len(file)
          <6>1. Len(file) < BlockLen
            BY <2>2, <3>3, <4>1, <4>3, <1>a
          <6> QED BY <2>2, <2>4, <6>1 DEF HeaderFirst
        <5>2. i - Len(file) \in 1..n /\ Len(file) + (i - Len(file)) = i
          BY <4>1, <4>3, <2>2
        <5>3. file'[Len(file) + (i - Len(file))] = Written(already, n)[i - Len(file)]
          BY <3>2, <5>2, Zenon
        <5>4. Written(already, n)[i - Len(file)] = <<version, block, already + (i - Len(file))>>
          BY <3>1, <5>2, Zenon
        <5> QED BY <5>1, <5>2, <5>3, <5>4
      <4> QED BY <4>1, <4>2, <4>3, <2>2
    <3>4. Len(file') < BlockLen => block = 1 /\ already' = Len(file')
      <4>1. Len(file) \in Nat /\ (Len(file') < BlockLen => Len(file) < BlockLen)
        BY <2>2, <3>2, <1>a
      <4>2. Len(file) < BlockLen => block = 1 /\ already = Len(file)
        BY <2>2, <2>4 DEF HeaderFirst
      <4> QED BY <2>1, <3>2, <4>1, <4>2
    <3> QED BY <2>2, <2>3, <3>3, <3>4 DEF HeaderFirst
  <2>5. CASE ~ImageOpen
    <3>1. file' = file /\ ~ImageOpen'
      BY <2>1, <2>3, <2>5, <2>2 DEF ImageOpen, TypeOK
    <3> QED BY <2>3, <3>1 DEF HeaderFirst
  <2> QED BY <2>4, <2>5
<1>5. CASE WriteDone
  <2>1. UNCHANGED <<owner, fd, file, version>> /\ pc = "write" /\ pc' = "wait"
        /\ already = BlockLen
    BY <1>5 DEF WriteDone, process
  <2>2. ImageOpen => ~(Len(file) < BlockLen)
    BY <2>1, <1>a, <1>5 DEF HeaderFirst, WritesImage, TypeOK
  <2>3. ImageOpen' <=> ImageOpen
    BY <2>1 DEF ImageOpen
  <2> QED BY <2>1, <2>2, <2>3 DEF HeaderFirst
<1>6. CASE WriteFails
  <2>1. ~ImageOpen'
    BY <1>6 DEF WriteFails, ImageOpen, Freed, TypeOK
  <2> QED BY <1>6, <2>1 DEF WriteFails, HeaderFirst, app
<1>7. CASE End
  <2>1. ~ImageOpen'
    BY <1>7 DEF End, ImageOpen
  <2> QED BY <1>7, <2>1 DEF End, HeaderFirst
<1> QED BY <1>1, <1>2, <1>3, <1>4, <1>5, <1>6, <1>7
        DEF Next, vars, OtherOpen, OtherClose, DataRefused, Flash, app

LEMMA AckedStep ==
  TypeOK /\ WritesImage /\ FileIsAcked /\ [Next]_vars => FileIsAcked'
<1> SUFFICES ASSUME TypeOK, WritesImage, FileIsAcked, [Next]_vars, ~stray' PROVE FileIsAcked'
  BY DEF FileIsAcked
<1>a. BlockLen \in Nat \ {0} /\ <<>> \in Seq(Unit)
  BY FirmwareAssumption
<1> DEFINE Failed == ~ImageOpen /\ acked = <<>> /\ (pc = "write" => already = 0)
           Sound  == version # 0 /\ file = acked \o InHand
<1>0. ASSUME ~Start PROVE Failed \/ Sound
  <2>1. stray' = stray \/ WriteStep
    BY <1>0 DEF Next, vars, OtherOpen, OtherClose, Data, DataRefused, WriteDone,
                WriteFails, End, Flash, hist
  <2>2. ~stray
    BY <2>1 DEF WriteStep, WriteFrom, TypeOK
  <2> QED BY <2>2 DEF FileIsAcked
<1>1. CASE Start
  <2>1. acked' = <<>> /\ pc' = "wait"
    BY <1>1 DEF Start, StartWith, Receive, TypeOK
  <2>2. CASE version' = 0 /\ fd' = Closed
    BY <2>1, <2>2 DEF FileIsAcked, ImageOpen
  <2>3. CASE version' \in Versions /\ file' = <<>>
    <3>1. version' # 0
      BY <2>3, FirmwareAssumption
    <3> QED BY <1>a, <2>1, <2>3, <3>1 DEF FileIsAcked, InHand
  <2> QED BY <1>1, <2>2, <2>3 DEF Start, StartWith
<1>2. CASE UNCHANGED <<pc, block, already, file, version, acked>> /\ ~Start
  <2>1. ImageOpen' => ImageOpen
    BY <1>2, OpenStays
  <2>2. InHand' = InHand
    BY <1>2 DEF InHand, Written
  <2> QED BY <1>0, <1>2, <2>1, <2>2 DEF FileIsAcked
<1>3. CASE Data /\ ~Start
  <2>1. UNCHANGED <<file, version, acked>> /\ (ImageOpen' <=> ImageOpen)
        /\ pc = "wait" /\ already' = 0
    BY <1>3 DEF Data, Receive, ImageOpen, process, hist
  <2>2. InHand = <<>> /\ InHand' = <<>>
    BY <2>1 DEF InHand, Written
  <2> QED BY <1>0, <1>3, <2>1, <2>2 DEF FileIsAcked
<1>4. CASE WriteStep /\ ~Start
  <2>1. PICK n \in 1..(BlockLen - already) :
          /\ already' = already + n
          /\ file' = IF owner[fd] = "image" THEN file \o Written(already, n) ELSE file
    BY <1>4 DEF WriteStep, WriteFrom
  <2>2. owner[fd] = "image" /\ pc = "write" /\ pc' = "write"
        /\ UNCHANGED <<block, version, acked>>
    BY <1>4 DEF WriteStep, WriteFrom, app
  <2>3. ImageOpen
    BY <2>2 DEF ImageOpen, TypeOK
  <2>4. version \in Versions /\ block \in 1..2 /\ already \in Nat /\ n \in Nat
        /\ already + n <= BlockLen
    BY <2>2, <1>a DEF WritesImage, TypeOK
  <2>5. file = acked \o Written(0, already)
    BY <1>0, <1>4, <2>2, <2>3 DEF InHand
  <2>6. Written(0, already) \in Seq(Unit) /\ Written(already, n) \in Seq(Unit)
    <3>1. 0 \in Nat /\ 0 + already <= BlockLen
      BY <2>4, <1>a
    <3> QED BY <2>4, <3>1, WrittenProperties
  <2>7. file' = acked \o (Written(0, already) \o Written(already, n))
    <3>1. acked \in Seq(Unit)
      BY DEF TypeOK
    <3>2. (acked \o Written(0, already)) \o Written(already, n)
             = acked \o (Written(0, already) \o Written(already, n))
      <4> DEFINE b == Written(0, already)
                 c == Written(already, n)
      <4>1. acked \in Seq(Unit) /\ b \in Seq(Unit) /\ c \in Seq(Unit)
        BY <2>6, <3>1
      <4> HIDE DEF b, c
      <4>2. (acked \o b) \o c = acked \o (b \o c)
        BY <4>1, ConcatAssociative
      <4> QED BY <4>2 DEF b, c
    <3> QED BY <2>1, <2>2, <2>5, <3>2
  <2>8. Written(0, already) \o Written(already, n) = Written(0, already + n)
    BY <2>4, WrittenConcat
  <2>9. InHand' = Written(0, already + n)
    BY <2>1, <2>2 DEF InHand, Written
  <2>10. file' = acked' \o InHand'
    BY <2>2, <2>7, <2>8, <2>9
  <2> QED BY <2>2, <2>10 DEF FileIsAcked, WritesImage
<1>5. CASE WriteDone /\ ~Start
  <2>1. /\ pc = "write" /\ pc' = "wait" /\ already = BlockLen
        /\ acked' = acked \o Block(version, block)
        /\ UNCHANGED <<file, version>>
    BY <1>5 DEF WriteDone
  <2>2. Sound
    BY <1>0, <1>5, <2>1, <1>a
  <2>3. InHand = Block(version, block)
    BY <2>1 DEF InHand, Written, Block
  <2>4. acked' \in Seq(Unit) /\ InHand' = <<>>
    <3>1. TypeOK'
      BY TypeStep
    <3> QED BY <2>1, <3>1 DEF TypeOK, InHand
  <2>5. file' = acked' \o InHand'
    BY <2>1, <2>2, <2>3, <2>4, ConcatEmptySeq
  <2> QED BY <2>1, <2>2, <2>5 DEF FileIsAcked
<1>6. CASE WriteFails
  <2>1. ~ImageOpen' /\ acked' = <<>> /\ pc' = "wait"
    BY <1>6 DEF WriteFails, ImageOpen, Freed, TypeOK
  <2> QED BY <2>1 DEF FileIsAcked
<1>7. CASE End /\ ~Start
  <2>1. ~ImageOpen' /\ pc = "wait" /\ pc' = "wait" /\ UNCHANGED <<file, version, acked>>
    BY <1>7 DEF End, ImageOpen, Receive
  <2>2. InHand' = <<>> /\ InHand = <<>>
    BY <2>1 DEF InHand
  <2> QED BY <1>0, <1>7, <2>1, <2>2 DEF FileIsAcked
<1> QED BY <1>1, <1>2, <1>3, <1>4, <1>5, <1>6, <1>7
        DEF Next, vars, OtherOpen, OtherClose, DataRefused, Flash, app, hist

LEMMA EndClosesStep == TypeOK /\ EndCloses /\ [Next]_vars => EndCloses'
BY DEF TypeOK, EndCloses, Next, vars, process, app, hist, OtherOpen, OtherClose, Start,
       StartWith, Data, DataRefused, WriteStep, WriteFrom, WriteDone, WriteFails, End, Flash

-----------------------------------------------------------------------------
(* What an answer to UPDATE_END says.                                       *)

(* A file that is found right is an image whole, if its header came first.  *)
LEMMA SameIsImage ==
  ASSUME TypeOK, HeaderFirst, version # 0, Same(file)
  PROVE  version \in Versions /\ file = Image(version)
<1>a. BlockLen \in Nat \ {0} /\ version \in Versions /\ file \in Seq(Unit)
  BY FirmwareAssumption DEF TypeOK
<1>1. PICK v \in Versions : file # <<>> /\ file[1] = <<v, 1, 1>> /\ Digested(file) = Block(v, 2)
  BY DEF Same
<1>2. file[1] = <<version, 1, 1>>
  BY <1>a, <1>1 DEF HeaderFirst
<1>3. v = version
  BY <1>1, <1>2
<1>4. /\ Block(version, 2) \in Seq(Unit) /\ Len(Block(version, 2)) = BlockLen
      /\ \A u \in 1..BlockLen : Block(version, 2)[u] = <<version, 2, u>>
  BY <1>a, BlockProperties
<1> DEFINE d == SubSeq(file, BlockLen + 1, Len(file))
<1>5. /\ Len(d) = IF BlockLen + 1 <= Len(file) THEN Len(file) - BlockLen ELSE 0
      /\ \A i \in 1..(Len(file) - BlockLen) : d[i] = file[BlockLen + i]
  BY <1>a
<1>6. d = Block(version, 2)
  BY <1>1, <1>3 DEF Digested
<1> HIDE DEF d
<1>7. Len(file) = 2 * BlockLen
  BY <1>a, <1>4, <1>5, <1>6
<1>8. /\ Image(version) \in Seq(Unit) /\ Len(Image(version)) = 2 * BlockLen
      /\ \A i \in 1..BlockLen : Image(version)[i] = <<version, 1, i>>
      /\ \A i \in 1..BlockLen : Image(version)[BlockLen + i] = <<version, 2, i>>
  BY <1>a, ImageProperties
<1>9. ASSUME NEW i \in 1..Len(file) PROVE file[i] = Image(version)[i]
  <2>1. CASE i <= BlockLen
    <3>1. i \in 1..BlockLen /\ i \in DOMAIN file
      BY <1>a, <2>1
    <3> QED BY <2>1, <3>1, <1>8 DEF HeaderFirst
  <2>2. CASE i > BlockLen
    <3>1. i - BlockLen \in 1..BlockLen /\ BlockLen + (i - BlockLen) = i
          /\ i - BlockLen \in 1..(Len(file) - BlockLen)
      BY <1>a, <1>7, <2>2
    <3>2. d[i - BlockLen] = file[BlockLen + (i - BlockLen)]
      BY <1>5, <3>1, Zenon
    <3>3. d[i - BlockLen] = <<version, 2, i - BlockLen>>
      BY <1>4, <1>6, <3>1, Zenon
    <3>4. Image(version)[BlockLen + (i - BlockLen)] = <<version, 2, i - BlockLen>>
      BY <1>8, <3>1, Zenon
    <3> QED BY <3>1, <3>2, <3>3, <3>4, Zenon
  <2> QED BY <1>a, <2>1, <2>2
<1>10. file = Image(version)
  BY <1>a, <1>7, <1>8, <1>9, SeqEqual
<1> QED BY <1>a, <1>10

(* An image is found right.                                                 *)
LEMMA ImageIsSame ==
  ASSUME NEW v \in Versions
  PROVE  Same(Image(v))
<1>1. BlockLen \in Nat \ {0}
  BY FirmwareAssumption
<1>2. /\ Image(v) \in Seq(Unit) /\ Len(Image(v)) = 2 * BlockLen
      /\ \A i \in 1..BlockLen : Image(v)[i] = <<v, 1, i>>
      /\ \A i \in 1..BlockLen : Image(v)[BlockLen + i] = <<v, 2, i>>
  BY ImageProperties
<1>3. Image(v) # <<>> /\ Image(v)[1] = <<v, 1, 1>>
  BY <1>1, <1>2
<1>4. /\ Block(v, 2) \in Seq(Unit) /\ Len(Block(v, 2)) = BlockLen
      /\ \A u \in 1..BlockLen : Block(v, 2)[u] = <<v, 2, u>>
  BY BlockProperties
<1> DEFINE d == SubSeq(Image(v), BlockLen + 1, Len(Image(v)))
<1>5. /\ d \in Seq(Unit) /\ Len(d) = BlockLen
      /\ \A i \in 1..BlockLen : d[i] = Image(v)[BlockLen + i]
  BY <1>1, <1>2
<1> HIDE DEF d
<1>6. \A i \in 1..BlockLen : d[i] = Block(v, 2)[i]
  BY <1>2, <1>4, <1>5, Zenon
<1>7. d = Block(v, 2)
  BY <1>4, <1>5, <1>6, SeqEqual
<1> QED BY <1>3, <1>7 DEF Same, Digested, d

(* Both ways, at the step that answers.                                     *)
LEMMA AnswerStep ==
  TypeOK /\ FileInv /\ AcceptedWhole /\ AckedAccepted /\ [Next]_vars
    => AcceptedWhole' /\ AckedAccepted'
<1> SUFFICES ASSUME TypeOK, FileInv, AcceptedWhole, AckedAccepted, [Next]_vars
             PROVE  AcceptedWhole' /\ AckedAccepted'
  OBVIOUS
<1> USE DEF FileInv
<1>1. CASE End
  <2>1. version \in Versions /\ version # 0 /\ pc = "wait"
        /\ UNCHANGED <<file, version, acked, stray>>
    BY <1>1 DEF End, Receive, TypeOK
  <2>2. CASE Same(file)
    <3>1. accepted' = file /\ result' = "ok"
      BY <1>1, <2>2 DEF End
    <3>2. file = Image(version)
      BY <2>1, <2>2, SameIsImage
    <3> QED BY <2>1, <3>1, <3>2 DEF AcceptedWhole, AckedAccepted
  <2>3. CASE ~Same(file)
    <3>1. accepted' = accepted
      BY <1>1, <2>3 DEF End
    <3>2. ~stray => acked # Image(version)
      <4>1. file # Image(version)
        BY <2>1, <2>3, ImageIsSame
      <4>2. CASE acked = <<>>
        <5>1. Len(Image(version)) = 2 * BlockLen /\ BlockLen \in Nat \ {0}
          BY <2>1, ImageProperties, FirmwareAssumption
        <5>2. Image(version) # <<>>
          BY <5>1
        <5> QED BY <4>2, <5>2
      <4>3. CASE file = acked \o InHand
        <5>1. file = acked
          BY <2>1, <4>3, ConcatEmptySeq DEF InHand, TypeOK
        <5> QED BY <4>1, <5>1
      <4> QED BY <4>2, <4>3 DEF FileIsAcked
    <3> QED BY <2>1, <3>1, <3>2 DEF AcceptedWhole, AckedAccepted
  <2> QED BY <2>2, <2>3
<1>2. CASE Start
  BY <1>2 DEF Start, StartWith, AcceptedWhole, AckedAccepted
<1>3. CASE WriteStep \/ WriteDone \/ WriteFails
  <2>1. result = "none"
    BY <1>3 DEF WriteStep, WriteFrom, WriteDone, WriteFails, EndCloses, TypeOK
  <2>2. UNCHANGED <<result, accepted>>
    BY <1>3 DEF WriteStep, WriteFrom, WriteDone, WriteFails
  <2> QED BY <2>1, <2>2 DEF AcceptedWhole, AckedAccepted
<1>4. CASE UNCHANGED <<accepted, result, stray, acked, version>>
  BY <1>4 DEF AcceptedWhole, AckedAccepted
<1> QED BY <1>1, <1>2, <1>3, <1>4
        DEF Next, vars, OtherOpen, OtherClose, Data, DataRefused, Flash, app, hist

-----------------------------------------------------------------------------
LEMMA InvInit == Init => IInv
<1>1. ASSUME Init PROVE NoLeak /\ FileInv /\ AcceptedWhole /\ AckedAccepted
  BY <1>1 DEF Init, NoLeak, FileInv, WritesImage, HeaderFirst, FileIsAcked, EndCloses,
              ImageOpen, AcceptedWhole, AckedAccepted
<1> QED BY <1>1, TypeInit DEF IInv

LEMMA InvStep == IInv /\ [Next]_vars => IInv'
BY TypeStep, NoLeakStep, HeaderStep, AckedStep, EndClosesStep, AnswerStep DEF IInv, FileInv

(* The inductive invariant.                                                 *)
THEOREM Inductive == Spec => []IInv
BY InvInit, InvStep, PTL DEF Spec

(* The types hold in every state.                                           *)
THEOREM TypeCorrect == Spec => []TypeOK
<1>1. IInv => TypeOK
  BY DEF IInv
<1> QED BY <1>1, Inductive, PTL

(* Whatever failed and was repeated, the file's number is the one that the  *)
(* next UPDATE_START or UPDATE_END closes.                                  *)
THEOREM OneDescriptor == Spec => []NoLeak
<1>1. IInv => NoLeak
  BY DEF IInv
<1> QED BY <1>1, Inductive, PTL

(* The script is started for whole images only, although the MD5 leaves out *)
(* the header of the file.                                                  *)
THEOREM OnlyImages == Spec => []AcceptedWhole
<1>1. IInv => AcceptedWhole
  BY DEF IInv
<1> QED BY <1>1, Inductive, PTL

(* An image that was acknowledged block by block is not refused, unless in  *)
(* this upload a block was sent again after a failed write and went to      *)
(* another file.                                                            *)
THEOREM NoneRefused == Spec => []AckedAccepted
<1>1. IInv => AckedAccepted
  BY DEF IInv
<1> QED BY <1>1, Inductive, PTL
=============================================================================
