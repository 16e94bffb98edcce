------------------------------ MODULE Firmware ------------------------------
(***************************************************************************)
(* The firmware upgrade (usFirmware_FirmwareUP of usFirmware.c): the app   *)
(* has a file opened, written and checked, and the device's script flashes *)
(* it in the background.  The file's descriptor is a static variable, so   *)
(* an upload outlives its session; its number is of the process, which     *)
(* opens and closes others (a phone, the disk service) meanwhile.          *)
(*                                                                         *)
(* An image is a header, whose first unit names the MD5 of the rest, and a *)
(* body.  The MD5 is that of the body only (SYS_FIRM_SKIP).  The app sends *)
(* the blocks of an image in their order, and repeats a request whose      *)
(* answer it missed or that failed, or begins anew.                        *)
(***************************************************************************)
EXTENDS Integers, Sequences, SequencesExt

CONSTANTS Versions,     (* images the app may have                            *)
          BlockLen,     (* units of a block: the first of two is the header   *)
          Fds,          (* descriptor numbers the process has left            *)
          MaxRequests,  (* bound: requests                                    *)
          MaxOther      (* bound: descriptors opened for something else       *)

ASSUME FirmwareAssumption ==
  /\ BlockLen \in Nat \ {0} /\ {MaxRequests, MaxOther} \subseteq Nat
  /\ Fds \subseteq Nat
  /\ Versions \subseteq Nat \ {0}

VARIABLES
  (* the process *)
  owner,     \* what a number is open for: "free", "image", "other"
  fd,        \* the static fd of usFirmware_FirmwareUP()
  other,     \* the number someone else believes to have open
  opened,    \* how often it had one opened
  (* the request being handled *)
  pc,        \* "wait", "write" (the loop of writeFirmware)
  block,     \* the block of an UPDATE_DATA
  already,
  (* /tmp/u-storage.firmware, and the script *)
  file,
  flash,     \* what sysupgrade has read so far, and whether it runs
  (* the app *)
  version,   \* the image it uploads
  next,      \* the block it sends next
  requests,
  (* history *)
  acked,     \* what it sent since UPDATE_START, or <<>> once some of that failed
  result,    \* the answer to UPDATE_END since UPDATE_START
  accepted,  \* the file that sysupgrade was started with last
  stray      \* some of what it sent since UPDATE_START went to another file

process == <<owner, fd, other, opened>>
app     == <<version, next, requests>>
hist    == <<acked, result, accepted, stray>>
vars    == <<process, pc, block, already, file, flash, app, hist>>

-----------------------------------------------------------------------------
Closed == -1
Unit == Versions \X (1..2) \X (1..BlockLen)
Block(v, b) == [u \in 1..BlockLen |-> <<v, b, u>>]
Image(v) == Block(v, 1) \o Block(v, 2)

(* compute_md5() leaves out the header.                                       *)
Digested(f) == SubSeq(f, BlockLen + 1, Len(f))

(* Fault: that the file names an MD5 is enough.                               *)
SameUnchecked(f) == \E v \in Versions : f # <<>> /\ f[1] = <<v, 1, 1>>

(* upgradeFirmware(): the MD5 named in the file is that of what follows the   *)
(* header.                                                                    *)
Same(f) ==
  \E v \in Versions :
    /\ f # <<>> /\ f[1] = <<v, 1, 1>>
    /\ Digested(f) = Block(v, 2)

TypeOK ==
  /\ owner \in [Fds -> {"free", "image", "other"}]
  /\ fd \in Fds \cup {Closed} /\ other \in Fds \cup {Closed} /\ opened \in 0..MaxOther
  /\ pc \in {"wait", "write"} /\ (pc = "write" => fd # Closed)
  /\ block \in 1..2 /\ next \in 1..3
  /\ already \in 0..BlockLen
  /\ file \in Seq(Unit)
  /\ flash \in [runs : BOOLEAN, got : Seq(Unit)]
  /\ version \in Versions \cup {0}
  /\ requests \in 0..MaxRequests
  /\ acked \in Seq(Unit) /\ accepted \in Seq(Unit)
  /\ result \in {"none", "ok", "crc"}
  /\ stray \in BOOLEAN

Init ==
  /\ owner = [n \in Fds |-> "free"] /\ fd = Closed /\ other = Closed /\ opened = 0
  /\ pc = "wait" /\ block = 1 /\ already = 0
  /\ file = <<>> /\ flash = [runs |-> FALSE, got |-> <<>>]
  /\ version = 0 /\ next = 1 /\ requests = 0
  /\ acked = <<>> /\ result = "none" /\ accepted = <<>> /\ stray = FALSE

-----------------------------------------------------------------------------
(* close() frees a number, whoever had it opened; open() takes the lowest.    *)
Freed(n) == IF n = Closed THEN owner ELSE [owner EXCEPT ![n] = "free"]

Opens(o, for, num) ==
  \E n \in Fds :
    /\ o[n] = "free" /\ \A m \in Fds : o[m] = "free" => n <= m
    /\ num' = n /\ owner' = [o EXCEPT ![n] = for]

OtherOpen ==
  /\ other = Closed /\ opened < MaxOther
  /\ opened' = opened + 1
  /\ Opens(owner, "other", other)
  /\ UNCHANGED <<fd, pc, block, already, file, flash, app, hist>>

OtherClose ==
  /\ other # Closed
  /\ owner' = Freed(other) /\ other' = Closed
  /\ UNCHANGED <<fd, opened, pc, block, already, file, flash, app, hist>>

-----------------------------------------------------------------------------
(* usFirmware_FirmwareUP().                                                   *)

Receive == pc = "wait" /\ requests < MaxRequests /\ requests' = requests + 1

(* UPDATE_START for an image of the app; after open() failed it gives up.     *)
StartWith(closed) ==
  /\ Receive
  /\ \/ /\ Opens(closed, "image", fd)
        /\ file' = <<>>
        /\ version' \in Versions
     \/ owner' = closed /\ fd' = Closed /\ version' = 0 /\ UNCHANGED file
  /\ next' = 1 /\ acked' = <<>> /\ result' = "none" /\ stray' = FALSE
  /\ UNCHANGED <<other, opened, pc, block, already, flash, accepted>>

(* Fault: the file that may still be open is not closed.                      *)
StartLeaking == StartWith(owner)

Start == StartWith(Freed(fd))

(* UPDATE_DATA with the next block, or with the last one again.               *)
Data ==
  /\ Receive
  /\ version # 0 /\ fd # Closed
  /\ block' \in {next - 1, next} \cap 1..2
  /\ pc' = "write" /\ already' = 0
  /\ UNCHANGED <<process, file, flash, version, next, hist>>

(* After UPDATE_END there is nothing to write to.                             *)
DataRefused ==
  /\ Receive
  /\ version # 0 /\ fd = Closed
  /\ UNCHANGED <<process, pc, block, already, file, flash, version, next, hist>>

Written(from, n) == [u \in 1..n |-> <<version, block, from + u>>]

WriteFrom(from, size) ==
  /\ pc = "write" /\ already < BlockLen
  /\ owner[fd] # "free"
  /\ \E n \in 1..size :
       /\ already' = already + n
       /\ file' = IF owner[fd] = "image" THEN file \o Written(from, n) ELSE file
  /\ stray' = (stray \/ owner[fd] # "image")
  /\ UNCHANGED <<process, pc, block, flash, app, acked, result, accepted>>

(* Fault: the loop writes from the start of the payload again.                *)
WriteAgain == WriteFrom(0, BlockLen - already)

(* Fault: ... or always with its whole length.                                *)
WriteOver == WriteFrom(already, BlockLen)

(* One write() of writeFirmware().                                            *)
WriteStep == WriteFrom(already, BlockLen - already)

WriteDone ==
  /\ pc = "write" /\ already = BlockLen
  /\ pc' = "wait"
  /\ acked' = acked \o Block(version, block)
  /\ next' = block + 1
  /\ UNCHANGED <<process, block, already, file, flash, version, requests, result, accepted, stray>>

(* No room for it, or not open: the descriptor is closed, but its number      *)
(* stays in the static fd.                                                    *)
WriteFails ==
  /\ pc = "write" /\ already < BlockLen
  /\ pc' = "wait"
  /\ owner' = Freed(fd)
  /\ acked' = <<>>
  /\ UNCHANGED <<fd, other, opened, block, already, file, flash, app, result, accepted, stray>>

(* UPDATE_END: the script is started for a file whose MD5 is right.           *)
End ==
  /\ Receive
  /\ version # 0
  /\ owner' = Freed(fd) /\ fd' = Closed
  /\ IF Same(file)
     THEN /\ result' = "ok" /\ accepted' = file
          /\ flash' = IF flash.runs THEN flash ELSE [runs |-> TRUE, got |-> <<>>]
     ELSE result' = "crc" /\ UNCHANGED <<accepted, flash>>
  /\ UNCHANGED <<other, opened, pc, block, already, file, version, next, acked, stray>>

(* sysupgrade reads the file it was given.                                    *)
Flash ==
  /\ flash.runs
  /\ LET n == Len(flash.got) IN
     flash' = IF n < Len(file) THEN [flash EXCEPT !.got = Append(@, file[n + 1])]
              ELSE [flash EXCEPT !.runs = FALSE]
  /\ UNCHANGED <<process, pc, block, already, file, app, hist>>

Next == \/ OtherOpen \/ OtherClose
        \/ Start \/ Data \/ DataRefused \/ WriteStep \/ WriteDone \/ WriteFails \/ End
        \/ Flash

Spec == Init /\ [][Next]_vars

-----------------------------------------------------------------------------
(* Whatever an upload went through (failed and repeated writes, a new start), *)
(* the file has no descriptor but the one that the next START or END closes.  *)
NoLeak == {n \in Fds : owner[n] = "image"} \subseteq {fd}

(* An accepted file is one of the images, to the last unit, although the MD5  *)
(* does not cover its header: blocks that are cut short or repeated shift the *)
(* body.                                                                      *)
AcceptedWhole == accepted # <<>> => \E v \in Versions : accepted = Image(v)

(* An image whose blocks were all sent and acknowledged since UPDATE_START,   *)
(* whatever happened to earlier uploads, is not refused, unless a write had   *)
(* failed in this upload and a block sent again went to whatever has the      *)
(* number of the closed descriptor by then.                                   *)
AckedAccepted == result = "crc" /\ ~stray => acked # Image(version)

(* protocol.h on USTOR_EOK: "successful".  Each block was answered with that. *)
AckedSuffices == result = "crc" => acked # Image(version)

(* "Write %uBytes to Firmware" (usFirmware_FirmwareUP()): the data goes to    *)
(* the firmware's file.                                                       *)
DataToFirmware == ~stray

(* "Firmware OK MD5 String Same" (upgradeFirmware()): what is flashed is the  *)
(* file that was found right.                                                 *)
FlashedAccepted == ~flash.runs /\ flash.got # <<>> => flash.got = accepted
=============================================================================
