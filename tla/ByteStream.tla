----------------------------- MODULE ByteStream -----------------------------
(***************************************************************************)
(* What usProtocol_SendPackage() and _RecvPackage() promise main() and the *)
(* app: while a connection is open, two streams of bytes, each read in the *)
(* order it was written, nothing lost, repeated or skipped.                *)
(***************************************************************************)
EXTENDS Integers

VARIABLES open,          \* both ends are in the same connection
          down, downGot, \* units written by the daemon, read by the phone
          up, upGot      \* units written by the phone, read by the daemon

streams == <<down, downGot, up, upGot>>
vars == <<open, streams>>

Init == open = FALSE /\ streams = <<0, 0, 0, 0>>

(* Either end may have written, and the phone have read, before the other one *)
(* knows it is open.                                                          *)
Open ==
  /\ ~open /\ open'
  /\ down' \in Nat /\ up' \in Nat
  /\ downGot' \in 0..down' /\ upGot' = 0

Close == open /\ ~open' /\ streams' = <<0, 0, 0, 0>>

DaemonWrites == open' = open /\ down' > down /\ UNCHANGED <<downGot, up, upGot>>
PhoneWrites  == open' = open /\ up' > up /\ UNCHANGED <<down, downGot, upGot>>

PhoneReads ==
  /\ open' = open /\ downGot' > downGot /\ downGot' <= down
  /\ UNCHANGED <<down, up, upGot>>

DaemonReads ==
  /\ open' = open /\ upGot' > upGot /\ upGot' <= up
  /\ UNCHANGED <<down, downGot, up>>

Next == \/ Open \/ Close
        \/ open /\ (DaemonWrites \/ PhoneWrites \/ PhoneReads \/ DaemonReads)

Spec == Init /\ [][Next]_vars
=============================================================================
