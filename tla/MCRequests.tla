----------------------------- MODULE MCRequests -----------------------------
(* Small instances of Requests: a few requests of every kind, on two paths.   *)
EXTENDS Requests

Writes  == {[op |-> "WRITE", path |-> "a", offset |-> o, data |-> <<1, 2>>] : o \in {0, 2}}
Appends == {w \in Writes : w.offset = 2}
TooBig  == {[op |-> "WRITE", path |-> "a", offset |-> 0, data |-> <<1, 1, 1, 1>>]}
Reads   == {[op |-> "READ", path |-> "a", offset |-> 1, size |-> 2]}
Creates == {[op |-> "CREATE", path |-> p, dir |-> p = "b"] : p \in Paths}
Deletes == {[op |-> "DELETE", path |-> "a", dir |-> d] : d \in BOOLEAN}
Moves   == {[op |-> "MOVE", path |-> "a", to |-> "b"]}
Plain   ==
  {[op |-> o] : o \in {"MAGIC", "FIRMWARE_INFO", "SYNC_TIME", "SYNC_WRITE", "UNKNOWN"}}
Safe    == {[op |-> "SAFEREMOVE"]}

Changes   == Appends \cup Creates \cup Deletes \cup Moves \cup {[op |-> "SYNC_WRITE"]}
Growing   == Appends \cup Reads
Ordinary  == Writes \cup Reads \cup Creates \cup Deletes \cup Moves \cup Plain
Everything == Ordinary \cup TooBig \cup Safe
=============================================================================
