--------------------------- MODULE MCDiskManager ---------------------------
(* Small instances of DiskManager.  Partition 10 stands for one whose name    *)
(* begins with that of partition 1.                                           *)
EXTENDS DiskManager

NoPrefix  == {}
OneAndTen == {<<1, 10>>}

(* Two places, each with a flag of its own in its link; a disk that is always *)
(* in its own, or in either of them; a card reader with two slots, whose disks *)
(* have the same link.                                                        *)
OwnPlace  == [n \in Names |-> IF n = "sda" THEN {"p1"} ELSE {"p2"}]
AnyPlace  == [n \in Names |-> {"p1", "p2"}]
OwnLinks  == [p \in {"p1", "p2"} |-> {p}]
OneReader == [p \in {"p1", "p2"} |-> {"p1"}]

(* No tag file; one that gives the places tags in one directory.              *)
NoTags  == <<>>
TwoTags == <<[flag |-> "p1", dir |-> "usb", vol |-> "a"],
             [flag |-> "p2", dir |-> "usb", vol |-> "b"]>>

(* The first line once more.                                                  *)
OneTagTwice == TwoTags \o SubSeq(TwoTags, 1, 1)
=============================================================================
