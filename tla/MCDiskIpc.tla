----------------------------- MODULE MCDiskIpc -----------------------------
(* Small instances of DiskIpc: two disks, a buffer with room for one of them  *)
(* and two changes.                                                         *)
EXTENDS DiskIpc

Mix         == {"mounted", "init"}
MountedOnly == {"mounted"}
=============================================================================
