----------------------------- MODULE MCDirList -----------------------------
(* Small instances of DirList: a page holds two entries, and directories of   *)
(* up to five entries take up to three pages.                                 *)
EXTENDS DirList

OneSubDir == {2}
=============================================================================
