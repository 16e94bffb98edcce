---------------------------- MODULE MCItunesMux ----------------------------
(* Small instances of ItunesMux: packets of 2 units, packages of 3, buffers   *)
(* of 2 or 3 at either end, and pipes that are full after two packets.        *)
EXTENDS ItunesMux
=============================================================================
