----------------------------- MODULE MCFirmware -----------------------------
(* Small instances of Firmware: two images, of blocks that one write() may    *)
(* cut in two, and three descriptor numbers.                                  *)
EXTENDS Firmware
=============================================================================
