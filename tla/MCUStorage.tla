----------------------------- MODULE MCUStorage -----------------------------
(* Small instances of UStorage for TLC: which phones the user owns.          *)
EXTENDS UStorage

AllKinds   == {"ios", "android", "aoa"}
MixedKinds == {"ios", "android"}
OneKind    == {"ios"}
=============================================================================
