------------------------- MODULE MCLinuxConnection -------------------------
(***************************************************************************)
(* LinuxConnection with interchangeable callers, for TLC's safety runs.    *)
(***************************************************************************)
EXTENDS LinuxConnection, TLC

MCSymmetry == Permutations(Clients)
=============================================================================
