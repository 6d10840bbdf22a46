----------------------------- MODULE MCMacSend -----------------------------
(***************************************************************************)
(* The instance of MacSend that TLC checks: the callers are alike.         *)
(***************************************************************************)
EXTENDS MacSend, TLC

MCSymmetry == Permutations(Threads)
=============================================================================
