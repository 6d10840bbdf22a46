---------------------------- MODULE MCMacPlugin ----------------------------
(***************************************************************************)
(* MacPlugin with two watches of which the first has the second's name in  *)
(* its own, for TLC.                                                       *)
(***************************************************************************)
EXTENDS MacPlugin

CONSTANTS w1, w2

MCLooksLike == {<<w1, w2>>}
=============================================================================
