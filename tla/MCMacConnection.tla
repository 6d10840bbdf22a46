-------------------------- MODULE MCMacConnection --------------------------
(***************************************************************************)
(* Small instances of MacConnection for TLC.                               *)
(***************************************************************************)
EXTENDS MacConnection

CONSTANTS a1, a2, c1, c2

MCAddr == {a1, a2}
MCFallbacks == {<<c2>>}
=============================================================================
