---------------------------- MODULE MCStructures ----------------------------
(***************************************************************************)
(* The instance of Structures that TLC checks; its cfg gives the bounds.   *)
(***************************************************************************)
EXTENDS Structures
=============================================================================
