---------------------------- MODULE MCXorSpurious ----------------------------
(***************************************************************************)
(* Instance of XorSpurious for TLC: two inputs of a block and a half.      *)
(***************************************************************************)
EXTENDS XorSpurious

MCSizes == {3}
=============================================================================
