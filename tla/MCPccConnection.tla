--------------------------- MODULE MCPccConnection ---------------------------
(***************************************************************************)
(* Instance of PccConnection for TLC: every unsigned int of a width whose  *)
(* INT_MAX is two blocks and a half.                                        *)
(***************************************************************************)
EXTENDS PccConnection

MCArguments == Uints
=============================================================================
