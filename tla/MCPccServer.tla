---------------------------- MODULE MCPccServer ----------------------------
(***************************************************************************)
(* Instance of PccServer for TLC.                                          *)
(***************************************************************************)
EXTENDS PccServer
=============================================================================
