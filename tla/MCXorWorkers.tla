---------------------------- MODULE MCXorWorkers ----------------------------
(***************************************************************************)
(* Instance of XorWorkers for TLC.                                         *)
(***************************************************************************)
EXTENDS XorWorkers

\* Empty, a part of a block, a block, a block and a part, two blocks.
MCSizes == 0 .. 4
=============================================================================
