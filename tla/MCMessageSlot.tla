--------------------------- MODULE MCMessageSlot ---------------------------
(***************************************************************************)
(* Instance of MessageSlot for TLC.                                        *)
(***************************************************************************)
EXTENDS MessageSlot, TLC

\* Nothing tells the processes, the minors or the nodes from one another.
Symmetric ==
  Permutations(Processes) \cup Permutations(Minors)
    \cup Permutations(MinorNodes) \cup Permutations(Channels)
=============================================================================
