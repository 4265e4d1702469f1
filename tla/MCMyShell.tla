------------------------------ MODULE MCMyShell ------------------------------
(***************************************************************************)
(* Instance of MyShell for TLC: every input of two lines, and those of     *)
(* three that start in the background and end in the foreground; and one   *)
(* foreground pipe.                                                        *)
(***************************************************************************)
EXTENDS MyShell

MCInputs == [1 .. 2 -> Kinds] \cup
            {i \in [1 .. 3 -> Kinds] : isBackground(i[1]) /\ ~isBackground(i[3])}
MCPipe   == {<<"pipe">>}
=============================================================================
