---------------------------- MODULE MCAlgorithms ----------------------------
(***************************************************************************)
(* FindReplace and BestIntervals for TLC, side by side: each on all its    *)
(* small inputs while the other runs on one.                               *)
(***************************************************************************)
EXTENDS FindReplace, BestIntervals

CONSTANTS MaxFile, MaxWord, MaxReplace, MaxPoints, MaxIntervals

Letters == Bytes \ {NUL}

Texts(letters, most) == UNION {[1 .. n -> letters] : n \in 0 .. most}

Init ==
  \/ /\ \E contents \in Texts(Bytes, MaxFile), f \in Texts(Letters, MaxWord),
           r \in Texts(Letters, MaxReplace) : ReplaceStarts(contents, f, r)
     /\ IntervalsStarts(<< >>, 0)
  \/ /\ \E labels \in Texts({0, 1}, MaxPoints), count \in 0 .. MaxIntervals :
          IntervalsStarts(labels, count)
     /\ \E a \in Letters : ReplaceStarts(<<a>>, <<a>>, <<a>>)

Next == \/ ReplaceNext /\ UNCHANGED intervalsVars
        \/ IntervalsNext /\ UNCHANGED replaceVars

Spec == Init /\ [][Next]_<<replaceVars, intervalsVars>> /\ ReplaceFairness
=============================================================================
