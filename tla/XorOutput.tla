----------------------------- MODULE XorOutput -----------------------------
(***************************************************************************)
(* What hw4 promises to whoever runs it: the output file is the xor of the *)
(* input files, and at every moment what has been written is a prefix of   *)
(* that xor.  Nothing is said here of threads, blocks or levels.           *)
(*                                                                         *)
(* Bytes are symbolic: byte k of file f is the pair <<f, k>>, and the xor  *)
(* of several bytes is the set of those that occur an odd number of times. *)
(* A byte xored twice cancels, a byte at a wrong offset shows.             *)
(***************************************************************************)
EXTENDS Integers, Sequences

CONSTANTS
  N,      \* number of input files, argc - 2
  Sizes   \* the lengths an input file may have

VARIABLES
  fileSize,  \* the length of each input, chosen once
  out,       \* the bytes of the output file
  proc       \* the process: running, or how it ended

outputVars == <<fileSize, out, proc>>

Files == 0 .. N-1

Byte == Files \X Nat

\* Byte k of the xor of all the inputs; {} from the end of the longest one on.
XorByte(k) == {b \in Files \X {k} : k < fileSize[b[1]]}

IsXorPrefix(s) == \A k \in 1 .. Len(s) : s[k] = XorByte(k-1) /\ s[k] # {}

IsWholeXor(s) == IsXorPrefix(s) /\ XorByte(Len(s)) = {}

HasEmptyInput == \E f \in Files : fileSize[f] = 0

----------------------------------------------------------------------------
Init ==
  /\ fileSize \in [Files -> Sizes]
  /\ out = << >>
  /\ proc = "running"

\* The output grows by one or more of the bytes that come next.
Extend ==
  /\ proc = "running"
  /\ Len(out') > Len(out)
  /\ SubSeq(out', 1, Len(out)) = out
  /\ IsXorPrefix(out')
  /\ UNCHANGED <<fileSize, proc>>

\* The program returns 0.  The output is whole, unless an input was empty: the
\* code does not start every thread then (see AllInputsStarted in XorWorkers).
Deliver ==
  /\ proc = "running"
  /\ IsWholeXor(out) \/ HasEmptyInput
  /\ proc' = "done"
  /\ UNCHANGED <<fileSize, out>>

\* exit(2), or the death of the process when it joins a thread it never made.
Abort ==
  /\ proc = "running"
  /\ \/ proc' = "failed"
     \/ HasEmptyInput /\ proc' = "crashed"
  /\ UNCHANGED <<fileSize, out>>

Next == Extend \/ Deliver \/ Abort

Spec == Init /\ [][Next]_outputVars
=============================================================================
