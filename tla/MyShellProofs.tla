---------------------------- MODULE MyShellProofs ----------------------------
(***************************************************************************)
(* Proofs about MyShell.  IInv is inductive; the safety properties and     *)
(* what SIGINT does follow from it.                                        *)
(***************************************************************************)
EXTENDS MyShell, SequenceTheorems, TLAPS

USE InputsAssumption, LinesAssumption, SigintsAssumption

----------------------------------------------------------------------------
(***************************************************************************)
(* The inductive invariant.                                                *)
(***************************************************************************)

\* What the line being handled is, at each place of process_arglist.
LineInv ==
  /\ shellPc \in {"pipe", "fork1", "fork2", "close", "wait1", "wait2"} => line > 0
  /\ shellPc = "pipe" => isPiped(kind(line))
  /\ shellPc \in {"fork2", "close", "wait2"} => kind(line) = "pipe"
  /\ shellPc = "wait1" => ~isBackground(kind(line))

\* Children are those of the lines handled so far; only a pipe has a second one, and
\* only processes with a pipe arm it.
ChildrenInv ==
  /\ \A c \in Children : child[c] # "none" => c[1] <= line
  /\ \A c \in Children : child[c] # "none" /\ c[2] = 2 => KindOf(c) = "pipe"
  /\ \A c \in Children : child[c] = "armed" => isPiped(KindOf(c))
  /\ shellPc \in {"pipe", "fork1"} => child[<<line, 1>>] = "none"
  /\ shellPc \in {"pipe", "fork1", "fork2"} => child[<<line, 2>>] = "none"

\* fork() has failed for the first process of a foreground line, and the shell has
\* waited.
FailedAndWaited ==
  \/ shellPc = "wait2"
  \/ shellPc = "prompt" /\ line > 0 /\ pid1 = "failed" /\ ~isBackground(kind(line))

\* What the shell has waited for is gone.
WaitInv ==
  /\ shellPc = "wait2" => pid1 = "failed"
  /\ FailedAndWaited => \A c \in Children : ~Alive(c)
  /\ \A l \in 1 .. line :
       ~isBackground(kind(l)) /\ (l < line \/ shellPc = "prompt") => ~Alive(<<l, 1>>)

\* Who ignores SIGINT.
IgnoreInv ==
  \A c \in Children : Alive(c) =>
    (c \in ignoresInt <=> KindOf(c) = "bg" \/ child[c] = "forked")

Starting == {"forked", "armed"}

\* The shell holds both ends of the line's own pipe from pipe() to the two calls of
\* close().
HoldsPipe(l) == l = line /\ shellPc \in {"fork1", "fork2", "close"}

\* Who can hold the ends of the pipe made for line l.
LineEnds(l) ==
  /\ l > line \/ (l = line /\ shellPc = "pipe")
       => readEnds[l] = {} /\ writeEnds[l] = {}
  /\ l <= line /\ kind(l) = "pipe" =>
       /\ writeEnds[l] \subseteq {c \in {Shell} : HoldsPipe(l)} \cup {<<l, 1>>}
            \cup {c \in {<<l, 2>>} : child[c] \in Starting}
       /\ readEnds[l] \subseteq {c \in {Shell} : HoldsPipe(l)} \cup {<<l, 2>>}
            \cup {c \in {<<l, 1>>} : child[c] \in Starting}
  /\ l <= line /\ kind(l) = "pipebg" /\ (l < line \/ shellPc # "pipe")
      /\ shellPc \notin {"ended", "exited"}
       => Shell \in readEnds[l] \cap writeEnds[l]

EndsInv == \A l \in Lines : LineEnds(l)

\* Where the offset of standard input is: behind the lines handled on a terminal, at
\* the end of a file that nobody has moved it back in, and otherwise at most behind
\* the lines of those who have; and they are gone, so nobody moves it twice.
InputInv ==
  /\ line = 0 => offset = 0 /\ movedBy = {}
  /\ mode = "terminal" =>
       offset = line /\ movedBy = {} /\ \A l \in 1 .. line : source[l] = l
  /\ mode = "file" /\ line > 0 /\ movedBy = {} => offset = Len(input)
  /\ \A c \in movedBy : /\ c[1] \in 1 .. line /\ source[c[1]] < Len(input) /\ child[c] = "gone"
                        /\ offset <= source[c[1]]
                        /\ movedBy = {c} => offset = source[c[1]]

IInv ==
  /\ TypeOK
  /\ LineInv
  /\ ChildrenInv
  /\ WaitInv
  /\ IgnoreInv
  /\ EndsInv
  /\ InputInv

----------------------------------------------------------------------------
(***************************************************************************)
(* Lines and children.                                                     *)
(***************************************************************************)

\* The first and the second processes of the lines differ, and none is the shell.
LEMMA ChildrenType ==
  /\ \A c \in Children : c[1] \in Lines /\ c[2] \in {1, 2} /\ c = <<c[1], c[2]>>
  /\ \A l \in Lines : <<l, 1>> \in Children /\ <<l, 2>> \in Children
  /\ \A l, m \in Lines : <<l, 1>> # <<m, 2>>
  /\ Shell \notin Children
BY DEF Children, Lines, Shell

\* TypeOK in two parts: who holds what, and the rest.
EndsOK ==
  /\ readEnds \in [Lines -> SUBSET (Children \cup {Shell})]
  /\ writeEnds \in [Lines -> SUBSET (Children \cup {Shell})]
  /\ \A l \in Lines, c \in Children : c \in readEnds[l] \cup writeEnds[l] => Alive(c)
  /\ ignoresInt \subseteq Children /\ \A c \in ignoresInt : Alive(c)

RestOK ==
  /\ input \in Inputs /\ mode \in {"file", "terminal"}
  /\ line <= MaxLines
  /\ source \in Seq(1 .. Len(input)) /\ offset \in 0 .. Len(input)
  /\ movedBy \subseteq Children
  /\ shellPc \in {"prompt", "pipe", "fork1", "fork2", "close", "wait1", "wait2",
                 "ended", "exited"}
  /\ pid1 \in {"unset", "child", "failed"} /\ pid2 \in {"unset", "child", "failed"}
  /\ child \in [Children -> {"none", "forked", "armed", "ready", "running", "gone"}]
  /\ sigints \in 0 .. MaxSigints

\* TypeOK in two parts, who holds the pipes' ends and the rest.
LEMMA TypeParts ==
  /\ TypeOK <=> EndsOK /\ RestOK
  /\ TypeOK' <=> EndsOK' /\ RestOK'
BY ChildrenType DEF TypeOK, EndsOK, RestOK

\* The lines handled so far come from the input.
LEMMA LinesType ==
  ASSUME RestOK
  PROVE  /\ input \in Seq(Kinds) /\ Len(input) \in Nat
         /\ line \in Nat /\ line <= MaxLines /\ 1 .. line \subseteq Lines
         /\ \A l \in 1 .. line : source[l] \in 1 .. Len(input) /\ kind(l) \in Kinds
<1>1. input \in Seq(Kinds) /\ Len(input) \in Nat
  BY DEF RestOK
<1>2. source \in Seq(1 .. Len(input)) /\ line \in Nat /\ line <= MaxLines
  BY DEF RestOK, line
<1>3. \A l \in 1 .. line : source[l] \in 1 .. Len(input)
  BY <1>2 DEF line
<1>. QED  BY <1>1, <1>2, <1>3 DEF kind, Lines


\* The processes of the line being handled.
LEMMA CurrentChildren ==
  ASSUME RestOK, line > 0
  PROVE  line \in Lines /\ <<line, 1>> \in Children /\ <<line, 2>> \in Children
BY LinesType, ChildrenType DEF Lines

\* What InputInv says of the next state when a file is being read.
LEMMA FileInput ==
  ASSUME line' > 0, mode' = "file", movedBy' = {} => offset' = Len(input'),
         \A c \in movedBy' : /\ c[1] \in 1 .. line' /\ source'[c[1]] < Len(input')
                             /\ child'[c] = "gone" /\ offset' <= source'[c[1]]
                             /\ movedBy' = {c} => offset' = source'[c[1]]
  PROVE  InputInv'
BY DEF InputInv

\* A step that leaves standard input alone and starts nobody again.
LEMMA InputKeeps ==
  ASSUME InputInv, UNCHANGED <<inputVars, offset, movedBy>>,
         \A c \in movedBy : child[c] = "gone" => child'[c] = "gone"
  PROVE  InputInv'
<1>1. line' = line /\ input' = input /\ mode' = mode /\ source' = source
      /\ offset' = offset /\ movedBy' = movedBy
  BY DEF inputVars, line
<1>2. \A c \in movedBy : /\ c[1] \in 1 .. line /\ source[c[1]] < Len(input) /\ child'[c] = "gone"
                          /\ offset <= source[c[1]]
                          /\ movedBy = {c} => offset = source[c[1]]
  BY DEF InputInv
<1>. QED  BY <1>1, <1>2 DEF InputInv

\* A child goes on from one place to the next: nobody starts and nobody ends.
LEMMA ChildGoesOn ==
  ASSUME RestOK, LineInv, ChildrenInv, WaitInv, InputInv,
         NEW c \in Children, child[c] \notin {"none", "gone"},
         NEW x \in {"armed", "ready", "running"}, x = "armed" => isPiped(KindOf(c)),
         child' = [child EXCEPT ![c] = x],
         UNCHANGED <<shellVars, offset, movedBy, sigints>>
  PROVE  RestOK' /\ LineInv' /\ ChildrenInv' /\ WaitInv' /\ InputInv'
<1>. USE DEF shellVars, inputVars
<1>1. RestOK'
  BY DEF RestOK, line
<1>2. LineInv' /\ InputInv'
  <2>1. LineInv'
    BY DEF LineInv, kind, line
  <2>2. \A d \in movedBy : child[d] = "gone" => child'[d] = "gone"
    BY DEF RestOK
  <2>. QED  BY <2>1, <2>2, InputKeeps
<1>3. ChildrenInv'
  <2>1. \A d \in Children : child'[d] = IF d = c THEN x ELSE child[d]
    BY DEF RestOK
  <2>2. line' = line /\ \A d \in Children : KindOf(d)' = KindOf(d)
    BY DEF KindOf, kind, line
  <2>3. shellPc \in {"pipe", "fork1", "fork2"} =>
          <<line, 1>> \in Children /\ <<line, 2>> \in Children
    BY CurrentChildren DEF LineInv
  <2>. QED  BY <2>1, <2>2, <2>3 DEF ChildrenInv
<1>4. WaitInv'
  <2>1. \A d \in Children : Alive(d)' <=> Alive(d)
    BY DEF RestOK, Alive
  <2>2. \A l \in 1 .. line : <<l, 1>> \in Children
    BY LinesType, ChildrenType
  <2>. QED  BY <2>1, <2>2 DEF WaitInv, FailedAndWaited, kind, line
<1>. QED  BY <1>1, <1>2, <1>3, <1>4

\* A new line has no processes and no pipe yet, and getline() is one line further on.
LEMMA ReadLineInv ==
  ASSUME IInv, ReadLine
  PROVE  IInv'
<1>. USE DEF ReadLine
<1>0. EndsOK /\ RestOK /\ LineInv /\ ChildrenInv /\ WaitInv /\ IgnoreInv /\ EndsInv /\ InputInv
  BY TypeParts DEF IInv
<1>1. /\ NextLine \in 1 .. Len(input)
      /\ NextLine = IF ReadAhead THEN source[line] + 1 ELSE offset + 1
  <2>1. ReadAhead => source[line] \in 1 .. Len(input)
    BY <1>0, LinesType DEF ReadAhead
  <2>2. NextLine <= Len(input) /\ offset \in Nat /\ Len(input) \in Nat
    BY <1>0, LinesType DEF RestOK
  <2>. QED  BY <2>1, <2>2 DEF NextLine
<1>2. /\ line' = line + 1 /\ line + 1 \in Lines /\ input' = input
      /\ source'[line + 1] = NextLine
      /\ \A l \in 1 .. line : source'[l] = source[l]
  BY <1>0, <1>1, LinesType DEF line, Lines, RestOK
<1>3. /\ kind(line)' = input[NextLine]
      /\ \A l \in 1 .. line : kind(l)' = kind(l)
  BY <1>2 DEF kind
<1>4. \A c \in Children : child[c] # "none" => c[1] \in 1 .. line /\ KindOf(c)' = KindOf(c)
  BY <1>0, <1>3, LinesType, ChildrenType DEF ChildrenInv, KindOf, Lines
<1>5. EndsOK'
  BY <1>0 DEF EndsOK, Alive, childVars
<1>6. RestOK'
  BY <1>0, <1>1, <1>2, LinesType DEF RestOK, ReadAhead, childVars, line
<1>7. LineInv'
  BY <1>0, <1>2, <1>3, LinesType DEF LineInv, isPiped
<1>8. ChildrenInv'
  <2>1. /\ <<line + 1, 1>> \in Children /\ child[<<line + 1, 1>>] = "none"
        /\ <<line + 1, 2>> \in Children /\ child[<<line + 1, 2>>] = "none"
    BY <1>0, <1>2, <1>4, LinesType, ChildrenType
  <2>2. child' = child
    BY DEF childVars
  <2>3. \A c \in Children : child'[c] # "none" => c[1] <= line'
    <3>1. \A c \in Children : child[c] # "none" => c[1] \in 1 .. line
      BY <1>4
    <3>2. line \in Nat
      BY <1>0, LinesType
    <3>. QED  BY <1>2, <2>2, <3>1, <3>2
  <2>4. \A c \in Children : child'[c] # "none" => KindOf(c)' = KindOf(c)
    BY <1>4, <2>2
  <2>5. \A c \in Children : child'[c] # "none" /\ c[2] = 2 => KindOf(c)' = "pipe"
    BY <1>0, <2>2, <2>4 DEF ChildrenInv
  <2>6. \A c \in Children : child'[c] = "armed" => isPiped(KindOf(c))'
    BY <1>0, <2>2, <2>4 DEF ChildrenInv, isPiped
  <2>7. child'[<<line', 1>>] = "none" /\ child'[<<line', 2>>] = "none"
    BY <1>2, <2>1, <2>2
  <2>. QED  BY <2>3, <2>5, <2>6, <2>7 DEF ChildrenInv
<1>9. WaitInv'
  BY <1>0, <1>2, <1>3, LinesType DEF WaitInv, FailedAndWaited, Alive, childVars
<1>10. IgnoreInv'
  BY <1>0, <1>4 DEF IgnoreInv, Alive, childVars
<1>11. EndsInv'
  <2>. SUFFICES ASSUME NEW l \in Lines PROVE LineEnds(l)'
    BY DEF EndsInv
  <2>1. LineEnds(l) /\ l \in Nat
    BY <1>0 DEF EndsInv, Lines
  <2>2. CASE l > line
    BY <1>0, <1>2, <1>3, <2>1, <2>2, LinesType
    DEF LineEnds, HoldsPipe, isPiped, childVars
  <2>3. CASE l <= line
    BY <1>0, <1>2, <1>3, <2>1, <2>3, LinesType DEF LineEnds, HoldsPipe, Starting, childVars, Lines
  <2>. QED  BY <2>1, <2>2, <2>3, <1>0, LinesType
<1>12. InputInv'
  <2>1. InputInv /\ line \in Nat /\ offset \in Nat /\ Len(input) \in Nat /\ movedBy \subseteq Children
        /\ \A l \in 1 .. line : source[l] \in 1 .. Len(input)
    BY <1>0, LinesType DEF RestOK
  <2>2. mode' = mode /\ input' = input
    OBVIOUS
  <2>3. CASE ReadAhead
    <3>1. mode = "file" /\ offset' = offset /\ movedBy' = movedBy /\ line > 0
      BY <2>3 DEF ReadAhead
    <3>2. line' > 0 /\ mode' = "file" /\ (movedBy' = {} => offset' = Len(input)')
      BY <1>2, <2>1, <2>2, <3>1 DEF InputInv
    <3>3. \A c \in movedBy :
             /\ c[1] \in 1 .. line /\ source[c[1]] < Len(input) /\ child[c] = "gone"
             /\ offset <= source[c[1]]
             /\ movedBy = {c} => offset = source[c[1]]
      BY <2>1 DEF InputInv
    <3>4. ASSUME NEW c \in movedBy'
          PROVE  /\ c[1] \in 1 .. line' /\ source'[c[1]] < Len(input')
                 /\ child'[c] = "gone" /\ offset' <= source'[c[1]]
                 /\ movedBy' = {c} => offset' = source'[c[1]]
      <4>1. /\ c \in movedBy /\ c[1] \in 1 .. line /\ source[c[1]] < Len(input)
            /\ child[c] = "gone" /\ offset <= source[c[1]]
            /\ movedBy = {c} => offset = source[c[1]]
        BY <3>1, <3>3
      <4>2. source'[c[1]] = source[c[1]] /\ c[1] \in 1 .. line'
        <5>. DEFINE m == c[1]
        <5>. HIDE DEF ReadLine
        <5>1. m \in 1 .. line /\ line' = line + 1 /\ line \in Nat
          BY <1>2, <2>1, <4>1
        <5>2. \A l \in 1 .. line : source'[l] = source[l]
          BY <1>2
        <5>. HIDE DEF m
        <5>3. source'[m] = source[m] /\ m \in 1 .. line'
          BY <5>1, <5>2
        <5>. QED  BY <5>3 DEF m
      <4>3. child' = child
        BY DEF childVars
      <4>. QED  BY <2>2, <3>1, <4>1, <4>2, <4>3
    <3>. HIDE DEF ReadLine
    <3>. QED  BY <2>2, <3>2, <3>4, FileInput
  <2>4. CASE ~ReadAhead /\ mode = "terminal"
    <3>1. NextLine = line + 1 /\ offset' = line + 1 /\ movedBy' = {}
      BY <1>1, <2>1, <2>4 DEF InputInv
    <3>. QED  BY <1>2, <2>1, <2>2, <2>4, <3>1 DEF InputInv
  <2>5. CASE ~ReadAhead /\ mode = "file"
    <3>1. offset' = Len(input) /\ movedBy' = {}
      BY <2>5
    <3>. QED  BY <1>2, <2>1, <2>2, <2>5, <3>1 DEF InputInv
  <2>. QED  BY <1>0, <2>3, <2>4, <2>5 DEF RestOK
<1>. QED  BY <1>5, <1>6, <1>7, <1>8, <1>9, <1>10, <1>11, <1>12, TypeParts DEF IInv

\* At the end of the input the shell lets go of all pipes.
LEMMA EndOfInputInv ==
  ASSUME IInv, EndOfInput
  PROVE  IInv'
<1>. USE DEF EndOfInput, ShellEnds, Without, NextLine, ReadAhead, inputVars, shellVars, childVars
<1>0. EndsOK /\ RestOK /\ LineInv /\ ChildrenInv /\ WaitInv /\ IgnoreInv /\ EndsInv /\ InputInv
  BY TypeParts DEF IInv
<1>1. EndsOK'
  BY <1>0 DEF EndsOK, Alive
<1>2. RestOK'
  BY <1>0 DEF RestOK, line
<1>3. LineInv'
  BY <1>0 DEF LineInv, kind, line, isPiped, isBackground
<1>4. ChildrenInv'
  BY <1>0 DEF ChildrenInv, KindOf, kind, line
<1>5. WaitInv'
  BY <1>0 DEF WaitInv, FailedAndWaited, kind, line, Alive, isBackground
<1>6. IgnoreInv'
  BY <1>0 DEF IgnoreInv, KindOf, kind, line, Alive
<1>7. EndsInv'
  BY <1>0 DEF EndsInv, LineEnds, HoldsPipe, kind, line, Starting
<1>8. InputInv'
  BY <1>0, InputKeeps DEF childVars
<1>. QED  BY <1>1, <1>2, <1>3, <1>4, <1>5, <1>6, <1>7, <1>8, TypeParts DEF IInv

\* pipe() gives the shell, and nobody else, both ends.
LEMMA PipeInv ==
  ASSUME IInv, Pipe
  PROVE  IInv'
<1>. USE DEF Pipe, inputVars, shellVars, childVars
<1>0. EndsOK /\ RestOK /\ LineInv /\ ChildrenInv /\ WaitInv /\ IgnoreInv /\ EndsInv /\ InputInv
  BY TypeParts DEF IInv
<1>1. EndsOK'
  BY <1>0, ChildrenType DEF EndsOK, Alive
<1>2. RestOK'
  BY <1>0 DEF RestOK, line
<1>3. LineInv'
  BY <1>0 DEF LineInv, kind, line, isPiped, isBackground
<1>4. ChildrenInv'
  BY <1>0 DEF ChildrenInv, KindOf, kind, line
<1>5. WaitInv'
  BY <1>0 DEF WaitInv, FailedAndWaited, kind, line, Alive, isBackground
<1>6. IgnoreInv'
  BY <1>0 DEF IgnoreInv, KindOf, kind, line, Alive
<1>7. EndsInv'
  <2>. SUFFICES ASSUME NEW l \in Lines PROVE LineEnds(l)'
    BY DEF EndsInv
  <2>1. LineEnds(l) /\ line' = line /\ line > 0 /\ kind(line) \in Kinds /\ isPiped(kind(line))
        /\ line \in Nat /\ l \in Nat /\ Shell \notin Children
    BY <1>0, ChildrenType, LinesType DEF EndsInv, LineInv, line, Lines
  <2>2. CASE l = line
    <3>1. readEnds'[l] = {Shell} /\ writeEnds'[l] = {Shell} /\ shellPc' = "fork1"
      BY <1>0, <2>2 DEF EndsOK
    <3>. QED  BY <2>1, <2>2, <3>1 DEF LineEnds, HoldsPipe
  <2>3. CASE l # line
    <3>1. readEnds'[l] = readEnds[l] /\ writeEnds'[l] = writeEnds[l] /\ kind(l)' = kind(l)
      BY <1>0, <2>3 DEF EndsOK, kind
    <3>. QED  BY <2>1, <2>3, <3>1 DEF LineEnds, HoldsPipe, Starting
  <2>. QED  BY <2>2, <2>3
<1>8. InputInv'
  BY <1>0, InputKeeps DEF childVars
<1>. QED  BY <1>1, <1>2, <1>3, <1>4, <1>5, <1>6, <1>7, <1>8, TypeParts DEF IInv

\* A shell that exits lets go of all pipes.
LEMMA PipeFailsInv ==
  ASSUME IInv, PipeFails
  PROVE  IInv'
<1>. USE DEF PipeFails, ShellEnds, Without, inputVars, shellVars, childVars
<1>0. EndsOK /\ RestOK /\ LineInv /\ ChildrenInv /\ WaitInv /\ IgnoreInv /\ EndsInv /\ InputInv
  BY TypeParts DEF IInv
<1>1. EndsOK'
  BY <1>0 DEF EndsOK, Alive
<1>2. RestOK'
  BY <1>0 DEF RestOK, line
<1>3. LineInv'
  BY <1>0 DEF LineInv, kind, line, isPiped, isBackground
<1>4. ChildrenInv'
  BY <1>0 DEF ChildrenInv, KindOf, kind, line
<1>5. WaitInv'
  BY <1>0 DEF WaitInv, FailedAndWaited, kind, line, Alive, isBackground
<1>6. IgnoreInv'
  BY <1>0 DEF IgnoreInv, KindOf, kind, line, Alive
<1>7. EndsInv'
  BY <1>0 DEF EndsInv, LineEnds, HoldsPipe, kind, line, Starting
<1>8. InputInv'
  BY <1>0, InputKeeps DEF childVars
<1>. QED  BY <1>1, <1>2, <1>3, <1>4, <1>5, <1>6, <1>7, <1>8, TypeParts DEF IInv

\* What fork() does to the children, the pipes and SIGINT.
LEMMA ForkStarts ==
  ASSUME RestOK, EndsOK, IgnoreInv, NEW c \in Children, child[c] = "none", Fork(c),
         UNCHANGED inputVars
  PROVE  /\ EndsOK' /\ IgnoreInv'
         /\ child' \in [Children -> {"none", "forked", "armed", "ready", "running", "gone"}]
         /\ \A d \in Children : child'[d] = IF d = c THEN "forked" ELSE child[d]
         /\ \A l \in Lines :
              /\ readEnds'[l] = IF Shell \in readEnds[l] THEN readEnds[l] \cup {c} ELSE readEnds[l]
              /\ writeEnds'[l] = IF Shell \in writeEnds[l] THEN writeEnds[l] \cup {c}
                                                          ELSE writeEnds[l]
<1>. USE DEF Fork, Copied, inputVars
<1>1. /\ child' \in [Children -> {"none", "forked", "armed", "ready", "running", "gone"}]
      /\ \A d \in Children : child'[d] = IF d = c THEN "forked" ELSE child[d]
  BY DEF RestOK
<1>2. \A l \in Lines :
        /\ readEnds'[l] = IF Shell \in readEnds[l] THEN readEnds[l] \cup {c} ELSE readEnds[l]
        /\ writeEnds'[l] = IF Shell \in writeEnds[l] THEN writeEnds[l] \cup {c} ELSE writeEnds[l]
  OBVIOUS
<1>3. /\ readEnds' \in [Lines -> SUBSET (Children \cup {Shell})]
      /\ writeEnds' \in [Lines -> SUBSET (Children \cup {Shell})]
  BY DEF EndsOK
<1>4. \A d \in Children : Alive(d)' <=> d = c \/ Alive(d)
  BY <1>1 DEF Alive
<1>5. EndsOK'
  BY <1>2, <1>3, <1>4 DEF EndsOK
<1>6. IgnoreInv'
  BY <1>1, <1>4 DEF IgnoreInv, KindOf, kind
<1>. QED  BY <1>1, <1>2, <1>5, <1>6

\* The first process inherits the ends the shell holds; a failed fork makes pid1 -1.
LEMMA Fork1Inv ==
  ASSUME IInv, Fork1
  PROVE  IInv'
<1>. USE DEF Fork1, inputVars
<1>0. EndsOK /\ RestOK /\ LineInv /\ ChildrenInv /\ WaitInv /\ IgnoreInv /\ EndsInv /\ InputInv
  BY TypeParts DEF IInv
<1>. DEFINE c == <<line, 1>>
<1>1. /\ line > 0 /\ line \in Nat /\ line' = line /\ kind(line) \in Kinds /\ line \in Lines
      /\ c \in Children /\ child[c] = "none" /\ c[1] = line /\ c[2] = 1
      /\ <<line, 2>> \in Children /\ child[<<line, 2>>] = "none" /\ c # <<line, 2>>
      /\ c \notin {Shell}
  BY <1>0, CurrentChildren, LinesType, ChildrenType DEF LineInv, ChildrenInv, line
<1>2. /\ \A l \in 1 .. line : kind(l)' = kind(l)
      /\ kind(line)' = kind(line)
      /\ \A d \in Children : KindOf(d)' = KindOf(d)
  BY DEF kind, KindOf, line
<1>3. /\ EndsOK' /\ IgnoreInv'
      /\ child' \in [Children -> {"none", "forked", "armed", "ready", "running", "gone"}]
      /\ \A d \in Children : d # c => child'[d] = child[d]
      /\ child'[c] \in {"none", "forked"}
      /\ \A l \in Lines :
           \/ readEnds'[l] = readEnds[l]
           \/ Shell \in readEnds[l] /\ child'[c] = "forked" /\ readEnds'[l] = readEnds[l] \cup {c}
      /\ \A l \in Lines :
           \/ writeEnds'[l] = writeEnds[l]
           \/ Shell \in writeEnds[l] /\ writeEnds'[l] = writeEnds[l] \cup {c}
  <2>. HIDE DEF c
  <2>1. CASE Fork(c)
    BY <1>0, <1>1, <2>1, ForkStarts
  <2>2. CASE UNCHANGED childVars
    BY <1>0, <1>1, <2>2 DEF EndsOK, RestOK, IgnoreInv, KindOf, kind, Alive, childVars
  <2>. QED  BY <2>1, <2>2 DEF c
<1>. HIDE DEF c
<1>4. RestOK'
  BY <1>0, <1>1, <1>3 DEF RestOK, AfterFork1
<1>5. LineInv'
  BY <1>0, <1>1, <1>2 DEF LineInv, AfterFork1, isBackground, Kinds
<1>6. ChildrenInv'
  <2>1. /\ shellPc' \in {"pipe", "fork1", "fork2"} => child'[<<line, 2>>] = "none"
        /\ shellPc' \notin {"pipe", "fork1"}
    BY <1>1, <1>3 DEF AfterFork1
  <2>2. \A d \in Children : child'[d] # "none" => d = c \/ child[d] = child'[d]
    BY <1>3
  <2>3. c[1] <= line /\ c[2] # 2 /\ child'[c] # "armed"
    BY <1>1, <1>3
  <2>. QED  BY <1>0, <1>1, <1>2, <2>1, <2>2, <2>3 DEF ChildrenInv
<1>7. WaitInv'
  <2>1. /\ ~FailedAndWaited'
        /\ shellPc' # "wait2"
        /\ shellPc' = "prompt" => isBackground(kind(line))
    BY <1>1, <1>2 DEF FailedAndWaited, AfterFork1
  <2>2. ASSUME NEW l \in 1 .. line, l < line
        PROVE  <<l, 1>> \in Children /\ <<l, 1>> # c
    <3>1. l \in Lines /\ l # line
      BY <1>0, <1>1, <2>2, LinesType
    <3>. QED  BY <3>1, ChildrenType DEF c
  <2>3. \A l \in 1 .. line : l < line => (Alive(<<l, 1>>)' <=> Alive(<<l, 1>>))
    BY <1>3, <2>2 DEF Alive
  <2>. QED  BY <1>0, <1>1, <1>2, <2>1, <2>3 DEF WaitInv
<1>8. EndsInv'
  <2>. SUFFICES ASSUME NEW l \in Lines PROVE LineEnds(l)'
    BY DEF EndsInv
  <2>1. LineEnds(l) /\ <<l, 1>> \in Children /\ <<l, 2>> \in Children /\ Shell \notin Children
        /\ l \in Nat /\ (l <= line => l \in 1 .. line)
    BY <1>0, ChildrenType, LinesType DEF EndsInv, Lines
  <2>2. CASE l = line
    <3>1. c = <<l, 1>>
      BY <2>2 DEF c
    <3>. QED
      BY <1>1, <1>2, <1>3, <2>1, <2>2, <3>1
      DEF LineEnds, HoldsPipe, Starting, AfterFork1, isBackground, Kinds
  <2>3. CASE l < line
    <3>1. c # <<l, 1>> /\ c # <<l, 2>>
      BY <1>1, <2>1, <2>3 DEF c
    <3>. QED
      BY <1>1, <1>2, <1>3, <2>1, <2>3, <3>1
      DEF LineEnds, HoldsPipe, Starting, AfterFork1
  <2>4. CASE l > line
    BY <1>1, <1>3, <2>1, <2>4 DEF LineEnds
  <2>. QED  BY <1>0, <2>1, <2>2, <2>3, <2>4, LinesType
<1>9. InputInv'
  <2>1. \A d \in movedBy : child[d] = "gone" => child'[d] = "gone"
    <3>1. movedBy \subseteq Children
      BY <1>0 DEF RestOK
    <3>. QED  BY <1>1, <1>3, <3>1
  <2>. QED  BY <1>0, <2>1, InputKeeps
<1>. QED  BY <1>3, <1>4, <1>5, <1>6, <1>7, <1>8, <1>9, TypeParts DEF IInv

\* The second process inherits the ends of its line's pipe and of pipes left open.
LEMMA Fork2Inv ==
  ASSUME IInv, Fork2
  PROVE  IInv'
<1>. USE DEF Fork2, inputVars
<1>0. EndsOK /\ RestOK /\ LineInv /\ ChildrenInv /\ WaitInv /\ IgnoreInv /\ EndsInv /\ InputInv
  BY TypeParts DEF IInv
<1>. DEFINE c == <<line, 2>>
<1>1. /\ line > 0 /\ line \in Nat /\ line' = line /\ kind(line) \in Kinds /\ line \in Lines /\ kind(line) = "pipe"
      /\ c \in Children /\ child[c] = "none" /\ c[1] = line /\ c[2] = 2
      /\ c \notin {Shell}
  BY <1>0, CurrentChildren, LinesType, ChildrenType DEF LineInv, ChildrenInv, line
<1>2. /\ \A l \in 1 .. line : kind(l)' = kind(l)
      /\ kind(line)' = kind(line)
      /\ \A d \in Children : KindOf(d)' = KindOf(d)
  BY DEF kind, KindOf, line
<1>3. /\ EndsOK' /\ IgnoreInv'
      /\ child' \in [Children -> {"none", "forked", "armed", "ready", "running", "gone"}]
      /\ \A d \in Children : d # c => child'[d] = child[d]
      /\ child'[c] \in {"none", "forked"}
      /\ \A l \in Lines :
           \/ readEnds'[l] = readEnds[l]
           \/ Shell \in readEnds[l] /\ child'[c] = "forked" /\ readEnds'[l] = readEnds[l] \cup {c}
      /\ \A l \in Lines :
           \/ writeEnds'[l] = writeEnds[l]
           \/ Shell \in writeEnds[l] /\ child'[c] = "forked" /\ writeEnds'[l] = writeEnds[l] \cup {c}
  <2>. HIDE DEF c
  <2>1. CASE Fork(c)
    BY <1>0, <1>1, <2>1, ForkStarts
  <2>2. CASE UNCHANGED childVars
    BY <1>0, <1>1, <2>2 DEF EndsOK, RestOK, IgnoreInv, KindOf, kind, Alive, childVars
  <2>. QED  BY <2>1, <2>2 DEF c
<1>. HIDE DEF c
<1>4. RestOK'
  BY <1>0, <1>1, <1>3 DEF RestOK
<1>5. LineInv'
  BY <1>0, <1>1, <1>2 DEF LineInv, isBackground, Kinds
<1>6. ChildrenInv'
  <2>1. \A d \in Children : child'[d] # "none" => d = c \/ child[d] = child'[d]
    BY <1>3
  <2>2. c[1] <= line /\ KindOf(c) = "pipe" /\ child'[c] # "armed"
    BY <1>1, <1>3 DEF KindOf
  <2>. QED  BY <1>0, <1>1, <1>2, <2>1, <2>2 DEF ChildrenInv
<1>7. WaitInv'
  <2>1. ~FailedAndWaited' /\ shellPc' \notin {"wait2", "prompt"}
    BY DEF FailedAndWaited
  <2>2. ASSUME NEW l \in 1 .. line
        PROVE  <<l, 1>> \in Children /\ <<l, 1>> # c
    <3>1. l \in Lines
      BY <1>0, LinesType
    <3>. QED  BY <1>1, <3>1, ChildrenType DEF c
  <2>3. \A l \in 1 .. line : Alive(<<l, 1>>)' <=> Alive(<<l, 1>>)
    BY <1>3, <2>2 DEF Alive
  <2>. QED  BY <1>0, <1>1, <1>2, <2>1, <2>3 DEF WaitInv
<1>8. EndsInv'
  <2>. SUFFICES ASSUME NEW l \in Lines PROVE LineEnds(l)'
    BY DEF EndsInv
  <2>1. LineEnds(l) /\ <<l, 1>> \in Children /\ <<l, 2>> \in Children /\ Shell \notin Children
        /\ l \in Nat /\ (l <= line => l \in 1 .. line)
    BY <1>0, ChildrenType, LinesType DEF EndsInv, Lines
  <2>2. CASE l = line
    <3>1. c = <<l, 2>>
      BY <2>2 DEF c
    <3>. QED
      BY <1>1, <1>2, <1>3, <2>1, <2>2, <3>1
      DEF LineEnds, HoldsPipe, Starting, isBackground, Kinds
  <2>3. CASE l < line
    <3>1. c # <<l, 1>> /\ c # <<l, 2>>
      BY <1>1, <2>1, <2>3 DEF c
    <3>. QED
      BY <1>1, <1>2, <1>3, <2>1, <2>3, <3>1
      DEF LineEnds, HoldsPipe, Starting
  <2>4. CASE l > line
    BY <1>1, <1>3, <2>1, <2>4 DEF LineEnds
  <2>. QED  BY <1>0, <2>1, <2>2, <2>3, <2>4, LinesType
<1>9. InputInv'
  <2>1. \A d \in movedBy : child[d] = "gone" => child'[d] = "gone"
    <3>1. movedBy \subseteq Children
      BY <1>0 DEF RestOK
    <3>. QED  BY <1>1, <1>3, <3>1
  <2>. QED  BY <1>0, <2>1, InputKeeps
<1>. QED  BY <1>3, <1>4, <1>5, <1>6, <1>7, <1>8, <1>9, TypeParts DEF IInv

\* After close() only children hold the pipe.
LEMMA ClosePipeInv ==
  ASSUME IInv, ClosePipe
  PROVE  IInv'
<1>. USE DEF ClosePipe, inputVars, shellVars, childVars
<1>0. EndsOK /\ RestOK /\ LineInv /\ ChildrenInv /\ WaitInv /\ IgnoreInv /\ EndsInv /\ InputInv
  BY TypeParts DEF IInv
<1>1. EndsOK'
  BY <1>0 DEF EndsOK, Alive
<1>2. RestOK'
  BY <1>0 DEF RestOK, line
<1>3. LineInv'
  BY <1>0 DEF LineInv, kind, line, isPiped, isBackground
<1>4. ChildrenInv'
  BY <1>0 DEF ChildrenInv, KindOf, kind, line
<1>5. WaitInv'
  BY <1>0 DEF WaitInv, FailedAndWaited, kind, line, Alive, isBackground
<1>6. IgnoreInv'
  BY <1>0 DEF IgnoreInv, KindOf, kind, line, Alive
<1>7. EndsInv'
  <2>. SUFFICES ASSUME NEW l \in Lines PROVE LineEnds(l)'
    BY DEF EndsInv
  <2>1. LineEnds(l) /\ line' = line /\ kind(line) = "pipe" /\ kind(l)' = kind(l)
    BY <1>0 DEF EndsInv, LineInv, line, kind
  <2>2. CASE l = line
    <3>1. readEnds'[l] = readEnds[l] \ {Shell} /\ writeEnds'[l] = writeEnds[l] \ {Shell}
      BY <1>0, <2>2 DEF EndsOK
    <3>. QED  BY <2>1, <2>2, <3>1 DEF LineEnds, HoldsPipe, Starting
  <2>3. CASE l # line
    <3>1. readEnds'[l] = readEnds[l] /\ writeEnds'[l] = writeEnds[l]
      BY <1>0, <2>3 DEF EndsOK
    <3>. QED  BY <2>1, <2>3, <3>1 DEF LineEnds, HoldsPipe, Starting
  <2>. QED  BY <2>2, <2>3
<1>8. InputInv'
  BY <1>0, InputKeeps DEF childVars
<1>. QED  BY <1>1, <1>2, <1>3, <1>4, <1>5, <1>6, <1>7, <1>8, TypeParts DEF IInv

\* The first wait is over when the first process is gone or nobody is left.
LEMMA Wait1Inv ==
  ASSUME IInv, Wait1
  PROVE  IInv'
<1>. USE DEF Wait1, Waitpid, WaitsForSecond, inputVars, shellVars, childVars
<1>0. EndsOK /\ RestOK /\ LineInv /\ ChildrenInv /\ WaitInv /\ IgnoreInv /\ EndsInv /\ InputInv
  BY TypeParts DEF IInv
<1>1. EndsOK'
  BY <1>0 DEF EndsOK, Alive
<1>2. RestOK'
  BY <1>0 DEF RestOK, line
<1>3. LineInv'
  BY <1>0 DEF LineInv, kind, line, isPiped, isBackground
<1>4. ChildrenInv'
  BY <1>0 DEF ChildrenInv, KindOf, kind, line
<1>5. WaitInv'
  <2>1. line > 0 /\ line \in Nat /\ line' = line /\ <<line, 1>> \in Children
        /\ ~isBackground(kind(line)) /\ kind(line)' = kind(line)
        /\ \A l \in 1 .. line : kind(l)' = kind(l) /\ <<l, 1>> \in Children
    <3>1. line > 0 /\ line \in Nat /\ ~isBackground(kind(line)) /\ <<line, 1>> \in Children
      BY <1>0, LinesType, CurrentChildren DEF LineInv
    <3>2. \A l \in 1 .. line : <<l, 1>> \in Children
      BY <1>0, LinesType, ChildrenType
    <3>. QED  BY <3>1, <3>2 DEF line, kind
  <2>2. pid1 = "failed" => \A c \in Children : ~Alive(c)
    OBVIOUS
  <2>3. ~Alive(<<line, 1>>)
    BY <2>1
  <2>4. \A c \in Children : Alive(c)' <=> Alive(c)
    BY DEF Alive
  <2>. QED  BY <1>0, <2>1, <2>2, <2>3, <2>4 DEF WaitInv, FailedAndWaited
<1>6. IgnoreInv'
  BY <1>0 DEF IgnoreInv, KindOf, kind, line, Alive
<1>7. EndsInv'
  BY <1>0 DEF EndsInv, LineEnds, HoldsPipe, kind, line, Starting
<1>8. InputInv'
  BY <1>0, InputKeeps DEF childVars
<1>. QED  BY <1>1, <1>2, <1>3, <1>4, <1>5, <1>6, <1>7, <1>8, TypeParts DEF IInv

\* The second wait comes only after a failed fork, and with no child left.
LEMMA Wait2Inv ==
  ASSUME IInv, Wait2
  PROVE  IInv'
<1>. USE DEF Wait2, Waitpid, inputVars, shellVars, childVars
<1>0. EndsOK /\ RestOK /\ LineInv /\ ChildrenInv /\ WaitInv /\ IgnoreInv /\ EndsInv /\ InputInv
  BY TypeParts DEF IInv
<1>1. EndsOK'
  BY <1>0 DEF EndsOK, Alive
<1>2. RestOK'
  BY <1>0 DEF RestOK, line
<1>3. LineInv'
  BY <1>0 DEF LineInv, kind, line, isPiped, isBackground
<1>4. ChildrenInv'
  BY <1>0 DEF ChildrenInv, KindOf, kind, line
<1>5. WaitInv'
  BY <1>0, ChildrenType, LinesType DEF WaitInv, FailedAndWaited, kind, line, Alive, isBackground
<1>6. IgnoreInv'
  BY <1>0 DEF IgnoreInv, KindOf, kind, line, Alive
<1>7. EndsInv'
  BY <1>0 DEF EndsInv, LineEnds, HoldsPipe, kind, line, Starting
<1>8. InputInv'
  BY <1>0, InputKeeps DEF childVars
<1>. QED  BY <1>1, <1>2, <1>3, <1>4, <1>5, <1>6, <1>7, <1>8, TypeParts DEF IInv

\* sigaction() decides who ignores SIGINT, once for each process.
LEMMA SigactionInv ==
  ASSUME IInv, NEW c \in Children, Sigaction(c)
  PROVE  IInv'
<1>. USE DEF Sigaction, AsksForSigint, inputVars, shellVars
<1>0. EndsOK /\ RestOK /\ LineInv /\ ChildrenInv /\ WaitInv /\ IgnoreInv /\ EndsInv /\ InputInv
  BY TypeParts DEF IInv
<1>1. RestOK' /\ LineInv' /\ ChildrenInv' /\ WaitInv' /\ InputInv'
  BY <1>0, ChildGoesOn
<1>2. EndsOK'
  BY <1>0, ChildrenType DEF EndsOK, Alive, RestOK
<1>3. IgnoreInv'
  BY <1>0 DEF IgnoreInv, KindOf, kind, Alive, RestOK
<1>4. EndsInv'
  <2>. SUFFICES ASSUME NEW l \in Lines PROVE LineEnds(l)'
    BY DEF EndsInv
  <2>1. LineEnds(l) /\ <<l, 1>> \in Children /\ <<l, 2>> \in Children /\ Shell \notin Children
    BY <1>0, ChildrenType DEF EndsInv
  <2>2. \A d \in Children : child'[d] = IF d = c THEN (IF isPiped(KindOf(c)) THEN "armed" ELSE "ready") ELSE child[d]
    BY <1>0 DEF RestOK
  <2>. QED  BY <1>0, <2>1, <2>2 DEF LineEnds, HoldsPipe, KindOf, kind, line, Starting, EndsOK, isPiped
<1>. QED  BY <1>1, <1>2, <1>3, <1>4, TypeParts DEF IInv

\* A process of a pipe keeps the one end it uses.
LEMMA SetPipeInv ==
  ASSUME IInv, NEW c \in Children, SetPipe(c)
  PROVE  IInv'
<1>. USE DEF SetPipe, CloseOtherEnd, inputVars, shellVars
<1>0. EndsOK /\ RestOK /\ LineInv /\ ChildrenInv /\ WaitInv /\ IgnoreInv /\ EndsInv /\ InputInv
  BY TypeParts DEF IInv
<1>1. RestOK' /\ LineInv' /\ ChildrenInv' /\ WaitInv' /\ InputInv'
  BY <1>0, ChildGoesOn
<1>2. EndsOK'
  <2>1. c[1] \in Lines /\ c[2] \in {1, 2}
    BY ChildrenType
  <2>2. /\ readEnds' \in [Lines -> SUBSET (Children \cup {Shell})]
        /\ writeEnds' \in [Lines -> SUBSET (Children \cup {Shell})]
        /\ \A l \in Lines : readEnds'[l] \subseteq readEnds[l]
        /\ \A l \in Lines : writeEnds'[l] \subseteq writeEnds[l]
    BY <1>0, <2>1 DEF EndsOK
  <2>3. \A d \in Children : Alive(d) => Alive(d)'
    BY <1>0 DEF RestOK, Alive
  <2>. QED  BY <1>0, <2>2, <2>3 DEF EndsOK
<1>3. IgnoreInv'
  BY <1>0 DEF IgnoreInv, KindOf, kind, Alive, RestOK
<1>4. EndsInv'
  <2>. SUFFICES ASSUME NEW l \in Lines PROVE LineEnds(l)'
    BY DEF EndsInv
  <2>1. LineEnds(l) /\ <<l, 1>> \in Children /\ <<l, 2>> \in Children /\ Shell \notin Children
    BY <1>0, ChildrenType DEF EndsInv
  <2>2. \A d \in Children : child'[d] = IF d = c THEN "ready" ELSE child[d]
    BY <1>0 DEF RestOK
  <2>. QED  BY <1>0, <2>1, <2>2 DEF LineEnds, HoldsPipe, KindOf, kind, line, Starting, EndsOK, isPiped
<1>. QED  BY <1>1, <1>2, <1>3, <1>4, TypeParts DEF IInv

\* exec() changes neither the pipe's ends nor the dispositions.
LEMMA ExecInv ==
  ASSUME IInv, NEW c \in Children, Exec(c)
  PROVE  IInv'
<1>. USE DEF Exec, inputVars, shellVars
<1>0. EndsOK /\ RestOK /\ LineInv /\ ChildrenInv /\ WaitInv /\ IgnoreInv /\ EndsInv /\ InputInv
  BY TypeParts DEF IInv
<1>1. RestOK' /\ LineInv' /\ ChildrenInv' /\ WaitInv' /\ InputInv'
  BY <1>0, ChildGoesOn
<1>2. EndsOK'
  BY <1>0, ChildrenType DEF EndsOK, Alive, RestOK
<1>3. IgnoreInv'
  BY <1>0 DEF IgnoreInv, KindOf, kind, Alive, RestOK
<1>4. EndsInv'
  <2>. SUFFICES ASSUME NEW l \in Lines PROVE LineEnds(l)'
    BY DEF EndsInv
  <2>1. LineEnds(l) /\ <<l, 1>> \in Children /\ <<l, 2>> \in Children /\ Shell \notin Children
    BY <1>0, ChildrenType DEF EndsInv
  <2>2. \A d \in Children : child'[d] = IF d = c THEN "running" ELSE child[d]
    BY <1>0 DEF RestOK
  <2>. QED  BY <1>0, <2>1, <2>2 DEF LineEnds, HoldsPipe, KindOf, kind, line, Starting, EndsOK, isPiped
<1>. QED  BY <1>1, <1>2, <1>3, <1>4, TypeParts DEF IInv

\* Processes end: whoever they are, nobody else's place changes.
LEMMA DieKeeps ==
  ASSUME IInv, NEW procs \in SUBSET {c \in Children : Alive(c)}, Die(procs),
         UNCHANGED shellVars
  PROVE  /\ EndsOK' /\ LineInv' /\ ChildrenInv' /\ WaitInv' /\ IgnoreInv' /\ EndsInv'
         /\ child' \in [Children -> {"none", "forked", "armed", "ready", "running", "gone"}]
<1>. USE DEF shellVars, inputVars
<1>0. EndsOK /\ RestOK /\ LineInv /\ ChildrenInv /\ WaitInv /\ IgnoreInv /\ EndsInv
  BY TypeParts DEF IInv
<1>1. /\ line' = line
      /\ \A l : kind(l)' = kind(l)
      /\ \A c : KindOf(c)' = KindOf(c)
  BY DEF line, kind, KindOf
<1>2. /\ child' \in [Children -> {"none", "forked", "armed", "ready", "running", "gone"}]
      /\ \A c \in Children : child'[c] = IF c \in procs THEN "gone" ELSE child[c]
      /\ \A c \in Children : child[c] = "none" <=> child'[c] = "none"
      /\ \A c \in Children : Alive(c)' <=> Alive(c) /\ c \notin procs
      /\ ignoresInt' = ignoresInt \ procs
  BY <1>0 DEF RestOK, Alive, Die
<1>3. /\ readEnds' \in [Lines -> SUBSET (Children \cup {Shell})]
      /\ writeEnds' \in [Lines -> SUBSET (Children \cup {Shell})]
      /\ \A l \in Lines : readEnds'[l] = readEnds[l] \ procs
      /\ \A l \in Lines : writeEnds'[l] = writeEnds[l] \ procs
      /\ Shell \notin procs
  BY <1>0, ChildrenType DEF EndsOK, Die, Without
<1>4. EndsOK'
  BY <1>0, <1>2, <1>3 DEF EndsOK
<1>5. LineInv'
  BY <1>0 DEF LineInv, line, kind
<1>6. ChildrenInv'
  <2>1. \A c \in Children : child'[c] \in {child[c], "gone"}
    BY <1>2
  <2>2. shellPc \in {"pipe", "fork1", "fork2"} =>
          <<line, 1>> \in Children /\ <<line, 2>> \in Children
    BY <1>0, CurrentChildren DEF LineInv
  <2>. QED  BY <1>0, <1>1, <1>2, <2>1, <2>2 DEF ChildrenInv
<1>7. WaitInv'
  <2>1. \A l \in 1 .. line : <<l, 1>> \in Children
    BY <1>0, LinesType, ChildrenType
  <2>. QED  BY <1>0, <1>2, <2>1 DEF WaitInv, FailedAndWaited, line, kind
<1>8. IgnoreInv'
  BY <1>0, <1>1, <1>2 DEF IgnoreInv
<1>9. EndsInv'
  <2>. SUFFICES ASSUME NEW l \in Lines PROVE LineEnds(l)'
    BY DEF EndsInv
  <2>1. LineEnds(l) /\ <<l, 1>> \in Children /\ <<l, 2>> \in Children
    BY <1>0, ChildrenType DEF EndsInv
  <2>. QED
    BY <1>2, <1>3, <2>1 DEF LineEnds, HoldsPipe, Starting, line, kind
<1>. QED  BY <1>2, <1>4, <1>5, <1>6, <1>7, <1>8, <1>9

\* A child that calls exit() may move the offset of standard input back.
LEMMA ExitInv ==
  ASSUME IInv, NEW c \in Children, Alive(c), Exit(c)
  PROVE  IInv'
<1>. USE DEF Exit, shellVars, inputVars
<1>0. RestOK /\ ChildrenInv /\ InputInv
  BY TypeParts DEF IInv
<1>1. /\ EndsOK' /\ LineInv' /\ ChildrenInv' /\ WaitInv' /\ IgnoreInv' /\ EndsInv'
      /\ child' \in [Children -> {"none", "forked", "armed", "ready", "running", "gone"}]
  BY DieKeeps
<1>2. PICK unread : /\ unread = IF HasInputFile(c) THEN Len(input) - source[c[1]] ELSE 0
                    /\ offset' = IF unread <= offset THEN offset - unread ELSE offset
                    /\ movedBy' = IF offset' = offset THEN movedBy ELSE movedBy \cup {c}
  OBVIOUS
<1>3. c[1] \in 1 .. line /\ source[c[1]] \in 1 .. Len(input) /\ Len(input) \in Nat /\ line \in Nat
  BY <1>0, LinesType, ChildrenType DEF ChildrenInv, Alive, Lines
<1>4. unread \in 0 .. Len(input) /\ offset \in 0 .. Len(input)
  BY <1>0, <1>2, <1>3 DEF RestOK
<1>5. offset' \in 0 .. Len(input) /\ offset' <= offset /\ movedBy' \subseteq Children
  <2>1. offset' \in 0 .. Len(input) /\ offset' <= offset
    <3>. HIDE DEF Exit
    <3>1. CASE unread <= offset /\ offset' = offset - unread
      BY <1>3, <1>4, <3>1
    <3>2. CASE offset' = offset
      BY <1>3, <1>4, <3>2
    <3>. QED  BY <1>2, <3>1, <3>2
  <2>2. movedBy' \subseteq Children
    BY <1>0, <1>2 DEF RestOK
  <2>. QED  BY <2>1, <2>2
<1>6. RestOK'
  BY <1>0, <1>1, <1>5 DEF RestOK, line
<1>7. InputInv'
  <2>1. line' = line /\ source' = source /\ input' = input /\ mode' = mode
    BY DEF line
  <2>2. /\ child'[c] = "gone" /\ child[c] # "gone"
        /\ \A d \in movedBy : child[d] = "gone" => child'[d] = "gone"
    BY <1>0 DEF RestOK, Alive, Die
  <2>3. CASE offset' = offset
    <3>1. movedBy' = movedBy
      BY <1>2, <2>3
    <3>. QED  BY <1>0, <2>1, <2>2, <2>3, <3>1, InputKeeps
  <2>4. CASE offset' # offset
    <3>1. /\ mode = "file" /\ movedBy' = movedBy \cup {c} /\ source[c[1]] < Len(input)
          /\ offset' = offset - (Len(input) - source[c[1]])
      BY <1>2, <1>3, <1>4, <2>4 DEF HasInputFile
    <3>2. offset' <= source[c[1]]
      BY <1>3, <1>4, <3>1
    <3>3. c \notin movedBy
      BY <1>0, <2>2 DEF InputInv
    <3>4. movedBy' = {c} => offset' = source[c[1]]
      <4>. SUFFICES ASSUME movedBy' = {c} PROVE offset' = source[c[1]]
        OBVIOUS
      <4>1. movedBy = {}
        BY <3>1, <3>3
      <4>2. offset = Len(input)
        BY <1>0, <1>3, <3>1, <4>1 DEF InputInv
      <4>. QED  BY <1>3, <3>1, <4>2
    <3>5. ASSUME NEW d \in movedBy
          PROVE  /\ d[1] \in 1 .. line /\ source[d[1]] < Len(input) /\ child'[d] = "gone"
                 /\ offset' <= source[d[1]]
                 /\ movedBy' # {d}
      <4>1. d[1] \in 1 .. line /\ source[d[1]] < Len(input) /\ child[d] = "gone" /\ offset <= source[d[1]]
        BY <1>0 DEF InputInv
      <4>2. source[d[1]] \in Nat
        BY <1>0, <4>1, LinesType
      <4>3. offset' <= source[d[1]]
        BY <1>4, <1>5, <4>1, <4>2
      <4>. QED  BY <2>2, <3>1, <3>3, <4>1, <4>3
    <3>6. \A d \in movedBy' :
             /\ d[1] \in 1 .. line /\ source[d[1]] < Len(input) /\ child'[d] = "gone"
             /\ offset' <= source[d[1]]
             /\ movedBy' = {d} => offset' = source[d[1]]
      BY <1>3, <2>2, <3>1, <3>2, <3>4, <3>5
    <3>. HIDE DEF Exit
    <3>7. line' > 0
      BY <1>3, <2>1
    <3>8. movedBy' # {}
      BY <3>1
    <3>. QED  BY <2>1, <3>1, <3>6, <3>7, <3>8, FileInput
  <2>. QED  BY <2>3, <2>4
<1>. QED  BY <1>1, <1>6, <1>7, TypeParts DEF IInv

\* A death that leaves standard input alone: a program ends, or SIGINT comes.
LEMMA DeathInv ==
  ASSUME IInv, NEW procs \in SUBSET {c \in Children : Alive(c)}, Die(procs),
         UNCHANGED <<shellVars, offset, movedBy>>, sigints' \in 0 .. MaxSigints
  PROVE  IInv'
<1>. USE DEF shellVars, inputVars
<1>0. RestOK /\ InputInv
  BY TypeParts DEF IInv
<1>1. /\ EndsOK' /\ LineInv' /\ ChildrenInv' /\ WaitInv' /\ IgnoreInv' /\ EndsInv'
      /\ child' \in [Children -> {"none", "forked", "armed", "ready", "running", "gone"}]
  BY DieKeeps
<1>2. RestOK'
  BY <1>0, <1>1 DEF RestOK, line
<1>3. InputInv'
  <2>1. \A d \in movedBy : child[d] = "gone" => child'[d] = "gone"
    BY <1>0 DEF RestOK, Die
  <2>. QED  BY <1>0, <2>1, InputKeeps
<1>. QED  BY <1>1, <1>2, <1>3, TypeParts DEF IInv

----------------------------------------------------------------------------
(***************************************************************************)
(* The invariant, and what follows from it.                                *)
(***************************************************************************)

\* The shell before its first line has the inductive invariant.
LEMMA InitInv == Init => IInv
<1>. SUFFICES ASSUME Init PROVE IInv
  OBVIOUS
<1>. USE DEF Init
<1>1. input \in Seq(Kinds) /\ Len(input) \in Nat /\ line = 0
  BY DEF line
<1>2. RestOK
  <2>1. << >> \in Seq(1 .. Len(input)) /\ 0 \in 0 .. Len(input) /\ 0 \in 0 .. MaxSigints
    BY <1>1
  <2>2. child \in [Children -> {"none", "forked", "armed", "ready", "running", "gone"}]
    OBVIOUS
  <2>3. source \in Seq(1 .. Len(input)) /\ offset \in 0 .. Len(input) /\ sigints \in 0 .. MaxSigints
    BY <2>1
  <2>4. line <= MaxLines
    BY <1>1
  <2>. QED  BY <2>2, <2>3, <2>4 DEF RestOK
<1>3. EndsOK /\ IgnoreInv
  BY DEF EndsOK, IgnoreInv, Alive
<1>4. LineInv /\ ChildrenInv /\ InputInv
  BY <1>1 DEF LineInv, ChildrenInv, InputInv
<1>5. WaitInv
  BY <1>1 DEF WaitInv, FailedAndWaited
<1>6. EndsInv
  BY <1>1 DEF EndsInv, LineEnds, Lines
<1>. QED  BY <1>2, <1>3, <1>4, <1>5, <1>6, TypeParts DEF IInv

\* Every step of the shell and of its children keeps the inductive invariant.
LEMMA StepInv == IInv /\ [Next]_vars => IInv'
<1>. SUFFICES ASSUME IInv, [Next]_vars PROVE IInv'
  OBVIOUS
<1>1. CASE UNCHANGED vars
  BY <1>1 DEF vars, shellVars, inputVars, childVars, IInv, TypeOK, Alive, LineInv, ChildrenInv,
     WaitInv, FailedAndWaited, IgnoreInv, EndsInv, LineEnds, HoldsPipe, Starting, InputInv, KindOf,
     kind, line
<1>2. CASE ShellStep \/ EndOfInput
  BY <1>2, ReadLineInv, PipeInv, PipeFailsInv, Fork1Inv, Fork2Inv, ClosePipeInv, Wait1Inv,
     Wait2Inv, EndOfInputInv
  DEF ShellStep
<1>3. CASE Sigint
  <2>. DEFINE procs == {c \in Children : Alive(c) /\ c \notin ignoresInt}
  <2>1. procs \in SUBSET {c \in Children : Alive(c)}
    OBVIOUS
  <2>2. sigints' \in 0 .. MaxSigints
    BY <1>3, TypeParts DEF Sigint, IInv, RestOK
  <2>. QED  BY <1>3, <2>1, <2>2, DeathInv DEF Sigint
<1>4. ASSUME NEW c \in Children, Starts(c)
      PROVE  IInv'
  <2>1. CASE Sigaction(c) \/ SetPipe(c) \/ Exec(c)
    BY <2>1, SigactionInv, SetPipeInv, ExecInv
  <2>2. CASE SetPipeFails(c) \/ ExecFails(c)
    BY <2>2, ExitInv DEF SetPipeFails, ExecFails, Alive
  <2>. QED  BY <1>4, <2>1, <2>2 DEF Starts
<1>5. ASSUME NEW c \in Children, ProgramEnds(c)
      PROVE  IInv'
  <2>1. {c} \in SUBSET {d \in Children : Alive(d)}
    BY <1>5 DEF ProgramEnds, Alive
  <2>2. sigints' \in 0 .. MaxSigints
    BY <1>5, TypeParts DEF ProgramEnds, IInv, RestOK
  <2>. QED  BY <1>5, <2>1, <2>2, DeathInv DEF ProgramEnds
<1>. QED  BY <1>1, <1>2, <1>3, <1>4, <1>5 DEF Next

\* IInv holds in every reachable state of the shell.
THEOREM Invariance == Spec => []IInv
BY InitInv, StepInv, PTL DEF Spec

\* Every variable keeps its type; only living processes hold an end of a pipe.
THEOREM TypeCorrect == Spec => []TypeOK
<1>1. IInv => TypeOK
  BY DEF IInv
<1>. QED  BY <1>1, Invariance, PTL

\* The prompt comes back only when the foreground processes are gone, and after a
\* failed fork() only when every child is.
THEOREM PromptCorrect == Spec => []PromptAfterForeground
<1>1. IInv => PromptAfterForeground
  BY DEF IInv, WaitInv, FailedAndWaited, PromptAfterForeground
<1>. QED  BY <1>1, Invariance, PTL

\* Once the shell has closed a pipe only its two programs hold it, each at its end;
\* the pipe of a line with | and & is never closed.
THEOREM PipeCorrect == Spec => []PipeHeldByItsPrograms
<1>1. IInv => PipeHeldByItsPrograms
  <2>. SUFFICES ASSUME IInv, NEW l \in 1 .. line
                PROVE  /\ kind(l) = "pipe" /\ (l < line \/ shellPc \in {"wait1", "wait2", "prompt"}) =>
                            /\ writeEnds[l] \subseteq {<<l, 1>>} \cup
                                 {c \in {<<l, 2>>} : child[c] \in {"forked", "armed"}}
                            /\ readEnds[l] \subseteq {<<l, 2>>} \cup
                                 {c \in {<<l, 1>>} : child[c] \in {"forked", "armed"}}
                       /\ kind(l) = "pipebg" /\ shellPc = "prompt" =>
                            Shell \in readEnds[l] \cap writeEnds[l]
    BY DEF PipeHeldByItsPrograms
  <2>1. LineEnds(l) /\ l <= line
    BY TypeParts, LinesType DEF IInv, EndsInv
  <2>. QED  BY <2>1 DEF LineEnds, HoldsPipe, Starting
<1>. QED  BY <1>1, Invariance, PTL

\* The shell handles the lines in order and to the end, and goes back only from the
\* end of a file and behind a command that could not be run.
THEOREM LinesCorrect == Spec => LinesInOrder
<1>. DEFINE NextInOrder ==
       LET next == source'[line']
       IN \/ next = LastLine + 1
          \/ /\ LastLine = Len(input) /\ movedBy # {}
             /\ \A c \in movedBy : /\ next <= source[c[1]] + 1
                                   /\ movedBy = {c} => next = source[c[1]] + 1
            EndInOrder == LastLine = Len(input) /\ movedBy = {}
<1>1. ASSUME IInv, [Next]_vars, line' # line
      PROVE  NextInOrder
  <2>1. ReadLine
    BY <1>1 DEF Next, ShellStep, EndOfInput, ShellEnds, Pipe, PipeFails, Fork1, Fork2, ClosePipe,
       Wait1, Wait2, Starts, Sigaction, SetPipe, SetPipeFails, Exit, Exec, ExecFails, ProgramEnds,
       Sigint, vars, shellVars, inputVars, line
  <2>2. RestOK /\ InputInv
    BY <1>1, TypeParts DEF IInv
  <2>3. /\ line \in Nat /\ offset \in Nat /\ Len(input) \in Nat
        /\ \A l \in 1 .. line : source[l] \in 1 .. Len(input)
    BY <2>2, LinesType DEF RestOK
  <2>4. source'[line'] = NextLine /\ NextLine <= Len(input)
    BY <2>1, <2>2, <2>3 DEF ReadLine, RestOK, line
  <2>5. CASE ReadAhead \/ line = 0 \/ mode = "terminal"
    BY <2>2, <2>3, <2>4, <2>5 DEF NextLine, ReadAhead, LastLine, InputInv
  <2>6. CASE ~ReadAhead /\ line > 0 /\ mode = "file"
    <3>1. LastLine = Len(input) /\ source'[line'] = offset + 1
      BY <2>3, <2>4, <2>6 DEF NextLine, ReadAhead, LastLine
    <3>2. movedBy # {}
      BY <2>2, <2>3, <2>4, <2>6 DEF NextLine, InputInv
    <3>3. ASSUME NEW c \in movedBy
          PROVE  /\ source'[line'] <= source[c[1]] + 1
                 /\ movedBy = {c} => source'[line'] = source[c[1]] + 1
      <4>. DEFINE m == c[1]
      <4>1. m \in 1 .. line /\ offset <= source[m] /\ (movedBy = {c} => offset = source[m])
        BY <2>2 DEF InputInv
      <4>. HIDE DEF m
      <4>2. source[m] \in 1 .. Len(input)
        BY <2>3, <4>1
      <4>3. offset + 1 <= source[m] + 1 /\ (movedBy = {c} => offset + 1 = source[m] + 1)
        BY <2>3, <4>1, <4>2
      <4>. QED  BY <3>1, <4>3 DEF m
    <3>. QED  BY <3>1, <3>2, <3>3
  <2>. QED  BY <2>2, <2>3, <2>5, <2>6 DEF RestOK
<1>2. ASSUME IInv, [Next]_vars, shellPc # "ended", shellPc' = "ended"
      PROVE  EndInOrder
  <2>1. EndOfInput
    BY <1>2 DEF Next, ShellStep, ReadLine, ShellEnds, Pipe, PipeFails, Fork1, Fork2, AfterFork1,
       ClosePipe, Wait1, Wait2, Starts, Sigaction, SetPipe, SetPipeFails, Exit, Exec, ExecFails,
       ProgramEnds, Sigint, vars, shellVars
  <2>2. RestOK /\ InputInv
    BY <1>2, TypeParts DEF IInv
  <2>3. /\ line \in Nat /\ offset \in 0 .. Len(input) /\ Len(input) \in Nat
        /\ \A l \in 1 .. line : source[l] \in 1 .. Len(input)
    BY <2>2, LinesType DEF RestOK
  <2>4. ~ReadAhead /\ offset = Len(input)
    BY <2>1, <2>3 DEF EndOfInput, NextLine, ReadAhead
  <2>5. movedBy = {}
    BY <2>2, <2>3, <2>4 DEF InputInv
  <2>6. LastLine = Len(input)
    BY <2>2, <2>3, <2>4 DEF InputInv, ReadAhead, LastLine, RestOK
  <2>. QED  BY <2>5, <2>6
<1>. HIDE DEF NextInOrder, EndInOrder
<1>3. IInv /\ [Next]_vars =>
        [/\ line' # line => NextInOrder
         /\ shellPc # "ended" /\ shellPc' = "ended" => EndInOrder]_vars
  BY <1>1, <1>2
<1>. USE DEF NextInOrder, EndInOrder
<1>. QED  BY <1>3, Invariance, PTL DEF Spec, LinesInOrder

\* SIGINT ends exactly the processes that do not belong to a background line without
\* a pipe and have come as far as their sigaction().
THEOREM SigintCorrect == Spec => SigintEndsForeground
<1>1. ASSUME IInv, [Next]_vars, sigints' # sigints, NEW c \in Children, Alive(c)
      PROVE  child'[c] = "gone" <=> KindOf(c) # "bg" /\ child[c] # "forked"
  <2>1. Sigint
    BY <1>1 DEF Next, ShellStep, ReadLine, EndOfInput, ShellEnds, Pipe, PipeFails, Fork1, Fork2,
       ClosePipe, Wait1, Wait2, Starts, Sigaction, SetPipe, SetPipeFails, Exit, Exec, ExecFails,
       ProgramEnds, vars
  <2>2. child'[c] = "gone" <=> c \notin ignoresInt
    BY <1>1, <2>1, TypeParts DEF Sigint, Die, Alive
  <2>. QED  BY <1>1, <2>2 DEF IInv, IgnoreInv
<1>2. IInv /\ [Next]_vars =>
        [sigints' # sigints =>
           \A c \in Children : Alive(c) =>
             (child'[c] = "gone" <=> KindOf(c) # "bg" /\ child[c] # "forked")]_vars
  BY <1>1
<1>. QED  BY <1>2, Invariance, PTL DEF Spec, SigintEndsForeground
=============================================================================
