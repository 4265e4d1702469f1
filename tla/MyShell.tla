------------------------------- MODULE MyShell -------------------------------
(***************************************************************************)
(* hw2: the shell.  main reads a line, process_arglist (myshell.c) starts  *)
(* one process for it, or two and a pipe between them, and waits unless    *)
(* the line ends with &.  SIGCHLD is ignored, so a process that ends is    *)
(* reaped at once and waitpid() returns -1 when the process it waits for   *)
(* is gone.  SIGINT is ignored by the shell and by what it forks, until    *)
(* the child asks for the default.                                         *)
(*                                                                         *)
(* A line is told by its kind.  A pipe is told by who holds its two ends:  *)
(* fork() copies the shell's descriptors, dup2() and exec() keep them.     *)
(* The programs are external: they end, or do not, as their pipe allows.   *)
(*                                                                         *)
(* Standard input is shared too.  From a file, getline() reads ahead to    *)
(* the end, and a child that calls exit() instead of running its program   *)
(* moves the file's offset back over what it has not used of that, unless  *)
(* it reads from a pipe by then.  The offset is counted in lines, as if    *)
(* they were equally long.                                                 *)
(***************************************************************************)
EXTENDS Integers, Sequences, FiniteSets

CONSTANTS
  Inputs,      \* what the shell may be given: sequences of kinds of lines
  MaxLines,    \* how many lines it may handle
  MaxSigints   \* how many times SIGINT is sent to the process group

VARIABLES
  input, mode,    \* the lines of standard input; "file" or "terminal"
  offset,         \* how many of them are behind stdin's offset
  source,         \* which of them each line handled was
  shellPc,
  pid1, pid2,     \* what fork() returned: "child", or "failed" for -1; "unset" before
  child,          \* where each child is
  ignoresInt,     \* the children for which SIGINT is still ignored
  readEnds, writeEnds,   \* who holds each line's pipe
  movedBy,        \* who has moved the offset back since the shell last read from it
  sigints

inputVars == <<input, mode, source>>
childVars == <<child, ignoresInt, readEnds, writeEnds>>
shellVars == <<inputVars, shellPc, pid1, pid2>>
vars == <<shellVars, childVars, offset, movedBy, sigints>>

Kinds == {"fg", "bg", "pipe", "pipebg"}

ASSUME InputsAssumption == Inputs \subseteq Seq(Kinds)
ASSUME LinesAssumption == MaxLines \in Nat
ASSUME SigintsAssumption == MaxSigints \in Nat

Lines    == 1 .. MaxLines
Children == Lines \X {1, 2}    \* the first and the second process of a line
Shell    == <<0, 0>>

isBackground(k) == k \in {"bg", "pipebg"}
isPiped(k)      == k \in {"pipe", "pipebg"}
Alive(c)        == child[c] \notin {"none", "gone"}
line            == Len(source)    \* the line being handled, 0 before the first
kind(l)         == input[source[l]]
KindOf(c)       == kind(c[1])

TypeOK ==
  /\ input \in Inputs /\ mode \in {"file", "terminal"}
  /\ line <= MaxLines
  /\ source \in Seq(1 .. Len(input)) /\ offset \in 0 .. Len(input)
  /\ movedBy \subseteq Children
  /\ shellPc \in {"prompt", "pipe", "fork1", "fork2", "close", "wait1", "wait2",
                 "ended", "exited"}
  /\ pid1 \in {"unset", "child", "failed"} /\ pid2 \in {"unset", "child", "failed"}
  /\ child \in [Children -> {"none", "forked", "armed", "ready", "running", "gone"}]
  /\ ignoresInt \subseteq {c \in Children : Alive(c)}
  /\ \A ends \in {readEnds, writeEnds} :
       /\ ends \in [Lines -> SUBSET (Children \cup {Shell})]
       /\ \A l \in Lines : \A c \in ends[l] \ {Shell} : Alive(c)
  /\ sigints \in 0 .. MaxSigints

Init ==
  /\ input \in Inputs /\ mode \in {"file", "terminal"}
  /\ offset = 0 /\ source = << >> /\ movedBy = {}
  /\ shellPc = "prompt" /\ pid1 = "unset" /\ pid2 = "unset"
  /\ child = [c \in Children |-> "none"] /\ ignoresInt = {}
  /\ readEnds = [l \in Lines |-> {}] /\ writeEnds = [l \in Lines |-> {}]
  /\ sigints = 0

----------------------------------------------------------------------------
(***************************************************************************)
(* The shell.                                                              *)
(***************************************************************************)

Without(ends, procs) == [l \in Lines |-> ends[l] \ procs]

Copied(ends, c) == [l \in Lines |-> IF Shell \in ends[l] THEN ends[l] \cup {c} ELSE ends[l]]

\* fork(): the child has the shell's descriptors and ignores SIGINT as the shell does.
Fork(c) ==
  /\ child' = [child EXCEPT ![c] = "forked"]
  /\ ignoresInt' = ignoresInt \cup {c}
  /\ readEnds' = Copied(readEnds, c)
  /\ writeEnds' = Copied(writeEnds, c)

ShellEnds(how) ==
  /\ shellPc' = how
  /\ readEnds' = Without(readEnds, {Shell})
  /\ writeEnds' = Without(writeEnds, {Shell})
  /\ UNCHANGED <<inputVars, pid1, pid2, child, ignoresInt, offset, movedBy, sigints>>

\* What getline() has read ahead of the line being handled; from a terminal it gets
\* one line at a time.
ReadAhead == mode = "file" /\ line > 0 /\ source[line] < Len(input)

NextFromOffset == offset + 1

NextLine == IF ReadAhead THEN source[line] + 1 ELSE offset + 1

ReadLine ==
  /\ shellPc = "prompt" /\ line < MaxLines
  /\ NextLine <= Len(input)
  /\ source' = Append(source, NextLine)
  /\ offset' = CASE ReadAhead         -> offset
                 [] mode = "terminal" -> offset + 1
                 [] OTHER             -> Len(input)
  /\ shellPc' = IF isPiped(input[NextLine]) THEN "pipe" ELSE "fork1"
  /\ pid1' = "unset" /\ pid2' = "unset"
  /\ movedBy' = IF ReadAhead THEN movedBy ELSE {}
  /\ UNCHANGED <<input, mode, childVars, sigints>>

EndOfInput == shellPc = "prompt" /\ NextLine > Len(input) /\ ShellEnds("ended")

Pipe ==
  /\ shellPc = "pipe"
  /\ readEnds' = [readEnds EXCEPT ![line] = {Shell}]
  /\ writeEnds' = [writeEnds EXCEPT ![line] = {Shell}]
  /\ shellPc' = "fork1"
  /\ UNCHANGED <<inputVars, pid1, pid2, child, ignoresInt, offset, movedBy, sigints>>

PipeFails == shellPc = "pipe" /\ ShellEnds("exited")

\* A background line returns at once, whether it has a pipe or not.
AfterFork1(k) == CASE isBackground(k) -> "prompt"
                   [] k = "pipe"      -> "fork2"
                   [] OTHER           -> "wait1"

Fork1 ==
  /\ shellPc = "fork1"
  /\ \/ Fork(<<line, 1>>) /\ pid1' = "child"
     \/ UNCHANGED childVars /\ pid1' = "failed"
  /\ shellPc' = AfterFork1(kind(line))
  /\ UNCHANGED <<inputVars, pid2, offset, movedBy, sigints>>

Fork2 ==
  /\ shellPc = "fork2"
  /\ \/ Fork(<<line, 2>>) /\ pid2' = "child"
     \/ UNCHANGED childVars /\ pid2' = "failed"
  /\ shellPc' = "close"
  /\ UNCHANGED <<inputVars, pid1, offset, movedBy, sigints>>

CloseReadEnd ==
  /\ shellPc = "close"
  /\ readEnds' = [readEnds EXCEPT ![line] = @ \ {Shell}]
  /\ shellPc' = "wait1"
  /\ UNCHANGED <<inputVars, pid1, pid2, child, ignoresInt, writeEnds, offset, movedBy, sigints>>

ClosePipe ==
  /\ shellPc = "close"
  /\ readEnds' = [readEnds EXCEPT ![line] = @ \ {Shell}]
  /\ writeEnds' = [writeEnds EXCEPT ![line] = @ \ {Shell}]
  /\ shellPc' = "wait1"
  /\ UNCHANGED <<inputVars, pid1, pid2, child, ignoresInt, offset, movedBy, sigints>>

WaitNohang(pid, c) == TRUE
WaitAll(pid, c)    == \A d \in Children : ~Alive(d)

\* waitpid() returns, with -1, when nobody is left to wait for: waitpid(-1), after
\* a failed fork(), waits for every child of the shell.
Waitpid(pid, c) ==
  IF pid = "failed" THEN \A d \in Children : ~Alive(d) ELSE ~Alive(c)

\* waitpid(pid1) == pid1 holds for -1 only, so the second wait is left out
\* after a first process that did start.
WaitsForSecond == kind(line) = "pipe" /\ pid1 = "failed"

Wait1 ==
  /\ shellPc = "wait1" /\ Waitpid(pid1, <<line, 1>>)
  /\ shellPc' = IF WaitsForSecond THEN "wait2" ELSE "prompt"
  /\ UNCHANGED <<inputVars, pid1, pid2, childVars, offset, movedBy, sigints>>

Wait2 ==
  /\ shellPc = "wait2" /\ Waitpid(pid2, <<line, 2>>)
  /\ shellPc' = "prompt"
  /\ UNCHANGED <<inputVars, pid1, pid2, childVars, offset, movedBy, sigints>>

----------------------------------------------------------------------------
(***************************************************************************)
(* A child, from fork() to the end of its program.                         *)
(***************************************************************************)

Die(procs) ==
  /\ child' = [c \in Children |-> IF c \in procs THEN "gone" ELSE child[c]]
  /\ ignoresInt' = ignoresInt \ procs
  /\ readEnds' = Without(readEnds, procs)
  /\ writeEnds' = Without(writeEnds, procs)

AsksIfForeground(c) == ~isBackground(KindOf(c))

\* Only a background line without a pipe keeps ignoring SIGINT.
AsksForSigint(c) == KindOf(c) # "bg"

Sigaction(c) ==
  /\ child[c] = "forked"
  /\ ignoresInt' = IF AsksForSigint(c) THEN ignoresInt \ {c} ELSE ignoresInt
  /\ child' = [child EXCEPT ![c] = IF isPiped(KindOf(c)) THEN "armed" ELSE "ready"]
  /\ UNCHANGED <<shellVars, readEnds, writeEnds, offset, movedBy, sigints>>

KeepBothEnds(c) == UNCHANGED <<readEnds, writeEnds>>

\* The first process keeps the write end of its pipe, the second the read end.
CloseOtherEnd(c) ==
  IF c[2] = 1
  THEN readEnds' = [readEnds EXCEPT ![c[1]] = @ \ {c}] /\ UNCHANGED writeEnds
  ELSE writeEnds' = [writeEnds EXCEPT ![c[1]] = @ \ {c}] /\ UNCHANGED readEnds

SetPipe(c) ==
  /\ child[c] = "armed"
  /\ CloseOtherEnd(c)
  /\ child' = [child EXCEPT ![c] = "ready"]
  /\ UNCHANGED <<shellVars, ignoresInt, offset, movedBy, sigints>>

\* The second process of a pipe has the pipe's read end for its standard input as
\* soon as its dup2() has succeeded.
HasInputFile(c) == mode = "file" /\ (c[2] = 2 => child[c] = "armed")

\* exit(1) in a child: it has the shell's copy of stdin, with what that has read ahead.
Exit(c) ==
  LET unread == IF HasInputFile(c) THEN Len(input) - source[c[1]] ELSE 0
  IN /\ Die({c})
     /\ offset' = IF unread <= offset THEN offset - unread ELSE offset
     /\ movedBy' = IF offset' = offset THEN movedBy ELSE movedBy \cup {c}
     /\ UNCHANGED <<shellVars, sigints>>

SetPipeFails(c) == child[c] = "armed" /\ Exit(c)

Exec(c) ==
  /\ child[c] = "ready"
  /\ child' = [child EXCEPT ![c] = "running"]
  /\ UNCHANGED <<shellVars, ignoresInt, readEnds, writeEnds, offset, movedBy, sigints>>

SecondShell(c) ==
  /\ child[c] = "ready"
  /\ child' = [child EXCEPT ![c] = "prompt"]
  /\ UNCHANGED <<shellVars, ignoresInt, readEnds, writeEnds, offset, movedBy, sigints>>

ExecFails(c) == child[c] = "ready" /\ Exit(c)

ProgramEnds(c) ==
  child[c] = "running" /\ Die({c}) /\ UNCHANGED <<shellVars, offset, movedBy, sigints>>

Sigint ==
  /\ sigints < MaxSigints
  /\ sigints' = sigints + 1
  /\ Die({c \in Children : Alive(c) /\ c \notin ignoresInt})
  /\ UNCHANGED <<shellVars, offset, movedBy>>

----------------------------------------------------------------------------
ShellStep == ReadLine \/ Pipe \/ PipeFails \/ Fork1 \/ Fork2 \/ ClosePipe \/ Wait1 \/ Wait2
Starts(c) == Sigaction(c) \/ SetPipe(c) \/ SetPipeFails(c) \/ Exec(c) \/ ExecFails(c)

Next == \/ ShellStep \/ EndOfInput \/ Sigint
        \/ \E c \in Children : Starts(c) \/ ProgramEnds(c)

\* What makes a program end: a reader reads to the end of its pipe, a writer
\* needs a reader or SIGPIPE, a foreground program comes to its end or to a
\* SIGINT of its own.  A background program may run for ever.
Due(c) ==
  CASE c[2] = 2           -> writeEnds[c[1]] = {}
    [] KindOf(c) = "pipe" -> readEnds[c[1]] = {} \/ child[<<c[1], 2>>] = "running"
    [] OTHER              -> KindOf(c) = "fg"

\* Every process that can take a step of the shell's code takes it.
Fairness ==
  /\ WF_vars(ShellStep)
  /\ \A c \in Children : WF_vars(Starts(c)) /\ WF_vars(Alive(c) /\ Due(c) /\ ProgramEnds(c))

Spec == Init /\ [][Next]_vars /\ Fairness

----------------------------------------------------------------------------
(***************************************************************************)
(* Properties.                                                             *)
(***************************************************************************)

\* The prompt comes back only when the process of every foreground line, the
\* first one of a pipe, is gone; and after a failed fork() of a foreground
\* line, only when nothing the shell has started is left.  This is what the code
\* does; what its comments say is PromptAfterBoth.
PromptAfterForeground ==
  shellPc = "prompt" =>
    /\ \A l \in 1 .. line : ~isBackground(kind(l)) => ~Alive(<<l, 1>>)
    /\ line > 0 /\ pid1 = "failed" /\ ~isBackground(kind(line))
         => \A c \in Children : ~Alive(c)

\* "Wait for two foreground children:" (myshell.c:150): the prompt comes back only
\* when both processes of a foreground pipe are gone.
PromptAfterBoth ==
  shellPc = "prompt" =>
    \A l \in 1 .. line : kind(l) = "pipe" => ~Alive(<<l, 1>>) /\ ~Alive(<<l, 2>>)

\* When the shell has closed a pipe, only the line's own two processes hold it,
\* each the end it uses once it has closed the other; and the pipe of a line with
\* both | and & is one the shell never closes.
PipeHeldByItsPrograms ==
  \A l \in 1 .. line :
    /\ kind(l) = "pipe" /\ (l < line \/ shellPc \in {"wait1", "wait2", "prompt"}) =>
         /\ writeEnds[l] \subseteq {<<l, 1>>} \cup
              {c \in {<<l, 2>>} : child[c] \in {"forked", "armed"}}
         /\ readEnds[l] \subseteq {<<l, 2>>} \cup
              {c \in {<<l, 1>>} : child[c] \in {"forked", "armed"}}
    /\ kind(l) = "pipebg" /\ shellPc = "prompt" => Shell \in readEnds[l] \cap writeEnds[l]

LastLine == IF line = 0 THEN 0 ELSE source[line]

\* The shell handles the lines of its input in order and skips none.  It goes back
\* only from the end of a file, and only if some command could not be run since it
\* last read from the file: after one such command the lines behind it come again,
\* after several a line that none of them is behind, and all that follow.  It does
\* not end as long as lines are to come again (myshell_main.c:27, myshell.c:66).
LinesInOrder ==
  [][/\ line' # line =>
          LET next == source'[line']
          IN \/ next = LastLine + 1
             \/ /\ LastLine = Len(input) /\ movedBy # {}
                /\ \A c \in movedBy : /\ next <= source[c[1]] + 1
                                      /\ movedBy = {c} => next = source[c[1]] + 1
     /\ shellPc # "ended" /\ shellPc' = "ended" => LastLine = Len(input) /\ movedBy = {}]_vars

\* SIGINT ends every program of a foreground line and every writer of a pipe, and
\* no program of a background line without a pipe; a child that is still between
\* fork() and sigaction() escapes it.
SigintEndsForeground ==
  [][sigints' # sigints =>
       \A c \in Children : Alive(c) =>
         (child'[c] = "gone" <=> KindOf(c) # "bg" /\ child[c] # "forked")]_vars

\* The shell stops waiting for a foreground process it has started.
PromptReturns == shellPc = "wait1" /\ pid1 = "child" ~> shellPc # "wait1"

\* When the first process of a pipe has ended, the second one ends too: the shell
\* and the process itself have closed their copies of the write end.
ReaderEnds ==
  \A l \in Lines :
    child[<<l, 1>>] = "gone" /\ child[<<l, 2>>] = "running" ~> child[<<l, 2>>] = "gone"
=============================================================================
