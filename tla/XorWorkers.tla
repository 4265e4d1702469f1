----------------------------- MODULE XorWorkers -----------------------------
(***************************************************************************)
(* hw4/hw4.c: one thread per input file; the threads xor their files block *)
(* by block into one shared buffer.  A round of blocks is a "level": the   *)
(* last thread to contribute writes the buffer to the output file, clears  *)
(* it, starts the next level and wakes those who wait for it.              *)
(*                                                                         *)
(* A critical section of bufferLock is one step, except where the code     *)
(* gives the mutex up in pthread_cond_wait, or makes write() calls under   *)
(* it, which another thread's exit(2) may cut short.  Every read(), every  *)
(* write() and every turn of main's loops is a step of its own.            *)
(***************************************************************************)
EXTENDS Integers, Sequences, FiniteSets

CONSTANTS
  N,            \* number of input files, argc - 2
  Sizes,        \* the lengths an input file may have
  BUFFER_SIZE,  \* bytes of a block
  MaxInt        \* INT_MAX

VARIABLES
  fileSize,        \* the length of each input file, fixed
  out,             \* the bytes in the output file
  proc,            \* "running", or how the process ended
  numThreads, workersDone, lengthToWrite, level, total_size, outputBuffer,
  bufferLock,      \* the thread that holds the mutex between two steps, or Nobody
  waiting,         \* the threads asleep on allDoneCond
  bytesWritten,    \* of writeToOutputFileAndCleanBuffer, run under the mutex
  pc,              \* where each worker is
  current_level, readBytes,
  offset,          \* each worker's position in its input file
  mainPc, i        \* main: creating or joining, and its loop counter

fileVars   == <<fileSize, out>>
sharedVars == <<numThreads, workersDone, lengthToWrite, level, total_size,
                outputBuffer>>
syncVars   == <<bufferLock, waiting, bytesWritten>>
workerVars == <<pc, current_level, readBytes, offset>>
mainVars   == <<mainPc, i>>
vars == <<fileVars, proc, sharedVars, syncVars, workerVars, mainVars>>

Abstract == INSTANCE XorOutput

Files  == Abstract!Files
Nobody == -1

ASSUME NAssumption == N \in Nat \ {0}
ASSUME SizesAssumption == Sizes \subseteq Nat
ASSUME BufferAssumption == BUFFER_SIZE \in Nat \ {0}
ASSUME MaxIntAssumption == MaxInt \in Nat

Positions == 0 .. BUFFER_SIZE-1

\* The value an int takes when an addition wraps at INT_MAX.
AsInt(n) == ((n + MaxInt + 1) % (2 * (MaxInt + 1))) - (MaxInt + 1)

WorkerPcs == {"new", "read", "xor", "xorWait", "count", "write",
              "finish", "finishWait", "lastWrite", "left"}

TypeOK ==
  /\ fileSize \in [Files -> Sizes]
  /\ out \in Seq(SUBSET Abstract!Byte)
  /\ proc \in {"running", "done", "failed", "crashed"}
  /\ numThreads \in 0 .. N /\ workersDone \in 0 .. N
  /\ lengthToWrite \in 0 .. BUFFER_SIZE
  /\ level \in Nat
  /\ total_size \in -(MaxInt + 1) .. MaxInt
  /\ outputBuffer \in [Positions -> SUBSET Abstract!Byte]
  /\ bufferLock \in Files \cup {Nobody}
  /\ waiting \subseteq Files
  /\ bytesWritten \in 0 .. BUFFER_SIZE
  /\ pc \in [Files -> WorkerPcs]
  /\ current_level \in [Files -> Nat]
  /\ readBytes \in [Files -> 0 .. BUFFER_SIZE]
  /\ offset \in [Files -> Nat]
  /\ mainPc \in {"create", "join"}
  /\ i \in 0 .. N

Init ==
  /\ fileSize \in [Files -> Sizes]
  /\ out = << >>
  /\ proc = "running"
  /\ numThreads = N
  /\ workersDone = 0 /\ lengthToWrite = 0 /\ level = 0 /\ total_size = 0
  /\ outputBuffer = [p \in Positions |-> {}]
  /\ bufferLock = Nobody
  /\ waiting = {}
  /\ bytesWritten = 0
  /\ pc = [t \in Files |-> "new"]
  /\ current_level = [t \in Files |-> 0]
  /\ readBytes = [t \in Files |-> 0]
  /\ offset = [t \in Files |-> 0]
  /\ mainPc = "create" /\ i = 0

Goto(t, label) == pc' = [pc EXCEPT ![t] = label]

----------------------------------------------------------------------------
(***************************************************************************)
(* main: create the threads, join them, return.                            *)
(***************************************************************************)

\* The bound of the creation loop is numThreads itself, read without the mutex
\* while the workers already started may decrement it.
MoreToCreateShort == i + 1 < numThreads

MoreToCreate == i < numThreads

CreateThread ==
  /\ mainPc = "create"
  /\ MoreToCreate
  /\ Goto(i, "read")
  /\ i' = i + 1
  /\ UNCHANGED <<fileVars, proc, sharedVars, syncVars, current_level,
                 readBytes, offset, mainPc>>

CreationDone ==
  /\ mainPc = "create"
  /\ ~MoreToCreate
  /\ mainPc' = "join" /\ i' = 0
  /\ UNCHANGED <<fileVars, proc, sharedVars, syncVars, workerVars>>

JoinThread ==
  /\ mainPc = "join" /\ i < N
  /\ pc[i] = "left"
  /\ i' = i + 1
  /\ UNCHANGED <<fileVars, proc, sharedVars, syncVars, workerVars, mainPc>>

\* threads[i] was never filled in: joining that indeterminate handle either
\* kills the process or returns an error, which the loop ignores.
JoinUncreated ==
  /\ mainPc = "join" /\ i < N
  /\ pc[i] = "new"
  /\ \/ i' = i + 1 /\ UNCHANGED proc
     \/ proc' = "crashed" /\ UNCHANGED i
  /\ UNCHANGED <<fileVars, sharedVars, syncVars, workerVars, mainPc>>

AllJoinedOfLive == i >= numThreads

AllJoined == i = N

ReturnFromMain ==
  /\ mainPc = "join" /\ AllJoined
  /\ proc' = "done"
  /\ UNCHANGED <<fileVars, sharedVars, syncVars, workerVars, mainVars>>

----------------------------------------------------------------------------
(***************************************************************************)
(* readNextBlock: read() until the block is full or the file ends.         *)
(***************************************************************************)

\* One read() that returns n > 0 bytes, as many as were asked for or fewer.
ReadSome(t) ==
  /\ pc[t] = "read"
  /\ readBytes[t] < BUFFER_SIZE
  /\ \E n \in 1 .. BUFFER_SIZE - readBytes[t] :
       /\ offset[t] + n <= fileSize[t]
       /\ readBytes' = [readBytes EXCEPT ![t] = @ + n]
       /\ offset' = [offset EXCEPT ![t] = @ + n]
       /\ Goto(t, IF readBytes[t] + n = BUFFER_SIZE THEN "xor" ELSE "read")
  /\ UNCHANGED <<fileVars, proc, sharedVars, syncVars, current_level, mainVars>>

\* read() returns 0.  The block is what came before, and no block is the end.
ReadEndOfFile(t) ==
  /\ pc[t] = "read"
  /\ offset[t] = fileSize[t]
  /\ Goto(t, IF readBytes[t] > 0 THEN "xor" ELSE "finish")
  /\ UNCHANGED <<fileVars, proc, sharedVars, syncVars, current_level,
                 readBytes, offset, mainVars>>

----------------------------------------------------------------------------
(***************************************************************************)
(* xorWithOutput: wait for the level, then xor the block into the buffer.  *)
(***************************************************************************)

OwnOrNextLevel(t) == current_level[t] <= level + 1

OwnLevel(t) == current_level[t] = level

\* Has t the mutex and leave to go on: at once, or back from the wait?
PassesLevel(t, before, asleep) ==
  /\ bufferLock = Nobody
  /\ \/ pc[t] = before /\ OwnLevel(t)
     \/ pc[t] = asleep /\ t \notin waiting

SleepUnlessLevel(t, before, asleep) ==
  /\ bufferLock = Nobody
  /\ pc[t] = before /\ ~OwnLevel(t)
  /\ waiting' = waiting \cup {t}
  /\ Goto(t, asleep)
  /\ UNCHANGED <<fileVars, proc, sharedVars, bufferLock, bytesWritten,
                 current_level, readBytes, offset, mainVars>>

WaitToXor(t) == SleepUnlessLevel(t, "xor", "xorWait")

\* x xor {b}
Toggle(x, b) == IF b \in x THEN x \ {b} ELSE x \cup {b}

BlockByte(t, p) == <<t, offset[t] - readBytes[t] + p>>

XorBlock(t) ==
  outputBuffer' = [p \in Positions |->
                     IF p < readBytes[t]
                     THEN Toggle(outputBuffer[p], BlockByte(t, p))
                     ELSE outputBuffer[p]]

XorWithOutput(t) ==
  /\ PassesLevel(t, "xor", "xorWait")
  /\ XorBlock(t)
  /\ Goto(t, "count")
  /\ UNCHANGED <<fileVars, proc, numThreads, workersDone, lengthToWrite, level,
                 total_size, syncVars, current_level, readBytes, offset,
                 mainVars>>

----------------------------------------------------------------------------
(***************************************************************************)
(* xorAndWrite, after the xor: count this thread; the last one writes.     *)
(***************************************************************************)
LastOfLevel == workersDone + 1 = numThreads

LengthSum(t) == lengthToWrite + readBytes[t]

LengthOfLast(t) == readBytes[t]

LengthWith(t) ==
  IF readBytes[t] > lengthToWrite THEN readBytes[t] ELSE lengthToWrite

\* Back in workerMain's loop: the next block.
NextBlock(t) ==
  /\ current_level' = [current_level EXCEPT ![t] = @ + 1]
  /\ readBytes' = [readBytes EXCEPT ![t] = 0]
  /\ Goto(t, "read")

BeginWrite(t, label) ==
  /\ bufferLock' = t
  /\ bytesWritten' = 0
  /\ Goto(t, label)

XorAndWrite(t) ==
  /\ pc[t] = "count" /\ bufferLock = Nobody
  /\ workersDone' = workersDone + 1
  /\ lengthToWrite' = LengthWith(t)
  /\ \/ /\ LastOfLevel
        /\ BeginWrite(t, "write")
        /\ UNCHANGED <<current_level, readBytes>>
     \/ /\ ~LastOfLevel
        /\ NextBlock(t)
        /\ UNCHANGED <<bufferLock, bytesWritten>>
  /\ UNCHANGED <<fileVars, proc, numThreads, level, total_size, outputBuffer,
                 waiting, offset, mainVars>>

----------------------------------------------------------------------------
(***************************************************************************)
(* writeToOutputFileAndCleanBuffer, called with the mutex held.            *)
(***************************************************************************)
Writing(t) == bufferLock = t /\ pc[t] \in {"write", "lastWrite"}

ChunkFromStart(n) == [k \in 1 .. n |-> outputBuffer[k - 1]]

Chunk(n) == [k \in 1 .. n |-> outputBuffer[bytesWritten + k - 1]]

\* One write() that takes n > 0 bytes, as many as were offered or fewer.
WriteSome(t) ==
  /\ Writing(t)
  /\ \E n \in 1 .. lengthToWrite - bytesWritten :
       /\ out' = out \o Chunk(n)
       /\ bytesWritten' = bytesWritten + n
  /\ UNCHANGED <<fileSize, proc, sharedVars, bufferLock, waiting, workerVars,
                 mainVars>>

KeepBuffer == UNCHANGED outputBuffer

ClearBuffer == outputBuffer' = [p \in Positions |-> {}]

KeepCount == UNCHANGED workersDone

ResetCount == workersDone' = 0

AddBlockToTotal == total_size' = AsInt(total_size + BUFFER_SIZE)

AddToTotal == total_size' = AsInt(total_size + lengthToWrite)

SignalOne ==
  \/ waiting = {} /\ UNCHANGED waiting
  \/ \E t \in waiting : waiting' = waiting \ {t}

Broadcast == waiting' = {}

CleanBuffer(t) ==
  /\ Writing(t)
  /\ bytesWritten = lengthToWrite
  /\ ClearBuffer
  /\ ResetCount
  /\ AddToTotal
  /\ lengthToWrite' = 0
  /\ level' = level + 1
  /\ Broadcast
  /\ bufferLock' = Nobody
  /\ \/ pc[t] = "write" /\ NextBlock(t)
     \/ pc[t] = "lastWrite" /\ Goto(t, "left") /\ UNCHANGED <<current_level, readBytes>>
  /\ UNCHANGED <<fileVars, proc, numThreads, bytesWritten, offset, mainVars>>

----------------------------------------------------------------------------
(***************************************************************************)
(* workerMain, after the last block: leave when the level is this thread's.*)
(***************************************************************************)
WaitToLeave(t) == SleepUnlessLevel(t, "finish", "finishWait")

NeverClosesLevel == TRUE

LeavesOthersWorking == workersDone # numThreads - 1

Leave(t) ==
  /\ PassesLevel(t, "finish", "finishWait")
  /\ numThreads' = numThreads - 1
  /\ \/ /\ LeavesOthersWorking
        /\ Goto(t, "left")
        /\ UNCHANGED <<bufferLock, bytesWritten>>
     \/ /\ ~LeavesOthersWorking
        /\ BeginWrite(t, "lastWrite")
  /\ UNCHANGED <<fileVars, proc, workersDone, lengthToWrite, level, total_size,
                 outputBuffer, waiting, current_level, readBytes, offset,
                 mainVars>>

----------------------------------------------------------------------------
\* exit(2): pthread_create, open() or read() fails in some thread, or write()
\* fails in the one that is writing.  The whole process ends as it stands.
ExitOnError ==
  /\ \/ mainPc = "create" /\ MoreToCreate
     \/ \E t \in Files : pc[t] = "read"
     \/ \E t \in Files : Writing(t) /\ bytesWritten < lengthToWrite
  /\ proc' = "failed"
  /\ UNCHANGED <<fileVars, sharedVars, syncVars, workerVars, mainVars>>

MainStep == CreateThread \/ CreationDone \/ JoinThread \/ JoinUncreated \/ ReturnFromMain

WorkerStep(t) ==
  \/ ReadSome(t) \/ ReadEndOfFile(t)
  \/ WaitToXor(t) \/ XorWithOutput(t)
  \/ XorAndWrite(t)
  \/ WriteSome(t) \/ CleanBuffer(t)
  \/ WaitToLeave(t) \/ Leave(t)

Next ==
  /\ proc = "running"
  /\ MainStep \/ ExitOnError \/ \E t \in Files : WorkerStep(t)

\* The scheduler runs every thread that can go on; nothing more is asked of the
\* mutex, which POSIX does not promise to be fair.
Fairness ==
  /\ WF_vars(proc = "running" /\ MainStep)
  /\ \A t \in Files : WF_vars(proc = "running" /\ WorkerStep(t))

Spec == Init /\ [][Next]_vars /\ Fairness

----------------------------------------------------------------------------
(***************************************************************************)
(* Properties.                                                             *)
(***************************************************************************)

\* What has been written is a prefix of the xor of the input files, at every
\* moment and however the process ends: no level is written early, twice, out
\* of order or with a block missing, whatever the interleaving of the threads.
OutputIsXorPrefix == Abstract!IsXorPrefix(out)

\* Every input gets its thread: when main stops creating, none is missing.
\* "Initialize mutex etc and create threads" (hw4.c:42-44, 257-262).
AllInputsStarted == mainPc = "join" => \A t \in Files : pc[t] # "new"

\* Only an empty input, whose thread leaves while main is still creating the
\* others and lowers the bound of that loop, can keep a thread from starting.
StartedUnlessEmpty == AllInputsStarted \/ Abstract!HasEmptyInput

\* If main returns 0 having started every thread, the output is whole: nothing
\* is lost at the end, where the threads leave one by one (hw4.c:95-122).
DoneIsWhole == proc = "done" /\ AllInputsStarted => Abstract!IsWholeXor(out)

\* The threads that numThreads counts: the ones not started yet too.
Enrolled == {t \in Files : pc[t] \notin {"left", "lastWrite"}}

\* The threads whose block of this level is counted.
Contributed == {t \in Files : pc[t] = "write" \/ current_level[t] = level + 1}

\* The threads whose block of this level is in the buffer.
XoredIn == Contributed \cup {t \in Files : pc[t] = "count"}

\* The two counters that decide who is the last of a level stand for the sets
\* they count, although threads leave, and are counted, in any order.
CountersCount ==
  /\ numThreads = Cardinality(Enrolled)
  /\ workersDone = Cardinality(Contributed)

\* No wakeup is lost: whoever sleeps waits for the level that comes next, never
\* for one that has already begun (hw4.c:102, 178, 224).
SleepersAreAhead == \A t \in waiting : current_level[t] = level + 1

\* "Knows it can die safely when it finished reading and the thread's level is
\* the same as the global level" (hw4.c:22-23): no thread is taken off numThreads
\* in the middle of a level it has contributed to, or before its file is read.
LeavesAtOwnLevel ==
  [][\A t \in Files :
       t \in Enrolled /\ t \notin Enrolled' =>
         current_level[t] = level /\ offset[t] = fileSize[t]]_vars

\* The size main reports is the length of the file, as an int can hold it: also
\* when the total no longer fits (hw4.c:57, 220, 306).
SizeIsReported == bufferLock = Nobody => total_size = AsInt(Len(out))

\* Once every thread has started the process ends: no thread sleeps for ever and
\* the counters never let a level stay open (hw4.c:102-122, 159-161, 178).
StartedTerminates ==
  (mainPc = "join" /\ \A t \in Files : pc[t] # "new") ~> (proc # "running")

\* The whole program implements the abstract specification of its output.
ImplementsOutput == Abstract!Spec

----------------------------------------------------------------------------
(***************************************************************************)
(* The inductive invariant behind the safety properties.                   *)
(***************************************************************************)

\* Where level l starts in every file, and the current one.
Start(l) == l * BUFFER_SIZE

LevelStart == Start(level)

\* Each worker's block is block current_level of its file, and that is the
\* global level or the next one until the worker has left.
WorkerOK(t) ==
  LET start == Start(current_level[t]) IN
  /\ pc[t] # "left" => current_level[t] \in {level, level + 1}
  /\ pc[t] = "new" => readBytes[t] = 0 /\ offset[t] = 0 /\ current_level[t] = 0
  /\ pc[t] = "read" =>
       /\ readBytes[t] < BUFFER_SIZE /\ offset[t] <= fileSize[t]
       /\ \/ offset[t] = start + readBytes[t]
          \/ readBytes[t] = 0 /\ offset[t] = fileSize[t] /\ offset[t] <= start
  /\ pc[t] \in {"xor", "xorWait", "count", "write"} =>
       /\ readBytes[t] > 0 /\ offset[t] = start + readBytes[t]
       /\ offset[t] <= fileSize[t]
       /\ readBytes[t] = BUFFER_SIZE \/ offset[t] = fileSize[t]
  /\ pc[t] \in {"finish", "finishWait", "lastWrite"} =>
       readBytes[t] = 0 /\ offset[t] = fileSize[t] /\ fileSize[t] <= start
  /\ pc[t] = "left" => fileSize[t] <= start /\ current_level[t] <= level
  /\ pc[t] \in {"count", "write", "lastWrite"} => current_level[t] = level
  /\ pc[t] \in {"xorWait", "finishWait"} =>
       (t \in waiting <=> current_level[t] = level + 1)
  /\ t \in waiting => pc[t] \in {"xorWait", "finishWait"}

WorkerInv == \A t \in Files : WorkerOK(t)

\* A thread holds the mutex between two steps only while it writes, and then
\* every thread that is still enrolled has contributed.
WriterInv ==
  /\ \A t \in Files : pc[t] \in {"write", "lastWrite"} <=> bufferLock = t
  /\ bufferLock # Nobody =>
       /\ Enrolled \subseteq Contributed
       /\ bytesWritten <= lengthToWrite

\* The buffer holds the level's block of each thread that has xored it, and
\* nothing else; lengthToWrite is the longest block counted so far.
BufferInv ==
  /\ \A p \in Positions :
       outputBuffer[p] =
         {b \in Files \X {LevelStart + p} :
            b[1] \in XoredIn /\ LevelStart + p < fileSize[b[1]]}
  /\ \A t \in Contributed :
       lengthToWrite = BUFFER_SIZE \/ fileSize[t] <= LevelStart + lengthToWrite
  /\ lengthToWrite > 0 =>
       \E t \in Contributed : LevelStart + lengthToWrite <= fileSize[t]

\* The bytes of the file that belong to the levels before this one.
Flushed == IF bufferLock = Nobody THEN Len(out) ELSE Len(out) - bytesWritten

\* The output is a prefix of the xor; the levels before this one are all in it,
\* and are full unless they are the whole of every file.
OutputInv ==
  /\ Abstract!IsXorPrefix(out)
  /\ Flushed <= LevelStart
  /\ Flushed = LevelStart \/ \A t \in Files : fileSize[t] <= Flushed

\* main creates and joins in the order of the files; before every thread exists
\* the first level cannot end.
MainInv ==
  /\ mainPc = "create" => \A t \in Files : (pc[t] = "new" <=> t >= i)
  /\ mainPc = "join" =>
       /\ \A t \in Files : t < i => pc[t] \in {"left", "new"}
       /\ StartedUnlessEmpty
  /\ proc = "done" => mainPc = "join" /\ i = N
  /\ proc = "crashed" => ~AllInputsStarted

IInv ==
  /\ TypeOK
  /\ CountersCount
  /\ WorkerInv
  /\ WriterInv
  /\ BufferInv
  /\ OutputInv
  /\ MainInv
=============================================================================
