-------------------------- MODULE XorWorkersProofs --------------------------
(***************************************************************************)
(* Proofs about XorWorkers.  IInv is inductive; the safety properties and  *)
(* the refinement of XorOutput follow from it.                             *)
(***************************************************************************)
EXTENDS XorWorkers, NumberLemmas, FiniteSetTheorems, SequenceTheorems, TLAPS

USE NAssumption, SizesAssumption, BufferAssumption, MaxIntAssumption

\* The files are the numbers below N.
LEMMA FilesType == /\ Files = 0 .. N-1
                   /\ Nobody \notin Files
                   /\ IsFiniteSet(Files)
                   /\ Cardinality(Files) = N
<1>1. Files = 0 .. N-1
  BY DEF Files, Abstract!Files
<1>2. Nobody \notin Files
  BY <1>1 DEF Nobody
<1>3. 0 \in Int /\ N-1 \in Int
  OBVIOUS
<1>4. IsFiniteSet(0 .. N-1) /\ Cardinality(0 .. N-1) = N
  BY <1>3, FS_Interval
<1>. QED  BY <1>1, <1>2, <1>4

\* Where the levels begin in the output.
LEMMA StartProps ==
  /\ Start(0) = 0
  /\ \A l \in Nat : Start(l) \in Nat /\ Start(l + 1) = Start(l) + BUFFER_SIZE
  /\ \A l, m \in Nat : l <= m => Start(l) <= Start(m)
<1>1. Start(0) = 0
  BY DEF Start
<1>2. \A l \in Nat : Start(l) \in Nat /\ Start(l + 1) = Start(l) + BUFFER_SIZE
  BY DEF Start
<1>3. \A l, m \in Nat : l <= m => Start(l) <= Start(m)
  BY DEF Start
<1>. QED  BY <1>1, <1>2, <1>3

\* A size taken as an int is one.
LEMMA AsIntType == \A n \in Int : AsInt(n) \in -(MaxInt + 1) .. MaxInt
<1>. SUFFICES ASSUME NEW n \in Int
             PROVE  AsInt(n) \in -(MaxInt + 1) .. MaxInt
  OBVIOUS
<1>. DEFINE m == 2 * (MaxInt + 1)
<1>1. m \in Nat \ {0}
  OBVIOUS
<1>. HIDE DEF m
<1>2. (n + MaxInt + 1) % m \in 0 .. m-1
  BY <1>1
<1>. QED  BY <1>2 DEF m, AsInt

\* What a thread's locals are.
LEMMA WorkerTypes ==
  ASSUME TypeOK, NEW t \in Files
  PROVE  /\ fileSize[t] \in Nat
         /\ current_level[t] \in Nat
         /\ readBytes[t] \in 0 .. BUFFER_SIZE
         /\ offset[t] \in Nat
         /\ level \in Nat
         /\ Start(current_level[t]) \in Nat
         /\ LevelStart \in Nat
<1>1. fileSize[t] \in Nat
  BY DEF TypeOK
<1>2. current_level[t] \in Nat /\ level \in Nat /\ offset[t] \in Nat
      /\ readBytes[t] \in 0 .. BUFFER_SIZE
  BY DEF TypeOK
<1>. QED  BY <1>1, <1>2, StartProps DEF LevelStart

----------------------------------------------------------------------------
(***************************************************************************)
(* What an action leaves alone.                                            *)
(***************************************************************************)

\* A thread that nobody else touches keeps its part of the invariant.
LEMMA OtherWorker ==
  ASSUME NEW u \in Files, WorkerOK(u),
         pc'[u] = pc[u], current_level'[u] = current_level[u],
         readBytes'[u] = readBytes[u], offset'[u] = offset[u],
         UNCHANGED <<fileSize, level>>, u \in waiting' <=> u \in waiting
  PROVE  WorkerOK(u)'
BY DEF WorkerOK, Start

\* The counters count the same as long as nobody enrols, contributes or leaves.
LEMMA CountFrame ==
  ASSUME CountersCount, Enrolled' = Enrolled, Contributed' = Contributed,
         UNCHANGED <<numThreads, workersDone>>
  PROVE  CountersCount'
BY DEF CountersCount

\* The buffer stays right as long as it and the contributors stay.
LEMMA BufferFrame ==
  ASSUME BufferInv, Contributed' = Contributed, XoredIn' = XoredIn,
         UNCHANGED <<fileSize, outputBuffer, lengthToWrite, level>>
  PROVE  BufferInv'
BY DEF BufferInv, LevelStart, Start

\* The file stays right as long as it, the buffer and the level stay.
LEMMA OutputFrame ==
  ASSUME OutputInv, Flushed' = Flushed, UNCHANGED <<fileSize, out, level>>
  PROVE  OutputInv'
BY DEF OutputInv, LevelStart, Start, Abstract!IsXorPrefix, Abstract!XorByte

\* A worker's step leaves what main relies on.
LEMMA MainFrame ==
  ASSUME MainInv, NEW t \in Files, NEW x, pc \in [Files -> WorkerPcs],
         pc' = [pc EXCEPT ![t] = x], pc[t] \notin {"new", "left"}, x # "new",
         proc = "running", UNCHANGED <<proc, mainVars, fileSize>>
  PROVE  MainInv'
BY DEF MainInv, mainVars, StartedUnlessEmpty, AllInputsStarted,
       Abstract!HasEmptyInput, Abstract!Files, Files

----------------------------------------------------------------------------
(***************************************************************************)
(* readNextBlock.                                                          *)
(***************************************************************************)

\* Moving a worker between the pcs outside of the counted ones changes no count.
LEMMA SetsFrame ==
  ASSUME NEW t \in Files, NEW x, pc \in [Files -> WorkerPcs],
         pc' = [pc EXCEPT ![t] = x],
         pc[t] \notin {"left", "lastWrite", "write", "count"},
         x \notin {"left", "lastWrite", "write", "count"},
         UNCHANGED <<current_level, level>>
  PROVE  Enrolled' = Enrolled /\ Contributed' = Contributed /\ XoredIn' = XoredIn
BY DEF Enrolled, Contributed, XoredIn

\* A thread reads more of its block.
LEMMA ReadSomeInv ==
  ASSUME IInv, proc = "running", NEW t \in Files, ReadSome(t)
  PROVE  IInv'
<1>0. TypeOK /\ CountersCount /\ WorkerInv /\ WriterInv /\ BufferInv /\ OutputInv /\ MainInv
  BY DEF IInv
<1>1. PICK n \in 1 .. BUFFER_SIZE - readBytes[t] :
        /\ offset[t] + n <= fileSize[t]
        /\ readBytes' = [readBytes EXCEPT ![t] = @ + n]
        /\ offset' = [offset EXCEPT ![t] = @ + n]
        /\ pc' = [pc EXCEPT ![t] = IF readBytes[t] + n = BUFFER_SIZE THEN "xor" ELSE "read"]
  BY DEF ReadSome, Goto
<1>2. /\ pc[t] = "read"
      /\ UNCHANGED <<fileVars, proc, sharedVars, syncVars, current_level, mainVars>>
  BY DEF ReadSome
<1>. USE DEF fileVars, sharedVars, syncVars, mainVars
<1>3. TypeOK'
  <2>1. /\ readBytes[t] \in 0 .. BUFFER_SIZE /\ offset[t] \in Nat /\ n \in 1 .. BUFFER_SIZE
        /\ readBytes[t] + n \in 0 .. BUFFER_SIZE /\ offset[t] + n \in Nat
    BY <1>0, <1>1 DEF TypeOK
  <2>2. /\ readBytes' \in [Files -> 0 .. BUFFER_SIZE] /\ offset' \in [Files -> Nat]
        /\ pc' \in [Files -> WorkerPcs]
    BY <1>0, <1>1, <2>1 DEF TypeOK, WorkerPcs
  <2>. QED  BY <1>0, <1>2, <2>2 DEF TypeOK, Positions, Files, Abstract!Files, Abstract!Byte
<1>4. Enrolled' = Enrolled /\ Contributed' = Contributed /\ XoredIn' = XoredIn
  BY <1>0, <1>1, <1>2, SetsFrame DEF TypeOK
<1>5. CountersCount'
  BY <1>0, <1>2, <1>4, CountFrame
<1>6. WorkerInv'
  <2>. SUFFICES ASSUME NEW u \in Files PROVE WorkerOK(u)'
    BY DEF WorkerInv
  <2>1. CASE u # t
    BY <1>0, <1>1, <1>2, <2>1, OtherWorker DEF WorkerInv, TypeOK
  <2>2. CASE u = t
    <3>1. /\ readBytes'[t] = readBytes[t] + n /\ offset'[t] = offset[t] + n
          /\ pc'[t] = IF readBytes[t] + n = BUFFER_SIZE THEN "xor" ELSE "read"
          /\ current_level'[t] = current_level[t] /\ waiting' = waiting
          /\ fileSize' = fileSize /\ level' = level
      BY <1>0, <1>1, <1>2 DEF TypeOK
    <3>3. WorkerOK(t) /\ t \notin waiting
      BY <1>0, <1>2 DEF WorkerInv, WorkerOK
    <3>4. Start(current_level[t])' = Start(current_level[t])
      BY <3>1 DEF Start
    <3>. QED  BY <1>0, <1>1, <1>2, <2>2, <3>1, <3>3, <3>4, WorkerTypes DEF WorkerOK
  <2>. QED  BY <2>1, <2>2
<1>7. WriterInv'
  BY <1>0, <1>1, <1>2, <1>4 DEF WriterInv, TypeOK
<1>8. BufferInv'
  BY <1>0, <1>2, <1>4, BufferFrame
<1>9. OutputInv'
  BY <1>0, <1>2, OutputFrame DEF Flushed
<1>10. MainInv'
  BY <1>0, <1>1, <1>2, MainFrame DEF TypeOK
<1>. QED  BY <1>3, <1>5, <1>6, <1>7, <1>8, <1>9, <1>10 DEF IInv


\* A thread meets the end of its file.
LEMMA ReadEndOfFileInv ==
  ASSUME IInv, proc = "running", NEW t \in Files, ReadEndOfFile(t)
  PROVE  IInv'
<1>0. TypeOK /\ CountersCount /\ WorkerInv /\ WriterInv /\ BufferInv /\ OutputInv /\ MainInv
  BY DEF IInv
<1>1. /\ pc[t] = "read"
      /\ offset[t] = fileSize[t]
      /\ pc' = [pc EXCEPT ![t] = IF readBytes[t] > 0 THEN "xor" ELSE "finish"]
      /\ UNCHANGED <<fileVars, proc, sharedVars, syncVars, current_level, readBytes, offset, mainVars>>
  BY DEF ReadEndOfFile, Goto
<1>. USE DEF fileVars, sharedVars, syncVars, mainVars
<1>3. TypeOK'
  <2>1. pc' \in [Files -> WorkerPcs]
    BY <1>0, <1>1 DEF TypeOK, WorkerPcs
  <2>. QED  BY <1>0, <1>1, <2>1 DEF TypeOK, Positions, Files, Abstract!Files, Abstract!Byte
<1>4. Enrolled' = Enrolled /\ Contributed' = Contributed /\ XoredIn' = XoredIn
  BY <1>0, <1>1, SetsFrame DEF TypeOK
<1>5. CountersCount'
  BY <1>0, <1>1, <1>4, CountFrame
<1>6. WorkerInv'
  <2>. SUFFICES ASSUME NEW u \in Files PROVE WorkerOK(u)'
    BY DEF WorkerInv
  <2>1. CASE u # t
    BY <1>0, <1>1, <2>1, OtherWorker DEF WorkerInv, TypeOK
  <2>2. CASE u = t
    <3>1. pc'[t] = IF readBytes[t] > 0 THEN "xor" ELSE "finish"
      BY <1>0, <1>1 DEF TypeOK
    <3>2. WorkerOK(t) /\ t \notin waiting
      BY <1>0, <1>1 DEF WorkerInv, WorkerOK
    <3>3. Start(current_level[t])' = Start(current_level[t])
      BY <1>1 DEF Start
    <3>. QED  BY <1>0, <1>1, <2>2, <3>1, <3>2, <3>3, WorkerTypes DEF WorkerOK
  <2>. QED  BY <2>1, <2>2
<1>7. WriterInv'
  BY <1>0, <1>1, <1>4 DEF WriterInv, TypeOK
<1>8. BufferInv'
  BY <1>0, <1>1, <1>4, BufferFrame
<1>9. OutputInv'
  BY <1>0, <1>1, OutputFrame DEF Flushed
<1>10. MainInv'
  BY <1>0, <1>1, MainFrame DEF TypeOK
<1>. QED  BY <1>3, <1>5, <1>6, <1>7, <1>8, <1>9, <1>10 DEF IInv

----------------------------------------------------------------------------
(***************************************************************************)
(* Waiting for the level, before the xor and before leaving.               *)
(***************************************************************************)

\* A thread that is ahead of the level goes to sleep.
LEMMA SleepInv ==
  ASSUME IInv, proc = "running", NEW t \in Files,
         NEW before, NEW asleep,
         \/ before = "xor" /\ asleep = "xorWait"
         \/ before = "finish" /\ asleep = "finishWait",
         SleepUnlessLevel(t, before, asleep)
  PROVE  IInv'
<1>0. TypeOK /\ CountersCount /\ WorkerInv /\ WriterInv /\ BufferInv /\ OutputInv /\ MainInv
  BY DEF IInv
<1>1. /\ pc[t] = before /\ current_level[t] # level
      /\ waiting' = waiting \cup {t}
      /\ pc' = [pc EXCEPT ![t] = asleep]
      /\ UNCHANGED <<fileVars, proc, sharedVars, bufferLock, bytesWritten,
                     current_level, readBytes, offset, mainVars>>
  BY DEF SleepUnlessLevel, Goto, OwnLevel
<1>. USE DEF fileVars, sharedVars, mainVars
<1>3. TypeOK'
  <2>1. pc' \in [Files -> WorkerPcs] /\ waiting' \subseteq Files
    BY <1>0, <1>1 DEF TypeOK, WorkerPcs
  <2>. QED  BY <1>0, <1>1, <2>1 DEF TypeOK, Positions, Files, Abstract!Files, Abstract!Byte
<1>4. Enrolled' = Enrolled /\ Contributed' = Contributed /\ XoredIn' = XoredIn
  BY <1>0, <1>1, SetsFrame DEF TypeOK
<1>5. CountersCount'
  BY <1>0, <1>1, <1>4, CountFrame
<1>6. WorkerInv'
  <2>. SUFFICES ASSUME NEW u \in Files PROVE WorkerOK(u)'
    BY DEF WorkerInv
  <2>1. CASE u # t
    BY <1>0, <1>1, <2>1, OtherWorker DEF WorkerInv, TypeOK
  <2>2. CASE u = t
    <3>1. pc'[t] = asleep /\ t \in waiting'
      BY <1>0, <1>1 DEF TypeOK
    <3>2. WorkerOK(t) /\ current_level[t] = level + 1
      BY <1>0, <1>1 DEF WorkerInv, WorkerOK
    <3>3. Start(current_level[t])' = Start(current_level[t])
      BY <1>1 DEF Start
    <3>. QED  BY <1>0, <1>1, <2>2, <3>1, <3>2, <3>3, WorkerTypes DEF WorkerOK
  <2>. QED  BY <2>1, <2>2
<1>7. WriterInv'
  BY <1>0, <1>1, <1>4 DEF WriterInv, TypeOK
<1>8. BufferInv'
  BY <1>0, <1>1, <1>4, BufferFrame
<1>9. OutputInv'
  BY <1>0, <1>1, OutputFrame DEF Flushed
<1>10. MainInv'
  BY <1>0, <1>1, MainFrame DEF TypeOK
<1>. QED  BY <1>3, <1>5, <1>6, <1>7, <1>8, <1>9, <1>10 DEF IInv

\* Whoever passes the wait is at the global level.
LEMMA PassesAtLevel ==
  ASSUME WorkerInv, TypeOK, NEW t \in Files, NEW before, NEW asleep,
         \/ before = "xor" /\ asleep = "xorWait"
         \/ before = "finish" /\ asleep = "finishWait",
         PassesLevel(t, before, asleep)
  PROVE  /\ bufferLock = Nobody
         /\ pc[t] \in {before, asleep}
         /\ current_level[t] = level
         /\ t \notin waiting
BY DEF PassesLevel, OwnLevel, WorkerInv, WorkerOK

----------------------------------------------------------------------------
(***************************************************************************)
(* The xor itself.                                                         *)
(***************************************************************************)

\* A thread that the level lets pass xors its block into the buffer.
LEMMA XorWithOutputInv ==
  ASSUME IInv, proc = "running", NEW t \in Files, XorWithOutput(t)
  PROVE  IInv'
<1>0. TypeOK /\ CountersCount /\ WorkerInv /\ WriterInv /\ BufferInv /\ OutputInv /\ MainInv
  BY DEF IInv
<1>1. /\ XorBlock(t)
      /\ pc' = [pc EXCEPT ![t] = "count"]
      /\ UNCHANGED <<fileVars, proc, numThreads, workersDone, lengthToWrite, level,
                     total_size, syncVars, current_level, readBytes, offset, mainVars>>
  BY DEF XorWithOutput, Goto
<1>2. /\ bufferLock = Nobody /\ pc[t] \in {"xor", "xorWait"}
      /\ current_level[t] = level /\ t \notin waiting
  BY <1>0, PassesAtLevel DEF XorWithOutput
<1>. USE DEF fileVars, syncVars, mainVars
<1>3. WorkerOK(t) /\ Start(current_level[t]) = LevelStart
  BY <1>0, <1>2 DEF WorkerInv, LevelStart
<1>4. /\ readBytes[t] \in 1 .. BUFFER_SIZE
      /\ offset[t] = LevelStart + readBytes[t]
      /\ offset[t] <= fileSize[t]
      /\ readBytes[t] = BUFFER_SIZE \/ offset[t] = fileSize[t]
  BY <1>0, <1>2, <1>3, WorkerTypes DEF WorkerOK
<1>5. \A p \in Positions : p < readBytes[t] <=> LevelStart + p < fileSize[t]
  BY <1>0, <1>4, WorkerTypes DEF Positions
<1>6. \A p \in Positions : p < readBytes[t] => BlockByte(t, p) = <<t, LevelStart + p>>
  BY <1>0, <1>4, WorkerTypes DEF Positions, BlockByte
<1>7. Enrolled' = Enrolled /\ Contributed' = Contributed /\ XoredIn' = XoredIn \cup {t}
  BY <1>0, <1>1, <1>2 DEF TypeOK, Enrolled, Contributed, XoredIn
<1>8. t \notin XoredIn
  BY <1>0, <1>2, WorkerTypes DEF XoredIn, Contributed
<1>9. BufferInv'
  <2>1. \A p \in Positions : outputBuffer'[p] =
           {b \in Files \X {LevelStart + p} :
              b[1] \in XoredIn \cup {t} /\ LevelStart + p < fileSize[b[1]]}
    <3>. SUFFICES ASSUME NEW p \in Positions
                  PROVE outputBuffer'[p] =
                          {b \in Files \X {LevelStart + p} :
                             b[1] \in XoredIn \cup {t} /\ LevelStart + p < fileSize[b[1]]}
      OBVIOUS
    <3>. DEFINE old == {b \in Files \X {LevelStart + p} :
                          b[1] \in XoredIn /\ LevelStart + p < fileSize[b[1]]}
    <3>1. outputBuffer[p] = old
      BY <1>0 DEF BufferInv
    <3>2. outputBuffer'[p] = IF p < readBytes[t] THEN Toggle(old, BlockByte(t, p)) ELSE old
      BY <1>1, <3>1 DEF XorBlock
    <3>3. CASE p < readBytes[t]
      <4>1. <<t, LevelStart + p>> \notin old
        BY <1>8
      <4>2. outputBuffer'[p] = old \cup {<<t, LevelStart + p>>}
        BY <1>6, <3>2, <3>3, <4>1 DEF Toggle
      <4>3. LevelStart + p < fileSize[t]
        BY <1>5, <3>3
      <4>. QED  BY <4>2, <4>3
    <3>4. CASE ~(p < readBytes[t])
      <4>1. ~(LevelStart + p < fileSize[t])
        BY <1>5, <3>4
      <4>. QED  BY <3>2, <3>4, <4>1
    <3>. QED  BY <3>3, <3>4
  <2>2. LevelStart' = LevelStart
    BY <1>1 DEF LevelStart, Start
  <2>. QED  BY <1>0, <1>1, <1>7, <2>1, <2>2 DEF BufferInv
<1>10. TypeOK'
  <2>1. pc' \in [Files -> WorkerPcs]
    BY <1>0, <1>1 DEF TypeOK, WorkerPcs
  <2>2. outputBuffer' \in [Positions -> SUBSET Abstract!Byte]
    <3>1. \A p \in Positions : outputBuffer[p] \in SUBSET Abstract!Byte
      BY <1>0 DEF TypeOK
    <3>2. \A p \in Positions : p < readBytes[t] => BlockByte(t, p) \in Abstract!Byte
      BY <1>0, <1>6, WorkerTypes DEF Abstract!Byte, Files, Positions
    <3>. QED  BY <1>1, <3>1, <3>2 DEF XorBlock, Toggle
  <2>. QED  BY <1>0, <1>1, <2>1, <2>2 DEF TypeOK, Positions, Files, Abstract!Files, Abstract!Byte
<1>11. CountersCount'
  BY <1>0, <1>1, <1>7, CountFrame
<1>12. WorkerInv'
  <2>. SUFFICES ASSUME NEW u \in Files PROVE WorkerOK(u)'
    BY DEF WorkerInv
  <2>1. CASE u # t
    BY <1>0, <1>1, <2>1, OtherWorker DEF WorkerInv, TypeOK
  <2>2. CASE u = t
    <3>1. pc'[t] = "count"
      BY <1>0, <1>1 DEF TypeOK
    <3>2. Start(current_level[t])' = Start(current_level[t])
      BY <1>1 DEF Start
    <3>. QED  BY <1>0, <1>1, <1>2, <1>3, <2>2, <3>1, <3>2, WorkerTypes DEF WorkerOK
  <2>. QED  BY <2>1, <2>2
<1>13. WriterInv'
  BY <1>0, <1>1, <1>2, <1>7 DEF WriterInv, TypeOK
<1>14. OutputInv'
  BY <1>0, <1>1, OutputFrame DEF Flushed
<1>15. MainInv'
  BY <1>0, <1>1, <1>2, MainFrame DEF TypeOK
<1>. QED  BY <1>9, <1>10, <1>11, <1>12, <1>13, <1>14, <1>15 DEF IInv

----------------------------------------------------------------------------
(***************************************************************************)
(* Counting the block, and who is the last of the level.                   *)
(***************************************************************************)

\* The sets of threads can be counted.
LEMMA SetsFinite ==
  /\ IsFiniteSet(Enrolled) /\ Cardinality(Enrolled) <= N
  /\ IsFiniteSet(Contributed) /\ Cardinality(Contributed) <= N
BY FilesType, FS_Subset, FS_CardinalityType DEF Enrolled, Contributed

\* Only an enrolled thread has a block in the current level.
LEMMA ContributedEnrolled ==
  ASSUME TypeOK, WorkerInv
  PROVE  Contributed \subseteq Enrolled
<1>. SUFFICES ASSUME NEW u \in Contributed PROVE u \in Enrolled
  OBVIOUS
<1>1. u \in Files /\ (pc[u] = "write" \/ current_level[u] = level + 1)
  BY DEF Contributed
<1>2. pc[u] \notin {"left", "lastWrite"}
  BY <1>1, WorkerTypes DEF WorkerInv, WorkerOK
<1>. QED  BY <1>1, <1>2 DEF Enrolled

\* A thread counts its block; the last one of the level begins to write.
LEMMA XorAndWriteInv ==
  ASSUME IInv, proc = "running", NEW t \in Files, XorAndWrite(t)
  PROVE  IInv'
<1>0. TypeOK /\ CountersCount /\ WorkerInv /\ WriterInv /\ BufferInv /\ OutputInv /\ MainInv
  BY DEF IInv
<1>1. /\ pc[t] = "count" /\ bufferLock = Nobody
      /\ workersDone' = workersDone + 1
      /\ lengthToWrite' = LengthWith(t)
      /\ UNCHANGED <<fileVars, proc, numThreads, level, total_size, outputBuffer,
                     waiting, offset, mainVars>>
  BY DEF XorAndWrite
<1>2. \/ /\ LastOfLevel
         /\ bufferLock' = t /\ bytesWritten' = 0
         /\ pc' = [pc EXCEPT ![t] = "write"]
         /\ UNCHANGED <<current_level, readBytes>>
      \/ /\ ~LastOfLevel
         /\ current_level' = [current_level EXCEPT ![t] = @ + 1]
         /\ readBytes' = [readBytes EXCEPT ![t] = 0]
         /\ pc' = [pc EXCEPT ![t] = "read"]
         /\ UNCHANGED <<bufferLock, bytesWritten>>
  BY DEF XorAndWrite, BeginWrite, NextBlock, Goto
<1>. USE DEF fileVars, mainVars
<1>3. /\ WorkerOK(t) /\ current_level[t] = level /\ t \notin waiting
      /\ Start(current_level[t]) = LevelStart
  BY <1>0, <1>1 DEF WorkerInv, WorkerOK, LevelStart
<1>4. /\ readBytes[t] \in 1 .. BUFFER_SIZE
      /\ offset[t] = LevelStart + readBytes[t]
      /\ offset[t] <= fileSize[t]
      /\ readBytes[t] = BUFFER_SIZE \/ offset[t] = fileSize[t]
  BY <1>0, <1>1, <1>3, WorkerTypes DEF WorkerOK
<1>5. /\ lengthToWrite' \in 1 .. BUFFER_SIZE
      /\ lengthToWrite' >= lengthToWrite /\ lengthToWrite' >= readBytes[t]
      /\ lengthToWrite' \in {lengthToWrite, readBytes[t]}
  BY <1>0, <1>1, <1>4 DEF LengthWith, TypeOK
<1>6. t \in Enrolled /\ t \notin Contributed
  BY <1>0, <1>1, <1>3, WorkerTypes DEF Enrolled, Contributed
<1>7. Contributed' = Contributed \cup {t}
  <2>1. \A u \in Files : u # t => pc'[u] = pc[u] /\ current_level'[u] = current_level[u]
    BY <1>0, <1>2 DEF TypeOK
  <2>2. pc'[t] = "write" \/ current_level'[t] = level + 1
    BY <1>0, <1>2, <1>3 DEF TypeOK
  <2>. QED  BY <1>1, <2>1, <2>2 DEF Contributed
<1>8. Enrolled' = Enrolled /\ XoredIn' = XoredIn
  <2>1. Enrolled' = Enrolled
    BY <1>0, <1>1, <1>2 DEF Enrolled, TypeOK
  <2>2. {u \in Files : pc'[u] = "count"} = {u \in Files : pc[u] = "count"} \ {t}
    BY <1>0, <1>2 DEF TypeOK
  <2>. QED  BY <1>1, <1>7, <2>1, <2>2 DEF XoredIn
<1>9. CountersCount'
  BY <1>0, <1>1, <1>6, <1>7, <1>8, SetsFinite, FS_AddElement DEF CountersCount
<1>10. Contributed' \subseteq Enrolled
  BY <1>0, <1>6, <1>7, ContributedEnrolled
<1>11. LastOfLevel => Enrolled \subseteq Contributed'
  BY <1>1, <1>8, <1>9, <1>10, SetsFinite, FS_Subset DEF CountersCount, LastOfLevel
<1>12. TypeOK'
  <2>1. /\ pc' \in [Files -> WorkerPcs] /\ current_level' \in [Files -> Nat]
        /\ readBytes' \in [Files -> 0 .. BUFFER_SIZE]
    <3>1. current_level[t] + 1 \in Nat /\ 0 \in 0 .. BUFFER_SIZE
      BY <1>0, WorkerTypes
    <3>. QED  BY <1>0, <1>2, <3>1 DEF TypeOK, WorkerPcs
  <2>3. bufferLock' \in Files \cup {Nobody} /\ bytesWritten' \in 0 .. BUFFER_SIZE
    BY <1>0, <1>2 DEF TypeOK
  <2>2. workersDone' \in 0 .. N
    <3>1. Cardinality(Contributed') \in Nat /\ Cardinality(Contributed') <= N
      BY <1>10, SetsFinite, FS_Subset, FS_CardinalityType
    <3>. QED  BY <1>9, <3>1 DEF CountersCount
  <2>. QED  BY <1>0, <1>1, <1>5, <2>1, <2>2, <2>3 DEF TypeOK, Positions, Files, Abstract!Files, Abstract!Byte
<1>13. WorkerInv'
  <2>. SUFFICES ASSUME NEW u \in Files PROVE WorkerOK(u)'
    BY DEF WorkerInv
  <2>1. CASE u # t
    BY <1>0, <1>1, <1>2, <2>1, OtherWorker DEF WorkerInv, TypeOK
  <2>2. CASE u = t /\ LastOfLevel
    <3>1. pc'[t] = "write" /\ Start(current_level[t])' = LevelStart /\ current_level'[t] = level
      BY <1>0, <1>2, <1>3, <2>2 DEF TypeOK, Start
    <3>2. readBytes'[t] = readBytes[t]
      BY <1>2, <2>2
    <3>. QED  BY <1>1, <1>3, <1>4, <2>2, <3>1, <3>2 DEF WorkerOK
  <2>3. CASE u = t /\ ~LastOfLevel
    <3>1. /\ pc'[t] = "read" /\ readBytes'[t] = 0 /\ current_level'[t] = level + 1
      BY <1>0, <1>2, <1>3, <2>3 DEF TypeOK
    <3>2. Start(current_level[t])' = LevelStart + BUFFER_SIZE
      BY <1>0, <3>1, StartProps, WorkerTypes DEF LevelStart, Start
    <3>. QED  BY <1>0, <1>1, <1>3, <1>4, <2>3, <3>1, <3>2, WorkerTypes DEF WorkerOK
  <2>. QED  BY <2>1, <2>2, <2>3
<1>14. WriterInv'
  <2>1. \A u \in Files : pc'[u] \in {"write", "lastWrite"} <=> bufferLock' = u
    BY <1>0, <1>1, <1>2, FilesType DEF WriterInv, TypeOK
  <2>2. bufferLock' # Nobody => LastOfLevel /\ bytesWritten' = 0
    BY <1>1, <1>2
  <2>. QED  BY <1>5, <1>8, <1>11, <2>1, <2>2 DEF WriterInv
<1>15. BufferInv'
  <2>1. LevelStart' = LevelStart
    BY <1>1 DEF LevelStart, Start
  <2>2. \A u \in Contributed' : lengthToWrite' = BUFFER_SIZE
                                \/ fileSize[u] <= LevelStart + lengthToWrite'
    <3>. SUFFICES ASSUME NEW u \in Contributed'
                  PROVE lengthToWrite' = BUFFER_SIZE \/ fileSize[u] <= LevelStart + lengthToWrite'
      OBVIOUS
    <3>1. CASE u = t
      BY <1>0, <1>4, <1>5, <3>1, WorkerTypes DEF TypeOK
    <3>2. CASE u \in Contributed
      <4>1. u \in Files /\ (lengthToWrite = BUFFER_SIZE \/ fileSize[u] <= LevelStart + lengthToWrite)
        BY <1>0, <3>2 DEF BufferInv, Contributed
      <4>. QED  BY <1>0, <1>5, <4>1, WorkerTypes DEF TypeOK
    <3>. QED  BY <1>7, <3>1, <3>2
  <2>3. \E u \in Contributed' : LevelStart + lengthToWrite' <= fileSize[u]
    <3>1. CASE lengthToWrite' = readBytes[t]
      BY <1>4, <1>7, <3>1
    <3>2. CASE lengthToWrite' = lengthToWrite
      BY <1>0, <1>5, <1>7, <3>2 DEF BufferInv
    <3>. QED  BY <1>5, <3>1, <3>2
  <2>. QED  BY <1>0, <1>1, <1>8, <2>1, <2>2, <2>3 DEF BufferInv
<1>16. OutputInv'
  <2>1. Flushed' = Flushed
    <3>1. Len(out) \in Nat
      BY <1>0 DEF TypeOK
    <3>. QED  BY <1>1, <1>2, <3>1 DEF Flushed
  <2>. QED  BY <1>0, <1>1, <2>1, OutputFrame
<1>17. MainInv'
  BY <1>0, <1>1, <1>2, MainFrame DEF TypeOK
<1>. QED  BY <1>9, <1>12, <1>13, <1>14, <1>15, <1>16, <1>17 DEF IInv

----------------------------------------------------------------------------
(***************************************************************************)
(* Leaving.                                                                *)
(***************************************************************************)

\* A thread leaves, and begins to write if the others had all contributed.
LEMMA LeaveInv ==
  ASSUME IInv, proc = "running", NEW t \in Files, Leave(t)
  PROVE  IInv'
<1>0. TypeOK /\ CountersCount /\ WorkerInv /\ WriterInv /\ BufferInv /\ OutputInv /\ MainInv
  BY DEF IInv
<1>1. /\ numThreads' = numThreads - 1
      /\ UNCHANGED <<fileVars, proc, workersDone, lengthToWrite, level, total_size,
                     outputBuffer, waiting, current_level, readBytes, offset, mainVars>>
  BY DEF Leave
<1>2. \/ /\ LeavesOthersWorking
         /\ pc' = [pc EXCEPT ![t] = "left"]
         /\ UNCHANGED <<bufferLock, bytesWritten>>
      \/ /\ ~LeavesOthersWorking
         /\ bufferLock' = t /\ bytesWritten' = 0
         /\ pc' = [pc EXCEPT ![t] = "lastWrite"]
  BY DEF Leave, BeginWrite, Goto
<1>3. /\ bufferLock = Nobody /\ pc[t] \in {"finish", "finishWait"}
      /\ current_level[t] = level /\ t \notin waiting
  BY <1>0, PassesAtLevel DEF Leave
<1>. USE DEF fileVars, mainVars
<1>4. t \in Enrolled /\ t \notin Contributed
  BY <1>0, <1>3, WorkerTypes DEF Enrolled, Contributed
<1>5. Contributed' = Contributed /\ XoredIn' = XoredIn /\ Enrolled' = Enrolled \ {t}
  BY <1>0, <1>1, <1>2, <1>3 DEF Enrolled, Contributed, XoredIn, TypeOK
<1>6. CountersCount'
  BY <1>0, <1>1, <1>4, <1>5, SetsFinite, FS_RemoveElement DEF CountersCount
<1>7. Contributed \subseteq Enrolled'
  BY <1>0, <1>4, <1>5, ContributedEnrolled
<1>8. ~LeavesOthersWorking => Enrolled' \subseteq Contributed
  <2>1. IsFiniteSet(Enrolled')
    BY <1>5, SetsFinite, FS_RemoveElement
  <2>. QED  BY <1>0, <1>1, <1>5, <1>6, <1>7, <2>1, FS_Subset DEF CountersCount, LeavesOthersWorking
<1>9. TypeOK'
  <2>1. pc' \in [Files -> WorkerPcs]
    BY <1>0, <1>2 DEF TypeOK, WorkerPcs
  <2>3. bufferLock' \in Files \cup {Nobody} /\ bytesWritten' \in 0 .. BUFFER_SIZE
    BY <1>0, <1>2 DEF TypeOK
  <2>2. numThreads' \in 0 .. N
    <3>1. numThreads # 0
      BY <1>0, <1>4, SetsFinite, FS_EmptySet DEF CountersCount
    <3>. QED  BY <1>0, <1>1, <3>1 DEF TypeOK
  <2>. QED  BY <1>0, <1>1, <2>1, <2>2, <2>3 DEF TypeOK, Positions, Files, Abstract!Files, Abstract!Byte
<1>10. WorkerInv'
  <2>. SUFFICES ASSUME NEW u \in Files PROVE WorkerOK(u)'
    BY DEF WorkerInv
  <2>1. CASE u # t
    BY <1>0, <1>1, <1>2, <2>1, OtherWorker DEF WorkerInv, TypeOK
  <2>2. CASE u = t
    <3>1. pc'[t] \in {"left", "lastWrite"} /\ Start(current_level[t])' = Start(current_level[t])
      BY <1>0, <1>1, <1>2 DEF TypeOK, Start
    <3>2. WorkerOK(t)
      BY <1>0 DEF WorkerInv
    <3>. QED  BY <1>0, <1>1, <1>3, <2>2, <3>1, <3>2, WorkerTypes DEF WorkerOK
  <2>. QED  BY <2>1, <2>2
<1>11. WriterInv'
  <2>1. \A u \in Files : pc'[u] \in {"write", "lastWrite"} <=> bufferLock' = u
    BY <1>0, <1>2, <1>3, FilesType DEF WriterInv, TypeOK
  <2>2. bufferLock' # Nobody => ~LeavesOthersWorking /\ bytesWritten' = 0
    BY <1>2, <1>3
  <2>. QED  BY <1>0, <1>1, <1>5, <1>8, <2>1, <2>2 DEF WriterInv, TypeOK
<1>12. BufferInv'
  BY <1>0, <1>1, <1>5, BufferFrame
<1>13. OutputInv'
  <2>1. Flushed' = Flushed
    <3>1. Len(out) \in Nat
      BY <1>0 DEF TypeOK
    <3>. QED  BY <1>1, <1>2, <1>3, <3>1 DEF Flushed
  <2>. QED  BY <1>0, <1>1, <2>1, OutputFrame
<1>14. MainInv'
  BY <1>0, <1>1, <1>2, <1>3, MainFrame DEF TypeOK
<1>. QED  BY <1>6, <1>9, <1>10, <1>11, <1>12, <1>13, <1>14 DEF IInv

----------------------------------------------------------------------------
(***************************************************************************)
(* Writing the level, under the mutex.                                     *)
(***************************************************************************)

\* While a level is written its bytes are those of the xor: whoever is not in it
\* has no byte left.
LEMMA WriterFacts ==
  ASSUME IInv, NEW t \in Files, Writing(t)
  PROVE  /\ bufferLock = t /\ bufferLock # Nobody
         /\ Enrolled \subseteq Contributed
         /\ Len(out) \in Nat /\ Len(out) = Flushed + bytesWritten
         /\ \A f \in Files : f \in Contributed \/ fileSize[f] <= LevelStart
         /\ lengthToWrite > 0 => Flushed = LevelStart
<1>0. TypeOK /\ WorkerInv /\ WriterInv /\ BufferInv /\ OutputInv
  BY DEF IInv
<1>1. bufferLock = t /\ bufferLock # Nobody
  BY FilesType DEF Writing
<1>2. Enrolled \subseteq Contributed
  BY <1>0, <1>1 DEF WriterInv
<1>3. Len(out) \in Nat /\ Len(out) = Flushed + bytesWritten
  <2>1. Len(out) \in Nat /\ bytesWritten \in Nat
    BY <1>0 DEF TypeOK
  <2>. QED  BY <1>1, <2>1 DEF Flushed
<1>4. \A f \in Files : f \in Contributed \/ fileSize[f] <= LevelStart
  <2>. SUFFICES ASSUME NEW f \in Files, f \notin Contributed
                PROVE  fileSize[f] <= LevelStart
    OBVIOUS
  <2>1. pc[f] \in {"left", "lastWrite"}
    BY <1>2 DEF Enrolled
  <2>2. fileSize[f] <= Start(current_level[f]) /\ current_level[f] <= level
    BY <1>0, <2>1, WorkerTypes DEF WorkerInv, WorkerOK
  <2>3. Start(current_level[f]) <= LevelStart
    BY <1>0, <2>2, StartProps, WorkerTypes DEF LevelStart
  <2>. QED  BY <1>0, <2>2, <2>3, WorkerTypes
<1>5. lengthToWrite > 0 => Flushed = LevelStart
  <2>. SUFFICES ASSUME lengthToWrite > 0, Flushed # LevelStart PROVE FALSE
    OBVIOUS
  <2>1. PICK u \in Contributed : LevelStart + lengthToWrite <= fileSize[u]
    BY <1>0 DEF BufferInv
  <2>2. u \in Files /\ fileSize[u] <= Flushed /\ Flushed <= LevelStart
    BY <1>0 DEF OutputInv, Contributed
  <2>3. Flushed \in Int
    BY <1>0, <1>3 DEF Flushed, TypeOK
  <2>4. fileSize[u] \in Nat /\ LevelStart \in Nat /\ lengthToWrite \in Nat
    BY <1>0, <2>2, WorkerTypes DEF TypeOK
  <2>. QED  BY <2>1, <2>2, <2>3, <2>4
<1>. QED  BY <1>1, <1>2, <1>3, <1>4, <1>5

\* Whatever a write() takes of the buffer continues the xor in the file.
LEMMA WriteSomeOutput ==
  ASSUME IInv, NEW t \in Files, Writing(t),
         NEW n \in 1 .. lengthToWrite - bytesWritten
  PROVE  /\ Chunk(n) \in Seq(SUBSET Abstract!Byte) /\ Len(Chunk(n)) = n
         /\ Abstract!IsXorPrefix(out \o Chunk(n))
<1>0. TypeOK /\ BufferInv /\ OutputInv
  BY DEF IInv
<1>1. /\ lengthToWrite \in 0 .. BUFFER_SIZE /\ bytesWritten \in 0 .. BUFFER_SIZE
      /\ lengthToWrite > 0 /\ n \in Nat /\ LevelStart \in Nat
  BY <1>0, WorkerTypes DEF TypeOK
<1>2. \A k \in 1 .. n : bytesWritten + k - 1 \in Positions
                        /\ bytesWritten + k - 1 < lengthToWrite
  BY <1>1 DEF Positions
<1>3. Chunk(n) \in Seq(SUBSET Abstract!Byte) /\ Len(Chunk(n)) = n
  <2>1. \A k \in 1 .. n : outputBuffer[bytesWritten + k - 1] \in SUBSET Abstract!Byte
    BY <1>0, <1>2 DEF TypeOK
  <2>. QED  BY <1>1, <2>1 DEF Chunk
<1>4. \A p \in Positions : p < lengthToWrite =>
         outputBuffer[p] = Abstract!XorByte(LevelStart + p) /\ outputBuffer[p] # {}
  <2>. SUFFICES ASSUME NEW p \in Positions, p < lengthToWrite
                PROVE  /\ outputBuffer[p] = Abstract!XorByte(LevelStart + p)
                       /\ outputBuffer[p] # {}
    OBVIOUS
  <2>0. p \in Nat
    BY DEF Positions
  <2>1. outputBuffer[p] = {b \in Files \X {LevelStart + p} :
                              b[1] \in XoredIn /\ LevelStart + p < fileSize[b[1]]}
    BY <1>0 DEF BufferInv
  <2>2. \A f \in Files : LevelStart + p < fileSize[f] => f \in XoredIn
    BY <1>0, <1>1, <2>0, WriterFacts, WorkerTypes DEF XoredIn
  <2>3. outputBuffer[p] = Abstract!XorByte(LevelStart + p)
    BY <2>1, <2>2 DEF Abstract!XorByte, Files
  <2>4. PICK u \in Contributed : LevelStart + lengthToWrite <= fileSize[u]
    BY <1>0, <1>1 DEF BufferInv
  <2>5. u \in Files /\ LevelStart + p < fileSize[u]
    BY <1>0, <1>1, <2>0, <2>4, WorkerTypes DEF Contributed
  <2>6. <<u, LevelStart + p>> \in Abstract!XorByte(LevelStart + p)
    BY <2>5 DEF Abstract!XorByte, Files
  <2>. QED  BY <2>3, <2>6
<1>5. Len(out) \in Nat /\ Len(out) = LevelStart + bytesWritten
  BY <1>1, WriterFacts
<1>6. \A k \in 1 .. n : LET p == bytesWritten + k - 1 IN
         Chunk(n)[k] = outputBuffer[p] /\ Len(out) + k - 1 = LevelStart + p
  BY <1>1, <1>5 DEF Chunk
<1>7. \A k \in 1 .. n : /\ Chunk(n)[k] = Abstract!XorByte(Len(out) + k - 1)
                        /\ Chunk(n)[k] # {}
  BY <1>2, <1>4, <1>6
<1>8. \A k \in 1 .. Len(out \o Chunk(n)) :
         /\ (out \o Chunk(n))[k] = Abstract!XorByte(k - 1)
         /\ (out \o Chunk(n))[k] # {}
  <2>. SUFFICES ASSUME NEW k \in 1 .. Len(out \o Chunk(n))
                PROVE  /\ (out \o Chunk(n))[k] = Abstract!XorByte(k - 1)
                       /\ (out \o Chunk(n))[k] # {}
    OBVIOUS
  <2>. DEFINE c == Chunk(n)
  <2>1. out \in Seq(SUBSET Abstract!Byte) /\ c \in Seq(SUBSET Abstract!Byte) /\ Len(c) = n
    BY <1>0, <1>3 DEF TypeOK
  <2>. HIDE DEF c
  <2>2. /\ k \in 1 .. Len(out) + n
        /\ (out \o c)[k] = IF k <= Len(out) THEN out[k] ELSE c[k - Len(out)]
    BY <2>1 DEF c
  <2>3. CASE k <= Len(out)
    <3>1. k \in 1 .. Len(out) /\ (out \o c)[k] = out[k]
      BY <1>5, <2>2, <2>3
    <3>. QED  BY <1>0, <3>1 DEF OutputInv, Abstract!IsXorPrefix, c
  <2>4. CASE ~(k <= Len(out))
    <3>1. k - Len(out) \in 1 .. n /\ Len(out) + (k - Len(out)) - 1 = k - 1
      BY <1>1, <1>5, <2>2, <2>4
    <3>. QED  BY <1>7, <2>2, <2>4, <3>1 DEF c
  <2>. QED  BY <2>3, <2>4
<1>. QED  BY <1>3, <1>8 DEF Abstract!IsXorPrefix

\* The writer writes more of the level, or the rest of it.
LEMMA WriteSomeInv ==
  ASSUME IInv, proc = "running", NEW t \in Files, WriteSome(t)
  PROVE  IInv'
<1>0. TypeOK /\ CountersCount /\ WorkerInv /\ WriterInv /\ BufferInv /\ OutputInv /\ MainInv
  BY DEF IInv
<1>1. PICK n \in 1 .. lengthToWrite - bytesWritten :
        out' = out \o Chunk(n) /\ bytesWritten' = bytesWritten + n
  BY DEF WriteSome
<1>2. /\ Writing(t)
      /\ UNCHANGED <<fileSize, proc, sharedVars, bufferLock, waiting, workerVars, mainVars>>
  BY DEF WriteSome
<1>. USE DEF sharedVars, workerVars, mainVars
<1>3. /\ Chunk(n) \in Seq(SUBSET Abstract!Byte) /\ Len(Chunk(n)) = n
      /\ Abstract!IsXorPrefix(out \o Chunk(n))
  BY <1>1, <1>2, WriteSomeOutput
<1>4. /\ out' \in Seq(SUBSET Abstract!Byte) /\ Len(out') = Len(out) + n
      /\ bytesWritten' \in 0 .. BUFFER_SIZE /\ bytesWritten' <= lengthToWrite
  <2>1. out \in Seq(SUBSET Abstract!Byte)
    BY <1>0 DEF TypeOK
  <2>2. out' \in Seq(SUBSET Abstract!Byte) /\ Len(out') = Len(out) + Len(Chunk(n))
    BY <1>1, <1>3, <2>1, ConcatProperties
  <2>3. bytesWritten' \in 0 .. BUFFER_SIZE /\ bytesWritten' <= lengthToWrite
    BY <1>0, <1>1 DEF TypeOK
  <2>. QED  BY <1>3, <2>2, <2>3
<1>5. TypeOK'
  BY <1>0, <1>2, <1>4 DEF TypeOK, Positions, Files, Abstract!Files, Abstract!Byte
<1>6. Enrolled' = Enrolled /\ Contributed' = Contributed /\ XoredIn' = XoredIn
  BY <1>2 DEF Enrolled, Contributed, XoredIn
<1>7. CountersCount'
  BY <1>0, <1>2, <1>6, CountFrame
<1>8. WorkerInv'
  BY <1>0, <1>2, OtherWorker DEF WorkerInv
<1>9. WriterInv'
  BY <1>0, <1>2, <1>4, <1>6 DEF WriterInv
<1>10. BufferInv'
  BY <1>0, <1>2, <1>6, BufferFrame
<1>11. OutputInv'
  <2>1. Flushed' = Flushed
    <3>1. Len(out) \in Nat /\ bytesWritten \in Nat /\ bufferLock # Nobody
      BY <1>0, <1>2, WriterFacts DEF TypeOK
    <3>. QED  BY <1>1, <1>2, <1>4, <3>1 DEF Flushed
  <2>2. LevelStart' = LevelStart
    BY <1>2 DEF LevelStart, Start
  <2>3. Abstract!IsXorPrefix(out)'
    BY <1>1, <1>2, <1>3 DEF Abstract!IsXorPrefix, Abstract!XorByte, Abstract!Files
  <2>. QED  BY <1>0, <1>2, <2>1, <2>2, <2>3 DEF OutputInv
<1>12. MainInv'
  BY <1>0, <1>2 DEF MainInv, StartedUnlessEmpty, AllInputsStarted,
                    Abstract!HasEmptyInput, Abstract!Files, Files
<1>. QED  BY <1>5, <1>7, <1>8, <1>9, <1>10, <1>11, <1>12 DEF IInv

\* The writer clears the buffer, raises the level and wakes the others.
LEMMA CleanBufferInv ==
  ASSUME IInv, proc = "running", NEW t \in Files, CleanBuffer(t)
  PROVE  IInv'
<1>0. TypeOK /\ CountersCount /\ WorkerInv /\ WriterInv /\ BufferInv /\ OutputInv /\ MainInv
  BY DEF IInv
<1>1. /\ Writing(t) /\ bytesWritten = lengthToWrite
      /\ outputBuffer' = [p \in Positions |-> {}]
      /\ workersDone' = 0 /\ lengthToWrite' = 0
      /\ total_size' = AsInt(total_size + lengthToWrite)
      /\ level' = level + 1 /\ waiting' = {} /\ bufferLock' = Nobody
      /\ UNCHANGED <<fileVars, proc, numThreads, bytesWritten, offset, mainVars>>
  BY DEF CleanBuffer, ClearBuffer, ResetCount, AddToTotal, Broadcast
<1>2. \/ /\ pc[t] = "write"
         /\ current_level' = [current_level EXCEPT ![t] = @ + 1]
         /\ readBytes' = [readBytes EXCEPT ![t] = 0]
         /\ pc' = [pc EXCEPT ![t] = "read"]
      \/ /\ pc[t] = "lastWrite"
         /\ pc' = [pc EXCEPT ![t] = "left"]
         /\ UNCHANGED <<current_level, readBytes>>
  BY DEF CleanBuffer, NextBlock, Goto
<1>. USE DEF fileVars, mainVars
<1>3. /\ bufferLock = t /\ bufferLock # Nobody /\ Enrolled \subseteq Contributed
      /\ Len(out) \in Nat /\ Len(out) = Flushed + lengthToWrite
      /\ \A f \in Files : f \in Contributed \/ fileSize[f] <= LevelStart
      /\ lengthToWrite > 0 => Flushed = LevelStart
  BY <1>0, <1>1, WriterFacts
<1>4. \A u \in Files : pc[u] \in {"write", "lastWrite"} <=> u = t
  BY <1>0, <1>3 DEF WriterInv
<1>5. WorkerOK(t) /\ current_level[t] = level /\ Start(current_level[t]) = LevelStart
  BY <1>0, <1>2 DEF WorkerInv, WorkerOK, LevelStart
\* Everybody else who is enrolled is ahead already.
<1>6. \A u \in Files : u # t /\ pc[u] # "left" => current_level[u] = level + 1
  BY <1>3, <1>4 DEF Enrolled, Contributed
<1>7. \A u \in Files : u # t => /\ pc'[u] = pc[u] /\ current_level'[u] = current_level[u]
                                /\ readBytes'[u] = readBytes[u]
  BY <1>0, <1>2 DEF TypeOK
<1>8. LevelStart' = LevelStart + BUFFER_SIZE /\ LevelStart \in Nat
  BY <1>0, <1>1, StartProps DEF LevelStart, Start, TypeOK
<1>9. TypeOK'
  <2>1. current_level[t] + 1 \in Nat /\ 0 \in 0 .. BUFFER_SIZE /\ level' \in Nat
    BY <1>0, <1>1, WorkerTypes
  <2>2. /\ pc' \in [Files -> WorkerPcs] /\ current_level' \in [Files -> Nat]
        /\ readBytes' \in [Files -> 0 .. BUFFER_SIZE]
    BY <1>0, <1>2, <2>1 DEF TypeOK, WorkerPcs
  <2>3. total_size' \in -(MaxInt + 1) .. MaxInt
    BY <1>0, <1>1, AsIntType DEF TypeOK
  <2>4. /\ workersDone' \in 0 .. N /\ lengthToWrite' \in 0 .. BUFFER_SIZE
        /\ outputBuffer' \in [Positions -> SUBSET Abstract!Byte]
        /\ bufferLock' \in Files \cup {Nobody} /\ waiting' \subseteq Files
    BY <1>1
  <2>. QED
    BY <1>0, <1>1, <2>1, <2>2, <2>3, <2>4
    DEF TypeOK, Positions, Files, Abstract!Files, Abstract!Byte
<1>10. WorkerInv'
  <2>. SUFFICES ASSUME NEW u \in Files PROVE WorkerOK(u)'
    BY DEF WorkerInv
  <2>1. CASE u # t
    <3>1. /\ WorkerOK(u) /\ pc[u] \notin {"write", "lastWrite"}
          /\ pc[u] # "left" => current_level[u] = level + 1
          /\ Start(current_level[u])' = Start(current_level[u])
      BY <1>0, <1>4, <1>6, <1>7, <2>1 DEF WorkerInv, Start
    <3>2. pc[u] # "count"
      BY <1>0, <3>1, WorkerTypes DEF WorkerOK
    <3>3. u \notin waiting' /\ fileSize' = fileSize /\ offset' = offset
      BY <1>1
    <3>. QED
      BY <1>0, <1>1, <1>7, <2>1, <3>1, <3>2, <3>3, WorkerTypes DEF WorkerOK
  <2>2. CASE u = t /\ pc[t] = "write"
    <3>1. /\ pc'[t] = "read" /\ readBytes'[t] = 0 /\ current_level'[t] = level + 1
      BY <1>0, <1>2, <1>5, <2>2 DEF TypeOK
    <3>2. Start(current_level[t])' = LevelStart + BUFFER_SIZE
      BY <1>0, <3>1, StartProps, WorkerTypes DEF LevelStart, Start
    <3>3. t \notin waiting' /\ fileSize' = fileSize /\ offset' = offset
      BY <1>1
    <3>. QED  BY <1>0, <1>1, <1>5, <2>2, <3>1, <3>2, <3>3, WorkerTypes DEF WorkerOK
  <2>3. CASE u = t /\ pc[t] = "lastWrite"
    <3>1. /\ pc'[t] = "left" /\ current_level'[t] = level
          /\ Start(current_level[t])' = LevelStart
      BY <1>0, <1>2, <1>5, <2>3 DEF TypeOK, Start
    <3>3. t \notin waiting' /\ fileSize' = fileSize
      BY <1>1
    <3>. QED  BY <1>0, <1>1, <1>5, <2>3, <3>1, <3>3, WorkerTypes DEF WorkerOK
  <2>. QED  BY <1>2, <2>1, <2>2, <2>3
<1>11. WriterInv'
  BY <1>0, <1>1, <1>2, <1>4, <1>7, FilesType DEF WriterInv, TypeOK
<1>12. Contributed' = {} /\ XoredIn' = {}
  <2>. SUFFICES ASSUME NEW u \in Files
                PROVE  current_level'[u] # level' + 1 /\ pc'[u] \notin {"write", "count"}
    BY DEF Contributed, XoredIn
  <2>1. pc'[u] # "left" => current_level'[u] \in {level', level' + 1}
    BY <1>10 DEF WorkerInv, WorkerOK
  <2>2. CASE u = t
    BY <1>0, <1>1, <1>2, <1>5, <2>2, WorkerTypes DEF TypeOK
  <2>3. CASE u # t
    <3>1. WorkerOK(u) /\ pc'[u] = pc[u] /\ current_level'[u] = current_level[u]
      BY <1>0, <1>7, <2>3 DEF WorkerInv
    <3>2. pc[u] # "write"
      BY <1>4, <2>3
    <3>. QED  BY <1>0, <1>1, <1>6, <2>3, <3>1, <3>2, WorkerTypes DEF WorkerOK
  <2>. QED  BY <2>2, <2>3
<1>13. Enrolled' = Enrolled
  BY <1>0, <1>2, <1>7 DEF Enrolled, TypeOK
<1>14. CountersCount'
  BY <1>0, <1>1, <1>12, <1>13, FS_EmptySet DEF CountersCount
<1>15. BufferInv'
  BY <1>1, <1>12 DEF BufferInv
<1>16. OutputInv'
  <2>1. Flushed' = Flushed + lengthToWrite
    BY <1>1, <1>3 DEF Flushed
  <2>2. Abstract!IsXorPrefix(out)'
    BY <1>0, <1>1 DEF OutputInv, Abstract!IsXorPrefix, Abstract!XorByte, Abstract!Files
  <2>3. /\ Flushed \in Int /\ lengthToWrite \in 0 .. BUFFER_SIZE
        /\ Flushed <= LevelStart
        /\ Flushed = LevelStart \/ \A f \in Files : fileSize[f] <= Flushed
    BY <1>0, <1>3 DEF OutputInv, Flushed, TypeOK
  <2>4. CASE lengthToWrite = BUFFER_SIZE
    BY <1>3, <1>8, <2>1, <2>2, <2>3, <2>4 DEF OutputInv
  <2>5. CASE lengthToWrite # BUFFER_SIZE
    <3>1. \A f \in Files : fileSize[f] <= LevelStart + lengthToWrite
      <4>. SUFFICES ASSUME NEW f \in Files PROVE fileSize[f] <= LevelStart + lengthToWrite
        OBVIOUS
      <4>1. f \in Contributed => fileSize[f] <= LevelStart + lengthToWrite
        BY <1>0, <2>5 DEF BufferInv
      <4>. QED  BY <1>0, <1>3, <1>8, <2>3, <4>1, WorkerTypes
    <3>2. \A f \in Files : fileSize[f] <= Flushed + lengthToWrite
      <4>. SUFFICES ASSUME NEW f \in Files PROVE fileSize[f] <= Flushed + lengthToWrite
        OBVIOUS
      <4>. QED  BY <1>0, <2>3, <3>1, WorkerTypes
    <3>. QED  BY <1>1, <1>8, <2>1, <2>2, <2>3, <3>2 DEF OutputInv
  <2>. QED  BY <2>4, <2>5
<1>17. MainInv'
  BY <1>0, <1>1, <1>2, MainFrame DEF TypeOK
<1>. QED  BY <1>9, <1>10, <1>11, <1>14, <1>15, <1>16, <1>17 DEF IInv

----------------------------------------------------------------------------
(***************************************************************************)
(* main.                                                                   *)
(***************************************************************************)

\* What main's own variables and the end of the process cannot disturb.
LEMMA WorkersFrame ==
  ASSUME IInv, UNCHANGED <<fileVars, sharedVars, syncVars, workerVars>>,
         proc' \in {"running", "done", "failed", "crashed"},
         mainPc' \in {"create", "join"}, i' \in 0 .. N
  PROVE  TypeOK' /\ CountersCount' /\ WorkerInv' /\ WriterInv' /\ BufferInv' /\ OutputInv'
<1>. USE DEF fileVars, sharedVars, syncVars, workerVars
<1>0. TypeOK /\ CountersCount /\ WorkerInv /\ WriterInv /\ BufferInv /\ OutputInv
  BY DEF IInv
<1>1. TypeOK'
  BY <1>0 DEF TypeOK, Positions, Files, Abstract!Files, Abstract!Byte
<1>2. Enrolled' = Enrolled /\ Contributed' = Contributed /\ XoredIn' = XoredIn
  BY DEF Enrolled, Contributed, XoredIn
<1>3. CountersCount'
  BY <1>0, <1>2, CountFrame
<1>4. WorkerInv'
  BY <1>0, OtherWorker DEF WorkerInv
<1>5. WriterInv'
  BY <1>0, <1>2 DEF WriterInv
<1>6. BufferInv'
  BY <1>0, <1>2, BufferFrame
<1>7. OutputInv'
  BY <1>0, OutputFrame DEF Flushed
<1>. QED  BY <1>1, <1>3, <1>4, <1>5, <1>6, <1>7

\* Main creates the next thread.
LEMMA CreateThreadInv ==
  ASSUME IInv, proc = "running", CreateThread
  PROVE  IInv'
<1>0. TypeOK /\ CountersCount /\ WorkerInv /\ WriterInv /\ BufferInv /\ OutputInv /\ MainInv
  BY DEF IInv
<1>1. /\ mainPc = "create" /\ i < numThreads
      /\ pc' = [pc EXCEPT ![i] = "read"]
      /\ i' = i + 1
      /\ UNCHANGED <<fileVars, proc, sharedVars, syncVars, current_level, readBytes, offset, mainPc>>
  BY DEF CreateThread, MoreToCreate, Goto
<1>. USE DEF fileVars, sharedVars, syncVars
<1>2. i \in Files /\ i' \in 0 .. N
  BY <1>0, <1>1, FilesType DEF TypeOK
<1>3. pc[i] = "new"
  BY <1>0, <1>1, <1>2, FilesType DEF MainInv
<1>4. TypeOK'
  <2>1. pc' \in [Files -> WorkerPcs]
    BY <1>0, <1>1 DEF TypeOK, WorkerPcs
  <2>. QED  BY <1>0, <1>1, <1>2, <2>1 DEF TypeOK, Positions, Files, Abstract!Files, Abstract!Byte
<1>5. Enrolled' = Enrolled /\ Contributed' = Contributed /\ XoredIn' = XoredIn
  BY <1>0, <1>1, <1>2, <1>3, SetsFrame DEF TypeOK
<1>6. CountersCount'
  BY <1>0, <1>1, <1>5, CountFrame
<1>7. WorkerInv'
  <2>. SUFFICES ASSUME NEW u \in Files PROVE WorkerOK(u)'
    BY DEF WorkerInv
  <2>1. CASE u # i
    BY <1>0, <1>1, <2>1, OtherWorker DEF WorkerInv, TypeOK
  <2>2. CASE u = i
    <3>1. pc'[u] = "read" /\ Start(current_level[u])' = 0
      BY <1>0, <1>1, <1>3, <2>2, StartProps DEF TypeOK, WorkerInv, WorkerOK, Start
    <3>2. WorkerOK(u) /\ pc[u] = "new"
      BY <1>0, <1>3, <2>2 DEF WorkerInv
    <3>3. u \notin waiting
      BY <3>2 DEF WorkerOK
    <3>. QED  BY <1>0, <1>1, <3>1, <3>2, <3>3, WorkerTypes DEF WorkerOK
  <2>. QED  BY <2>1, <2>2
<1>8. WriterInv'
  BY <1>0, <1>1, <1>2, <1>3, <1>5 DEF WriterInv, TypeOK
<1>9. BufferInv'
  BY <1>0, <1>1, <1>5, BufferFrame
<1>10. OutputInv'
  BY <1>0, <1>1, OutputFrame DEF Flushed
<1>11. MainInv'
  <2>1. \A u \in Files : pc'[u] = "new" <=> u >= i'
    BY <1>0, <1>1, <1>2, FilesType DEF MainInv, TypeOK
  <2>. QED  BY <1>0, <1>1, <2>1 DEF MainInv
<1>. QED  BY <1>4, <1>6, <1>7, <1>8, <1>9, <1>10, <1>11 DEF IInv

\* Creation stops short only if a thread has left in the first level, that is
\* without a byte to read.
LEMMA CreationDoneInv ==
  ASSUME IInv, proc = "running", CreationDone
  PROVE  IInv'
<1>0. TypeOK /\ CountersCount /\ WorkerInv /\ MainInv
  BY DEF IInv
<1>1. /\ mainPc = "create" /\ ~(i < numThreads) /\ mainPc' = "join" /\ i' = 0
      /\ UNCHANGED <<fileVars, proc, sharedVars, syncVars, workerVars>>
  BY DEF CreationDone, MoreToCreate
<1>2. TypeOK' /\ CountersCount' /\ WorkerInv' /\ WriterInv' /\ BufferInv' /\ OutputInv'
  BY <1>1, WorkersFrame
<1>3. (\A u \in Files : pc[u] # "new") \/ \E u \in Files : fileSize[u] = 0
  <2>. SUFFICES ASSUME NEW v \in Files, pc[v] = "new"
                PROVE  \E u \in Files : fileSize[u] = 0
    OBVIOUS
  <2>1. level = 0
    <3>1. current_level[v] = 0 /\ current_level[v] \in {level, level + 1}
      BY <1>0 DEF WorkerInv, WorkerOK
    <3>. QED  BY <1>0, <3>1, WorkerTypes
  <2>2. v >= i /\ v \in 0 .. N-1
    BY <1>0, <1>1, FilesType DEF MainInv
  <2>3. numThreads < N
    BY <1>0, <1>1, <2>2 DEF TypeOK
  <2>4. PICK u \in Files : u \notin Enrolled
    <3>1. Enrolled # Files
      BY <1>0, <2>3, FilesType DEF CountersCount, TypeOK
    <3>. QED  BY <3>1 DEF Enrolled
  <2>5. pc[u] \in {"left", "lastWrite"}
    BY <2>4 DEF Enrolled
  <2>6. fileSize[u] <= Start(current_level[u]) /\ current_level[u] <= level
    BY <1>0, <2>5, WorkerTypes DEF WorkerInv, WorkerOK
  <2>7. current_level[u] = 0
    BY <1>0, <2>1, <2>6, WorkerTypes
  <2>8. fileSize[u] <= 0
    BY <2>6, <2>7, StartProps
  <2>. QED  BY <1>0, <2>8, WorkerTypes
<1>4. StartedUnlessEmpty'
  BY <1>1, <1>3
  DEF StartedUnlessEmpty, AllInputsStarted, fileVars, workerVars,
      Abstract!HasEmptyInput, Files, Abstract!Files
<1>5. MainInv'
  <2>1. ~(proc' = "done") /\ ~(proc' = "crashed")
    BY <1>1
  <2>2. \A u \in Files : ~(u < i')
    BY <1>1, FilesType
  <2>. QED  BY <1>1, <1>4, <2>1, <2>2 DEF MainInv
<1>. QED  BY <1>2, <1>5 DEF IInv

\* Main joins and returns, or a failed system call ends the process.
LEMMA JoinInv ==
  ASSUME IInv, proc = "running", JoinThread \/ JoinUncreated \/ ReturnFromMain \/ ExitOnError
  PROVE  IInv'
<1>0. TypeOK /\ MainInv
  BY DEF IInv
<1>1. UNCHANGED <<fileVars, sharedVars, syncVars, workerVars>>
  BY DEF JoinThread, JoinUncreated, ReturnFromMain, ExitOnError
<1>2. /\ mainPc' = mainPc /\ i' \in 0 .. N
      /\ proc' \in {"running", "done", "failed", "crashed"}
  BY <1>0
  DEF JoinThread, JoinUncreated, ReturnFromMain, ExitOnError, mainVars, TypeOK
<1>3. TypeOK' /\ CountersCount' /\ WorkerInv' /\ WriterInv' /\ BufferInv' /\ OutputInv'
  BY <1>0, <1>1, <1>2, WorkersFrame DEF TypeOK
<1>4. StartedUnlessEmpty' = StartedUnlessEmpty /\ AllInputsStarted' = AllInputsStarted
  BY <1>1, <1>2 DEF StartedUnlessEmpty, AllInputsStarted, fileVars, workerVars,
                    Abstract!HasEmptyInput, Files, Abstract!Files
<1>5. MainInv'
  <2>. USE <1>0, <1>1, <1>2, <1>4, FilesType DEF workerVars, MainInv
  <2>1. CASE JoinThread
    <3>1. \A u \in Files : u < i + 1 => u < i \/ u = i
      BY DEF TypeOK
    <3>. QED  BY <2>1, <3>1 DEF JoinThread
  <2>2. CASE JoinUncreated
    <3>1. \A u \in Files : u < i + 1 => u < i \/ u = i
      BY DEF TypeOK
    <3>2. ~AllInputsStarted
      BY <2>2 DEF JoinUncreated, AllInputsStarted, TypeOK
    <3>. QED  BY <2>2, <3>1, <3>2 DEF JoinUncreated
  <2>3. CASE ReturnFromMain
    BY <2>3 DEF ReturnFromMain, mainVars, AllJoined
  <2>4. CASE ExitOnError
    BY <2>4 DEF ExitOnError, mainVars
  <2>. QED  BY <2>1, <2>2, <2>3, <2>4
<1>. QED  BY <1>3, <1>5 DEF IInv

----------------------------------------------------------------------------
(***************************************************************************)
(* The invariant and what follows from it.                                 *)
(***************************************************************************)

\* Main before it creates a thread has the inductive invariant.
LEMMA InitInv ==
  ASSUME Init
  PROVE  IInv
<1>. USE DEF Init
<1>1. TypeOK
  <2>1. out \in Seq(SUBSET Abstract!Byte)
    OBVIOUS
  <2>2. /\ 0 \in 0 .. N /\ N \in 0 .. N /\ 0 \in 0 .. BUFFER_SIZE
        /\ 0 \in -(MaxInt + 1) .. MaxInt
    OBVIOUS
  <2>. QED  BY <2>1, <2>2 DEF TypeOK, WorkerPcs
<1>2. Enrolled = Files /\ Contributed = {} /\ XoredIn = {} /\ LevelStart = 0
  <2>1. Enrolled = Files
    BY DEF Enrolled
  <2>2. Contributed = {}
    BY DEF Contributed
  <2>3. XoredIn = {}
    BY <2>2 DEF XoredIn
  <2>. QED  BY <2>1, <2>2, <2>3, StartProps DEF LevelStart
<1>3. CountersCount
  BY <1>2, FilesType, FS_EmptySet DEF CountersCount
<1>4. WorkerInv
  BY <1>1, StartProps, WorkerTypes DEF WorkerInv, WorkerOK
<1>5. WriterInv
  BY FilesType DEF WriterInv
<1>6. BufferInv
  BY <1>2 DEF BufferInv
<1>7. OutputInv
  BY <1>2 DEF OutputInv, Flushed, Abstract!IsXorPrefix
<1>8. MainInv
  BY FilesType DEF MainInv
<1>. QED  BY <1>1, <1>3, <1>4, <1>5, <1>6, <1>7, <1>8 DEF IInv

\* Every step of main and the threads keeps the inductive invariant.
LEMMA StepInv ==
  ASSUME IInv, [Next]_vars
  PROVE  IInv'
<1>1. CASE UNCHANGED vars
  <2>1. UNCHANGED <<fileVars, sharedVars, syncVars, workerVars, mainVars, proc>>
    BY <1>1 DEF vars
  <2>2. TypeOK' /\ CountersCount' /\ WorkerInv' /\ WriterInv' /\ BufferInv' /\ OutputInv'
    BY <2>1, WorkersFrame DEF IInv, TypeOK, mainVars
  <2>3. MainInv'
    BY <2>1 DEF IInv, MainInv, StartedUnlessEmpty, AllInputsStarted, fileVars, workerVars,
                mainVars, Abstract!HasEmptyInput, Files, Abstract!Files
  <2>. QED  BY <2>2, <2>3 DEF IInv
<1>2. CASE Next
  <2>1. CASE MainStep
    BY <1>2, <2>1, CreateThreadInv, CreationDoneInv, JoinInv DEF Next, MainStep
  <2>2. CASE ExitOnError
    BY <1>2, <2>2, JoinInv DEF Next
  <2>3. ASSUME NEW t \in Files, WorkerStep(t) PROVE IInv'
    <3>1. proc = "running"
      BY <1>2 DEF Next
    <3>2. CASE WaitToXor(t)
      BY <3>1, <3>2, SleepInv DEF WaitToXor
    <3>3. CASE WaitToLeave(t)
      BY <3>1, <3>3, SleepInv DEF WaitToLeave
    <3>. QED
      BY <2>3, <3>1, <3>2, <3>3, ReadSomeInv, ReadEndOfFileInv, XorWithOutputInv,
         XorAndWriteInv, WriteSomeInv, CleanBufferInv, LeaveInv
      DEF WorkerStep
  <2>. QED  BY <1>2, <2>1, <2>2, <2>3 DEF Next
<1>. QED  BY <1>1, <1>2

\* The invariant holds for any number of files of any lengths and any block size.
THEOREM Invariance == Spec => []IInv
<1>1. Init => IInv
  BY InitInv
<1>2. IInv /\ [Next]_vars => IInv'
  BY StepInv
<1>. QED  BY <1>1, <1>2, PTL DEF Spec

\* Every variable keeps its type; no counter leaves 0 .. N and lengthToWrite
\* never exceeds the buffer.
THEOREM TypeCorrect == Spec => []TypeOK
<1>1. IInv => TypeOK
  BY DEF IInv
<1>. QED  BY <1>1, Invariance, PTL

\* numThreads and workersDone count the threads they stand for.
THEOREM CountersCorrect == Spec => []CountersCount
<1>1. IInv => CountersCount
  BY DEF IInv
<1>. QED  BY <1>1, Invariance, PTL

\* Only the xor of the inputs is ever in the output file.
THEOREM OutputCorrect == Spec => []OutputIsXorPrefix
<1>1. IInv => OutputIsXorPrefix
  BY DEF IInv, OutputInv, OutputIsXorPrefix
<1>. QED  BY <1>1, Invariance, PTL

\* No thread sleeps through the level it waits for.
THEOREM SleepersCorrect == Spec => []SleepersAreAhead
<1>1. IInv => SleepersAreAhead
  BY DEF IInv, TypeOK, WorkerInv, WorkerOK, SleepersAreAhead
<1>. QED  BY <1>1, Invariance, PTL

\* Without an empty input every file gets its thread.
THEOREM StartedCorrect == Spec => []StartedUnlessEmpty
<1>1. IInv => StartedUnlessEmpty
  BY DEF IInv, TypeOK, MainInv, StartedUnlessEmpty, AllInputsStarted
<1>. QED  BY <1>1, Invariance, PTL

\* When main has joined every thread the whole xor is in the file.
LEMMA JoinedIsWhole ==
  ASSUME IInv, mainPc = "join", i = N, AllInputsStarted
  PROVE  Abstract!IsWholeXor(out)
<1>0. TypeOK /\ WorkerInv /\ WriterInv /\ OutputInv /\ MainInv
  BY DEF IInv
<1>1. \A t \in Files : pc[t] = "left"
  BY <1>0, FilesType DEF MainInv, AllInputsStarted
<1>2. Flushed = Len(out) /\ Len(out) \in Nat
  <2>1. bufferLock = Nobody
    BY <1>0, <1>1 DEF WriterInv, TypeOK
  <2>2. Len(out) \in Nat
    BY <1>0 DEF TypeOK
  <2>. QED  BY <2>1, <2>2 DEF Flushed
<1>3. \A t \in Files : fileSize[t] <= LevelStart
  <2>. SUFFICES ASSUME NEW t \in Files PROVE fileSize[t] <= LevelStart
    OBVIOUS
  <2>1. fileSize[t] <= Start(current_level[t]) /\ current_level[t] <= level
    BY <1>0, <1>1 DEF WorkerInv, WorkerOK
  <2>2. Start(current_level[t]) <= LevelStart
    BY <1>0, <2>1, StartProps, WorkerTypes DEF LevelStart
  <2>. QED  BY <1>0, <2>1, <2>2, WorkerTypes
<1>4. \A t \in Files : fileSize[t] <= Len(out)
  BY <1>0, <1>2, <1>3 DEF OutputInv
<1>5. \A t \in Files : ~(Len(out) < fileSize[t])
  BY <1>0, <1>2, <1>4, WorkerTypes
<1>. QED  BY <1>0, <1>5 DEF OutputInv, Abstract!IsWholeXor, Abstract!XorByte, Files

\* A program that returns 0, every thread started, has written the whole xor.
THEOREM DoneCorrect == Spec => []DoneIsWhole
<1>1. IInv => DoneIsWhole
  BY JoinedIsWhole DEF IInv, MainInv, DoneIsWhole
<1>. QED  BY <1>1, Invariance, PTL

\* A thread is taken off numThreads only at its own level with its file read.
THEOREM LeavingCorrect == Spec => LeavesAtOwnLevel
<1>1. ASSUME IInv, [Next]_vars, NEW t \in Files, t \in Enrolled, t \notin Enrolled'
      PROVE  current_level[t] = level /\ offset[t] = fileSize[t]
  <2>0. TypeOK /\ WorkerInv
    BY <1>1 DEF IInv
  <2>1. pc[t] \notin {"left", "lastWrite"} /\ pc'[t] \in {"left", "lastWrite"}
    BY <1>1 DEF Enrolled
  <2>2. pc' # pc /\ Next
    BY <1>1, <2>1 DEF vars, workerVars
  <2>3. ~MainStep
    BY <2>0, <2>1, <2>2
    DEF TypeOK, MainStep, CreateThread, CreationDone, JoinThread, JoinUncreated,
        ReturnFromMain, workerVars, Goto
  <2>4. ~ExitOnError
    BY <2>2 DEF ExitOnError, workerVars
  <2>5. PICK u \in Files : WorkerStep(u)
    BY <2>2, <2>3, <2>4 DEF Next
  <2>6. ~(ReadSome(u) \/ ReadEndOfFile(u) \/ WaitToXor(u) \/ XorWithOutput(u))
    BY <2>0, <2>1
    DEF TypeOK, ReadSome, ReadEndOfFile, WaitToXor, SleepUnlessLevel, XorWithOutput, Goto
  <2>7. ~(XorAndWrite(u) \/ WriteSome(u) \/ CleanBuffer(u) \/ WaitToLeave(u))
    BY <2>0, <2>1
    DEF TypeOK, XorAndWrite, BeginWrite, NextBlock, WriteSome, workerVars, CleanBuffer,
        WaitToLeave, SleepUnlessLevel, Goto
  <2>8. Leave(u)
    BY <2>5, <2>6, <2>7 DEF WorkerStep
  <2>9. u = t
    BY <2>0, <2>1, <2>8 DEF TypeOK, Leave, BeginWrite, Goto
  <2>10. pc[t] \in {"finish", "finishWait"} /\ current_level[t] = level
    BY <2>0, <2>8, <2>9, PassesAtLevel DEF Leave
  <2>. QED  BY <2>0, <2>10 DEF WorkerInv, WorkerOK
<1>2. IInv /\ [Next]_vars =>
        [\A t \in Files : t \in Enrolled /\ t \notin Enrolled' =>
            current_level[t] = level /\ offset[t] = fileSize[t]]_vars
  BY <1>1
<1>. QED  BY <1>2, Invariance, PTL DEF Spec, LeavesAtOwnLevel

----------------------------------------------------------------------------
(***************************************************************************)
(* The size that main reports.                                             *)
(***************************************************************************)

\* total_size is the number of bytes in the levels before the current one, as far
\* as an int can tell: the bytes of an unfinished level are not added yet.
SizeInv == total_size = AsInt(Flushed)

\* The sum of an int that has wrapped wraps to the same int.
LEMMA AsIntOfSum ==
  ASSUME NEW a \in Int, NEW b \in Int
  PROVE  AsInt(AsInt(a) + b) = AsInt(a + b)
<1>. DEFINE m == 2 * (MaxInt + 1)
            x == a + MaxInt + 1
<1>1. m \in Nat \ {0} /\ x \in Int
  OBVIOUS
<1>2. ((x % m) + b) % m = (x + b) % m
  BY <1>1, RemainderOfSum
<1>3. AsInt(a) + b + MaxInt + 1 = (x % m) + b
  <2>. HIDE DEF m, x
  <2>1. x % m \in Int
    BY <1>1
  <2>2. AsInt(a) = (x % m) - (MaxInt + 1)
    BY DEF AsInt, m, x
  <2>. QED  BY <2>1, <2>2
<1>4. x + b = a + b + MaxInt + 1
  OBVIOUS
<1>5. AsInt(AsInt(a) + b) = (((x % m) + b) % m) - (MaxInt + 1)
  BY <1>3 DEF AsInt
<1>6. AsInt(a + b) = ((x + b) % m) - (MaxInt + 1)
  BY <1>4 DEF AsInt
<1>. QED  BY <1>2, <1>5, <1>6

\* At the start nothing is written and nothing counted.
LEMMA SizeInit ==
  ASSUME Init
  PROVE  SizeInv
<1>1. Flushed = 0
  BY DEF Init, Flushed
<1>2. AsInt(0) = 0
  BY DEF AsInt
<1>. QED  BY <1>1, <1>2 DEF Init, SizeInv

\* Every step keeps the size counted and the length written equal, in the width of an int.
LEMMA SizeStep ==
  ASSUME IInv, SizeInv, [Next]_vars
  PROVE  SizeInv'
<1>0. TypeOK /\ WriterInv
  BY DEF IInv
<1>1. Len(out) \in Nat /\ bytesWritten \in Nat /\ lengthToWrite \in Nat
  BY <1>0 DEF TypeOK
<1>. SUFFICES \/ UNCHANGED <<total_size, Flushed>>
              \/ \E t \in Files : WriteSome(t) \/ CleanBuffer(t)
  <2>1. ASSUME UNCHANGED <<total_size, Flushed>> PROVE SizeInv'
    BY <2>1 DEF SizeInv, AsInt
  <2>2. ASSUME NEW t \in Files, WriteSome(t) PROVE SizeInv'
    <3>1. PICK n \in 1 .. lengthToWrite - bytesWritten :
            out' = out \o Chunk(n) /\ bytesWritten' = bytesWritten + n
      BY <2>2 DEF WriteSome
    <3>2. Writing(t) /\ total_size' = total_size /\ bufferLock' = bufferLock
      BY <2>2 DEF WriteSome, sharedVars
    <3>3. bufferLock # Nobody /\ Chunk(n) \in Seq(SUBSET Abstract!Byte) /\ Len(Chunk(n)) = n
      BY <3>2, WriterFacts, WriteSomeOutput
    <3>4. Len(out') = Len(out) + n
      BY <1>0, <3>1, <3>3, ConcatProperties DEF TypeOK
    <3>5. Flushed' = Flushed
      BY <1>1, <3>1, <3>2, <3>3, <3>4 DEF Flushed
    <3>. QED  BY <2>1, <3>2, <3>5
  <2>3. ASSUME NEW t \in Files, CleanBuffer(t) PROVE SizeInv'
    <3>1. /\ Writing(t) /\ bytesWritten = lengthToWrite
          /\ total_size' = AsInt(total_size + lengthToWrite)
          /\ bufferLock' = Nobody /\ out' = out
      BY <2>3 DEF CleanBuffer, AddToTotal, fileVars
    <3>2. Len(out) = Flushed + bytesWritten
      BY <3>1, WriterFacts
    <3>3. Flushed \in Int
      BY <1>1 DEF Flushed
    <3>4. Flushed' = Flushed + lengthToWrite
      BY <3>1, <3>2 DEF Flushed
    <3>. QED  BY <1>1, <3>1, <3>3, <3>4, AsIntOfSum DEF SizeInv
  <2>. QED  BY <2>1, <2>2, <2>3
<1>2. CASE MainStep \/ ExitOnError \/ UNCHANGED vars
  BY <1>2 DEF MainStep, CreateThread, CreationDone, JoinThread, JoinUncreated, ReturnFromMain,
              ExitOnError, vars, fileVars, sharedVars, syncVars, Flushed
<1>3. ASSUME NEW t \in Files, WorkerStep(t)
      PROVE  UNCHANGED <<total_size, Flushed>> \/ WriteSome(t) \/ CleanBuffer(t)
  <2>. USE DEF fileVars, sharedVars, syncVars, Flushed
  <2>1. CASE ReadSome(t) \/ ReadEndOfFile(t) \/ XorWithOutput(t)
    BY <2>1 DEF ReadSome, ReadEndOfFile, XorWithOutput
  <2>2. CASE WaitToXor(t) \/ WaitToLeave(t)
    BY <2>2 DEF WaitToXor, WaitToLeave, SleepUnlessLevel
  <2>3. CASE XorAndWrite(t)
    BY <1>1, <2>3 DEF XorAndWrite, BeginWrite
  <2>4. CASE Leave(t)
    BY <1>1, <2>4 DEF Leave, BeginWrite, PassesLevel
  <2>. QED  BY <1>3, <2>1, <2>2, <2>3, <2>4 DEF WorkerStep
<1>. QED  BY <1>2, <1>3 DEF Next

\* The size reported at the end is the length of the file as an int can hold it,
\* however often the total has wrapped.
THEOREM SizeCorrect == Spec => []SizeIsReported
<1>1. Init => SizeInv
  BY SizeInit
<1>2. IInv /\ SizeInv /\ [Next]_vars => SizeInv'
  BY SizeStep
<1>3. SizeInv => SizeIsReported
  BY DEF SizeInv, SizeIsReported, Flushed
<1>. QED  BY <1>1, <1>2, <1>3, Invariance, PTL DEF Spec

----------------------------------------------------------------------------
(***************************************************************************)
(* The program implements XorOutput.                                       *)
(***************************************************************************)

\* Every step of hw4 is a step of XorOutput or changes nothing of it.
LEMMA StepRefines ==
  ASSUME IInv, [Next]_vars
  PROVE  [Abstract!Next]_(Abstract!outputVars)
<1>. USE DEF Abstract!outputVars, fileVars
<1>0. TypeOK /\ MainInv
  BY DEF IInv
<1>1. CASE UNCHANGED vars
  BY <1>1 DEF vars
<1>2. CASE Next
  <2>0. proc = "running"
    BY <1>2 DEF Next
  <2>1. CASE ReturnFromMain
    <3>1. Abstract!IsWholeXor(out) \/ Abstract!HasEmptyInput
      BY <1>0, <2>1, JoinedIsWhole DEF ReturnFromMain, AllJoined, MainInv, StartedUnlessEmpty
    <3>. QED  BY <2>0, <2>1, <3>1 DEF ReturnFromMain, Abstract!Next, Abstract!Deliver
  <2>2. CASE JoinUncreated
    <3>1. ~AllInputsStarted
      BY <1>0, <2>2, FilesType DEF JoinUncreated, AllInputsStarted, TypeOK
    <3>2. Abstract!HasEmptyInput
      BY <1>0, <2>2, <3>1 DEF JoinUncreated, MainInv, StartedUnlessEmpty
    <3>. QED  BY <2>0, <2>2, <3>2 DEF JoinUncreated, Abstract!Next, Abstract!Abort
  <2>3. CASE ExitOnError
    BY <2>0, <2>3 DEF ExitOnError, Abstract!Next, Abstract!Abort
  <2>4. CASE CreateThread \/ CreationDone \/ JoinThread
    BY <2>4 DEF CreateThread, CreationDone, JoinThread
  <2>5. ASSUME NEW t \in Files, WriteSome(t)
        PROVE  Abstract!Extend
    <3>1. PICK n \in 1 .. lengthToWrite - bytesWritten : out' = out \o Chunk(n)
      BY <2>5 DEF WriteSome
    <3>2. Writing(t) /\ fileSize' = fileSize /\ proc' = proc
      BY <2>5 DEF WriteSome
    <3>3. /\ Chunk(n) \in Seq(SUBSET Abstract!Byte) /\ Len(Chunk(n)) = n
          /\ Abstract!IsXorPrefix(out \o Chunk(n))
      BY <3>1, <3>2, WriteSomeOutput
    <3>4. out \in Seq(SUBSET Abstract!Byte)
      BY <1>0 DEF TypeOK
    <3>5. Len(out') = Len(out) + n /\ SubSeq(out', 1, Len(out)) = out
      <4>. DEFINE c == Chunk(n)
      <4>1. c \in Seq(SUBSET Abstract!Byte) /\ Len(c) = n
        BY <3>3
      <4>. HIDE DEF c
      <4>2. Len(out \o c) = Len(out) + n /\ SubSeq(out \o c, 1, Len(out)) = out
        BY <3>4, <4>1
      <4>. QED  BY <3>1, <4>2 DEF c
    <3>6. Len(out') > Len(out)
      BY <3>4, <3>5
    <3>7. Abstract!IsXorPrefix(out)'
      BY <3>1, <3>2, <3>3 DEF Abstract!IsXorPrefix, Abstract!XorByte, Abstract!Files
    <3>. QED
      BY <2>0, <3>2, <3>5, <3>6, <3>7
      DEF Abstract!Extend, Abstract!IsXorPrefix, Abstract!XorByte, Abstract!Files
  <2>6. ASSUME NEW t \in Files, WorkerStep(t), ~WriteSome(t)
        PROVE  UNCHANGED Abstract!outputVars
    BY <2>6
    DEF WorkerStep, ReadSome, ReadEndOfFile, WaitToXor, WaitToLeave, SleepUnlessLevel,
        XorWithOutput, XorAndWrite, CleanBuffer, Leave
  <2>. QED
    BY <1>2, <2>1, <2>2, <2>3, <2>4, <2>5, <2>6 DEF Next, MainStep, Abstract!Next
<1>. QED  BY <1>1, <1>2

\* hw4 implements the abstract specification of its output file, whatever the
\* number of threads, the lengths of the files and the size of a block.
THEOREM Refinement == Spec => ImplementsOutput
<1>1. Init => Abstract!Init
  BY DEF Init, Abstract!Init, Files
<1>2. IInv /\ [Next]_vars => [Abstract!Next]_(Abstract!outputVars)
  BY StepRefines
<1>. QED  BY <1>1, <1>2, Invariance, PTL DEF Spec, Abstract!Spec, ImplementsOutput
=============================================================================
