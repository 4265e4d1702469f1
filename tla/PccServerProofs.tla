--------------------------- MODULE PccServerProofs ---------------------------
(***************************************************************************)
(* Proofs about PccServer.  IInv is inductive; the safety properties and   *)
(* the refinement of PccStatistics follow from it.                         *)
(***************************************************************************)
EXTENDS PccServer, FiniteSetTheorems, TLAPS

USE ActorsAssumption, ConnsAssumption, LenAssumption, SigintsAssumption

----------------------------------------------------------------------------
(***************************************************************************)
(* The inductive invariant.                                                *)
(***************************************************************************)

\* The accepted connection that has no thread yet is the one main has in hand.
InHand ==
  /\ mainPc = "accept" <=> connect_fd = NoConn
  /\ \A c \in Conns : conn[c] = "accepted" <=> connect_fd = c

\* A thread is inside updateActiveThreads, with the lock.
Updates(a) ==
  \/ a = Main /\ mainPc \in {"registering", "registered"}
  \/ a \in Conns /\ conn[a] \in {"deregistering", "broadcasting", "unlocking"}

\* The lock is held by a thread in updateActiveThreads or by one in the first lines
\* of cleanup, never both: a handler that interrupts the holder gets no further
\* than its own attempt to take the lock.  Nobody who will need a lock is left when
\* the locks are destroyed.
LockInv ==
  /\ \A a \in Threads : Updates(a) => handler[a] \in {"none", "lock"}
  /\ \A a \in Threads : lock = a <=> Updates(a) \/ handler[a] \in {"test", "unlock"}
  /\ locks = "destroyed" => lock = Nobody /\ \A a \in Threads : handler[a] # "wait"

\* Who is asleep is in the wait, and who has still to broadcast has counted the last
\* connection out.
SleepersInv ==
  /\ waiting \subseteq {a \in Threads : handler[a] = "wait"}
  /\ \A c \in Conns : conn[c] = "broadcasting" => active_threads = 0
  /\ SleepersHaveSomebody

\* The handler of a is past its wait, or about to be.
PastWait(a) ==
  \/ handler[a] \in {"unlock", "print", "destroy", "reuse", "close"}
  \/ handler[a] = "wait" /\ a \notin waiting

\* The shutdown has passed its wait somewhere.
ShutDown ==
  \/ locks = "destroyed"
  \/ \E a \in Threads : PastWait(a) \/ report[a] # << >>

\* Before the first SIGINT no handler runs and nothing is printed; after it main
\* runs its own code only when its handler has been through all of cleanup().
\* Nobody is active once the shutdown has passed its wait.
ShutDownInv ==
  /\ ~sigint_happend => ~ShutDown /\ \A a \in Threads : handler[a] = "none"
  /\ sigint_happend /\ handler[Main] = "none" =>
       /\ locks = "destroyed" /\ ~listening
       /\ Len(report[Main]) = PRINTABLES_LEN
  /\ \A a \in Threads : handler[a] \in {"reuse", "close"} => locks = "destroyed"
  /\ ShutDown => active_threads = 0

\* A printed counter counts the answered clients; a thread prints each counter once,
\* and somebody has printed them all when the locks are destroyed.
ReportInv ==
  /\ locks = "destroyed" => \E a \in Threads : Len(report[a]) = PRINTABLES_LEN
  /\ \A a \in Threads :
       /\ \A i \in 1 .. Len(report[a]) : report[a][i] = answered
       /\ handler[a] \in {"none", "lock"} => report[a] = << >> \/ locks = "destroyed"
       /\ handler[a] \in {"test", "wait", "unlock"} => report[a] = << >>
       /\ handler[a] = "print" => Len(report[a]) < PRINTABLES_LEN
       /\ handler[a] \in {"destroy", "reuse", "close"} => Len(report[a]) = PRINTABLES_LEN

Unanswered == {"idle", "accepted", "serving"}

\* An answered client is in all the counters when its thread has left the loop that
\* adds to them, and one that is not answered is in none.
CountersInv ==
  /\ answered = {c \in Conns : conn[c] \notin Unanswered}
  /\ \A c \in Conns, k \in Chars : c \in counters[k] => c \in answered
  /\ \A c \in Conns : conn[c] \notin Unanswered \cup {"adding"} =>
       \A k \in Chars : c \in counters[k]

IInv ==
  /\ TypeOK
  /\ InHand
  /\ LockInv
  /\ SleepersInv
  /\ ActiveCountsRegistered
  /\ ShutDownInv
  /\ ReportInv
  /\ CountersInv

\* The registered connections can be counted.
LEMMA RegisteredFinite ==
  /\ IsFiniteSet(Registered)
  /\ Cardinality(Registered) \in Nat
  /\ Cardinality(Registered) = 0 <=> Registered = {}
<1>1. Registered \subseteq Conns
  BY DEF Registered
<1>. QED  BY <1>1, FS_Subset, FS_CardinalityType, FS_EmptySet

\* Nobody that can still change the statistics is there once the shutdown has
\* passed its wait.
LEMMA ShutDownIsIdle ==
  ASSUME IInv, ShutDown
  PROVE  /\ active_threads = 0 /\ Registered = {}
         /\ sigint_happend
BY RegisteredFinite DEF IInv, ShutDownInv, ActiveCountsRegistered

\* The end of the process changes nothing else.
LEMMA ProcOnlyInv ==
  ASSUME IInv, proc' \in {"running", "returned", "failed"},
         UNCHANGED <<active_threads, syncVars, mainVars, signalVars, connVars>>
  PROVE  IInv'
<1>. USE DEF syncVars, mainVars, signalVars, connVars
<1>1. TypeOK'
  BY DEF IInv, TypeOK, ConnPcs, HandlerPcs
<1>2. InHand'
  BY DEF IInv, InHand
<1>3. LockInv'
  BY DEF IInv, LockInv, Updates
<1>4. SleepersInv'
  BY DEF IInv, SleepersInv, SleepersHaveSomebody
<1>5. ActiveCountsRegistered'
  BY DEF IInv, ActiveCountsRegistered, Registered
<1>6. ShutDownInv'
  BY DEF IInv, ShutDownInv, ShutDown, PastWait
<1>7. ReportInv'
  BY DEF IInv, ReportInv
<1>8. CountersInv'
  BY DEF IInv, CountersInv, Unanswered
<1>. QED  BY <1>1, <1>2, <1>3, <1>4, <1>5, <1>6, <1>7, <1>8 DEF IInv

\* A connection that is accepted is not counted yet.
LEMMA AcceptInv ==
  ASSUME IInv, NEW c \in Conns, proc = "running", Runs(Main), Accept(c)
  PROVE  IInv'
<1>. USE DEF Accept, ConnGoto, Runs, syncVars, mainVars, signalVars, connVars
<1>1. TypeOK'
  BY DEF IInv, TypeOK, ConnPcs, HandlerPcs, Threads
<1>2. InHand'
  BY DEF IInv, InHand, TypeOK
<1>3. LockInv'
  BY DEF IInv, LockInv, Updates
<1>4. SleepersInv'
  BY DEF IInv, SleepersInv, SleepersHaveSomebody
<1>5. ActiveCountsRegistered'
  BY DEF IInv, ActiveCountsRegistered, Registered
<1>6. ShutDownInv'
  BY DEF IInv, ShutDownInv, ShutDown, PastWait
<1>7. ReportInv'
  BY DEF IInv, ReportInv
<1>8. CountersInv'
  BY DEF IInv, CountersInv, Unanswered
<1>. QED  BY <1>1, <1>2, <1>3, <1>4, <1>5, <1>6, <1>7, <1>8 DEF IInv

\* Main takes the lock to count a connection in.
LEMMA RegisterLockInv ==
  ASSUME IInv, proc = "running", Runs(Main), RegisterLock
  PROVE  IInv'
<1>. USE DEF RegisterLock, Acquire, Runs, syncVars, mainVars, signalVars, connVars
<1>1. TypeOK'
  BY DEF IInv, TypeOK, ConnPcs, HandlerPcs, Threads
<1>2. InHand'
  BY DEF IInv, InHand
<1>3. LockInv'
  BY DEF IInv, LockInv, Updates
<1>4. SleepersInv'
  BY DEF IInv, SleepersInv, SleepersHaveSomebody
<1>5. ActiveCountsRegistered'
  BY DEF IInv, ActiveCountsRegistered, Registered
<1>6. ShutDownInv'
  BY DEF IInv, ShutDownInv, ShutDown, PastWait
<1>7. ReportInv'
  BY DEF IInv, ReportInv
<1>8. CountersInv'
  BY DEF IInv, CountersInv, Unanswered
<1>. QED  BY <1>1, <1>2, <1>3, <1>4, <1>5, <1>6, <1>7, <1>8 DEF IInv

\* Main counts a connection in.
LEMMA RegisterInv ==
  ASSUME IInv, proc = "running", Runs(Main), Register
  PROVE  IInv'
<1>. USE DEF Register, UpdateActiveThreads, Runs, syncVars, mainVars, signalVars, connVars
<1>0. connect_fd \in Conns /\ conn[connect_fd] = "accepted" /\ connect_fd # NoConn
  BY DEF IInv, TypeOK, InHand
<1>1. TypeOK'
  BY DEF IInv, TypeOK, ConnPcs, HandlerPcs, Threads
<1>2. InHand'
  BY DEF IInv, InHand
<1>3. LockInv'
  BY DEF IInv, LockInv, Updates
<1>4. SleepersInv'
  <2>1. lock = Main /\ \A c \in Conns : conn[c] # "broadcasting"
    BY DEF IInv, LockInv, Updates, Threads
  <2>2. active_threads' # 0
    BY DEF IInv, TypeOK
  <2>. QED  BY <2>1, <2>2 DEF IInv, SleepersInv, SleepersHaveSomebody
<1>5. ActiveCountsRegistered'
  <2>1. connect_fd \notin Registered /\ Registered' = Registered \cup {connect_fd}
    BY <1>0 DEF IInv, TypeOK, Registered
  <2>2. Cardinality(Registered') = Cardinality(Registered) + 1
    BY <2>1, RegisteredFinite, FS_AddElement
  <2>. QED  BY <2>2 DEF IInv, ActiveCountsRegistered, TypeOK
<1>6. ShutDownInv'
  <2>1. lock = Main /\ locks = "live"
    BY DEF IInv, LockInv, Updates, TypeOK, Threads
  <2>2. ~sigint_happend
    BY <2>1 DEF IInv, ShutDownInv
  <2>3. ~ShutDown /\ \A a \in Threads : handler[a] = "none"
    BY <2>2 DEF IInv, ShutDownInv
  <2>4. ~ShutDown'
    BY <2>3 DEF ShutDown, PastWait
  <2>. QED  BY <2>2, <2>3, <2>4 DEF ShutDownInv, Threads
<1>7. ReportInv'
  BY DEF IInv, ReportInv
<1>8. CountersInv'
  BY DEF IInv, CountersInv, Unanswered
<1>. QED  BY <1>1, <1>2, <1>3, <1>4, <1>5, <1>6, <1>7, <1>8 DEF IInv

\* Main gives the lock back.
LEMMA RegisterUnlockInv ==
  ASSUME IInv, proc = "running", Runs(Main), RegisterUnlock
  PROVE  IInv'
<1>. USE DEF RegisterUnlock, Release, Runs, syncVars, mainVars, signalVars, connVars
<1>1. TypeOK'
  BY DEF IInv, TypeOK, ConnPcs, HandlerPcs, Threads
<1>2. InHand'
  BY DEF IInv, InHand
<1>3. LockInv'
  BY DEF IInv, LockInv, Updates, TypeOK
<1>4. SleepersInv'
  BY DEF IInv, SleepersInv, SleepersHaveSomebody, LockInv, Updates, TypeOK
<1>5. ActiveCountsRegistered'
  BY DEF IInv, ActiveCountsRegistered, Registered
<1>6. ShutDownInv'
  BY DEF IInv, ShutDownInv, ShutDown, PastWait
<1>7. ReportInv'
  BY DEF IInv, ReportInv
<1>8. CountersInv'
  BY DEF IInv, CountersInv, Unanswered
<1>. QED  BY <1>1, <1>2, <1>3, <1>4, <1>5, <1>6, <1>7, <1>8 DEF IInv

\* The connection becomes a thread's; it is counted already.
LEMMA CreateThreadInv ==
  ASSUME IInv, proc = "running", Runs(Main), CreateThread
  PROVE  IInv'
<1>. USE DEF CreateThread, ConnGoto, Runs, syncVars, mainVars, signalVars, connVars
<1>0. connect_fd \in Conns /\ conn[connect_fd] = "accepted" /\ connect_fd # NoConn
  BY DEF IInv, TypeOK, InHand
<1>1. TypeOK'
  BY DEF IInv, TypeOK, ConnPcs, HandlerPcs, Threads
<1>2. InHand'
  BY DEF IInv, InHand, TypeOK
<1>3. LockInv'
  BY <1>0 DEF IInv, LockInv, Updates, TypeOK, Threads
<1>4. SleepersInv'
  BY <1>0 DEF IInv, SleepersInv, SleepersHaveSomebody, TypeOK
<1>5. ActiveCountsRegistered'
  BY DEF IInv, ActiveCountsRegistered, Registered, TypeOK
<1>6. ShutDownInv'
  BY DEF IInv, ShutDownInv, ShutDown, PastWait
<1>7. ReportInv'
  BY DEF IInv, ReportInv
<1>8. CountersInv'
  BY <1>0 DEF IInv, CountersInv, Unanswered, TypeOK
<1>. QED  BY <1>1, <1>2, <1>3, <1>4, <1>5, <1>6, <1>7, <1>8 DEF IInv

\* The client is answered, and its counters are all still to be added.
LEMMA ServeInv ==
  ASSUME IInv, NEW c \in Conns, proc = "running", Runs(c), Serve(c)
  PROVE  IInv'
<1>. USE DEF Serve, ConnGoto, Runs, syncVars, mainVars, signalVars, connVars
<1>1. TypeOK'
  BY DEF IInv, TypeOK, ConnPcs, HandlerPcs, Threads
<1>2. InHand'
  BY DEF IInv, InHand
<1>3. LockInv'
  BY DEF IInv, LockInv, Updates
<1>4. SleepersInv'
  BY DEF IInv, SleepersInv, SleepersHaveSomebody
<1>5. ActiveCountsRegistered'
  BY DEF IInv, ActiveCountsRegistered, Registered
<1>6. ShutDownInv'
  BY DEF IInv, ShutDownInv, ShutDown, PastWait
<1>7. ReportInv'
  <2>1. c \in Registered
    BY DEF Registered
  <2>2. ~ShutDown
    BY <2>1, ShutDownIsIdle
  <2>3. \A a \in Threads : report[a] = << >> /\ Len(report[a]) = 0
    BY <2>2 DEF ShutDown
  <2>. QED  BY <2>3 DEF IInv, ReportInv
<1>8. CountersInv'
  BY DEF IInv, CountersInv, Unanswered, TypeOK
<1>. QED  BY <1>1, <1>2, <1>3, <1>4, <1>5, <1>6, <1>7, <1>8 DEF IInv

\* The thread adds one counter of its client.
LEMMA AddCounterInv ==
  ASSUME IInv, NEW c \in Conns, proc = "running", Runs(c), AddCounter(c)
  PROVE  IInv'
<1>. USE DEF AddCounter, ConnGoto, Runs, syncVars, mainVars, signalVars, connVars
<1>1. TypeOK'
  BY DEF IInv, TypeOK, ConnPcs, HandlerPcs, Threads
<1>2. InHand'
  BY DEF IInv, InHand
<1>3. LockInv'
  BY DEF IInv, LockInv, Updates
<1>4. SleepersInv'
  BY DEF IInv, SleepersInv, SleepersHaveSomebody
<1>5. ActiveCountsRegistered'
  <2>1. PICK x \in {"deregister", "adding"} : conn' = [conn EXCEPT ![c] = x]
    OBVIOUS
  <2>2. Registered' = Registered
    BY <2>1 DEF IInv, TypeOK, Registered
  <2>. QED  BY <2>2 DEF IInv, ActiveCountsRegistered
<1>6. ShutDownInv'
  BY DEF IInv, ShutDownInv, ShutDown, PastWait
<1>7. ReportInv'
  BY DEF IInv, ReportInv
<1>8. CountersInv'
  <2>1. PICK k \in Chars :
          /\ \A j \in 0 .. k-1 : c \in counters[j]
          /\ counters' = [counters EXCEPT ![k] = @ \cup {c}]
          /\ conn' = [conn EXCEPT ![c] = IF k = PRINTABLES_LEN - 1 THEN "deregister" ELSE "adding"]
    OBVIOUS
  <2>2. /\ conn \in [Conns -> ConnPcs] /\ counters \in [Chars -> SUBSET Conns]
        /\ conn[c] = "adding" /\ answered' = answered /\ CountersInv
    BY DEF IInv, TypeOK
  <2>3. c \in answered /\ conn'[c] \notin Unanswered
    BY <2>1, <2>2 DEF CountersInv, Unanswered
  <2>4. answered' = {d \in Conns : conn'[d] \notin Unanswered}
    BY <2>1, <2>2, <2>3 DEF CountersInv
  <2>5. \A d \in Conns, j \in Chars : d \in counters'[j] => d \in answered'
    BY <2>1, <2>2, <2>3 DEF CountersInv
  <2>6. ASSUME NEW d \in Conns, conn'[d] \notin Unanswered \cup {"adding"}, NEW j \in Chars
        PROVE  d \in counters'[j]
    <3>1. CASE d # c
      BY <2>1, <2>2, <2>6, <3>1 DEF CountersInv
    <3>2. CASE d = c
      <4>1. k = PRINTABLES_LEN - 1
        BY <2>1, <2>2, <2>6, <3>2 DEF ConnPcs
      <4>2. j \in 0 .. k-1 \/ j = k
        BY <4>1 DEF Chars
      <4>. QED  BY <2>1, <2>2, <3>2, <4>2
    <3>. QED  BY <3>1, <3>2
  <2>. QED  BY <2>4, <2>5, <2>6 DEF CountersInv
<1>. QED  BY <1>1, <1>2, <1>3, <1>4, <1>5, <1>6, <1>7, <1>8 DEF IInv

\* The thread takes the lock to count itself out, with all counters added.
LEMMA DeregisterLockInv ==
  ASSUME IInv, NEW c \in Conns, proc = "running", Runs(c), DeregisterLock(c)
  PROVE  IInv'
<1>. USE DEF DeregisterLock, Acquire, ConnGoto, Runs, syncVars, mainVars, signalVars, connVars
<1>1. TypeOK'
  BY DEF IInv, TypeOK, ConnPcs, HandlerPcs, Threads
<1>2. InHand'
  BY DEF IInv, InHand
<1>3. LockInv'
  BY DEF IInv, LockInv, Updates, TypeOK
<1>4. SleepersInv'
  BY DEF IInv, SleepersInv, SleepersHaveSomebody
<1>5. ActiveCountsRegistered'
  BY DEF IInv, ActiveCountsRegistered, Registered
<1>6. ShutDownInv'
  BY DEF IInv, ShutDownInv, ShutDown, PastWait
<1>7. ReportInv'
  BY DEF IInv, ReportInv
<1>8. CountersInv'
  BY DEF IInv, CountersInv, Unanswered
<1>. QED  BY <1>1, <1>2, <1>3, <1>4, <1>5, <1>6, <1>7, <1>8 DEF IInv

\* The thread counts itself out, and as the last one has a broadcast to make.
LEMMA DeregisterInv ==
  ASSUME IInv, NEW c \in Conns, proc = "running", Runs(c), Deregister(c)
  PROVE  IInv'
<1>. USE DEF Deregister, UpdateActiveThreads, ConnGoto, Runs, syncVars, mainVars, signalVars, connVars
<1>0. /\ c \in Registered /\ Registered' = Registered \ {c}
      /\ active_threads = Cardinality(Registered) /\ active_threads \in Nat \ {0}
      /\ Cardinality(Registered') = Cardinality(Registered) - 1
  <2>1. c \in Registered /\ c # connect_fd
    BY DEF IInv, InHand, Registered
  <2>2. Registered' = Registered \ {c}
    BY <2>1 DEF IInv, TypeOK, Registered
  <2>3. Cardinality(Registered') = Cardinality(Registered) - 1
    BY <2>1, <2>2, RegisteredFinite, FS_RemoveElement
  <2>. QED  BY <2>1, <2>2, <2>3, RegisteredFinite DEF IInv, ActiveCountsRegistered
<1>1. TypeOK'
  BY <1>0 DEF IInv, TypeOK, ConnPcs, HandlerPcs, Threads
<1>2. InHand'
  BY DEF IInv, InHand
<1>3. LockInv'
  BY DEF IInv, LockInv, Updates, TypeOK
<1>4. SleepersInv'
  <2>1. \A d \in Conns : conn[d] # "broadcasting"
    BY <1>0 DEF IInv, SleepersInv
  <2>2. /\ conn \in [Conns -> ConnPcs]
        /\ conn'[c] = IF active_threads' = 0 THEN "broadcasting" ELSE "unlocking"
        /\ \A d \in Conns \ {c} : conn'[d] = conn[d]
    BY DEF IInv, TypeOK
  <2>3. waiting' = waiting /\ waiting \subseteq {a \in Threads : handler'[a] = "wait"}
    BY DEF IInv, SleepersInv
  <2>4. \A d \in Conns : conn'[d] = "broadcasting" => active_threads' = 0
    BY <2>1, <2>2
  <2>5. SleepersHaveSomebody'
    BY <2>2 DEF SleepersHaveSomebody
  <2>. QED  BY <2>3, <2>4, <2>5 DEF SleepersInv
<1>5. ActiveCountsRegistered'
  BY <1>0 DEF ActiveCountsRegistered
<1>6. ShutDownInv'
  <2>1. ~ShutDown
    BY <1>0, ShutDownIsIdle
  <2>2. active_threads' = 0 \/ ~ShutDown'
    BY <2>1 DEF ShutDown, PastWait
  <2>3. ~sigint_happend => \A a \in Threads : handler[a] = "none"
    BY DEF IInv, ShutDownInv
  <2>4. ~sigint_happend => ~ShutDown'
    BY <2>1, <2>3 DEF ShutDown, PastWait
  <2>. QED  BY <2>2, <2>3, <2>4 DEF IInv, ShutDownInv
<1>7. ReportInv'
  BY DEF IInv, ReportInv
<1>8. CountersInv'
  BY DEF IInv, CountersInv, Unanswered
<1>. QED  BY <1>1, <1>2, <1>3, <1>4, <1>5, <1>6, <1>7, <1>8 DEF IInv

\* The thread that counted the last connection out wakes the handlers: nobody is
\* active when they go on.
LEMMA BroadcastInv ==
  ASSUME IInv, NEW c \in Conns, proc = "running", Runs(c), Broadcast(c)
  PROVE  IInv'
<1>. USE DEF Broadcast, ConnGoto, Runs, syncVars, mainVars, signalVars, connVars
<1>1. TypeOK'
  BY DEF IInv, TypeOK, ConnPcs, HandlerPcs, Threads
<1>2. InHand'
  BY DEF IInv, InHand
<1>3. LockInv'
  BY DEF IInv, LockInv, Updates, TypeOK
<1>4. SleepersInv'
  BY DEF IInv, SleepersInv, SleepersHaveSomebody, TypeOK
<1>5. ActiveCountsRegistered'
  BY DEF IInv, ActiveCountsRegistered, Registered
<1>6. ShutDownInv'
  <2>1. active_threads = 0 /\ lock = c /\ conn[c] = "broadcasting"
    BY DEF IInv, SleepersInv, LockInv, Updates, Threads
  <2>2. ~sigint_happend => waiting = {} /\ \A a \in Threads : handler[a] = "none"
    BY DEF IInv, SleepersInv, ShutDownInv
  <2>. QED  BY <2>1, <2>2 DEF IInv, ShutDownInv, ShutDown, PastWait
<1>7. ReportInv'
  BY DEF IInv, ReportInv
<1>8. CountersInv'
  BY DEF IInv, CountersInv, Unanswered
<1>. QED  BY <1>1, <1>2, <1>3, <1>4, <1>5, <1>6, <1>7, <1>8 DEF IInv

\* The thread gives the lock back.
LEMMA UnlockInv ==
  ASSUME IInv, NEW c \in Conns, proc = "running", Runs(c), Unlock(c)
  PROVE  IInv'
<1>. USE DEF Unlock, Release, ConnGoto, Runs, syncVars, mainVars, signalVars, connVars
<1>1. TypeOK'
  BY DEF IInv, TypeOK, ConnPcs, HandlerPcs, Threads
<1>2. InHand'
  BY DEF IInv, InHand, TypeOK
<1>3. LockInv'
  BY DEF IInv, LockInv, Updates, TypeOK
<1>4. SleepersInv'
  BY DEF IInv, SleepersInv, SleepersHaveSomebody, LockInv, Updates, TypeOK
<1>5. ActiveCountsRegistered'
  BY DEF IInv, ActiveCountsRegistered, Registered
<1>6. ShutDownInv'
  BY DEF IInv, ShutDownInv, ShutDown, PastWait
<1>7. ReportInv'
  BY DEF IInv, ReportInv
<1>8. CountersInv'
  BY DEF IInv, CountersInv, Unanswered
<1>. QED  BY <1>1, <1>2, <1>3, <1>4, <1>5, <1>6, <1>7, <1>8 DEF IInv

\* The thread ends; it is not counted any more.
LEMMA ExitThreadInv ==
  ASSUME IInv, NEW c \in Conns, proc = "running", Runs(c), ExitThread(c)
  PROVE  IInv'
<1>. USE DEF ExitThread, ConnGoto, Runs, syncVars, mainVars, signalVars, connVars
<1>1. TypeOK'
  BY DEF IInv, TypeOK, ConnPcs, HandlerPcs, Threads
<1>2. InHand'
  BY DEF IInv, InHand
<1>3. LockInv'
  BY DEF IInv, LockInv, Updates
<1>4. SleepersInv'
  BY DEF IInv, SleepersInv, SleepersHaveSomebody
<1>5. ActiveCountsRegistered'
  BY DEF IInv, ActiveCountsRegistered, Registered
<1>6. ShutDownInv'
  BY DEF IInv, ShutDownInv, ShutDown, PastWait
<1>7. ReportInv'
  BY DEF IInv, ReportInv
<1>8. CountersInv'
  BY DEF IInv, CountersInv, Unanswered
<1>. QED  BY <1>1, <1>2, <1>3, <1>4, <1>5, <1>6, <1>7, <1>8 DEF IInv

\* The handler and SIGINT leave main, the connections and the counters alone.
LEMMA HandlerFrame ==
  ASSUME IInv, UNCHANGED <<active_threads, mainPc, connect_fd, connVars>>
  PROVE  InHand' /\ ActiveCountsRegistered' /\ CountersInv'
<1>1. Registered' = Registered
  BY DEF Registered, connVars
<1>. QED  BY <1>1 DEF IInv, InHand, ActiveCountsRegistered, CountersInv, Unanswered, connVars

\* A handler takes the lock.
LEMMA CleanupLockInv ==
  ASSUME IInv, NEW a \in Threads, proc = "running", CleanupLock(a)
  PROVE  IInv'
<1>. USE DEF CleanupLock, Acquire, HandlerGoto, Runs, syncVars, mainVars, signalVars, connVars
<1>1. TypeOK'
  BY DEF IInv, TypeOK, ConnPcs, HandlerPcs, Threads
<1>2. InHand' /\ ActiveCountsRegistered' /\ CountersInv'
  BY HandlerFrame
<1>3. LockInv'
  BY DEF IInv, LockInv, Updates, TypeOK
<1>4. SleepersInv'
  BY DEF IInv, SleepersInv, SleepersHaveSomebody
<1>5. ShutDownInv'
  BY DEF IInv, ShutDownInv, ShutDown, PastWait
<1>6. ReportInv'
  BY DEF IInv, ReportInv
<1>. QED  BY <1>1, <1>2, <1>3, <1>4, <1>5, <1>6 DEF IInv

\* A handler goes to sleep, so somebody is counted who will wake it.
LEMMA CleanupWaitInv ==
  ASSUME IInv, NEW a \in Threads, proc = "running", CleanupWait(a)
  PROVE  IInv'
<1>. USE DEF CleanupWait, Release, HandlerGoto, NobodyActive, Runs, syncVars, mainVars, signalVars, connVars
<1>1. TypeOK'
  BY DEF IInv, TypeOK, ConnPcs, HandlerPcs, Threads
<1>2. InHand' /\ ActiveCountsRegistered' /\ CountersInv'
  BY HandlerFrame
<1>3. LockInv'
  BY DEF IInv, LockInv, Updates, TypeOK
<1>4. SleepersInv'
  BY DEF IInv, SleepersInv, SleepersHaveSomebody, TypeOK
<1>5. ShutDownInv'
  BY DEF IInv, ShutDownInv, ShutDown, PastWait
<1>6. ReportInv'
  BY DEF IInv, ReportInv
<1>. QED  BY <1>1, <1>2, <1>3, <1>4, <1>5, <1>6 DEF IInv

\* A handler that need not wait finds nobody counted in.
LEMMA CleanupNoWaitInv ==
  ASSUME IInv, NEW a \in Threads, proc = "running", CleanupNoWait(a)
  PROVE  IInv'
<1>. USE DEF CleanupNoWait, HandlerGoto, NobodyActive, Runs, syncVars, mainVars, signalVars, connVars
<1>1. TypeOK'
  BY DEF IInv, TypeOK, ConnPcs, HandlerPcs, Threads
<1>2. InHand' /\ ActiveCountsRegistered' /\ CountersInv'
  BY HandlerFrame
<1>3. LockInv'
  BY DEF IInv, LockInv, Updates, TypeOK
<1>4. SleepersInv'
  BY DEF IInv, SleepersInv, SleepersHaveSomebody
<1>5. ShutDownInv'
  BY DEF IInv, ShutDownInv, ShutDown, PastWait
<1>6. ReportInv'
  BY DEF IInv, ReportInv
<1>. QED  BY <1>1, <1>2, <1>3, <1>4, <1>5, <1>6 DEF IInv

\* A handler that was woken finds nobody counted in any more.
LEMMA CleanupWakeInv ==
  ASSUME IInv, NEW a \in Threads, proc = "running", CleanupWake(a)
  PROVE  IInv'
<1>. USE DEF CleanupWake, Acquire, HandlerGoto, Runs, syncVars, mainVars, signalVars, connVars
<1>1. TypeOK'
  BY DEF IInv, TypeOK, ConnPcs, HandlerPcs, Threads
<1>2. InHand' /\ ActiveCountsRegistered' /\ CountersInv'
  BY HandlerFrame
<1>3. LockInv'
  BY DEF IInv, LockInv, Updates, TypeOK
<1>4. SleepersInv'
  BY DEF IInv, SleepersInv, SleepersHaveSomebody, TypeOK
<1>5. ShutDownInv'
  BY DEF IInv, ShutDownInv, ShutDown, PastWait, TypeOK, Threads
<1>6. ReportInv'
  BY DEF IInv, ReportInv, TypeOK
<1>. QED  BY <1>1, <1>2, <1>3, <1>4, <1>5, <1>6 DEF IInv

\* A handler past its wait gives the lock back.
LEMMA CleanupUnlockInv ==
  ASSUME IInv, NEW a \in Threads, proc = "running", CleanupUnlock(a)
  PROVE  IInv'
<1>. USE DEF CleanupUnlock, Release, HandlerGoto, Runs, syncVars, mainVars, signalVars, connVars
<1>1. TypeOK'
  BY DEF IInv, TypeOK, ConnPcs, HandlerPcs, Threads
<1>2. InHand' /\ ActiveCountsRegistered' /\ CountersInv'
  BY HandlerFrame
<1>3. LockInv'
  BY DEF IInv, LockInv, Updates, TypeOK
<1>4. SleepersInv'
  BY DEF IInv, SleepersInv, SleepersHaveSomebody, TypeOK
<1>5. ShutDownInv'
  BY DEF IInv, ShutDownInv, ShutDown, PastWait, TypeOK, Threads
<1>6. ReportInv'
  BY DEF IInv, ReportInv, TypeOK
<1>. QED  BY <1>1, <1>2, <1>3, <1>4, <1>5, <1>6 DEF IInv

\* A counter printed by cleanup() counts the answered clients.
LEMMA PrintsAnswered ==
  ASSUME IInv, NEW a \in Threads, handler[a] = "print"
  PROVE  /\ counters[Len(report[a])] = answered /\ answered \in SUBSET Conns
         /\ Len(report[a]) \in Chars
<1>1. report \in [Threads -> Seq(SUBSET Conns)] /\ Len(report[a]) < PRINTABLES_LEN
  BY DEF IInv, TypeOK, ReportInv
<1>2. Len(report[a]) \in Chars
  BY <1>1 DEF Chars
<1>3. Registered = {} /\ mainPc # "create"
  <2>1. Registered = {}
    BY ShutDownIsIdle DEF ShutDown, PastWait
  <2>. QED  BY <2>1 DEF IInv, TypeOK, InHand, Registered
<1>4. \A c \in Conns : c \in answered => c \in counters[Len(report[a])]
  BY <1>2, <1>3 DEF IInv, CountersInv, Registered, Unanswered
<1>5. counters[Len(report[a])] \subseteq answered /\ answered \subseteq Conns
  BY <1>2 DEF IInv, CountersInv, TypeOK
<1>. QED  BY <1>2, <1>4, <1>5

\* A handler prints a counter; nobody is counted in, so it is complete.
LEMMA PrintCounterInv ==
  ASSUME IInv, NEW a \in Threads, proc = "running", PrintCounter(a)
  PROVE  IInv'
<1>. USE DEF PrintCounter, HandlerGoto, Runs, syncVars, mainVars, signalVars, connVars
<1>0. /\ counters[Len(report[a])] = answered /\ answered \in SUBSET Conns
      /\ Len(report[a]) \in Chars
  BY PrintsAnswered
<1>1. TypeOK'
  <2>1. report' \in [Threads -> Seq(SUBSET Conns)]
    BY <1>0 DEF IInv, TypeOK
  <2>. QED  BY <2>1 DEF IInv, TypeOK, HandlerPcs, Threads
<1>2. InHand' /\ ActiveCountsRegistered' /\ CountersInv'
  BY HandlerFrame
<1>3. LockInv'
  BY DEF IInv, LockInv, Updates
<1>4. SleepersInv'
  BY DEF IInv, SleepersInv, SleepersHaveSomebody
<1>5. ShutDownInv'
  BY DEF IInv, ShutDownInv, ShutDown, PastWait
<1>6. ReportInv'
  <2>1. /\ report \in [Threads -> Seq(SUBSET Conns)] /\ handler \in [Threads -> HandlerPcs]
        /\ ReportInv
    BY DEF IInv, TypeOK
  <2>. DEFINE n == Len(report[a])
  <2>2. /\ n \in Nat /\ n < PRINTABLES_LEN
        /\ report' = [report EXCEPT ![a] = Append(@, answered)]
        /\ \A i \in 1 .. n : report[a][i] = answered
    BY <1>0, <2>1 DEF ReportInv
  <2>3. Len(report'[a]) = n + 1 /\ \A i \in 1 .. n + 1 : report'[a][i] = answered
    BY <2>1, <2>2
  <2>4. handler'[a] = IF n + 1 = PRINTABLES_LEN THEN "destroy" ELSE "print"
    BY <2>1
  <2>5. \A b \in Threads \ {a} : report'[b] = report[b] /\ handler'[b] = handler[b]
    BY <2>1, <2>2
  <2>. HIDE DEF n
  <2>6. ASSUME NEW b \in Threads
        PROVE  /\ \A i \in 1 .. Len(report'[b]) : report'[b][i] = answered
               /\ handler'[b] \in {"none", "lock"} => report'[b] = << >> \/ locks = "destroyed"
               /\ handler'[b] \in {"test", "wait", "unlock"} => report'[b] = << >>
               /\ handler'[b] = "print" => Len(report'[b]) < PRINTABLES_LEN
               /\ handler'[b] \in {"destroy", "reuse", "close"} => Len(report'[b]) = PRINTABLES_LEN
    <3>1. CASE b = a
      BY <2>2, <2>3, <2>4, <3>1
    <3>2. CASE b # a
      BY <2>1, <2>5, <3>2 DEF ReportInv
    <3>. QED  BY <3>1, <3>2
  <2>7. locks' = "destroyed" => \E b \in Threads : Len(report'[b]) = PRINTABLES_LEN
    <3>1. SUFFICES ASSUME locks = "destroyed"
                   PROVE  \E b \in Threads : Len(report'[b]) = PRINTABLES_LEN
      OBVIOUS
    <3>2. PICK b \in Threads : Len(report[b]) = PRINTABLES_LEN
      BY <2>1, <3>1 DEF ReportInv
    <3>3. b # a
      BY <2>1, <3>2 DEF ReportInv
    <3>. QED  BY <2>5, <3>2, <3>3
  <2>. QED  BY <2>6, <2>7 DEF ReportInv
<1>. QED  BY <1>1, <1>2, <1>3, <1>4, <1>5, <1>6 DEF IInv

\* The locks are destroyed with nobody at work.
LEMMA DestroyLocksInv ==
  ASSUME IInv, NEW a \in Threads, proc = "running", DestroyLocks(a)
  PROVE  IInv'
<1>. USE DEF DestroyLocks, LockInUse, HandlerGoto, Runs, syncVars, mainVars, signalVars, connVars
<1>1. TypeOK'
  BY DEF IInv, TypeOK, ConnPcs, HandlerPcs, Threads
<1>2. InHand' /\ ActiveCountsRegistered' /\ CountersInv'
  BY HandlerFrame
<1>3. LockInv'
  BY DEF IInv, LockInv, Updates, TypeOK
<1>4. SleepersInv'
  BY DEF IInv, SleepersInv, SleepersHaveSomebody, TypeOK
<1>5. ShutDownInv'
  BY DEF IInv, ShutDownInv, ShutDown, PastWait, TypeOK, Threads
<1>6. ReportInv'
  BY DEF IInv, ReportInv, TypeOK
<1>. QED  BY <1>1, <1>2, <1>3, <1>4, <1>5, <1>6 DEF IInv

\* The socket is still open.
LEMMA ReuseAddressInv ==
  ASSUME IInv, NEW a \in Threads, proc = "running", ReuseAddress(a)
  PROVE  IInv'
<1>. USE DEF ReuseAddress, HandlerGoto, Runs, syncVars, mainVars, signalVars, connVars
<1>1. TypeOK'
  BY DEF IInv, TypeOK, ConnPcs, HandlerPcs, Threads
<1>2. InHand' /\ ActiveCountsRegistered' /\ CountersInv'
  BY HandlerFrame
<1>3. LockInv'
  BY DEF IInv, LockInv, Updates, TypeOK
<1>4. SleepersInv'
  BY DEF IInv, SleepersInv, SleepersHaveSomebody, TypeOK
<1>5. ShutDownInv'
  BY DEF IInv, ShutDownInv, ShutDown, PastWait, TypeOK, Threads
<1>6. ReportInv'
  BY DEF IInv, ReportInv, TypeOK
<1>. QED  BY <1>1, <1>2, <1>3, <1>4, <1>5, <1>6 DEF IInv

\* The handler closes the socket and returns.
LEMMA CloseListenInv ==
  ASSUME IInv, NEW a \in Threads, proc = "running", CloseListen(a)
  PROVE  IInv'
<1>. USE DEF CloseListen, HandlerGoto, Runs, syncVars, mainVars, signalVars, connVars
<1>1. TypeOK'
  BY DEF IInv, TypeOK, ConnPcs, HandlerPcs, Threads
<1>2. InHand' /\ ActiveCountsRegistered' /\ CountersInv'
  BY HandlerFrame
<1>3. LockInv'
  BY DEF IInv, LockInv, Updates, TypeOK
<1>4. SleepersInv'
  BY DEF IInv, SleepersInv, SleepersHaveSomebody, TypeOK
<1>5. ShutDownInv'
  BY DEF IInv, ShutDownInv, ShutDown, PastWait, ReportInv, TypeOK, Threads
<1>6. ReportInv'
  BY DEF IInv, ShutDownInv, ReportInv, TypeOK
<1>. QED  BY <1>1, <1>2, <1>3, <1>4, <1>5, <1>6 DEF IInv

\* SIGINT interrupts one thread anywhere.
LEMMA SigintInv ==
  ASSUME IInv, NEW a \in Threads, proc = "running", Sigint(a)
  PROVE  IInv'
<1>. USE DEF Sigint, HandlerGoto, HasThread, Runs, syncVars, mainVars, signalVars, connVars
<1>1. TypeOK'
  BY DEF IInv, TypeOK, ConnPcs, HandlerPcs, Threads
<1>2. InHand' /\ ActiveCountsRegistered' /\ CountersInv'
  BY HandlerFrame
<1>3. LockInv'
  BY DEF IInv, LockInv, Updates
<1>4. SleepersInv'
  BY DEF IInv, SleepersInv, SleepersHaveSomebody
<1>5. ShutDownInv'
  BY DEF IInv, ShutDownInv, ShutDown, PastWait, TypeOK
<1>6. ReportInv'
  BY DEF IInv, ReportInv
<1>. QED  BY <1>1, <1>2, <1>3, <1>4, <1>5, <1>6 DEF IInv

----------------------------------------------------------------------------
(***************************************************************************)
(* The invariant, and what follows from it.                                *)
(***************************************************************************)

\* A server without clients has the inductive invariant.
LEMMA InitInv == Init => IInv
<1>. SUFFICES ASSUME Init PROVE IInv
  OBVIOUS
<1>. USE DEF Init
<1>1. TypeOK
  <2>1. << >> \in Seq(SUBSET Conns) /\ 0 \in 0 .. MaxSigints
    OBVIOUS
  <2>2. /\ counters \in [Chars -> SUBSET Conns] /\ handler \in [Threads -> HandlerPcs]
        /\ conn \in [Conns -> ConnPcs] /\ report \in [Threads -> Seq(SUBSET Conns)]
    BY <2>1 DEF ConnPcs, HandlerPcs
  <2>. QED  BY <2>1, <2>2 DEF TypeOK
<1>2. InHand /\ LockInv /\ SleepersInv /\ ReportInv /\ CountersInv
  BY DEF InHand, LockInv, Updates, SleepersInv, SleepersHaveSomebody, ReportInv,
         CountersInv, Unanswered, Threads
<1>3. ActiveCountsRegistered
  <2>1. Registered = {}
    BY DEF Registered
  <2>. QED  BY <2>1, FS_EmptySet DEF ActiveCountsRegistered
<1>4. ShutDownInv
  BY DEF ShutDownInv, ShutDown, PastWait, Threads
<1>. QED  BY <1>1, <1>2, <1>3, <1>4 DEF IInv

\* Every step of main, the threads and the handlers keeps the inductive invariant.
LEMMA StepInv == IInv /\ [Next]_vars => IInv'
<1>. SUFFICES ASSUME IInv, [Next]_vars PROVE IInv'
  OBVIOUS
<1>1. CASE UNCHANGED vars
  BY <1>1, ProcOnlyInv DEF vars, IInv, TypeOK
<1>2. CASE Next
  <2>0. proc = "running"
    BY <1>2 DEF Next
  <2>1. CASE MainStep
    BY <2>0, <2>1, AcceptInv, RegisterLockInv, RegisterInv, RegisterUnlockInv, CreateThreadInv,
       ProcOnlyInv
    DEF MainStep, AcceptFails, RegisterFails, Fail
  <2>2. ASSUME NEW c \in Conns, ConnStep(c)
        PROVE  IInv'
    BY <2>0, <2>2, ServeInv, AddCounterInv, DeregisterLockInv, DeregisterInv, BroadcastInv,
       UnlockInv, ExitThreadInv
    DEF ConnStep, CountOut
  <2>3. ASSUME NEW a \in Threads, HandlerStep(a) \/ Sigint(a)
        PROVE  IInv'
    BY <2>0, <2>3, CleanupLockInv, CleanupWaitInv, CleanupNoWaitInv, CleanupWakeInv,
       CleanupUnlockInv, PrintCounterInv, DestroyLocksInv, ReuseAddressInv, CloseListenInv,
       SigintInv, ProcOnlyInv
    DEF HandlerStep, CleanupLockFails, DestroyFails, ReuseFails, Fail
  <2>4. CASE Failure
    BY <2>4, ProcOnlyInv DEF Failure, CreateFails, ServeFails, Fail
  <2>. QED  BY <1>2, <2>1, <2>2, <2>3, <2>4 DEF Next
<1>. QED  BY <1>1, <1>2

\* IInv holds in every reachable state of the server.
THEOREM Invariance == Spec => []IInv
BY InitInv, StepInv, PTL DEF Spec

\* Every variable keeps its type; active_threads never goes below 0.
THEOREM TypeCorrect == Spec => []TypeOK
<1>1. IInv => TypeOK
  BY DEF IInv
<1>. QED  BY <1>1, Invariance, PTL

\* active_threads counts the connections that still have counters to add.
THEOREM CountCorrect == Spec => []ActiveCountsRegistered
<1>1. IInv => ActiveCountsRegistered
  BY DEF IInv
<1>. QED  BY <1>1, Invariance, PTL

\* A handler sleeps on allDoneCond only while a connection is counted, or the thread
\* that counted the last one out has still to broadcast.
THEOREM SleepersCorrect == Spec => []SleepersHaveSomebody
<1>1. IInv => SleepersHaveSomebody
  BY DEF IInv, SleepersInv
<1>. QED  BY <1>1, Invariance, PTL

\* When the locks are destroyed a whole report has been printed, nobody is inside a
\* critical section or a wait, and no thread has still to count itself out.
THEOREM DestroyedCorrect == Spec => []DestroyedWhenIdle
<1>1. IInv => DestroyedWhenIdle
  <2>. SUFFICES ASSUME IInv, locks = "destroyed"
                PROVE  DestroyedWhenIdle
    BY DEF DestroyedWhenIdle
  <2>1. \E a \in Threads : Len(report[a]) = PRINTABLES_LEN
    BY DEF IInv, ReportInv
  <2>2. lock = Nobody /\ \A a \in Threads : handler[a] # "wait"
    BY DEF IInv, LockInv
  <2>3. \A a \in Threads : ~Updates(a) /\ handler[a] \notin {"test", "wait", "unlock"}
    BY <2>2 DEF IInv, LockInv
  <2>4. Registered = {}
    BY ShutDownIsIdle DEF ShutDown
  <2>5. \A c \in Conns : conn[c] \in {"idle", "accepted", "exiting", "done"}
    BY <2>3, <2>4 DEF IInv, TypeOK, ConnPcs, Registered, Updates, Threads
  <2>. QED  BY <2>1, <2>2, <2>3, <2>5 DEF DestroyedWhenIdle
<1>. QED  BY <1>1, Invariance, PTL

----------------------------------------------------------------------------
(***************************************************************************)
(* The server implements PccStatistics.                                    *)
(***************************************************************************)

AcceptedConns == {c \in Conns : conn[c] # "idle"}

\* As long as somebody may still be counted, nothing is printed.
LEMMA NothingPrintedYet ==
  ASSUME IInv, ~ShutDown
  PROVE  Statistics!NothingPrinted
BY DEF ShutDown, Statistics!NothingPrinted, Statistics!Threads, Threads

\* A step that moves connections other than idle ones and answers nobody.
LEMMA QuietStep ==
  ASSUME IInv, NEW c \in Conns, NEW x \in ConnPcs, conn[c] # "idle", x # "idle",
         conn' = [conn EXCEPT ![c] = x]
  PROVE  AcceptedConns' = AcceptedConns
BY DEF IInv, TypeOK, AcceptedConns

\* Every step of the server is a step of PccStatistics or changes nothing of it.
LEMMA StepRefines ==
  ASSUME IInv, [Next]_vars
  PROVE  [Statistics!Next]_(Statistics!statVars)
<1>. USE DEF Statistics!statVars, syncVars, mainVars, signalVars, connVars, AcceptedConns
<1>1. CASE UNCHANGED vars
  BY <1>1 DEF vars
<1>2. CASE Next
  <2>0. proc = "running"
    BY <1>2 DEF Next
  <2>1. ASSUME Runs(Main), NEW c \in Conns, Accept(c)
        PROVE  Statistics!Accept(c)
    <3>1. ~ShutDown
      BY <2>1, ShutDownIsIdle DEF IInv, ShutDownInv, Accept, Runs
    <3>2. AcceptedConns' = AcceptedConns \cup {c} /\ c \notin AcceptedConns
      BY <2>1 DEF Accept, ConnGoto, IInv, TypeOK
    <3>. QED
      BY <2>1, <3>1, <3>2, NothingPrintedYet DEF Accept, Statistics!Accept
  <2>2. ASSUME Runs(Main), AcceptFails
        PROVE  Statistics!Finish
    <3>1. Len(report[Main]) = PRINTABLES_LEN /\ ShutDown
      BY <2>2 DEF IInv, ShutDownInv, ShutDown, AcceptFails, Runs
    <3>2. Registered = {} /\ \A c \in Conns : conn[c] # "accepted"
      BY <2>2, <3>1, ShutDownIsIdle DEF IInv, InHand, AcceptFails
    <3>3. AcceptedConns = answered
      BY <3>2 DEF IInv, TypeOK, ConnPcs, CountersInv, Unanswered, Registered
    <3>. QED  BY <2>2, <3>1, <3>3 DEF AcceptFails, Statistics!Finish
  <2>3. ASSUME Runs(Main), RegisterLock \/ Register \/ RegisterUnlock
        PROVE  UNCHANGED Statistics!statVars
    BY <2>3 DEF RegisterLock, Register, RegisterUnlock, UpdateActiveThreads
  <2>4. ASSUME Runs(Main), CreateThread
        PROVE  UNCHANGED Statistics!statVars
    <3>1. connect_fd \in Conns /\ conn[connect_fd] = "accepted"
      BY <2>4 DEF IInv, TypeOK, InHand, CreateThread
    <3>2. connect_fd \in Registered
      BY <2>4, <3>1 DEF Registered, CreateThread
    <3>3. ~sigint_happend
      BY <2>4, <3>2, ShutDownIsIdle DEF IInv, ShutDownInv, ShutDown, Runs
    <3>4. AcceptedConns' = AcceptedConns
      BY <2>4, <3>1, QuietStep DEF CreateThread, ConnGoto, ConnPcs
    <3>. QED  BY <2>4, <3>3, <3>4 DEF CreateThread
  <2>5. ASSUME NEW c \in Conns, Serve(c)
        PROVE  Statistics!Answer(c)
    <3>1. ~ShutDown
      BY <2>5, ShutDownIsIdle DEF Serve, Registered
    <3>2. c \in AcceptedConns \ answered
      BY <2>5 DEF Serve, IInv, CountersInv, Unanswered
    <3>3. AcceptedConns' = AcceptedConns
      BY <2>5, QuietStep DEF Serve, ConnGoto, ConnPcs
    <3>. QED
      BY <2>5, <3>1, <3>2, <3>3, NothingPrintedYet DEF Serve, Statistics!Answer
  <2>6. ASSUME NEW c \in Conns, AddCounter(c)
        PROVE  UNCHANGED Statistics!statVars
    <3>1. AcceptedConns' = AcceptedConns
      BY <2>6, QuietStep DEF AddCounter, ConnGoto, ConnPcs
    <3>. QED  BY <2>6, <3>1 DEF AddCounter
  <2>7. ASSUME NEW c \in Conns,
               DeregisterLock(c) \/ Deregister(c) \/ Broadcast(c) \/ Unlock(c) \/ ExitThread(c)
        PROVE  UNCHANGED Statistics!statVars
    <3>1. AcceptedConns' = AcceptedConns
      BY <2>7, QuietStep
      DEF DeregisterLock, Deregister, Broadcast, Unlock, ExitThread, ConnGoto, ConnPcs
    <3>. QED  BY <2>7, <3>1
      DEF DeregisterLock, Deregister, Broadcast, Unlock, ExitThread, UpdateActiveThreads
  <2>8. ASSUME NEW a \in Threads, PrintCounter(a)
        PROVE  Statistics!PrintLine(a)
    <3>1. counters[Len(report[a])] = answered
      BY <2>8, PrintsAnswered DEF PrintCounter
    <3>. QED
      BY <2>8, <3>1 DEF PrintCounter, Statistics!PrintLine, IInv, ReportInv
  <2>9. ASSUME NEW a \in Threads, (HandlerStep(a) \/ Sigint(a)) /\ ~PrintCounter(a)
        PROVE  Statistics!Abort \/ UNCHANGED Statistics!statVars
    BY <2>9 DEF HandlerStep, CleanupLock, CleanupLockFails, CleanupWait, CleanupNoWait,
                CleanupWake, CleanupUnlock, DestroyLocks, DestroyFails, ReuseAddress,
                ReuseFails, CloseListen, Sigint, Fail, Statistics!Abort
  <2>10. ASSUME Failure \/ RegisterFails
         PROVE  Statistics!Abort
    BY <2>10 DEF Failure, CreateFails, ServeFails, RegisterFails, Fail, Statistics!Abort
  <2>11. CASE MainStep
    BY <2>0, <2>1, <2>2, <2>3, <2>4, <2>10, <2>11 DEF MainStep, Statistics!Next
  <2>12. CASE \E c \in Conns : ConnStep(c)
    BY <2>0, <2>5, <2>6, <2>7, <2>12 DEF ConnStep, CountOut, Statistics!Next
  <2>13. CASE \E a \in Threads : HandlerStep(a) \/ Sigint(a)
    BY <2>0, <2>8, <2>9, <2>13 DEF Threads, Statistics!Next, Statistics!Threads
  <2>14. CASE Failure
    BY <2>0, <2>10, <2>14 DEF Statistics!Next
  <2>. QED  BY <1>2, <2>11, <2>12, <2>13, <2>14 DEF Next
<1>. QED  BY <1>1, <1>2

\* The server implements the abstract specification of its statistics: whenever
\* SIGINT comes and whatever thread it finds, every line of every report that main
\* or another thread prints counts exactly the answered clients, nobody is let in or
\* answered afterwards, and a normal end comes behind main's whole report, with
\* every accepted client answered.
THEOREM Refinement == Spec => ImplementsStatistics
<1>1. Init => Statistics!Init
  BY DEF Init, Statistics!Init, Threads, Statistics!Threads
<1>2. IInv /\ [Next]_vars => [Statistics!Next]_(Statistics!statVars)
  BY StepRefines
<1>. QED  BY <1>1, <1>2, Invariance, PTL DEF Spec, Statistics!Spec, ImplementsStatistics
=============================================================================
