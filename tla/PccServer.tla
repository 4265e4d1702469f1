------------------------------ MODULE PccServer ------------------------------
(***************************************************************************)
(* ex5/pcc_server.c: main accepts connections, counts each in              *)
(* active_threads and starts a thread for it; a thread answers its client, *)
(* adds its counters to the global ones and takes itself off               *)
(* active_threads.  SIGINT runs cleanup(), in a signal handler, on top of  *)
(* whatever the interrupted thread was doing: it waits until               *)
(* active_threads is 0, prints the counters, destroys the locks and closes *)
(* the listening socket.                                                   *)
(*                                                                         *)
(* SIGINT can come between any two steps of a critical section, so each    *)
(* call that takes, uses or gives up activeThreadsLock is one of its own.  *)
(* A client's bytes are not modelled: a number is the set of the clients   *)
(* whose share has been added to it.                                       *)
(***************************************************************************)
EXTENDS Integers, Sequences, FiniteSets

CONSTANTS
  Main, Nobody, NoConn,
  Conns,           \* the clients that may connect
  PRINTABLES_LEN,  \* number of counters
  MaxSigints       \* how many times SIGINT is sent

VARIABLES
  proc,            \* "running", or how the process ended
  sigint_happend, active_threads,
  counters,        \* each the set of the connections added to it
  lock,            \* who holds activeThreadsLock
  locks,           \* "live" until destroyLocks
  waiting,         \* the threads asleep on allDoneCond
  listening,       \* is listen_fd open?
  mainPc, connect_fd,
  conn,            \* where each connection, and its thread, is
  handler,         \* where each thread is in sigintHandler, "none" outside
  report,          \* the counters each thread has printed
  answered,        \* the clients that were sent their C
  sigints

syncVars == <<lock, locks, waiting>>
mainVars == <<mainPc, connect_fd, listening>>
signalVars == <<sigint_happend, handler, sigints, report>>
connVars == <<conn, answered, counters>>
vars == <<proc, active_threads, syncVars, mainVars, signalVars, connVars>>

Threads == Conns \cup {Main}
Chars   == 0 .. PRINTABLES_LEN-1

ASSUME ActorsAssumption == Main \notin Conns /\ Nobody \notin Threads /\ NoConn \notin Conns
ASSUME ConnsAssumption == IsFiniteSet(Conns)
ASSUME LenAssumption == PRINTABLES_LEN \in Nat \ {0}
ASSUME SigintsAssumption == MaxSigints \in Nat

ConnPcs == {"idle", "accepted", "serving", "adding", "deregister",
            "deregistering", "broadcasting", "unlocking", "exiting", "done"}
HandlerPcs == {"none", "lock", "test", "wait", "unlock", "print", "destroy",
               "reuse", "close"}

TypeOK ==
  /\ proc \in {"running", "returned", "failed"}
  /\ sigint_happend \in BOOLEAN
  /\ active_threads \in Nat
  /\ counters \in [Chars -> SUBSET Conns]
  /\ lock \in Threads \cup {Nobody}
  /\ locks \in {"live", "destroyed"}
  /\ waiting \subseteq Threads
  /\ listening \in BOOLEAN
  /\ mainPc \in {"accept", "register", "registering", "registered", "create"}
  /\ connect_fd \in Conns \cup {NoConn}
  /\ conn \in [Conns -> ConnPcs]
  /\ handler \in [Threads -> HandlerPcs]
  /\ report \in [Threads -> Seq(SUBSET Conns)]
  /\ answered \subseteq Conns
  /\ sigints \in 0 .. MaxSigints

Init ==
  /\ proc = "running"
  /\ sigint_happend = FALSE /\ active_threads = 0
  /\ counters = [k \in Chars |-> {}]
  /\ lock = Nobody /\ locks = "live" /\ waiting = {}
  /\ listening = TRUE
  /\ mainPc = "accept" /\ connect_fd = NoConn
  /\ conn = [c \in Conns |-> "idle"]
  /\ handler = [a \in Threads |-> "none"]
  /\ report = [a \in Threads |-> << >>]
  /\ answered = {}
  /\ sigints = 0

ConnGoto(c, label)    == conn' = [conn EXCEPT ![c] = label]
HandlerGoto(a, label) == handler' = [handler EXCEPT ![a] = label]

\* A thread runs its own code unless the handler has interrupted it.
Runs(a) == handler[a] = "none"

Fail ==
  /\ proc' = "failed"
  /\ UNCHANGED <<active_threads, syncVars, mainVars, signalVars, connVars>>

----------------------------------------------------------------------------
(***************************************************************************)
(* activeThreadsLock.                                                      *)
(***************************************************************************)

\* Taking the lock; glibc answers EINVAL once it is destroyed, and every caller
\* turns that into exit().
Acquire(a) == locks = "live" /\ lock = Nobody /\ lock' = a

Release(a) == lock = a /\ lock' = Nobody

UpdateActiveThreads(n) ==
  /\ active_threads' = active_threads + n
  /\ UNCHANGED <<proc, syncVars, signalVars, answered, counters>>

----------------------------------------------------------------------------
(***************************************************************************)
(* main.                                                                   *)
(***************************************************************************)

Accept(c) ==
  /\ mainPc = "accept" /\ listening
  /\ conn[c] = "idle"
  /\ ConnGoto(c, "accepted")
  /\ connect_fd' = c
  /\ mainPc' = "register"
  /\ UNCHANGED <<proc, active_threads, syncVars, listening, signalVars, answered, counters>>

\* accept() was interrupted, or finds its socket closed, by the handler.
AcceptFails ==
  /\ mainPc = "accept" /\ sigint_happend
  /\ proc' = "returned"
  /\ UNCHANGED <<active_threads, syncVars, mainVars, signalVars, connVars>>

RegisterLock ==
  /\ mainPc = "register"
  /\ Acquire(Main)
  /\ mainPc' = "registering"
  /\ UNCHANGED <<proc, active_threads, locks, waiting, connect_fd, listening,
                 signalVars, connVars>>

RegisterFails == mainPc = "register" /\ locks = "destroyed" /\ Fail

RegisterNothing ==
  /\ mainPc = "registering"
  /\ mainPc' = "registered"
  /\ UNCHANGED <<proc, active_threads, syncVars, connect_fd, listening, signalVars,
                 connVars>>

\* The number is not 0 afterwards: there is nothing to broadcast.
Register ==
  /\ mainPc = "registering"
  /\ UpdateActiveThreads(1)
  /\ mainPc' = "registered"
  /\ UNCHANGED <<connect_fd, listening, conn>>

RegisterUnlock ==
  /\ mainPc = "registered"
  /\ Release(Main)
  /\ mainPc' = "create"
  /\ UNCHANGED <<proc, active_threads, locks, waiting, connect_fd, listening,
                 signalVars, connVars>>

\* pthread_create, and the test of the loop.
CreateThread ==
  /\ mainPc = "create"
  /\ ConnGoto(connect_fd, "serving")
  /\ connect_fd' = NoConn
  /\ mainPc' = "accept"
  /\ proc' = IF sigint_happend THEN "returned" ELSE proc
  /\ UNCHANGED <<active_threads, syncVars, listening, signalVars, answered, counters>>

CreateFailsAndGoesOn ==
  /\ mainPc = "create"
  /\ ConnGoto(connect_fd, "done")
  /\ connect_fd' = NoConn
  /\ mainPc' = "accept"
  /\ UNCHANGED <<proc, active_threads, syncVars, listening, signalVars, answered, counters>>

CreateFails == mainPc = "create" /\ Fail

MainStep ==
  /\ Runs(Main)
  /\ \/ \E c \in Conns : Accept(c)
     \/ AcceptFails
     \/ RegisterLock \/ RegisterFails \/ Register \/ RegisterUnlock
     \/ CreateThread

----------------------------------------------------------------------------
(***************************************************************************)
(* connectionMain.                                                         *)
(***************************************************************************)

ServeUncounted(c) ==
  /\ conn[c] = "serving"
  /\ answered' = answered \cup {c}
  /\ ConnGoto(c, "deregister")
  /\ UNCHANGED <<proc, active_threads, syncVars, mainVars, signalVars, counters>>

\* Read N and the stream, send C, close.
Serve(c) ==
  /\ conn[c] = "serving"
  /\ answered' = answered \cup {c}
  /\ ConnGoto(c, "adding")
  /\ UNCHANGED <<proc, active_threads, syncVars, mainVars, signalVars, counters>>

\* Whatever goes wrong with one client, a reset or a closed pipe, ends the server.
ServeFails(c) == conn[c] = "serving" /\ Fail

\* parsPrintables: one atomic addition for each counter, in their order.
AddCounter(c) ==
  /\ conn[c] = "adding"
  /\ \E k \in Chars :
       /\ c \notin counters[k]
       /\ \A j \in 0 .. k-1 : c \in counters[j]
       /\ counters' = [counters EXCEPT ![k] = @ \cup {c}]
       /\ ConnGoto(c, IF k = PRINTABLES_LEN - 1 THEN "deregister" ELSE "adding")
  /\ UNCHANGED <<proc, active_threads, syncVars, mainVars, signalVars, answered>>

DeregisterLock(c) ==
  /\ conn[c] = "deregister"
  /\ Acquire(c)
  /\ ConnGoto(c, "deregistering")
  /\ UNCHANGED <<proc, active_threads, locks, waiting, mainVars, signalVars,
                 answered, counters>>

DeregisterQuietly(c) ==
  /\ conn[c] = "deregistering"
  /\ UpdateActiveThreads(-1)
  /\ ConnGoto(c, "unlocking")
  /\ UNCHANGED mainVars

Deregister(c) ==
  /\ conn[c] = "deregistering"
  /\ UpdateActiveThreads(-1)
  /\ ConnGoto(c, IF active_threads' = 0 THEN "broadcasting" ELSE "unlocking")
  /\ UNCHANGED mainVars

BroadcastToOne(c) ==
  /\ conn[c] = "broadcasting"
  /\ \/ waiting = {} /\ UNCHANGED waiting
     \/ \E a \in waiting : waiting' = waiting \ {a}
  /\ ConnGoto(c, "unlocking")
  /\ UNCHANGED <<proc, active_threads, lock, locks, mainVars, signalVars,
                 answered, counters>>

Broadcast(c) ==
  /\ conn[c] = "broadcasting"
  /\ waiting' = {}
  /\ ConnGoto(c, "unlocking")
  /\ UNCHANGED <<proc, active_threads, lock, locks, mainVars, signalVars,
                 answered, counters>>

Unlock(c) ==
  /\ conn[c] = "unlocking"
  /\ Release(c)
  /\ ConnGoto(c, "exiting")
  /\ UNCHANGED <<proc, active_threads, locks, waiting, mainVars, signalVars,
                 answered, counters>>

ExitThread(c) ==
  /\ conn[c] = "exiting"
  /\ ConnGoto(c, "done")
  /\ UNCHANGED <<proc, active_threads, syncVars, mainVars, signalVars, answered, counters>>

\* What a thread does once its client is answered.
CountOut(c) ==
  \/ AddCounter(c) \/ DeregisterLock(c) \/ Deregister(c) \/ Broadcast(c) \/ Unlock(c)
  \/ ExitThread(c)

ConnStep(c) == Runs(c) /\ (Serve(c) \/ CountOut(c))

----------------------------------------------------------------------------
(***************************************************************************)
(* SIGINT: sigintHandler and cleanup.                                      *)
(***************************************************************************)
HasThread(c) == conn[c] \notin {"idle", "accepted", "done"}

\* Linux gives the signal to the main thread, unless that has it blocked because
\* it is in the handler already: then to another thread.
Sigint(a) ==
  /\ sigints < MaxSigints
  /\ Runs(a)
  /\ a = Main \/ (~Runs(Main) /\ HasThread(a))
  /\ sigints' = sigints + 1
  /\ sigint_happend' = TRUE
  /\ HandlerGoto(a, "lock")
  /\ UNCHANGED <<proc, active_threads, syncVars, mainVars, report, connVars>>

CleanupLock(a) ==
  /\ handler[a] = "lock"
  /\ Acquire(a)
  /\ HandlerGoto(a, "test")
  /\ UNCHANGED <<proc, active_threads, locks, waiting, mainVars, sigint_happend,
                 sigints, report, connVars>>

CleanupLockFails(a) == handler[a] = "lock" /\ locks = "destroyed" /\ Fail

AlwaysDone == TRUE

NobodyActive == active_threads = 0

\* pthread_cond_wait gives the lock up.
CleanupWait(a) ==
  /\ handler[a] = "test" /\ ~NobodyActive
  /\ Release(a)
  /\ waiting' = waiting \cup {a}
  /\ HandlerGoto(a, "wait")
  /\ UNCHANGED <<proc, active_threads, locks, mainVars, sigint_happend, sigints,
                 report, connVars>>

CleanupNoWait(a) ==
  /\ handler[a] = "test" /\ NobodyActive
  /\ HandlerGoto(a, "unlock")
  /\ UNCHANGED <<proc, active_threads, syncVars, mainVars, sigint_happend, sigints,
                 report, connVars>>

\* pthread_cond_wait comes back with the lock.
CleanupWake(a) ==
  /\ handler[a] = "wait" /\ a \notin waiting
  /\ Acquire(a)
  /\ HandlerGoto(a, "unlock")
  /\ UNCHANGED <<proc, active_threads, locks, waiting, mainVars, sigint_happend,
                 sigints, report, connVars>>

CleanupUnlock(a) ==
  /\ handler[a] = "unlock"
  /\ Release(a)
  /\ HandlerGoto(a, "print")
  /\ UNCHANGED <<proc, active_threads, locks, waiting, mainVars, sigint_happend,
                 sigints, report, connVars>>

PrintCounter(a) ==
  /\ handler[a] = "print"
  /\ report' = [report EXCEPT ![a] = Append(@, counters[Len(@)])]
  /\ HandlerGoto(a, IF Len(report[a]) + 1 = PRINTABLES_LEN THEN "destroy" ELSE "print")
  /\ UNCHANGED <<proc, active_threads, syncVars, mainVars, sigint_happend,
                 sigints, connVars>>

\* pthread_mutex_destroy answers EBUSY for a lock that is held, or that a thread
\* in pthread_cond_wait is to have again.
LockInUse == lock # Nobody \/ \E b \in Threads : handler[b] = "wait"

DestroyLocks(a) ==
  /\ handler[a] = "destroy" /\ ~LockInUse
  /\ locks' = "destroyed"
  /\ HandlerGoto(a, "reuse")
  /\ UNCHANGED <<proc, active_threads, lock, waiting, mainVars, sigint_happend, sigints,
                 report, connVars>>

DestroyFails(a) == handler[a] = "destroy" /\ LockInUse /\ Fail

\* setsockopt, which fails on a closed socket.
ReuseAddress(a) ==
  /\ handler[a] = "reuse" /\ listening
  /\ HandlerGoto(a, "close")
  /\ UNCHANGED <<proc, active_threads, syncVars, mainVars, sigint_happend, sigints,
                 report, connVars>>

ReuseFails(a) == handler[a] = "reuse" /\ ~listening /\ Fail

CloseListen(a) ==
  /\ handler[a] = "close"
  /\ listening' = FALSE
  /\ HandlerGoto(a, "none")
  /\ UNCHANGED <<proc, active_threads, syncVars, mainPc, connect_fd, sigint_happend,
                 sigints, report, connVars>>

HandlerStep(a) ==
  \/ CleanupLock(a) \/ CleanupLockFails(a)
  \/ CleanupWait(a) \/ CleanupNoWait(a) \/ CleanupWake(a) \/ CleanupUnlock(a)
  \/ PrintCounter(a)
  \/ DestroyLocks(a) \/ DestroyFails(a)
  \/ ReuseAddress(a) \/ ReuseFails(a) \/ CloseListen(a)

----------------------------------------------------------------------------
Failure ==
  \/ Runs(Main) /\ CreateFails
  \/ \E c \in Conns : Runs(c) /\ ServeFails(c)

Next ==
  /\ proc = "running"
  /\ \/ MainStep
     \/ \E c \in Conns : ConnStep(c)
     \/ \E a \in Threads : HandlerStep(a) \/ Sigint(a)
     \/ Failure

\* Every thread goes on when it can, but for one that reads from its client.  No
\* client has to connect or to send anything, and nobody has to send SIGINT.
Fairness ==
  /\ WF_vars(proc = "running" /\ Runs(Main) /\
             (AcceptFails \/ RegisterLock \/ RegisterFails \/ Register
              \/ RegisterUnlock \/ CreateThread))
  /\ \A c \in Conns : WF_vars(proc = "running" /\ Runs(c) /\ CountOut(c))
  /\ \A a \in Threads : WF_vars(proc = "running" /\ HandlerStep(a))

Spec == Init /\ [][Next]_vars /\ Fairness

----------------------------------------------------------------------------
(***************************************************************************)
(* Properties.                                                             *)
(***************************************************************************)

\* The connections from updateActiveThreads(1) to updateActiveThreads(-1).
Registered ==
  {c \in Conns : conn[c] \in {"serving", "adding", "deregister", "deregistering"}}
    \cup {c \in Conns : c = connect_fd /\ mainPc \in {"registered", "create"}}

\* active_threads is the number of connections that still have counters to add:
\* one that main has counted and not yet given a thread included.
ActiveCountsRegistered == active_threads = Cardinality(Registered)

\* No wakeup is skipped (pcc_server.c:128, 243): who sleeps on allDoneCond sleeps
\* while a connection is counted, or the thread that counted the last one out has
\* still to broadcast.  That the wakeup comes is not said: a second SIGINT in the
\* broadcasting thread leaves it, and with it the sleepers, stuck for ever.
SleepersHaveSomebody ==
  waiting # {} => active_threads # 0 \/ \E c \in Conns : conn[c] = "broadcasting"

\* The locks are destroyed behind a whole report, with nobody inside a critical
\* section or to come back to one from a wait, and no thread that has still to
\* count itself out (pcc_server.c:254-256).  Who may come to a destroyed lock is
\* main with a connection in its hands (the TODO at 236) and a later SIGINT's
\* handler: to both, lock() answers with an error and they end the process.
DestroyedWhenIdle ==
  locks = "destroyed" =>
    /\ \E a \in Threads : Len(report[a]) = PRINTABLES_LEN
    /\ lock = Nobody
    /\ \A a \in Threads : handler[a] \notin {"test", "wait", "unlock"}
    /\ \A c \in Conns : conn[c] \in {"idle", "accepted", "exiting", "done"}

\* No thread stays in read() for ever, as one does whose client is silent, or
\* announces N = 0 or more than INT_MAX.
ClientsGoOn == \A c \in Conns : []<>(conn[c] # "serving")

\* A SIGINT that finds main waiting in accept() stops the server, wherever its
\* threads are, provided that no client holds its thread for ever and that no
\* second SIGINT comes.
SigintAtAcceptEnds ==
  ClientsGoOn =>
    ((handler[Main] = "lock" /\ mainPc = "accept") ~> (proc # "running" \/ sigints > 1))

\* "Wait until all threads are done: ... if we got here all threads are done"
\* (pcc_server.c:242-254): cleanup() gets past its wait wherever SIGINT came, when
\* no client holds its thread for ever.
CleanupWaitEnds ==
  ClientsGoOn =>
    ((handler[Main] = "lock") ~> (handler[Main] = "print" \/ proc # "running"))

\* The printed statistics count exactly the answered clients.
Statistics ==
  INSTANCE PccStatistics WITH accepted <- {c \in Conns : conn[c] # "idle"}

ImplementsStatistics == Statistics!Spec
=============================================================================
