----------------------------- MODULE XorSpurious -----------------------------
(***************************************************************************)
(* XorWorkers on a system where pthread_cond_wait may return without a     *)
(* broadcast, as POSIX lets it.  Both waits of hw4.c test the level with   *)
(* an "if" (hw4.c:102, 178), so the thread goes on at a level that is not  *)
(* its own.                                                                *)
(***************************************************************************)
EXTENDS XorWorkers

SpuriousWakeup(t) ==
  /\ t \in waiting
  /\ waiting' = waiting \ {t}
  /\ UNCHANGED <<fileVars, proc, sharedVars, bufferLock, bytesWritten,
                 workerVars, mainVars>>

SpuriousNext ==
  \/ Next
  \/ proc = "running" /\ \E t \in Files : SpuriousWakeup(t)

SpuriousSpec == Init /\ [][SpuriousNext]_vars

\* A block enters the buffer only in the level it belongs to: "Wait until the
\* previous level was done" (hw4.c:177).
XorsAtOwnLevel ==
  [][\A t \in Files : pc[t] # "count" /\ pc'[t] = "count" => current_level[t] = level]_vars
=============================================================================
