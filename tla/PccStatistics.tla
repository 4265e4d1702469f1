---------------------------- MODULE PccStatistics ----------------------------
(***************************************************************************)
(* What the printable-characters server promises: every line it prints     *)
(* when it is told to stop counts exactly the clients it has answered,     *)
(* none is let in or answered once it prints, and it returns 0 only behind *)
(* main's whole report, with every client it accepted answered.  A second  *)
(* SIGINT can make another thread print a report too: that one counts the  *)
(* same clients, and may stop half-way.  Nothing is said of locks.         *)
(*                                                                         *)
(* A number is the set of the clients it counts: counter k of a report is  *)
(* the sum, over those clients, of how many of their bytes were char k.    *)
(***************************************************************************)
EXTENDS Integers, Sequences

CONSTANTS
  Main, Conns,     \* the main thread, the clients that may connect
  PRINTABLES_LEN   \* how many counters a report has

VARIABLES
  accepted, answered,  \* the clients let in, and those that were sent their C
  report,              \* the counters each thread has printed so far
  proc                 \* "running", or how the process ended

statVars == <<accepted, answered, report, proc>>

Threads == Conns \cup {Main}

NothingPrinted == \A a \in Threads : report[a] = << >>

Init ==
  /\ accepted = {} /\ answered = {}
  /\ report = [a \in Threads |-> << >>]
  /\ proc = "running"

Accept(c) ==
  /\ NothingPrinted
  /\ c \notin accepted
  /\ accepted' = accepted \cup {c}
  /\ UNCHANGED <<answered, report, proc>>

\* No client is answered once printing has begun: it would not be counted.
Answer(c) ==
  /\ NothingPrinted
  /\ c \in accepted \ answered
  /\ answered' = answered \cup {c}
  /\ UNCHANGED <<accepted, report, proc>>

PrintLine(a) ==
  /\ Len(report[a]) < PRINTABLES_LEN
  /\ report' = [report EXCEPT ![a] = Append(@, answered)]
  /\ UNCHANGED <<accepted, answered, proc>>

Finish ==
  /\ accepted = answered
  /\ Len(report[Main]) = PRINTABLES_LEN
  /\ proc' = "returned"
  /\ UNCHANGED <<accepted, answered, report>>

Abort == proc' = "failed" /\ UNCHANGED <<accepted, answered, report>>

Next ==
  /\ proc = "running"
  /\ \/ \E c \in Conns : Accept(c) \/ Answer(c)
     \/ \E a \in Threads : PrintLine(a)
     \/ Finish \/ Abort

Spec == Init /\ [][Next]_statVars
=============================================================================
