---------------------------- MODULE BestIntervals ----------------------------
(***************************************************************************)
(* hw1_subs: find_best_interval of intervals.py.  Points in order, each    *)
(* labelled 0 or 1; at most k intervals that should cover the points       *)
(* labelled 1 and no other.  E[i, j] is the least number of errors that j  *)
(* intervals make on the first i points, P[i, j] the last interval of such *)
(* a choice, as a pair of boundaries among 0 .. m.                         *)
(***************************************************************************)
EXTENDS Integers, Sequences, FiniteSets, FiniteSetsExt

VARIABLES
  ys, k,               \* the labels and the number of intervals
  E, P,                \* the tables, by <<i, j>>
  cell,                \* the cell to fill next
  best, cur, round,    \* the extraction
  intervalsPc

intervalsVars == <<ys, k, E, P, cell, best, cur, round, intervalsPc>>

m    == Len(ys)
None == << >>

\* The sum of the labels of the points l + 1 .. u.
Ones(l, u) == Cardinality({p \in l + 1 .. u : ys[p] = 1})

IntervalsStarts(labels, count) ==
  /\ ys = labels /\ k = count
  /\ E = [c \in (0 .. m) \X (0 .. k) |-> IF c[2] = 0 THEN Ones(0, c[1]) ELSE 0]
  /\ P = [c \in (0 .. m) \X (0 .. k) |-> None]
  /\ cell = <<1, 1>>
  /\ best = << >> /\ cur = None /\ round = k
  /\ intervalsPc = "fill"

----------------------------------------------------------------------------

ErrorsCountedTwice(l, u, i, j) == E[<<l, j - 1>>] + Ones(l, i) + (u - l) - Ones(l, u)

\* j - 1 intervals on the first l points, and one that covers l + 1 .. u.
Errors(l, u, i, j) == E[<<l, j - 1>>] + Ones(u, i) + (u - l) - Ones(l, u)

\* The order of Python's tuples.
Before(o, p) == \E n \in DOMAIN o : o[n] < p[n] /\ \A x \in 1 .. n - 1 : o[x] = p[x]

\* argmin gives the first u for each l, min the first l of all.
Option(i, j) ==
  LET bounds  == {b \in (0 .. i) \X (0 .. i) : b[1] <= b[2]}
      options == {<<Errors(b[1], b[2], i, j), b[1], b[2]>> : b \in bounds}
  IN CHOOSE o \in options : \A p \in options \ {o} : Before(o, p)

NextCell(i, j) == IF j < k THEN <<i, j + 1>> ELSE <<i + 1, 1>>

FillCell ==
  LET i == cell[1]  j == cell[2]  o == Option(i, j)
  IN /\ intervalsPc = "fill" /\ i <= m /\ j <= k
     /\ E' = [E EXCEPT ![<<i, j>>] = o[1]]
     /\ P' = [P EXCEPT ![<<i, j>>] = <<o[2], o[3]>>]
     /\ cell' = NextCell(i, j)
     /\ UNCHANGED <<ys, k, best, cur, round, intervalsPc>>

TablesFull ==
  /\ intervalsPc = "fill" /\ (cell[1] > m \/ k = 0)
  /\ cur' = P[<<m, k>>]
  /\ intervalsPc' = "extract"
  /\ UNCHANGED <<ys, k, E, P, cell, best, round>>

\* One round of the extraction: what is before the interval was filled with one less.
Extract ==
  /\ intervalsPc = "extract" /\ round > 0 /\ cur # None
  /\ best' = Append(best, cur)
  /\ cur' = P[<<cur[1], round - 1>>]
  /\ round' = IF cur' = None THEN 0 ELSE round - 1
  /\ UNCHANGED <<ys, k, E, P, cell, intervalsPc>>

\* Without points there is no interval to look up: None[0] raises a TypeError.
ExtractRaises ==
  /\ intervalsPc = "extract" /\ round > 0 /\ cur = None
  /\ intervalsPc' = "raised"
  /\ UNCHANGED <<ys, k, E, P, cell, best, cur, round>>

\* Python's sorted: the same pairs, none before the one in front of it.
Sorted(s) ==
  LET order == CHOOSE p \in Bijection(DOMAIN s, DOMAIN s) :
                 \A n \in 1 .. Len(s) - 1 : ~Before(s[p[n + 1]], s[p[n]])
  IN [n \in DOMAIN s |-> s[order[n]]]

Sort ==
  /\ intervalsPc = "extract" /\ round = 0
  /\ best' = Sorted(best)
  /\ intervalsPc' = "done"
  /\ UNCHANGED <<ys, k, E, P, cell, cur, round>>

IntervalsInit == \E labels \in Seq({0, 1}), count \in Nat : IntervalsStarts(labels, count)

IntervalsNext == FillCell \/ TablesFull \/ Extract \/ ExtractRaises \/ Sort

IntervalsSpec == IntervalsInit /\ [][IntervalsNext]_intervalsVars

----------------------------------------------------------------------------
(***************************************************************************)
(* Properties.                                                             *)
(***************************************************************************)

\* Of all ways of labelling the first i points with at most j runs of ones, the
\* least number of points labelled wrong.
Runs(h) == Cardinality({p \in DOMAIN h : h[p] = 1 /\ (p = 1 \/ h[p - 1] = 0)})
LeastErrors(i, j) ==
  Min({Cardinality({p \in 1 .. i : h[p] # ys[p]}) : h \in {g \in [1 .. i -> {0, 1}] : Runs(g) <= j}})

\* The intervals returned are at most k, in order and apart, and the number of
\* errors returned with them is the one they make, and the least that any k
\* intervals can make; only a call without points can fail.
IntervalsAttainBest ==
  /\ intervalsPc = "done" =>
       LET covered == UNION {best[n][1] + 1 .. best[n][2] : n \in DOMAIN best}
       IN /\ Len(best) <= k
          /\ \A n \in 1 .. Len(best) - 1 : best[n][2] <= best[n + 1][1]
          /\ Cardinality({p \in 1 .. m : (ys[p] = 1) # (p \in covered)}) = E[<<m, k>>]
          /\ E[<<m, k>>] = LeastErrors(m, k)
  /\ intervalsPc = "raised" => m = 0 /\ k > 0
=============================================================================
