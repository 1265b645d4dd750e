----------------------------- MODULE MCEndpoint -----------------------------
(***************************************************************************)
(* Films for the conform stage and the file consumer.                      *)
(***************************************************************************)
EXTENDS FileEndpoint

\* Four frames that last dur[n] ticks, with a hole before one of them, and cuts;
\* the run starts at one of them.
Film(dur, gap, at, cuts, first) ==
  LET pts[n \in 1..4] ==
        IF n = 1 THEN 0 ELSE pts[n - 1] + dur[n - 1] + (IF n = at THEN gap ELSE 0)
  IN  [n \in 1..4 |-> [pts |-> pts[n] - pts[first], dur |-> dur[n], cut |-> n \in cuts]]

SomeFilms ==
  {Film(dur, gap, at, cuts, first) :
     dur \in [1..4 -> {1, 3}], gap \in {0, 2, 8}, at \in 2..4, cuts \in SUBSET (2..4),
     first \in 1..2}

\* A hole in front of a cut.
GapBeforeCut == {Film([n \in 1..4 |-> 1], 6, 3, {3}, 1)}
=============================================================================
