------------------------------- MODULE MCEpoch -------------------------------
(***************************************************************************)
(* Files for the unwrapping of timestamps.  All but the last have their    *)
(* stamps in the order of display; a length of 100 is never reached.       *)
(***************************************************************************)
EXTENDS EpochUnwrapper

Joined(step, head, count) ==
  [start |-> 1000, step |-> step, head |-> head, count |-> count, bframes |-> 0,
   pause |-> 100, gap |-> 0, damaged |-> 0, dip |-> 0]

InOrder ==
  {Joined(step, head, 9) : step \in {1, 25}, head \in {3, 6, 9}}
    \cup {[Joined(step, 6, 9) EXCEPT !.pause = n, !.gap = 775] : step \in {1, 25}, n \in 2..5}
    \cup {[Joined(1, 6, 9) EXCEPT !.damaged = n, !.dip = d] : n \in 3..5, d \in {0, 3, 700}}

\* One picture between two that it depends on.
Reordered == {[Joined(1, 7, 12) EXCEPT !.bframes = 1]}
=============================================================================
