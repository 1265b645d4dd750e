--------------------------- MODULE StreamContract ---------------------------
(***************************************************************************)
(* What a pipeline run promises whoever consumes it, with no thread,       *)
(* channel or lease in sight: the units the processors keep arrive once    *)
(* each and in source order; every boundary of the source rides on the     *)
(* first unit that arrives at or after it; the run reports the end of the  *)
(* stream only when nothing is missing; and it may stop early.             *)
(***************************************************************************)
EXTENDS Naturals, Sequences

CONSTANTS
  Kept,        \* the units no processor swallows
  Boundaries   \* the source units that carry a boundary

VARIABLES
  delivered,   \* the units consumed so far, with the boundaries they carry
  status       \* "open", "ended" or "stopped"

Last == IF delivered = <<>> THEN 0 ELSE delivered[Len(delivered)].unit

Remaining == {u \in Kept : u > Last}

\* s lists the boundaries in (Last, u] in increasing order.
ListsBoundaries(s, u) ==
  /\ {s[k] : k \in DOMAIN s} = {b \in Boundaries : Last < b /\ b <= u}
  /\ \A j, k \in DOMAIN s : j < k => s[j] < s[k]

Init == delivered = <<>> /\ status = "open"

Deliver ==
  /\ status = "open"
  /\ Len(delivered') = Len(delivered) + 1
  /\ SubSeq(delivered', 1, Len(delivered)) = delivered
  /\ LET new == delivered'[Len(delivered) + 1] IN
       /\ new.unit \in Remaining
       /\ \A u \in Remaining : new.unit <= u
       /\ ListsBoundaries(new.bnds, new.unit)
  /\ UNCHANGED status

End  == status = "open" /\ Remaining = {} /\ status' = "ended" /\ UNCHANGED delivered
Stop == status = "open" /\ status' = "stopped" /\ UNCHANGED delivered

Next == Deliver \/ End \/ Stop

Spec == Init /\ [][Next]_<<delivered, status>>
=============================================================================
