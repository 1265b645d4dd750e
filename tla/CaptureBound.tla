---------------------------- MODULE CaptureBound ----------------------------
(***************************************************************************)
(* The comparison tee of a file run (pipeline/run.py): the source bridge   *)
(* retains every admitted frame until an output pairs with a later one,    *)
(* and refuses to retain more frames than the bound that the graph         *)
(* computes from its buffers.                                              *)
(***************************************************************************)
EXTENDS StreamGraphProps

CONSTANTS
  Context,      \* the frames before the start of the run, back to the keyframe
                \* they need: their outputs have a negative time stamp
  Native        \* Native[i]: native_slots of operation i

ASSUME ContextIsPrefix == Context \in 0..NumUnits
ASSUME NativeSlots == Native \in [Stage -> Nat]

\* The sum of the numbers f gives: the places, f[i] of them at each i.
Total(f) == Cardinality(UNION {{i} \X (1..f[i]) : i \in DOMAIN f})

\* What the operations retain, publish, keep in native buffers and queue, plus
\* two units each for the terminal consumer and for the source bridge.
CaptureLimit ==
  LET retained == [i \in Stage |-> Delay[i] + 1]
      queued   == [c \in Chan |-> Capacity(c)]
  IN  Total(retained) + Total(PendingCap) + Total(Native) + Total(queued) + 2 + 2

\* Faulty variant: a pairing does not drop the frames before it.
NothingPaired == 1

\* The oldest frame retained: the one the last output was paired with.  An
\* output of the context is dropped before it is paired with anything.
Paired ==
  LET outputs == {delivered[k].unit : k \in DOMAIN delivered} \ 1..Context
  IN  IF outputs = {} THEN 1 ELSE CHOOSE u \in outputs : \A v \in outputs : v <= u

\* capture() never has to refuse a frame: what is retained, from the paired
\* frame to the last admitted one, is bounded by the latency of the chain.
CaptureWithinLimit == next - Paired <= CaptureLimit
=============================================================================
