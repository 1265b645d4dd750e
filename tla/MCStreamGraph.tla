--------------------------- MODULE MCStreamGraph ---------------------------
(***************************************************************************)
(* Instances of the actor graph for TLC: what the operations are, and      *)
(* whose callbacks may raise.                                              *)
(***************************************************************************)
EXTENDS CaptureBound

EitherMode == BOOLEAN
WithSink   == {TRUE}
WithHost   == {FALSE}

\* Two operations: one that passes units on, one that holds a unit back, and
\* whose slots differ; the second of them may lose the unit of a boundary.
PassThenWindow == <<0, 1>>
NoDrops        == <<{}, {}>>
LosesBoundary  == <<{}, {9}>>
LastSlots      == <<0, 2>>
FirstSlots     == <<2, 0>>
OnePending     == <<1, 1>>
TwoPending     == <<2, 2>>
NoNative       == <<0, 0>>
LastNative     == <<0, 1>>

\* One operation that holds a unit back, with a pool of two slots.
OneWindow      == <<1>>
OneKeepsAll    == <<{}>>
OneSlots       == <<2>>
OneTwoPending  == <<2>>
OneNative      == <<1>>

AllFail        == {Source, Sink, Main, Worker(1)}
=============================================================================
