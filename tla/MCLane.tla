------------------------------- MODULE MCLane -------------------------------
(***************************************************************************)
(* Instances of the owner lanes: which stage works where, and with which   *)
(* resources.                                                              *)
(***************************************************************************)
EXTENDS OwnerLane

\* A windowed stage and an ordinary one share a lane; a native stage has one.
TwoLanes   == <<"mlx", "mlx", "native">>
GpuThenAne == <<1, 2>>
TwoEach    == <<2, 2>>
ManyClaims == <<GpuThenAne, <<1>>, <<1>>>>

\* Two windowed stages on one lane, with the permits of the program: four for
\* the GPU, two for the ANE.
OneLane    == <<"mlx", "mlx">>
GpuAndAne  == <<4, 2>>
SameClaims == <<GpuThenAne, GpuThenAne>>
=============================================================================
