--------------------------- MODULE MCTransaction ---------------------------
(***************************************************************************)
(* Instances of the output transaction: a video, a log file and a          *)
(* directory of frames, and the steps that may be disturbed.               *)
(***************************************************************************)
EXTENDS OutputTransaction

AllSites    == Site
\* Everything but the removal of what this run published.
NoUnpublish == Site \ {"unpublish"}
=============================================================================
