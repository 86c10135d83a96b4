-------------------------- MODULE MCBatchProgress --------------------------
(***************************************************************************)
(* The batch 2..5 with summaries at its heights, just outside it on both   *)
(* sides, and with no height.                                              *)
(***************************************************************************)
EXTENDS BatchProgressCalls

CONSTANT NoHeight
MCReported == 1 .. 6 \cup {NoHeight}
=============================================================================
