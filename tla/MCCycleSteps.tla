---------------------------- MODULE MCCycleSteps ----------------------------
(* CycleSteps on a chain of four heights with epochs of two.  The stake of *)
(* v2 falls, v3 is unbonded, v4 joins; v1 is active all the time.          *)
EXTENDS CycleSteps, TLC

CONSTANTS v1, v2, v3, v4, d1, d2, b1, b2

MCStakeAt == [h \in Height |->
   v1 :> 2 @@ v2 :> (IF h < 2 THEN 3 ELSE 1) @@ v3 :> (IF h < 3 THEN 1 ELSE 0)
           @@ v4 :> (IF h < 3 THEN 0 ELSE 4)]
MCActiveAt == [h \in Height |->
   CASE h < 2 -> {v1} [] h = 2 -> {v1, v2, v3} [] OTHER -> {v1, v4}]
=============================================================================
