------------------------ MODULE BatchProgressCalls -------------------------
(***************************************************************************)
(* The calls _sync_blocks makes on one BlockBatchProgress: any number of   *)
(* mark_seen and mark_failed, in any order, for heights of the batch and   *)
(* for heights the node should not have answered.  The history variables   *)
(* say which heights each method was called with, so that the bookkeeping  *)
(* of the record can be compared with what happened.                       *)
(***************************************************************************)
EXTENDS BatchProgress

CONSTANTS Start, End,   \* the batch
          Reported      \* the heights a summary may carry, NoHeight included

ASSUME RangeAssumption == Start \in Nat /\ End \in Nat /\ Start <= End

VARIABLES batch,        \* the BlockBatchProgress
          seenCalls,    \* heights mark_seen was called with
          failedCalls   \* heights mark_failed was called with

callVars == <<batch, seenCalls, failedCalls>>

InitCalls ==
  /\ batch = BlockBatchProgress(Start, End)
  /\ seenCalls = {}
  /\ failedCalls = {}

Seen(h) ==
  /\ batch' = MarkSeen(batch, h)
  /\ seenCalls' = seenCalls \cup {h}
  /\ UNCHANGED failedCalls

Failed(h) ==
  /\ batch' = MarkFailed(batch, h)
  /\ failedCalls' = failedCalls \cup {h}
  /\ UNCHANGED seenCalls

NextCall == \E h \in Reported : Seen(h) \/ Failed(h)

CallsSpec == InitCalls /\ [][NextCall]_callVars
----------------------------------------------------------------------------
\* Heights below h of the batch that hold back the cursor: never reported,
\* or with a failed sibling.
Obstacles == {h \in Start .. End : h \notin (seenCalls \cup failedCalls) \/ h \in failedCalls}
Astray(h) == h \notin Start .. End

(* last_completed_height, compared with what the calls were rather than    *)
(* with the sets the object keeps: with a summary whose height cannot be   *)
(* placed the batch completes nothing; otherwise it completes everything   *)
(* below the lowest obstacle, whatever the order the summaries came in.    *)
CompletesBelowLowestObstacle ==
  LET done == LastCompletedHeight(batch)
  IN  IF \E h \in seenCalls \cup failedCalls : Astray(h)
      THEN done = Start - 1
      ELSE /\ done + 1 \in Obstacles \cup {End + 1}
           /\ \A h \in Obstacles : done < h

(* A failure reported late in the batch can only take heights back, and it *)
(* takes back its own height and all above it, even if siblings of it had  *)
(* been indexed before (sync_progress.py:24, "without allowing the cursor  *)
(* to pass it").                                                           *)
FailureHoldsCursor ==
  [][\A h \in Reported :
        Failed(h) => /\ LastCompletedHeight(batch') <= LastCompletedHeight(batch)
                     /\ ~ Astray(h) => LastCompletedHeight(batch') < h]_callVars

\* last_completed_height as it is written, from the height that is completed on.
Loop(p) ==
  LET completed[c \in p.start - 1 .. p.end] ==
        IF c + 1 > p.end \/ c + 1 \notin p.seen \/ c + 1 \in p.failed THEN c ELSE completed[c + 1]
  IN  IF p.unmapped THEN p.start - 1 ELSE completed[p.start - 1]

(* The closed form used by the other modules is the loop of the source, in *)
(* every reachable progress.                                               *)
ClosedFormIsLoop == LastCompletedHeight(batch) = Loop(batch)
=============================================================================
