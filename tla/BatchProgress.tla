--------------------------- MODULE BatchProgress ---------------------------
(***************************************************************************)
(* src/src/sync_progress.py: what one batch of getBlocksByHeights has      *)
(* achieved, height by height.  A height of the DAG may hold several       *)
(* sibling blocks; the batch is complete up to a height when every height  *)
(* from the first one on was reported and no sibling there failed.         *)
(*                                                                         *)
(* A progress is the record of the dataclass BlockBatchProgress.           *)
(***************************************************************************)
EXTENDS Integers

BlockBatchProgress(startHeight, endHeight) ==
  [start |-> startHeight, end |-> endHeight,
   seen |-> {}, failed |-> {}, unmapped |-> FALSE]

\* The values a progress takes between the heights s and e.
ProgressOf(s, e) ==
  [start : {s}, end : {e}, seen : SUBSET (s .. e), failed : SUBSET (s .. e),
   unmapped : BOOLEAN]

\* Mutations of Contains, MarkFailed and Succeeded: the last height is left out, a failed
\* sibling only counts as reported, or is forgotten once the height was reported.
ContainsHalfOpen(p, h) == h \in p.start .. p.end - 1
MarkFailedOnlySeen(p, h) ==
  IF h \in p.start .. p.end THEN [p EXCEPT !.seen = @ \cup {h}]
                            ELSE [p EXCEPT !.unmapped = TRUE]
SucceededIfSeen(p, h) == h \in p.seen

\* A height that is None, not an integer, or outside the batch is not contained.
Contains(p, h) == h \in p.start .. p.end

MarkSeen(p, h) ==
  IF Contains(p, h) THEN [p EXCEPT !.seen = @ \cup {h}]
                    ELSE [p EXCEPT !.unmapped = TRUE]

MarkFailed(p, h) ==
  IF Contains(p, h) THEN [p EXCEPT !.seen = @ \cup {h}, !.failed = @ \cup {h}]
                    ELSE [p EXCEPT !.unmapped = TRUE]

\* The loop goes on at height h: it was reported and no sibling of it failed.
Succeeded(p, h) == h \in p.seen \ p.failed

(***************************************************************************)
(* What the loop of last_completed_height leaves in completed_height: c is *)
(* reached from start - 1 over heights that succeeded, and the loop stops  *)
(* there because the next height did not, or because the range ends.       *)
(***************************************************************************)
IsLastCompleted(p, c) ==
  IF p.unmapped
  THEN c = p.start - 1
  ELSE /\ c \in {p.start - 1} \cup (p.start .. p.end)
       /\ \A h \in p.start .. c : Succeeded(p, h)
       /\ c + 1 \in p.start .. p.end => ~ Succeeded(p, c + 1)

LastCompletedHeight(p) ==
  CHOOSE c \in {p.start - 1} \cup (p.start .. p.end) : IsLastCompleted(p, c)
=============================================================================
