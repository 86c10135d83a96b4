---------------------------- MODULE CycleAlerts ----------------------------
(***************************************************************************)
(* How the sync loop of BlockIndexer decides that a human should look at   *)
(* it (src/src/block_indexer.py): one pass of the loop is a cycle, its     *)
(* steps swallow their own exceptions, and counters kept over the cycles   *)
(* raise the alerts.  What happens inside a batch is module BlockSync;     *)
(* here a call of _sync_blocks is one action, one per way it can end.      *)
(*                                                                         *)
(* The counters are only compared with their thresholds, so they are       *)
(* counted no further than those.                                          *)
(***************************************************************************)
EXTENDS Integers, FiniteSets, Sequences, SequencesExt

CONSTANTS SyncStallThreshold, NodeUnreachableCycles, CursorStuckCycles,
          LagBlocks,                  \* settings.lag_alert_blocks
          LagCycles,                  \* settings.lag_alert_cycles
          RecoveryNum, RecoveryDen,   \* settings.lag_recovery_ratio, as a fraction
          StartFrom, BatchSize,
          MaxTip,                     \* bound on the height the chain grows to
          NoHeight

ASSUME ThresholdAssumption ==
  /\ SyncStallThreshold \in Nat \ {0} /\ NodeUnreachableCycles \in Nat \ {0}
  /\ CursorStuckCycles \in Nat \ {0}
  /\ LagBlocks \in Nat /\ LagCycles \in Nat \ {0, 1}
  /\ RecoveryNum \in 1 .. RecoveryDen
  /\ StartFrom \in Nat /\ BatchSize \in Nat \ {0} /\ MaxTip \in Nat
  /\ NoHeight \notin Int

VARIABLES
  tip,          \* node: height of the last finalized block
  cursor,       \* database: last_indexed_block
  pc,           \* "sync": the next cycle begins; "steps": after _sync_blocks
  cycleError,   \* _cycle_error with _cycle_kind: none, unnamed or database
  failures,     \* _consecutive_failures
  nodeOut,      \* _node_unavailable_cycles
  stuckHeight,  \* _stuck_height
  stuck,        \* _stuck_cycles
  lags,         \* _lag_history
  raised,       \* the alerts this cycle has notified
  cycles,       \* history: for each recent cycle, the kinds of failure of its steps
  batches       \* history: for each recent batch, how far it got and whether that was all

env      == <<tip, cursor>>
counters == <<failures, nodeOut, stuckHeight, stuck, lags>>
history  == <<cycles, batches>>
vars     == <<env, pc, cycleError, counters, raised, history>>

AlertKind == {"NODE_UNREACHABLE", "DATABASE_UNREACHABLE", "SYNC_STALLED",
              "BLOCKS_STUCK", "SYNC_FALLING_BEHIND"}
\* Every RPC and HTTP error is swallowed by the node client: no step fails with one.
FailureKind == {"unnamed", "database"}

MinOf(i, j) == IF i <= j THEN i ELSE j
MaxOf(i, j) == IF i >= j THEN i ELSE j
LastOf(s, n) == SubSeq(s, MaxOf(1, Len(s) - n + 1), Len(s))

Init ==
  /\ tip \in 0 .. MaxTip /\ cursor = -1
  /\ pc = "sync" /\ cycleError = "none" /\ raised = {}
  /\ failures = 0 /\ nodeOut = 0 /\ stuckHeight = NoHeight /\ stuck = 0 /\ lags = <<>>
  /\ cycles = <<>> /\ batches = <<>>
----------------------------------------------------------------------------
\* Mutation of Recorded: the latest failure of a cycle names it.
RecordedLatest(error, kind) == kind

\* _record_cycle_failure: a failure without a kind does not replace one that has one.
Recorded(error, kind) ==
  IF kind = "unnamed" /\ error = "database" THEN error ELSE kind

\* Mutation of NodeCount: the cycle is noted instead of counted.
NodeCountNoted(available) == IF available THEN 0 ELSE 1

NodeCount(available) ==
  IF available THEN 0 ELSE MinOf(nodeOut + 1, NodeUnreachableCycles)

NodeAlert(count) == {k \in {"NODE_UNREACHABLE"} : count >= NodeUnreachableCycles}

\* Twice the median of a sequence of numbers.
TwiceMedian(s) ==
  LET sorted == SortSeq(s, <)
      n == Len(s)
  IN  IF n % 2 = 1 THEN 2 * sorted[(n + 1) \div 2]
                   ELSE sorted[n \div 2] + sorted[n \div 2 + 1]

\* Mutation of LagsWith: the window is not kept to its length.
LagsUntrimmed(lag) == LastOf(Append(lags, lag), LagCycles + 1)

LagsWith(lag) == LastOf(Append(lags, lag), LagCycles)

\* Mutation of Recovering: a lag that stays where it is recovers.
RecoveringIfFlat(window) ==
  LET half == Len(window) \div 2
  IN  TwiceMedian(SubSeq(window, half + 1, Len(window))) <= TwiceMedian(SubSeq(window, 1, half))

\* Mutation of Recovering: the recent half is judged by its peak.
RecoveringFromPeak(window) ==
  LET half == Len(window) \div 2
  IN  \A i \in half + 1 .. Len(window) :
         2 * window[i] * RecoveryDen <= TwiceMedian(SubSeq(window, 1, half)) * RecoveryNum

\* The recent half of the window is at most that fraction of the older half.
Recovering(window) ==
  LET half == Len(window) \div 2
  IN  TwiceMedian(SubSeq(window, half + 1, Len(window))) * RecoveryDen
        <= TwiceMedian(SubSeq(window, 1, half)) * RecoveryNum

LagAlert(window) ==
  {k \in {"SYNC_FALLING_BEHIND"} :
      /\ Len(window) = LagCycles
      /\ \A i \in DOMAIN window : window[i] > LagBlocks
      /\ ~ Recovering(window)}

Start == MaxOf(StartFrom, cursor + 1)
End == MinOf(Start + BatchSize - 1, tip)
Lag == MaxOf(0, tip - cursor)
Behind == cursor < tip
----------------------------------------------------------------------------
(***************************************************************************)
(* _sync_blocks, by the way it ends; at most one failure is noted in it.   *)
(***************************************************************************)
SyncEnds(error) ==
  /\ pc = "sync" /\ pc' = "steps"
  /\ cycleError' = error
  /\ cycles' = LastOf(Append(cycles, {error} \cap FailureKind), SyncStallThreshold)
  /\ UNCHANGED <<tip, failures>>
SameCursor == UNCHANGED <<cursor, stuckHeight, stuck, batches>>

CursorUnreadable(kind) ==
  /\ SyncEnds(kind)
  /\ raised' = {}
  /\ SameCursor /\ UNCHANGED <<nodeOut, lags>>

NoFinalizedBlock ==
  /\ SyncEnds("none")
  /\ nodeOut' = NodeCount(FALSE)
  /\ raised' = NodeAlert(nodeOut')
  /\ SameCursor /\ UNCHANGED lags

UpToDate ==
  /\ SyncEnds("none") /\ ~ Behind
  /\ lags' = LagsWith(Lag)
  /\ nodeOut' = NodeCount(TRUE)
  /\ raised' = LagAlert(lags')
  /\ SameCursor

\* The node has answered, but the count of blocks raises before that is noted.
CountFails(kind) ==
  /\ SyncEnds(kind) /\ Behind
  /\ lags' = LagsWith(Lag)
  /\ raised' = LagAlert(lags')
  /\ SameCursor /\ UNCHANGED nodeOut

NoSummaries ==
  /\ SyncEnds("none") /\ Behind
  /\ lags' = LagsWith(Lag)
  /\ nodeOut' = NodeCount(End < Start)
  /\ raised' = LagAlert(lags') \cup NodeAlert(nodeOut')
  /\ SameCursor

\* Mutation of StuckCount: a batch that gets somewhere, but not to its end, is no failure.
StuckCountAnyHeight(done) ==
  MinOf(stuck + 1, CursorStuckCycles)

\* _track_cursor for a batch that is not whole.
StuckCount(done) ==
  IF done = stuckHeight THEN MinOf(stuck + 1, CursorStuckCycles) ELSE 1

\* A batch is complete up to done; a block that failed keeps done below the end.
BatchDone(done, skipped) ==
  /\ SyncEnds("none") /\ Behind
  /\ skipped /\ Start <= End => done < End
  /\ LET whole == ~ skipped /\ done >= End
     IN  /\ stuckHeight' = IF whole THEN NoHeight ELSE done
         /\ stuck' = IF whole THEN 0 ELSE StuckCount(done)
         /\ batches' = LastOf(Append(batches, [done |-> done, whole |-> whole]),
                              CursorStuckCycles)
  /\ cursor' = IF done >= Start THEN done ELSE cursor
  /\ lags' = LagsWith(Lag)
  /\ nodeOut' = NodeCount(TRUE)
  /\ raised' = LagAlert(lags')
                  \cup {k \in {"BLOCKS_STUCK"} : stuck' >= CursorStuckCycles}

\* The batch got somewhere, but the cursor cannot be written.
CursorUnwritten(kind) ==
  /\ SyncEnds(kind) /\ Behind /\ Start <= End
  /\ lags' = LagsWith(Lag)
  /\ nodeOut' = NodeCount(TRUE)
  /\ raised' = LagAlert(lags')
  /\ SameCursor
----------------------------------------------------------------------------
\* One of the later steps of the cycle swallows a failure.
StepFails(kind) ==
  /\ pc = "steps"
  /\ cycleError' = Recorded(cycleError, kind)
  /\ cycles' = [cycles EXCEPT ![Len(cycles)] = @ \cup {kind}]
  /\ UNCHANGED <<env, pc, counters, raised, batches>>

\* _close_cycle; the next cycle starts with no error noted.
CloseCycle ==
  /\ pc = "steps" /\ pc' = "sync"
  /\ failures' = IF cycleError = "none" THEN 0 ELSE MinOf(failures + 1, SyncStallThreshold)
  /\ raised' = raised \cup
       {k \in {IF cycleError = "database" THEN "DATABASE_UNREACHABLE" ELSE "SYNC_STALLED"} :
           failures' >= SyncStallThreshold}
  /\ cycleError' = "none"
  /\ UNCHANGED <<env, nodeOut, stuckHeight, stuck, lags, history>>

\* The process goes down and a new BlockIndexer takes over, at any moment.
Restart ==
  /\ pc' = "sync" /\ cycleError' = "none" /\ raised' = {}
  /\ failures' = 0 /\ nodeOut' = 0 /\ stuckHeight' = NoHeight /\ stuck' = 0 /\ lags' = <<>>
  /\ cycles' = <<>> /\ batches' = <<>>
  /\ UNCHANGED env

Finalize ==
  /\ tip < MaxTip
  /\ tip' = tip + 1
  /\ UNCHANGED <<cursor, pc, cycleError, counters, raised, history>>

SyncBlocks ==
  \/ NoFinalizedBlock \/ UpToDate \/ NoSummaries
  \/ \E kind \in FailureKind :
        CursorUnreadable(kind) \/ CountFails(kind) \/ CursorUnwritten(kind)
  \/ \E done \in Start - 1 .. MaxOf(End, Start - 1), skipped \in BOOLEAN :
        BatchDone(done, skipped)

Next ==
  \/ SyncBlocks
  \/ \E kind \in FailureKind : StepFails(kind)
  \/ CloseCycle
  \/ Restart \/ Finalize

Spec == Init /\ [][Next]_vars

\* Every await of a cycle ends, and the loop goes on after its sleep.
FairSpec == Spec /\ WF_vars(SyncBlocks) /\ WF_vars(CloseCycle)
----------------------------------------------------------------------------
(* Types, and: an alert is only on the books of the cycle that raised it.  *)
TypeOK ==
  /\ tip \in 0 .. MaxTip /\ cursor \in -1 .. MaxTip
  /\ pc \in {"sync", "steps"} /\ cycleError \in {"none"} \cup FailureKind
  /\ failures \in 0 .. SyncStallThreshold /\ nodeOut \in 0 .. NodeUnreachableCycles
  /\ stuckHeight \in {NoHeight} \cup -1 .. MaxTip + StartFrom
  /\ stuck \in 0 .. CursorStuckCycles /\ (stuck = 0 <=> stuckHeight = NoHeight)
  /\ Len(lags) <= LagCycles /\ \A i \in DOMAIN lags : lags[i] \in 0 .. MaxTip + 1
  /\ raised \subseteq AlertKind

Closed == pc = "sync" /\ cycles # <<>>

(* DEPLOYMENT.md:489-498: a run of SYNC_STALL_THRESHOLD cycles with a      *)
(* failed step, and nothing less, raises one alert when the last of them   *)
(* closes; it names the database when any step of that cycle failed on it, *)
(* in whatever order the steps failed.                                     *)
FailedRunIsNamed ==
  Closed =>
    raised \cap {"DATABASE_UNREACHABLE", "SYNC_STALLED"} =
      IF Len(cycles) < SyncStallThreshold \/ \E i \in DOMAIN cycles : cycles[i] = {}
      THEN {}
      ELSE IF "database" \in Last(cycles) THEN {"DATABASE_UNREACHABLE"} ELSE {"SYNC_STALLED"}

(* DEPLOYMENT.md:491: "stuck" is reported only for a cursor that the last  *)
(* CURSOR_STUCK_CYCLES batches, whatever cycles lie between them, all left *)
(* at the height it has, none of them whole.  A batch that gets further    *)
(* before it fails is progress, not a repeat.                              *)
StuckMeansPinned ==
  "BLOCKS_STUCK" \in raised =>
     /\ Len(batches) = CursorStuckCycles
     /\ \A i \in DOMAIN batches : ~ batches[i].whole /\ batches[i].done = Last(batches).done
     /\ \/ cursor = Last(batches).done
        \/ cursor < StartFrom /\ Last(batches).done = StartFrom - 1

\* More than half of the cycles in a part of the window.
Mostly(part, cyclesThat) == 2 * Cardinality(part \cap cyclesThat) > Cardinality(part)

(* block_indexer.py:293: no single spike makes a stall.  Falling behind is *)
(* not reported of a lag that was at some depth or deeper in most cycles   *)
(* of the older half of the window and has come down from there by         *)
(* LAG_RECOVERY_RATIO in most cycles of the recent half, whatever the lag  *)
(* was in the others.                                                      *)
SpikeIsNoStall ==
  "SYNC_FALLING_BEHIND" \in raised =>
     LET half == Len(lags) \div 2
     IN  ~ \E depth \in 0 .. MaxTip + 1 :
            /\ Mostly(1 .. half, {i \in DOMAIN lags : lags[i] >= depth})
            /\ Mostly(half + 1 .. Len(lags),
                      {i \in DOMAIN lags : lags[i] * RecoveryDen <= depth * RecoveryNum})

CursorMoves == cursor' # cursor
AnswerDropped == nodeOut > 0 /\ \E kind \in FailureKind : CursorUnwritten(kind)

(* The counters leave no gap: a loop that stays behind a chain it should   *)
(* follow goes on raising alerts, however its cycles mix a silent node, a  *)
(* failing database and failing blocks.  The premise names the one mix     *)
(* that escapes them: each silent cycle followed by a batch whose cursor   *)
(* cannot be written, which resets one count while the other is at one.    *)
NoSilentStall ==
  (/\ <>[][~ (Restart \/ CursorMoves \/ AnswerDropped)]_vars
   /\ <>[](Behind /\ StartFrom <= tip))
     => []<>(raised \ {"SYNC_FALLING_BEHIND"} # {})

Unanswered == NoFinalizedBlock \/ \E kind \in FailureKind : CursorUnreadable(kind)

(* A cursor that stays deeper below the tip than LAG_ALERT_BLOCKS goes on  *)
(* raising "falling behind", also in that mix, provided the node tells its *)
(* finalized height (block_indexer.py:287).                                *)
DeepStallIsReported ==
  (/\ <>[][~ (Restart \/ CursorMoves \/ Unanswered)]_vars
   /\ <>[](tip - cursor > LagBlocks))
     => []<>("SYNC_FALLING_BEHIND" \in raised)
=============================================================================
