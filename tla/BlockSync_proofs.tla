-------------------------- MODULE BlockSync_proofs -------------------------
(***************************************************************************)
(* First the calls on one batch: whatever they are and in whatever order,  *)
(* last_completed_height is what the heights they were made with say, and  *)
(* its loop returns it.  Then the synchronisation, for every DAG, batch    *)
(* size and start height: the cursor never passes an incomplete height and *)
(* never moves back, and BlockSync implements IndexedChain.                *)
(* Last, the loop takes no steps with a block but those of BlockWriter.    *)
(*                                                                         *)
(* Of the blocks one thing is supposed: one whose commit may silently roll *)
(* back has justifications (LateJustified), so that the foreign key of     *)
(* block_validators reveals the loss.                                      *)
(***************************************************************************)
EXTENDS BlockSyncClaims, BatchProgressCalls, Facts_proofs

Batch == Start .. End

\* The record holds just the calls, as far as they are of the batch.
CallsInv ==
  /\ batch \in ProgressOf(Start, End)
  /\ batch.seen = (seenCalls \cup failedCalls) \cap Batch
  /\ batch.failed = failedCalls \cap Batch
  /\ batch.unmapped <=> \E h \in seenCalls \cup failedCalls : Astray(h)

(* Nothing was called, and the record holds nothing.                       *)
LEMMA InitCallsInv == InitCalls => CallsInv
BY DEF InitCalls, CallsInv, BlockBatchProgress, ProgressOf, Batch

(* What the two methods do to the fields of the record.                    *)
LEMMA Marks ==
  ASSUME NEW p \in ProgressOf(Start, End), NEW h
  PROVE  /\ MarkSeen(p, h).start = Start /\ MarkSeen(p, h).end = End
         /\ MarkFailed(p, h).start = Start /\ MarkFailed(p, h).end = End
         /\ MarkSeen(p, h).seen = p.seen \cup ({h} \cap Batch)
         /\ MarkFailed(p, h).seen = p.seen \cup ({h} \cap Batch)
         /\ MarkSeen(p, h).failed = p.failed
         /\ MarkFailed(p, h).failed = p.failed \cup ({h} \cap Batch)
         /\ MarkSeen(p, h).unmapped = (p.unmapped \/ Astray(h))
         /\ MarkFailed(p, h).unmapped = (p.unmapped \/ Astray(h))
<1>1. p.start = Start /\ p.end = End /\ p.unmapped \in BOOLEAN
      /\ p = [start |-> p.start, end |-> p.end, seen |-> p.seen, failed |-> p.failed,
              unmapped |-> p.unmapped]
  BY DEF ProgressOf
<1>2. CASE h \in Batch
  BY <1>1, <1>2 DEF MarkSeen, MarkFailed, Contains, Astray, Batch, ProgressOf
<1>3. CASE h \notin Batch
  BY <1>1, <1>3 DEF MarkSeen, MarkFailed, Contains, Astray, Batch, ProgressOf
<1> QED  BY <1>2, <1>3

(* A call changes the record by just the height it was called with.        *)
LEMMA NextCallsInv == CallsInv /\ [NextCall]_callVars => CallsInv'
<1> SUFFICES ASSUME CallsInv, [NextCall]_callVars PROVE CallsInv'
  OBVIOUS
<1>1. batch \in ProgressOf(Start, End) /\ Start \in Nat /\ End \in Int
  BY RangeAssumption DEF CallsInv
<1>2. ASSUME NEW h \in Reported, Seen(h) PROVE CallsInv'
  <2>1. batch' = MarkSeen(batch, h) /\ seenCalls' = seenCalls \cup {h}
        /\ failedCalls' = failedCalls
    BY <1>2 DEF Seen
  <2>2. batch' \in ProgressOf(Start, End)
    BY <1>1, <2>1, MarksKeepBatch
  <2>3. /\ batch'.seen = batch.seen \cup ({h} \cap Batch)
        /\ batch'.failed = batch.failed
        /\ batch'.unmapped = (batch.unmapped \/ Astray(h))
    BY <1>1, <2>1, Marks
  <2>4. batch'.seen = (seenCalls' \cup failedCalls') \cap Batch
        /\ batch'.failed = failedCalls' \cap Batch
    BY <2>1, <2>3 DEF CallsInv
  <2>5. batch'.unmapped <=> \E g \in seenCalls' \cup failedCalls' : Astray(g)
    BY <2>1, <2>3 DEF CallsInv
  <2> QED  BY <2>2, <2>4, <2>5 DEF CallsInv, Astray
<1>3. ASSUME NEW h \in Reported, Failed(h) PROVE CallsInv'
  <2>1. batch' = MarkFailed(batch, h) /\ failedCalls' = failedCalls \cup {h}
        /\ seenCalls' = seenCalls
    BY <1>3 DEF Failed
  <2>2. batch' \in ProgressOf(Start, End)
    BY <1>1, <2>1, MarksKeepBatch
  <2>3. /\ batch'.seen = batch.seen \cup ({h} \cap Batch)
        /\ batch'.failed = batch.failed \cup ({h} \cap Batch)
        /\ batch'.unmapped = (batch.unmapped \/ Astray(h))
    BY <1>1, <2>1, Marks
  <2>4. batch'.seen = (seenCalls' \cup failedCalls') \cap Batch
        /\ batch'.failed = failedCalls' \cap Batch
    BY <2>1, <2>3 DEF CallsInv
  <2>5. batch'.unmapped <=> \E g \in seenCalls' \cup failedCalls' : Astray(g)
    BY <2>1, <2>3 DEF CallsInv
  <2> QED  BY <2>2, <2>4, <2>5 DEF CallsInv, Astray
<1>4. CASE UNCHANGED callVars
  BY <1>4 DEF callVars, CallsInv, Astray
<1> QED  BY <1>2, <1>3, <1>4 DEF NextCall

(* What last_completed_height returns for a record of this batch.          *)
LEMMA CompletedOf ==
  ASSUME NEW p \in ProgressOf(Start, End)
  PROVE  LET done == LastCompletedHeight(p)
         IN  /\ done \in Int /\ Start - 1 <= done /\ done <= End
             /\ p.unmapped => done = Start - 1
             /\ ~ p.unmapped =>
                   /\ \A h \in Start .. done : h \in p.seen \ p.failed
                   /\ done + 1 \in Batch => done + 1 \notin p.seen \ p.failed
<1> DEFINE done == LastCompletedHeight(p)
<1>1. p.start = Start /\ p.end = End /\ p.unmapped \in BOOLEAN
  BY DEF ProgressOf
<1>2. Start \in Nat /\ End \in Int /\ Start <= End
  BY RangeAssumption
<1>3. IsLastCompleted(p, done) /\ done \in {p.start - 1} \cup (p.start .. p.end)
  BY <1>1, <1>2, LastCompletedWellDefined
<1> HIDE DEF done
<1> QED  BY <1>1, <1>2, <1>3 DEF IsLastCompleted, Succeeded, Batch, done

(* The height is below the lowest obstacle, and next to one or at the end. *)
LEMMA CallsInvCompletes == CallsInv => CompletesBelowLowestObstacle
<1> SUFFICES ASSUME CallsInv PROVE CompletesBelowLowestObstacle
  OBVIOUS
<1> DEFINE done == LastCompletedHeight(batch)
           calls == seenCalls \cup failedCalls
<1>1. /\ done \in Int /\ Start - 1 <= done /\ done <= End
      /\ batch.unmapped => done = Start - 1
      /\ ~ batch.unmapped =>
            /\ \A h \in Start .. done : h \in batch.seen \ batch.failed
            /\ done + 1 \in Batch => done + 1 \notin batch.seen \ batch.failed
  BY CompletedOf DEF CallsInv
<1>2. /\ batch.seen = calls \cap Batch /\ batch.failed = failedCalls \cap Batch
      /\ batch.unmapped <=> \E h \in calls : Astray(h)
  BY DEF CallsInv
<1>3. Start \in Int /\ End \in Int
  BY RangeAssumption
<1>4. Obstacles = {h \in Batch : h \notin calls \/ h \in failedCalls}
  BY DEF Obstacles, Batch
<1> HIDE DEF done
<1>5. CASE \E h \in calls : Astray(h)
  BY <1>1, <1>2, <1>5 DEF CompletesBelowLowestObstacle, done
<1>6. CASE ~ \E h \in calls : Astray(h)
  <2>1. /\ \A h \in Start .. done : h \in batch.seen \ batch.failed
        /\ done + 1 \in Batch => done + 1 \notin batch.seen \ batch.failed
    BY <1>1, <1>2, <1>6
  <2>2. done + 1 \in Obstacles \cup {End + 1}
    <3>1. done + 1 \in Batch \/ done + 1 = End + 1
      BY <1>1, <1>3 DEF Batch
    <3> QED  BY <1>2, <1>4, <2>1, <3>1
  <2>3. ASSUME NEW h \in Obstacles PROVE done < h
    <3>1. h \in Batch /\ h \notin batch.seen \ batch.failed
      BY <1>2, <1>4
    <3>2. h \notin Start .. done
      BY <2>1, <3>1
    <3> QED  BY <1>1, <1>3, <3>1, <3>2 DEF Batch
  <2> QED  BY <1>6, <2>2, <2>3 DEF CompletesBelowLowestObstacle, done
<1> QED  BY <1>5, <1>6

(* For every batch and whatever heights the summaries carry, in whatever   *)
(* order: last_completed_height is just below the lowest height that holds *)
(* back the cursor, or nothing of the batch when a summary is astray.      *)
THEOREM CompletesBelowObstacle == CallsSpec => []CompletesBelowLowestObstacle
BY InitCallsInv, NextCallsInv, CallsInvCompletes, PTL DEF CallsSpec

(* A call of mark_failed takes back its height and all above it, and can   *)
(* only take back.                                                         *)
THEOREM FailureTakesBack == CallsSpec => FailureHoldsCursor
<1> DEFINE Held == \A h \in Reported :
              Failed(h) => /\ LastCompletedHeight(batch') <= LastCompletedHeight(batch)
                           /\ ~ Astray(h) => LastCompletedHeight(batch') < h
<1>1. ASSUME CallsInv, CallsInv' PROVE Held
  <2> SUFFICES ASSUME NEW h \in Reported, Failed(h)
               PROVE  /\ LastCompletedHeight(batch') <= LastCompletedHeight(batch)
                      /\ ~ Astray(h) => LastCompletedHeight(batch') < h
    OBVIOUS
  <2> DEFINE before == LastCompletedHeight(batch)
             after == LastCompletedHeight(batch')
  <2>1. /\ before \in Int /\ Start - 1 <= before /\ before <= End
        /\ batch.unmapped => before = Start - 1
        /\ ~ batch.unmapped =>
              (before + 1 \in Batch => before + 1 \notin batch.seen \ batch.failed)
    BY <1>1, CompletedOf DEF CallsInv
  <2>2. /\ after \in Int /\ Start - 1 <= after /\ after <= End
        /\ batch'.unmapped => after = Start - 1
        /\ ~ batch'.unmapped =>
              \A g \in Start .. after : g \in batch'.seen \ batch'.failed
    BY <1>1, CompletedOf DEF CallsInv
  <2>3. /\ batch'.seen = batch.seen \cup ({h} \cap Batch)
        /\ batch'.failed = batch.failed \cup ({h} \cap Batch)
        /\ batch'.unmapped = (batch.unmapped \/ Astray(h))
    BY <1>1, Marks DEF Failed, CallsInv
  <2>4. batch'.unmapped \in BOOLEAN /\ Start \in Int /\ End \in Int
    BY <1>1, RangeAssumption DEF CallsInv, ProgressOf
  <2> HIDE DEF before, after
  <2>5. CASE batch'.unmapped
    <3>1. after <= before
      BY <2>1, <2>2, <2>5
    <3>2. ~ Astray(h) => after < h
      BY <2>2, <2>4, <2>5 DEF Astray
    <3> QED  BY <3>1, <3>2 DEF before, after
  <2>6. CASE ~ batch'.unmapped
    <3>1. ~ batch.unmapped /\ h \in Batch
      BY <2>3, <2>6 DEF Astray, Batch
    <3>2. \A g \in Start .. after : g \in batch'.seen \ batch'.failed
      BY <2>2, <2>6
    <3>3. h \notin Start .. after
      BY <2>3, <3>1, <3>2
    <3>4. after < h
      BY <2>2, <2>4, <3>1, <3>3 DEF Batch
    <3>5. ~ (before < after)
      <4> SUFFICES ASSUME before < after PROVE FALSE
        OBVIOUS
      <4>1. before + 1 \in Start .. after /\ before + 1 \in Batch /\ before + 1 # h
        BY <2>1, <2>2, <2>4, <3>4 DEF Batch
      <4>2. before + 1 \in batch'.seen \ batch'.failed
        BY <3>2, <4>1
      <4>3. before + 1 \in batch.seen \ batch.failed
        BY <2>3, <4>1, <4>2
      <4> QED  BY <2>1, <3>1, <4>1, <4>3
    <3> QED  BY <2>1, <2>2, <3>4, <3>5 DEF before, after
  <2> QED  BY <2>5, <2>6
<1>2. CallsInv /\ CallsInv' => [Held]_callVars
  BY <1>1
<1> QED  BY <1>2, InitCallsInv, NextCallsInv, PTL DEF CallsSpec, FailureHoldsCursor

(* The progress the loop still has before it when it has completed c.      *)
Remaining(p, c) ==
  [start |-> c + 1, end |-> p.end, seen |-> p.seen, failed |-> p.failed, unmapped |-> FALSE]
StopsAt(p, c) == c + 1 > p.end \/ c + 1 \notin p.seen \/ c + 1 \in p.failed
IsLoop(p, f) ==
  f = [c \in p.start - 1 .. p.end |-> IF StopsAt(p, c) THEN c ELSE f[c + 1]]

(* The loop completes a height more just when that height succeeded: what  *)
(* is completed from one height on is completed from the next on.          *)
LEMMA RemainingCompletes ==
  ASSUME NEW p, p.start \in Nat, p.end \in Int, NEW c \in p.start - 1 .. p.end
  PROVE  /\ LastCompletedHeight(Remaining(p, c)) \in c .. p.end
         /\ IF StopsAt(p, c) THEN LastCompletedHeight(Remaining(p, c)) = c
            ELSE /\ c + 1 \in p.start - 1 .. p.end
                 /\ LastCompletedHeight(Remaining(p, c))
                      = LastCompletedHeight(Remaining(p, c + 1))
<1> DEFINE q == Remaining(p, c)
           r == Remaining(p, c + 1)
<1>1. /\ q.start = c + 1 /\ q.end = p.end /\ q.unmapped = FALSE /\ q.seen = p.seen
      /\ q.failed = p.failed
      /\ r.start = (c + 1) + 1 /\ r.end = p.end /\ r.unmapped = FALSE /\ r.seen = p.seen
      /\ r.failed = p.failed
  BY DEF Remaining
<1> HIDE DEF q, r
<1>2. c \in Int /\ c + 1 \in Nat /\ (c + 1) + 1 \in Nat /\ (c + 1) - 1 = c
      /\ ((c + 1) + 1) - 1 = c + 1
  OBVIOUS
<1>3. /\ IsLastCompleted(q, LastCompletedHeight(q))
      /\ LastCompletedHeight(q) \in {c} \cup (c + 1 .. p.end)
      /\ \A d : IsLastCompleted(q, d) => d = LastCompletedHeight(q)
  BY <1>1, <1>2, LastCompletedWellDefined
<1>4. LastCompletedHeight(q) \in c .. p.end
  BY <1>2, <1>3
<1>5. CASE StopsAt(p, c)
  <2>1. IsLastCompleted(q, c)
    BY <1>1, <1>2, <1>5 DEF IsLastCompleted, Succeeded, StopsAt
  <2> QED  BY <1>3, <1>4, <1>5, <2>1 DEF q
<1>6. CASE ~ StopsAt(p, c)
  <2>1. c + 1 <= p.end /\ c + 1 \in p.seen \ p.failed
    BY <1>2, <1>6 DEF StopsAt
  <2>2. /\ IsLastCompleted(r, LastCompletedHeight(r))
        /\ LastCompletedHeight(r) \in {c + 1} \cup ((c + 1) + 1 .. p.end)
    BY <1>1, <1>2, LastCompletedWellDefined
  <2> DEFINE d == LastCompletedHeight(r)
  <2> HIDE DEF d
  <2>3. d \in Int /\ c + 1 <= d /\ d <= p.end
    BY <1>2, <2>1, <2>2 DEF d
  <2>4. /\ \A h \in (c + 1) + 1 .. d : h \in p.seen \ p.failed
        /\ d + 1 \in (c + 1) + 1 .. p.end => d + 1 \notin p.seen \ p.failed
    BY <1>1, <2>2 DEF d, IsLastCompleted, Succeeded
  <2>5. \A h \in c + 1 .. d : h \in p.seen \ p.failed
    <3> TAKE h \in c + 1 .. d
    <3>1. h = c + 1 \/ h \in (c + 1) + 1 .. d
      BY <1>2, <2>3
    <3> QED  BY <2>1, <2>4, <3>1
  <2>6. d + 1 \in c + 1 .. p.end => d + 1 \notin p.seen \ p.failed
    BY <1>2, <2>3, <2>4
  <2>7. d \in {c} \cup (c + 1 .. p.end)
    BY <1>2, <2>3
  <2>8. IsLastCompleted(q, d)
    BY <1>1, <1>2, <2>5, <2>6, <2>7 DEF IsLastCompleted, Succeeded
  <2>9. c + 1 \in p.start - 1 .. p.end
    BY <2>1
  <2> QED  BY <1>3, <1>4, <1>6, <2>8, <2>9 DEF q, r, d
<1> QED  BY <1>5, <1>6

(* The loop as it is written: there is one function of its kind, and it    *)
(* ends where the closed form says.                                        *)
LEMMA LoopCompletes ==
  ASSUME NEW p, p.start \in Nat, p.end \in Int, p.start <= p.end + 1, p.unmapped \in BOOLEAN
  PROVE  Loop(p) = LastCompletedHeight(p)
<1> DEFINE D == p.start - 1 .. p.end
           to(c) == LastCompletedHeight(Remaining(p, c))
           g == [c \in D |-> to(c)]
<1>1. \A c \in D : /\ to(c) \in c .. p.end
                   /\ IF StopsAt(p, c) THEN to(c) = c ELSE c + 1 \in D /\ to(c) = to(c + 1)
  BY RemainingCompletes
<1> HIDE DEF to, D
<1>2. IsLoop(p, g)
  <2>1. \A c \in D : g[c] = IF StopsAt(p, c) THEN c ELSE g[c + 1]
    BY <1>1
  <2> QED  BY <2>1 DEF IsLoop, D
<1>3. ASSUME NEW f, IsLoop(p, f)
      PROVE  \A c \in D : f[c] = to(c)
  <2> DEFINE Bad == {c \in D : f[c] # to(c)}
  <2> SUFFICES ASSUME Bad # {} PROVE FALSE
    OBVIOUS
  <2>1. Bad \in SUBSET Int /\ \A c \in Bad : c <= p.end
    BY DEF D
  <2>2. PICK c \in Bad : \A e \in Bad : e <= c
    <3> HIDE DEF Bad
    <3> QED  BY <2>1, GreatestOf
  <2>3. c \in D /\ f[c] # to(c) /\ c \in Int
    BY <2>1, <2>2
  <2>4. f[c] = IF StopsAt(p, c) THEN c ELSE f[c + 1]
    BY <1>3, <2>3 DEF IsLoop, D
  <2>5. ~ StopsAt(p, c) /\ c + 1 \in D /\ to(c) = to(c + 1)
    BY <1>1, <2>3, <2>4
  <2>6. c + 1 \notin Bad
    <3> HIDE DEF Bad
    <3> QED  BY <2>2, <2>3
  <2> QED  BY <2>3, <2>4, <2>5, <2>6
<1>4. p.start - 1 \in D
  BY DEF D
<1>5. (CHOOSE f : IsLoop(p, f))[p.start - 1] = to(p.start - 1)
  BY <1>2, <1>3, <1>4
<1>6. CASE p.unmapped
  BY <1>6, LastCompletedWellDefined DEF Loop, IsLastCompleted
<1>7. CASE ~ p.unmapped
  <2>1. Loop(p) = to(p.start - 1)
    BY <1>5, <1>7 DEF Loop, IsLoop, StopsAt
  <2> DEFINE q == Remaining(p, p.start - 1)
  <2>2. q.start = p.start /\ q.end = p.end /\ q.unmapped = FALSE /\ q.seen = p.seen
        /\ q.failed = p.failed
    BY DEF Remaining
  <2> HIDE DEF q
  <2>3. IsLastCompleted(q, LastCompletedHeight(q))
    BY <2>2, LastCompletedWellDefined
  <2>4. IsLastCompleted(p, LastCompletedHeight(q))
    BY <1>7, <2>2, <2>3 DEF IsLastCompleted, Succeeded
  <2> QED  BY <2>1, <2>4, LastCompletedWellDefined DEF to, q
<1> QED  BY <1>6, <1>7

(* For every batch and every order of calls the closed form is what the    *)
(* loop of the source returns.                                             *)
THEOREM LoopIsClosedForm == CallsSpec => []ClosedFormIsLoop
<1>1. CallsInv => ClosedFormIsLoop
  <2> SUFFICES ASSUME CallsInv PROVE LastCompletedHeight(batch) = Loop(batch)
    BY DEF ClosedFormIsLoop
  <2>1. batch.start = Start /\ batch.end = End /\ batch.unmapped \in BOOLEAN
    BY DEF CallsInv, ProgressOf
  <2> QED  BY <2>1, RangeAssumption, LoopCompletes
<1> QED  BY <1>1, InitCallsInv, NextCallsInv, PTL DEF CallsSpec
----------------------------------------------------------------------------
(* The synchronisation.                                                    *)

LateJustified == LateReject \subseteq Justified

(* Marking a height as seen or failed changes only the bookkeeping of that *)
(* height, and a failed height no longer counts as seen.                   *)
LEMMA MarkEffect ==
  ASSUME NEW s \in Nat, NEW e \in Int, NEW p \in ProgressOf(s, e), NEW h
  PROVE  /\ MarkSeen(p, h).start = p.start /\ MarkSeen(p, h).end = p.end
         /\ MarkFailed(p, h).start = p.start /\ MarkFailed(p, h).end = p.end
         /\ MarkSeen(p, h) \in ProgressOf(s, e) /\ MarkFailed(p, h) \in ProgressOf(s, e)
         /\ MarkSeen(p, h).failed = p.failed
         /\ MarkSeen(p, h).seen \subseteq p.seen \cup {h}
         /\ p.failed \subseteq MarkFailed(p, h).failed
         /\ Contains(p, h) => h \in MarkFailed(p, h).failed
         /\ MarkFailed(p, h).seen \ MarkFailed(p, h).failed \subseteq p.seen \ p.failed
         /\ \A g : g \in MarkFailed(p, h).seen \ MarkFailed(p, h).failed => g # h
BY DEF ProgressOf, MarkSeen, MarkFailed, Contains

(* The initial state.                                                      *)
LEMMA InitIndInv == Init => IndInv
BY BlockAssumption
   DEF Init, IndInv, TypeOK, NoBatch, BlockBatchProgress, ProgressOf, ReadsHold, BatchIsOpen,
       CurrentBlock, Accounted, SeenIsHeld, InBlocks, InBatchRange, CursorComplete

(* The node: blocks appear and are finalized, nothing the indexer has read *)
(* becomes false.                                                          *)
LEMMA NodeIndInv ==
  ASSUME IndInv, (\E b \in Block : Appear(b)) \/ Finalize
  PROVE  IndInv'
<1> USE DEF Appear, Finalize, db, local, IndInv
<1>1. TypeOK'
  BY DEF TypeOK
<1>2. (returned \subseteq dag)' /\ (recorded \subseteq stored)'
  OBVIOUS
<1>3. ReadsHold' /\ BatchIsOpen' /\ CurrentBlock'
  BY DEF TypeOK, ReadsHold, BatchIsOpen, CurrentBlock, InBlocks, InBatchRange
<1>4. Accounted' /\ SeenIsHeld' /\ CursorComplete'
  BY DEF Accounted, SeenIsHeld, CursorComplete, InBlocks, InBatchRange, AtHeight, Contains
<1> QED  BY <1>1, <1>2, <1>3, <1>4

(* The coroutine returns or dies: with its locals go all claims on them.   *)
LEMMA LeaveIndInv ==
  ASSUME IndInv, NEW at \in {"rest", "down"}, Leave(at), UNCHANGED <<node, stored, recorded, returned>>,
         cursor' \in Nat \cup {-1}, CursorComplete'
  PROVE  IndInv'
BY BlockAssumption
   DEF IndInv, TypeOK, Leave, NoBatch, BlockBatchProgress, ProgressOf, ReadsHold, BatchIsOpen,
       CurrentBlock, Accounted, SeenIsHeld, InBlocks, InBatchRange, node

(* A fresh database has a cursor below the start height.                   *)
LEMMA FreshCursor ==
  ASSUME IndInv, stored = {}
  PROVE  cursor < StartFrom
BY BlockAssumption DEF IndInv, TypeOK, CursorComplete, AtHeight

(* Reading the cursor and the tip.                                         *)
LEMMA ReadIndInv ==
  ASSUME IndInv, ReadCursor \/ (ReadTip /\ pc' = "count")
  PROVE  IndInv'
<1> USE DEF IndInv, ReadCursor, ReadTip, Leave, node, db
<1>1. TypeOK'
  BY DEF TypeOK
<1>2. ReadsHold' /\ BatchIsOpen' /\ CurrentBlock' /\ Accounted' /\ SeenIsHeld'
  BY DEF TypeOK, ReadsHold, BatchIsOpen, CurrentBlock, Accounted, SeenIsHeld, InBlocks,
         InBatchRange
<1>3. (returned \subseteq dag)' /\ (recorded \subseteq stored)' /\ CursorComplete'
  BY DEF CursorComplete, AtHeight
<1> QED  BY <1>1, <1>2, <1>3

(* The batch starts after the last complete height.                        *)
LEMMA CountIndInv ==
  ASSUME IndInv, CountBlocks
  PROVE  IndInv'
<1> USE DEF IndInv, CountBlocks, node, db
<1> DEFINE s == BatchStart
<1> DEFINE e == BatchEnd(BatchStart)
<1>1. last = cursor /\ latest <= tip
  BY DEF ReadsHold
<1>2. s \in Nat /\ s >= StartFrom /\ s > cursor /\ (s = StartFrom \/ s = cursor + 1)
  BY <1>1, BlockAssumption, FreshCursor DEF BatchStart, MaxOf, TypeOK
<1>3. e \in Int /\ e <= tip
  BY <1>1, <1>2, BlockAssumption DEF BatchEnd, MinOf, TypeOK
<1> HIDE DEF s, e
<1>4. /\ progress' = BlockBatchProgress(s, e)
      /\ progress'.start = s /\ progress'.end = e /\ progress'.seen = {}
      /\ progress' \in ProgressOf(s, e)
  BY DEF s, e, BlockBatchProgress, ProgressOf
<1>5. TypeOK'
  BY <1>2, <1>3, <1>4 DEF TypeOK
<1>6. ReadsHold' /\ BatchIsOpen' /\ CurrentBlock' /\ Accounted' /\ SeenIsHeld'
  BY <1>1, <1>2, <1>4
     DEF ReadsHold, BatchIsOpen, CurrentBlock, Accounted, SeenIsHeld, InBlocks, InBatchRange
<1>7. (returned \subseteq dag)' /\ (recorded \subseteq stored)' /\ CursorComplete'
  BY DEF CursorComplete, AtHeight
<1> QED  BY <1>5, <1>6, <1>7

(* What the node answers lies above the cursor, so no complete height gets *)
(* a block more.                                                           *)
LEMMA FetchKeepsComplete ==
  ASSUME IndInv, Fetch
  PROVE  CursorComplete'
BY DEF IndInv, Fetch, InBatch, CursorComplete, AtHeight, BatchIsOpen, InBatchRange, Contains,
       TypeOK, node, db

(* A batch begins: everything ever reported in its range is in the answer, *)
(* because a block never leaves the node.                                  *)
LEMMA FetchIndInv ==
  ASSUME IndInv, Fetch, pc' = "loop"
  PROVE  IndInv'
<1> USE DEF IndInv, node, db
<1>1. PICK extra \in SUBSET (Stray \cap dag) :
        /\ pc = "fetch" /\ pc' = "loop"
        /\ todo' = InBatch(dag) \cup extra
        /\ UNCHANGED <<last, latest, progress, block>>
  BY DEF Fetch, Leave
<1>2. returned' = returned \cup InBatch(dag) /\ UNCHANGED <<node, db>>
  BY DEF Fetch
<1>3. InBatch(dag) \subseteq dag
  BY DEF InBatch
<1>4. TypeOK'
  BY <1>1, <1>2, <1>3, BlockAssumption DEF TypeOK
<1>5. ReadsHold' /\ BatchIsOpen' /\ CurrentBlock'
  BY <1>1, <1>2 DEF ReadsHold, BatchIsOpen, CurrentBlock, InBlocks, InBatchRange
<1>6. Accounted'
  BY <1>1, <1>2, <1>3 DEF Accounted, InBatch, Contains
<1>7. SeenIsHeld'
  BY <1>1, <1>2 DEF SeenIsHeld, InBatchRange
<1>8. (returned \subseteq dag)' /\ (recorded \subseteq stored)'
  BY <1>2, <1>3
<1> QED  BY <1>4, <1>5, <1>6, <1>7, <1>8, FetchKeepsComplete

(* A summary is taken: its block is the one in process, its height seen.   *)
LEMMA TakeIndInv ==
  ASSUME IndInv, NEW b \in Block, TakeBlock(b)
  PROVE  IndInv'
<1> USE DEF IndInv, TakeBlock, node, db
<1> DEFINE s == progress.start
<1> DEFINE e == progress.end
<1>1. s \in Nat /\ e \in Int /\ progress \in ProgressOf(s, e) /\ HeightOf[b] \in Nat
  BY BlockAssumption DEF TypeOK
<1>2. /\ progress'.start = s /\ progress'.end = e /\ progress' \in ProgressOf(s, e)
      /\ progress'.failed = progress.failed
      /\ progress'.seen \subseteq progress.seen \cup {HeightOf[b]}
  BY <1>1, MarkEffect
<1> HIDE DEF s, e
<1>3. TypeOK'
  BY <1>1, <1>2 DEF TypeOK, s, e
<1>4. ReadsHold' /\ BatchIsOpen' /\ CurrentBlock'
  BY <1>2 DEF ReadsHold, BatchIsOpen, CurrentBlock, InBlocks, InBatchRange, s
<1>5. Accounted'
  <2>1. block = NoBlock
    BY DEF CurrentBlock
  <2>2. ASSUME NEW c \in returned, Contains(progress, HeightOf[c])
        PROVE  c \in stored \/ c \in todo' \/ c = b \/ HeightOf[c] \in progress.failed
    BY <2>1, <2>2, BlockAssumption DEF Accounted, InBlocks, TypeOK
  <2> QED  BY <1>2, <2>2 DEF Accounted, Contains, s, e
<1>6. SeenIsHeld'
  <2>1. block = NoBlock
    BY DEF CurrentBlock
  <2>2. ASSUME NEW h \in progress.seen \ progress.failed
        PROVE  \E c \in Block : HeightOf[c] = h /\ (c \in stored \/ c = b)
    BY <2>1, BlockAssumption DEF SeenIsHeld, InBatchRange, InBlocks
  <2> QED  BY <1>2, <2>2 DEF SeenIsHeld
<1>7. (returned \subseteq dag)' /\ (recorded \subseteq stored)' /\ CursorComplete'
  BY DEF CursorComplete, AtHeight
<1> QED  BY <1>3, <1>4, <1>5, <1>6, <1>7

(* The block in process is done: as its row is stored, the task may turn   *)
(* to the next summary or to the second transaction.                       *)
LEMMA StoredIndInv ==
  ASSUME IndInv, pc \in {"block", "justify"}, NextBlock \/ AfterCommit,
         stored \subseteq stored', stored' \subseteq Block, block \in stored',
         recorded' \subseteq stored',
         UNCHANGED <<node, cursor, returned>>
  PROVE  IndInv'
<1> USE DEF IndInv, node
<1>1. /\ \/ pc' = "justify" /\ block' = block
         \/ pc' = "loop" /\ block' = NoBlock
      /\ UNCHANGED <<last, latest, progress, todo>>
  BY DEF NextBlock, AfterCommit
<1>2. TypeOK'
  BY <1>1 DEF TypeOK
<1>3. ReadsHold' /\ BatchIsOpen' /\ CurrentBlock'
  BY <1>1 DEF ReadsHold, BatchIsOpen, CurrentBlock, InBlocks, InBatchRange
<1>4. Accounted'
  BY <1>1 DEF Accounted, InBlocks, Contains
<1>5. SeenIsHeld'
  BY <1>1 DEF SeenIsHeld, InBatchRange, InBlocks
<1>6. CursorComplete'
  BY DEF CursorComplete, AtHeight
<1> QED  BY <1>2, <1>3, <1>4, <1>5, <1>6

(* A commit that rolled back stores nothing; its block stays in process    *)
(* until the second transaction has failed.                                *)
LEMMA RollbackIndInv ==
  ASSUME IndInv, LateJustified, CommitRollsBack
  PROVE  IndInv'
<1> USE DEF IndInv, node, db
<1>1. /\ pc = "block" /\ pc' = "justify" /\ UNCHANGED <<last, latest, progress, todo, block>>
      /\ UNCHANGED <<node, db, returned>>
  BY DEF CommitRollsBack, AfterCommit, LateJustified
<1>2. TypeOK'
  BY <1>1 DEF TypeOK
<1>3. ReadsHold' /\ BatchIsOpen' /\ CurrentBlock' /\ Accounted' /\ SeenIsHeld'
  BY <1>1 DEF ReadsHold, BatchIsOpen, CurrentBlock, Accounted, SeenIsHeld, InBlocks,
              InBatchRange, Contains
<1>4. CursorComplete'
  BY <1>1 DEF CursorComplete, AtHeight
<1> QED  BY <1>1, <1>2, <1>3, <1>4

(* A failed block takes its height out of what counts as seen.             *)
LEMMA FailIndInv ==
  ASSUME IndInv, pc \in {"block", "justify"}, MarkBlockFailed
  PROVE  IndInv'
<1> USE DEF IndInv, MarkBlockFailed, node, db
<1> DEFINE s == progress.start
<1> DEFINE e == progress.end
<1> DEFINE k == HeightOf[block]
<1>1. /\ s \in Nat /\ e \in Int /\ progress \in ProgressOf(s, e)
      /\ block \in Block /\ k \in Nat
  BY BlockAssumption DEF TypeOK, CurrentBlock
<1>2. /\ progress'.start = s /\ progress'.end = e /\ progress' \in ProgressOf(s, e)
      /\ progress.failed \subseteq progress'.failed
      /\ Contains(progress, k) => k \in progress'.failed
      /\ progress'.seen \ progress'.failed \subseteq progress.seen \ progress.failed
      /\ \A g \in progress'.seen \ progress'.failed : g # k
  BY <1>1, MarkEffect
<1> HIDE DEF s, e, k
<1>3. TypeOK'
  BY <1>1, <1>2 DEF TypeOK, s, e
<1>4. ReadsHold' /\ BatchIsOpen' /\ CurrentBlock'
  BY <1>2 DEF ReadsHold, BatchIsOpen, CurrentBlock, InBlocks, InBatchRange, s
<1>5. Accounted'
  BY <1>2 DEF Accounted, InBlocks, Contains, s, e, k
<1>6. SeenIsHeld'
  <2> SUFFICES ASSUME NEW h \in progress'.seen \ progress'.failed
               PROVE  \E c \in Block : HeightOf[c] = h /\ c \in stored
    BY DEF SeenIsHeld
  <2>1. PICK c \in Block : HeightOf[c] = h /\ (c \in stored \/ c = block)
    BY <1>2 DEF SeenIsHeld, InBatchRange, InBlocks
  <2> QED  BY <1>2, <2>1 DEF k
<1>7. CursorComplete'
  BY DEF CursorComplete, AtHeight
<1> QED  BY <1>3, <1>4, <1>5, <1>6, <1>7

(* The cursor moves over the heights of the batch that succeeded: each was *)
(* seen and none of its siblings failed, so all of them are stored.        *)
LEMMA FinishKeepsComplete ==
  ASSUME IndInv, FinishBatch
  PROVE  /\ cursor' \in Nat \cup {-1}
         /\ cursor' = cursor \/ cursor' > cursor
         /\ CursorComplete'
<1> USE DEF IndInv
<1> DEFINE s == progress.start
<1> DEFINE c == LastCompletedHeight(progress)
<1>1. /\ pc = "loop" /\ todo = {} /\ UNCHANGED <<stored, returned>>
      /\ cursor' = IF c >= s THEN c ELSE cursor
  BY DEF FinishBatch, MoveCursor
<1>2. s \in Nat /\ progress.end \in Int /\ progress.unmapped \in BOOLEAN
  BY DEF TypeOK, ProgressOf
<1>3. IsLastCompleted(progress, c) /\ c \in {s - 1} \cup (s .. progress.end)
  BY <1>2, LastCompletedWellDefined
<1> HIDE DEF c
<1>4. s > cursor /\ (s = StartFrom \/ s = cursor + 1) /\ cursor \in Nat \cup {-1}
  BY <1>1 DEF BatchIsOpen, InBatchRange, InBlocks, TypeOK
<1>5. c \in Int /\ (c >= s => c \in Nat)
  BY <1>2, <1>3
<1>6. ASSUME NEW h \in StartFrom .. cursor'
      PROVE  AtHeight(stored, h) # {} /\ AtHeight(returned, h) \subseteq stored
  <2>1. CASE h <= cursor
    <3>1. h \in StartFrom .. cursor
      BY <2>1, <1>4
    <3> QED  BY <3>1 DEF CursorComplete
  <2>2. CASE h > cursor
    <3>1. c >= s /\ h \in s .. c
      BY <1>1, <1>2, <1>4, <1>5, <2>2, BlockAssumption
    <3>2. h \in progress.seen \ progress.failed /\ h \in s .. progress.end
      BY <1>2, <1>3, <3>1 DEF IsLastCompleted, Succeeded
    <3>3. block = NoBlock
      BY <1>1 DEF CurrentBlock
    <3>4. AtHeight(stored, h) # {}
      BY <1>1, <3>2, <3>3, BlockAssumption DEF SeenIsHeld, InBatchRange, InBlocks, AtHeight
    <3>5. AtHeight(returned, h) \subseteq stored
      BY <1>1, <3>2, <3>3, BlockAssumption
         DEF Accounted, InBlocks, AtHeight, Contains, TypeOK
    <3> QED  BY <3>4, <3>5
  <2> QED  BY <2>1, <2>2, <1>1, <1>4, <1>5, BlockAssumption
<1>7. CursorComplete'
  BY <1>1, <1>6 DEF CursorComplete, AtHeight
<1>8. cursor' \in Nat \cup {-1} /\ (cursor' = cursor \/ cursor' > cursor)
  BY <1>1, <1>2, <1>4, <1>5
<1> QED  BY <1>7, <1>8

(* Every step keeps the invariant.                                         *)
LEMMA NextIndInv ==
  ASSUME IndInv, LateJustified, [Next]_vars
  PROVE  IndInv'
<1>1. CASE (\E b \in Block : Appear(b)) \/ Finalize
  BY <1>1, NodeIndInv
<1>2. CASE ReadCursor
  BY <1>2, ReadIndInv
<1>3. CASE ReadTip
  <2>1. CASE pc' = "count"
    BY <1>3, <2>1, ReadIndInv
  <2>2. CASE Leave("rest")
    BY <1>3, <2>2, LeaveIndInv DEF ReadTip, node, db, IndInv, TypeOK, CursorComplete, AtHeight
  <2> QED  BY <1>3, <2>1, <2>2 DEF ReadTip
<1>4. CASE CountBlocks
  BY <1>4, CountIndInv
<1>5. CASE Fetch
  <2>1. CASE pc' = "loop"
    BY <1>5, <2>1, FetchIndInv
  <2>2. CASE Leave("rest") /\ InBatch(dag) = {}
    BY <1>5, <2>2, LeaveIndInv, FetchKeepsComplete DEF Fetch, node, db, IndInv, TypeOK
  <2> QED  BY <1>5, <2>1, <2>2 DEF Fetch
<1>6. CASE \E b \in Block : TakeBlock(b)
  BY <1>6, TakeIndInv
<1>7. CASE SkipIndexed
  BY <1>7, StoredIndInv DEF SkipIndexed, node, db, IndInv, TypeOK
<1>8. CASE CommitBlock
  <2>1. block \in Block
    BY <1>8 DEF CommitBlock, IndInv, CurrentBlock
  <2> QED  BY <1>8, <2>1, StoredIndInv DEF CommitBlock, node, IndInv, TypeOK
<1>9. CASE WriteValidators
  BY <1>9, StoredIndInv DEF WriteValidators, node, IndInv, TypeOK
<1>10. CASE CommitRollsBack
  BY <1>10, RollbackIndInv
<1>11. CASE RefuseBlock \/ FailBlock
  BY <1>11, FailIndInv DEF RefuseBlock, Refused, FailBlock
<1>12. CASE FinishBatch
  BY <1>12, FinishKeepsComplete, LeaveIndInv DEF FinishBatch, node
<1>13. CASE Abandon \/ Crash \/ Restart
  BY <1>13, LeaveIndInv
     DEF Abandon, Crash, Restart, node, db, IndInv, TypeOK, CursorComplete, AtHeight
<1>14. CASE UNCHANGED vars
  BY <1>14
     DEF vars, node, db, local, IndInv, TypeOK, ReadsHold, BatchIsOpen, CurrentBlock, Accounted,
         SeenIsHeld, InBlocks, InBatchRange, CursorComplete, AtHeight, Contains
<1> QED
  BY <1>1, <1>2, <1>3, <1>4, <1>5, <1>6, <1>7, <1>8, <1>9, <1>10, <1>11, <1>12, <1>13, <1>14
     DEF Next, Indexer, Fault

(* The inductive invariant holds in every behaviour.                       *)
THEOREM Invariance == LateJustified => (Spec => []IndInv)
<1> SUFFICES ASSUME LateJustified PROVE Spec => []IndInv
  OBVIOUS
<1>1. Init => IndInv
  BY InitIndInv
<1>2. IndInv /\ [Next]_vars => IndInv'
  BY NextIndInv
<1> QED  BY <1>1, <1>2, PTL DEF Spec

(* Every variable keeps its type, and a batch ends by the tip.             *)
THEOREM TypeCorrect == LateJustified => (Spec => []TypeOK)
BY Invariance, PTL DEF IndInv

(* The cursor stands on complete heights only, for every DAG, every batch  *)
(* size and every sequence of failures, crashes and late siblings.         *)
THEOREM CursorIsComplete == LateJustified => (Spec => []CursorComplete)
BY Invariance, PTL DEF IndInv

(* Only the end of a batch moves the cursor, and only upwards.             *)
LEMMA CursorStep ==
  ASSUME IndInv, [Next]_vars
  PROVE  cursor' >= cursor /\ (cursor' # cursor => FinishBatch)
<1>1. cursor \in Int
  BY DEF IndInv, TypeOK
<1>2. CASE FinishBatch
  BY <1>1, <1>2, FinishKeepsComplete
<1>3. CASE ~ FinishBatch
  <2>1. cursor' = cursor
    BY <1>3
       DEF Next, Indexer, Fault, Appear, Finalize, ReadCursor, ReadTip, CountBlocks, Fetch,
           TakeBlock, SkipIndexed, CommitBlock, RefuseBlock, WriteValidators, CommitRollsBack,
           FailBlock, MarkBlockFailed, Abandon, Crash, Restart, vars, db
  <2> QED  BY <1>1, <2>1
<1> QED  BY <1>2, <1>3

(* The cursor never moves back.                                            *)
THEOREM CursorMonotone == LateJustified => (Spec => CursorNeverBack)
<1> SUFFICES ASSUME LateJustified PROVE Spec => CursorNeverBack
  OBVIOUS
<1>1. IndInv /\ [Next]_vars => [cursor' >= cursor]_vars
  BY CursorStep
<1> QED  BY <1>1, Invariance, PTL DEF Spec, CursorNeverBack
----------------------------------------------------------------------------
(* What the answer of the node adds lies above the cursor.                 *)
LEMMA FetchLearns ==
  ASSUME IndInv, Fetch
  PROVE  Chain!Learn(InBatch(dag)) /\ InBatch(dag) \subseteq Block
<1>1. \A b \in InBatch(dag) : HeightOf[b] > cursor
  BY BlockAssumption
     DEF IndInv, TypeOK, Fetch, InBatch, Contains, BatchIsOpen, InBatchRange
<1>2. InBatch(dag) \subseteq Block
  BY DEF IndInv, TypeOK, InBatch
<1> QED  BY <1>1, <1>2 DEF Fetch, Chain!Learn, db

(* A moved cursor stands on a complete height.                             *)
LEMMA FinishAdvances ==
  ASSUME IndInv, FinishBatch, cursor' # cursor
  PROVE  Chain!Advance
<1>1. cursor' \in Nat /\ cursor' > cursor /\ CursorComplete'
  BY FinishKeepsComplete DEF IndInv, TypeOK
<1>2. UNCHANGED <<stored, returned>>
  BY DEF FinishBatch
<1>3. Chain!CompleteUpTo(cursor')
  BY <1>1, <1>2 DEF CursorComplete, AtHeight, Chain!CompleteUpTo, Chain!AtHeight
<1> QED  BY <1>1, <1>2, <1>3 DEF Chain!Advance

(* Every step of the indexer is a step of the abstract chain or none.      *)
LEMMA StepRefines ==
  ASSUME IndInv, [Next]_vars
  PROVE  [Chain!Next]_Chain!vars
<1>1. CASE Fetch
  BY <1>1, FetchLearns DEF Chain!Next
<1>2. CASE CommitBlock
  <2>1. block \in Block /\ Chain!Index(block)
    BY <1>2 DEF CommitBlock, Chain!Index, IndInv, CurrentBlock
  <2> QED  BY <2>1 DEF Chain!Next
<1>3. CASE FinishBatch
  <2>1. CASE cursor' = cursor
    BY <1>3, <2>1 DEF FinishBatch, Chain!vars
  <2>2. CASE cursor' # cursor
    BY <1>3, <2>2, FinishAdvances DEF Chain!Next
  <2> QED  BY <2>1, <2>2
<1>4. CASE ~ (Fetch \/ CommitBlock \/ FinishBatch)
  BY <1>4
     DEF Next, Indexer, Fault, Appear, Finalize, ReadCursor, ReadTip, CountBlocks, TakeBlock,
         SkipIndexed, RefuseBlock, WriteValidators, CommitRollsBack, FailBlock, MarkBlockFailed,
         Abandon, Crash, Restart, vars, db, Chain!vars
<1> QED  BY <1>1, <1>2, <1>3, <1>4

(* BlockSync implements IndexedChain: to a reader of the database who      *)
(* looks at the blocks and the cursor only, the indexer is a chain that    *)
(* learns, indexes, and advances over complete heights.                    *)
THEOREM Refinement == LateJustified => (Spec => ImplementsChain)
<1> SUFFICES ASSUME LateJustified PROVE Spec => Chain!Spec
  BY DEF ImplementsChain
<1>1. Init => Chain!Init
  BY DEF Init, Chain!Init
<1>2. IndInv /\ [Next]_vars => [Chain!Next]_Chain!vars
  BY StepRefines
<1> QED  BY <1>1, <1>2, Invariance, PTL DEF Spec, Chain!Spec
----------------------------------------------------------------------------
(***************************************************************************)
(* The loop and the block writer.  Which block is in process is all that   *)
(* is needed of the loop; nothing is supposed of its data.                 *)
(***************************************************************************)
InProcess == CurrentBlock /\ todo \subseteq Block /\ dag \subseteq Block

(* The block in process is a block the node reported.                      *)
LEMMA NextInProcess == ASSUME InProcess, [Next]_vars PROVE InProcess'
<1> USE DEF InProcess, CurrentBlock
<1>1. CASE (\E b \in Block : Appear(b)) \/ Finalize \/ UNCHANGED vars
  BY <1>1 DEF Appear, Finalize, vars, node, local
<1>2. CASE ReadCursor \/ ReadTip \/ CountBlocks
  BY <1>2 DEF ReadCursor, ReadTip, CountBlocks, Leave, node
<1>3. CASE Fetch
  BY <1>3, BlockAssumption DEF Fetch, Leave, node, InBatch
<1>4. CASE \E b \in Block : TakeBlock(b)
  BY <1>4 DEF TakeBlock, node
<1>5. CASE SkipIndexed \/ CommitBlock \/ CommitRollsBack \/ WriteValidators
  BY <1>5 DEF SkipIndexed, CommitBlock, CommitRollsBack, WriteValidators, AfterCommit, NextBlock, node
<1>6. CASE RefuseBlock \/ FailBlock
  BY <1>6 DEF RefuseBlock, FailBlock, MarkBlockFailed, node
<1>7. CASE FinishBatch \/ Abandon \/ Crash \/ Restart
  BY <1>7 DEF FinishBatch, Abandon, Crash, Restart, Leave, node
<1> QED  BY <1>1, <1>2, <1>3, <1>4, <1>5, <1>6, <1>7 DEF Next, Indexer, Fault

(* Where the writer is, for a step that leaves its tables alone.           *)
LEMMA Unwritten ==
  ASSUME UNCHANGED <<stored, recorded, claimed>>, UNCHANGED <<pc, block>> \/ (~ Begun /\ ~ Begun')
  PROVE  UNCHANGED Writer!vars
BY DEF Writer!vars, Begun

LEMMA LeavesWriter ==
  ASSUME InProcess, UNCHANGED <<stored, recorded, claimed>>, ~ Begun'
  PROVE  [Writer!Next]_Writer!vars
<1>1. CASE Begun
  BY <1>1 DEF Begun, Writer!Next, Writer!GiveUp
<1>2. CASE ~ Begun
  BY <1>2, Unwritten
<1> QED  BY <1>1, <1>2

(* The steps with a block, one by one, are those of the writer.            *)
LEMMA WriterSteps ==
  ASSUME InProcess, NextClaims
  PROVE  [Writer!Next]_Writer!vars
<1> USE DEF InProcess, CurrentBlock
<1>1. CASE SkipIndexed
  <2>1. claimed' = claimed \cup {block} /\ block \in Block /\ block \in stored
    BY <1>1 DEF NextClaims, ReturnsFromBlock, SkipIndexed
  <2>2. ~ Begun /\ ~ Begun' /\ UNCHANGED <<stored, recorded>>
    BY <1>1 DEF SkipIndexed, NextBlock, Begun, db
  <2>3. Writer!SkipIndexed(block)
    BY <2>1, <2>2 DEF Writer!SkipIndexed
  <2> QED  BY <2>1, <2>3 DEF Writer!Next
<1>2. CASE WriteValidators
  <2>1. claimed' = claimed \cup {block}
    BY <1>2 DEF NextClaims, ReturnsFromBlock
  <2>2. Begun /\ ~ Begun'
    BY <1>2 DEF WriteValidators, NextBlock, Begun
  <2>3. Writer!WriteValidators
    BY <1>2, <2>1, <2>2 DEF WriteValidators, Begun, Writer!WriteValidators, Writer!Return
  <2> QED  BY <2>3 DEF Writer!Next
<1>3. CASE CommitBlock \/ CommitRollsBack
  <2>1. pc = "block" /\ block \notin stored /\ AfterCommit /\ UNCHANGED recorded /\ Begun
    BY <1>3 DEF CommitBlock, CommitRollsBack, Begun, db
  <2>2. ~ SkipIndexed /\ ~ WriteValidators
    BY <2>1 DEF SkipIndexed, WriteValidators
  <2>3. Writer!AfterCommit
    <3>1. CASE block \in Justified
      BY <1>3, <2>1, <2>2, <3>1
         DEF AfterCommit, Writer!AfterCommit, NextClaims, ReturnsFromBlock, Begun
    <3>2. CASE block \notin Justified
      <4>1. claimed' = claimed \cup {block}
        BY <1>3, <3>2 DEF NextClaims, ReturnsFromBlock
      <4>2. ~ Begun'
        BY <2>1, <3>2 DEF AfterCommit, NextBlock, Begun
      <4> QED  BY <2>1, <3>2, <4>1, <4>2 DEF Writer!AfterCommit, Writer!Return
    <3> QED  BY <3>1, <3>2
  <2>4. CASE CommitBlock
    BY <2>1, <2>3, <2>4 DEF CommitBlock, Writer!CommitBlock, Writer!Next
  <2>5. CASE CommitRollsBack
    BY <2>1, <2>3, <2>5 DEF CommitRollsBack, db, Writer!CommitRollsBack, Writer!Next
  <2> QED  BY <1>3, <2>4, <2>5
<1>4. CASE ~ (SkipIndexed \/ WriteValidators \/ CommitBlock \/ CommitRollsBack)
  <2>1. UNCHANGED claimed
    BY <1>4 DEF NextClaims, ReturnsFromBlock
  <2>2. CASE (\E b \in Block : Appear(b)) \/ Finalize
    <3>1. UNCHANGED <<stored, recorded, pc, block>>
      BY <2>2 DEF Appear, Finalize, db, local
    <3> QED  BY <2>1, <3>1, Unwritten
  <2>3. CASE ReadCursor \/ ReadTip \/ CountBlocks \/ Fetch
    BY <2>1, <2>3, LeavesWriter
       DEF ReadCursor, ReadTip, CountBlocks, Fetch, Leave, db, Begun
  <2>4. CASE \E b \in Block : TakeBlock(b)
    <3> PICK b \in Block : TakeBlock(b)
      BY <2>4
    <3>1. ~ Begun /\ pc' = "block" /\ block' = b /\ UNCHANGED <<stored, recorded>>
      BY DEF TakeBlock, Begun, db
    <3>2. CASE b \in stored
      BY <2>1, <3>1, <3>2, Unwritten DEF Begun
    <3>3. CASE b \notin stored
      BY <2>1, <3>1, <3>3 DEF Begun, Writer!TakeBlock, Writer!Next
    <3> QED  BY <3>2, <3>3
  <2>5. CASE RefuseBlock \/ FailBlock
    BY <2>1, <2>5, LeavesWriter DEF RefuseBlock, FailBlock, MarkBlockFailed, db, Begun
  <2>6. CASE FinishBatch \/ Abandon \/ Crash \/ Restart
    BY <2>1, <2>6, LeavesWriter DEF FinishBatch, Abandon, Crash, Restart, Leave, db, Begun
  <2> QED
    BY <1>4, <2>2, <2>3, <2>4, <2>5, <2>6 DEF NextClaims, Next, Indexer, Fault
<1> QED  BY <1>1, <1>2, <1>3, <1>4

(* The loop takes the block writer for what BlockTxn shows it to be: both  *)
(* implement BlockWriter, the loop for whatever blocks it is given.        *)
THEOREM LoopAndWriter == ClaimsSpec => ImplementsWriter
<1>1. InitClaims => InProcess
  BY DEF InitClaims, Init, InProcess, CurrentBlock
<1>2. InProcess /\ [NextClaims]_claimsVars => InProcess'
  BY NextInProcess DEF NextClaims, claimsVars, vars
<1>3. InitClaims => Writer!Init
  BY DEF InitClaims, Init, Begun, Writer!Init
<1>4. InProcess /\ [NextClaims]_claimsVars => [Writer!Next]_Writer!vars
  <2> SUFFICES ASSUME InProcess, UNCHANGED claimsVars PROVE UNCHANGED Writer!vars
    BY WriterSteps
  <2>1. UNCHANGED <<stored, recorded, claimed, pc, block>>
    BY DEF claimsVars, vars, db, local
  <2> QED  BY <2>1, Unwritten
<1> QED
  BY <1>1, <1>2, <1>3, <1>4, PTL DEF ClaimsSpec, ImplementsWriter, Writer!Spec

(* What the loop takes for done is in the database, while a block whose    *)
(* commit may silently roll back has justifications: this follows from     *)
(* BlockWriter alone.                                                      *)
THEOREM DoneIsStored == LateJustified => (ClaimsSpec => [](claimed \subseteq stored))
<1> SUFFICES ASSUME LateJustified PROVE ClaimsSpec => [](claimed \subseteq stored)
  OBVIOUS
<1>1. Writer!Init => claimed \subseteq stored
  BY DEF Writer!Init
<1>2. claimed \subseteq stored /\ [Writer!Next]_Writer!vars => (claimed \subseteq stored)'
  BY DEF LateJustified, Writer!Next, Writer!SkipIndexed, Writer!TakeBlock, Writer!CommitBlock,
         Writer!CommitRollsBack, Writer!WriteValidators, Writer!GiveUp, Writer!AfterCommit,
         Writer!Return, Writer!vars
<1> QED  BY <1>1, <1>2, LoopAndWriter, PTL DEF ImplementsWriter, Writer!Spec
=============================================================================
