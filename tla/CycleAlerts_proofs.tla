------------------------- MODULE CycleAlerts_proofs -------------------------
(***************************************************************************)
(* For all thresholds, batch sizes and chains: the counters the sync loop  *)
(* keeps over its cycles are the runs of failures they stand for, so what  *)
(* they raise is what the recent cycles and batches really were.           *)
(***************************************************************************)
EXTENDS CycleAlerts, SequenceTheorems, TLAPS

LagValue == 0 .. MaxTip + 1
BatchEnd == [done : Int, whole : BOOLEAN]
Heights == {NoHeight} \cup -1 .. MaxTip + StartFrom
SyncAlert == {"NODE_UNREACHABLE", "BLOCKS_STUCK", "SYNC_FALLING_BEHIND"}

Sequencing ==
  /\ lags \in Seq(LagValue)
  /\ cycles \in Seq(SUBSET FailureKind) /\ Len(cycles) <= SyncStallThreshold
  /\ batches \in Seq(BatchEnd) /\ Len(batches) <= CursorStuckCycles
  /\ pc = "steps" => cycles # <<>>

\* What the failures of a cycle amount to, in whatever order they were noted.
ErrorOf(kinds) ==
  IF "database" \in kinds THEN "database" ELSE IF kinds = {} THEN "none" ELSE "unnamed"

\* The cycles in the window that are closed.
ClosedCycles == IF pc = "sync" THEN Len(cycles) ELSE Len(cycles) - 1

\* failures is the length of the run of failed cycles the closed ones end with; only a
\* run that has reached the threshold may be longer than the window still shows.
FailuresAreTheRun ==
  /\ \A i \in 1 .. ClosedCycles : i > ClosedCycles - failures => cycles[i] # {}
  /\ failures < ClosedCycles => cycles[ClosedCycles - failures] = {}
  /\ failures > ClosedCycles =>
       /\ pc = "steps" /\ failures = SyncStallThreshold
       /\ ClosedCycles = SyncStallThreshold - 1

OpenCycle ==
  pc = "steps" => /\ cycleError = ErrorOf(Last(cycles))
                  /\ raised \cap {"DATABASE_UNREACHABLE", "SYNC_STALLED"} = {}

\* The last stuck batches ended at stuckHeight, none of them whole.
StuckIsTheRun ==
  /\ stuck <= Len(batches)
  /\ \A i \in DOMAIN batches : i > Len(batches) - stuck =>
        ~ batches[i].whole /\ batches[i].done = stuckHeight
  /\ stuckHeight # NoHeight =>
        \/ cursor = stuckHeight
        \/ cursor < StartFrom /\ stuckHeight = StartFrom - 1
  /\ "BLOCKS_STUCK" \in raised => stuck = CursorStuckCycles

Fresh ==
  /\ tip \in 0 .. MaxTip /\ cursor \in -1 .. MaxTip
  /\ pc = "sync" /\ cycleError = "none" /\ raised = {}
  /\ failures = 0 /\ nodeOut = 0 /\ stuckHeight = NoHeight /\ stuck = 0
  /\ lags = <<>> /\ cycles = <<>> /\ batches = <<>>

IndInv ==
  /\ TypeOK /\ Sequencing
  /\ OpenCycle /\ FailuresAreTheRun /\ FailedRunIsNamed
  /\ StuckIsTheRun
-----------------------------------------------------------------------------
(* Appending to a window of at most n entries drops none but the oldest.   *)
LEMMA Window ==
  ASSUME NEW S, NEW s \in Seq(S), NEW x \in S, NEW n \in Nat \ {0}, Len(s) <= n
  PROVE  LET w == LastOf(Append(s, x), n)
         IN  /\ w \in Seq(S)
             /\ Len(w) = IF Len(s) < n THEN Len(s) + 1 ELSE n
             /\ w[Len(w)] = x
             /\ \A i \in 1 .. Len(w) - 1 : w[i] = s[i + (Len(s) + 1 - Len(w))]
<1> DEFINE a == Append(s, x)
           from == MaxOf(1, Len(a) - n + 1)
           w == SubSeq(a, from, Len(a))
<1>1. /\ a \in Seq(S) /\ Len(a) = Len(s) + 1 /\ Len(s) \in Nat
      /\ \A i \in 1 .. Len(s) : a[i] = s[i]
      /\ a[Len(s) + 1] = x
  BY AppendProperties
<1>2. LastOf(Append(s, x), n) = w
  BY DEF LastOf
<1> HIDE DEF a
<1>3. from = IF Len(s) < n THEN 1 ELSE Len(s) + 2 - n
  BY <1>1 DEF MaxOf
<1>4. from \in Int /\ from >= 1 /\ from <= Len(a) /\ Len(a) \in Int
  BY <1>1, <1>3
<1> HIDE DEF from
<1>5. \A i \in from .. Len(a) : a[i] \in S
  BY <1>1, <1>4
<1>6. /\ w \in Seq(S)
      /\ Len(w) = Len(a) - from + 1
      /\ \A i \in 1 .. Len(a) - from + 1 : w[i] = a[from + i - 1]
  BY <1>4, <1>5, SubSeqProperties
<1> HIDE DEF w
<1>7. Len(w) = IF Len(s) < n THEN Len(s) + 1 ELSE n
  BY <1>1, <1>3, <1>6
<1>8. Len(w) \in 1 .. Len(a) - from + 1 /\ from + Len(w) - 1 = Len(s) + 1
  BY <1>1, <1>4, <1>6
<1>9. w[Len(w)] = x
  BY <1>1, <1>6, <1>8
<1>10. ASSUME NEW i \in 1 .. Len(w) - 1
       PROVE  w[i] = s[i + (Len(s) + 1 - Len(w))]
  <2>1. i \in 1 .. Len(a) - from + 1 /\ from + i - 1 = i + (Len(s) + 1 - Len(w))
        /\ i + (Len(s) + 1 - Len(w)) \in 1 .. Len(s)
    BY <1>1, <1>4, <1>6, <1>8
  <2> QED  BY <1>1, <1>6, <2>1
<1> QED  BY <1>2, <1>6, <1>7, <1>9, <1>10

(* Constants and variables as numbers.                                     *)
LEMMA Numbers ==
  ASSUME TypeOK
  PROVE  /\ MaxTip \in Nat /\ StartFrom \in Nat /\ BatchSize \in Nat /\ BatchSize > 0
         /\ SyncStallThreshold \in Nat /\ SyncStallThreshold > 0
         /\ NodeUnreachableCycles \in Nat /\ NodeUnreachableCycles > 0
         /\ CursorStuckCycles \in Nat /\ CursorStuckCycles > 0
         /\ LagCycles \in Nat \ {0} /\ NoHeight \notin Int
         /\ tip \in Nat /\ tip <= MaxTip /\ cursor \in Int /\ -1 <= cursor /\ cursor <= MaxTip
         /\ failures \in Nat /\ failures <= SyncStallThreshold
         /\ stuck \in Nat /\ stuck <= CursorStuckCycles
BY ThresholdAssumption DEF TypeOK

(* A window of lags holds lags.                                            *)
LEMMA LagsTyped ==
  ASSUME TypeOK, lags \in Seq(LagValue)
  PROVE  LagsWith(Lag) \in Seq(LagValue) /\ Len(LagsWith(Lag)) <= LagCycles
<1>1. Lag \in LagValue
  BY Numbers DEF Lag, MaxOf, LagValue
<1>2. Len(lags) <= LagCycles /\ LagCycles \in Nat \ {0}
  BY Numbers DEF TypeOK
<1>3. Len(lags) \in Nat
  BY LenProperties
<1>4. LagsWith(Lag) = LastOf(Append(lags, Lag), LagCycles)
  BY DEF LagsWith
<1>5. LastOf(Append(lags, Lag), LagCycles) \in Seq(LagValue)
      /\ Len(LastOf(Append(lags, Lag), LagCycles))
           = IF Len(lags) < LagCycles THEN Len(lags) + 1 ELSE LagCycles
  BY <1>1, <1>2, Window
<1> QED  BY <1>2, <1>3, <1>4, <1>5

(* _sync_blocks has ended: the cycle joins the window with at most one     *)
(* failure, and the run before it is the one it was.                       *)
LEMMA CycleJoins ==
  ASSUME IndInv, NEW error \in {"none"} \cup FailureKind, SyncEnds(error),
         raised' \cap {"DATABASE_UNREACHABLE", "SYNC_STALLED"} = {}
  PROVE  /\ cycles' \in Seq(SUBSET FailureKind) /\ Len(cycles') <= SyncStallThreshold
         /\ cycles' # <<>> /\ pc' = "steps" /\ cycleError' = error /\ failures' = failures
         /\ tip' = tip
         /\ OpenCycle' /\ FailuresAreTheRun' /\ FailedRunIsNamed'
<1> DEFINE kinds == {error} \cap FailureKind
           N == SyncStallThreshold
<1>1. /\ pc = "sync" /\ pc' = "steps" /\ cycleError' = error /\ UNCHANGED <<tip, failures>>
      /\ cycles' = LastOf(Append(cycles, kinds), N)
  BY DEF SyncEnds
<1>2. /\ cycles \in Seq(SUBSET FailureKind) /\ Len(cycles) <= N /\ Len(cycles) \in Nat
      /\ kinds \in SUBSET FailureKind /\ N \in Nat \ {0}
      /\ failures \in Nat /\ failures <= N
  BY Numbers, LenProperties DEF IndInv, Sequencing
<1>3. /\ cycles' \in Seq(SUBSET FailureKind)
      /\ Len(cycles') = IF Len(cycles) < N THEN Len(cycles) + 1 ELSE N
      /\ cycles'[Len(cycles')] = kinds
      /\ \A i \in 1 .. Len(cycles') - 1 : cycles'[i] = cycles[i + (Len(cycles) + 1 - Len(cycles'))]
  <2> HIDE DEF kinds, N
  <2> DEFINE w == LastOf(Append(cycles, kinds), N)
  <2>1. /\ w \in Seq(SUBSET FailureKind)
        /\ Len(w) = IF Len(cycles) < N THEN Len(cycles) + 1 ELSE N
        /\ w[Len(w)] = kinds
        /\ \A i \in 1 .. Len(w) - 1 : w[i] = cycles[i + (Len(cycles) + 1 - Len(w))]
    <3> DEFINE S == SUBSET FailureKind
    <3>1. cycles \in Seq(S) /\ kinds \in S /\ N \in Nat \ {0} /\ Len(cycles) <= N
      BY <1>2
    <3> HIDE DEF S
    <3>2. /\ w \in Seq(S)
          /\ Len(w) = IF Len(cycles) < N THEN Len(cycles) + 1 ELSE N
          /\ w[Len(w)] = kinds
          /\ \A i \in 1 .. Len(w) - 1 : w[i] = cycles[i + (Len(cycles) + 1 - Len(w))]
      BY <3>1, Window
    <3> QED  BY <3>2 DEF S
  <2>2. cycles' = w
    BY <1>1
  <2> HIDE DEF w
  <2> QED  BY <2>1, <2>2
<1>4. ErrorOf(kinds) = error
  BY DEF ErrorOf, FailureKind
<1> HIDE DEF kinds, N
<1>5. OpenCycle'
  BY <1>1, <1>3, <1>4 DEF OpenCycle, ErrorOf, Last
<1>6. FailedRunIsNamed'
  BY <1>1 DEF FailedRunIsNamed, Closed
<1> DEFINE m == Len(cycles)
           k == Len(cycles')
<1>7. /\ \A i \in 1 .. m : i > m - failures => cycles[i] # {}
      /\ failures < m => cycles[m - failures] = {}
      /\ failures <= m
  BY <1>1, <1>2 DEF IndInv, FailuresAreTheRun, ClosedCycles
<1>8. m \in Nat /\ k \in Nat /\ m <= N /\ k = (IF m < N THEN m + 1 ELSE N)
      /\ \A i \in 1 .. k - 1 : cycles'[i] = cycles[i + (m + 1 - k)]
  <2>1. m \in Nat /\ m <= N
    BY <1>2
  <2>2. k = (IF m < N THEN m + 1 ELSE N)
    BY <1>3
  <2>3. \A i \in 1 .. k - 1 : cycles'[i] = cycles[i + (m + 1 - k)]
    BY <1>3
  <2> HIDE DEF m, k
  <2> QED  BY <1>2, <2>1, <2>2, <2>3
<1> HIDE DEF m, k
<1>9. \A i \in 1 .. k - 1 : i > k - 1 - failures => cycles'[i] # {}
  <2> TAKE i \in 1 .. k - 1
  <2>1. i + (m + 1 - k) \in 1 .. m
    BY <1>2, <1>8
  <2>2. i > k - 1 - failures => i + (m + 1 - k) > m - failures
    BY <1>2, <1>8
  <2> QED  BY <1>7, <1>8, <2>1, <2>2
<1>10. failures < k - 1 => cycles'[k - 1 - failures] = {}
  <2> SUFFICES ASSUME failures < k - 1 PROVE cycles'[k - 1 - failures] = {}
    OBVIOUS
  <2>1. k - 1 - failures \in 1 .. k - 1 /\ failures < m
        /\ (k - 1 - failures) + (m + 1 - k) = m - failures
    BY <1>2, <1>8
  <2> QED  BY <1>7, <1>8, <2>1
<1>11. failures > k - 1 => failures = N /\ k - 1 = N - 1
  BY <1>2, <1>7, <1>8
<1>12. FailuresAreTheRun'
  <2>1. ClosedCycles' = k - 1
    BY <1>1 DEF ClosedCycles, k
  <2> QED  BY <1>1, <1>9, <1>10, <1>11, <2>1 DEF FailuresAreTheRun, N
<1>13. k <= N /\ k > 0
  BY <1>2, <1>8
<1>14. cycles' # <<>>
  BY <1>13 DEF k
<1> QED  BY <1>1, <1>3, <1>5, <1>6, <1>12, <1>13, <1>14 DEF k, N

(* What is left to show of each way _sync_blocks can end.                  *)
LEMMA SyncStep ==
  ASSUME IndInv, NEW error \in {"none"} \cup FailureKind, SyncEnds(error),
         raised' \subseteq SyncAlert,
         nodeOut' \in 0 .. NodeUnreachableCycles,
         lags' = lags \/ lags' = LagsWith(Lag),
         cursor' \in -1 .. MaxTip,
         stuckHeight' \in Heights, stuck' \in 0 .. CursorStuckCycles,
         stuck' = 0 <=> stuckHeight' = NoHeight,
         batches' \in Seq(BatchEnd), Len(batches') <= CursorStuckCycles,
         StuckIsTheRun'
  PROVE  IndInv'
<1>1. raised' \cap {"DATABASE_UNREACHABLE", "SYNC_STALLED"} = {} /\ raised' \subseteq AlertKind
  BY DEF SyncAlert, AlertKind
<1>2. /\ cycles' \in Seq(SUBSET FailureKind) /\ Len(cycles') <= SyncStallThreshold
      /\ cycles' # <<>> /\ pc' = "steps" /\ cycleError' = error /\ failures' = failures
      /\ tip' = tip
      /\ OpenCycle' /\ FailuresAreTheRun' /\ FailedRunIsNamed'
  BY <1>1, CycleJoins
<1>3. lags' \in Seq(LagValue) /\ Len(lags') <= LagCycles
  BY LagsTyped DEF IndInv, Sequencing, TypeOK
<1>4. Sequencing'
  BY <1>2, <1>3 DEF Sequencing
<1>5. \A i \in DOMAIN lags' : lags'[i] \in 0 .. MaxTip + 1
  BY <1>3, ElementOfSeq, LenProperties DEF LagValue
<1>6. tip \in 0 .. MaxTip /\ failures \in 0 .. SyncStallThreshold
  BY DEF IndInv, TypeOK
<1>7. TypeOK'
  BY <1>1, <1>2, <1>3, <1>5, <1>6 DEF TypeOK, Heights
<1> QED  BY <1>2, <1>4, <1>7 DEF IndInv

(* A cycle that gets no batch done leaves the run of stuck batches.        *)
LEMMA NoBatchStep ==
  ASSUME IndInv, NEW error \in {"none"} \cup FailureKind, SyncEnds(error), SameCursor,
         raised' \subseteq {"NODE_UNREACHABLE", "SYNC_FALLING_BEHIND"},
         nodeOut' \in 0 .. NodeUnreachableCycles,
         lags' = lags \/ lags' = LagsWith(Lag)
  PROVE  IndInv'
<1>1. UNCHANGED <<cursor, stuckHeight, stuck, batches>>
  BY DEF SameCursor
<1>2. StuckIsTheRun'
  BY <1>1 DEF IndInv, StuckIsTheRun
<1>3. raised' \subseteq SyncAlert
  BY DEF SyncAlert
<1>4. /\ cursor' \in -1 .. MaxTip
      /\ stuckHeight' \in Heights /\ stuck' \in 0 .. CursorStuckCycles
      /\ stuck' = 0 <=> stuckHeight' = NoHeight
      /\ batches' \in Seq(BatchEnd) /\ Len(batches') <= CursorStuckCycles
  BY <1>1 DEF IndInv, TypeOK, Sequencing, Heights
<1> QED  BY <1>2, <1>3, <1>4, SyncStep

(* The count of silent cycles stays below its threshold.                   *)
LEMMA NodeCountTyped ==
  ASSUME TypeOK
  PROVE  \A available \in BOOLEAN : NodeCount(available) \in 0 .. NodeUnreachableCycles
BY Numbers DEF TypeOK, NodeCount, MinOf

(* A batch that is not whole is one more of the run, or the first of a new *)
(* one; a whole one ends it.                                               *)
LEMMA BatchStep ==
  ASSUME IndInv, NEW done \in Start - 1 .. MaxOf(End, Start - 1), NEW skipped \in BOOLEAN,
         BatchDone(done, skipped)
  PROVE  IndInv'
<1> DEFINE C == CursorStuckCycles
           whole == ~ skipped /\ done >= End
           entry == [done |-> done, whole |-> whole]
           m == Len(batches)
           k == Len(batches')
<1>1. /\ SyncEnds("none")
      /\ stuckHeight' = IF whole THEN NoHeight ELSE done
      /\ stuck' = IF whole THEN 0 ELSE StuckCount(done)
      /\ batches' = LastOf(Append(batches, entry), C)
      /\ cursor' = IF done >= Start THEN done ELSE cursor
      /\ lags' = LagsWith(Lag)
      /\ nodeOut' = NodeCount(TRUE)
      /\ raised' = LagAlert(lags') \cup {kind \in {"BLOCKS_STUCK"} : stuck' >= C}
  BY DEF BatchDone
<1>2. TypeOK /\ C \in Nat /\ C > 0 /\ C \in Nat \ {0} /\ NoHeight \notin Int
      /\ StartFrom \in Nat /\ MaxTip \in Nat /\ tip \in Nat /\ tip <= MaxTip
      /\ cursor \in Int /\ -1 <= cursor /\ cursor <= MaxTip /\ BatchSize \in Nat
      /\ stuck \in Nat /\ stuck <= C
  BY Numbers DEF IndInv
<1>3. /\ Start \in Int /\ Start = IF StartFrom >= cursor + 1 THEN StartFrom ELSE cursor + 1
      /\ End \in Int /\ End <= tip
  BY <1>2 DEF Start, End, MaxOf, MinOf
<1>4. done \in Int /\ Start - 1 <= done /\ (done <= End \/ done = Start - 1)
  BY <1>3 DEF MaxOf
<1>5. whole \in BOOLEAN /\ entry \in BatchEnd /\ entry.done = done /\ entry.whole = whole
  BY <1>4 DEF BatchEnd
<1> HIDE DEF whole, entry, C
<1>6. /\ batches \in Seq(BatchEnd) /\ Len(batches) <= C /\ m \in Nat
  BY LenProperties DEF IndInv, Sequencing, C
<1>7. /\ batches' \in Seq(BatchEnd)
      /\ k = IF m < C THEN m + 1 ELSE C
      /\ batches'[k] = entry
      /\ \A i \in 1 .. k - 1 : batches'[i] = batches[i + (m + 1 - k)]
  <2> DEFINE w == LastOf(Append(batches, entry), C)
  <2>1. /\ w \in Seq(BatchEnd)
        /\ Len(w) = IF Len(batches) < C THEN Len(batches) + 1 ELSE C
        /\ w[Len(w)] = entry
        /\ \A i \in 1 .. Len(w) - 1 : w[i] = batches[i + (Len(batches) + 1 - Len(w))]
    BY <1>2, <1>5, <1>6, Window
  <2>2. batches' = w
    BY <1>1
  <2> HIDE DEF w
  <2> QED  BY <2>1, <2>2
<1>8. DOMAIN batches' = 1 .. k /\ DOMAIN batches = 1 .. m
  BY <1>6, <1>7, LenProperties
<1> HIDE DEF m, k
<1>9. k \in Nat /\ k > 0 /\ k <= C /\ m <= C
  BY <1>2, <1>6, <1>7 DEF m
<1>10. ASSUME whole
       PROVE  StuckIsTheRun' /\ stuckHeight' \in Heights /\ stuck' \in 0 .. C
              /\ (stuck' = 0 <=> stuckHeight' = NoHeight)
  <2>1. stuckHeight' = NoHeight /\ stuck' = 0 /\ "BLOCKS_STUCK" \notin raised'
    BY <1>1, <1>2, <1>10 DEF LagAlert
  <2>2. k - 0 = k
    BY <1>9
  <2>3. StuckIsTheRun'
    BY <1>8, <1>9, <2>1, <2>2 DEF StuckIsTheRun, k
  <2> QED  BY <1>2, <2>1, <2>3 DEF Heights
<1>11. ASSUME ~ whole
       PROVE  StuckIsTheRun' /\ stuckHeight' \in Heights /\ stuck' \in 0 .. C
              /\ (stuck' = 0 <=> stuckHeight' = NoHeight)
  <2>1. stuckHeight' = done /\ stuckHeight' \in Int /\ stuckHeight' # NoHeight
        /\ stuck' = IF done = stuckHeight THEN MinOf(stuck + 1, C) ELSE 1
    BY <1>1, <1>2, <1>4, <1>11 DEF StuckCount, C
  <2>2. stuck' \in 1 .. C
    BY <1>2, <2>1 DEF MinOf
  <2>3. \A i \in 1 .. m : i > m - stuck => ~ batches[i].whole /\ batches[i].done = stuckHeight
    BY <1>8 DEF IndInv, StuckIsTheRun, m
  <2>4. stuck <= m
    BY DEF IndInv, StuckIsTheRun, m
  <2>5. stuck' <= k
    BY <1>2, <1>6, <1>7, <1>9, <2>1, <2>2, <2>4 DEF MinOf, m
  <2>6. ASSUME NEW i \in 1 .. k, i > k - stuck'
        PROVE  ~ batches'[i].whole /\ batches'[i].done = stuckHeight'
    <3>1. CASE i = k
      BY <1>5, <1>7, <1>11, <2>1, <3>1
    <3>2. CASE i # k
      <4>1. i \in 1 .. k - 1
        BY <1>9, <3>2
      <4>2. done = stuckHeight
        BY <1>9, <2>1, <2>6, <4>1
      <4>3. stuck' <= stuck + 1
        BY <1>2, <2>1, <4>2 DEF MinOf
      <4>4. m \in Nat
        BY <1>6 DEF m
      <4>5. i + (m + 1 - k) \in 1 .. m /\ i + (m + 1 - k) > m - stuck
        <5>1. k = IF m < C THEN m + 1 ELSE C
          BY <1>7
        <5>2. stuck \in Nat /\ stuck' \in Int /\ k \in Nat /\ C \in Nat /\ i \in Int /\ i <= k - 1 /\ 1 <= i
          BY <1>2, <1>9, <2>2, <4>1
        <5>3. k <= m + 1
          BY <1>9, <4>4, <5>1, <5>2
        <5>4. i > k - stuck' /\ stuck' <= stuck + 1
          BY <2>6, <4>3
        <5>5. i + (m + 1 - k) > m - stuck
          <6>1. PICK s \in Int : s = stuck'
            BY <5>2
          <6>2. PICK r \in Int : r = stuck
            BY <5>2
          <6>3. i > k - s
            BY <5>4, <6>1, Zenon
          <6>4. s <= r + 1
            BY <5>4, <6>1, <6>2, Zenon
          <6>5. i \in Int /\ k \in Int /\ m \in Int
            BY <4>4, <5>2
          <6>6. i > k - r - 1
            BY <6>3, <6>4, <6>5
          <6>7. i + (m + 1 - k) > m - r
            BY <6>5, <6>6
          <6> QED  BY <6>2, <6>7
        <5> QED  BY <4>4, <5>2, <5>3, <5>5
      <4> QED  BY <1>7, <2>1, <2>3, <4>1, <4>2, <4>5
    <3> QED  BY <3>1, <3>2
  <2>7. \/ cursor' = stuckHeight'
        \/ cursor' < StartFrom /\ stuckHeight' = StartFrom - 1
    <3>1. CASE done >= Start
      BY <1>1, <2>1, <3>1
    <3>2. CASE ~ (done >= Start)
      <4>1. done = Start - 1 /\ cursor' = cursor
        BY <1>1, <1>3, <1>4, <3>2
      <4> QED  BY <1>2, <1>3, <2>1, <4>1
    <3> QED  BY <3>1, <3>2
  <2>8. "BLOCKS_STUCK" \in raised' => stuck' = C
    BY <1>1, <1>2, <2>2 DEF LagAlert
  <2>9. StuckIsTheRun'
    BY <1>8, <2>5, <2>6, <2>7, <2>8 DEF StuckIsTheRun, k, C
  <2>10. stuckHeight' \in Heights
    BY <1>2, <1>3, <1>4, <2>1 DEF Heights
  <2>11. stuck' \in 0 .. C /\ stuck' # 0
    BY <1>2, <2>2
  <2> QED  BY <2>1, <2>9, <2>10, <2>11
<1>12. StuckIsTheRun' /\ stuckHeight' \in Heights /\ stuck' \in 0 .. C
       /\ (stuck' = 0 <=> stuckHeight' = NoHeight)
  BY <1>10, <1>11
<1>13. cursor' \in -1 .. MaxTip
  BY <1>1, <1>2, <1>3, <1>4
<1>14. raised' \subseteq SyncAlert /\ nodeOut' \in 0 .. NodeUnreachableCycles
  BY <1>1, <1>2, NodeCountTyped DEF SyncAlert, LagAlert
<1> QED  BY <1>1, <1>7, <1>9, <1>12, <1>13, <1>14, SyncStep DEF k, C

(* _sync_blocks, whichever way it ends.                                    *)
LEMMA SyncBlocksStep ==
  ASSUME IndInv, SyncBlocks PROVE IndInv'
<1> USE DEF FailureKind
<1>1. nodeOut \in 0 .. NodeUnreachableCycles /\ TypeOK
      /\ \A window : LagAlert(window) \subseteq {"SYNC_FALLING_BEHIND"}
      /\ \A count : NodeAlert(count) \subseteq {"NODE_UNREACHABLE"}
      /\ \A available \in BOOLEAN : NodeCount(available) \in 0 .. NodeUnreachableCycles
  BY NodeCountTyped DEF IndInv, TypeOK, LagAlert, NodeAlert
<1>2. ASSUME NEW kind \in FailureKind, CursorUnreadable(kind) PROVE IndInv'
  <2>1. SyncEnds(kind) /\ SameCursor /\ raised' = {} /\ UNCHANGED <<nodeOut, lags>>
    BY <1>2 DEF CursorUnreadable
  <2> QED  BY <1>1, <2>1, NoBatchStep
<1>3. CASE NoFinalizedBlock
  <2>1. /\ SyncEnds("none") /\ SameCursor /\ lags' = lags
        /\ nodeOut' = NodeCount(FALSE) /\ raised' = NodeAlert(nodeOut')
    BY <1>3 DEF NoFinalizedBlock
  <2>2. raised' \subseteq {"NODE_UNREACHABLE", "SYNC_FALLING_BEHIND"}
        /\ nodeOut' \in 0 .. NodeUnreachableCycles
    BY <1>1, <2>1
  <2> QED  BY <2>1, <2>2, NoBatchStep
<1>4. CASE UpToDate
  <2>1. /\ SyncEnds("none") /\ SameCursor /\ lags' = LagsWith(Lag)
        /\ nodeOut' = NodeCount(TRUE) /\ raised' = LagAlert(lags')
    BY <1>4 DEF UpToDate
  <2>2. raised' \subseteq {"NODE_UNREACHABLE", "SYNC_FALLING_BEHIND"}
        /\ nodeOut' \in 0 .. NodeUnreachableCycles
    BY <1>1, <2>1
  <2> QED  BY <2>1, <2>2, NoBatchStep
<1>5. ASSUME NEW kind \in FailureKind, CountFails(kind) PROVE IndInv'
  <2>1. /\ SyncEnds(kind) /\ SameCursor /\ lags' = LagsWith(Lag)
        /\ nodeOut' = nodeOut /\ raised' = LagAlert(lags')
    BY <1>5 DEF CountFails
  <2>2. raised' \subseteq {"NODE_UNREACHABLE", "SYNC_FALLING_BEHIND"}
        /\ nodeOut' \in 0 .. NodeUnreachableCycles
    BY <1>1, <2>1
  <2> QED  BY <2>1, <2>2, NoBatchStep
<1>6. CASE NoSummaries
  <2>1. /\ SyncEnds("none") /\ SameCursor /\ lags' = LagsWith(Lag)
        /\ nodeOut' = NodeCount(End < Start)
        /\ raised' = LagAlert(lags') \cup NodeAlert(nodeOut')
    BY <1>6 DEF NoSummaries
  <2>2. (End < Start) \in BOOLEAN
    BY Numbers, <1>1 DEF Start, End, MaxOf, MinOf
  <2>3. nodeOut' \in 0 .. NodeUnreachableCycles
    BY <1>1, <2>1, <2>2
  <2>4. raised' \subseteq {"NODE_UNREACHABLE", "SYNC_FALLING_BEHIND"}
    BY <1>1, <2>1
  <2> QED  BY <2>1, <2>3, <2>4, NoBatchStep
<1>7. ASSUME NEW kind \in FailureKind, CursorUnwritten(kind) PROVE IndInv'
  <2>1. /\ SyncEnds(kind) /\ SameCursor /\ lags' = LagsWith(Lag)
        /\ nodeOut' = NodeCount(TRUE) /\ raised' = LagAlert(lags')
    BY <1>7 DEF CursorUnwritten
  <2>2. raised' \subseteq {"NODE_UNREACHABLE", "SYNC_FALLING_BEHIND"}
        /\ nodeOut' \in 0 .. NodeUnreachableCycles
    BY <1>1, <2>1
  <2> QED  BY <2>1, <2>2, NoBatchStep
<1> QED  BY <1>2, <1>3, <1>4, <1>5, <1>6, <1>7, BatchStep DEF SyncBlocks

(* A later step fails: the failures of the open cycle name its error.      *)
LEMMA StepFailsStep ==
  ASSUME IndInv, NEW kind \in FailureKind, StepFails(kind)
  PROVE  IndInv'
<1> DEFINE m == Len(cycles)
<1>1. /\ pc = "steps" /\ cycleError' = Recorded(cycleError, kind)
      /\ cycles' = [cycles EXCEPT ![m] = @ \cup {kind}]
      /\ UNCHANGED <<tip, cursor, pc, failures, nodeOut, stuckHeight, stuck, lags, raised, batches>>
  BY DEF StepFails, env, counters
<1>2. /\ cycles \in Seq(SUBSET FailureKind) /\ m \in Nat /\ m > 0 /\ m <= SyncStallThreshold
      /\ cycles # <<>> /\ DOMAIN cycles = 1 .. m
  BY <1>1, LenProperties, EmptySeq DEF IndInv, Sequencing
<1>3. cycles \in [1 .. m -> SUBSET FailureKind]
  BY <1>2
<1>4. /\ cycles' \in [1 .. m -> SUBSET FailureKind]
      /\ cycles'[m] = cycles[m] \cup {kind}
      /\ \A i \in 1 .. m - 1 : cycles'[i] = cycles[i]
  <2> DEFINE kinds == cycles[m] \cup {kind}
             S == SUBSET FailureKind
  <2>1. m \in 1 .. m /\ kinds \in S /\ cycles \in [1 .. m -> S]
    BY <1>2, <1>3
  <2>2. cycles' = [cycles EXCEPT ![m] = kinds]
    BY <1>1
  <2> HIDE DEF kinds, S, m
  <2>3. /\ cycles' \in [1 .. m -> S] /\ cycles'[m] = kinds
        /\ \A i \in 1 .. m - 1 : cycles'[i] = cycles[i]
    BY <1>2, <2>1, <2>2
  <2> QED  BY <2>3 DEF kinds, S
<1>5. cycles' \in Seq(SUBSET FailureKind) /\ Len(cycles') = m
  BY <1>2, <1>4, LenProperties
<1>6. cycles' # <<>>
  BY <1>2, <1>5
<1> HIDE DEF m
<1>7. Sequencing'
  BY <1>1, <1>2, <1>5, <1>6 DEF IndInv, Sequencing
<1>8. cycleError = ErrorOf(cycles[m]) /\ raised \cap {"DATABASE_UNREACHABLE", "SYNC_STALLED"} = {}
  BY <1>1 DEF IndInv, OpenCycle, Last, m
<1>9. cycles[m] \subseteq {"unnamed", "database"} /\ kind \in {"unnamed", "database"}
  BY <1>2, <1>3 DEF FailureKind
<1>10. Recorded(cycleError, kind) = ErrorOf(cycles[m] \cup {kind})
  BY <1>8, <1>9 DEF Recorded, ErrorOf
<1>11. OpenCycle'
  BY <1>1, <1>4, <1>5, <1>8, <1>10 DEF OpenCycle, Last
<1>12. FailedRunIsNamed'
  BY <1>1 DEF FailedRunIsNamed, Closed
<1>13. ClosedCycles = m - 1 /\ ClosedCycles' = m - 1
  BY <1>1, <1>5 DEF ClosedCycles, m
<1>14. FailuresAreTheRun'
  <2>1. /\ \A i \in 1 .. m - 1 : i > m - 1 - failures => cycles[i] # {}
        /\ failures < m - 1 => cycles[m - 1 - failures] = {}
        /\ failures > m - 1 =>
             failures = SyncStallThreshold /\ m - 1 = SyncStallThreshold - 1
    BY <1>13 DEF IndInv, FailuresAreTheRun
  <2>2. failures \in Nat
    BY Numbers DEF IndInv
  <2>3. failures < m - 1 => m - 1 - failures \in 1 .. m - 1
    BY <1>2, <2>2
  <2> QED  BY <1>1, <1>4, <1>13, <2>1, <2>3 DEF FailuresAreTheRun
<1>15. cycleError' \in {"none"} \cup FailureKind
  BY <1>1, <1>9 DEF Recorded, IndInv, TypeOK, FailureKind
<1>16. TypeOK'
  BY <1>1, <1>15 DEF IndInv, TypeOK
<1>17. StuckIsTheRun'
  BY <1>1 DEF IndInv, StuckIsTheRun
<1> QED  BY <1>7, <1>11, <1>12, <1>14, <1>16, <1>17 DEF IndInv

(* The cycle closes: its failures make the run longer by one, or end it.   *)
LEMMA CloseStep ==
  ASSUME IndInv, CloseCycle PROVE IndInv'
<1> DEFINE m == Len(cycles)
           N == SyncStallThreshold
           alert == IF cycleError = "database" THEN "DATABASE_UNREACHABLE" ELSE "SYNC_STALLED"
<1>1. /\ pc = "steps" /\ pc' = "sync" /\ cycleError' = "none"
      /\ failures' = IF cycleError = "none" THEN 0 ELSE MinOf(failures + 1, N)
      /\ raised' = raised \cup {k \in {alert} : failures' >= N}
      /\ UNCHANGED <<tip, cursor, nodeOut, stuckHeight, stuck, lags, cycles, batches>>
  BY DEF CloseCycle, env, history
<1>2. /\ cycles \in Seq(SUBSET FailureKind) /\ m \in Nat /\ m > 0 /\ m <= N
      /\ DOMAIN cycles = 1 .. m /\ cycles[m] \subseteq {"unnamed", "database"} /\ cycles # <<>>
  BY <1>1, LenProperties, EmptySeq, ElementOfSeq DEF IndInv, Sequencing, FailureKind
<1>3. cycleError = ErrorOf(cycles[m]) /\ raised \cap {"DATABASE_UNREACHABLE", "SYNC_STALLED"} = {}
  BY <1>1 DEF IndInv, OpenCycle, Last
<1>4. N \in Nat /\ N > 0 /\ failures \in Nat /\ failures <= N
  BY Numbers DEF IndInv
<1> HIDE DEF N
<1>5. ClosedCycles = m - 1 /\ ClosedCycles' = m
  BY <1>1 DEF ClosedCycles
<1>6. /\ \A i \in 1 .. m - 1 : i > m - 1 - failures => cycles[i] # {}
      /\ failures < m - 1 => cycles[m - 1 - failures] = {}
      /\ failures > m - 1 => failures = N /\ m - 1 = N - 1
  BY <1>5 DEF IndInv, FailuresAreTheRun, N
<1> HIDE DEF m
<1>7. failures' \in 0 .. N
  BY <1>1, <1>4 DEF MinOf
<1>8. /\ \A i \in 1 .. m : i > m - failures' => cycles[i] # {}
      /\ failures' < m => cycles[m - failures'] = {}
      /\ failures' <= m
  <2>1. CASE cycleError = "none"
    <3>1. failures' = 0 /\ cycles[m] = {}
      BY <1>1, <1>2, <1>3, <2>1 DEF ErrorOf
    <3> QED  BY <1>2, <3>1
  <2>2. CASE cycleError # "none"
    <3>1. failures' = (IF failures + 1 <= N THEN failures + 1 ELSE N) /\ cycles[m] # {}
      BY <1>1, <1>3, <2>2 DEF ErrorOf, MinOf
    <3>2. CASE failures <= m - 1
      <4>1. failures' = failures + 1
        BY <1>2, <1>4, <3>1, <3>2
      <4>2. \A i \in 1 .. m : i > m - failures' => cycles[i] # {}
        <5> SUFFICES ASSUME NEW i \in 1 .. m, i > m - failures' PROVE cycles[i] # {}
          OBVIOUS
        <5>1. i = m \/ (i \in 1 .. m - 1 /\ i > m - 1 - failures)
          BY <1>2, <1>4, <4>1
        <5> QED  BY <1>6, <3>1, <5>1
      <4>3. failures' < m => cycles[m - failures'] = {}
        <5>1. m - failures' = m - 1 - failures /\ (failures' < m => failures < m - 1)
          BY <1>2, <1>4, <4>1
        <5> QED  BY <1>6, <5>1
      <4> QED  BY <1>2, <1>4, <3>2, <4>1, <4>2, <4>3
    <3>3. CASE ~ (failures <= m - 1)
      <4>1. failures' = N /\ m = N /\ failures = N
        BY <1>2, <1>4, <1>6, <3>1, <3>3
      <4>2. \A i \in 1 .. m : i = m \/ (i \in 1 .. m - 1 /\ i > m - 1 - failures)
        BY <1>2, <1>4, <4>1
      <4>3. \A i \in 1 .. m : cycles[i] # {}
        BY <1>6, <3>1, <4>2
      <4> QED  BY <1>4, <4>1, <4>3
    <3> QED  BY <3>2, <3>3
  <2> QED  BY <2>1, <2>2
<1>9. FailuresAreTheRun'
  <2>1. ~ (failures' > m)
    BY <1>2, <1>7, <1>8, <1>4
  <2> QED  BY <1>1, <1>5, <1>8, <2>1 DEF FailuresAreTheRun
<1>10. FailedRunIsNamed'
  <2> DEFINE short == m < N \/ \E i \in 1 .. m : cycles[i] = {}
  <2>1. failures' >= N <=> ~ short
    <3>1. CASE failures' >= N
      <4>1. failures' = N /\ m = N
        BY <1>2, <1>4, <1>7, <1>8, <3>1
      <4>2. \A i \in 1 .. m : i > m - failures'
        BY <1>4, <4>1
      <4> QED  BY <1>4, <1>8, <3>1, <4>1, <4>2
    <3>2. CASE ~ (failures' >= N)
      <4>1. failures' < N /\ failures' \in Nat
        BY <1>4, <1>7, <3>2
      <4>2. failures' < m => m - failures' \in 1 .. m
        <5>1. PICK f \in Nat : f = failures'
          BY <4>1
        <5>2. f < m => m - f \in 1 .. m
          BY <1>2
        <5> QED  BY <5>1, <5>2
      <4>3. ~ (failures' < m) => m < N
        BY <1>2, <1>4, <1>8, <4>1
      <4> QED  BY <1>8, <3>2, <4>2, <4>3
    <3> QED  BY <3>1, <3>2
  <2>2. "database" \in cycles[m] <=> cycleError = "database"
    BY <1>3 DEF ErrorOf
  <2>3. raised' \cap {"DATABASE_UNREACHABLE", "SYNC_STALLED"} =
          IF short THEN {}
          ELSE IF "database" \in cycles[m] THEN {"DATABASE_UNREACHABLE"} ELSE {"SYNC_STALLED"}
    <3>1. CASE short
      <4>1. raised' = raised
        BY <1>1, <2>1, <3>1
      <4> QED  BY <1>3, <3>1, <4>1
    <3>2. CASE ~ short
      <4>1. raised' = raised \cup {alert}
        BY <1>1, <2>1, <3>2
      <4> QED  BY <1>3, <2>2, <3>2, <4>1
    <3> QED  BY <3>1, <3>2
  <2>4. cycles' = cycles /\ Last(cycles') = cycles[m] /\ Len(cycles') = m
        /\ DOMAIN cycles' = 1 .. m
    BY <1>1, <1>2 DEF Last, m
  <2> QED  BY <2>3, <2>4 DEF FailedRunIsNamed, N
<1>11. OpenCycle' /\ Sequencing'
  BY <1>1 DEF OpenCycle, IndInv, Sequencing
<1>12. raised' \subseteq AlertKind
  BY <1>1 DEF IndInv, TypeOK, AlertKind
<1>13. TypeOK'
  BY <1>1, <1>7, <1>12 DEF IndInv, TypeOK, N
<1>14. StuckIsTheRun'
  BY <1>1 DEF IndInv, StuckIsTheRun
<1> QED  BY <1>9, <1>10, <1>11, <1>13, <1>14 DEF IndInv

(* A process that has just started has no cycles, batches or counts.       *)
LEMMA FreshIndInv == Fresh => IndInv
<1> SUFFICES ASSUME Fresh PROVE IndInv
  OBVIOUS
<1> USE DEF Fresh
<1>1. \A S : lags \in Seq(S) /\ cycles \in Seq(S) /\ batches \in Seq(S)
  BY EmptySeq
<1>2. Len(lags) = 0 /\ Len(cycles) = 0 /\ Len(batches) = 0
  BY EmptySeq
<1>3. DOMAIN lags = {} /\ DOMAIN batches = {}
  OBVIOUS
<1>4. 0 <= SyncStallThreshold /\ 0 <= CursorStuckCycles /\ 0 <= NodeUnreachableCycles
      /\ 0 <= LagCycles /\ 0 # CursorStuckCycles
      /\ SyncStallThreshold \in Int /\ CursorStuckCycles \in Int /\ NodeUnreachableCycles \in Int
  BY ThresholdAssumption
<1>5. TypeOK
  BY <1>2, <1>3, <1>4 DEF TypeOK
<1>6. Sequencing
  BY <1>1, <1>2, <1>4 DEF Sequencing
<1>7. OpenCycle /\ FailedRunIsNamed
  BY DEF OpenCycle, FailedRunIsNamed, Closed
<1>8. FailuresAreTheRun
  BY <1>2 DEF FailuresAreTheRun, ClosedCycles
<1>9. StuckIsTheRun
  BY <1>2, <1>3, <1>4 DEF StuckIsTheRun
<1> QED  BY <1>5, <1>6, <1>7, <1>8, <1>9 DEF IndInv

(* What a new process begins with does not depend on how the last one went.*)
LEMMA RestartStep ==
  ASSUME IndInv, Restart PROVE IndInv'
<1>1. Fresh'
  BY DEF Restart, Fresh, env, IndInv, TypeOK
<1>2. ASSUME Fresh' PROVE IndInv'
  BY <1>2, FreshIndInv, PTL
<1> QED  BY <1>1, <1>2

(* The node goes on.                                                       *)
LEMMA FinalizeStep ==
  ASSUME IndInv, Finalize PROVE IndInv'
<1>1. tip < MaxTip /\ tip' = tip + 1
      /\ UNCHANGED <<cursor, pc, cycleError, failures, nodeOut, stuckHeight, stuck, lags,
                     raised, cycles, batches>>
  BY DEF Finalize, counters, history
<1>2. tip' \in 0 .. MaxTip
  BY <1>1, Numbers DEF IndInv
<1> QED  BY <1>1, <1>2 DEF IndInv, TypeOK, Sequencing, OpenCycle, FailuresAreTheRun, ClosedCycles,
                          FailedRunIsNamed, Closed, StuckIsTheRun

(* Every way a cycle can go keeps the invariant.                           *)
LEMMA NextIndInv == IndInv /\ [Next]_vars => IndInv'
<1> SUFFICES ASSUME IndInv, [Next]_vars PROVE IndInv'
  OBVIOUS
<1>1. CASE UNCHANGED vars
  BY <1>1 DEF vars, env, counters, history, IndInv, TypeOK, Sequencing, OpenCycle,
              FailuresAreTheRun, ClosedCycles, FailedRunIsNamed, Closed, StuckIsTheRun
<1> QED  BY <1>1, SyncBlocksStep, StepFailsStep, CloseStep, RestartStep, FinalizeStep DEF Next

(* The invariant, from which the theorems follow.                          *)
LEMMA AlwaysIndInv == Spec => []IndInv
<1>1. Init => IndInv
  BY FreshIndInv, ThresholdAssumption DEF Init, Fresh
<1> QED  BY <1>1, NextIndInv, PTL DEF Spec
-----------------------------------------------------------------------------
(* Types, and an alert is only on the books of the cycle that raised it.   *)
THEOREM TypeCorrect == Spec => []TypeOK
<1>1. IndInv => TypeOK
  BY DEF IndInv
<1> QED  BY <1>1, AlwaysIndInv, PTL

(* For every threshold: a run of that many cycles with a failed step, and  *)
(* nothing less, raises one alert when it closes, and names the database   *)
(* when a step of its last cycle failed on it (_record_cycle_failure and   *)
(* _close_cycle).                                                          *)
THEOREM RunIsNamed == Spec => []FailedRunIsNamed
<1>1. IndInv => FailedRunIsNamed
  BY DEF IndInv
<1> QED  BY <1>1, AlwaysIndInv, PTL

(* For every threshold, batch size and start height: "stuck" is told only  *)
(* of a cursor at which that many batches have ended, one after the other  *)
(* (_track_cursor).                                                        *)
THEOREM StuckIsPinned == Spec => []StuckMeansPinned
<1>1. ASSUME IndInv PROVE StuckMeansPinned
  <2> DEFINE m == Len(batches)
  <2> SUFFICES ASSUME "BLOCKS_STUCK" \in raised
               PROVE  /\ m = CursorStuckCycles
                      /\ \A i \in DOMAIN batches :
                            ~ batches[i].whole /\ batches[i].done = Last(batches).done
                      /\ \/ cursor = Last(batches).done
                         \/ cursor < StartFrom /\ Last(batches).done = StartFrom - 1
    BY DEF StuckMeansPinned
  <2>1. /\ stuck = CursorStuckCycles /\ stuck <= m /\ m <= CursorStuckCycles
        /\ \A i \in DOMAIN batches : i > m - stuck =>
              ~ batches[i].whole /\ batches[i].done = stuckHeight
        /\ stuckHeight # NoHeight =>
              cursor = stuckHeight \/ (cursor < StartFrom /\ stuckHeight = StartFrom - 1)
    BY <1>1 DEF IndInv, StuckIsTheRun, Sequencing
  <2>2. m \in Nat /\ DOMAIN batches = 1 .. m
    BY <1>1, LenProperties DEF IndInv, Sequencing
  <2>3. CursorStuckCycles \in Nat /\ CursorStuckCycles > 0
    BY ThresholdAssumption
  <2> HIDE DEF m
  <2>4. m = CursorStuckCycles /\ m = stuck /\ m > 0
    BY <2>1, <2>2, <2>3
  <2>5. \A i \in DOMAIN batches : ~ batches[i].whole /\ batches[i].done = stuckHeight
    BY <2>1, <2>2, <2>4
  <2>6. Last(batches).done = stuckHeight
    BY <2>2, <2>4, <2>5 DEF Last, m
  <2>7. stuckHeight # NoHeight
    BY <1>1, <2>3, <2>4 DEF IndInv, TypeOK
  <2> QED  BY <2>1, <2>4, <2>5, <2>6, <2>7
<1> QED  BY <1>1, AlwaysIndInv, PTL
=============================================================================
