----------------------- MODULE NetworkMetrics_proofs ------------------------
(***************************************************************************)
(* For every width of a bucket, lookback, range and number of divisions,   *)
(* and for rows that come with any timestamps in any order: the metrics    *)
(* count no row and no stretch of time twice, and the fast path counts in  *)
(* a division no more than there is.                                       *)
(***************************************************************************)
EXTENDS NetworkMetrics, Facts_proofs

\* The time between the first and the last block.
Between == {t \in Time : \E i, j \in Present(Blocks) : stamp[i] <= t /\ t < stamp[j]}

StampInv == stamp \in [Item -> Time \cup {None}] /\ IsFiniteSet(Present(Item))

\* A bucket counts rows that lie in it; some may have come later.
BucketOf(b) ==
  /\ b.from \in Int /\ b.till = b.from + BucketSeconds
  /\ b.times.sum \in Nat /\ b.times.number \in Nat
  /\ b.deployments \in 0 .. Cardinality(Within(Deployments, b.from, b.till))
  /\ b.transfers \in 0 .. Cardinality(Within(Transfers, b.from, b.till))

Apart(b, c) == b.till <= c.from \/ c.till <= b.from

BucketsInv ==
  /\ IsFiniteSet(buckets)
  /\ \A b \in buckets : BucketOf(b)
  /\ \A b, c \in buckets : b = c \/ Apart(b, c)

\* A refresh begins where all buckets have ended.
RangeInv ==
  range # None =>
    /\ range.from \in Int /\ range.till \in Int
    /\ range.from < range.till /\ range.till - range.from <= Lookback
    /\ \A b \in buckets : b.till <= range.from

\* gap gives each bucket the time its block times are of.
Gaps(gap) ==
  /\ \A b \in buckets : /\ gap[b] \subseteq Between /\ Cardinality(gap[b]) = b.times.sum
                        /\ \A t \in gap[b] : t < b.till
  /\ \A b, c \in buckets : b # c => gap[b] \cap gap[c] = {}

GapsInv == \E gap \in [buckets -> SUBSET Between] : Gaps(gap)

IndInv == StampInv /\ BucketsInv /\ RangeInv /\ GapsInv
-----------------------------------------------------------------------------
(* Without rows and buckets there is nothing to count.                     *)
LEMMA InitIndInv == Init => IndInv
<1> SUFFICES ASSUME Init PROVE IndInv
  OBVIOUS
<1>1. stamp = [i \in Item |-> None] /\ range = None /\ buckets = {}
  BY DEF Init
<1>2. StampInv
  <2>1. Present(Item) = {}
    BY <1>1 DEF Present
  <2> QED  BY <1>1, <2>1, FS_EmptySet DEF StampInv
<1>3. BucketsInv /\ RangeInv
  BY <1>1, FS_EmptySet DEF BucketsInv, RangeInv
<1>4. GapsInv
  <2>1. [b \in {} |-> {}] \in [buckets -> SUBSET Between]
    BY <1>1
  <2>2. Gaps([b \in {} |-> {}])
    BY <1>1 DEF Gaps
  <2> QED  BY <2>1, <2>2 DEF GapsInv
<1> QED  BY <1>2, <1>3, <1>4 DEF IndInv

(* The rows of each kind, and those within a stretch of time, are finitely *)
(* many integers.                                                          *)
LEMMA RowsAreFinite ==
  ASSUME StampInv, NEW set \in SUBSET Item, NEW from \in Int, NEW till \in Int
  PROVE  /\ Present(set) = {i \in set : stamp[i] \in Time} /\ IsFiniteSet(Present(set))
         /\ Within(set, from, till) \subseteq Present(set) /\ IsFiniteSet(Within(set, from, till))
         /\ Cardinality(Within(set, from, till)) \in Nat
<1>1. Time \subseteq Int /\ None \notin Int
  BY MetricsAssumption DEF Time
<1>2. Present(set) = {i \in set : stamp[i] \in Time}
  BY <1>1 DEF StampInv, Present
<1>3. Present(set) \subseteq Present(Item)
  BY DEF Present
<1>4. IsFiniteSet(Present(set))
  BY <1>3, FS_Subset DEF StampInv
<1>5. Within(set, from, till) \subseteq Present(set)
  BY DEF Within
<1>6. IsFiniteSet(Within(set, from, till))
  BY <1>4, <1>5, FS_Subset
<1> QED  BY <1>2, <1>4, <1>5, <1>6, FS_CardinalityType

(* A row that is there has a time.                                         *)
LEMMA PresentHasStamp == StampInv => \A i \in Present(Item) : stamp[i] \in Time /\ stamp[i] \in Int
BY MetricsAssumption DEF StampInv, Present, Time

\* The rows of each stretch of time can be counted.
Countable ==
  \A set \in SUBSET Item : \A from, till \in Int :
    IsFiniteSet(Within(set, from, till)) /\ Cardinality(Within(set, from, till)) \in Nat

(* They are, in every state the invariant holds in.                        *)
LEMMA WithinIsFinite == StampInv => Countable
BY RowsAreFinite DEF Countable

(* The timestamps of rows are finitely many integers.                      *)
LEMMA StampsAreFinite ==
  ASSUME StampInv, NEW set \in SUBSET Present(Item)
  PROVE  Stamps(set) \subseteq Time /\ Stamps(set) \subseteq Int /\ IsFiniteSet(Stamps(set))
<1>1. Time \subseteq Int
  BY MetricsAssumption DEF Time
<1>2. \A i \in set : stamp[i] \in Time
  BY DEF StampInv, Present
<1>3. Stamps(set) \subseteq Time
  BY <1>2 DEF Stamps
<1>4. IsFiniteSet(set)
  BY FS_Subset DEF StampInv
<1> DEFINE f == [i \in set |-> stamp[i]]
<1>5. f \in Surjection(set, Stamps(set))
  BY DEF Surjection, Stamps
<1> HIDE DEF f
<1> QED  BY <1>1, <1>3, <1>4, <1>5, FS_Surjection

(* A row more: nothing that is within a bucket or between two blocks goes. *)
LEMMA IndexIndInv ==
  ASSUME IndInv, NEW i \in Item, NEW t \in Time, Index(i, t)
  PROVE  IndInv'
<1>1. stamp[i] = None /\ stamp' = [stamp EXCEPT ![i] = t] /\ range' = range /\ buckets' = buckets
  BY DEF Index
<1>2. Time \subseteq Int /\ None \notin Int
  BY MetricsAssumption DEF Time
<1>3. StampInv'
  <2>1. stamp' \in [Item -> Time \cup {None}]
    BY <1>1 DEF IndInv, StampInv
  <2>2. Present(Item)' = Present(Item) \cup {i}
    BY <1>1, <1>2 DEF IndInv, StampInv, Present
  <2> QED  BY <2>1, <2>2, FS_AddElement DEF IndInv, StampInv
<1>4. \A j \in Item : stamp[j] # None => stamp'[j] = stamp[j]
  BY <1>1 DEF IndInv, StampInv
<1>5. ASSUME NEW set \in SUBSET Item, NEW from \in Int, NEW till \in Int
      PROVE  /\ Cardinality(Within(set, from, till)) \in Nat
             /\ Cardinality(Within(set, from, till))' \in Nat
             /\ Cardinality(Within(set, from, till)) <= Cardinality(Within(set, from, till)')
  <2>1. Within(set, from, till) \subseteq Within(set, from, till)'
    BY <1>4 DEF Within, Present
  <2>2. IsFiniteSet(Within(set, from, till)') /\ Cardinality(Within(set, from, till)') \in Nat
    <3>1. Countable'
      BY <1>3, WithinIsFinite, PTL
    <3> QED  BY <3>1 DEF Countable
  <2> QED  BY <2>1, <2>2, FS_Subset, RowsAreFinite DEF IndInv
<1>6. BucketsInv'
  <2>1. ASSUME NEW b \in buckets PROVE BucketOf(b)'
    <3>1. BucketOf(b) /\ b.from \in Int /\ b.till \in Int
      BY MetricsAssumption DEF IndInv, BucketsInv, BucketOf
    <3>2. Deployments \subseteq Item /\ Transfers \subseteq Item
      BY DEF Item
    <3>3. /\ Cardinality(Within(Deployments, b.from, b.till)) <= Cardinality(Within(Deployments, b.from, b.till)')
          /\ Cardinality(Within(Transfers, b.from, b.till)) <= Cardinality(Within(Transfers, b.from, b.till)')
          /\ Cardinality(Within(Deployments, b.from, b.till)) \in Nat
          /\ Cardinality(Within(Transfers, b.from, b.till)) \in Nat
          /\ Cardinality(Within(Deployments, b.from, b.till)') \in Nat
          /\ Cardinality(Within(Transfers, b.from, b.till)') \in Nat
      BY <1>5, <3>1, <3>2
    <3> DEFINE deployments == Cardinality(Within(Deployments, b.from, b.till))
               deploymentsNext == Cardinality(Within(Deployments, b.from, b.till)')
               transfers == Cardinality(Within(Transfers, b.from, b.till))
               transfersNext == Cardinality(Within(Transfers, b.from, b.till)')
    <3>4. b.deployments \in 0 .. deployments /\ b.transfers \in 0 .. transfers
      BY <3>1 DEF BucketOf
    <3> HIDE DEF deployments, deploymentsNext, transfers, transfersNext
    <3>5. b.deployments \in 0 .. deploymentsNext /\ b.transfers \in 0 .. transfersNext
      BY <3>3, <3>4 DEF deployments, deploymentsNext, transfers, transfersNext
    <3> QED  BY <3>1, <3>5 DEF BucketOf, deploymentsNext, transfersNext
  <2> QED  BY <1>1, <2>1 DEF IndInv, BucketsInv, Apart
<1>7. RangeInv'
  BY <1>1 DEF IndInv, RangeInv
<1>8. GapsInv'
  <2>1. PICK gap \in [buckets -> SUBSET Between] : Gaps(gap)
    BY DEF IndInv, GapsInv
  <2>2. Between \subseteq Between'
    BY <1>4 DEF Between, Present, Item
  <2>3. gap \in [buckets' -> SUBSET Between']
    BY <1>1, <2>2
  <2>4. Gaps(gap)'
    BY <1>1, <2>1, <2>2 DEF Gaps
  <2> QED  BY <2>3, <2>4 DEF GapsInv
<1> QED  BY <1>3, <1>6, <1>7, <1>8 DEF IndInv

(* The start of a refresh is the end of the last bucket, or lies beyond it *)
(* by what the lookback leaves out.                                        *)
LEMMA ReadIndInv ==
  ASSUME IndInv, ReadRange
  PROVE  IndInv'
<1> DEFINE till == Max(Stamps(Present(Item))) + 1
           ends == {till - Lookback} \cup {b.till : b \in {c \in buckets : c.till > till - Lookback}}
<1>1. Present(Item) # {} /\ RangeStart(till) < till /\ stamp' = stamp /\ buckets' = buckets
      /\ range' = [from |-> RangeStart(till), till |-> till]
  BY DEF ReadRange
<1>2. till \in Int /\ Lookback \in Int
  <2>1. Stamps(Present(Item)) # {}
    BY <1>1 DEF Stamps
  <2>2. Stamps(Present(Item)) \subseteq Int /\ IsFiniteSet(Stamps(Present(Item)))
    BY StampsAreFinite DEF IndInv
  <2>3. Max(Stamps(Present(Item))) \in Int
    BY <2>1, <2>2, GreatestOfFinite
  <2> QED  BY <2>3, MetricsAssumption
<1> HIDE DEF till
<1>3. \A b \in buckets : b.till \in Int
  BY MetricsAssumption DEF IndInv, BucketsInv, BucketOf
<1>4. RangeStart(till) \in ends /\ \A e \in ends : e <= RangeStart(till)
  <2>1. ends \subseteq Int /\ ends # {}
    BY <1>2, <1>3
  <2>2. IsFiniteSet(ends)
    <3> DEFINE late == {c \in buckets : c.till > till - Lookback}
               f == [b \in late |-> b.till]
    <3>1. IsFiniteSet(late)
      BY FS_Subset DEF IndInv, BucketsInv
    <3>2. f \in Surjection(late, {b.till : b \in late})
      BY DEF Surjection
    <3> HIDE DEF f, late
    <3>3. IsFiniteSet({b.till : b \in late})
      BY <3>1, <3>2, FS_Surjection
    <3>4. IsFiniteSet({till - Lookback} \cup {b.till : b \in late})
      BY <3>3, FS_Singleton, FS_Union
    <3> QED  BY <3>4 DEF late
  <2>3. RangeStart(till) = Max(ends)
    BY DEF RangeStart
  <2> HIDE DEF ends
  <2> QED  BY <2>1, <2>2, <2>3, GreatestOfFinite
<1>5. RangeStart(till) \in Int /\ till - RangeStart(till) <= Lookback
  BY <1>2, <1>3, <1>4
<1>6. \A b \in buckets : b.till <= RangeStart(till)
  <2> TAKE b \in buckets
  <2>1. CASE b.till > till - Lookback
    <3>1. b.till \in ends
      BY <2>1
    <3> HIDE DEF ends
    <3> QED  BY <1>4, <3>1
  <2>2. CASE ~ (b.till > till - Lookback)
    BY <1>2, <1>3, <1>5, <2>2
  <2> QED  BY <2>1, <2>2
<1>7. RangeInv'
  BY <1>1, <1>2, <1>5, <1>6 DEF RangeInv
<1>8. StampInv' /\ BucketsInv' /\ GapsInv'
  BY <1>1 DEF IndInv, StampInv, BucketsInv, GapsInv, Gaps, Between, BucketOf, Apart, Present, Within
<1> QED  BY <1>7, <1>8 DEF IndInv
-----------------------------------------------------------------------------
\* The blocks BlockTimes looks at: those of the slot, and those before it.
Inside(from, till) == Stamps(Within(Blocks, from, Min({till, range.till})))
Before(from) == Stamps(Within(Blocks, range.from, Min({from, range.till})))

\* The time between the last block before the slot, or its first, and its last.
GapStart(from, till) ==
  IF Before(from) = {} THEN Min(Inside(from, till)) ELSE Max(Before(from))
Gap(from, till) ==
  IF Inside(from, till) = {} THEN {} ELSE GapStart(from, till) .. Max(Inside(from, till)) - 1

(* Slots begin with the range and do not overlap.                          *)
LEMMA SlotsApart ==
  ASSUME RangeInv, range # None
  PROVE  /\ IsFiniteSet(Slots)
         /\ \A s \in Slots : s.from \in Int /\ s.till = s.from + BucketSeconds /\ range.from <= s.from
         /\ \A r, s \in Slots : r = s \/ Apart(r, s)
<1> DEFINE start(k) == range.from + k * BucketSeconds
           last == (range.till - range.from) \div BucketSeconds
           slot(k) == [from |-> start(k), till |-> range.from + (k + 1) * BucketSeconds]
<1>1. range.from \in Int /\ range.till \in Int /\ BucketSeconds \in Nat /\ BucketSeconds > 0
  BY MetricsAssumption DEF RangeInv
<1>2. last \in Int
  BY <1>1
<1>3. Slots = {slot(k) : k \in 0 .. last}
  BY DEF Slots
<1>4. IsFiniteSet(Slots)
  <2> DEFINE f == [k \in 0 .. last |-> slot(k)]
  <2>1. f \in Surjection(0 .. last, Slots)
    <3> HIDE DEF slot, last
    <3> QED  BY <1>3 DEF Surjection
  <2>2. IsFiniteSet(0 .. last)
    BY <1>2, FS_Interval
  <2> HIDE DEF f
  <2> QED  BY <2>1, <2>2, FS_Surjection
<1>5. \A k \in Nat : /\ k * BucketSeconds \in Nat
                     /\ (k + 1) * BucketSeconds = k * BucketSeconds + BucketSeconds
  BY <1>1
<1>6. \A s \in Slots : s.from \in Int /\ s.till = s.from + BucketSeconds /\ range.from <= s.from
  BY <1>1, <1>3, <1>5
<1>7. ASSUME NEW j \in Nat, NEW k \in Nat, j < k
      PROVE  (j + 1) * BucketSeconds <= k * BucketSeconds
  <2>1. PICK d \in Nat : k = (j + 1) + d
    <3>1. k - (j + 1) \in Nat /\ k = (j + 1) + (k - (j + 1))
      BY <1>7
    <3> QED  BY <3>1
  <2>2. k * BucketSeconds = (j + 1) * BucketSeconds + d * BucketSeconds
    BY <1>1, <2>1
  <2>3. d * BucketSeconds \in Nat /\ (j + 1) * BucketSeconds \in Nat
    BY <1>1
  <2> QED  BY <2>2, <2>3
<1>8. ASSUME NEW j \in 0 .. last, NEW k \in 0 .. last, j < k
      PROVE  Apart(slot(j), slot(k))
  <2>1. j \in Nat /\ k \in Nat
    BY <1>2
  <2>2. (j + 1) * BucketSeconds <= k * BucketSeconds
    BY <1>7, <1>8, <2>1
  <2>3. (j + 1) * BucketSeconds \in Int /\ k * BucketSeconds \in Int
    BY <1>1, <2>1
  <2> QED  BY <1>1, <2>2, <2>3 DEF Apart
<1>9. ASSUME NEW j \in 0 .. last, NEW k \in 0 .. last
      PROVE  slot(j) = slot(k) \/ Apart(slot(j), slot(k))
  <2>1. j < k \/ k < j \/ j = k
    BY <1>2
  <2> HIDE DEF slot, last
  <2> QED  BY <1>8, <2>1 DEF Apart
<1>10. \A r, s \in Slots : r = s \/ Apart(r, s)
  <2> HIDE DEF slot, last
  <2> QED  BY <1>3, <1>9
<1> QED  BY <1>4, <1>6, <1>10

(* What the blocks of a slot and those before it are.                      *)
LEMMA InsideAndBefore ==
  ASSUME StampInv, RangeInv, range # None, NEW from \in Int, range.from <= from, NEW till \in Int
  PROVE  /\ Inside(from, till) = {stamp[i] : i \in {j \in Present(Blocks) :
                  stamp[j] >= from /\ stamp[j] < till /\ stamp[j] < range.till}}
         /\ Before(from) = {stamp[i] : i \in {j \in Present(Blocks) :
                  stamp[j] >= range.from /\ stamp[j] < from /\ stamp[j] < range.till}}
         /\ Inside(from, till) \subseteq Time /\ IsFiniteSet(Inside(from, till))
         /\ Before(from) \subseteq Time /\ IsFiniteSet(Before(from))
<1>1. range.from \in Int /\ range.till \in Int
  BY DEF RangeInv
<1>2. Blocks \subseteq Item /\ Present(Blocks) \subseteq Present(Item)
  BY DEF Item, Present
<1>3. Time \subseteq Int
  BY MetricsAssumption DEF Time
<1>4. \A j \in Present(Blocks) : stamp[j] \in Int
  BY <1>2, PresentHasStamp
<1>5. ASSUME NEW a \in Int, NEW b \in Int
      PROVE  Within(Blocks, a, Min({b, range.till}))
               = {j \in Present(Blocks) : stamp[j] >= a /\ stamp[j] < b /\ stamp[j] < range.till}
  <2>1. Min({b, range.till}) = IF b <= range.till THEN b ELSE range.till
    BY <1>1, MinOfTwo
  <2>2. \A j \in Present(Blocks) :
          stamp[j] < Min({b, range.till}) <=> stamp[j] < b /\ stamp[j] < range.till
    BY <1>1, <1>4, <2>1
  <2> QED  BY <2>2 DEF Within
<1>6. ASSUME NEW a \in Int, NEW b \in Int
      PROVE  /\ Stamps(Within(Blocks, a, Min({b, range.till}))) \subseteq Time
             /\ IsFiniteSet(Stamps(Within(Blocks, a, Min({b, range.till}))))
  <2>1. Within(Blocks, a, Min({b, range.till})) \subseteq Present(Item)
    BY <1>2, <1>5
  <2> QED  BY <2>1, StampsAreFinite
<1>7. Inside(from, till) \subseteq Time /\ IsFiniteSet(Inside(from, till))
      /\ Before(from) \subseteq Time /\ IsFiniteSet(Before(from))
  BY <1>1, <1>6 DEF Inside, Before
<1>8. Inside(from, till) = {stamp[i] : i \in {j \in Present(Blocks) :
                  stamp[j] >= from /\ stamp[j] < till /\ stamp[j] < range.till}}
  BY <1>5 DEF Inside, Stamps
<1>9. Before(from) = {stamp[i] : i \in {j \in Present(Blocks) :
                  stamp[j] >= range.from /\ stamp[j] < from /\ stamp[j] < range.till}}
  BY <1>1, <1>5 DEF Before, Stamps
<1> QED  BY <1>7, <1>8, <1>9

(* A gap lies between two blocks of the range, and ends inside its slot.   *)
LEMMA GapBetween ==
  ASSUME StampInv, RangeInv, range # None, NEW from \in Int, range.from <= from,
         NEW till \in Int, Inside(from, till) # {}
  PROVE  /\ GapStart(from, till) \in Time /\ Max(Inside(from, till)) \in Time
         /\ GapStart(from, till) <= Max(Inside(from, till))
         /\ range.from <= GapStart(from, till) /\ Max(Inside(from, till)) < till
         /\ \E i, j \in Present(Blocks) :
               stamp[i] = GapStart(from, till) /\ stamp[j] = Max(Inside(from, till))
<1> DEFINE inside == Inside(from, till)
           before == Before(from)
<1>1. Time \subseteq Nat /\ Time \subseteq Int /\ range.from \in Int
  BY MetricsAssumption DEF Time, RangeInv
<1>2. /\ \A t \in inside : t >= from /\ t < till /\ \E j \in Present(Blocks) : stamp[j] = t
      /\ \A t \in before : t >= range.from /\ t < from /\ \E j \in Present(Blocks) : stamp[j] = t
      /\ inside \subseteq Time /\ IsFiniteSet(inside) /\ before \subseteq Time /\ IsFiniteSet(before)
  BY InsideAndBefore
<1>3. GapStart(from, till) = IF before = {} THEN Min(inside) ELSE Max(before)
  BY DEF GapStart
<1> HIDE DEF inside, before
<1>4. inside # {}
  BY DEF inside
<1>5. inside \subseteq Int /\ before \subseteq Int /\ inside \subseteq Nat
  BY <1>1, <1>2
<1>6. Max(inside) \in inside /\ \A t \in inside : t <= Max(inside)
  BY <1>2, <1>4, <1>5, GreatestOfFinite
<1>7. CASE before = {}
  <2>1. Min(inside) \in inside
    BY <1>4, <1>5, LeastIsMin
  <2> QED  BY <1>1, <1>2, <1>3, <1>5, <1>6, <1>7, <2>1 DEF inside
<1>8. CASE before # {}
  <2>1. Max(before) \in before
    BY <1>2, <1>5, <1>8, GreatestOfFinite
  <2>2. Max(before) < from /\ from <= Max(inside)
    BY <1>2, <1>6, <2>1
  <2>3. GapStart(from, till) <= Max(inside)
    <3>1. Max(before) \in Int /\ Max(inside) \in Int /\ from \in Int
      BY <1>5, <1>6, <2>1
    <3> QED  BY <1>3, <1>8, <2>2, <3>1
  <2> QED  BY <1>1, <1>2, <1>3, <1>5, <1>6, <1>8, <2>1, <2>3 DEF inside
<1> QED  BY <1>7, <1>8

(* The block times of a slot are the length of its gap, which ends inside  *)
(* the slot.                                                               *)
LEMMA GapIsBlockTimes ==
  ASSUME StampInv, RangeInv, range # None, NEW s, s.from \in Int, s.till \in Int,
         range.from <= s.from
  PROVE  /\ BlockTimes(s).sum \in Nat /\ BlockTimes(s).number \in Nat
         /\ Gap(s.from, s.till) \subseteq Between
         /\ Cardinality(Gap(s.from, s.till)) = BlockTimes(s).sum
         /\ \A t \in Gap(s.from, s.till) : range.from <= t /\ t < s.till
<1> DEFINE inside == Inside(s.from, s.till)
           before == Before(s.from)
           counted == Within(Blocks, s.from, Min({s.till, range.till}))
           number == Cardinality(counted)
           lo == GapStart(s.from, s.till)
           hi == Max(inside)
<1>1. range.from \in Int /\ range.till \in Int /\ Time \subseteq Nat /\ Time = 0 .. MaxTime
      /\ MaxTime \in Nat
  BY MetricsAssumption DEF RangeInv, Time
<1>2. Max({s.from, range.from}) = s.from /\ Max({range.from, range.from}) = range.from
  BY <1>1, MaxOfTwo
<1>3. BlockTimes(s) = IF inside = {} THEN [sum |-> 0, number |-> 0]
                      ELSE IF before = {} THEN [sum |-> hi - Min(inside), number |-> number - 1]
                      ELSE [sum |-> hi - Max(before), number |-> number]
  BY <1>2 DEF BlockTimes, Inside, Before
<1>4. number \in Nat /\ (inside # {} => number # 0)
  <2>1. Min({s.till, range.till}) \in Int
    BY <1>1, MinOfTwo
  <2>2. IsFiniteSet(counted) /\ number \in Nat
    <3>1. Blocks \in SUBSET Item
      BY DEF Item
    <3> QED  BY <2>1, <3>1, RowsAreFinite
  <2>3. inside # {} => counted # {}
    BY DEF Inside, Stamps
  <2> HIDE DEF counted
  <2> QED  BY <2>2, <2>3, FS_EmptySet
<1>5. Gap(s.from, s.till) = IF inside = {} THEN {} ELSE lo .. hi - 1
  BY DEF Gap
<1>6. CASE inside = {}
  BY <1>3, <1>5, <1>6, FS_EmptySet
<1>7. CASE inside # {}
  <2>1. /\ lo \in Time /\ hi \in Time /\ lo <= hi /\ range.from <= lo /\ hi < s.till
        /\ \E i, j \in Present(Blocks) : stamp[i] = lo /\ stamp[j] = hi
    BY <1>7, GapBetween
  <2>2. lo = IF before = {} THEN Min(inside) ELSE Max(before)
    BY DEF GapStart
  <2> HIDE DEF inside, before, number, lo, hi
  <2>3. BlockTimes(s).sum = hi - lo /\ BlockTimes(s).number \in {number - 1, number}
    BY <1>3, <1>7, <2>2
  <2>4. BlockTimes(s).sum \in Nat /\ BlockTimes(s).number \in Nat
    BY <1>1, <1>4, <1>7, <2>1, <2>3
  <2>5. Gap(s.from, s.till) = lo .. hi - 1
    BY <1>5, <1>7
  <2>6. Cardinality(lo .. hi - 1) = hi - lo
    <3>1. lo \in Int /\ hi - 1 \in Int
      BY <1>1, <2>1
    <3>2. Cardinality(lo .. hi - 1) = IF lo > hi - 1 THEN 0 ELSE (hi - 1) - lo + 1
      BY <3>1, FS_Interval
    <3> QED  BY <1>1, <2>1, <3>2
  <2>7. lo .. hi - 1 \subseteq Between
    <3>1. PICK i, j \in Present(Blocks) : stamp[i] = lo /\ stamp[j] = hi
      BY <2>1
    <3>2. \A t \in lo .. hi - 1 : t \in Time /\ stamp[i] <= t /\ t < stamp[j]
      BY <1>1, <2>1, <3>1
    <3> QED  BY <3>2 DEF Between
  <2>8. \A t \in lo .. hi - 1 : range.from <= t /\ t < s.till
    BY <1>1, <2>1
  <2> QED  BY <2>3, <2>4, <2>5, <2>6, <2>7, <2>8
<1> QED  BY <1>6, <1>7

(* The gap of a slot begins where that of an earlier one has ended.        *)
LEMMA GapsApart ==
  ASSUME StampInv, RangeInv, range # None, NEW r, NEW s,
         r.from \in Int, r.till \in Int, s.from \in Int, s.till \in Int,
         range.from <= r.from, range.from <= s.from, r.till <= s.from
  PROVE  Gap(r.from, r.till) \cap Gap(s.from, s.till) = {}
<1> SUFFICES ASSUME NEW t \in Gap(r.from, r.till), t \in Gap(s.from, s.till) PROVE FALSE
  OBVIOUS
<1> DEFINE earlier == Inside(r.from, r.till)
           before == Before(s.from)
<1>1. earlier # {} /\ t \in Int /\ t < Max(earlier) /\ Max(earlier) \in earlier
  <2>1. earlier # {}
    BY DEF Gap
  <2>2. earlier \subseteq Time /\ IsFiniteSet(earlier) /\ Time \subseteq Int
    BY InsideAndBefore, MetricsAssumption DEF Time
  <2>3. Max(earlier) \in earlier
    BY <2>1, <2>2, GreatestOfFinite
  <2>4. t \in GapStart(r.from, r.till) .. Max(earlier) - 1
    BY <2>1 DEF Gap
  <2>5. GapStart(r.from, r.till) \in Int /\ Max(earlier) \in Int
    BY <2>1, <2>2, <2>3, GapBetween
  <2> HIDE DEF earlier
  <2> QED  BY <2>1, <2>3, <2>4, <2>5
<1>2. Max(earlier) \in before
  <2>1. PICK j \in Present(Blocks) :
          stamp[j] = Max(earlier) /\ stamp[j] >= r.from /\ stamp[j] < r.till /\ stamp[j] < range.till
    BY <1>1, InsideAndBefore
  <2>2. stamp[j] \in Int /\ range.from \in Int
    <3>1. j \in Present(Item)
      BY DEF Item, Present
    <3> QED  BY <3>1, PresentHasStamp DEF RangeInv
  <2>3. stamp[j] >= range.from /\ stamp[j] < s.from
    BY <2>1, <2>2
  <2> HIDE DEF earlier
  <2> QED  BY <2>1, <2>3, InsideAndBefore
<1>3. \A u \in before : u <= Max(before)
  <2>1. before \subseteq Int /\ IsFiniteSet(before) /\ before # {}
    BY <1>2, InsideAndBefore, MetricsAssumption DEF Time
  <2> HIDE DEF before
  <2> QED  BY <2>1, GreatestOfFinite
<1>4. t >= Max(before)
  <2>1. before # {} /\ Inside(s.from, s.till) # {}
    BY <1>2 DEF Gap
  <2>2. t \in Max(before) .. Max(Inside(s.from, s.till)) - 1
    BY <2>1 DEF Gap, GapStart
  <2>3. Max(before) \in Int /\ Max(Inside(s.from, s.till)) \in Int
    <3>1. GapStart(s.from, s.till) = Max(before)
      BY <2>1 DEF GapStart
    <3>2. Time \subseteq Int
      BY MetricsAssumption DEF Time
    <3> QED  BY <2>1, <3>1, <3>2, GapBetween
  <2> HIDE DEF before
  <2> QED  BY <2>2, <2>3
<1>5. Max(earlier) <= Max(before) /\ Max(earlier) \in Int /\ Max(before) \in Int
  <2>1. before \subseteq Int /\ IsFiniteSet(before) /\ before # {}
    BY <1>2, InsideAndBefore, MetricsAssumption DEF Time
  <2>2. Max(earlier) <= Max(before)
    BY <1>2, <1>3
  <2> HIDE DEF before, earlier
  <2> QED  BY <1>2, <2>1, <2>2, GreatestOfFinite
<1> HIDE DEF before, earlier
<1> QED  BY <1>1, <1>4, <1>5

(* The buckets of a refresh: each counts rows of its slot, as they are.    *)
LEMMA FilledIsBucket ==
  ASSUME StampInv, RangeInv, range # None, NEW s \in Slots
  PROVE  /\ BucketOf(Filled(s)) /\ Filled(s).from = s.from /\ Filled(s).till = s.till
         /\ Filled(s).times = BlockTimes(s)
         /\ range.from <= s.from /\ s.from \in Int /\ s.till \in Int
<1>1. s.from \in Int /\ s.till = s.from + BucketSeconds /\ range.from <= s.from /\ s.till \in Int
  BY SlotsApart, MetricsAssumption
<1>2. /\ Filled(s).from = s.from /\ Filled(s).till = s.till /\ Filled(s).times = BlockTimes(s)
      /\ Filled(s).deployments = Cardinality(Within(Deployments, s.from, s.till))
      /\ Filled(s).transfers = Cardinality(Within(Transfers, s.from, s.till))
  BY DEF Filled
<1>3. Cardinality(Within(Deployments, s.from, s.till)) \in Nat
      /\ Cardinality(Within(Transfers, s.from, s.till)) \in Nat
  <2>1. Deployments \in SUBSET Item /\ Transfers \in SUBSET Item
    BY DEF Item
  <2> QED  BY <1>1, <2>1, RowsAreFinite
<1>4. BlockTimes(s).sum \in Nat /\ BlockTimes(s).number \in Nat
  BY <1>1, GapIsBlockTimes
<1> HIDE DEF Filled
<1>5. BucketOf(Filled(s))
  BY <1>1, <1>2, <1>3, <1>4 DEF BucketOf
<1> QED  BY <1>1, <1>2, <1>5

(* All of a refresh lies beyond what was there, so that nothing is         *)
(* replaced and nothing is counted again.                                  *)
LEMMA FillIndInv ==
  ASSUME IndInv, FillBuckets
  PROVE  IndInv'
<1> DEFINE new == {Filled(s) : s \in Slots}
<1>1. range # None /\ range' = None /\ stamp' = stamp
      /\ buckets' = {b \in buckets : \A n \in new : n.from # b.from} \cup new
  BY DEF FillBuckets
<1>2. StampInv /\ RangeInv /\ BucketsInv /\ GapsInv
  BY DEF IndInv
<1>3. ASSUME NEW n \in new
      PROVE  /\ BucketOf(n) /\ n.from \in Int /\ n.till \in Int /\ range.from <= n.from
             /\ \E s \in Slots : n = Filled(s) /\ n.from = s.from /\ n.till = s.till
             /\ Cardinality(Gap(n.from, n.till)) = n.times.sum
             /\ Gap(n.from, n.till) \subseteq Between
             /\ \A t \in Gap(n.from, n.till) : range.from <= t /\ t < n.till
  <2>1. PICK s \in Slots : n = Filled(s)
    OBVIOUS
  <2>2. /\ BucketOf(n) /\ n.from = s.from /\ n.till = s.till /\ n.times = BlockTimes(s)
        /\ range.from <= s.from /\ s.from \in Int /\ s.till \in Int
    BY <1>1, <1>2, <2>1, FilledIsBucket
  <2>3. /\ Cardinality(Gap(s.from, s.till)) = BlockTimes(s).sum
        /\ Gap(s.from, s.till) \subseteq Between
        /\ \A t \in Gap(s.from, s.till) : range.from <= t /\ t < s.till
    BY <1>1, <1>2, <2>2, GapIsBlockTimes
  <2> QED  BY <2>1, <2>2, <2>3
<1>4. IsFiniteSet(new)
  <2> DEFINE f == [s \in Slots |-> Filled(s)]
  <2>1. f \in Surjection(Slots, new)
    BY DEF Surjection
  <2> HIDE DEF f, new
  <2> QED  BY <1>1, <1>2, <2>1, SlotsApart, FS_Surjection
<1>5. \A m, n \in new : m = n \/ Apart(m, n)
  <2> TAKE m, n \in new
  <2>1. PICK r \in Slots : m = Filled(r) /\ m.from = r.from /\ m.till = r.till
    BY <1>3
  <2>2. PICK s \in Slots : n = Filled(s) /\ n.from = s.from /\ n.till = s.till
    BY <1>3
  <2>3. r = s \/ Apart(r, s)
    BY <1>1, <1>2, SlotsApart
  <2> HIDE DEF new
  <2> QED  BY <2>1, <2>2, <2>3 DEF Apart
<1> HIDE DEF new
<1>6. ASSUME NEW b \in buckets
      PROVE  /\ BucketOf(b) /\ b.from \in Int /\ b.till \in Int /\ b.from < b.till
             /\ b.till <= range.from
  <2>1. BucketOf(b) /\ b.till <= range.from
    BY <1>1, <1>2 DEF BucketsInv, RangeInv
  <2> QED  BY <2>1, MetricsAssumption DEF BucketOf
<1>7. range.from \in Int
  BY <1>1, <1>2 DEF RangeInv
<1>8. \A b \in buckets, n \in new : Apart(b, n) /\ b.from # n.from /\ b # n
  BY <1>3, <1>6, <1>7 DEF Apart
<1>9. buckets' = buckets \cup new
  BY <1>1, <1>8
<1>10. StampInv' /\ RangeInv'
  BY <1>1, <1>2 DEF StampInv, RangeInv, Present
<1>11. BucketsInv'
  <2>1. IsFiniteSet(buckets')
    BY <1>2, <1>4, <1>9, FS_Union DEF BucketsInv
  <2>2. \A b \in buckets' : BucketOf(b)'
    <3>1. \A b \in buckets' : BucketOf(b)
      BY <1>3, <1>6, <1>9
    <3> QED  BY <1>1, <3>1 DEF BucketOf, Within, Present
  <2>3. \A b, c \in buckets' : b = c \/ Apart(b, c)
    BY <1>2, <1>5, <1>8, <1>9 DEF BucketsInv, Apart
  <2> QED  BY <2>1, <2>2, <2>3 DEF BucketsInv, Apart
<1>12. GapsInv'
  <2>1. PICK gap \in [buckets -> SUBSET Between] : Gaps(gap)
    BY <1>2 DEF GapsInv
  <2>0. PICK gapNext :
          gapNext = [b \in buckets' |-> IF b \in buckets THEN gap[b] ELSE Gap(b.from, b.till)]
    OBVIOUS
  <2>2. /\ \A b \in buckets : gapNext[b] = gap[b]
        /\ \A n \in new : gapNext[n] = Gap(n.from, n.till)
    BY <1>8, <1>9, <2>0
  <2>3. Between' = Between
    BY <1>1 DEF Between, Present
  <2>4. gapNext \in [buckets' -> SUBSET Between']
    <3>1. \A b \in buckets' : gapNext[b] \subseteq Between
      BY <1>3, <1>9, <2>1, <2>2
    <3> QED  BY <2>0, <2>3, <3>1
  <2>5. ASSUME NEW b \in buckets'
        PROVE  /\ gapNext[b] \subseteq Between /\ Cardinality(gapNext[b]) = b.times.sum
               /\ \A t \in gapNext[b] : t < b.till
    <3>1. CASE b \in buckets
      BY <2>1, <2>2, <3>1 DEF Gaps
    <3>2. CASE b \in new
      BY <1>3, <2>2, <3>2
    <3> QED  BY <1>9, <3>1, <3>2
  <2>6. ASSUME NEW m \in new, NEW n \in new, m # n
        PROVE  gapNext[m] \cap gapNext[n] = {}
    <3>1. Apart(m, n)
      BY <1>5, <2>6
    <3>2. CASE m.till <= n.from
      <4>1. Gap(m.from, m.till) \cap Gap(n.from, n.till) = {}
        BY <1>1, <1>2, <1>3, <3>2, GapsApart
      <4> QED  BY <2>2, <4>1
    <3>3. CASE n.till <= m.from
      <4>1. Gap(n.from, n.till) \cap Gap(m.from, m.till) = {}
        BY <1>1, <1>2, <1>3, <3>3, GapsApart
      <4> QED  BY <2>2, <4>1
    <3> QED  BY <3>1, <3>2, <3>3 DEF Apart
  <2>7. ASSUME NEW b \in buckets, NEW n \in new
        PROVE  gapNext[b] \cap gapNext[n] = {}
    <3>1. \A t \in gap[b] : t \in Int /\ t < b.till
      <4>1. gap[b] \subseteq Between /\ Between \subseteq Int
        BY <2>1, MetricsAssumption DEF Between, Time
      <4> QED  BY <2>1, <4>1 DEF Gaps
    <3>2. \A t \in Gap(n.from, n.till) : range.from <= t
      BY <1>3
    <3>3. b.till <= range.from /\ b.till \in Int
      BY <1>6
    <3> QED  BY <1>7, <2>2, <3>1, <3>2, <3>3
  <2>8. \A b, c \in buckets' : b # c => gapNext[b] \cap gapNext[c] = {}
    <3>1. \A b, c \in buckets : b # c => gapNext[b] \cap gapNext[c] = {}
      BY <2>1, <2>2 DEF Gaps
    <3> QED  BY <1>9, <2>6, <2>7, <3>1
  <2>9. Gaps(gapNext)'
    BY <2>3, <2>5, <2>8 DEF Gaps
  <2> QED  BY <2>4, <2>9 DEF GapsInv
<1> QED  BY <1>10, <1>11, <1>12 DEF IndInv

(* Rows, calls and failed calls keep the invariant.                        *)
LEMMA NextIndInv == IndInv /\ [Next]_vars => IndInv'
<1> SUFFICES ASSUME IndInv, [Next]_vars PROVE IndInv'
  OBVIOUS
<1>1. ASSUME NEW i \in Item, NEW t \in Time, Index(i, t) PROVE IndInv'
  BY <1>1, IndexIndInv
<1>2. CASE ReadRange
  BY <1>2, ReadIndInv
<1>3. CASE FillBuckets
  BY <1>3, FillIndInv
<1>4. CASE RefreshFails \/ UNCHANGED vars
  <2>1. stamp' = stamp /\ buckets' = buckets /\ range' \in {range, None}
    BY <1>4 DEF RefreshFails, vars
  <2>2. StampInv' /\ BucketsInv' /\ GapsInv'
    BY <2>1 DEF IndInv, StampInv, BucketsInv, GapsInv, Gaps, Between, BucketOf, Apart, Present, Within
  <2>3. RangeInv'
    BY <2>1 DEF IndInv, RangeInv
  <2> QED  BY <2>2, <2>3 DEF IndInv
<1> QED  BY <1>1, <1>2, <1>3, <1>4 DEF Next

(* The invariant, from which the theorems follow.                          *)
LEMMA AlwaysIndInv == FairSpec => []IndInv
BY InitIndInv, NextIndInv, PTL DEF FairSpec
-----------------------------------------------------------------------------
(* Types; a refresh looks no further back than the lookback, and every     *)
(* bucket is as long as the others.                                        *)
THEOREM TypeCorrect == FairSpec => []TypeOK
<1>1. IndInv => TypeOK
  BY DEF IndInv, StampInv, BucketsInv, BucketOf, RangeInv, TypeOK
<1> QED  BY <1>1, AlwaysIndInv, PTL

(* The rows that buckets count, as far as they lie in a set of rows, are   *)
(* no more than the set has.                                               *)
LEMMA CountsWithin ==
  ASSUME IndInv, NEW set, set \in {Deployments, Transfers}, NEW count,
         NEW part \in SUBSET buckets, NEW rows \in SUBSET Present(set),
         \A b \in part : /\ count[b] \in 0 .. Cardinality(Within(set, b.from, b.till))
                         /\ Within(set, b.from, b.till) \subseteq rows
  PROVE  SumOf(count, part) <= Cardinality(rows)
<1> DEFINE of == [b \in part |-> Within(set, b.from, b.till)]
<1>1. Time \subseteq Int /\ set \in SUBSET Item /\ StampInv
  BY MetricsAssumption DEF Time, Item, IndInv
<1>2. \A b \in buckets : b.from \in Int /\ b.till \in Int
  BY MetricsAssumption DEF IndInv, BucketsInv, BucketOf
<1>3. IsFiniteSet(part) /\ IsFiniteSet(rows)
  <2>1. IsFiniteSet(part)
    BY FS_Subset DEF IndInv, BucketsInv
  <2>2. Present(set) \subseteq Present(Item)
    BY <1>1 DEF Present
  <2> QED  BY <1>1, <2>1, <2>2, FS_Subset DEF StampInv
<1>4. \A b \in part : of[b] \subseteq rows /\ count[b] \in Nat /\ count[b] <= Cardinality(of[b])
  <2> TAKE b \in part
  <2>1. Cardinality(Within(set, b.from, b.till)) \in Nat
    BY <1>1, <1>2, RowsAreFinite
  <2> QED  BY <2>1
<1>5. \A b, c \in part : b # c => of[b] \cap of[c] = {}
  <2> SUFFICES ASSUME NEW b \in part, NEW c \in part, b # c, NEW i \in of[b], i \in of[c]
               PROVE  FALSE
    OBVIOUS
  <2>1. /\ stamp[i] >= b.from /\ stamp[i] < b.till /\ stamp[i] >= c.from /\ stamp[i] < c.till
        /\ i \in Present(set)
    BY DEF Within
  <2>2. stamp[i] \in Int
    BY <1>1, <2>1, PresentHasStamp DEF Present
  <2>3. Apart(b, c)
    BY DEF IndInv, BucketsInv
  <2> QED  BY <1>2, <2>1, <2>2, <2>3 DEF Apart
<1> HIDE DEF of
<1>6. Sum(count, part) <= Cardinality(rows)
  BY <1>3, <1>4, <1>5, SumOfApart
<1> QED  BY <1>6 DEF Sum, SumOf

(* The time that buckets count lies between the first and the last block.  *)
LEMMA TimesWithin ==
  ASSUME IndInv, Present(Blocks) # {}
  PROVE  SumOf([b \in buckets |-> b.times.sum], buckets)
           <= Max(Stamps(Present(Blocks))) - Min(Stamps(Present(Blocks)))
<1> DEFINE stamps == Stamps(Present(Blocks))
           first == Min(stamps)
           last == Max(stamps)
           times == [b \in buckets |-> b.times.sum]
<1>1. /\ stamps \subseteq Int /\ stamps \subseteq Nat /\ IsFiniteSet(stamps) /\ stamps # {}
      /\ \A i \in Present(Blocks) : stamp[i] \in stamps
  <2>1. Present(Blocks) \in SUBSET Present(Item) /\ Time \subseteq Nat
    BY MetricsAssumption DEF Present, Item, Time
  <2>2. stamps \subseteq Time /\ IsFiniteSet(stamps)
    BY <2>1, StampsAreFinite DEF IndInv
  <2>3. stamps # {} /\ \A i \in Present(Blocks) : stamp[i] \in stamps
    BY DEF Stamps
  <2>4. Time \subseteq Int
    BY <2>1
  <2> HIDE DEF stamps
  <2> QED  BY <2>1, <2>2, <2>3, <2>4
<1>2. first \in Nat /\ last \in Nat /\ first <= last /\ \A t \in stamps : first <= t /\ t <= last
  <2> HIDE DEF stamps
  <2> QED  BY <1>1, LeastIsMin, GreatestOfFinite
<1>3. Between \subseteq first .. last - 1
  <2> SUFFICES ASSUME NEW t \in Between PROVE t \in first .. last - 1
    OBVIOUS
  <2>1. PICK i, j \in Present(Blocks) : stamp[i] <= t /\ t < stamp[j]
    BY DEF Between
  <2>2. t \in Nat
    BY MetricsAssumption DEF Between, Time
  <2>3. /\ stamp[i] \in Nat /\ first <= stamp[i]
        /\ stamp[j] \in Nat /\ stamp[j] <= last
    BY <1>1, <1>2
  <2> HIDE DEF first, last, stamps
  <2> QED  BY <1>2, <2>1, <2>2, <2>3
<1> HIDE DEF first, last, stamps
<1>4. IsFiniteSet(Between) /\ Cardinality(Between) <= last - first
  <2>1. IsFiniteSet(first .. last - 1) /\ Cardinality(first .. last - 1) = last - first
    <3>1. first \in Int /\ last - 1 \in Int
      BY <1>2
    <3>2. IsFiniteSet(first .. last - 1)
          /\ Cardinality(first .. last - 1) = IF first > last - 1 THEN 0 ELSE (last - 1) - first + 1
      BY <3>1, FS_Interval
    <3> QED  BY <1>2, <3>2
  <2>2. IsFiniteSet(Between) /\ Cardinality(Between) <= Cardinality(first .. last - 1)
    BY <1>3, <2>1, FS_Subset
  <2> QED  BY <2>1, <2>2
<1>5. PICK gap \in [buckets -> SUBSET Between] : Gaps(gap)
  BY DEF IndInv, GapsInv
<1>6. \A b \in buckets : gap[b] \subseteq Between /\ times[b] \in Nat
                         /\ times[b] <= Cardinality(gap[b])
  BY <1>5 DEF Gaps, IndInv, BucketsInv, BucketOf
<1>7. \A b, c \in buckets : b # c => gap[b] \cap gap[c] = {}
  BY <1>5 DEF Gaps
<1> HIDE DEF times
<1>8. Sum(times, buckets) <= Cardinality(Between) /\ Sum(times, buckets) \in Int
  <2>1. IsFiniteSet(buckets)
    BY DEF IndInv, BucketsInv
  <2> QED  BY <1>4, <1>6, <1>7, <2>1, SumOfApart, SumWithout
<1>9. Sum(times, buckets) <= last - first
  BY <1>2, <1>4, <1>8, FS_CardinalityType
<1>10. SumOf(times, buckets) = Sum(times, buckets)
  BY DEF Sum, SumOf
<1> QED  BY <1>9, <1>10 DEF times, first, last, stamps

(* Buckets never overlap, and their deploys, transfers and block times are *)
(* no more than there are, whenever and with whatever timestamps the rows  *)
(* come and calls fail (refresh_network_metrics_buckets).                  *)
THEOREM CountedOnce == FairSpec => []NothingCountedTwice
<1>1. ASSUME IndInv PROVE NothingCountedTwice
  <2>1. \A b, c \in buckets : b.till <= c.from \/ c.till <= b.from \/ b = c
    BY <1>1 DEF IndInv, BucketsInv, Apart
  <2>2. \A b \in buckets : BucketOf(b)
    BY <1>1 DEF IndInv, BucketsInv
  <2>3. SumOf([b \in buckets |-> b.deployments], buckets) <= Cardinality(Present(Deployments))
    <3> DEFINE count == [b \in buckets |-> b.deployments]
    <3>1. \A b \in buckets : /\ count[b] \in 0 .. Cardinality(Within(Deployments, b.from, b.till))
                             /\ Within(Deployments, b.from, b.till) \subseteq Present(Deployments)
      BY <2>2 DEF BucketOf, Within
    <3> HIDE DEF count
    <3>2. SumOf(count, buckets) <= Cardinality(Present(Deployments))
      BY <1>1, <3>1, CountsWithin
    <3> QED  BY <3>2 DEF count
  <2>4. SumOf([b \in buckets |-> b.transfers], buckets) <= Cardinality(Present(Transfers))
    <3> DEFINE count == [b \in buckets |-> b.transfers]
    <3>1. \A b \in buckets : /\ count[b] \in 0 .. Cardinality(Within(Transfers, b.from, b.till))
                             /\ Within(Transfers, b.from, b.till) \subseteq Present(Transfers)
      BY <2>2 DEF BucketOf, Within
    <3> HIDE DEF count
    <3>2. SumOf(count, buckets) <= Cardinality(Present(Transfers))
      BY <1>1, <3>1, CountsWithin
    <3> QED  BY <3>2 DEF count
  <2> QED  BY <1>1, <2>1, <2>3, <2>4, TimesWithin DEF NothingCountedTwice
<1> QED  BY <1>1, AlwaysIndInv, PTL

(* For every range and number of divisions: a bucket counts in a division  *)
(* only if it lies in it as a whole, so that the fast path returns no more *)
(* for it than the slow one (get_network_metrics).                         *)
THEOREM FastIsWithinSlow == FairSpec => []FastWithinSlow
<1>1. ASSUME IndInv, buckets # {}, NEW i \in 0 .. Divisions - 1
      PROVE  FastCount(i) <= SlowCount(i)
  <2> DEFINE rows == {d \in Present(Deployments) : Divisions * stamp[d] >= From(i)
                                                   /\ Divisions * stamp[d] < From(i + 1)}
             count == [b \in buckets |-> b.deployments]
  <2>1. \A b \in buckets : BucketOf(b) /\ b.from \in Int /\ b.till \in Int
    BY <1>1, MetricsAssumption DEF IndInv, BucketsInv, BucketOf
  <2>2. Divisions \in Nat /\ RangeSeconds \in Nat /\ Divisions > 0
    BY MetricsAssumption
  <2>3. From(i) \in Int /\ From(i + 1) \in Int
    <3>1. RangeEnd \in Int
      <4> DEFINE ends == {b.till : b \in buckets}
                 f == [b \in buckets |-> b.till]
      <4>1. f \in Surjection(buckets, ends)
        BY DEF Surjection
      <4>2. IsFiniteSet(buckets) /\ ends \subseteq Int /\ ends # {}
        BY <1>1, <2>1 DEF IndInv, BucketsInv
      <4> HIDE DEF ends, f
      <4>3. Max(ends) \in ends
        BY <4>1, <4>2, FS_Surjection, GreatestOfFinite
      <4> QED  BY <1>1, <4>2, <4>3 DEF RangeEnd, ends
    <3>2. i \in Int
      BY <2>2
    <3> HIDE DEF RangeEnd
    <3> QED  BY <2>2, <3>1, <3>2 DEF From
  <2>4. ASSUME NEW x \in Int, NEW y \in Int, x <= y
        PROVE  Divisions * x <= Divisions * y /\ (x < y => Divisions * x < Divisions * y)
               /\ Divisions * x \in Int
    <3>1. PICK k \in Nat : y = x + k
      <4>1. y - x \in Nat /\ y = x + (y - x)
        BY <2>4
      <4> QED  BY <4>1
    <3>2. Divisions * y = Divisions * x + Divisions * k
      BY <2>2, <3>1
    <3>3. Divisions * k \in Nat /\ Divisions * x \in Int /\ (k > 0 => Divisions * k > 0)
      BY <2>2
    <3> QED  BY <3>1, <3>2, <3>3
  <2>5. ASSUME NEW b \in FastBuckets(i)
        PROVE  /\ count[b] \in 0 .. Cardinality(Within(Deployments, b.from, b.till))
               /\ Within(Deployments, b.from, b.till) \subseteq rows
    <3>1. b \in buckets /\ Divisions * b.from >= From(i) /\ Divisions * b.till <= From(i + 1)
      BY DEF FastBuckets, InDivision
    <3>2. ASSUME NEW d \in Within(Deployments, b.from, b.till) PROVE d \in rows
      <4>1. d \in Present(Deployments) /\ stamp[d] >= b.from /\ stamp[d] < b.till
        BY DEF Within
      <4>2. stamp[d] \in Int
        BY <1>1, <4>1, PresentHasStamp DEF IndInv, Present, Item
      <4>3. Divisions * b.from <= Divisions * stamp[d] /\ Divisions * stamp[d] < Divisions * b.till
            /\ Divisions * b.from \in Int /\ Divisions * stamp[d] \in Int
            /\ Divisions * b.till \in Int
        <5>1. b.from \in Int /\ b.till \in Int /\ b.from <= stamp[d] /\ stamp[d] <= b.till
              /\ stamp[d] < b.till
          BY <2>1, <3>1, <4>1, <4>2
        <5>2. Divisions * b.till \in Int
          BY <2>2, <5>1
        <5> QED  BY <2>4, <4>2, <5>1, <5>2
      <4> DEFINE low == Divisions * b.from
                 here == Divisions * stamp[d]
                 high == Divisions * b.till
      <4> HIDE DEF low, here, high
      <4>4. here >= From(i) /\ here < From(i + 1)
        BY <2>3, <3>1, <4>3 DEF low, here, high
      <4> QED  BY <4>1, <4>4 DEF here
    <3> QED  BY <2>1, <3>1, <3>2 DEF BucketOf
  <2> HIDE DEF rows, count
  <2>6. SumOf(count, FastBuckets(i)) <= Cardinality(rows)
    <3>1. rows \in SUBSET Present(Deployments)
      BY DEF rows
    <3>2. FastBuckets(i) \in SUBSET buckets
      BY DEF FastBuckets
    <3> QED  BY <1>1, <2>5, <3>1, <3>2, CountsWithin
  <2> QED  BY <2>6 DEF FastCount, SlowCount, rows, count
<1>2. ASSUME IndInv, NEW i \in 0 .. Divisions - 1
      PROVE  SlowCount(i) \in Nat
  <2> DEFINE rows == {d \in Present(Deployments) : Divisions * stamp[d] >= From(i)
                                                   /\ Divisions * stamp[d] < From(i + 1)}
  <2>1. rows \subseteq Present(Item)
    BY DEF Present, Item
  <2>2. SlowCount(i) = Cardinality(rows)
    BY DEF SlowCount
  <2> HIDE DEF rows
  <2> QED  BY <1>2, <2>1, <2>2, FS_Subset, FS_CardinalityType DEF IndInv, StampInv
<1>3. ASSUME IndInv PROVE FastWithinSlow
  <2>1. \A i \in 0 .. Divisions - 1 :
          (IF buckets # {} THEN FastCount(i) ELSE SlowCount(i)) <= SlowCount(i)
    BY <1>1, <1>2, <1>3
  <2> QED  BY <2>1 DEF FastWithinSlow, Metrics
<1> QED  BY <1>3, AlwaysIndInv, PTL
=============================================================================
