--------------------------- MODULE NetworkMetrics ---------------------------
(***************************************************************************)
(* The pre-aggregated metrics of the schema                                *)
(* (src/migrations/000_comprehensive_initial_schema.sql):                  *)
(* refresh_network_metrics_buckets, called by a cron job, and              *)
(* get_network_metrics, which reads what it wrote.  The indexer goes on    *)
(* writing rows meanwhile, with timestamps in no particular order: a       *)
(* backlog, siblings, and deploys whose users chose the timestamp.         *)
(*                                                                         *)
(* Time is in units of the second that range_end lies beyond the latest    *)
(* timestamp.  Buckets are half open.  The cron job's calls do not overlap.*)
(***************************************************************************)
EXTENDS Integers, FiniteSets, FiniteSetsExt

CONSTANTS Blocks, Deployments, Transfers,  \* rows to come
          MaxTime,
          BucketSeconds, Lookback,  \* p_bucket_seconds, p_lookback_hours
          RangeSeconds, Divisions,  \* p_range_hours, p_divisions
          None

Item == Blocks \cup Deployments \cup Transfers
Time == 0 .. MaxTime

ASSUME MetricsAssumption ==
  /\ MaxTime \in Nat /\ Lookback \in Nat \ {0} /\ BucketSeconds \in Nat \ {0}
  /\ RangeSeconds \in Nat \ {0} /\ Divisions \in Nat \ {0}
  /\ None \notin Int

VARIABLES
  stamp,    \* the timestamps of the rows that are there
  range,    \* v_range_start and v_range_end of a refresh that has read them
  buckets   \* network_metrics_buckets

vars == <<stamp, range, buckets>>

Init == stamp = [i \in Item |-> None] /\ range = None /\ buckets = {}

Present(set) == {i \in set : stamp[i] # None}
Within(set, from, till) == {i \in Present(set) : stamp[i] >= from /\ stamp[i] < till}
Stamps(set) == {stamp[i] : i \in set}

\* A block, a deploy or a transfer is indexed.
Index(i, t) ==
  /\ stamp[i] = None
  /\ stamp' = [stamp EXCEPT ![i] = t]
  /\ UNCHANGED <<range, buckets>>

\* Mutations of RangeStart: it does not ask for what has been counted; it goes back to
\* that however long ago it was.
RangeStartAlways(till) == till - Lookback
RangeStartUnbounded(till) ==
  IF buckets = {} THEN till - Lookback ELSE Max({b.till : b \in buckets})

\* The end of the buckets that lie in the lookback, or its start.
RangeStart(till) ==
  Max({till - Lookback} \cup {b.till : b \in {c \in buckets : c.till > till - Lookback}})

\* The statements of a call see different snapshots: this is the first two.
ReadRange ==
  /\ range = None /\ Present(Item) # {}
  /\ LET till == Max(Stamps(Present(Item))) + 1
     IN  /\ RangeStart(till) < till
         /\ range' = [from |-> RangeStart(till), till |-> till]
  /\ UNCHANGED <<stamp, buckets>>

\* Mutation of Slots: no bucket that reaches beyond the end.
SlotsWithin ==
  {[from |-> range.from + k * BucketSeconds, till |-> range.from + (k + 1) * BucketSeconds] :
     k \in 0 .. (range.till - range.from) \div BucketSeconds - 1}

\* generate_series from 0 to the floor of the quotient, both included.
Slots ==
  {[from |-> range.from + k * BucketSeconds, till |-> range.from + (k + 1) * BucketSeconds] :
     k \in 0 .. (range.till - range.from) \div BucketSeconds}

\* AVG of the differences to the previous block of the range, as sum and number; the
\* first block of the range has none.
BlockTimes(slot) ==
  LET at(from, till) ==
        Stamps(Within(Blocks, Max({from, range.from}), Min({till, range.till})))
      inside == at(slot.from, slot.till)
      before == at(range.from, slot.from)
      number == Cardinality(Within(Blocks, slot.from, Min({slot.till, range.till})))
  IN  IF inside = {} THEN [sum |-> 0, number |-> 0]
      ELSE IF before = {} THEN [sum |-> Max(inside) - Min(inside), number |-> number - 1]
      ELSE [sum |-> Max(inside) - Max(before), number |-> number]

Filled(slot) ==
  [from |-> slot.from, till |-> slot.till, times |-> BlockTimes(slot),
   deployments |-> Cardinality(Within(Deployments, slot.from, slot.till)),
   transfers |-> Cardinality(Within(Transfers, slot.from, slot.till))]

\* The INSERT with its counts; bucket_start is the primary key.
FillBuckets ==
  /\ range # None
  /\ LET new == {Filled(slot) : slot \in Slots}
     IN  buckets' = {b \in buckets : \A n \in new : n.from # b.from} \cup new
  /\ range' = None
  /\ UNCHANGED stamp

\* The connection is lost: the call is one transaction.
RefreshFails ==
  /\ range # None
  /\ range' = None
  /\ UNCHANGED <<stamp, buckets>>

Next ==
  \/ \E i \in Item, t \in Time : Index(i, t)
  \/ ReadRange \/ FillBuckets \/ RefreshFails

\* cron calls the function again and again, and not all calls fail.
FairSpec == Init /\ [][Next]_vars /\ WF_vars(ReadRange) /\ SF_vars(FillBuckets)
-----------------------------------------------------------------------------
(***************************************************************************)
(* get_network_metrics divides a range that ends with the last bucket or,  *)
(* without any, with the latest row.  Division bounds are multiples of     *)
(* 1 / Divisions.                                                          *)
(***************************************************************************)
SumOf(count, set) == MapThenSumSet(LAMBDA b : count[b], set)

RangeEnd ==
  IF buckets # {} THEN Max({b.till : b \in buckets}) ELSE Max(Stamps(Present(Item))) + 1

\* A time is in the division, scaled by Divisions.
From(i) == Divisions * (RangeEnd - RangeSeconds) + i * RangeSeconds
InDivision(i, from, till) == Divisions * from >= From(i) /\ Divisions * till <= From(i + 1)

\* Mutation of FastBuckets: a bucket belongs to each division it overlaps.
FastBucketsOverlapping(i) ==
  {b \in buckets : b.from >= RangeEnd - RangeSeconds
                   /\ Divisions * b.till > From(i) /\ Divisions * b.from < From(i + 1)}

\* A bucket belongs to the division it lies in as a whole, if there is one.
FastBuckets(i) == {b \in buckets : b.from >= RangeEnd - RangeSeconds /\ InDivision(i, b.from, b.till)}

FastCount(i) == SumOf([b \in buckets |-> b.deployments], FastBuckets(i))

SlowCount(i) ==
  Cardinality({d \in Present(Deployments) : Divisions * stamp[d] >= From(i)
                                            /\ Divisions * stamp[d] < From(i + 1)})

\* deployments_count of the rows returned.
Metrics == [i \in 0 .. Divisions - 1 |-> IF buckets # {} THEN FastCount(i) ELSE SlowCount(i)]
-----------------------------------------------------------------------------
(* Types; every bucket is BucketSeconds long.                              *)
TypeOK ==
  /\ stamp \in [Item -> Time \cup {None}]
  /\ range # None => range.from < range.till /\ range.till - range.from <= Lookback
  /\ \A b \in buckets : /\ b.till = b.from + BucketSeconds
                        /\ b.times.sum >= 0 /\ b.times.number >= 0

(* SQL:611, "Do not count the old buckets": buckets never overlap, however *)
(* late or early rows are, and neither a row nor a stretch of time between *)
(* two blocks is counted in two of them.                                   *)
NothingCountedTwice ==
  /\ \A b, c \in buckets : b.till <= c.from \/ c.till <= b.from \/ b = c
  /\ SumOf([b \in buckets |-> b.deployments], buckets) <= Cardinality(Present(Deployments))
  /\ SumOf([b \in buckets |-> b.transfers], buckets) <= Cardinality(Present(Transfers))
  /\ Present(Blocks) # {} =>
       SumOf([b \in buckets |-> b.times.sum], buckets)
         <= Max(Stamps(Present(Blocks))) - Min(Stamps(Present(Blocks)))

(* GRAPHQL_SCHEMA.md:244: the fast path returns no more for a division     *)
(* than the slow one would count in it, whatever the number of divisions.  *)
FastWithinSlow ==
  Present(Item) # {} => \A i \in DOMAIN Metrics : Metrics[i] <= SlowCount(i)

(* DEPLOYMENT.md:723: the last bucket ends after the latest row, once the  *)
(* cron job goes on and rows stop coming, also after late and early ones.  *)
HydratedToTheEnd ==
  <>[](\A i \in Present(Item) : \E b \in buckets : stamp[i] < b.till)

(* GRAPHQL_SCHEMA.md:247, "Upserts new/updated buckets": the rows in the   *)
(* range of a bucket are in its counts once all rows are there.            *)
BucketsAreUpdated ==
  <>[](\A b \in buckets : b.deployments = Cardinality(Within(Deployments, b.from, b.till)))
=============================================================================
