---------------------------- MODULE NetworkStats ----------------------------
(***************************************************************************)
(* BlockIndexer._update_network_stats (src/src/block_indexer.py) with      *)
(* GrpcNodeClient.get_network_consensus: three calls to a node that goes   *)
(* on between them make one row of network_stats.                          *)
(***************************************************************************)
EXTENDS CycleView

CONSTANTS StatsInterval,        \* 50 in the source
          SafetyNum, SafetyDen  \* settings.fault_tolerance_threshold, as a fraction

ASSUME StatsAssumption ==
  /\ StatsInterval \in Nat \ {0}
  /\ SafetyNum \in Nat /\ SafetyDen \in Nat \ {0} /\ SafetyNum <= SafetyDen

VARIABLES
  lastStatsCheck,  \* last_consensus_check_block
  lfbAt,           \* block number the first call returned
  bondsAt,         \* height of the bonds the second call returned
  stats            \* the row of network_stats written last

consensus == <<lastStatsCheck, lfbAt, bondsAt, stats>>

StatsInit == lastStatsCheck = 0 /\ lfbAt = None /\ bondsAt = None /\ stats = None

StakeOf(h, set) == MapThenSumSet(LAMBDA v : StakeAt[h][v], set)

CheckStats ==
  /\ phase = "idle"
  /\ cursor - lastStatsCheck >= StatsInterval
  /\ lastStatsCheck' = cursor
  /\ phase' = "lfb"
  /\ UNCHANGED <<tip, cursor, lfbAt, bondsAt, stats>>

AskLfb ==
  /\ phase = "lfb"
  /\ lfbAt' = tip
  /\ phase' = "stakes"
  /\ UNCHANGED <<tip, cursor, lastStatsCheck, bondsAt, stats>>

AskStakes ==
  /\ phase = "stakes"
  /\ bondsAt' = tip
  /\ phase' = "active"
  /\ UNCHANGED <<tip, cursor, lastStatsCheck, lfbAt, stats>>

\* Mutation of ActiveStake: the stakes are those of the other answer.
ActiveStakeOfActive(h) == StakeOf(h, ActiveAt[h])

\* Stakes are of the bonds alone: h is the height of the other answer.
ActiveStake(h) == StakeOf(bondsAt, Bonded(bondsAt) \cap ActiveAt[h])

\* participation > 0.0 is the share of the active stake; no stake at all is 0.
ConsensusStatus(share, whole) ==
  IF share * SafetyDen > SafetyNum * whole THEN "healthy"
  ELSE IF share * SafetyDen > (SafetyDen - SafetyNum) * whole THEN "degraded"
  ELSE "critical"

Consensus(h) ==
  LET total == Cardinality(Bonded(bondsAt))
      active == Cardinality(ActiveAt[h])
      whole == StakeOf(bondsAt, Bonded(bondsAt))
  IN  [block |-> lfbAt, total |-> total, active |-> active,
       quarantine |-> Max({0, total - active}),
       share |-> ActiveStake(h), whole |-> whole,
       status |-> ConsensusStatus(ActiveStake(h), whole)]

RecordStats ==
  /\ phase = "active"
  /\ stats' = Consensus(tip)
  /\ phase' = "idle" /\ lfbAt' = None /\ bondsAt' = None
  /\ UNCHANGED <<tip, cursor, lastStatsCheck>>

\* One of the three answers is missing, or the row cannot be written.
NoStats ==
  /\ phase \in {"lfb", "stakes", "active"}
  /\ phase' = "idle" /\ lfbAt' = None /\ bondsAt' = None
  /\ UNCHANGED <<tip, cursor, lastStatsCheck, stats>>

RestartStats ==
  /\ phase' = "idle" /\ lastStatsCheck' = 0 /\ lfbAt' = None /\ bondsAt' = None
  /\ UNCHANGED <<tip, cursor, stats>>

SyncStats ==
  /\ phase = "idle"
  /\ cursor' \in Batch
  /\ UNCHANGED <<tip, phase, consensus>>

StatsNext ==
  \/ Finalize /\ UNCHANGED consensus
  \/ SyncStats \/ CheckStats \/ AskLfb \/ AskStakes \/ RecordStats
  \/ NoStats \/ RestartStats
-----------------------------------------------------------------------------
StatsTypes ==
  /\ lastStatsCheck \in Height
  /\ lfbAt \in Height \cup {None} /\ bondsAt \in Height \cup {None}
  /\ stats = None \/
     /\ stats.block \in Height /\ stats.total \in Nat /\ stats.active \in Nat
     /\ stats.status \in {"healthy", "degraded", "critical"}

(* grpc_node_client.py:255: the three answers need not be of one moment,   *)
(* and an active validator need not be in the bonds in hand; yet the       *)
(* participation of a row is a share of the stake it is divided by.        *)
ShareOfOneAnswer == stats # None => stats.share \in 0 .. stats.whole
=============================================================================
