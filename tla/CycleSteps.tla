----------------------------- MODULE CycleSteps -----------------------------
(***************************************************************************)
(* The steps BlockIndexer.start runs after _sync_blocks in every cycle     *)
(* (src/src/block_indexer.py).  No step reads what another one writes,     *)
(* beyond the cursor, so a behaviour of all of them is one behaviour of    *)
(* each: "watched" is the step this behaviour follows.                     *)
(***************************************************************************)
EXTENDS PendingDeploys, ValidatorStates, EpochTransitions, NetworkStats, MainChainCheck

VARIABLE watched

vars == <<view, pending, validators, epochs, consensus, chains, watched>>

Step == {"pending", "validators", "epochs", "stats", "chain"}

Init ==
  /\ ViewInit /\ watched \in Step
  /\ PendingInit /\ ValidatorsInit /\ EpochsInit /\ StatsInit /\ ChainInit

SyncPendingDeploys ==
  /\ watched = "pending" /\ PendingNext
  /\ UNCHANGED <<validators, epochs, consensus, chains, watched>>

UpdateValidatorStates ==
  /\ watched = "validators" /\ ValidatorsNext
  /\ UNCHANGED <<pending, epochs, consensus, chains, watched>>

CheckEpochTransitions ==
  /\ watched = "epochs" /\ EpochsNext
  /\ UNCHANGED <<pending, validators, consensus, chains, watched>>

UpdateNetworkStats ==
  /\ watched = "stats" /\ StatsNext
  /\ UNCHANGED <<pending, validators, epochs, chains, watched>>

VerifyMainChain ==
  /\ watched = "chain" /\ ChainNext
  /\ UNCHANGED <<pending, validators, epochs, consensus, watched>>

Next ==
  \/ SyncPendingDeploys \/ UpdateValidatorStates \/ CheckEpochTransitions
  \/ UpdateNetworkStats \/ VerifyMainChain

\* A cycle that can index its whole batch and move the cursor does in the end; how
\* often an update of the validators goes through is left to StakesConverge.
FairSpec ==
  /\ Init /\ [][Next]_vars
  /\ WF_vars(UpdateValidatorStates /\ SyncWhole)
-----------------------------------------------------------------------------
(* Types of the view and of the five steps' tables.                        *)
TypeOK ==
  /\ tip \in Height /\ cursor \in -1 .. tip
  /\ phase \in {"idle", "answered", "deleted", "inserted", "bonds", "epoch",
               "lfb", "stakes", "active", "batch", "chain"}
  /\ PendingTypes /\ ValidatorTypes /\ EpochTypes /\ StatsTypes /\ ChainTypes

(* ARCHITECTURE.md:188: total_stake is the current stake, however blocks   *)
(* of the past and the state of the present overwrite each other: if       *)
(* updates go through again and again, every bonded validator ends with    *)
(* the stake it has at the tip.                                            *)
StakesConverge ==
  (watched = "validators" /\ []<><<UpdateValidators>>_vars) => <>[]Settled
=============================================================================
