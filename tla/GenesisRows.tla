---------------------------- MODULE GenesisRows ----------------------------
(***************************************************************************)
(* The rows BlockIndexer adds to block 0 (src/src/block_indexer.py):       *)
(* _extract_genesis_data and what _process_genesis_transfers and           *)
(* _process_genesis_balance_states make of it.  A bond is a pair of a      *)
(* validator and its stake.  The lists of allocations the code also goes   *)
(* through are always empty: nothing fills them before the early return.   *)
(***************************************************************************)
EXTENDS Integers, FiniteSets, FiniteSetsExt

CONSTANTS PoS,      \* the address of the proof-of-stake contract
          NoData    \* _genesis_data_cache before the first extraction

Positive(bonds) == {b \in bonds : b[2] > 0}

\* The cache first; then the bonds of the block; then those of the node's last finalized
\* block, which are none when it is silent.
GenesisData(cache, bonds, answer) ==
  IF cache # NoData THEN cache
  ELSE IF Positive(bonds) # {} THEN Positive(bonds)
  ELSE Positive(answer)

\* One row for each validator and one for the contract, which holds all that is bonded.
Balances(bonds) == bonds \cup {<<PoS, MapThenSumSet(LAMBDA b : b[2], bonds)>>}
=============================================================================
