-------------------------- MODULE EpochTransitions --------------------------
(***************************************************************************)
(* BlockIndexer._check_epoch_transitions (src/src/block_indexer.py): one   *)
(* row per epoch, with boundaries worked out from the cursor and from what *)
(* the node says of its own tip (/api/epoch).                              *)
(***************************************************************************)
EXTENDS CycleView

CONSTANTS EpochLength,   \* of the node's proof-of-stake contract
          EpochInterval  \* 100 in the source

ASSUME EpochAssumption == EpochLength \in Nat \ {0} /\ EpochInterval \in Nat \ {0}

VARIABLES
  lastEpochCheck,  \* last_epoch_check_block
  epochStart       \* epoch_transitions.start_block; end_block is EpochLength - 1 later

epochs == <<lastEpochCheck, epochStart>>

Epoch == 0 .. MaxTip \div EpochLength
CurrentEpoch(h) == h \div EpochLength
BlocksUntilNext(h) == EpochLength - (h % EpochLength)

EpochsInit ==
  /\ lastEpochCheck = 0
  /\ epochStart = [e \in Epoch |-> None]

\* The height is remembered before the node is asked.
CheckEpoch ==
  /\ phase = "idle"
  /\ cursor - lastEpochCheck >= EpochInterval
  /\ lastEpochCheck' = cursor
  /\ phase' = "epoch"
  /\ UNCHANGED <<tip, cursor, epochStart>>

\* The height is that of the cursor, the rest of the answer about the tip.
StartOf(h) == cursor - (EpochLength - BlocksUntilNext(h))

\* A row that exists is kept as it is.
RecordEpoch ==
  /\ phase = "epoch"
  /\ LET e == CurrentEpoch(tip)
     IN  IF epochStart[e] # None
         THEN UNCHANGED epochStart
         ELSE epochStart' = [epochStart EXCEPT ![e] = StartOf(tip)]
  /\ phase' = "idle"
  /\ UNCHANGED <<tip, cursor, lastEpochCheck>>

\* No answer, an answer without the current epoch, or a failure: asked again when the
\* cursor is EpochInterval further, or after a restart.
NoEpoch ==
  /\ phase = "epoch"
  /\ phase' = "idle"
  /\ UNCHANGED <<tip, cursor, epochs>>

RestartEpochs ==
  /\ phase' = "idle" /\ lastEpochCheck' = 0
  /\ UNCHANGED <<tip, cursor, epochStart>>

SyncEpochs ==
  /\ phase = "idle"
  /\ cursor' \in Batch
  /\ UNCHANGED <<tip, phase, epochs>>

EpochsNext ==
  \/ Finalize /\ UNCHANGED epochs
  \/ SyncEpochs \/ CheckEpoch \/ RecordEpoch \/ NoEpoch \/ RestartEpochs
-----------------------------------------------------------------------------
EpochTypes ==
  /\ lastEpochCheck \in Height
  /\ epochStart \in [Epoch -> Int \cup {None}]

(* GRAPHQL_SCHEMA.md:186: start_block is the first block of the epoch.     *)
EpochStartsAtItsFirstBlock ==
  \A e \in Epoch : epochStart[e] # None => epochStart[e] = e * EpochLength
=============================================================================
