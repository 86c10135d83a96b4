-------------------------- MODULE BlockSyncClaims --------------------------
(***************************************************************************)
(* BlockSync with one history variable more: the blocks _process_block has *)
(* returned from, which the loop then takes for done.  It shows what the   *)
(* loop supposes of the block writer: the steps it takes with a block are  *)
(* those of BlockWriter, as are the statements of BlockTxn.                *)
(***************************************************************************)
EXTENDS BlockSync

VARIABLE claimed  \* history: the blocks _process_block has returned from

claimsVars == <<vars, claimed>>

InitClaims == Init /\ claimed = {}

ReturnsFromBlock ==
  \/ SkipIndexed \/ WriteValidators
  \/ (CommitBlock \/ CommitRollsBack) /\ block \notin Justified

NextClaims ==
  /\ Next
  /\ claimed' = IF ReturnsFromBlock THEN claimed \cup {block} ELSE claimed

ClaimsSpec == InitClaims /\ [][NextClaims]_claimsVars

FairClaimsSpec == ClaimsSpec /\ WF_vars(Indexer) /\ WF_vars(Restart)
-----------------------------------------------------------------------------
\* The writer is at work on a block that is not in the database when it is taken.
Begun == pc = "justify" \/ (pc = "block" /\ block \notin stored)

(* Whatever fails, crashes or is tried again, the loop sees a block appear *)
(* whole or not at all, its block_validators only after it, and no block   *)
(* return that is not there but one whose commit may silently roll back    *)
(* (block_indexer.py:602-618).                                             *)
Writer == INSTANCE BlockWriter
            WITH at <- IF Begun THEN pc ELSE "idle",
                 block <- IF Begun THEN block ELSE NoBlock
ImplementsWriter == Writer!Spec
=============================================================================
