---------------------------- MODULE BlockWriter ----------------------------
(***************************************************************************)
(* What _process_block promises to the loop that calls it, and what        *)
(* BlockSync takes it to do: a block is written whole in one step or not   *)
(* at all, its block_validators in another, and the only blocks that can   *)
(* be lost without an exception are those of LateReject.                   *)
(*                                                                         *)
(*   at        idle, in the first transaction, or in the second            *)
(*   stored    the blocks that are in the database with all their rows     *)
(*   recorded  the blocks whose block_validators rows are written          *)
(*   claimed   the blocks _process_block has returned from                 *)
(***************************************************************************)
CONSTANTS Block, NoBlock,
          Justified,   \* blocks with a justification that names a validator
          LateReject   \* blocks whose last statement before the commit is the upsert
                       \* of a deployment that the database may refuse

VARIABLES at, block, stored, recorded, claimed

vars == <<at, block, stored, recorded, claimed>>

Init ==
  /\ at = "idle" /\ block = NoBlock
  /\ stored = {} /\ recorded = {} /\ claimed = {}

SkipIndexed(b) ==
  /\ at = "idle" /\ b \in stored
  /\ claimed' = claimed \cup {b}
  /\ UNCHANGED <<at, block, stored, recorded>>

TakeBlock(b) ==
  /\ at = "idle" /\ b \notin stored
  /\ at' = "block" /\ block' = b
  /\ UNCHANGED <<stored, recorded, claimed>>

Return ==
  /\ at' = "idle" /\ block' = NoBlock
  /\ claimed' = claimed \cup {block}

AfterCommit ==
  IF block \in Justified
  THEN at' = "justify" /\ UNCHANGED <<block, claimed>>
  ELSE Return

CommitBlock ==
  /\ at = "block"
  /\ stored' = stored \cup {block}
  /\ AfterCommit
  /\ UNCHANGED recorded

CommitRollsBack ==
  /\ at = "block" /\ block \in LateReject \ stored
  /\ AfterCommit
  /\ UNCHANGED <<stored, recorded>>

WriteValidators ==
  /\ at = "justify" /\ block \in stored
  /\ recorded' = recorded \cup {block}
  /\ Return
  /\ UNCHANGED stored

\* An exception, or the end of the process: what is committed stays.
GiveUp ==
  /\ at # "idle"
  /\ at' = "idle" /\ block' = NoBlock
  /\ UNCHANGED <<stored, recorded, claimed>>

Next ==
  \/ \E b \in Block : SkipIndexed(b) \/ TakeBlock(b)
  \/ CommitBlock \/ CommitRollsBack \/ WriteValidators \/ GiveUp

Spec == Init /\ [][Next]_vars
=============================================================================
