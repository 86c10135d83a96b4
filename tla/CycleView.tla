----------------------------- MODULE CycleView -----------------------------
(***************************************************************************)
(* What the steps of a cycle that come after _sync_blocks share            *)
(* (src/src/block_indexer.py): the node's last finalized height, what it   *)
(* says of validators there, the cursor in the database, and where the     *)
(* running step is.  The steps write tables of their own and run one after *)
(* the other, so a behaviour is looked at for one step at a time (module   *)
(* CycleSteps).                                                            *)
(***************************************************************************)
EXTENDS Integers, FiniteSets, FiniteSetsExt

CONSTANTS MaxTip,     \* bound on the height the chain grows to
          BatchSize,  \* settings.batch_size
          StartFrom,  \* settings.start_from_block
          None,       \* a value that is not there
          Validator,
          StakeAt,    \* height -> validator -> stake in that block's bonds, 0: not bonded
          ActiveAt    \* height -> the active validators, as /api/validators reports them

Height == 0 .. MaxTip

ASSUME ViewAssumption ==
  /\ MaxTip \in Nat /\ BatchSize \in Nat \ {0} /\ StartFrom \in Nat /\ None \notin Int
  /\ IsFiniteSet(Validator)
  /\ StakeAt \in [Height -> [Validator -> Nat]]
  /\ ActiveAt \in [Height -> SUBSET Validator]

Bonded(h) == {v \in Validator : StakeAt[h][v] > 0}

VARIABLES
  tip,     \* node: height of the last finalized block
  cursor,  \* database: last_indexed_block
  phase    \* which answer the running step has: "idle" between steps

view == <<tip, cursor, phase>>

ViewInit == tip = 0 /\ cursor = -1 /\ phase = "idle"

Finalize ==
  /\ tip < MaxTip /\ tip' = tip + 1
  /\ UNCHANGED <<cursor, phase>>

\* _sync_blocks asks for these heights next.  A fresh database has the cursor -1, so
\* it starts at StartFrom, and the heights below that are never asked for.
BatchStart == Max({StartFrom, cursor + 1})
Batch == BatchStart .. Min({BatchStart + BatchSize - 1, tip})

\* The cursor goes to the last height of the batch below which nothing is missing.
CursorAfter(complete) ==
  Max({cursor} \cup {c \in Batch : BatchStart .. c \subseteq complete})
=============================================================================
