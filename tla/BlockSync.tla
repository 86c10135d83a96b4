----------------------------- MODULE BlockSync -----------------------------
(***************************************************************************)
(* BlockIndexer._sync_blocks and the part of _process_block that decides   *)
(* which tables hold a block (src/src/block_indexer.py), over the node's   *)
(* block DAG and the database, with crashes of the process anywhere.       *)
(*                                                                         *)
(* The task awaits the node or the database between any two of its steps;  *)
(* blocks appear on the node and are finalized meanwhile.  Every local     *)
(* variable of the coroutine dies with the cycle and with the process:     *)
(* only the three database variables survive.                              *)
(***************************************************************************)
EXTENDS BatchProgress

CONSTANTS Block,       \* all blocks the node may ever have
          HeightOf,    \* blockNumber of each; siblings share a height
          NoBlock,
          StartFrom,   \* settings.start_from_block
          BatchSize,   \* settings.batch_size
          Justified,   \* blocks with a justification that names a validator
          Rejected,    \* blocks with a row the database never accepts
          LateReject,  \* blocks whose last statement before the commit is the upsert
                       \* of a deployment that the database may refuse
          Stray        \* blocks the node may report outside the range asked for

ASSUME BlockAssumption ==
  /\ HeightOf \in [Block -> Nat]
  /\ NoBlock \notin Block
  /\ StartFrom \in Nat
  /\ BatchSize \in Nat \ {0}
  /\ Justified \subseteq Block /\ Rejected \subseteq Block
  /\ LateReject \subseteq Block /\ Stray \subseteq Block

VARIABLES
  dag,       \* node: the blocks it has
  tip,       \* node: height of the last finalized block, -1 before genesis
  stored,    \* database: rows of blocks, with the children written with them
  recorded,  \* database: blocks whose block_validators rows are written
  cursor,    \* database: indexer_state.last_indexed_block
  pc,        \* the await the indexer task is at
  last,      \* local last_indexed
  latest,    \* local latest_block_number
  progress,  \* local progress; start and end are set before the fetch
  todo,      \* local block_summaries not yet iterated
  block,     \* local block_summary being processed
  returned   \* history: the blocks the node reported inside a requested range

node  == <<dag, tip>>
db    == <<stored, recorded, cursor>>
local == <<pc, last, latest, progress, todo, block>>
vars  == <<node, db, local, returned>>

NoBatch == BlockBatchProgress(0, -1)
MaxOf(i, j) == IF i >= j THEN i ELSE j
MinOf(i, j) == IF i <= j THEN i ELSE j

\* Mutations of BatchStart and BatchEnd: the cursor is not taken into account, its
\* height is asked for again, the end is not cut at the tip.
BatchStartIgnoringCursor == StartFrom
BatchStartAtCursor == IF stored = {} THEN StartFrom ELSE MaxOf(StartFrom, last)
BatchEndPastTip(start) == start + BatchSize - 1

\* The range to ask for, from the cursor and the tip this cycle has read: a fresh
\* database starts at the configured height, another after its cursor.
BatchStart == IF stored = {} THEN StartFrom ELSE MaxOf(StartFrom, last + 1)
BatchEnd(start) == MinOf(start + BatchSize - 1, latest)

InBatch(B) == {b \in B : Contains(progress, HeightOf[b])}

Init ==
  /\ dag = {} /\ tip = -1
  /\ stored = {} /\ recorded = {} /\ cursor = -1
  /\ pc = "rest" /\ last = -1 /\ latest = -1
  /\ progress = NoBatch /\ todo = {} /\ block = NoBlock
  /\ returned = {}

(***************************************************************************)
(* The node.  A block joins the DAG after a block one lower; a sibling may *)
(* appear at any time, also below the last finalized height.               *)
(***************************************************************************)
Appear(b) ==
  /\ b \notin dag
  /\ HeightOf[b] = 0 \/ \E p \in dag : HeightOf[p] = HeightOf[b] - 1
  /\ dag' = dag \cup {b}
  /\ UNCHANGED <<tip, db, local, returned>>

Finalize ==
  /\ \E b \in dag : HeightOf[b] = tip + 1
  /\ tip' = tip + 1
  /\ UNCHANGED <<dag, db, local, returned>>

(***************************************************************************)
(* One call of _sync_blocks.                                               *)
(***************************************************************************)
\* The coroutine ends, or the process does: its locals are gone.
Leave(at) ==
  /\ pc' = at
  /\ last' = -1 /\ latest' = -1
  /\ progress' = NoBatch /\ todo' = {} /\ block' = NoBlock

ReadCursor ==
  /\ pc = "rest"
  /\ pc' = "tip"
  /\ last' = cursor
  /\ UNCHANGED <<node, db, latest, progress, todo, block, returned>>

ReadTip ==
  /\ pc = "tip" /\ tip >= 0
  /\ IF last >= tip
     THEN Leave("rest")
     ELSE /\ pc' = "count"
          /\ latest' = tip
          /\ UNCHANGED <<last, progress, todo, block>>
  /\ UNCHANGED <<node, db, returned>>

CountBlocks ==
  /\ pc = "count"
  /\ pc' = "fetch"
  /\ progress' = BlockBatchProgress(BatchStart, BatchEnd(BatchStart))
  /\ UNCHANGED <<node, db, last, latest, todo, block, returned>>

\* The node answers every block it has in the range, and possibly others.
Fetch ==
  /\ pc = "fetch"
  /\ \E extra \in SUBSET (Stray \cap dag) :
       LET summaries == InBatch(dag) \cup extra
       IN  IF summaries = {}
           THEN Leave("rest")
           ELSE /\ pc' = "loop"
                /\ todo' = summaries
                /\ UNCHANGED <<last, latest, progress, block>>
  /\ returned' = returned \cup InBatch(dag)
  /\ UNCHANGED <<node, db>>

TakeBlock(b) ==
  /\ pc = "loop" /\ b \in todo
  /\ pc' = "block"
  /\ block' = b
  /\ todo' = todo \ {b}
  /\ progress' = MarkSeen(progress, HeightOf[b])
  /\ UNCHANGED <<node, db, last, latest, returned>>

NextBlock ==
  /\ pc' = "loop"
  /\ block' = NoBlock
  /\ UNCHANGED <<last, latest, progress, todo>>

\* "Block already indexed": the early return of _process_block.
SkipIndexed ==
  /\ pc = "block" /\ block \in stored
  /\ NextBlock
  /\ UNCHANGED <<node, db, returned>>

\* The second transaction runs only for a block with justifications.
AfterCommit ==
  IF block \in Justified
  THEN pc' = "justify" /\ UNCHANGED <<last, latest, progress, todo, block>>
  ELSE NextBlock

CommitBlock ==
  /\ pc = "block" /\ block \notin stored \cup Rejected
  /\ stored' = stored \cup {block}
  /\ AfterCommit
  /\ UNCHANGED <<node, recorded, cursor, returned>>

\* The refused upsert was caught, nothing else was sent, and the commit of the
\* aborted transaction rolled it back without an error.
CommitRollsBack ==
  /\ pc = "block" /\ block \in LateReject \ stored
  /\ AfterCommit
  /\ UNCHANGED <<node, db, returned>>

\* Mutation of WriteValidators: nothing refers to blocks.
WriteValidatorsUnchecked ==
  /\ pc = "justify"
  /\ recorded' = recorded \cup {block}
  /\ NextBlock
  /\ UNCHANGED <<node, stored, cursor, returned>>

\* block_validators references blocks: a block that is not there is an error.
WriteValidators ==
  /\ pc = "justify" /\ block \in stored
  /\ recorded' = recorded \cup {block}
  /\ NextBlock
  /\ UNCHANGED <<node, stored, cursor, returned>>

\* An exception out of _process_block, or a summary without hash or details: the
\* open transaction is rolled back and the height is marked.
MarkBlockFailed ==
  /\ pc' = "loop"
  /\ block' = NoBlock
  /\ progress' = MarkFailed(progress, HeightOf[block])
  /\ UNCHANGED <<node, db, last, latest, todo, returned>>

\* The database refuses a row of the block, now and at every retry, or it refuses
\* its block_validators because the block itself was rolled back.
Refused ==
  \/ pc = "block" /\ block \in Rejected \ stored
  \/ pc = "justify" /\ block \notin stored

RefuseBlock == Refused /\ MarkBlockFailed

\* The node has no answer, or the database fails, this time.
FailBlock == pc \in {"block", "justify"} /\ ~ Refused /\ MarkBlockFailed

\* Mutation of MoveCursor: the cursor waits for the whole batch.
MoveCursorIfWhole(c) == cursor' = IF c >= progress.end THEN MaxOf(c, cursor) ELSE cursor

MoveCursor(c) == cursor' = IF c >= progress.start THEN c ELSE cursor

FinishBatch ==
  /\ pc = "loop" /\ todo = {}
  /\ MoveCursor(LastCompletedHeight(progress))
  /\ Leave("rest")
  /\ UNCHANGED <<node, stored, recorded, returned>>

\* The node does not answer, or the database raises outside a block: at one of the reads,
\* or at the write of the cursor, which a batch that completes nothing does not do.
Abandon ==
  /\ \/ pc \in {"tip", "count", "fetch"}
     \/ pc = "loop" /\ todo = {} /\ LastCompletedHeight(progress) >= progress.start
  /\ Leave("rest")
  /\ UNCHANGED <<node, db, returned>>

Crash ==
  /\ pc # "down"
  /\ Leave("down")
  /\ UNCHANGED <<node, db, returned>>

Restart ==
  /\ pc = "down"
  /\ Leave("rest")
  /\ UNCHANGED <<node, db, returned>>

Indexer ==
  \/ ReadCursor \/ ReadTip \/ CountBlocks \/ Fetch
  \/ \E b \in Block : TakeBlock(b)
  \/ SkipIndexed \/ CommitBlock \/ RefuseBlock \/ WriteValidators \/ FinishBatch

Fault == CommitRollsBack \/ FailBlock \/ Abandon \/ Crash

Next ==
  \/ \E b \in Block : Appear(b)
  \/ Finalize
  \/ Indexer \/ Fault \/ Restart

Spec == Init /\ [][Next]_vars

\* The task is scheduled and the container is restarted; the node owes nothing.
FairSpec == Spec /\ WF_vars(Indexer) /\ WF_vars(Restart)
----------------------------------------------------------------------------
(* Types, and: a batch lies between the start height and the tip.          *)
TypeOK ==
  /\ dag \subseteq Block /\ stored \subseteq Block
  /\ recorded \subseteq Block /\ returned \subseteq Block
  /\ tip \in Nat \cup {-1} /\ cursor \in Nat \cup {-1}
  /\ pc \in {"down", "rest", "tip", "count", "fetch", "loop", "block", "justify"}
  /\ last \in Nat \cup {-1} /\ latest \in Nat \cup {-1}
  /\ progress.start \in Nat /\ progress.end \in Int /\ progress.end <= tip
  /\ progress \in ProgressOf(progress.start, progress.end)
  /\ todo \subseteq Block /\ block \in Block \cup {NoBlock}

AtHeight(B, h) == {b \in B : HeightOf[b] = h}

(* database.py:93 and block_indexer.py:349, as far as the indexer can know *)
(* it: up to the cursor every height has an indexed block and every        *)
(* sibling the node reported there is indexed, whatever failed, was        *)
(* retried or was cut short by a crash on the way.                         *)
CursorComplete ==
  \A h \in StartFrom .. cursor : /\ AtHeight(stored, h) # {}
                                 /\ AtHeight(returned, h) \subseteq stored

(***************************************************************************)
(* The strengthening under which CursorComplete is inductive.              *)
(***************************************************************************)
InBlocks == pc \in {"loop", "block", "justify"}
InBatchRange == InBlocks \/ pc = "fetch"

\* What the cycle has read is still true: nobody else writes the cursor, and the
\* tip only grows.
ReadsHold ==
  /\ pc = "tip" \/ pc = "count" \/ InBatchRange => last = cursor
  /\ pc = "count" \/ InBatchRange => latest <= tip

\* The batch starts at the first height that is not complete.
BatchIsOpen ==
  InBatchRange => /\ progress.start >= StartFrom /\ progress.start > cursor
                  /\ progress.start = StartFrom \/ progress.start = cursor + 1

CurrentBlock == IF pc \in {"block", "justify"} THEN block \in Block ELSE block = NoBlock

\* Every block of the batch the node ever reported is indexed, waiting, in
\* process, or has its height marked as failed.
Accounted ==
  InBlocks => \A b \in returned :
                 Contains(progress, HeightOf[b]) =>
                    \/ b \in stored \/ b \in todo \/ b = block
                    \/ HeightOf[b] \in progress.failed

\* A height counts as seen for an indexed block, or for the one in process.
SeenIsHeld ==
  InBatchRange => \A h \in progress.seen \ progress.failed :
                     \E b \in Block : HeightOf[b] = h /\ (b \in stored \/ b = block)

IndInv ==
  /\ TypeOK
  /\ returned \subseteq dag
  /\ recorded \subseteq stored
  /\ ReadsHold /\ BatchIsOpen /\ CurrentBlock /\ Accounted /\ SeenIsHeld
  /\ CursorComplete

(* The cursor never moves back: not when a batch starts over after a       *)
(* crash, and not when the first height of a batch fails.                  *)
CursorNeverBack == [][cursor' >= cursor]_vars

(* The indexer implements its abstract promise.                            *)
Chain == INSTANCE IndexedChain WITH known <- returned, indexed <- stored
ImplementsChain == Chain!Spec

(* The indexer catches up: once faults stop, every finalized height is     *)
(* eventually below the cursor, and a block the database never accepts     *)
(* holds back no height but its own and those above it.  A step that looks *)
(* like a fault but is one of the indexer's own is none: what the code     *)
(* does of itself must not count as the reason it is stuck.  An answer     *)
(* with summaries outside the range is a fault of the node.                *)
StrayAnswer == pc = "fetch" /\ ~ todo' \subseteq InBatch(dag)

CatchesUp ==
  (<>[][(Fault => Indexer) /\ ~ StrayAnswer]_vars) =>
     \A h \in {HeightOf[b] : b \in Block \ Rejected} :
        (\A b \in Rejected : HeightOf[b] \notin StartFrom .. h)
          => ((tip >= h /\ h >= StartFrom) ~> (cursor >= h))

(* ARCHITECTURE.md:288: all of a block is written in one transaction, so a *)
(* block the cursor has passed has its block_validators rows.              *)
ValidatorsWithBlock ==
  \A b \in stored \cap Justified : HeightOf[b] <= cursor => b \in recorded
=============================================================================
