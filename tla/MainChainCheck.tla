--------------------------- MODULE MainChainCheck ---------------------------
(***************************************************************************)
(* BlockIndexer._verify_main_chain (src/src/block_indexer.py): what is     *)
(* stored at or below the cursor is compared with the last blocks of the   *)
(* main chain of a node whose DAG grows siblings and may change its mind,  *)
(* also between the fetch of a batch and the write of the cursor.          *)
(***************************************************************************)
EXTENDS CycleView

CONSTANTS Branch,        \* blocks a height may have, told apart by name
          CheckDepth,    \* 20 in the source
          CheckInterval  \* MAIN_CHAIN_CHECK_INTERVAL

ASSUME CheckAssumption ==
  /\ CheckDepth \in Nat \ {0} /\ CheckInterval \in Nat \ {0}
  /\ Branch # {} /\ None \notin Branch /\ \A pairs \in SUBSET (Height \X Branch) : pairs # None

VARIABLES
  known,         \* node: height -> its blocks
  main,          \* node: height -> the one on the main chain
  shown,         \* height -> its blocks in the answer the open batch works with
  stored,        \* database: height -> its blocks
  missed,        \* history: height -> blocks not shown to the batch that passed it
  chain,         \* the answer to showMainChain in hand
  lastVerified,  \* _last_verified_block
  compared,      \* history: heights of the comparison lastVerified is of
  reorg          \* history: height and hash of the mismatches of the latest comparison

chains == <<known, main, shown, stored, missed, chain, lastVerified, compared, reorg>>

Tips == {h \in Height : known[h] # {}}
Head == IF Tips = {} THEN -1 ELSE Max(Tips)

NoBatch == [h \in Height |-> {}]

ChainInit ==
  /\ main = [h \in Height |-> IF h = 0 THEN CHOOSE b \in Branch : TRUE ELSE None]
  /\ known = [h \in Height |-> {main[h]} \ {None}]
  /\ shown = NoBatch /\ stored = NoBatch /\ missed = NoBatch
  /\ chain = None /\ lastVerified = None /\ compared = {} /\ reorg = {}

\* A block joins the DAG on top of the head, or as a sibling; genesis has none.
Propose(h, b) ==
  /\ h \in 1 .. Head + 1 /\ b \notin known[h]
  /\ known' = [known EXCEPT ![h] = @ \cup {b}]
  /\ main' = IF main[h] = None THEN [main EXCEPT ![h] = b] ELSE main
  /\ UNCHANGED <<view, shown, stored, missed, chain, lastVerified, compared, reorg>>

\* Fork choice: the main chain takes another of the known siblings.
Switch(h, b) ==
  /\ b \in known[h] \ {main[h]}
  /\ main' = [main EXCEPT ![h] = b]
  /\ UNCHANGED <<view, known, shown, stored, missed, chain, lastVerified, compared, reorg>>

FinalizeChain ==
  /\ tip < Head
  /\ Finalize
  /\ UNCHANGED chains

\* The batch of _sync_blocks works with what the node has at this moment.
FetchBatch ==
  /\ phase = "idle" /\ Batch # {}
  /\ shown' = [h \in Height |-> IF h \in Batch THEN known[h] ELSE {}]
  /\ phase' = "batch"
  /\ UNCHANGED <<tip, cursor, known, main, stored, missed, chain, lastVerified, compared, reorg>>

\* In any order; a new block that fails is one this does not happen to.
IndexBlock(h, b) ==
  /\ phase = "batch" /\ b \in shown[h] \ stored[h]
  /\ stored' = [stored EXCEPT ![h] = @ \cup {b}]
  /\ UNCHANGED <<view, known, main, shown, missed, chain, lastVerified, compared, reorg>>

\* Seen, and every block of it stored.
Complete == {h \in Height : shown[h] # {} /\ shown[h] \subseteq stored[h]}

\* A block that is stored may fail all the same, when it is asked for again; and with no
\* height done, or a cursor that cannot be written, the cursor stays.
PassHeights(done) ==
  /\ phase = "batch"
  /\ cursor' = CursorAfter(done)
  /\ missed' = [h \in Height |->
                  IF h \in cursor + 1 .. cursor' THEN Branch \ shown[h] ELSE missed[h]]
  /\ phase' = "idle" /\ shown' = NoBatch
  /\ UNCHANGED <<tip, known, main, stored, chain, lastVerified, compared, reorg>>

\* Due at once after a start, then after a distance of the cursor.
AskChain ==
  /\ phase = "idle"
  /\ lastVerified # None => cursor - lastVerified >= CheckInterval
  /\ chain' = {<<h, main[h]>> : h \in Tips \cap (Head - CheckDepth + 1 .. Head)}
  /\ phase' = "chain"
  /\ UNCHANGED <<tip, cursor, known, main, shown, stored, missed, lastVerified, compared, reorg>>

\* Mutation of Canonical: the whole answer is compared.
CanonicalUncut == chain

Canonical == {entry \in chain : entry[1] <= cursor}

Mismatches(canonical) ==
  {entry \in canonical : stored[entry[1]] # {} /\ entry[2] \notin stored[entry[1]]}

\* Mutation of Compare: the check counts as done whatever was in range.
CompareAnyway ==
  /\ phase = "chain"
  /\ reorg' = Mismatches(Canonical)
  /\ compared' = {entry[1] : entry \in Canonical}
  /\ lastVerified' = cursor
  /\ phase' = "idle" /\ chain' = None
  /\ UNCHANGED <<tip, cursor, known, main, shown, stored, missed>>

\* With nothing in range the check stays due.
Compare ==
  /\ phase = "chain"
  /\ IF Canonical = {}
     THEN UNCHANGED <<compared, reorg, lastVerified>>
     ELSE /\ reorg' = Mismatches(Canonical)
          /\ compared' = {entry[1] : entry \in Canonical}
          /\ lastVerified' = cursor
  /\ phase' = "idle" /\ chain' = None
  /\ UNCHANGED <<tip, cursor, known, main, shown, stored, missed>>

\* No answer, or the stored hashes cannot be read: the check stays due.
NoChain ==
  /\ phase = "chain"
  /\ phase' = "idle" /\ chain' = None
  /\ UNCHANGED <<tip, cursor, known, main, shown, stored, missed, lastVerified, compared, reorg>>

RestartChain ==
  /\ phase' = "idle" /\ chain' = None /\ shown' = NoBatch
  /\ lastVerified' = None /\ compared' = {} /\ reorg' = {}
  /\ UNCHANGED <<tip, cursor, known, main, stored, missed>>

ChainNext ==
  \/ \E h \in Height, b \in Branch : Propose(h, b) \/ Switch(h, b) \/ IndexBlock(h, b)
  \/ FinalizeChain
  \/ FetchBatch \/ \E done \in SUBSET Complete : PassHeights(done)
  \/ AskChain \/ Compare \/ NoChain \/ RestartChain
-----------------------------------------------------------------------------
ChainTypes ==
  /\ known \in [Height -> SUBSET Branch] /\ main \in [Height -> Branch \cup {None}]
  /\ stored \in [Height -> SUBSET Branch] /\ shown \in [Height -> SUBSET Branch]
  /\ \A h \in Height : stored[h] \cup shown[h] \subseteq known[h]
  /\ shown # NoBatch => phase = "batch"
  /\ chain = None <=> phase # "chain"
  /\ lastVerified \in Height \cup {None}
  /\ reorg \subseteq Height \X Branch

(* DEPLOYMENT.md:493: a reorg is reported for a height only if the main    *)
(* chain has a block there that was not in the answer to the batch whose   *)
(* cursor passed it, be it that the block appeared while that batch was    *)
(* at work or later; never for a height that is stored in part, or for a   *)
(* change of mind among blocks that were shown.                            *)
NoFalseReorg == \A entry \in reorg : entry[2] \in missed[entry[1]]

(* block_indexer.py:921: a check counts as done, and lets the next 500     *)
(* heights pass, only if it compared the height of the cursor, which is    *)
(* stored; a tip that is too far ahead, or a silent node, leaves it due.   *)
(* What else it compared lies below, and is stored but for heights before  *)
(* start_from_block, which are compared with nothing.                      *)
VerifiedMeansCompared ==
  lastVerified # None =>
     /\ lastVerified \in compared /\ stored[lastVerified] # {}
     /\ \A h \in compared : h <= lastVerified /\ (h >= StartFrom => stored[h] # {})
=============================================================================
