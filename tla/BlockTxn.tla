------------------------------ MODULE BlockTxn ------------------------------
(***************************************************************************)
(* BlockIndexer._process_block and _process_deployment_enhanced            *)
(* (src/src/block_indexer.py), statement by statement: the rows of one     *)
(* block are written in one database transaction, its block_validators in  *)
(* a second one.  Sibling blocks may carry the same deploy.                *)
(*                                                                         *)
(* "work" is what the open transaction would commit.  After a statement    *)
(* that failed PostgreSQL keeps the transaction aborted: further           *)
(* statements fail, and COMMIT is a rollback that reports no error.  After *)
(* a flush that failed it is the SQLAlchemy session that refuses           *)
(* everything, its commit included.  Rows added as objects (validator      *)
(* bonds, transfers, genesis rows) are sent by the next flush.  The cache  *)
(* of the genesis bonds is memory of the process: a rollback leaves it.    *)
(* Transfers are what TransferExtraction makes of a deploy's term.         *)
(***************************************************************************)
EXTENDS GenesisRows, TransferExtraction

CONSTANTS Block, HeightOf, NoBlock,
          Deploy,
          DeploysOf,    \* the deploys of a block that have a signature, in order
          Terms,        \* the Rholang terms a deploy may have
          TermOf, DeployerOf,   \* term and signer of each deploy
          Refusable,    \* deploys whose upsert the database may refuse
          Bonded,       \* blocks above the genesis with a bonds list
          GenesisBonds, \* the bonds lists block 0 may have
          NodeBonds,    \* what get_bonds may answer while block 0 is processed
          Justified     \* blocks with a justification that names a validator

ASSUME TxnAssumption ==
  /\ HeightOf \in [Block -> Nat] /\ NoBlock \notin Block
  /\ DeploysOf \in [Block -> Seq(Deploy)]
  /\ Terms \subseteq Seq(Statement) /\ TermOf \in [Deploy -> Terms]
  /\ Refusable \subseteq Deploy /\ Bonded \subseteq Block /\ Justified \subseteq Block
  /\ {} \in NodeBonds
  /\ \A b, c \in Block : HeightOf[b] = 0 /\ HeightOf[c] = 0 => b = c
  /\ IsFiniteSet(Block) /\ IsFiniteSet(Deploy)
  /\ \A bonds \in GenesisBonds \cup NodeBonds : IsFiniteSet(bonds)

VARIABLES
  db,         \* the committed tables
  work,       \* the tables as the open transaction sees them
  txn,        \* none, active, aborted (by the server) or inactive (the session)
  unflushed,  \* the session holds rows it has not sent
  pc,         \* where _process_block is
  cur,        \* the block it processes
  rest,       \* its deploys from the current one on
  claimed,    \* history: blocks _process_block has returned from
  cache,      \* _genesis_data_cache: the bonds of the genesis rows
  bonds0      \* the bonds list of block 0; it does not change

genesis == <<cache, bonds0>>
vars == <<db, work, txn, unflushed, pc, cur, rest, claimed, genesis>>

\* The transfers of a deploy, as (from, to, amount).
Transfers == [d \in Deploy |-> Extracted(TermOf[d], DeployerOf[d])]
Amounts == UNION {Transfers[d] : d \in Deploy}

AnyBond == UNION (GenesisBonds \cup NodeBonds)
BalanceRow == UNION {Balances(Positive(bonds)) : bonds \in GenesisBonds \cup NodeBonds}

Tables ==
  [blocks      : SUBSET Block,
   deployments : [Deploy -> Block \cup {NoBlock}],      \* deploy_id -> block_hash
   count       : [Block -> Int],                        \* blocks.deployment_count
   transfers   : SUBSET (Deploy \X Amounts \X Block),
   bonds       : SUBSET Block,                          \* validator_bonds
   bondDeploys : SUBSET AnyBond,         \* deployments and transfers genesis_bond_<i>
   balances    : SUBSET BalanceRow,      \* balance_states
   validators  : SUBSET Block]                          \* block_validators

NoRows ==
  [blocks |-> {}, deployments |-> [d \in Deploy |-> NoBlock], count |-> [b \in Block |-> 0],
   transfers |-> {}, bonds |-> {}, bondDeploys |-> {}, balances |-> {}, validators |-> {}]

Init ==
  /\ db = NoRows /\ work = NoRows /\ txn = "none" /\ unflushed = FALSE
  /\ pc = "idle" /\ cur = NoBlock /\ rest = <<>>
  /\ claimed = {} /\ cache = NoData /\ bonds0 \in GenesisBonds

\* Mutation of Done: the session is left open.
DoneOpen == pc' = "idle" /\ cur' = NoBlock /\ rest' = <<>> /\ UNCHANGED txn
            /\ unflushed' = FALSE /\ work' = NoRows

\* Back to the caller: the sessions are closed.
Done == pc' = "idle" /\ cur' = NoBlock /\ rest' = <<>> /\ txn' = "none"
        /\ unflushed' = FALSE /\ work' = NoRows

AlreadyIndexed(b) ==
  /\ pc = "idle" /\ b \in db.blocks
  /\ claimed' = claimed \cup {b}
  /\ UNCHANGED <<db, work, txn, unflushed, pc, cur, rest, genesis>>

HasBonds(b) == IF HeightOf[b] = 0 THEN bonds0 # {} ELSE b \in Bonded

\* The block row, its parents and the upserts of validators; the bonds are objects.
OpenBlock(b) ==
  /\ pc = "idle" /\ b \notin db.blocks
  /\ pc' = "deploys" /\ cur' = b /\ rest' = DeploysOf[b]
  /\ txn' = "active" /\ unflushed' = HasBonds(b)
  /\ work' = [db EXCEPT !.blocks = @ \cup {b},
                        !.bonds = IF HasBonds(b) THEN @ \cup {b} ELSE @]
  /\ UNCHANGED <<db, claimed, genesis>>

----------------------------------------------------------------------------
(* One deploy: ON CONFLICT (deploy_id) DO UPDATE moves the row to this     *)
(* block.  The trigger on deployments counts inserts and deletes only.     *)

\* Mutations of CountedUpsert and NewTransfers: the trigger counts the update too, and
\* the transfers are inserted without a look at those that are there.
CountedAlways(t, d, b) ==
  [t EXCEPT !.deployments[d] = b, !.count[b] = @ + 1]
AllTransfers(t, d, b) == {<<d, a, b>> : a \in Transfers[d]}

CountedUpsert(t, d, b) ==
  [t EXCEPT !.deployments[d] = b,
            !.count[b] = IF t.deployments[d] = NoBlock THEN @ + 1 ELSE @]

UpsertDeploy ==
  /\ pc = "deploys" /\ rest # <<>> /\ txn = "active"
  /\ work' = CountedUpsert(work, Head(rest), cur)
  /\ unflushed' = FALSE
  /\ pc' = "transfers"
  /\ UNCHANGED <<db, txn, cur, rest, claimed, genesis>>

\* Mutation of UpsertRefused: the refused statement is undone alone.
UpsertRefusedAlone ==
  /\ pc = "deploys" /\ rest # <<>> /\ Head(rest) \in Refusable
  /\ unflushed' = FALSE
  /\ pc' = "transfers"
  /\ UNCHANGED <<db, work, txn, cur, rest, claimed, genesis>>

\* "deployment upsert failed" is a warning: the session goes on with what is left of the
\* transaction.  The rows added before were flushed ahead of the statement.
UpsertRefused ==
  /\ pc = "deploys" /\ rest # <<>>
  /\ txn = "active" => Head(rest) \in Refusable
  /\ txn' = IF txn = "active" THEN "aborted" ELSE txn
  /\ unflushed' = FALSE
  /\ pc' = "transfers"
  /\ UNCHANGED <<db, work, cur, rest, claimed, genesis>>

\* It is the flush of earlier rows that fails: caught by the same handler.
FlushRefused ==
  /\ pc = "deploys" /\ rest # <<>> /\ txn = "active" /\ unflushed
  /\ txn' = "inactive" /\ unflushed' = FALSE
  /\ pc' = "transfers"
  /\ UNCHANGED <<db, work, cur, rest, claimed, genesis>>

\* Transfers of the deploy with the same addresses, amount and height are there already.
NewTransfers(t, d, b) ==
  {<<d, a, b>> : a \in {x \in Transfers[d] :
                          \A row \in t.transfers :
                             ~ (row[1] = d /\ row[2] = x /\ HeightOf[row[3]] = HeightOf[b])}}

\* A deploy without transfers sends no further statement.
ExtractTransfers ==
  /\ pc = "transfers"
  /\ IF Transfers[Head(rest)] = {}
     THEN UNCHANGED <<work, unflushed>>
     ELSE LET new == NewTransfers(work, Head(rest), cur)
          IN  /\ txn = "active"
              /\ work' = [work EXCEPT !.transfers = @ \cup new]
              /\ unflushed' = (new # {})
  /\ pc' = "deploys"
  /\ rest' = Tail(rest)
  /\ UNCHANGED <<db, txn, cur, claimed, genesis>>

\* Block 0 also gets its genesis rows, all of them objects; the bond deployments are
\* counted when they are inserted.
AddGenesisRows(data) ==
  /\ work' = [work EXCEPT !.bondDeploys = data,
                          !.balances = Balances(data),
                          !.count[cur] = @ + Cardinality(data)]
  /\ cache' = data /\ unflushed' = TRUE

EndOfDeploys ==
  /\ pc = "deploys" /\ rest = <<>>
  /\ pc' = "commit"
  /\ IF HeightOf[cur] = 0
     THEN \E answer \in NodeBonds : AddGenesisRows(GenesisData(cache, bonds0, answer))
     ELSE UNCHANGED <<work, unflushed, cache>>
  /\ UNCHANGED <<db, txn, cur, rest, claimed, bonds0>>
----------------------------------------------------------------------------
AfterCommit ==
  IF cur \in Justified
  THEN /\ pc' = "justify" /\ txn' = "none" /\ work' = NoRows /\ unflushed' = FALSE
       /\ UNCHANGED <<cur, rest, claimed>>
  ELSE Done /\ claimed' = claimed \cup {cur}

Commit ==
  /\ pc = "commit" /\ txn = "active"
  /\ db' = work
  /\ AfterCommit
  /\ UNCHANGED genesis

CommitRollsBack ==
  /\ pc = "commit" /\ txn = "aborted" /\ ~ unflushed
  /\ UNCHANGED <<db, genesis>>
  /\ AfterCommit

\* Mutation of WriteValidators: block_validators has no foreign key.
WriteValidatorsUnchecked ==
  /\ pc = "justify"
  /\ db' = [db EXCEPT !.validators = @ \cup {cur}]
  /\ Done
  /\ claimed' = claimed \cup {cur}
  /\ UNCHANGED genesis

WriteValidators ==
  /\ pc = "justify" /\ cur \in db.blocks
  /\ db' = [db EXCEPT !.validators = @ \cup {cur}]
  /\ Done
  /\ claimed' = claimed \cup {cur}
  /\ UNCHANGED genesis

\* Any statement raises, the foreign key of block_validators included, or the process
\* dies, and the cache with it, also when it is idle: the open transaction is gone and the
\* caller is not told that the block is done.
Fail ==
  /\ pc # "idle" \/ cache # NoData
  /\ Done
  /\ cache' \in IF pc = "idle" THEN {NoData} ELSE {cache, NoData}
  /\ UNCHANGED <<db, claimed, bonds0>>

Next ==
  \/ \E b \in Block : AlreadyIndexed(b) \/ OpenBlock(b)
  \/ UpsertDeploy \/ UpsertRefused \/ FlushRefused \/ ExtractTransfers \/ EndOfDeploys
  \/ Commit \/ CommitRollsBack \/ WriteValidators \/ Fail

Spec == Init /\ [][Next]_vars
----------------------------------------------------------------------------
(* Types; a transaction is open exactly from the block row to the commit.  *)
TypeOK ==
  /\ db \in Tables /\ work \in Tables
  /\ txn \in {"none", "active", "aborted", "inactive"} /\ unflushed \in BOOLEAN
  /\ pc \in {"idle", "deploys", "transfers", "commit", "justify"}
  /\ txn = "none" <=> pc \in {"idle", "justify"}
  /\ cur \in Block \cup {NoBlock} /\ rest \in Seq(Deploy) /\ claimed \subseteq Block
  /\ cache = NoData \/ cache \subseteq AnyBond

DeploysIn(b) == {DeploysOf[b][i] : i \in DOMAIN DeploysOf[b]}

(* A block _process_block has returned from is in the database, although a *)
(* refused upsert is only a warning (block_indexer.py:706): this is what   *)
(* lets the cursor pass it.  It holds while a block whose last statement   *)
(* may be refused has justifications, whose foreign key reveals the loss.  *)
ClaimedIsStored == claimed \subseteq db.blocks

\* All rows of the first transaction: its bonds, each of its deploys, attached to a block
\* that has it, and each of their transfers.  The rows of block 0 agree with each other
\* and with its bonds list.
GenesisIsWhole(t) ==
  /\ t.balances = Balances(t.bondDeploys)
  /\ Positive(bonds0) # {} => t.bondDeploys = Positive(bonds0)
RecordedIn(t, b, d) ==
  /\ t.deployments[d] \in {c \in t.blocks : d \in DeploysIn(c)}
  /\ \A a \in Transfers[d] : \E row \in t.transfers :
        row[1] = d /\ row[2] = a /\ HeightOf[row[3]] = HeightOf[b]
WholeIn(t, b) ==
  /\ HasBonds(b) => b \in t.bonds
  /\ HeightOf[b] = 0 => GenesisIsWhole(t)
  /\ \A d \in DeploysIn(b) : RecordedIn(t, b, d)

(* A block is indexed whole (ARCHITECTURE.md:288, for the tables of the    *)
(* first transaction), also after its deploys went to a sibling, and the   *)
(* genesis whatever the node answered in an attempt that was rolled back.  *)
BlockIsWhole == \A b \in db.blocks : WholeIn(db, b)

(* The counts of all blocks add up to the rows of deployments, those of    *)
(* the genesis bonds included, however often siblings take a deploy from   *)
(* each other.                                                             *)
CountsAddUp ==
  MapThenSumSet(LAMBDA b : db.count[b], Block)
    = Cardinality({d \in Deploy : db.deployments[d] # NoBlock}) + Cardinality(db.bondDeploys)

(* A transfer of a deploy is recorded once per height, also when siblings  *)
(* carry the deploy or a block is processed again (block_indexer.py:718).  *)
TransferOncePerHeight ==
  \A r, s \in db.transfers :
     r[1] = s[1] /\ r[2] = s[2] /\ HeightOf[r[3]] = HeightOf[s[3]] => r = s

(* _process_block implements its promise to the loop of _sync_blocks: seen *)
(* from outside a block is there with all its rows at once or not at all,  *)
(* and what a commit can lose without an exception are just blocks above   *)
(* the genesis that send nothing after an upsert that may be refused       *)
(* (block_indexer.py:706).                                                 *)
Silent(b, i, last) == \A j \in i .. last : Transfers[DeploysOf[b][j]] = {}
LateReject ==
  {b \in Block : HeightOf[b] > 0 /\ \E i \in DOMAIN DeploysOf[b] :
                    DeploysOf[b][i] \in Refusable /\ Silent(b, i, Len(DeploysOf[b]))}

Writer == INSTANCE BlockWriter
            WITH at <- IF pc \in {"idle", "justify"} THEN pc ELSE "block", block <- cur,
                 stored <- {b \in db.blocks : WholeIn(db, b)}, recorded <- db.validators
ImplementsWriter == Writer!Spec

(* From a plain term exactly the transfers it spells out are extracted,    *)
(* whichever of the patterns they are written in (block_indexer.py:1027):  *)
(* a header without a valid sender or amount hides no call after it.  The  *)
(* statement is about operators, so the initial states are enough.         *)
PlainTermsAreRead ==
  Init => \A term \in Terms : \A d \in Deploy : Plain(term) => ReadAsSaid(term, DeployerOf[d])

(* ARCHITECTURE.md:122: deployment_count is the number of deployments in   *)
(* the block, that is, of deployments rows that name it.                   *)
CountIsOfBlock ==
  \A b \in db.blocks :
     db.count[b] = Cardinality({d \in Deploy : db.deployments[d] = b})
                   + IF HeightOf[b] = 0 THEN Cardinality(db.bondDeploys) ELSE 0
=============================================================================
