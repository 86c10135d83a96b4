-------------------------- MODULE BlockTxn_proofs ---------------------------
(***************************************************************************)
(* For every DAG of blocks, every deploy and every bonds list: a block the *)
(* writer has returned from is stored, it is stored whole, its transfers   *)
(* are there once per height, and the counts of deployments add up.        *)
(*                                                                         *)
(* The open transaction is looked at while the server still takes          *)
(* statements ("active"): only then can a commit store it.  A refused      *)
(* upsert that leads to a commit at all is one that no further statement   *)
(* follows, in a block above the genesis (RefusedIsLast); that such a      *)
(* block has justifications is the hypothesis LateJustified.               *)
(* Seen from outside these statements are the steps of BlockWriter         *)
(* (Refinement), and the transfers written are those the deploys' terms    *)
(* say (TermsAreRead).                                                     *)
(***************************************************************************)
EXTENDS BlockTxn, Facts_proofs, SequenceTheorems

LateJustified == LateReject \subseteq Justified

AnyBonds == GenesisBonds \cup NodeBonds
InBlock == {"deploys", "transfers", "commit"}
Handled == Len(DeploysOf[cur]) - Len(rest)

OncePerHeight(t) ==
  \A r, s \in t.transfers :
     r[1] = s[1] /\ r[2] = s[2] /\ HeightOf[r[3]] = HeightOf[s[3]] => r = s
CountedIn(t) ==
  /\ IsFiniteSet(t.bondDeploys)
  /\ Sum(t.count, Block)
       = Cardinality({d \in Deploy : t.deployments[d] # NoBlock}) + Cardinality(t.bondDeploys)

BondsKnown ==
  /\ bonds0 \in GenesisBonds
  /\ cache # NoData =>
        /\ \E bonds \in AnyBonds : cache = Positive(bonds)
        /\ Positive(bonds0) # {} => cache = Positive(bonds0)

\* Where the writer is in the block.
AtDeploy ==
  /\ pc = "justify" => cur \in Block
  /\ pc \in InBlock =>
       /\ cur \in Block /\ cur \notin db.blocks /\ work.blocks = db.blocks \cup {cur}
       /\ Handled \in Nat
       /\ \A i \in DOMAIN rest : rest[i] = DeploysOf[cur][Handled + i]
       /\ pc = "transfers" => rest # <<>>
       /\ pc = "commit" => rest = <<>>
       /\ work.bondDeploys = db.bondDeploys \/ (pc = "commit" /\ HeightOf[cur] = 0)
       /\ pc = "commit" /\ HeightOf[cur] = 0 => unflushed

\* A transaction the server has aborted: no statement was sent after the refused one.
RefusedIsLast ==
  txn = "aborted" =>
     \E i \in DOMAIN DeploysOf[cur] :
        /\ DeploysOf[cur][i] \in Refusable /\ Silent(cur, i, Handled)
        /\ i <= Handled \/ (pc = "transfers" /\ i = Handled + 1)

\* What an active transaction has so far of the block, and still has of the others.
WorkIsWhole ==
  txn = "active" =>
     /\ \A b \in db.blocks : WholeIn(work, b)
     /\ HasBonds(cur) => cur \in work.bonds
     /\ \A i \in 1 .. Handled : RecordedIn(work, cur, DeploysOf[cur][i])
     /\ pc = "transfers" =>
           work.deployments[Head(rest)] \in {c \in work.blocks : Head(rest) \in DeploysIn(c)}
     /\ pc = "commit" /\ HeightOf[cur] = 0 => GenesisIsWhole(work)

TransfersOnce == OncePerHeight(db) /\ OncePerHeight(work)
GenesisLast == db.bondDeploys # {} => \E b \in db.blocks : HeightOf[b] = 0
Counted == CountedIn(db) /\ (txn = "active" => CountedIn(work))

IndInv ==
  /\ TypeOK /\ BondsKnown /\ AtDeploy /\ RefusedIsLast /\ WorkIsWhole /\ TransfersOnce
  /\ GenesisLast /\ Counted
  /\ \A b \in db.blocks : WholeIn(db, b)
----------------------------------------------------------------------------
(* The database without a row.                                             *)
LEMMA NoRowsFields ==
  /\ NoRows \in Tables
  /\ NoRows.blocks = {} /\ NoRows.transfers = {} /\ NoRows.bondDeploys = {}
  /\ NoRows.validators = {}
  /\ \A d \in Deploy : NoRows.deployments[d] = NoBlock
  /\ \A b \in Block : NoRows.count[b] = 0
BY DEF NoRows, Tables

(* In an empty database the counts add up.                                 *)
LEMMA NoRowsCounted == CountedIn(NoRows)
<1>1. Sum(NoRows.count, Block) = 0
  BY NoRowsFields, SumOfZeros, TxnAssumption
<1>2. {d \in Deploy : NoRows.deployments[d] # NoBlock} = {}
  BY NoRowsFields
<1> QED  BY <1>1, <1>2, NoRowsFields, FS_EmptySet DEF CountedIn

(* An empty database satisfies the invariant.                              *)
LEMMA InitIndInv == Init => IndInv
<1> SUFFICES ASSUME Init PROVE IndInv
  OBVIOUS
<1> USE DEF Init
<1>1. TypeOK
  <2>1. db \in Tables /\ work \in Tables
    BY NoRowsFields
  <2>2. rest \in Seq(Deploy)
    BY EmptySeq
  <2> QED  BY <2>1, <2>2 DEF TypeOK
<1>2. CountedIn(db)
  BY NoRowsCounted
<1> QED
  BY <1>1, <1>2, NoRowsFields
     DEF IndInv, BondsKnown, AtDeploy, InBlock, RefusedIsLast, WorkIsWhole, TransfersOnce,
         OncePerHeight, GenesisLast, Counted

(* A transaction that has more, and what it moves to blocks it has, keeps  *)
(* the blocks whole that were.                                             *)
LEMMA WholeGrows ==
  ASSUME NEW t, NEW u, NEW b, WholeIn(t, b),
         t.blocks \subseteq u.blocks, t.bonds \subseteq u.bonds, t.transfers \subseteq u.transfers,
         u.balances = t.balances, u.bondDeploys = t.bondDeploys,
         \A d \in DeploysIn(b) : \/ u.deployments[d] = t.deployments[d]
                                 \/ u.deployments[d] \in {c \in u.blocks : d \in DeploysIn(c)}
  PROVE  WholeIn(u, b)
BY DEF WholeIn, RecordedIn, GenesisIsWhole

(* What is recorded of a deploy of a block stays so when rows are added    *)
(* and the deploy goes to a sibling.                                       *)
LEMMA RecordedGrows ==
  ASSUME NEW t, NEW u, NEW b, NEW d, RecordedIn(t, b, d),
         t.blocks \subseteq u.blocks, t.transfers \subseteq u.transfers,
         \/ u.deployments[d] = t.deployments[d]
         \/ u.deployments[d] \in {c \in u.blocks : d \in DeploysIn(c)}
  PROVE  RecordedIn(u, b, d)
BY DEF RecordedIn

(* The tables the invariant is about, in the next state.                   *)
LEMMA Primed ==
  ASSUME UNCHANGED bonds0, NEW b
  PROVE  /\ WholeIn(work, b)' <=> WholeIn(work', b)
         /\ WholeIn(db, b)' <=> WholeIn(db', b)
         /\ HasBonds(b)' <=> HasBonds(b)
BY DEF WholeIn, HasBonds, GenesisIsWhole, RecordedIn

(* The first statement of a block.                                         *)
LEMMA OpenIndInv ==
  ASSUME IndInv, NEW b \in Block, OpenBlock(b)
  PROVE  IndInv'
<1> USE DEF OpenBlock, genesis
<1>1. /\ work' \in Tables /\ db \in Tables
      /\ work'.blocks = db.blocks \cup {b} /\ db.bonds \subseteq work'.bonds
      /\ HasBonds(b) => b \in work'.bonds
      /\ work'.deployments = db.deployments /\ work'.count = db.count
      /\ work'.transfers = db.transfers /\ work'.bondDeploys = db.bondDeploys
      /\ work'.balances = db.balances
  BY DEF IndInv, TypeOK, Tables
<1>2. UNCHANGED <<db, claimed, cache, bonds0>> /\ cur' = b /\ txn' = "active" /\ pc' = "deploys"
      /\ rest' = DeploysOf[b] /\ rest' \in Seq(Deploy) /\ unflushed' \in BOOLEAN
  <2>1. DeploysOf[b] \in Seq(Deploy)
    BY TxnAssumption
  <2>2. HasBonds(b) \in BOOLEAN
    <3>1. CASE HeightOf[b] = 0
      BY <3>1 DEF HasBonds
    <3>2. CASE HeightOf[b] # 0
      BY <3>2 DEF HasBonds
    <3> QED  BY <3>1, <3>2
  <2> QED  BY <2>1, <2>2
<1>3. TypeOK'
  BY <1>1, <1>2 DEF IndInv, TypeOK
<1>4. Handled' = 0
  BY <1>2, LenProperties DEF Handled
<1>5. BondsKnown' /\ AtDeploy' /\ RefusedIsLast'
  BY <1>1, <1>2, <1>4 DEF IndInv, BondsKnown, AtDeploy, InBlock, RefusedIsLast
<1>6. WorkIsWhole'
  <2>1. ASSUME NEW c \in db.blocks PROVE WholeIn(work', c)
    BY <1>1, <2>1, WholeGrows DEF IndInv
  <2>2. \A i \in 1 .. Handled' : FALSE
    BY <1>4
  <2> QED  BY <1>1, <1>2, <2>1, <2>2, Primed DEF WorkIsWhole
<1>7. TransfersOnce' /\ GenesisLast' /\ Counted'
  BY <1>1, <1>2
     DEF IndInv, TransfersOnce, OncePerHeight, GenesisLast, Counted, CountedIn
<1>8. \A c \in db'.blocks : WholeIn(db, c)'
  BY <1>2, Primed DEF IndInv
<1> QED  BY <1>3, <1>5, <1>6, <1>7, <1>8 DEF IndInv

(* The deploys of a block are a finite sequence.                           *)
LEMMA DeploysTyped ==
  ASSUME NEW b \in Block
  PROVE  /\ DeploysIn(b) \subseteq Deploy /\ Len(DeploysOf[b]) \in Nat
         /\ \A i \in 1 .. Len(DeploysOf[b]) : DeploysOf[b][i] \in DeploysIn(b)
         /\ DOMAIN DeploysOf[b] = 1 .. Len(DeploysOf[b])
<1>1. DeploysOf[b] \in Seq(Deploy)
  BY TxnAssumption
<1> QED  BY <1>1, LenProperties, ElementOfSeq DEF DeploysIn

(* The deploy in hand is the next one of the block.                        *)
LEMMA HeadIsNext ==
  ASSUME IndInv, pc \in {"deploys", "transfers"}, rest # <<>>
  PROVE  /\ cur \in Block /\ DeploysOf[cur] \in Seq(Deploy)
         /\ Head(rest) \in Deploy /\ Handled \in Nat /\ Len(rest) \in Nat \ {0}
         /\ Handled + 1 \in 1 .. Len(DeploysOf[cur]) /\ Len(DeploysOf[cur]) \in Nat
         /\ DOMAIN DeploysOf[cur] = 1 .. Len(DeploysOf[cur])
         /\ Head(rest) = DeploysOf[cur][Handled + 1]
         /\ Head(rest) \in DeploysIn(cur)
<1>1. /\ cur \in Block /\ rest \in Seq(Deploy) /\ Handled \in Nat
      /\ \A i \in DOMAIN rest : rest[i] = DeploysOf[cur][Handled + i]
  BY DEF IndInv, TypeOK, AtDeploy, InBlock
<1>2. DeploysOf[cur] \in Seq(Deploy)
  BY <1>1, TxnAssumption
<1>3. /\ Len(rest) \in Nat \ {0} /\ DOMAIN rest = 1 .. Len(rest)
      /\ Len(DeploysOf[cur]) \in Nat /\ DOMAIN DeploysOf[cur] = 1 .. Len(DeploysOf[cur])
  BY <1>1, <1>2, LenProperties, EmptySeq
<1>4. Head(rest) = rest[1] /\ Head(rest) \in Deploy
  BY <1>1, HeadTailProperties
<1>5. Head(rest) = DeploysOf[cur][Handled + 1]
  BY <1>1, <1>3, <1>4
<1>6. Handled + 1 \in 1 .. Len(DeploysOf[cur])
  BY <1>1, <1>3 DEF Handled
<1> QED  BY <1>1, <1>2, <1>3, <1>4, <1>5, <1>6 DEF DeploysIn

(* A deploy is stored, or moved to this block.  Only a new one is counted. *)
LEMMA UpsertIndInv ==
  ASSUME IndInv, UpsertDeploy
  PROVE  IndInv'
<1> USE DEF UpsertDeploy, genesis
<1> DEFINE d == Head(rest)
<1>1. /\ cur \in Block /\ d \in Deploy /\ d \in DeploysIn(cur) /\ cur # NoBlock
      /\ work \in Tables /\ work.blocks = db.blocks \cup {cur}
  BY HeadIsNext, TxnAssumption DEF IndInv, TypeOK, AtDeploy, InBlock
<1>2. /\ work' \in Tables /\ work'.blocks = work.blocks /\ work'.bonds = work.bonds
      /\ work'.transfers = work.transfers /\ work'.bondDeploys = work.bondDeploys
      /\ work'.balances = work.balances
      /\ work'.deployments = [work.deployments EXCEPT ![d] = cur]
      /\ work'.count = [work.count EXCEPT ![cur] =
                           IF work.deployments[d] = NoBlock THEN @ + 1 ELSE @]
  <2> DEFINE deployments == [work.deployments EXCEPT ![d] = cur]
             count == [work.count EXCEPT ![cur] =
                         IF work.deployments[d] = NoBlock THEN @ + 1 ELSE @]
  <2>1. deployments \in [Deploy -> Block \cup {NoBlock}] /\ count \in [Block -> Int]
    BY <1>1 DEF Tables
  <2>2. work' = [work EXCEPT !.deployments = deployments, !.count = count]
    BY <1>1 DEF CountedUpsert, Tables
  <2> HIDE DEF deployments, count
  <2>3. work' \in Tables /\ work'.deployments = deployments /\ work'.count = count
    BY <1>1, <2>1, <2>2 DEF Tables
  <2> QED  BY <1>1, <2>2, <2>3 DEF Tables, deployments, count
<1>3. work.deployments \in [Deploy -> Block \cup {NoBlock}] /\ work.count \in [Block -> Int]
  BY <1>1 DEF Tables
<1>4. /\ \A e \in Deploy \ {d} : work'.deployments[e] = work.deployments[e]
      /\ work'.deployments[d] = cur
  BY <1>1, <1>2, <1>3
<1>5. Handled' = Handled /\ UNCHANGED <<db, txn, cur, rest, claimed, cache, bonds0>>
  BY DEF Handled
<1>6. TypeOK'
  BY <1>2, <1>5 DEF IndInv, TypeOK
<1>7. BondsKnown' /\ AtDeploy' /\ RefusedIsLast'
  BY <1>2, <1>5 DEF IndInv, BondsKnown, AtDeploy, InBlock, RefusedIsLast
<1>8. WorkIsWhole'
  <2>1. \A e \in Deploy : \/ work'.deployments[e] = work.deployments[e]
                          \/ work'.deployments[e] \in {c \in work'.blocks : e \in DeploysIn(c)}
    BY <1>1, <1>2, <1>4
  <2>2. ASSUME NEW c \in db.blocks PROVE WholeIn(work', c)
    <3>1. WholeIn(work, c) /\ DeploysIn(c) \subseteq Deploy
      BY DeploysTyped DEF IndInv, WorkIsWhole, TypeOK, Tables
    <3> QED  BY <1>2, <2>1, <3>1, WholeGrows
  <2>3. ASSUME NEW i \in 1 .. Handled PROVE RecordedIn(work', cur, DeploysOf[cur][i])
    <3>1. RecordedIn(work, cur, DeploysOf[cur][i]) /\ DeploysOf[cur][i] \in Deploy
      BY HeadIsNext, DeploysTyped DEF IndInv, WorkIsWhole
    <3> QED  BY <1>2, <2>1, <3>1, RecordedGrows
  <2>4. work'.deployments[d] \in {c \in work'.blocks : d \in DeploysIn(c)}
    BY <1>1, <1>2, <1>4
  <2> QED  BY <1>2, <1>5, <2>2, <2>3, <2>4, Primed DEF IndInv, WorkIsWhole, RecordedIn
<1>9. CountedIn(work')
  <2> DEFINE stored(t) == {e \in Deploy : t.deployments[e] # NoBlock}
  <2>1. CountedIn(work) /\ IsFiniteSet(stored(work)) /\ IsFiniteSet(Block)
    BY FS_Subset, TxnAssumption DEF IndInv, Counted
  <2>2. \A b \in Block : work.count[b] \in Int
    BY <1>3
  <2>3. Sum(work.count, Block) \in Int /\ Cardinality(stored(work)) \in Nat
        /\ Cardinality(work.bondDeploys) \in Nat
    BY <2>1, <2>2, SumWithout, FS_CardinalityType DEF CountedIn
  <2>4. CASE work.deployments[d] = NoBlock
    <3>1. Sum(work'.count, Block) = Sum(work.count, Block) + 1
      <4>1. work'.count[cur] = work.count[cur] + 1
            /\ \A b \in Block \ {cur} : work'.count[b] = work.count[b]
        BY <1>1, <1>2, <1>3, <2>4
      <4> QED  BY <1>1, <2>1, <2>2, <4>1, SumUpdate
    <3>2. stored(work') = stored(work) \cup {d} /\ d \notin stored(work)
      BY <1>1, <1>4, <2>4
    <3>3. Cardinality(stored(work')) = Cardinality(stored(work)) + 1
      BY <2>1, <3>2, FS_AddElement
    <3> HIDE DEF stored
    <3> QED  BY <1>2, <2>1, <2>3, <3>1, <3>3 DEF CountedIn, stored
  <2>5. CASE work.deployments[d] # NoBlock
    <3>1. work'.count = work.count
      BY <1>1, <1>2, <1>3, <2>5
    <3>2. stored(work') = stored(work)
      BY <1>1, <1>4, <2>5
    <3> HIDE DEF stored
    <3> QED  BY <1>2, <2>1, <3>1, <3>2 DEF CountedIn, stored
  <2> QED  BY <2>4, <2>5
<1>10. TransfersOnce' /\ GenesisLast' /\ Counted'
  BY <1>2, <1>5, <1>9
     DEF IndInv, TransfersOnce, OncePerHeight, GenesisLast, Counted, CountedIn
<1>11. \A c \in db'.blocks : WholeIn(db, c)'
  BY <1>5, Primed DEF IndInv
<1> QED  BY <1>6, <1>7, <1>8, <1>10, <1>11 DEF IndInv

(* An upsert the database refused, itself or with the flush of earlier     *)
(* rows: whatever follows, nothing of the block is stored.                 *)
LEMMA RefusedIndInv ==
  ASSUME IndInv, UpsertRefused \/ FlushRefused
  PROVE  IndInv'
<1>1. /\ pc = "deploys" /\ pc' = "transfers" /\ rest # <<>> /\ unflushed' = FALSE
      /\ UNCHANGED <<db, work, cur, rest, claimed, cache, bonds0>> /\ Handled' = Handled
      /\ txn' \in {"aborted", "inactive"}
      /\ txn' = "aborted" => txn = "aborted" \/ Head(rest) \in Refusable
  BY DEF UpsertRefused, FlushRefused, genesis, IndInv, TypeOK, Handled
<1>2. TypeOK'
  BY <1>1 DEF IndInv, TypeOK
<1>3. BondsKnown' /\ AtDeploy'
  BY <1>1 DEF IndInv, BondsKnown, AtDeploy, InBlock
<1>4. RefusedIsLast'
  <2>1. CASE txn' = "aborted" /\ txn = "aborted"
    BY <1>1, <2>1 DEF IndInv, RefusedIsLast, Silent
  <2>2. CASE txn' = "aborted" /\ Head(rest) \in Refusable
    <3>1. /\ Handled + 1 \in DOMAIN DeploysOf[cur] /\ Handled \in Nat
          /\ DeploysOf[cur][Handled + 1] \in Refusable
      BY <1>1, <2>2, HeadIsNext
    <3>2. Silent(cur, Handled + 1, Handled)
      BY <3>1 DEF Silent
    <3> QED  BY <1>1, <3>1, <3>2 DEF RefusedIsLast
  <2> QED  BY <1>1, <2>1, <2>2 DEF RefusedIsLast
<1>5. WorkIsWhole' /\ TransfersOnce' /\ GenesisLast' /\ Counted'
  BY <1>1
     DEF IndInv, WorkIsWhole, TransfersOnce, OncePerHeight, GenesisLast, Counted, CountedIn
<1>6. \A c \in db'.blocks : WholeIn(db, c)'
  BY <1>1, Primed DEF IndInv
<1> QED  BY <1>2, <1>3, <1>4, <1>5, <1>6 DEF IndInv

(* The transfers of the deploy in hand; the block is one deploy further.   *)
LEMMA TransfersIndInv ==
  ASSUME IndInv, ExtractTransfers
  PROVE  IndInv'
<1> USE DEF ExtractTransfers, genesis
<1> DEFINE d == Head(rest)
           new == NewTransfers(work, d, cur)
<1>1. /\ pc = "transfers" /\ pc' = "deploys" /\ rest # <<>> /\ rest \in Seq(Deploy)
      /\ UNCHANGED <<db, txn, cur, claimed, cache, bonds0>>
  BY DEF IndInv, TypeOK, AtDeploy, InBlock
<1>2. /\ cur \in Block /\ d \in Deploy /\ Handled \in Nat /\ d = DeploysOf[cur][Handled + 1]
      /\ work \in Tables /\ work.blocks = db.blocks \cup {cur}
  BY <1>1, HeadIsNext DEF IndInv, TypeOK, AtDeploy, InBlock
<1>3. /\ rest' \in Seq(Deploy) /\ Handled' = Handled + 1
      /\ \A i \in DOMAIN rest' : rest'[i] = DeploysOf[cur][Handled' + i]
  <2>1. rest' = Tail(rest)
    OBVIOUS
  <2>2. /\ rest' \in Seq(Deploy) /\ Len(rest') = Len(rest) - 1
        /\ \A i \in 1 .. Len(rest') : rest'[i] = rest[i + 1]
    BY <1>1, <2>1, HeadTailProperties
  <2>3. DOMAIN rest = 1 .. Len(rest) /\ DOMAIN rest' = 1 .. Len(rest') /\ Len(rest) \in Nat
        /\ Len(DeploysOf[cur]) \in Nat
    BY <1>1, <1>2, <2>2, LenProperties, DeploysTyped
  <2>4. Handled' = Handled + 1
    BY <1>1, <2>2, <2>3 DEF Handled
  <2>5. \A i \in DOMAIN rest : rest[i] = DeploysOf[cur][Handled + i]
    BY <1>1 DEF IndInv, AtDeploy, InBlock
  <2>6. ASSUME NEW i \in DOMAIN rest' PROVE rest'[i] = DeploysOf[cur][Handled' + i]
    <3>1. i \in Nat /\ i + 1 \in DOMAIN rest /\ rest'[i] = rest[i + 1]
      BY <2>2, <2>3
    <3>2. Handled + (i + 1) = Handled' + i
      BY <1>2, <2>4, <3>1
    <3> QED  BY <2>5, <3>1, <3>2
  <2> QED  BY <2>2, <2>4, <2>6
<1>4. /\ work' \in Tables /\ work'.blocks = work.blocks /\ work'.bonds = work.bonds
      /\ work'.deployments = work.deployments /\ work'.count = work.count
      /\ work'.bondDeploys = work.bondDeploys /\ work'.balances = work.balances
      /\ work.transfers \subseteq work'.transfers /\ unflushed' \in BOOLEAN
      /\ \/ Transfers[d] = {} /\ work'.transfers = work.transfers
         \/ txn = "active" /\ work'.transfers = work.transfers \cup new
  <2>1. CASE Transfers[d] = {}
    BY <1>2, <2>1 DEF IndInv, TypeOK
  <2>2. CASE Transfers[d] # {}
    <3>1. new \subseteq Deploy \X Amounts \X Block
      BY <1>2, TxnAssumption DEF NewTransfers, Amounts
    <3>2. work' = [work EXCEPT !.transfers = @ \cup new] /\ unflushed' \in BOOLEAN /\ txn = "active"
      BY <2>2
    <3> HIDE DEF new
    <3> QED  BY <1>2, <3>1, <3>2 DEF Tables
  <2> QED  BY <2>1, <2>2
<1>5. TypeOK'
  BY <1>1, <1>3, <1>4 DEF IndInv, TypeOK
<1>6. BondsKnown' /\ AtDeploy'
  BY <1>1, <1>2, <1>3, <1>4 DEF IndInv, BondsKnown, AtDeploy, InBlock
<1>7. RefusedIsLast'
  <2> SUFFICES ASSUME txn = "aborted" PROVE RefusedIsLast'
    BY <1>1 DEF RefusedIsLast
  <2>1. Transfers[d] = {}
    BY <1>4
  <2>2. PICK i \in DOMAIN DeploysOf[cur] :
          /\ DeploysOf[cur][i] \in Refusable /\ Silent(cur, i, Handled)
          /\ i <= Handled \/ i = Handled + 1
    BY DEF IndInv, RefusedIsLast
  <2>3. i \in Int
    BY <1>2, DeploysTyped
  <2>4. Silent(cur, i, Handled + 1)
    BY <1>2, <2>1, <2>2, <2>3 DEF Silent
  <2> QED  BY <1>1, <1>2, <1>3, <2>2, <2>3, <2>4 DEF RefusedIsLast
<1>8. ASSUME txn = "active" PROVE RecordedIn(work', cur, d)
  <2>1. work'.deployments[d] \in {c \in work'.blocks : d \in DeploysIn(c)}
    BY <1>1, <1>4, <1>8 DEF IndInv, WorkIsWhole
  <2>2. ASSUME NEW a \in Transfers[d]
        PROVE  \E row \in work'.transfers :
                  row[1] = d /\ row[2] = a /\ HeightOf[row[3]] = HeightOf[cur]
    <3>1. CASE \E row \in work.transfers :
                  row[1] = d /\ row[2] = a /\ HeightOf[row[3]] = HeightOf[cur]
      BY <1>4, <3>1
    <3>2. CASE ~ \E row \in work.transfers :
                  row[1] = d /\ row[2] = a /\ HeightOf[row[3]] = HeightOf[cur]
      <4>1. <<d, a, cur>> \in new
        BY <2>2, <3>2 DEF NewTransfers
      <4>2. <<d, a, cur>> \in work'.transfers
        BY <1>4, <2>2, <4>1
      <4> QED  BY <4>2
    <3> QED  BY <3>1, <3>2
  <2> QED  BY <2>1, <2>2 DEF RecordedIn
<1>9. WorkIsWhole'
  <2> SUFFICES ASSUME txn = "active" PROVE WorkIsWhole'
    BY <1>1 DEF WorkIsWhole
  <2>1. ASSUME NEW c \in db.blocks PROVE WholeIn(work', c)
    BY <1>4, <2>1, WholeGrows DEF IndInv, WorkIsWhole
  <2>2. ASSUME NEW i \in 1 .. Handled + 1 PROVE RecordedIn(work', cur, DeploysOf[cur][i])
    <3>1. CASE i = Handled + 1
      BY <1>2, <1>8, <3>1
    <3>2. CASE i # Handled + 1
      <4>1. i \in 1 .. Handled
        BY <1>2, <3>2
      <4> QED  BY <1>4, <4>1, RecordedGrows DEF IndInv, WorkIsWhole
    <3> QED  BY <3>1, <3>2
  <2> QED  BY <1>1, <1>3, <1>4, <2>1, <2>2, Primed DEF IndInv, WorkIsWhole, RecordedIn
<1>10. TransfersOnce'
  <2>1. OncePerHeight(work')
    <3> SUFFICES ASSUME NEW r \in work'.transfers, NEW q \in work'.transfers,
                        r[1] = q[1], r[2] = q[2], HeightOf[r[3]] = HeightOf[q[3]]
                 PROVE  r = q
      BY DEF OncePerHeight
    <3>1. CASE r \in work.transfers /\ q \in work.transfers
      BY <3>1 DEF IndInv, TransfersOnce, OncePerHeight
    <3>2. ASSUME NEW n \in new, NEW o \in work.transfers, o[1] = n[1], o[2] = n[2],
                 HeightOf[o[3]] = HeightOf[n[3]]
          PROVE  FALSE
      BY <3>2 DEF NewTransfers
    <3>3. CASE r \in new /\ q \in new
      BY <3>3 DEF NewTransfers
    <3> QED  BY <1>4, <3>1, <3>2, <3>3
  <2> QED  BY <1>1, <2>1 DEF IndInv, TransfersOnce, OncePerHeight
<1>11. GenesisLast' /\ Counted'
  BY <1>1, <1>4 DEF IndInv, GenesisLast, Counted, CountedIn
<1>12. \A c \in db'.blocks : WholeIn(db, c)'
  BY <1>1, Primed DEF IndInv
<1> QED  BY <1>5, <1>6, <1>7, <1>9, <1>10, <1>11, <1>12 DEF IndInv

(* The genesis rows, from whichever source: they are the bonds of block 0  *)
(* if it has any.                                                          *)
LEMMA GenesisDataKnown ==
  ASSUME BondsKnown, NEW answer \in NodeBonds
  PROVE  LET data == GenesisData(cache, bonds0, answer)
         IN  /\ \E bonds \in AnyBonds : data = Positive(bonds)
             /\ Positive(bonds0) # {} => data = Positive(bonds0)
             /\ IsFiniteSet(data) /\ data \subseteq AnyBond /\ Balances(data) \subseteq BalanceRow
<1> DEFINE data == GenesisData(cache, bonds0, answer)
<1>1. PICK bonds \in AnyBonds : data = Positive(bonds)
  BY DEF BondsKnown, GenesisData, AnyBonds
<1>2. Positive(bonds0) # {} => data = Positive(bonds0)
  BY DEF BondsKnown, GenesisData
<1>3. Positive(bonds) \subseteq bonds /\ IsFiniteSet(bonds)
  BY TxnAssumption DEF Positive, AnyBonds
<1>4. IsFiniteSet(data) /\ data \subseteq AnyBond
  BY <1>1, <1>3, FS_Subset DEF AnyBond, AnyBonds
<1> HIDE DEF data
<1>5. Balances(data) \subseteq BalanceRow
  BY <1>1 DEF BalanceRow, AnyBonds
<1> QED  BY <1>1, <1>2, <1>4, <1>5 DEF data

(* After the last deploy the block's transfers are all in the transaction. *)
LEMMA EndIndInv ==
  ASSUME IndInv, EndOfDeploys
  PROVE  IndInv'
<1> USE DEF EndOfDeploys
<1>1. /\ pc = "deploys" /\ pc' = "commit" /\ rest = <<>> /\ UNCHANGED bonds0
      /\ UNCHANGED <<db, txn, cur, rest, claimed>> /\ Handled' = Handled
      /\ cur \in Block /\ cur \notin db.blocks /\ work \in Tables
      /\ work.blocks = db.blocks \cup {cur} /\ work.bondDeploys = db.bondDeploys
  BY DEF Handled, IndInv, TypeOK, AtDeploy, InBlock
<1>2. CASE HeightOf[cur] # 0
  <2>1. UNCHANGED <<work, unflushed, cache>>
    BY <1>2
  <2>2. TypeOK' /\ BondsKnown' /\ AtDeploy'
    BY <1>1, <1>2, <2>1 DEF IndInv, TypeOK, BondsKnown, AtDeploy, InBlock
  <2>3. RefusedIsLast' /\ TransfersOnce' /\ GenesisLast' /\ Counted'
    BY <1>1, <2>1
       DEF IndInv, RefusedIsLast, Silent, TransfersOnce, OncePerHeight, GenesisLast, Counted,
           CountedIn
  <2>4. WorkIsWhole' /\ \A c \in db'.blocks : WholeIn(db, c)'
    BY <1>1, <1>2, <2>1, Primed DEF IndInv, WorkIsWhole, RecordedIn
  <2> QED  BY <2>2, <2>3, <2>4 DEF IndInv
<1>3. CASE HeightOf[cur] = 0
  <2>1. PICK answer \in NodeBonds : AddGenesisRows(GenesisData(cache, bonds0, answer))
    BY <1>3
  <2> DEFINE data == GenesisData(cache, bonds0, answer)
  <2>2. /\ \E bonds \in AnyBonds : data = Positive(bonds)
        /\ Positive(bonds0) # {} => data = Positive(bonds0)
        /\ IsFiniteSet(data) /\ data \subseteq AnyBond /\ Balances(data) \subseteq BalanceRow
    BY GenesisDataKnown DEF IndInv
  <2> HIDE DEF data
  <2>3. Cardinality(data) \in Nat
    BY <2>2, FS_CardinalityType
  <2>4. /\ work' \in Tables /\ work'.blocks = work.blocks /\ work'.bonds = work.bonds
        /\ work'.deployments = work.deployments /\ work'.transfers = work.transfers
        /\ work'.bondDeploys = data /\ work'.balances = Balances(data)
        /\ work'.count = [work.count EXCEPT ![cur] = @ + Cardinality(data)]
        /\ cache' = data /\ unflushed' = TRUE
    <3> DEFINE count == [work.count EXCEPT ![cur] = @ + Cardinality(data)]
    <3>1. count \in [Block -> Int]
      BY <1>1, <2>3 DEF Tables
    <3>2. work' = [work EXCEPT !.bondDeploys = data, !.balances = Balances(data), !.count = count]
          /\ cache' = data /\ unflushed' = TRUE
      BY <1>1, <2>1 DEF AddGenesisRows, Tables, data
    <3> HIDE DEF count
    <3>3. work' \in Tables /\ work'.count = count
      BY <1>1, <2>2, <3>1, <3>2 DEF Tables
    <3> QED  BY <1>1, <3>2, <3>3 DEF Tables, count
  <2>5. TypeOK'
    BY <1>1, <2>2, <2>4 DEF IndInv, TypeOK
  <2>6. BondsKnown' /\ AtDeploy' /\ RefusedIsLast'
    BY <1>1, <2>2, <2>4
       DEF IndInv, BondsKnown, AtDeploy, InBlock, RefusedIsLast, Silent
  <2>7. \A b \in db.blocks : HeightOf[b] # 0
    BY <1>1, <1>3, TxnAssumption DEF IndInv, TypeOK, Tables
  <2>8. WorkIsWhole'
    <3> SUFFICES ASSUME txn = "active" PROVE WorkIsWhole'
      BY <1>1 DEF WorkIsWhole
    <3>1. ASSUME NEW c \in db.blocks PROVE WholeIn(work', c)
      <4>1. WholeIn(work, c)
        BY DEF IndInv, WorkIsWhole
      <4> QED  BY <2>4, <2>7, <4>1 DEF WholeIn, RecordedIn
    <3>2. GenesisIsWhole(work')
      BY <2>2, <2>4 DEF GenesisIsWhole
    <3>3. (GenesisIsWhole(work))' <=> GenesisIsWhole(work')
      BY <1>1 DEF GenesisIsWhole
    <3>4. \A i \in 1 .. Handled : RecordedIn(work', cur, DeploysOf[cur][i])
      BY <2>4 DEF IndInv, WorkIsWhole, RecordedIn
    <3> QED  BY <1>1, <2>4, <3>1, <3>2, <3>3, <3>4, Primed DEF IndInv, WorkIsWhole, RecordedIn
  <2>9. txn = "active" => CountedIn(work')
    <3> SUFFICES ASSUME txn = "active" PROVE CountedIn(work')
      OBVIOUS
    <3> DEFINE stored == Cardinality({e \in Deploy : work.deployments[e] # NoBlock})
    <3>1. Sum(work.count, Block) = stored
      <4>1. work.bondDeploys = {} /\ CountedIn(work) /\ IsFiniteSet({e \in Deploy : work.deployments[e] # NoBlock})
        BY <1>1, <2>7, FS_Subset, TxnAssumption DEF IndInv, GenesisLast, Counted
      <4>2. stored \in Nat /\ Cardinality({}) = 0
        BY <4>1, FS_CardinalityType, FS_EmptySet
      <4> QED  BY <4>1, <4>2 DEF CountedIn
    <3>2. Sum(work'.count, Block) = Sum(work.count, Block) + Cardinality(data)
      <4>1. /\ \A b \in Block : work.count[b] \in Int
            /\ work'.count[cur] = work.count[cur] + Cardinality(data)
            /\ \A b \in Block \ {cur} : work'.count[b] = work.count[b]
        BY <1>1, <2>4 DEF Tables
      <4>2. cur \in Block /\ IsFiniteSet(Block) /\ Cardinality(data) \in Int
        BY <1>1, <2>3, TxnAssumption
      <4> DEFINE k == Cardinality(data)
      <4> HIDE DEF k
      <4> QED  BY <4>1, <4>2, SumUpdate DEF k
    <3> QED  BY <2>2, <2>4, <3>1, <3>2 DEF CountedIn
  <2>10. TransfersOnce' /\ GenesisLast' /\ Counted'
    BY <1>1, <2>4, <2>9
       DEF IndInv, TransfersOnce, OncePerHeight, GenesisLast, Counted, CountedIn
  <2>11. \A c \in db'.blocks : WholeIn(db, c)'
    BY <1>1, Primed DEF IndInv
  <2> QED  BY <2>5, <2>6, <2>8, <2>10, <2>11 DEF IndInv
<1> QED  BY <1>2, <1>3

(* The sessions are closed, whatever the block came to.                    *)
LEMMA LeaveIndInv ==
  ASSUME IndInv, txn' = "none", work' = NoRows, unflushed' = FALSE, UNCHANGED bonds0,
         pc' \in {"idle", "justify"}, pc' = "justify" => cur' \in Block,
         cur' \in Block \cup {NoBlock}, rest' \in Seq(Deploy), cache' \in {cache, NoData},
         db' \in Tables, claimed' \subseteq Block,
         OncePerHeight(db'), CountedIn(db'),
         db'.bondDeploys # {} => \E b \in db'.blocks : HeightOf[b] = 0,
         \A b \in db'.blocks : WholeIn(db', b)
  PROVE  IndInv'
<1>1. TypeOK'
  BY NoRowsFields DEF IndInv, TypeOK
<1>2. BondsKnown' /\ AtDeploy' /\ RefusedIsLast' /\ WorkIsWhole'
  BY DEF IndInv, BondsKnown, AtDeploy, InBlock, RefusedIsLast, WorkIsWhole
<1>3. TransfersOnce'
  BY NoRowsFields DEF TransfersOnce, OncePerHeight
<1>4. GenesisLast' /\ Counted'
  BY DEF GenesisLast, Counted, CountedIn
<1>5. \A c \in db'.blocks : WholeIn(db, c)'
  BY Primed
<1> QED  BY <1>1, <1>2, <1>3, <1>4, <1>5 DEF IndInv

(* What the database has does not change while a block is worked on.       *)
LEMMA SameDbIndInv ==
  ASSUME IndInv, txn' = "none", work' = NoRows, unflushed' = FALSE, UNCHANGED <<db, bonds0>>,
         pc' \in {"idle", "justify"}, pc' = "justify" => cur' \in Block,
         cur' \in Block \cup {NoBlock}, rest' \in Seq(Deploy), cache' \in {cache, NoData},
         claimed' \subseteq Block
  PROVE  IndInv'
<1>1. db' \in Tables /\ (db'.bondDeploys # {} => \E b \in db'.blocks : HeightOf[b] = 0)
  BY DEF IndInv, TypeOK, GenesisLast
<1>2. OncePerHeight(db') /\ CountedIn(db') /\ \A b \in db'.blocks : WholeIn(db', b)
  BY DEF IndInv, TransfersOnce, OncePerHeight, Counted, CountedIn, WholeIn, RecordedIn, GenesisIsWhole
<1> QED  BY <1>1, <1>2, LeaveIndInv

(* The commit of a transaction the server still takes: the block is whole. *)
LEMMA CommitIndInv ==
  ASSUME IndInv, Commit
  PROVE  IndInv'
<1> USE DEF Commit, genesis
<1>1. /\ pc = "commit" /\ txn = "active" /\ db' = work /\ UNCHANGED <<cache, bonds0>>
      /\ cur \in Block /\ work \in Tables /\ work.blocks = db.blocks \cup {cur} /\ rest = <<>>
      /\ claimed \subseteq Block
  BY DEF IndInv, TypeOK, AtDeploy, InBlock
<1>2. /\ txn' = "none" /\ work' = NoRows /\ unflushed' = FALSE
      /\ pc' \in {"idle", "justify"} /\ (pc' = "justify" => cur' \in Block)
      /\ cur' \in Block \cup {NoBlock} /\ rest' \in Seq(Deploy)
      /\ claimed' \subseteq Block
  BY <1>1, EmptySeq DEF AfterCommit, Done
<1>3. WholeIn(work, cur)
  <2>1. Handled = Len(DeploysOf[cur])
    BY <1>1, EmptySeq, DeploysTyped DEF Handled
  <2>2. \A d \in DeploysIn(cur) : RecordedIn(work, cur, d)
    BY <1>1, <2>1, DeploysTyped DEF IndInv, WorkIsWhole, DeploysIn
  <2> QED  BY <1>1, <2>2 DEF IndInv, WorkIsWhole, WholeIn
<1>4. \A b \in db'.blocks : WholeIn(db', b)
  <2>1. \A b \in work.blocks : WholeIn(work, b)
    BY <1>1, <1>3 DEF IndInv, WorkIsWhole
  <2> QED  BY <1>1, <2>1
<1>5. OncePerHeight(db') /\ CountedIn(db')
  <2>1. OncePerHeight(work) /\ CountedIn(work)
    BY <1>1 DEF IndInv, TransfersOnce, Counted
  <2> QED  BY <1>1, <2>1
<1>6. db'.bondDeploys # {} => \E b \in db'.blocks : HeightOf[b] = 0
  BY <1>1 DEF IndInv, AtDeploy, InBlock, GenesisLast
<1> QED  BY <1>1, <1>2, <1>4, <1>5, <1>6, LeaveIndInv

(* A commit that is a rollback stores nothing.                             *)
LEMMA RollbackIndInv ==
  ASSUME IndInv, CommitRollsBack
  PROVE  IndInv'
<1>1. /\ cur \in Block /\ claimed \subseteq Block /\ rest \in Seq(Deploy)
      /\ pc' \in {"idle", "justify"} /\ txn' = "none" /\ work' = NoRows /\ unflushed' = FALSE
      /\ UNCHANGED <<db, cache, bonds0>>
  BY DEF CommitRollsBack, AfterCommit, Done, genesis, IndInv, TypeOK, AtDeploy, InBlock
<1>2. cur' \in {cur, NoBlock} /\ (pc' = "justify" => cur' = cur) /\ rest' \in {rest, <<>>}
      /\ claimed' \subseteq claimed \cup {cur}
  BY DEF CommitRollsBack, AfterCommit, Done
<1>3. <<>> \in Seq(Deploy)
  BY EmptySeq
<1> QED  BY <1>1, <1>2, <1>3, SameDbIndInv

(* The second transaction: its foreign key finds the block, or fails.      *)
LEMMA ValidatorsIndInv ==
  ASSUME IndInv, WriteValidators
  PROVE  IndInv'
<1> USE DEF WriteValidators, genesis
<1>1. /\ pc = "justify" /\ cur \in db.blocks /\ cur \in Block /\ UNCHANGED <<cache, bonds0>>
      /\ db \in Tables /\ claimed' \subseteq Block
  BY DEF IndInv, TypeOK, AtDeploy
<1>2. /\ db' \in Tables /\ db'.blocks = db.blocks /\ db'.bonds = db.bonds
      /\ db'.deployments = db.deployments /\ db'.count = db.count
      /\ db'.transfers = db.transfers /\ db'.bondDeploys = db.bondDeploys
      /\ db'.balances = db.balances
  BY <1>1 DEF Tables
<1>3. /\ txn' = "none" /\ work' = NoRows /\ unflushed' = FALSE /\ pc' = "idle"
      /\ cur' = NoBlock /\ rest' = <<>> /\ rest' \in Seq(Deploy)
  BY EmptySeq DEF Done
<1>4. \A b \in db'.blocks : WholeIn(db', b)
  BY <1>2 DEF IndInv, WholeIn, RecordedIn, GenesisIsWhole
<1>5. OncePerHeight(db') /\ CountedIn(db')
  BY <1>2 DEF IndInv, TransfersOnce, OncePerHeight, Counted, CountedIn
<1>6. db'.bondDeploys # {} => \E b \in db'.blocks : HeightOf[b] = 0
  BY <1>2 DEF IndInv, GenesisLast
<1> QED  BY <1>1, <1>2, <1>3, <1>4, <1>5, <1>6, LeaveIndInv

(* A failure leaves the database as it was.                                *)
LEMMA FailIndInv ==
  ASSUME IndInv, Fail
  PROVE  IndInv'
<1>1. rest' \in Seq(Deploy)
  BY EmptySeq DEF Fail, Done
<1> QED  BY <1>1, SameDbIndInv DEF Fail, Done, IndInv, TypeOK

(* A block found in the database is claimed, and is there.                 *)
LEMMA AlreadyIndInv ==
  ASSUME IndInv, NEW b \in Block, AlreadyIndexed(b)
  PROVE  IndInv'
<1>1. /\ UNCHANGED <<db, work, txn, unflushed, pc, cur, rest, cache, bonds0>> /\ Handled' = Handled
      /\ claimed' = claimed \cup {b} /\ b \in db.blocks
  BY DEF AlreadyIndexed, genesis, Handled
<1>2. TypeOK' /\ BondsKnown' /\ AtDeploy' /\ RefusedIsLast'
  BY <1>1 DEF IndInv, TypeOK, BondsKnown, AtDeploy, InBlock, RefusedIsLast, Silent
<1>3. WorkIsWhole' /\ \A c \in db'.blocks : WholeIn(db, c)'
  BY <1>1, Primed DEF IndInv, WorkIsWhole, RecordedIn, GenesisIsWhole
<1>4. TransfersOnce' /\ GenesisLast' /\ Counted'
  BY <1>1
     DEF IndInv, TransfersOnce, OncePerHeight, GenesisLast, Counted, CountedIn
<1> QED  BY <1>2, <1>3, <1>4 DEF IndInv

(* Nothing changes.                                                        *)
LEMMA StutterIndInv == IndInv /\ UNCHANGED vars => IndInv'
<1> SUFFICES ASSUME IndInv, UNCHANGED vars PROVE IndInv'
  OBVIOUS
<1>1. UNCHANGED <<db, work, txn, unflushed, pc, cur, rest, claimed, cache, bonds0>>
      /\ Handled' = Handled
  BY DEF vars, genesis, Handled
<1>2. TypeOK' /\ BondsKnown' /\ AtDeploy' /\ RefusedIsLast'
  BY <1>1 DEF IndInv, TypeOK, BondsKnown, AtDeploy, InBlock, RefusedIsLast, Silent
<1>3. WorkIsWhole' /\ \A c \in db'.blocks : WholeIn(db, c)'
  BY <1>1, Primed DEF IndInv, WorkIsWhole, RecordedIn, GenesisIsWhole
<1>4. TransfersOnce' /\ GenesisLast' /\ Counted'
  BY <1>1
     DEF IndInv, TransfersOnce, OncePerHeight, GenesisLast, Counted, CountedIn
<1> QED  BY <1>2, <1>3, <1>4 DEF IndInv

(* Every statement of the writer keeps the invariant.                      *)
LEMMA NextIndInv ==
  ASSUME IndInv, [Next]_vars
  PROVE  IndInv'
<1>1. ASSUME NEW b \in Block, AlreadyIndexed(b) \/ OpenBlock(b) PROVE IndInv'
  BY <1>1, AlreadyIndInv, OpenIndInv
<1>2. CASE UpsertDeploy \/ UpsertRefused \/ FlushRefused \/ ExtractTransfers \/ EndOfDeploys
  BY <1>2, UpsertIndInv, RefusedIndInv, TransfersIndInv, EndIndInv
<1>3. CASE Commit \/ CommitRollsBack \/ WriteValidators \/ Fail
  BY <1>3, CommitIndInv, RollbackIndInv, ValidatorsIndInv, FailIndInv
<1> QED  BY <1>1, <1>2, <1>3, StutterIndInv DEF Next
----------------------------------------------------------------------------
(* The invariant, from which everything below follows.                     *)
LEMMA Invariance == Spec => []IndInv
BY InitIndInv, NextIndInv, PTL DEF Spec

(* The tables keep their types, and a transaction is open exactly from the *)
(* block row to the commit.                                                *)
THEOREM TypeCorrect == Spec => []TypeOK
BY Invariance, PTL DEF IndInv

(* A commit that rolls back and tells the caller nothing is one of a block *)
(* that sends nothing after the upsert that was refused.                   *)
LEMMA RolledBackIsLate ==
  ASSUME IndInv, CommitRollsBack
  PROVE  cur \in LateReject \ db.blocks
<1> USE DEF CommitRollsBack
<1>1. /\ pc = "commit" /\ txn = "aborted" /\ ~ unflushed
      /\ cur \in Block \ db.blocks /\ rest = <<>> /\ rest \in Seq(Deploy)
  BY DEF IndInv, TypeOK, AtDeploy, InBlock
<1>2. HeightOf[cur] > 0
  BY <1>1, TxnAssumption DEF IndInv, AtDeploy, InBlock
<1>3. Handled = Len(DeploysOf[cur])
  BY <1>1, EmptySeq, DeploysTyped DEF Handled
<1>4. PICK i \in DOMAIN DeploysOf[cur] :
        DeploysOf[cur][i] \in Refusable /\ Silent(cur, i, Len(DeploysOf[cur]))
  BY <1>1, <1>3 DEF IndInv, RefusedIsLast
<1> QED  BY <1>1, <1>2, <1>4 DEF LateReject

(* A block the writer has returned from is in the database: every way to   *)
(* lose it silently ends at the foreign key of its block_validators.       *)
THEOREM ReturnedIsStored == LateJustified => (Spec => []ClaimedIsStored)
<1> SUFFICES ASSUME LateJustified PROVE Spec => []ClaimedIsStored
  OBVIOUS
<1>1. Init => ClaimedIsStored
  BY DEF Init, ClaimedIsStored
<1>2. IndInv /\ ClaimedIsStored /\ [Next]_vars => ClaimedIsStored'
  <2> SUFFICES ASSUME IndInv, ClaimedIsStored, [Next]_vars PROVE ClaimedIsStored'
    OBVIOUS
  <2> USE DEF ClaimedIsStored
  <2>1. CASE Commit
    BY <2>1 DEF Commit, AfterCommit, Done, IndInv, TypeOK, AtDeploy, InBlock
  <2>2. CASE CommitRollsBack
    BY <2>2, RolledBackIsLate DEF CommitRollsBack, AfterCommit, LateJustified
  <2>3. CASE WriteValidators
    BY <2>3 DEF WriteValidators, IndInv, TypeOK, Tables
  <2>4. CASE Fail
    BY <2>4 DEF Fail
  <2>5. ASSUME NEW b \in Block, AlreadyIndexed(b) \/ OpenBlock(b) PROVE ClaimedIsStored'
    BY <2>5 DEF AlreadyIndexed, OpenBlock
  <2>6. CASE UpsertDeploy \/ UpsertRefused \/ FlushRefused \/ ExtractTransfers \/ EndOfDeploys
    BY <2>6 DEF UpsertDeploy, UpsertRefused, FlushRefused, ExtractTransfers, EndOfDeploys
  <2>7. CASE UNCHANGED vars
    BY <2>7 DEF vars
  <2> QED  BY <2>1, <2>2, <2>3, <2>4, <2>5, <2>6, <2>7 DEF Next
<1> QED  BY <1>1, <1>2, Invariance, PTL DEF Spec

(* A block is indexed whole: its bonds, its deploys, their transfers, and  *)
(* for block 0 genesis rows that agree with its bonds list.                *)
THEOREM IndexedWhole == Spec => []BlockIsWhole
<1>1. IndInv => BlockIsWhole
  BY DEF IndInv, BlockIsWhole, WholeIn, RecordedIn, GenesisIsWhole
<1> QED  BY <1>1, Invariance, PTL

(* The counts of all blocks add up to the rows of deployments, however     *)
(* often siblings take a deploy from each other.                           *)
THEOREM CountsMatch == Spec => []CountsAddUp
<1>1. IndInv => CountsAddUp
  BY DEF IndInv, Counted, CountedIn, CountsAddUp, Sum
<1> QED  BY <1>1, Invariance, PTL

(* A transfer of a deploy is recorded once per height, whichever siblings  *)
(* carry the deploy and however often they are processed.                  *)
THEOREM RecordedOnce == Spec => []TransferOncePerHeight
<1>1. IndInv => TransferOncePerHeight
  BY DEF IndInv, TransfersOnce, OncePerHeight, TransferOncePerHeight
<1> QED  BY <1>1, Invariance, PTL
----------------------------------------------------------------------------
(* The refinement: BlockTxn implements BlockWriter.                        *)

\* What the invariant leaves out: only the second transaction writes block_validators.
Boundary ==
  /\ pc = "idle" => cur = NoBlock
  /\ pc \in InBlock => work.validators = db.validators

(* It is kept by every step.                                               *)
LEMMA NextBoundary ==
  ASSUME IndInv, Boundary, [Next]_vars
  PROVE  Boundary'
<1> USE DEF Boundary, InBlock
<1>1. work \in Tables /\ db \in Tables
  BY DEF IndInv, TypeOK
<1>2. ASSUME NEW b \in Block, AlreadyIndexed(b) \/ OpenBlock(b) PROVE Boundary'
  BY <1>1, <1>2 DEF AlreadyIndexed, OpenBlock, Tables
<1>3. CASE UpsertDeploy \/ UpsertRefused \/ FlushRefused
  BY <1>1, <1>3 DEF UpsertDeploy, UpsertRefused, FlushRefused, CountedUpsert, Tables
<1>4. CASE ExtractTransfers
  BY <1>1, <1>4 DEF ExtractTransfers, Tables
<1>5. CASE EndOfDeploys
  BY <1>1, <1>5 DEF EndOfDeploys, AddGenesisRows, Tables
<1>6. CASE Commit \/ CommitRollsBack \/ WriteValidators \/ Fail
  BY <1>6 DEF Commit, CommitRollsBack, AfterCommit, WriteValidators, Fail, Done
<1>7. CASE UNCHANGED vars
  BY <1>7 DEF vars
<1> QED  BY <1>2, <1>3, <1>4, <1>5, <1>6, <1>7 DEF Next

(* What the caller sees of the tables: the blocks that are there are whole *)
(* before and after a step.                                                *)
Whole == {b \in db.blocks : WholeIn(db, b)}
LEMMA AllWhole == IndInv => Whole = db.blocks
BY DEF IndInv, Whole

(* A statement inside the first transaction is not seen from outside.      *)
LEMMA StatementIsHidden ==
  ASSUME UpsertDeploy \/ UpsertRefused \/ FlushRefused \/ ExtractTransfers \/ EndOfDeploys
  PROVE  /\ UNCHANGED <<db, cur, claimed, bonds0>>
         /\ pc \in InBlock /\ pc' \in InBlock
BY DEF UpsertDeploy, UpsertRefused, FlushRefused, ExtractTransfers, EndOfDeploys, AddGenesisRows,
       genesis, InBlock

(* Every statement of the writer is a step of its promise or none.         *)
LEMMA StepRefines ==
  ASSUME IndInv, Boundary, Whole = db.blocks, Whole' = db'.blocks, [Next]_vars
  PROVE  [Writer!Next]_Writer!vars
<1> DEFINE at == IF pc \in {"idle", "justify"} THEN pc ELSE "block"
<1>1. /\ {b \in db.blocks : WholeIn(db, b)} = db.blocks
      /\ {b \in db.blocks : WholeIn(db, b)}' = db'.blocks
  BY DEF Whole
<1>2. db \in Tables /\ work \in Tables /\ (pc \in InBlock => cur \in Block \ db.blocks)
  BY DEF IndInv, TypeOK, AtDeploy
<1>3. ASSUME NEW b \in Block, AlreadyIndexed(b) PROVE Writer!SkipIndexed(b)
  BY <1>1, <1>3 DEF AlreadyIndexed, Writer!SkipIndexed
<1>4. ASSUME NEW b \in Block, OpenBlock(b) PROVE Writer!TakeBlock(b)
  BY <1>1, <1>4 DEF OpenBlock, Writer!TakeBlock
<1>5. CASE UpsertDeploy \/ UpsertRefused \/ FlushRefused \/ ExtractTransfers \/ EndOfDeploys
  <2>1. UNCHANGED <<db, cur, claimed, at>>
    BY <1>5, StatementIsHidden DEF InBlock
  <2> QED  BY <1>1, <2>1 DEF Writer!vars
<1>6. CASE Commit
  <2>1. /\ db'.blocks = db.blocks \cup {cur} /\ db'.validators = db.validators /\ at = "block"
    BY <1>6 DEF Commit, IndInv, AtDeploy, InBlock, Boundary
  <2> QED
    BY <1>1, <1>6, <2>1
       DEF Commit, AfterCommit, Done, Writer!CommitBlock, Writer!AfterCommit, Writer!Return,
           Writer!Next
<1>7. CASE CommitRollsBack
  <2>1. at = "block" /\ cur \in LateReject \ db.blocks /\ UNCHANGED db
    BY <1>7, RolledBackIsLate DEF CommitRollsBack
  <2> QED
    BY <1>1, <1>7, <2>1
       DEF CommitRollsBack, AfterCommit, Done, Writer!CommitRollsBack, Writer!AfterCommit,
           Writer!Return, Writer!Next
<1>8. CASE WriteValidators
  <2>1. /\ db'.blocks = db.blocks /\ db'.validators = db.validators \cup {cur}
        /\ at = "justify" /\ cur \in db.blocks
    BY <1>2, <1>8 DEF WriteValidators, Tables
  <2> QED
    BY <1>1, <1>8, <2>1
       DEF WriteValidators, Done, Writer!WriteValidators, Writer!Return, Writer!Next
<1>9. CASE Fail
  <2>1. UNCHANGED <<db, claimed>> /\ pc' = "idle" /\ cur' = NoBlock
    BY <1>9 DEF Fail, Done
  <2>2. CASE pc = "idle"
    <3>1. cur = NoBlock
      BY <2>2 DEF Boundary
    <3> QED  BY <1>1, <2>1, <2>2, <3>1 DEF Writer!vars
  <2>3. CASE pc # "idle"
    BY <1>1, <2>1, <2>3 DEF Writer!GiveUp, Writer!Next
  <2> QED  BY <2>2, <2>3
<1>10. CASE UNCHANGED vars
  BY <1>1, <1>10 DEF vars, Writer!vars
<1> QED  BY <1>3, <1>4, <1>5, <1>6, <1>7, <1>8, <1>9, <1>10 DEF Next, Writer!Next

(* BlockTxn implements BlockWriter: whatever statements the database       *)
(* refuses, a block comes into being whole and in one step, and what is    *)
(* lost without an exception is of LateReject.                             *)
THEOREM Refinement == Spec => ImplementsWriter
<1>1. Init => Writer!Init
  BY NoRowsFields DEF Init, Writer!Init
<1>2. Init => Boundary
  BY DEF Init, Boundary, InBlock
<1>3. IndInv /\ Boundary /\ Whole = db.blocks /\ (Whole = db.blocks)' /\ [Next]_vars
        => [Writer!Next]_Writer!vars
  BY StepRefines
<1> QED
  BY <1>1, <1>2, <1>3, AllWhole, NextBoundary, Invariance, PTL
     DEF Spec, ImplementsWriter, Writer!Spec
----------------------------------------------------------------------------
(* The terms of deploys, whatever their length.                            *)

(* What a plain term may have in a place.                                  *)
LEMMA PlainStatement ==
  ASSUME NEW term \in Seq(Statement), Plain(term), NEW i \in DOMAIN term
  PROVE  LET s == term[i]
         IN  /\ s.op \in {"match", "bind", "assign", "send", "create", "other"}
             /\ s.op = "match" => /\ s.from \in Address \cup Short /\ s.to \in Address
                                  /\ s.to \notin Name /\ s.exact \in BOOLEAN
             /\ IsCall(s) => s.to \in Address \cup Name
<1>1. term[i] \in Statement
  BY ElementOfSeq
<1>2. term[i].op # "other" => term[i].to \in Address \cup Name
  BY DEF Plain
<1>3. term[i].op = "match" => term[i].from \in Address \cup Short
  BY DEF Plain
<1>4. term[i].op \in {"match", "bind", "assign", "send", "create", "other"}
  BY <1>1 DEF Statement
<1>5. term[i].op = "match" => term[i].to \in String /\ term[i].exact \in BOOLEAN
  BY <1>1 DEF Statement
<1> QED  BY <1>2, <1>3, <1>4, <1>5, StringAssumption DEF IsCall, String

(* A name that is bound in one place resolves to what is bound there,      *)
(* whichever of the three patterns finds it.                               *)
LEMMA BoundOnce ==
  ASSUME NEW term \in Seq(Statement), NEW name, NEW j \in DOMAIN term, Binds(term[j], name),
         \A i \in DOMAIN term : Binds(term[i], name) => i = j
  PROVE  Binding(term, name) = BoundBy(term[j], name)
<1>1. j \in Nat
  BY LenProperties
<1>2. \A i \in DOMAIN term : BoundBy(term[i], name) # Unknown <=> i = j
  BY DEF Binds
<1>3. \A op : Binders(term, op, name) = IF term[j].op = op THEN {j} ELSE {}
  BY <1>2 DEF Binders
<1>4. ASSUME NEW op, term[j].op = op
      PROVE  LastBinding(term, op, name) = BoundBy(term[j], name)
  <2>1. (CHOOSE i \in {j} : \A k \in {j} : k <= i) = j
    BY <1>1
  <2> QED  BY <1>3, <1>4, <2>1 DEF LastBinding
<1>5. term[j].op \in {"bind", "assign", "match"}
  BY <1>2 DEF BoundBy
<1>6. CASE term[j].op = "match"
  BY <1>3, <1>4, <1>6 DEF Binding
<1>7. CASE term[j].op = "assign"
  BY <1>3, <1>4, <1>7 DEF Binding
<1>8. CASE term[j].op = "bind"
  BY <1>3, <1>4, <1>8 DEF Binding
<1> QED  BY <1>5, <1>6, <1>7, <1>8

(* In a plain term a call goes to what its recipient stands for there.     *)
LEMMA CallsResolve ==
  ASSUME NEW term \in Seq(Statement), Plain(term), NEW i \in DOMAIN term, IsCall(term[i])
  PROVE  /\ Resolve(term, term[i].to) = Meant(term, i, term[i].to)
         /\ Meant(term, i, term[i].to) # Unknown
<1> DEFINE to == term[i].to
<1>1. CASE to \in Address
  BY <1>1, StringAssumption DEF Resolve, Meant, String
<1>2. CASE to \in Name
  <2> DEFINE j == CHOOSE k \in 1 .. i - 1 : Binds(term[k], to)
  <2>1. \E k \in 1 .. i - 1 : Binds(term[k], to)
    BY <1>2 DEF Plain
  <2>2. j \in 1 .. i - 1 /\ Binds(term[j], to)
    BY <2>1
  <2>3. Len(term) \in Nat /\ DOMAIN term = 1 .. Len(term)
    BY LenProperties
  <2> HIDE DEF j
  <2>4. j \in DOMAIN term
    BY <2>2, <2>3
  <2>5. \A k \in DOMAIN term : Binds(term[k], to) => k = j
    BY <1>2, <2>2, <2>4 DEF Plain
  <2>6. Binding(term, to) = BoundBy(term[j], to)
    BY <2>2, <2>4, <2>5, BoundOnce
  <2>7. Resolve(term, to) = Binding(term, to)
    BY <1>2, StringAssumption DEF Resolve, String
  <2>8. Meant(term, i, to) = BoundBy(term[j], to)
    BY <1>2 DEF Meant, j
  <2> QED  BY <2>2, <2>6, <2>7, <2>8 DEF Binds
<1> QED  BY <1>1, <1>2, PlainStatement

(* What a statement of a plain term says.                                  *)
LEMMA SaidBy ==
  ASSUME NEW term \in Seq(Statement), Plain(term), NEW i \in DOMAIN term, NEW deployer
  PROVE  /\ IsCall(term[i]) /\ term[i].amount > 0 =>
              Said(term, deployer, i) = {<<deployer, Resolve(term, term[i].to), term[i].amount>>}
         /\ IsHeader(term[i]) /\ (term[i].exact \/ MentionsVault(term)) =>
              Said(term, deployer, i) = {<<term[i].from, term[i].to, term[i].amount>>}
         /\ ~ (IsCall(term[i]) /\ term[i].amount > 0)
            /\ ~ (IsHeader(term[i]) /\ (term[i].exact \/ MentionsVault(term))) =>
              Said(term, deployer, i) = {}
<1>1. IsCall(term[i]) => Resolve(term, term[i].to) = Meant(term, i, term[i].to)
  BY CallsResolve
<1>2. ~ (IsCall(term[i]) /\ IsHeader(term[i]))
  BY DEF IsCall, IsHeader
<1> QED  BY <1>1, <1>2 DEF Said

(* The first pass finds the headers it knows how to read.                  *)
LEMMA DirectIsHeaders ==
  ASSUME NEW term \in Seq(Statement), Plain(term)
  PROVE  \A t : t \in Direct(term) <=>
                  \E i \in DOMAIN term : /\ IsHeader(term[i]) /\ term[i].exact
                                         /\ t = <<term[i].from, term[i].to, term[i].amount>>
<1>1. \A i \in DOMAIN term :
        IsHeader(term[i]) /\ term[i].exact <=>
          /\ term[i].op = "match" /\ term[i].exact /\ term[i].amount > 0
          /\ term[i].from \in Address \cup Long /\ term[i].to \in Address \cup Long \cup Short
  <2> TAKE i \in DOMAIN term
  <2>1. term[i].op = "match" => term[i].from \in Address \cup Short /\ term[i].to \in Address
    BY PlainStatement
  <2> QED  BY <2>1, StringAssumption DEF IsHeader
<1> QED  BY <1>1 DEF Direct, InTerm

(* The second pass finds the calls, and the headers of any spelling.       *)
LEMMA CallsAreSaid ==
  ASSUME NEW term \in Seq(Statement), Plain(term), NEW deployer
  PROVE  \A t : t \in Calls(term, deployer) <=>
                  \E i \in DOMAIN term :
                     \/ /\ IsCall(term[i]) /\ term[i].amount > 0
                        /\ t = <<deployer, Resolve(term, term[i].to), term[i].amount>>
                     \/ /\ IsHeader(term[i])
                        /\ t = <<term[i].from, term[i].to, term[i].amount>>
<1> DEFINE sent == {<<deployer, Resolve(term, s.to), s.amount>> :
                      s \in InTerm(term, "send") \cup InTerm(term, "create")}
           matched == {<<IF s.from \in Address THEN s.from ELSE deployer,
                         Resolve(term, s.to), s.amount>> :
                       s \in {m \in InTerm(term, "match") : m.from \in Address \cup Foreign}}
<1>1. \A t : t \in sent <=> \E i \in DOMAIN term :
               IsCall(term[i]) /\ t = <<deployer, Resolve(term, term[i].to), term[i].amount>>
  BY DEF InTerm, IsCall
<1>2. \A t : t \in matched <=> \E i \in DOMAIN term :
               /\ term[i].op = "match" /\ term[i].from \in Address
               /\ t = <<term[i].from, term[i].to, term[i].amount>>
  <2>1. ASSUME NEW i \in DOMAIN term, term[i].op = "match"
        PROVE  /\ term[i].from \in Address \cup Foreign <=> term[i].from \in Address
               /\ Resolve(term, term[i].to) = term[i].to
    BY <2>1, PlainStatement, StringAssumption DEF Resolve, String
  <2> QED  BY <2>1 DEF InTerm
<1>3. \A i \in DOMAIN term :
        /\ IsCall(term[i]) => Resolve(term, term[i].to) # Unknown
        /\ term[i].op = "match" => term[i].to # Unknown
  BY CallsResolve, PlainStatement, StringAssumption DEF String
<1>4. Calls(term, deployer) = {t \in sent \cup matched : t[2] # Unknown /\ t[3] > 0}
  BY DEF Calls
<1> HIDE DEF sent, matched
<1> QED  BY <1>1, <1>2, <1>3, <1>4 DEF IsHeader

(* From every plain term, however long, just what it says is extracted.    *)
LEMMA PlainIsRead ==
  ASSUME NEW term \in Seq(Statement), Plain(term), NEW deployer
  PROVE  ReadAsSaid(term, deployer)
<1> DEFINE D == DOMAIN term
           said == UNION {Said(term, deployer, i) : i \in D}
           Exact(i) == IsHeader(term[i]) /\ term[i].exact
<1>1. \A t : t \in said <=> \E i \in D : t \in Said(term, deployer, i)
  OBVIOUS
<1>2. CASE \E i \in D : Exact(i)
  <2>1. Direct(term) # {}
    BY <1>2, DirectIsHeaders
  <2>2. \A i \in D : ~ IsCall(term[i]) /\ (IsHeader(term[i]) => term[i].exact)
    BY <1>2 DEF Plain
  <2>3. \A i \in D : Said(term, deployer, i) =
          IF Exact(i) THEN {<<term[i].from, term[i].to, term[i].amount>>} ELSE {}
    BY <2>2, SaidBy
  <2>4. \A t : t \in Direct(term) <=> t \in said
    BY <1>1, <2>3, DirectIsHeaders
  <2> QED  BY <2>1, <2>4 DEF ReadAsSaid, Extracted
<1>3. CASE ~ \E i \in D : Exact(i)
  <2>1. Direct(term) = {}
    BY <1>3, DirectIsHeaders
  <2>2. CASE MentionsVault(term)
    <3>1. \A i \in D : Said(term, deployer, i) =
            IF IsCall(term[i]) /\ term[i].amount > 0
            THEN {<<deployer, Resolve(term, term[i].to), term[i].amount>>}
            ELSE IF IsHeader(term[i]) THEN {<<term[i].from, term[i].to, term[i].amount>>} ELSE {}
      BY <2>2, SaidBy
    <3>2. \A i \in D : ~ (IsCall(term[i]) /\ IsHeader(term[i]))
      BY DEF IsCall, IsHeader
    <3>3. \A t : t \in Calls(term, deployer) <=> t \in said
      BY <1>1, <3>1, <3>2, CallsAreSaid
    <3> QED  BY <2>1, <2>2, <3>3 DEF ReadAsSaid, Extracted
  <2>3. CASE ~ MentionsVault(term)
    <3>1. \A i \in D : ~ IsCall(term[i])
      BY <2>3 DEF MentionsVault, IsCall
    <3>2. \A i \in D : Said(term, deployer, i) = {}
      BY <1>3, <2>3, <3>1, SaidBy
    <3> QED  BY <1>1, <2>1, <2>3, <3>2 DEF ReadAsSaid, Extracted
  <2> QED  BY <2>2, <2>3
<1> QED  BY <1>2, <1>3

(* A plain term of any length and with any names is read as it is said.    *)
THEOREM TermsAreRead == Spec => []PlainTermsAreRead
<1>1. PlainTermsAreRead
  BY PlainIsRead, TxnAssumption DEF PlainTermsAreRead
<1> QED  BY <1>1, PTL
=============================================================================
