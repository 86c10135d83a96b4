------------------------- MODULE CycleSteps_proofs --------------------------
(***************************************************************************)
(* For every chain, batch size, cap of the node and interval: what the     *)
(* steps of a cycle write is what their readers may take it for, although  *)
(* the node moves on between its answers and a step may fail anywhere.     *)
(*                                                                         *)
(* A behaviour follows one step.  The invariant says of that step what its *)
(* proof needs, and of the others that they have not begun.                *)
(***************************************************************************)
EXTENDS CycleSteps, Facts_proofs

\* The table is what is left of an answer, which was cut at the cap.
SnapshotOf(copy, deploys, number) ==
  /\ deploys \subseteq Entry /\ IsFiniteSet(deploys) /\ number \in Nat
  /\ copy = Signed(deploys) /\ Cardinality(deploys) = Min({Cap, number})

PendingInv ==
  /\ PendingTypes /\ IsFiniteSet(buffers)
  /\ phase \in {"idle", "answered", "deleted", "inserted"}
  /\ \E deploys \in SUBSET Entry : SnapshotOf(rows, deploys, total)
  /\ phase # "idle" => SnapshotOf(Signed(answer.deploys), answer.deploys, answer.total)
  /\ phase = "inserted" => open = Signed(answer.deploys)

ValidatorsInv ==
  /\ ValidatorTypes /\ phase \in {"idle", "bonds"}
  /\ phase = "bonds" => asked \in Height

EpochsInv == EpochTypes /\ phase \in {"idle", "epoch"}

StatsInv ==
  /\ StatsTypes /\ phase \in {"idle", "lfb", "stakes", "active"}
  /\ phase \in {"stakes", "active"} => lfbAt \in Height
  /\ phase = "active" => bondsAt \in Height
  /\ ShareOfOneAnswer

\* The DAG has no gap below its head, and every height of it a block on the main chain.
DagIsWhole ==
  /\ known[tip] # {} /\ \A g, h \in Height : g <= h /\ known[h] # {} => known[g] # {}
  /\ \A h \in Height : main[h] \in known[h] \/ (main[h] = None /\ known[h] = {})

\* Below the cursor all is stored that the batch was shown whose cursor passed, and from
\* StartFrom on it was shown something.
PassedIsStored ==
  \A h \in Height : h <= cursor =>
     (h >= StartFrom => stored[h] # {}) /\ Branch \ missed[h] \subseteq stored[h]

\* An answer that reaches down to the cursor holds the height of the cursor.
AnswerReaches ==
  phase = "chain" =>
     /\ chain \subseteq Height \X Branch
     /\ \A entry \in chain : entry[1] <= cursor => \E last \in chain : last[1] = cursor

ChainInv ==
  /\ ChainTypes /\ phase \in {"idle", "batch", "chain"}
  /\ DagIsWhole /\ PassedIsStored /\ AnswerReaches
  /\ missed \in [Height -> SUBSET Branch]
  /\ cursor = -1 \/ cursor >= StartFrom
  /\ \A h \in Height : shown[h] # {} => h >= StartFrom
  /\ compared \subseteq Height
  /\ \A entry \in reorg : entry[1] <= cursor
  /\ NoFalseReorg /\ VerifiedMeansCompared

ViewInv == tip \in Height /\ cursor \in -1 .. tip

IndInv ==
  /\ ViewInv /\ watched \in Step
  /\ IF watched = "pending" THEN PendingInv ELSE PendingInit
  /\ IF watched = "validators" THEN ValidatorsInv ELSE ValidatorsInit
  /\ IF watched = "epochs" THEN EpochsInv ELSE EpochsInit
  /\ IF watched = "stats" THEN StatsInv ELSE StatsInit
  /\ IF watched = "chain" THEN ChainInv ELSE ChainInit
-----------------------------------------------------------------------------
(* A batch lies between the cursor and the tip, and above start_from_block.*)
LEMMA BatchIsAhead ==
  ASSUME tip \in Height, cursor \in -1 .. tip
  PROVE  /\ Batch \subseteq Height
         /\ \A h \in Batch : cursor < h /\ h <= tip /\ StartFrom <= h
         /\ \A h, g \in Int : StartFrom <= h /\ cursor < h /\ h <= g /\ g \in Batch => h \in Batch
         /\ BatchStart \in Int
         /\ \A h \in Int : StartFrom <= h /\ cursor < h => BatchStart <= h
<1>1. tip \in Int /\ cursor \in Int /\ -1 <= cursor /\ cursor <= tip /\ tip <= MaxTip
      /\ MaxTip \in Int /\ BatchSize \in Int /\ StartFrom \in Int
  BY ViewAssumption DEF Height
<1>2. BatchStart = IF StartFrom <= cursor + 1 THEN cursor + 1 ELSE StartFrom
  BY <1>1, MaxOfTwo DEF BatchStart
<1> DEFINE top == Min({BatchStart + BatchSize - 1, tip})
<1>3. BatchStart \in Int /\ cursor < BatchStart /\ StartFrom <= BatchStart /\ 0 <= BatchStart
      /\ \A h \in Int : StartFrom <= h /\ cursor < h => BatchStart <= h
  BY <1>1, <1>2
<1>4. top \in Int /\ top <= tip
  BY <1>1, <1>3, MinOfTwo
<1>5. Batch = BatchStart .. top
  BY DEF Batch
<1> HIDE DEF top
<1> QED  BY <1>1, <1>3, <1>4, <1>5 DEF Height

(* The cursor goes no further than the tip, never to a height before       *)
(* start_from_block, and passes nothing from there on that is not complete.*)
LEMMA CursorMoves ==
  ASSUME NEW complete, tip \in Height, cursor \in -1 .. tip
  PROVE  /\ CursorAfter(complete) \in cursor .. tip
         /\ CursorAfter(complete) = cursor \/ CursorAfter(complete) >= StartFrom
         /\ \A h \in Height : cursor < h /\ h <= CursorAfter(complete) /\ StartFrom <= h
               => h \in complete
<1> DEFINE S == {cursor} \cup {c \in Batch : BatchStart .. c \subseteq complete}
<1>1. tip \in Int /\ cursor \in Int /\ cursor <= tip /\ Height \subseteq Int
  BY ViewAssumption DEF Height
<1>2. S \in SUBSET Int /\ S # {} /\ \A s \in S : cursor <= s /\ s <= tip
  <2>1. Batch \subseteq Int /\ \A h \in Batch : cursor < h /\ h <= tip
    BY <1>1, BatchIsAhead
  <2> DEFINE reached == {c \in Batch : BatchStart .. c \subseteq complete}
  <2>2. reached \subseteq Batch /\ S = {cursor} \cup reached
    OBVIOUS
  <2> HIDE DEF reached, S
  <2> QED  BY <1>1, <2>1, <2>2
<1>3. CursorAfter(complete) = Max(S)
  BY DEF CursorAfter
<1>4. CursorAfter(complete) \in S
  <2> HIDE DEF S
  <2> QED  BY <1>1, <1>2, <1>3, GreatestOf
<1>5. CursorAfter(complete) \in cursor .. tip
  BY <1>1, <1>2, <1>4
<1>6. CASE CursorAfter(complete) = cursor
  BY <1>1, <1>5, <1>6
<1>7. CASE CursorAfter(complete) \in Batch /\ BatchStart .. CursorAfter(complete) \subseteq complete
  <2>1. CursorAfter(complete) >= StartFrom
    BY <1>7, BatchIsAhead
  <2>2. ASSUME NEW h \in Height, cursor < h, h <= CursorAfter(complete), StartFrom <= h
        PROVE  h \in complete
    <3>1. BatchStart \in Int /\ BatchStart <= h
      BY <1>1, <2>2, BatchIsAhead
    <3>2. h \in BatchStart .. CursorAfter(complete)
      BY <1>1, <1>5, <2>2, <3>1
    <3> QED  BY <1>7, <3>2
  <2> QED  BY <1>5, <2>1, <2>2
<1> QED  BY <1>4, <1>6, <1>7
-----------------------------------------------------------------------------
(* A deploy without a signature is in no more than both buffers.           *)
LEMMA UnsignedEntries ==
  LET nameless == {e \in Entry : e.sig \in Unsigned}
  IN  IsFiniteSet(nameless) /\ Cardinality(nameless) <= 2 * Cardinality(Unsigned)
<1> DEFINE nameless == {e \in Entry : e.sig \in Unsigned}
           pairs == Unsigned \X BOOLEAN
           f == [p \in pairs |-> [sig |-> p[1], isRejected |-> p[2]]]
<1>1. IsFiniteSet(BOOLEAN) /\ Cardinality(BOOLEAN) = 2
  <2>1. BOOLEAN = {TRUE} \cup {FALSE} /\ FALSE \notin {TRUE}
    OBVIOUS
  <2>2. IsFiniteSet({TRUE}) /\ Cardinality({TRUE}) = 1
    BY FS_Singleton
  <2>3. IsFiniteSet({TRUE} \cup {FALSE}) /\ Cardinality({TRUE} \cup {FALSE}) = 1 + 1
    BY <2>1, <2>2, FS_AddElement
  <2>4. IsFiniteSet(BOOLEAN) /\ Cardinality(BOOLEAN) = 1 + 1
    BY <2>1, <2>3, Zenon
  <2> QED  BY <2>4
<1>2. IsFiniteSet(pairs) /\ Cardinality(pairs) = Cardinality(Unsigned) * 2
  BY <1>1, PendingAssumption, FS_Product
<1>3. f \in Surjection(pairs, nameless)
  <2>1. \A p \in pairs : f[p] \in nameless
    BY PendingAssumption DEF Entry
  <2>2. f \in [pairs -> nameless]
    BY <2>1
  <2>3. ASSUME NEW e \in nameless PROVE \E p \in pairs : f[p] = e
    <3>1. <<e.sig, e.isRejected>> \in pairs
      BY DEF Entry
    <3>2. f[<<e.sig, e.isRejected>>] = [sig |-> e.sig, isRejected |-> e.isRejected]
      BY <3>1
    <3>3. e = [sig |-> e.sig, isRejected |-> e.isRejected]
      BY DEF Entry
    <3> QED  BY <3>1, <3>2, <3>3
  <2> HIDE DEF f, pairs, nameless
  <2> QED  BY <2>2, <2>3 DEF Surjection
<1> HIDE DEF f, pairs
<1>4. IsFiniteSet(nameless) /\ Cardinality(nameless) <= Cardinality(pairs)
  BY <1>2, <1>3, FS_Surjection
<1>5. Cardinality(Unsigned) \in Nat
  BY PendingAssumption, FS_CardinalityType
<1>6. Cardinality(nameless) <= 2 * Cardinality(Unsigned)
  BY <1>2, <1>4, <1>5
<1> QED  BY <1>4, <1>6

(* A step that has not begun stays so while it is not looked at.           *)
LEMMA PendingWaits ==
  ASSUME PendingInit, UNCHANGED pending PROVE PendingInit'
BY DEF PendingInit, pending

(* The same of the validators.                                             *)
LEMMA ValidatorsWait ==
  ASSUME ValidatorsInit, UNCHANGED validators PROVE ValidatorsInit'
BY DEF ValidatorsInit, validators, table

(* The same of the epochs.                                                 *)
LEMMA EpochsWait ==
  ASSUME EpochsInit, UNCHANGED epochs PROVE EpochsInit'
BY DEF EpochsInit, epochs

(* The same of the statistics.                                             *)
LEMMA StatsWait ==
  ASSUME StatsInit, UNCHANGED consensus PROVE StatsInit'
BY DEF StatsInit, consensus

(* The same of the check of the main chain.                                *)
LEMMA ChainWaits ==
  ASSUME ChainInit, UNCHANGED chains PROVE ChainInit'
BY DEF ChainInit, chains

(* The copy of the buffers: what the transaction holds open is the answer, *)
(* what it commits is the answer with its total, and a failure leaves the  *)
(* rows and the total as they were.                                        *)
LEMMA PendingStep ==
  ASSUME ViewInv, PendingInv, PendingNext
  PROVE  ViewInv' /\ PendingInv'
<1>1. ASSUME UNCHANGED <<tip, cursor>> PROVE ViewInv'
  BY <1>1 DEF ViewInv
<1>2. CASE BuffersChange
  <2>1. UNCHANGED <<view, answer, open, rows, total>>
    BY <1>2 DEF BuffersChange
  <2>2. buffers' \subseteq Entry /\ IsFiniteSet(buffers')
    <3>1. PICK e \in Entry :
             buffers' = IF e \in buffers THEN buffers \ {e} ELSE buffers \cup {e}
      BY <1>2 DEF BuffersChange
    <3>2. IsFiniteSet(buffers \ {e}) /\ IsFiniteSet(buffers \cup {e})
      BY FS_AddElement, FS_RemoveElement DEF PendingInv
    <3> QED  BY <3>1, <3>2 DEF PendingInv, PendingTypes
  <2> QED  BY <1>1, <2>1, <2>2 DEF PendingInv, PendingTypes, view, SnapshotOf, Signed
<1>3. CASE AskPending
  <2>1. PICK returned \in SUBSET buffers :
           /\ Cardinality(returned) = Min({Cap, Cardinality(buffers)})
           /\ answer' = [deploys |-> returned, total |-> Cardinality(buffers)]
    BY <1>3 DEF AskPending
  <2>2. /\ phase = "idle" /\ phase' = "answered"
        /\ UNCHANGED <<tip, cursor, buffers, open, rows, total>>
    BY <1>3 DEF AskPending
  <2>3. returned \subseteq Entry /\ IsFiniteSet(returned) /\ Cardinality(buffers) \in Nat
    BY FS_Subset, FS_CardinalityType DEF PendingInv, PendingTypes
  <2>4. answer' \in [deploys : SUBSET Entry, total : Nat]
    BY <2>1, <2>3
  <2>5. answer' # None
    BY <2>4, PendingAssumption
  <2>6. SnapshotOf(Signed(answer'.deploys), answer'.deploys, answer'.total)
    BY <2>1, <2>3 DEF SnapshotOf
  <2>7. \E deploys \in SUBSET Entry : SnapshotOf(rows', deploys, total')
    BY <2>2 DEF PendingInv
  <2>8. PendingTypes' /\ IsFiniteSet(buffers')
    BY <2>2, <2>5 DEF PendingInv, PendingTypes
  <2> QED  BY <1>1, <2>2, <2>6, <2>7, <2>8 DEF PendingInv, SnapshotOf, Signed
<1>4. CASE DeleteAll
  BY <1>1, <1>4 DEF DeleteAll, PendingInv, PendingTypes, SnapshotOf, Signed
<1>5. CASE InsertAll
  <2>1. Signed(answer.deploys) \subseteq Entry
    BY <1>5 DEF InsertAll, PendingInv, SnapshotOf, Signed
  <2> QED  BY <1>1, <1>5, <2>1 DEF InsertAll, PendingInv, PendingTypes, SnapshotOf, Signed
<1>6. CASE CommitPending
  <2>1. /\ phase = "inserted" /\ phase' = "idle" /\ answer' = None /\ open' = None
        /\ rows' = open /\ total' = answer.total /\ UNCHANGED <<tip, cursor, buffers>>
    BY <1>6 DEF CommitPending, EndStep
  <2>2. SnapshotOf(Signed(answer.deploys), answer.deploys, answer.total)
        /\ open = Signed(answer.deploys)
    BY <2>1 DEF PendingInv
  <2>3. SnapshotOf(rows', answer.deploys, total')
    BY <2>1, <2>2
  <2>4. answer.deploys \in SUBSET Entry /\ rows' \subseteq Entry /\ total' \in Nat
    BY <2>1, <2>2 DEF SnapshotOf, Signed
  <2>5. \E deploys \in SUBSET Entry : SnapshotOf(rows', deploys, total')
    BY <2>3, <2>4
  <2>6. PendingTypes' /\ IsFiniteSet(buffers')
    BY <2>1, <2>4 DEF PendingInv, PendingTypes
  <2> QED  BY <1>1, <2>1, <2>5, <2>6 DEF PendingInv, SnapshotOf, Signed
<1>7. CASE PendingFails
  <2>1. /\ phase' = "idle" /\ answer' = None /\ open' = None
        /\ UNCHANGED <<tip, cursor, buffers, rows, total>>
    BY <1>7 DEF PendingFails, EndStep
  <2>2. PendingTypes' /\ IsFiniteSet(buffers')
    BY <2>1 DEF PendingInv, PendingTypes
  <2> QED  BY <1>1, <2>1, <2>2 DEF PendingInv, SnapshotOf, Signed
<1> QED  BY <1>2, <1>3, <1>4, <1>5, <1>6, <1>7 DEF PendingNext

(* A batch of blocks leaves every validator it names with a stake, a first *)
(* and a last height, and the others as they were.                         *)
LEMMA ProcessTyped ==
  ASSUME ViewInv, ValidatorTypes, NEW new \in SUBSET Batch, ProcessValidators(new)
  PROVE  /\ stake' \in [Validator -> Nat]
         /\ status' \in [Validator -> {"absent", "active", "bonded"}]
         /\ \A v \in Validator :
               /\ status'[v] = "absent" <=> firstSeen'[v] = None
               /\ firstSeen'[v] \in Height \cup {-1, None} /\ lastSeen'[v] \in Height \cup {-1, None}
<1> DEFINE of(v) == {h \in new : v \in Bonded(h)}
           given(v) == {StakeAt[h][v] : h \in of(v)}
<1>1. /\ stake' = [v \in Validator |-> Max({stake[v]} \cup given(v))]
      /\ lastSeen' = [v \in Validator |-> IF of(v) = {} THEN lastSeen[v] ELSE Max(of(v))]
      /\ firstSeen' = [v \in Validator |->
                         IF of(v) = {} \/ status[v] # "absent" THEN firstSeen[v] ELSE Min(of(v))]
      /\ status' = [v \in Validator |-> IF of(v) = {} THEN status[v] ELSE "active"]
  BY DEF ProcessValidators
<1>2. new \subseteq Height /\ IsFiniteSet(new)
  <2>1. Batch \subseteq Height
    BY BatchIsAhead DEF ViewInv
  <2>2. Height \subseteq Nat /\ \A h \in Height : h <= MaxTip
    BY ViewAssumption DEF Height
  <2> QED  BY <2>1, <2>2, ViewAssumption, FS_BoundedSetOfNaturals
<1>3. Height \subseteq Nat /\ None \notin Int
  BY ViewAssumption DEF Height
<1>4. ASSUME NEW v \in Validator
      PROVE  /\ stake'[v] \in Nat /\ status'[v] \in {"absent", "active", "bonded"}
             /\ status'[v] = "absent" <=> firstSeen'[v] = None
             /\ firstSeen'[v] \in Height \cup {-1, None} /\ lastSeen'[v] \in Height \cup {-1, None}
  <2>1. of(v) \subseteq Height /\ IsFiniteSet(of(v))
    BY <1>2, FS_Subset
  <2>2. given(v) \subseteq Nat /\ IsFiniteSet(given(v))
    <3> DEFINE f == [h \in of(v) |-> StakeAt[h][v]]
    <3>1. f \in Surjection(of(v), given(v))
      BY DEF Surjection
    <3>2. \A h \in of(v) : StakeAt[h][v] \in Nat
      BY <2>1, ViewAssumption
    <3> HIDE DEF of, f
    <3> QED  BY <2>1, <3>1, <3>2, FS_Surjection
  <2>3. stake[v] \in Nat /\ status[v] \in {"absent", "active", "bonded"}
        /\ (status[v] = "absent" <=> firstSeen[v] = None)
        /\ firstSeen[v] \in Height \cup {-1, None} /\ lastSeen[v] \in Height \cup {-1, None}
    BY DEF ValidatorTypes
  <2> HIDE DEF of, given
  <2>4. stake'[v] \in Nat
    <3> DEFINE S == {stake[v]} \cup given(v)
    <3>1. IsFiniteSet({stake[v]})
      BY FS_Singleton
    <3>2. IsFiniteSet(S)
      BY <2>2, <3>1, FS_Union
    <3>3. S \in SUBSET Int /\ S # {} /\ S \subseteq Nat
      BY <2>2, <2>3
    <3>4. stake'[v] = Max(S)
      BY <1>1
    <3> HIDE DEF S
    <3>5. Max(S) \in S
      BY <3>2, <3>3, GreatestOfFinite
    <3> QED  BY <3>3, <3>4, <3>5
  <2>5. of(v) # {} => Max(of(v)) \in Height /\ Min(of(v)) \in Height
    BY <1>3, <2>1, GreatestOfFinite, LeastIsMin
  <2>6. status'[v] = (IF of(v) = {} THEN status[v] ELSE "active")
        /\ lastSeen'[v] = (IF of(v) = {} THEN lastSeen[v] ELSE Max(of(v)))
        /\ firstSeen'[v] = (IF of(v) = {} \/ status[v] # "absent" THEN firstSeen[v]
                            ELSE Min(of(v)))
    BY <1>1
  <2>7. CASE of(v) = {}
    BY <2>3, <2>4, <2>6, <2>7
  <2>8. CASE of(v) # {}
    <3>1. status'[v] = "active" /\ lastSeen'[v] \in Height
      BY <2>5, <2>6, <2>8
    <3>2. firstSeen'[v] \in Height \cup {-1, None} /\ firstSeen'[v] # None
      <4>1. \A h \in Height : h # None
        BY <1>3
      <4> QED  BY <2>3, <2>5, <2>6, <2>8, <4>1
    <3> QED  BY <2>4, <3>1, <3>2
  <2> QED  BY <2>7, <2>8
<1>5. stake' = [v \in Validator |-> stake'[v]] /\ status' = [v \in Validator |-> status'[v]]
  BY <1>1
<1> HIDE DEF of
<1> QED  BY <1>4, <1>5

(* The validators: a row has a first height from the block or the update   *)
(* that made it.                                                           *)
LEMMA ValidatorsStep ==
  ASSUME ViewInv, ValidatorsInv, ValidatorsNext
  PROVE  ViewInv' /\ ValidatorsInv'
<1>1. ASSUME UNCHANGED <<tip, cursor>> PROVE ViewInv'
  BY <1>1 DEF ViewInv
<1>2. tip \in Int /\ MaxTip \in Int /\ cursor \in Int /\ None \notin Int
  BY ViewAssumption DEF ViewInv, Height
<1>3. CASE Finalize /\ UNCHANGED validators
  <2>1. ViewInv'
    BY <1>2, <1>3 DEF Finalize, ViewInv, Height
  <2> QED  BY <1>3, <2>1 DEF Finalize, ValidatorsInv, ValidatorTypes, validators, table
<1>4. ASSUME NEW new \in SUBSET (Batch \ held), SyncValidators(new) PROVE ViewInv' /\ ValidatorsInv'
  <2>1. UNCHANGED <<tip, phase, asked>>
        /\ held' = held \cup new /\ phase = "idle" /\ ProcessValidators(new)
    BY <1>4 DEF SyncValidators
  <2>2. cursor' \in cursor .. tip
    <3>1. PICK done \in SUBSET held' : cursor' = CursorAfter(done)
      BY <1>4 DEF SyncValidators
    <3> QED  BY <3>1, CursorMoves DEF ViewInv
  <2>3. ViewInv'
    BY <1>2, <2>1, <2>2 DEF ViewInv
  <2>4. new \subseteq Height
    BY BatchIsAhead DEF ViewInv
  <2>5. held' \subseteq Height /\ asked' \in Height \cup {None}
    BY <2>1, <2>4 DEF ValidatorsInv, ValidatorTypes
  <2>6. new \in SUBSET Batch /\ ValidatorTypes
    BY DEF ValidatorsInv
  <2>7. ValidatorTypes'
    BY <2>1, <2>5, <2>6, ProcessTyped DEF ValidatorTypes
  <2> QED  BY <2>1, <2>3, <2>7 DEF ValidatorsInv
<1>5. CASE AskBonds
  BY <1>1, <1>5 DEF AskBonds, ValidatorsInv, ValidatorTypes, table, ViewInv
<1>6. CASE UpdateValidators
  <2>1. PICK active \in {ActiveList(tip), {}} :
       status' = [v \in Validator |->
                    IF v \notin Bonded(asked) THEN status[v]
                    ELSE IF IsActive(v, active) THEN "active" ELSE "bonded"]
    BY <1>6 DEF UpdateValidators
  <2>2. /\ phase = "bonds" /\ phase' = "idle" /\ asked' = None /\ UNCHANGED <<tip, cursor, held>>
        /\ stake' = [v \in Validator |-> IF v \in Bonded(asked) THEN StakeAt[asked][v] ELSE stake[v]]
        /\ firstSeen' = [v \in Validator |->
              IF v \in Bonded(asked) /\ status[v] = "absent" THEN cursor ELSE firstSeen[v]]
        /\ lastSeen' = [v \in Validator |-> IF v \in Bonded(asked) THEN cursor ELSE lastSeen[v]]
    BY <1>6 DEF UpdateValidators, StakeAfter
  <2>3. asked \in Height
    BY <2>2 DEF ValidatorsInv
  <2>4. \A v \in Validator : StakeAt[asked][v] \in Nat
    BY <2>3, ViewAssumption
  <2>5. cursor \in Height \cup {-1}
    BY <1>2 DEF ViewInv, Height
  <2>6. stake' \in [Validator -> Nat] /\ held' \subseteq Height /\ asked' \in Height \cup {None}
    BY <2>2, <2>4 DEF ValidatorsInv, ValidatorTypes
  <2>7. status' \in [Validator -> {"absent", "active", "bonded"}]
    BY <2>1 DEF ValidatorsInv, ValidatorTypes
  <2>8. ASSUME NEW v \in Validator
        PROVE  /\ status'[v] = "absent" <=> firstSeen'[v] = None
               /\ firstSeen'[v] \in Height \cup {-1, None} /\ lastSeen'[v] \in Height \cup {-1, None}
    <3>1. (status[v] = "absent" <=> firstSeen[v] = None)
          /\ firstSeen[v] \in Height \cup {-1, None} /\ lastSeen[v] \in Height \cup {-1, None}
      BY DEF ValidatorsInv, ValidatorTypes
    <3>2. CASE v \in Bonded(asked)
      BY <1>2, <2>1, <2>2, <2>5, <3>1, <3>2
    <3>3. CASE v \notin Bonded(asked)
      BY <2>1, <2>2, <3>1, <3>3
    <3> QED  BY <3>2, <3>3
  <2>9. ValidatorTypes'
    BY <2>6, <2>7, <2>8 DEF ValidatorTypes
  <2> QED  BY <1>1, <2>2, <2>9 DEF ValidatorsInv
<1>7. CASE UpdateFails
  BY <1>1, <1>7 DEF UpdateFails, ValidatorsInv, ValidatorTypes, table
<1> QED  BY <1>3, <1>4, <1>5, <1>6, <1>7 DEF ValidatorsNext

(* Division with a remainder, and that it keeps the order.                 *)
LEMMA Divided ==
  ASSUME NEW n \in Nat, NEW d \in Nat, d > 0
  PROVE  n \div d \in Nat /\ n % d \in 0 .. d - 1 /\ n = (n \div d) * d + (n % d)
OBVIOUS

(* Division keeps the order.                                               *)
LEMMA DividedInOrder ==
  ASSUME NEW m \in Nat, NEW n \in Nat, NEW d \in Nat, d > 0, m <= n
  PROVE  m \div d <= n \div d
<1> DEFINE p == m \div d
           q == n \div d
           r == n % d
           s == m % d
<1>1. p \in Nat /\ q \in Nat /\ r \in 0 .. d - 1 /\ n = q * d + r /\ s \in Nat /\ m = p * d + s
  BY Divided
<1> HIDE DEF p, q, r, s
<1>2. ASSUME p >= q + 1 PROVE FALSE
  <2>1. p * d >= (q + 1) * d
    BY <1>1, <1>2
  <2>2. (q + 1) * d = q * d + d
    BY <1>1
  <2>3. p * d \in Int /\ q * d \in Int
    BY <1>1
  <2> QED  BY <1>1, <2>1, <2>2, <2>3
<1>3. p <= q
  BY <1>1, <1>2
<1> QED  BY <1>3 DEF p, q

(* What the node says of a height is of an epoch there is room for.        *)
LEMMA HeightInEpoch ==
  ASSUME NEW h \in Height
  PROVE  CurrentEpoch(h) \in Epoch /\ BlocksUntilNext(h) \in Int
<1>1. h \in Nat /\ MaxTip \in Nat /\ h <= MaxTip /\ EpochLength \in Nat /\ EpochLength > 0
  BY ViewAssumption, EpochAssumption DEF Height
<1>2. h \div EpochLength \in Nat /\ h % EpochLength \in 0 .. EpochLength - 1
  BY <1>1, Divided
<1>3. h \div EpochLength <= MaxTip \div EpochLength /\ MaxTip \div EpochLength \in Nat
  BY <1>1, Divided, DividedInOrder
<1>4. BlocksUntilNext(h) \in Int
  <2> DEFINE r == h % EpochLength
  <2>1. r \in 0 .. EpochLength - 1 /\ BlocksUntilNext(h) = EpochLength - r
    BY <1>2 DEF BlocksUntilNext
  <2> HIDE DEF r
  <2> QED  BY <1>1, <2>1
<1> QED  BY <1>1, <1>2, <1>3, <1>4 DEF CurrentEpoch, Epoch

(* The rows of the epochs: one that is written keeps its start.            *)
LEMMA EpochsStep ==
  ASSUME ViewInv, EpochsInv, EpochsNext
  PROVE  ViewInv' /\ EpochsInv'
<1>1. ASSUME UNCHANGED <<tip, cursor>> PROVE ViewInv'
  BY <1>1 DEF ViewInv
<1>2. tip \in Int /\ MaxTip \in Int /\ cursor \in Int /\ cursor <= tip
      /\ lastEpochCheck \in Nat /\ EpochInterval \in Nat /\ EpochInterval > 0
  BY ViewAssumption, EpochAssumption DEF ViewInv, Height, EpochsInv, EpochTypes
<1>3. CASE Finalize /\ UNCHANGED epochs
  <2>1. ViewInv'
    BY <1>2, <1>3 DEF Finalize, ViewInv, Height
  <2> QED  BY <1>3, <2>1 DEF Finalize, EpochsInv, EpochTypes, epochs
<1>4. CASE SyncEpochs
  <2>1. cursor' \in Batch /\ UNCHANGED <<tip, phase, epochs>>
    BY <1>4 DEF SyncEpochs
  <2>2. ViewInv'
    BY <1>2, <2>1, BatchIsAhead DEF ViewInv, Height
  <2> QED  BY <2>1, <2>2 DEF EpochsInv, EpochTypes, epochs
<1>5. CASE CheckEpoch
  <2>1. /\ cursor - lastEpochCheck >= EpochInterval /\ lastEpochCheck' = cursor
        /\ phase' = "epoch" /\ UNCHANGED <<tip, cursor, epochStart>>
    BY <1>5 DEF CheckEpoch
  <2>2. lastEpochCheck' \in Height
    BY <1>2, <2>1 DEF ViewInv, Height
  <2> QED  BY <1>1, <2>1, <2>2 DEF EpochsInv, EpochTypes
<1>6. CASE RecordEpoch
  <2>1. phase' = "idle" /\ UNCHANGED <<tip, cursor, lastEpochCheck>>
        /\ (epochStart' = epochStart
            \/ epochStart' = [epochStart EXCEPT ![CurrentEpoch(tip)] = StartOf(tip)])
    BY <1>6 DEF RecordEpoch
  <2>2. StartOf(tip) \in Int /\ CurrentEpoch(tip) \in Epoch
    BY <1>2, EpochAssumption, HeightInEpoch DEF StartOf, ViewInv
  <2>3. epochStart' \in [Epoch -> Int \cup {None}]
    BY <2>1, <2>2 DEF EpochsInv, EpochTypes
  <2> QED  BY <1>1, <2>1, <2>3 DEF EpochsInv, EpochTypes
<1>7. CASE NoEpoch
  BY <1>1, <1>7 DEF NoEpoch, epochs, EpochsInv, EpochTypes
<1>8. CASE RestartEpochs
  <2>1. 0 \in Height
    BY ViewAssumption DEF Height
  <2> QED  BY <1>1, <1>8, <2>1 DEF RestartEpochs, EpochsInv, EpochTypes
<1> QED  BY <1>3, <1>4, <1>5, <1>6, <1>7, <1>8 DEF EpochsNext

(* The stake of a part of the bonds is a share of the whole.               *)
LEMMA ShareOfWhole ==
  ASSUME NEW g \in Height, NEW h \in Height
  PROVE  /\ StakeOf(g, Bonded(g)) \in Nat
         /\ StakeOf(g, Bonded(g) \cap ActiveAt[h]) \in 0 .. StakeOf(g, Bonded(g))
<1>1. IsFiniteSet(Bonded(g))
  BY ViewAssumption, FS_Subset DEF Bonded
<1>2. \A v \in Bonded(g) : StakeAt[g][v] \in Nat
  BY ViewAssumption DEF Bonded
<1>3. Bonded(g) \cap ActiveAt[h] \in SUBSET Bonded(g)
  OBVIOUS
<1>4. \A set : StakeOf(g, set) = Sum(StakeAt[g], set)
  BY DEF StakeOf, Sum
<1>5. /\ Sum(StakeAt[g], Bonded(g) \cap ActiveAt[h]) \in Nat
      /\ Sum(StakeAt[g], Bonded(g)) \in Nat
      /\ Sum(StakeAt[g], Bonded(g) \cap ActiveAt[h]) <= Sum(StakeAt[g], Bonded(g))
  BY <1>1, <1>2, <1>3, SumOfPart
<1> QED  BY <1>4, <1>5

(* A row of statistics, whichever heights the three answers are of.        *)
LEMMA ConsensusRow ==
  ASSUME NEW h \in Height, lfbAt \in Height, bondsAt \in Height
  PROVE  LET row == Consensus(h)
         IN  /\ row.block \in Height /\ row.total \in Nat /\ row.active \in Nat
             /\ row.status \in {"healthy", "degraded", "critical"}
             /\ row.share \in 0 .. row.whole
<1> DEFINE total_ == Cardinality(Bonded(bondsAt))
           active_ == Cardinality(ActiveAt[h])
           row == Consensus(h)
<1>1. total_ \in Nat /\ active_ \in Nat
  <2>1. Bonded(bondsAt) \in SUBSET Validator /\ ActiveAt[h] \in SUBSET Validator
    BY ViewAssumption DEF Bonded
  <2> QED  BY <2>1, ViewAssumption, FS_Subset, FS_CardinalityType
<1>2. row.block = lfbAt /\ row.total = total_ /\ row.active = active_
      /\ row.share = StakeOf(bondsAt, Bonded(bondsAt) \cap ActiveAt[h])
      /\ row.whole = StakeOf(bondsAt, Bonded(bondsAt))
      /\ row.status = ConsensusStatus(row.share, row.whole)
  BY DEF Consensus, ActiveStake
<1>3. row.share \in 0 .. row.whole
  BY <1>2, ShareOfWhole
<1>4. row.status \in {"healthy", "degraded", "critical"}
  BY <1>2 DEF ConsensusStatus
<1> HIDE DEF row, total_, active_
<1> QED  BY <1>1, <1>2, <1>3, <1>4 DEF row

(* The statistics: a row is made of one answer of each call, and what an   *)
(* interrupted step asked for is forgotten.                                *)
LEMMA StatsStep ==
  ASSUME ViewInv, StatsInv, StatsNext
  PROVE  ViewInv' /\ StatsInv'
<1>1. ASSUME UNCHANGED <<tip, cursor>> PROVE ViewInv'
  BY <1>1 DEF ViewInv
<1>2. tip \in Int /\ MaxTip \in Int /\ cursor \in Int /\ None \notin Int /\ cursor <= tip
      /\ lastStatsCheck \in Nat /\ StatsInterval \in Nat /\ StatsInterval > 0 /\ tip \in Height
  BY ViewAssumption, StatsAssumption DEF ViewInv, Height, StatsInv, StatsTypes
<1>3. CASE Finalize /\ UNCHANGED consensus
  <2>1. ViewInv'
    BY <1>2, <1>3 DEF Finalize, ViewInv, Height
  <2> QED  BY <1>3, <2>1 DEF Finalize, StatsInv, StatsTypes, ShareOfOneAnswer, consensus
<1>4. CASE SyncStats
  <2>1. cursor' \in Batch /\ UNCHANGED <<tip, phase, consensus>>
    BY <1>4 DEF SyncStats
  <2>2. ViewInv'
    BY <1>2, <2>1, BatchIsAhead DEF ViewInv, Height
  <2> QED  BY <2>1, <2>2 DEF StatsInv, StatsTypes, ShareOfOneAnswer, consensus
<1>5. CASE CheckStats
  <2>1. /\ cursor - lastStatsCheck >= StatsInterval /\ lastStatsCheck' = cursor
        /\ phase' = "lfb" /\ UNCHANGED <<tip, cursor, lfbAt, bondsAt, stats>>
    BY <1>5 DEF CheckStats
  <2>2. lastStatsCheck' \in Height
    BY <1>2, <2>1 DEF ViewInv, Height
  <2> QED  BY <1>1, <2>1, <2>2 DEF StatsInv, StatsTypes, ShareOfOneAnswer
<1>6. CASE AskLfb
  BY <1>1, <1>2, <1>6 DEF AskLfb, StatsInv, StatsTypes, ShareOfOneAnswer
<1>7. CASE AskStakes
  BY <1>1, <1>2, <1>7 DEF AskStakes, StatsInv, StatsTypes, ShareOfOneAnswer
<1>8. CASE RecordStats
  <2>1. /\ phase = "active" /\ phase' = "idle" /\ lfbAt' = None /\ bondsAt' = None
        /\ stats' = Consensus(tip) /\ UNCHANGED <<tip, cursor, lastStatsCheck>>
    BY <1>8 DEF RecordStats
  <2>2. lfbAt \in Height /\ bondsAt \in Height
    BY <2>1 DEF StatsInv
  <2>3. /\ stats'.block \in Height /\ stats'.total \in Nat /\ stats'.active \in Nat
        /\ stats'.status \in {"healthy", "degraded", "critical"}
        /\ stats'.share \in 0 .. stats'.whole
    BY <1>2, <2>1, <2>2, ConsensusRow
  <2> QED  BY <1>1, <2>1, <2>3 DEF StatsInv, StatsTypes, ShareOfOneAnswer
<1>9. CASE NoStats
  BY <1>1, <1>9 DEF NoStats, StatsInv, StatsTypes, ShareOfOneAnswer
<1>10. CASE RestartStats
  <2>1. 0 \in Height
    BY ViewAssumption DEF Height
  <2> QED  BY <1>1, <1>10, <2>1 DEF RestartStats, StatsInv, StatsTypes, ShareOfOneAnswer
<1> QED  BY <1>3, <1>4, <1>5, <1>6, <1>7, <1>8, <1>9, <1>10 DEF StatsNext

(* The head is the highest height with a block, and no lower than the tip. *)
LEMMA HeadOfDag ==
  ASSUME ViewInv, DagIsWhole
  PROVE  Head \in Height /\ tip <= Head /\ \A h \in Height : known[h] # {} <=> h <= Head
<1>1. tip \in Tips /\ Tips \subseteq Height
  BY DEF Tips, ViewInv, DagIsWhole
<1>2. Height \subseteq Int /\ MaxTip \in Int /\ \A h \in Height : h <= MaxTip
  BY ViewAssumption DEF Height
<1>3. Max(Tips) \in Tips /\ \A h \in Tips : h <= Max(Tips)
  <2>1. Tips \in SUBSET Int /\ Tips # {} /\ \A h \in Tips : h <= MaxTip
    BY <1>1, <1>2
  <2> QED  BY <1>2, <2>1, GreatestOf
<1>4. Head = Max(Tips)
  BY <1>1 DEF Head
<1> QED  BY <1>1, <1>3, <1>4 DEF Tips, DagIsWhole

(* The node: a block more, or another one on the main chain.               *)
LEMMA NodeStep ==
  ASSUME ViewInv, ChainInv, NEW h \in Height, NEW b \in Branch, Propose(h, b) \/ Switch(h, b)
  PROVE  ViewInv' /\ ChainInv'
<1>1. ViewInv' /\ UNCHANGED <<view, shown, stored, missed, chain, lastVerified, compared, reorg>>
  BY DEF Propose, Switch, view, ViewInv
<1>2. known \in [Height -> SUBSET Branch] /\ main \in [Height -> Branch \cup {None}]
      /\ None \notin Branch
  BY CheckAssumption DEF ChainInv, ChainTypes
<1>3. \A g \in Height : main[g] \in known[g] \/ (main[g] = None /\ known[g] = {})
  BY DEF ChainInv, DagIsWhole
<1>4. /\ known' \in [Height -> SUBSET Branch] /\ main' \in [Height -> Branch \cup {None}]
      /\ \A g \in Height : known[g] \subseteq known'[g]
      /\ DagIsWhole'
  <2>1. CASE Propose(h, b)
    <3>1. h \in 1 .. Head + 1 /\ known' = [known EXCEPT ![h] = @ \cup {b}]
          /\ main' = IF main[h] = None THEN [main EXCEPT ![h] = b] ELSE main
      BY <2>1 DEF Propose
    <3>2. /\ known' \in [Height -> SUBSET Branch] /\ known'[h] = known[h] \cup {b}
          /\ \A g \in Height \ {h} : known'[g] = known[g]
      BY <1>2, <3>1
    <3>3. /\ main' \in [Height -> Branch \cup {None}]
          /\ main'[h] = IF main[h] = None THEN b ELSE main[h]
          /\ \A g \in Height \ {h} : main'[g] = main[g]
      BY <1>2, <3>1
    <3>4. tip' = tip /\ tip \in Height /\ known[tip] # {}
      BY <1>1 DEF view, ViewInv, ChainInv, DagIsWhole
    <3>5. Head \in Int /\ \A g \in Height : g \in Int /\ (known[g] # {} <=> g <= Head)
      BY HeadOfDag, ViewAssumption DEF Height, ChainInv
    <3>6. ASSUME NEW g \in Height, NEW k \in Height, g <= k, known'[k] # {}
          PROVE  known'[g] # {}
      <4>1. CASE g = h
        BY <3>2, <4>1
      <4>2. CASE g # h /\ k = h
        BY <3>1, <3>2, <3>5, <3>6, <4>2
      <4>3. CASE g # h /\ k # h
        BY <3>2, <3>5, <3>6, <4>3
      <4> QED  BY <4>1, <4>2, <4>3
    <3>7. \A g \in Height : main'[g] \in known'[g] \/ (main'[g] = None /\ known'[g] = {})
      BY <1>2, <1>3, <3>2, <3>3
    <3>8. known'[tip'] # {}
      BY <3>2, <3>4
    <3>9. DagIsWhole'
      BY <3>6, <3>7, <3>8 DEF DagIsWhole
    <3> QED  BY <3>2, <3>3, <3>9
  <2>2. CASE Switch(h, b)
    <3>1. b \in known[h] /\ main' = [main EXCEPT ![h] = b] /\ known' = known
      BY <2>2 DEF Switch
    <3>2. main' \in [Height -> Branch \cup {None}] /\ main'[h] = b
          /\ \A g \in Height \ {h} : main'[g] = main[g]
      BY <1>2, <3>1
    <3>3. DagIsWhole'
      BY <1>1, <1>3, <3>1, <3>2 DEF DagIsWhole, view, ChainInv
    <3> QED  BY <1>2, <3>1, <3>2, <3>3
  <2> QED  BY <2>1, <2>2
<1>5. ChainTypes'
  BY <1>1, <1>4 DEF ChainInv, ChainTypes, view
<1>6. PassedIsStored' /\ AnswerReaches'
  BY <1>1 DEF ChainInv, PassedIsStored, AnswerReaches, view
<1>7. NoFalseReorg' /\ VerifiedMeansCompared'
  BY <1>1 DEF ChainInv, NoFalseReorg, VerifiedMeansCompared
<1> QED  BY <1>1, <1>4, <1>5, <1>6, <1>7 DEF ChainInv, view

(* A batch is asked for: it is shown what the node has, from               *)
(* start_from_block on.                                                    *)
LEMMA FetchStep ==
  ASSUME ViewInv, ChainInv, FetchBatch
  PROVE  ViewInv' /\ ChainInv'
<1>1. /\ phase = "idle" /\ phase' = "batch"
      /\ shown' = [h \in Height |-> IF h \in Batch THEN known[h] ELSE {}]
      /\ UNCHANGED <<tip, cursor, known, main, stored, missed, chain, lastVerified, compared, reorg>>
  BY DEF FetchBatch
<1>2. ViewInv' /\ DagIsWhole' /\ PassedIsStored'
  BY <1>1 DEF ViewInv, ChainInv, DagIsWhole, PassedIsStored
<1>3. \A h \in Height : shown'[h] # {} => h >= StartFrom
  BY <1>1, BatchIsAhead DEF ViewInv
<1>4. shown' \in [Height -> SUBSET Branch]
      /\ \A h \in Height : stored'[h] \cup shown'[h] \subseteq known'[h]
  BY <1>1 DEF ChainInv, ChainTypes
<1>5. ChainTypes'
  BY <1>1, <1>4 DEF ChainInv, ChainTypes
<1> QED  BY <1>1, <1>2, <1>3, <1>5 DEF ChainInv, AnswerReaches, NoFalseReorg, VerifiedMeansCompared

(* A block of the answer is stored.                                        *)
LEMMA IndexStep ==
  ASSUME ViewInv, ChainInv, NEW h \in Height, NEW b \in Branch, IndexBlock(h, b)
  PROVE  ViewInv' /\ ChainInv'
<1>1. /\ phase = "batch" /\ b \in shown[h] /\ stored' = [stored EXCEPT ![h] = @ \cup {b}]
      /\ UNCHANGED <<view, known, main, shown, missed, chain, lastVerified, compared, reorg>>
  BY DEF IndexBlock
<1>2. /\ stored' \in [Height -> SUBSET Branch] /\ stored'[h] = stored[h] \cup {b}
      /\ \A g \in Height \ {h} : stored'[g] = stored[g]
  BY <1>1 DEF ChainInv, ChainTypes
<1>3. \A g \in Height : stored[g] \subseteq stored'[g] /\ stored'[g] \cup shown[g] \subseteq known[g]
  BY <1>1, <1>2 DEF ChainInv, ChainTypes
<1>4. ViewInv' /\ DagIsWhole'
  BY <1>1 DEF view, ViewInv, ChainInv, DagIsWhole
<1>5. PassedIsStored'
  BY <1>1, <1>3 DEF view, ChainInv, PassedIsStored
<1>6. VerifiedMeansCompared' /\ NoFalseReorg'
  BY <1>1, <1>3 DEF ChainInv, ChainTypes, VerifiedMeansCompared, NoFalseReorg
<1>7. ChainTypes'
  BY <1>1, <1>2, <1>3 DEF view, ChainInv, ChainTypes
<1> QED  BY <1>1, <1>4, <1>5, <1>6, <1>7 DEF view, ChainInv, AnswerReaches

(* The end of a batch: the cursor passes what is stored of the answer,     *)
(* whatever the node has by now.                                           *)
LEMMA PassStep ==
  ASSUME ViewInv, ChainInv, NEW done \in SUBSET Complete, PassHeights(done)
  PROVE  ViewInv' /\ ChainInv'
<1>1. /\ phase = "batch" /\ phase' = "idle" /\ cursor' = CursorAfter(done) /\ shown' = NoBatch
      /\ missed' = [h \in Height |->
                      IF h \in cursor + 1 .. cursor' THEN Branch \ shown[h] ELSE missed[h]]
      /\ UNCHANGED <<tip, known, main, stored, chain, lastVerified, compared, reorg>>
  BY DEF PassHeights
<1>2. /\ cursor' \in cursor .. tip /\ (cursor' = cursor \/ cursor' >= StartFrom)
      /\ \A h \in Height : cursor < h /\ h <= cursor' /\ StartFrom <= h => h \in done
  BY <1>1, CursorMoves DEF ViewInv
<1>3. tip \in Int /\ cursor \in Int /\ -1 <= cursor /\ StartFrom \in Int
      /\ \A h \in Height : h \in Int
  BY ViewAssumption DEF ViewInv, Height
<1>4. cursor' \in Int /\ cursor <= cursor' /\ cursor' <= tip
  BY <1>2, <1>3
<1>5. ViewInv' /\ (cursor' = -1 \/ cursor' >= StartFrom)
  BY <1>1, <1>2, <1>3, <1>4 DEF ViewInv, ChainInv
<1>6. /\ stored \in [Height -> SUBSET Branch] /\ missed \in [Height -> SUBSET Branch]
      /\ shown \in [Height -> SUBSET Branch] /\ \A h \in Height : stored[h] \subseteq known[h]
  BY DEF ChainInv, ChainTypes
<1>7. missed' \in [Height -> SUBSET Branch]
  BY <1>1, <1>6
<1>8. ASSUME NEW h \in Height, h <= cursor
      PROVE  missed'[h] = missed[h]
  <2>1. h \notin cursor + 1 .. cursor'
    BY <1>3, <1>4, <1>8
  <2> QED  BY <1>1, <2>1
<1>9. DagIsWhole'
  BY <1>1 DEF ChainInv, DagIsWhole
<1>10. PassedIsStored'
  <2>1. ASSUME NEW h \in Height, h <= cursor'
        PROVE  (h >= StartFrom => stored[h] # {}) /\ Branch \ missed'[h] \subseteq stored[h]
    <3>1. CASE h <= cursor
      BY <1>8, <3>1 DEF ChainInv, PassedIsStored
    <3>2. CASE ~ (h <= cursor)
      <4>1. h \in cursor + 1 .. cursor' /\ cursor < h
        BY <1>3, <1>4, <2>1, <3>2
      <4>2. missed'[h] = Branch \ shown[h]
        BY <1>1, <4>1
      <4>3. CASE h >= StartFrom
        <5>1. h \in Complete
          BY <1>2, <1>3, <2>1, <4>1, <4>3
        <5>2. shown[h] # {} /\ shown[h] \subseteq stored[h]
          BY <5>1 DEF Complete
        <5> QED  BY <4>2, <5>2
      <4>4. CASE ~ (h >= StartFrom)
        <5>1. shown[h] = {}
          BY <4>4 DEF ChainInv
        <5> QED  BY <4>2, <4>4, <5>1
      <4> QED  BY <4>3, <4>4
    <3> QED  BY <3>1, <3>2
  <2> QED  BY <1>1, <2>1 DEF PassedIsStored
<1>11. NoBatch \in [Height -> SUBSET Branch] /\ \A h \in Height : NoBatch[h] = {}
  BY DEF NoBatch
<1>12. ChainTypes'
  BY <1>1, <1>6, <1>11 DEF ChainInv, ChainTypes
<1>13. ASSUME NEW entry \in reorg
       PROVE  entry[1] <= cursor' /\ entry[2] \in missed'[entry[1]]
  <2>1. entry[1] \in Height /\ entry[1] <= cursor /\ entry[2] \in missed[entry[1]]
    BY DEF ChainInv, ChainTypes, NoFalseReorg
  <2>2. missed'[entry[1]] = missed[entry[1]]
    BY <1>8, <2>1
  <2>3. entry[1] <= cursor'
    BY <1>3, <1>4, <2>1
  <2> QED  BY <2>1, <2>2, <2>3
<1>14. NoFalseReorg' /\ \A entry \in reorg' : entry[1] <= cursor'
  BY <1>1, <1>13 DEF NoFalseReorg
<1>15. VerifiedMeansCompared' /\ AnswerReaches'
  BY <1>1 DEF ChainInv, VerifiedMeansCompared, AnswerReaches
<1> QED  BY <1>1, <1>5, <1>7, <1>9, <1>10, <1>11, <1>12, <1>14, <1>15 DEF ChainInv

(* An answer that reaches down to the cursor holds the height of the       *)
(* cursor: between it and the head the DAG has no gap.                     *)
LEMMA AskStep ==
  ASSUME ViewInv, ChainInv, AskChain
  PROVE  ViewInv' /\ ChainInv'
<1>1. /\ phase = "idle" /\ phase' = "chain"
      /\ chain' = {<<h, main[h]>> : h \in Tips \cap (Head - CheckDepth + 1 .. Head)}
      /\ UNCHANGED <<tip, cursor, known, main, shown, stored, missed, lastVerified, compared, reorg>>
  BY DEF AskChain
<1>2. \A h \in Tips : h \in Height /\ main[h] \in Branch
  BY DEF Tips, ChainInv, ChainTypes, DagIsWhole
<1>3. chain' \subseteq Height \X Branch
  BY <1>1, <1>2
<1>4. chain' # None
  BY <1>3, CheckAssumption
<1>5. ASSUME NEW entry \in chain', entry[1] <= cursor
      PROVE  \E last \in chain' : last[1] = cursor
  <2>1. PICK h \in Tips \cap (Head - CheckDepth + 1 .. Head) : entry = <<h, main[h]>>
    BY <1>1
  <2>2. Head \in Height /\ tip <= Head /\ \A g \in Height : known[g] # {} <=> g <= Head
    BY HeadOfDag DEF ChainInv
  <2>3. Height \subseteq Int /\ cursor \in Int /\ cursor <= tip /\ tip \in Height /\ CheckDepth \in Int
    BY ViewAssumption, CheckAssumption DEF ViewInv, Height
  <2>4. h \in Height /\ h <= cursor /\ Head - CheckDepth + 1 <= h
    BY <1>2, <1>5, <2>1, <2>2, <2>3
  <2>5. cursor \in Height
    BY <2>3, <2>4, ViewAssumption DEF Height
  <2>6. cursor <= Head /\ cursor \in Head - CheckDepth + 1 .. Head
    BY <2>2, <2>3, <2>4
  <2>7. cursor \in Tips
    BY <2>2, <2>5, <2>6 DEF Tips
  <2>8. <<cursor, main[cursor]>> \in chain'
    BY <1>1, <2>6, <2>7
  <2> QED  BY <2>8
<1>6. AnswerReaches'
  BY <1>1, <1>3, <1>5 DEF AnswerReaches
<1>7. ChainTypes'
  BY <1>1, <1>4 DEF ChainInv, ChainTypes
<1>8. ViewInv' /\ DagIsWhole' /\ PassedIsStored'
  BY <1>1 DEF ChainInv, ViewInv, DagIsWhole, PassedIsStored
<1> QED  BY <1>1, <1>6, <1>7, <1>8 DEF ChainInv, NoFalseReorg, VerifiedMeansCompared

(* A comparison: what it reports of a height below the cursor can only be  *)
(* a block that was not in the answer, and the height of the cursor is     *)
(* among those it compares.                                                *)
LEMMA CompareStep ==
  ASSUME ViewInv, ChainInv, Compare
  PROVE  ViewInv' /\ ChainInv'
<1>1. /\ phase = "chain" /\ phase' = "idle" /\ chain' = None
      /\ UNCHANGED <<tip, cursor, known, main, shown, stored, missed>>
  BY DEF Compare
<1>2. chain \subseteq Height \X Branch
  BY <1>1 DEF ChainInv, AnswerReaches
<1>3. ASSUME NEW entry \in Canonical
      PROVE  entry \in Height \X Branch /\ entry[1] \in Height /\ entry[2] \in Branch
             /\ entry[1] <= cursor
  BY <1>2 DEF Canonical
<1>4. ViewInv' /\ DagIsWhole' /\ PassedIsStored' /\ AnswerReaches'
      /\ missed' \in [Height -> SUBSET Branch]
  BY <1>1 DEF ChainInv, ViewInv, DagIsWhole, PassedIsStored, AnswerReaches
<1>5. \A h \in Height : h <= cursor =>
         (h >= StartFrom => stored[h] # {}) /\ Branch \ missed[h] \subseteq stored[h]
  BY DEF ChainInv, PassedIsStored
<1>6. CASE Canonical = {}
  <2>1. UNCHANGED <<compared, reorg, lastVerified>>
    BY <1>6 DEF Compare
  <2>2. ChainTypes'
    BY <1>1, <2>1 DEF ChainInv, ChainTypes
  <2> QED  BY <1>1, <1>4, <2>1, <2>2 DEF ChainInv, NoFalseReorg, VerifiedMeansCompared
<1>7. CASE Canonical # {}
  <2>1. /\ reorg' = Mismatches(Canonical) /\ compared' = {entry[1] : entry \in Canonical}
        /\ lastVerified' = cursor
    BY <1>7 DEF Compare
  <2>2. cursor \in Height
    <3>1. PICK entry \in Canonical : TRUE
      BY <1>7
    <3>2. entry[1] \in Height /\ entry[1] <= cursor
      BY <1>3
    <3> QED  BY <3>2, ViewAssumption DEF ViewInv, Height
  <2>3. reorg' \subseteq Canonical /\ reorg' \subseteq Height \X Branch
    BY <1>3, <2>1 DEF Mismatches
  <2>4. ASSUME NEW entry \in reorg'
        PROVE  entry[1] <= cursor' /\ entry[2] \in missed'[entry[1]]
    <3>1. entry \in Canonical /\ entry[2] \notin stored[entry[1]]
      BY <2>1 DEF Mismatches
    <3>2. entry[1] \in Height /\ entry[2] \in Branch /\ entry[1] <= cursor
      BY <1>3, <3>1
    <3> QED  BY <1>1, <1>5, <3>1, <3>2
  <2>5. NoFalseReorg' /\ \A entry \in reorg' : entry[1] <= cursor'
    BY <2>4 DEF NoFalseReorg
  <2>6. \A h \in compared' : h \in Height /\ h <= cursor
    BY <1>3, <2>1
  <2>7. cursor \in compared'
    <3>1. PICK entry \in Canonical : TRUE
      BY <1>7
    <3>2. entry \in chain /\ entry[1] <= cursor
      BY <3>1 DEF Canonical
    <3>3. PICK last \in chain : last[1] = cursor
      BY <1>1, <3>2 DEF ChainInv, AnswerReaches
    <3>4. last \in Canonical
      BY <2>2, <3>3, ViewAssumption DEF Canonical, Height
    <3> QED  BY <2>1, <3>3, <3>4
  <2>8. stored[cursor] # {}
    <3>1. cursor >= StartFrom /\ cursor <= cursor
      BY <2>2, ViewAssumption DEF ChainInv, Height
    <3> QED  BY <1>5, <2>2, <3>1
  <2>9. VerifiedMeansCompared'
    BY <1>1, <1>5, <2>1, <2>6, <2>7, <2>8 DEF VerifiedMeansCompared
  <2>10. ChainTypes'
    BY <1>1, <2>1, <2>2, <2>3 DEF ChainInv, ChainTypes
  <2> QED  BY <1>1, <1>4, <2>5, <2>6, <2>9, <2>10 DEF ChainInv
<1> QED  BY <1>6, <1>7

(* The check of the main chain, and the batches and the node beside it.    *)
LEMMA ChainStep ==
  ASSUME ViewInv, ChainInv, ChainNext
  PROVE  ViewInv' /\ ChainInv'
<1>1. CASE FinalizeChain
  <2>1. tip < Head /\ tip' = tip + 1 /\ UNCHANGED <<cursor, phase, chains>>
    BY <1>1 DEF FinalizeChain, Finalize
  <2>2. Head \in Height /\ \A h \in Height : known[h] # {} <=> h <= Head
    BY HeadOfDag DEF ChainInv
  <2>3. tip \in Int /\ Head \in Int /\ cursor \in Int /\ -1 <= cursor /\ cursor <= tip
    BY <2>2, ViewAssumption DEF ViewInv, Height
  <2>4. tip' \in Height /\ tip' <= Head
    BY <2>1, <2>2, <2>3, ViewAssumption DEF ViewInv, Height
  <2>5. ViewInv' /\ known'[tip'] # {}
    BY <2>1, <2>2, <2>3, <2>4 DEF ViewInv, chains
  <2> QED  BY <2>1, <2>5 DEF ChainInv, ChainTypes, DagIsWhole, PassedIsStored, AnswerReaches,
                            NoFalseReorg, VerifiedMeansCompared, chains
<1>2. CASE NoChain
  <2>1. /\ phase = "chain" /\ phase' = "idle" /\ chain' = None
        /\ UNCHANGED <<tip, cursor, known, main, shown, stored, missed, lastVerified, compared, reorg>>
    BY <1>2 DEF NoChain
  <2>2. ChainTypes'
    BY <2>1 DEF ChainInv, ChainTypes
  <2>3. ViewInv' /\ DagIsWhole' /\ PassedIsStored' /\ AnswerReaches'
    BY <2>1 DEF ChainInv, ViewInv, DagIsWhole, PassedIsStored, AnswerReaches
  <2> QED  BY <2>1, <2>2, <2>3 DEF ChainInv, NoFalseReorg, VerifiedMeansCompared
<1>3. CASE RestartChain
  <2>1. /\ phase' = "idle" /\ chain' = None /\ shown' = NoBatch
        /\ lastVerified' = None /\ compared' = {} /\ reorg' = {}
        /\ UNCHANGED <<tip, cursor, known, main, stored, missed>>
    BY <1>3 DEF RestartChain
  <2>2. NoBatch \in [Height -> SUBSET Branch] /\ \A h \in Height : NoBatch[h] = {}
    BY DEF NoBatch
  <2>3. ChainTypes'
    BY <2>1, <2>2 DEF ChainInv, ChainTypes
  <2>4. ViewInv' /\ DagIsWhole' /\ PassedIsStored' /\ AnswerReaches'
    BY <2>1 DEF ChainInv, ViewInv, DagIsWhole, PassedIsStored, AnswerReaches
  <2> QED  BY <2>1, <2>2, <2>3, <2>4 DEF ChainInv, NoFalseReorg, VerifiedMeansCompared
<1> QED  BY <1>1, <1>2, <1>3, NodeStep, FetchStep, IndexStep, PassStep, AskStep, CompareStep
         DEF ChainNext
-----------------------------------------------------------------------------
(* The empty table is the copy of empty buffers.                           *)
LEMMA EmptySnapshot == SnapshotOf({}, {}, 0)
<1>1. Min({Cap, 0}) = 0
  BY PendingAssumption, MinOfTwo
<1> QED  BY <1>1, FS_EmptySet DEF SnapshotOf, Signed

(* A step that has not begun satisfies its own invariant at the start.     *)
LEMMA InitIndInv == Init => IndInv
<1> SUFFICES ASSUME Init PROVE IndInv
  OBVIOUS
<1>1. tip = 0 /\ cursor = -1 /\ phase = "idle" /\ 0 \in Height /\ None \notin Int
      /\ Height \subseteq Int /\ \A h \in Height : 0 <= h
  BY ViewAssumption DEF Init, ViewInit, Height
<1>2. ViewInv /\ watched \in Step
  BY <1>1, ViewAssumption DEF Init, ViewInv, Height
<1>3. PendingInv
  <2>1. buffers = {} /\ answer = None /\ open = None /\ rows = {} /\ total = 0
    BY DEF Init, PendingInit
  <2>2. SnapshotOf({}, {}, 0)
    BY EmptySnapshot
  <2>3. \E deploys \in SUBSET Entry : SnapshotOf(rows, deploys, total)
    BY <2>1, <2>2
  <2> QED  BY <1>1, <2>1, <2>3, FS_EmptySet DEF PendingInv, PendingTypes
<1>4. ValidatorsInv
  BY <1>1 DEF Init, ValidatorsInit, ValidatorsInv, ValidatorTypes
<1>5. EpochsInv
  BY <1>1 DEF Init, EpochsInit, EpochsInv, EpochTypes
<1>6. StatsInv
  BY <1>1 DEF Init, StatsInit, StatsInv, StatsTypes, ShareOfOneAnswer
<1>7. ChainInv
  <2> DEFINE b == CHOOSE b \in Branch : TRUE
  <2>1. b \in Branch /\ None \notin Branch
    BY CheckAssumption
  <2>2. /\ main = [h \in Height |-> IF h = 0 THEN b ELSE None]
        /\ known = [h \in Height |-> {main[h]} \ {None}]
        /\ shown = [h \in Height |-> {}] /\ shown = NoBatch
        /\ stored = [h \in Height |-> {}] /\ missed = [h \in Height |-> {}]
        /\ chain = None /\ lastVerified = None /\ compared = {} /\ reorg = {}
    BY DEF Init, ChainInit, NoBatch
  <2> HIDE DEF b
  <2>3. \A h \in Height : /\ main[h] = IF h = 0 THEN b ELSE None
                          /\ known[h] = IF h = 0 THEN {b} ELSE {}
    BY <2>1, <2>2
  <2>4. main \in [Height -> Branch \cup {None}] /\ known \in [Height -> SUBSET Branch]
    BY <2>1, <2>2, <2>3
  <2>5. DagIsWhole
    <3>1. known[tip] # {} /\ \A h \in Height : main[h] \in known[h] \/ (main[h] = None /\ known[h] = {})
      BY <1>1, <2>3
    <3>2. \A g, h \in Height : g <= h /\ known[h] # {} => known[g] # {}
      <4> TAKE g, h \in Height
      <4> HAVE g <= h /\ known[h] # {}
      <4>1. h = 0
        BY <2>3
      <4>2. g = 0
        BY <1>1, <4>1
      <4> QED  BY <4>1, <4>2
    <3> QED  BY <3>1, <3>2 DEF DagIsWhole
  <2>6. PassedIsStored
    BY <1>1 DEF PassedIsStored
  <2>7. ChainTypes
    BY <1>1, <2>2, <2>4 DEF ChainTypes
  <2> QED  BY <1>1, <2>2, <2>5, <2>6, <2>7
           DEF ChainInv, AnswerReaches, NoFalseReorg, VerifiedMeansCompared
<1> QED  BY <1>2, <1>3, <1>4, <1>5, <1>6, <1>7 DEF IndInv, Init

(* Every step of the one that is followed leaves the others waiting.       *)
LEMMA NextIndInv == IndInv /\ [Next]_vars => IndInv'
<1> SUFFICES ASSUME IndInv, [Next]_vars PROVE IndInv'
  OBVIOUS
<1>1. ViewInv /\ watched \in Step
  BY DEF IndInv
<1>2. CASE SyncPendingDeploys
  <2>1. watched = "pending" /\ watched' = watched /\ PendingNext
        /\ UNCHANGED <<validators, epochs, consensus, chains>>
    BY <1>2 DEF SyncPendingDeploys
  <2>2. PendingInv /\ ValidatorsInit /\ EpochsInit /\ StatsInit /\ ChainInit
    BY <2>1 DEF IndInv
  <2>3. ViewInv' /\ PendingInv'
    BY <1>1, <2>1, <2>2, PendingStep
  <2>4. ValidatorsInit' /\ EpochsInit' /\ StatsInit' /\ ChainInit'
    BY <2>1, <2>2, ValidatorsWait, EpochsWait, StatsWait, ChainWaits
  <2> QED  BY <1>1, <2>1, <2>3, <2>4 DEF IndInv
<1>3. CASE UpdateValidatorStates
  <2>1. watched = "validators" /\ watched' = watched /\ ValidatorsNext
        /\ UNCHANGED <<pending, epochs, consensus, chains>>
    BY <1>3 DEF UpdateValidatorStates
  <2>2. ValidatorsInv /\ PendingInit /\ EpochsInit /\ StatsInit /\ ChainInit
    BY <2>1 DEF IndInv
  <2>3. ViewInv' /\ ValidatorsInv'
    BY <1>1, <2>1, <2>2, ValidatorsStep
  <2>4. PendingInit' /\ EpochsInit' /\ StatsInit' /\ ChainInit'
    BY <2>1, <2>2, PendingWaits, EpochsWait, StatsWait, ChainWaits
  <2> QED  BY <1>1, <2>1, <2>3, <2>4 DEF IndInv
<1>4. CASE CheckEpochTransitions
  <2>1. watched = "epochs" /\ watched' = watched /\ EpochsNext
        /\ UNCHANGED <<pending, validators, consensus, chains>>
    BY <1>4 DEF CheckEpochTransitions
  <2>2. EpochsInv /\ PendingInit /\ ValidatorsInit /\ StatsInit /\ ChainInit
    BY <2>1 DEF IndInv
  <2>3. ViewInv' /\ EpochsInv'
    BY <1>1, <2>1, <2>2, EpochsStep
  <2>4. PendingInit' /\ ValidatorsInit' /\ StatsInit' /\ ChainInit'
    BY <2>1, <2>2, PendingWaits, ValidatorsWait, StatsWait, ChainWaits
  <2> QED  BY <1>1, <2>1, <2>3, <2>4 DEF IndInv
<1>5. CASE UpdateNetworkStats
  <2>1. watched = "stats" /\ watched' = watched /\ StatsNext
        /\ UNCHANGED <<pending, validators, epochs, chains>>
    BY <1>5 DEF UpdateNetworkStats
  <2>2. StatsInv /\ PendingInit /\ ValidatorsInit /\ EpochsInit /\ ChainInit
    BY <2>1 DEF IndInv
  <2>3. ViewInv' /\ StatsInv'
    BY <1>1, <2>1, <2>2, StatsStep
  <2>4. PendingInit' /\ ValidatorsInit' /\ EpochsInit' /\ ChainInit'
    BY <2>1, <2>2, PendingWaits, ValidatorsWait, EpochsWait, ChainWaits
  <2> QED  BY <1>1, <2>1, <2>3, <2>4 DEF IndInv
<1>6. CASE VerifyMainChain
  <2>1. watched = "chain" /\ watched' = watched /\ ChainNext
        /\ UNCHANGED <<pending, validators, epochs, consensus>>
    BY <1>6 DEF VerifyMainChain
  <2>2. ChainInv /\ PendingInit /\ ValidatorsInit /\ EpochsInit /\ StatsInit
    BY <2>1 DEF IndInv
  <2>3. ViewInv' /\ ChainInv'
    BY <1>1, <2>1, <2>2, ChainStep
  <2>4. PendingInit' /\ ValidatorsInit' /\ EpochsInit' /\ StatsInit'
    BY <2>1, <2>2, PendingWaits, ValidatorsWait, EpochsWait, StatsWait
  <2> QED  BY <1>1, <2>1, <2>3, <2>4 DEF IndInv
<1>7. CASE UNCHANGED vars
  <2>1. UNCHANGED <<tip, cursor, phase, watched, pending, validators, epochs, consensus, chains>>
    BY <1>7 DEF vars, view
  <2>2. ViewInv' /\ (PendingInv => PendingInv') /\ (ValidatorsInv => ValidatorsInv')
    BY <1>1, <2>1 DEF ViewInv, PendingInv, PendingTypes, SnapshotOf, Signed, pending,
                      ValidatorsInv, ValidatorTypes, validators, table
  <2>3. (EpochsInv => EpochsInv') /\ (StatsInv => StatsInv')
    BY <2>1 DEF EpochsInv, EpochTypes, epochs,
                StatsInv, StatsTypes, ShareOfOneAnswer, consensus
  <2>4. ChainInv => ChainInv'
    BY <2>1 DEF ChainInv, ChainTypes, DagIsWhole, PassedIsStored, AnswerReaches,
                NoFalseReorg, VerifiedMeansCompared, chains
  <2>5. /\ PendingInit => PendingInit'
        /\ ValidatorsInit => ValidatorsInit'
        /\ EpochsInit => EpochsInit'
        /\ StatsInit => StatsInit'
        /\ ChainInit => ChainInit'
    BY <2>1, PendingWaits, ValidatorsWait, EpochsWait, StatsWait, ChainWaits
  <2>6. watched' = watched
    BY <2>1
  <2> QED  BY <1>1, <2>2, <2>3, <2>4, <2>5, <2>6 DEF IndInv
<1> QED  BY <1>2, <1>3, <1>4, <1>5, <1>6, <1>7 DEF Next

(* The fairness plays no part in it.                                       *)
LEMMA AlwaysIndInv == FairSpec => []IndInv
BY InitIndInv, NextIndInv, PTL DEF FairSpec
-----------------------------------------------------------------------------

(* The phases tell the steps apart: the ones that wait have no answer in   *)
(* hand.                                                                   *)
LEMMA IndInvTypes == IndInv => TypeOK
<1> SUFFICES ASSUME IndInv PROVE TypeOK
  OBVIOUS
<1>1. 0 \in Height /\ 0 \in Nat /\ tip \in Height /\ cursor \in -1 .. tip /\ watched \in Step
  BY ViewAssumption DEF IndInv, ViewInv, Height
<1>2. /\ watched = "pending" => phase \in {"idle", "answered", "deleted", "inserted"}
      /\ watched = "validators" => phase \in {"idle", "bonds"}
      /\ watched = "epochs" => phase \in {"idle", "epoch"}
      /\ watched = "stats" => phase \in {"idle", "lfb", "stakes", "active"}
      /\ watched = "chain" => phase \in {"idle", "batch", "chain"}
  BY DEF IndInv, PendingInv, ValidatorsInv, EpochsInv, StatsInv, ChainInv
<1>3. phase \in {"idle", "answered", "deleted", "inserted", "bonds", "epoch",
                 "lfb", "stakes", "active", "batch", "chain"}
  BY <1>1, <1>2 DEF Step
<1>4. PendingTypes
  <2>1. CASE watched = "pending"
    BY <2>1 DEF IndInv, PendingInv
  <2>2. CASE watched # "pending"
    <3>1. phase \notin {"answered", "deleted", "inserted"}
      BY <1>1, <1>2, <2>2 DEF Step
    <3> QED  BY <1>1, <2>2, <3>1 DEF IndInv, PendingInit, PendingTypes
  <2> QED  BY <2>1, <2>2
<1>5. ValidatorTypes
  <2>1. CASE watched = "validators"
    BY <2>1 DEF IndInv, ValidatorsInv
  <2>2. CASE watched # "validators"
    BY <1>1, <2>2 DEF IndInv, ValidatorsInit, ValidatorTypes
  <2> QED  BY <2>1, <2>2
<1>6. EpochTypes
  <2>1. CASE watched = "epochs"
    BY <2>1 DEF IndInv, EpochsInv
  <2>2. CASE watched # "epochs"
    BY <1>1, <2>2 DEF IndInv, EpochsInit, EpochTypes
  <2> QED  BY <2>1, <2>2
<1>7. StatsTypes
  <2>1. CASE watched = "stats"
    BY <2>1 DEF IndInv, StatsInv
  <2>2. CASE watched # "stats"
    BY <1>1, <2>2 DEF IndInv, StatsInit, StatsTypes
  <2> QED  BY <2>1, <2>2
<1>8. ChainTypes
  <2>1. CASE watched = "chain"
    BY <2>1 DEF IndInv, ChainInv
  <2>2. CASE watched # "chain"
    <3>1. phase # "chain"
      BY <1>1, <1>2, <2>2 DEF Step
    <3>2. ChainInit
      BY <2>2 DEF IndInv
    <3>3. main \in [Height -> Branch \cup {None}]
      BY <3>2, CheckAssumption DEF ChainInit
    <3>4. known \in [Height -> SUBSET Branch]
      BY <3>2, <3>3 DEF ChainInit
    <3> QED  BY <1>1, <3>1, <3>2, <3>3, <3>4 DEF ChainInit, ChainTypes, NoBatch
  <2> QED  BY <2>1, <2>2
<1> QED  BY <1>1, <1>3, <1>4, <1>5, <1>6, <1>7, <1>8 DEF TypeOK

(* Every table keeps its type, and no two steps hold an answer at a time.  *)
THEOREM TypeCorrect == FairSpec => []TypeOK
BY AlwaysIndInv, IndInvTypes, PTL

(* What is missing beside the cut are entries without a signature.         *)
LEMMA SnapshotTells ==
  ASSUME NEW deploys, SnapshotOf(rows, deploys, total)
  PROVE  TotalTellsOfTruncation
<1> DEFINE nameless == {e \in Entry : e.sig \in Unsigned}
           dropped == deploys \ rows
<1>1. deploys \subseteq Entry /\ IsFiniteSet(deploys) /\ rows = Signed(deploys)
      /\ Cardinality(deploys) = Min({Cap, total})
  BY DEF SnapshotOf
<1>2. rows \subseteq deploys /\ dropped \subseteq nameless
  BY <1>1 DEF Signed
<1>3. IsFiniteSet(nameless) /\ Cardinality(nameless) <= 2 * Cardinality(Unsigned)
  BY UnsignedEntries
<1> HIDE DEF nameless
<1>4. IsFiniteSet(rows) /\ Cardinality(rows) <= Cardinality(deploys)
  BY <1>1, <1>2, FS_Subset
<1>5. IsFiniteSet(dropped) /\ Cardinality(dropped) <= Cardinality(nameless)
  BY <1>2, <1>3, FS_Subset
<1>6. Cardinality(dropped) = Cardinality(deploys) - Cardinality(rows)
  <2>1. deploys \cap rows = rows
    BY <1>2
  <2>2. Cardinality(deploys \ rows) = Cardinality(deploys) - Cardinality(deploys \cap rows)
    BY <1>1, FS_Difference
  <2> QED  BY <2>1, <2>2
<1>7. Cardinality(rows) \in Nat /\ Cardinality(deploys) \in Nat /\ Cardinality(nameless) \in Nat
      /\ Cardinality(Unsigned) \in Nat
  BY <1>1, <1>3, <1>4, PendingAssumption, FS_CardinalityType
<1> HIDE DEF dropped
<1>8. /\ Cardinality(rows) <= Cardinality(deploys)
      /\ Cardinality(deploys) <= Cardinality(rows) + 2 * Cardinality(Unsigned)
  BY <1>3, <1>4, <1>5, <1>6, <1>7
<1> QED  BY <1>1, <1>8 DEF TotalTellsOfTruncation

(* For every cap and every set of deploys without a signature: whatever    *)
(* failed, the rows and the stored total are of one answer of the node     *)
(* (_sync_pending_deploys writes both in one transaction).                 *)
THEOREM TotalIsOfTheRows == FairSpec => []TotalTellsOfTruncation
<1>1. ASSUME IndInv PROVE TotalTellsOfTruncation
  <2>1. CASE watched = "pending"
    BY <1>1, <2>1, SnapshotTells DEF IndInv, PendingInv
  <2>2. CASE watched # "pending"
    <3>1. rows = {} /\ total = 0
      BY <1>1, <2>2 DEF IndInv, PendingInit
    <3>2. SnapshotOf({}, {}, 0)
      BY EmptySnapshot
    <3> QED  BY <3>1, <3>2, SnapshotTells
  <2> QED  BY <2>1, <2>2
<1> QED  BY <1>1, AlwaysIndInv, PTL

(* For all stakes and all lists of active validators: the participation    *)
(* of a row of network_stats is a share of the stake of one answer,        *)
(* however far the node went on between the three answers of               *)
(* _update_network_stats.                                                  *)
THEOREM ShareStaysAShare == FairSpec => []ShareOfOneAnswer
<1>1. ASSUME IndInv PROVE ShareOfOneAnswer
  BY <1>1 DEF IndInv, StatsInv, StatsInit, ShareOfOneAnswer
<1> QED  BY <1>1, AlwaysIndInv, PTL

(* For every DAG the node may come to, whenever its blocks appear, every   *)
(* start_from_block, depth and interval of the check: _verify_main_chain   *)
(* reports a height only if the main chain has a block there that was not  *)
(* in the answer to the batch whose cursor passed that height.             *)
THEOREM ReorgIsReal == FairSpec => []NoFalseReorg
<1>1. ASSUME IndInv PROVE NoFalseReorg
  BY <1>1 DEF IndInv, ChainInv, ChainInit, NoFalseReorg
<1> QED  BY <1>1, AlwaysIndInv, PTL

(* For every start_from_block: a check that counts as done has compared    *)
(* the height it counts for, which is stored, and nothing above; what it   *)
(* compared below is stored but for heights before start_from_block.       *)
THEOREM CountedCheckCompared == FairSpec => []VerifiedMeansCompared
<1>1. ASSUME IndInv PROVE VerifiedMeansCompared
  BY <1>1 DEF IndInv, ChainInv, ChainInit, VerifiedMeansCompared
<1> QED  BY <1>1, AlwaysIndInv, PTL
=============================================================================
