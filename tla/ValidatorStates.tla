-------------------------- MODULE ValidatorStates --------------------------
(***************************************************************************)
(* The validators table and its two writers (src/src/block_indexer.py):    *)
(* _process_validators within each block's transaction, and                *)
(* _update_validator_states once per cycle.                                *)
(***************************************************************************)
EXTENDS CycleView

VARIABLES
  held,       \* heights whose block is indexed
  asked,      \* height the bonds in hand are of
  stake,      \* validators.total_stake
  status,     \* validators.status, "absent" for no row
  firstSeen,  \* validators.first_seen_block
  lastSeen    \* validators.last_seen_block

table == <<stake, status, firstSeen, lastSeen>>
validators == <<held, asked, table>>

ValidatorsInit ==
  /\ held = {} /\ asked = None
  /\ stake = [v \in Validator |-> 0] /\ status = [v \in Validator |-> "absent"]
  /\ firstSeen = [v \in Validator |-> None] /\ lastSeen = [v \in Validator |-> None]

\* The blocks of a batch, lowest first, each once: one that is indexed is skipped.
ProcessValidators(new) ==
  LET of(v) == {h \in new : v \in Bonded(h)}
  IN  /\ stake' = [v \in Validator |-> Max({stake[v]} \cup {StakeAt[h][v] : h \in of(v)})]
      /\ lastSeen' = [v \in Validator |-> IF of(v) = {} THEN lastSeen[v] ELSE Max(of(v))]
      /\ firstSeen' = [v \in Validator |->
                         IF of(v) = {} \/ status[v] # "absent" THEN firstSeen[v] ELSE Min(of(v))]
      /\ status' = [v \in Validator |-> IF of(v) = {} THEN status[v] ELSE "active"]

\* Some blocks of a batch may fail, indexed ones too, and the heights above them are
\* indexed all the same; the cursor goes as far as the heights that are done, or stays
\* where it is if it cannot be written, or the process stops before.
SyncValidators(new) ==
  /\ phase = "idle"
  /\ held' = held \cup new
  /\ \E done \in SUBSET held' : cursor' = CursorAfter(done)
  /\ ProcessValidators(new)
  /\ UNCHANGED <<tip, phase, asked>>

\* get_bonds: those of the last finalized block.
AskBonds ==
  /\ phase = "idle"
  /\ asked' = tip
  /\ phase' = "bonds"
  /\ UNCHANGED <<tip, cursor, held, table>>

\* The list get_active_validators returns, of dictionaries, and how a key is looked up in
\* it: it is never found.
ActiveList(h) == {[validator |-> v, stake |-> StakeAt[h][v]] : v \in ActiveAt[h]}
IsActive(v, active) == v \in active

\* Mutation of StakeAfter: the stake is raised as _process_validators raises it.
StakeAfterRaising(v) == Max({stake[v], StakeAt[asked][v]})

StakeAfter(v) == StakeAt[asked][v]

\* The active validators may be those of a later block, or unknown.
UpdateValidators ==
  /\ phase = "bonds"
  /\ \E active \in {ActiveList(tip), {}} :
       status' = [v \in Validator |->
                    IF v \notin Bonded(asked) THEN status[v]
                    ELSE IF IsActive(v, active) THEN "active" ELSE "bonded"]
  /\ stake' = [v \in Validator |-> IF v \in Bonded(asked) THEN StakeAfter(v) ELSE stake[v]]
  /\ firstSeen' = [v \in Validator |->
                     IF v \in Bonded(asked) /\ status[v] = "absent" THEN cursor ELSE firstSeen[v]]
  /\ lastSeen' = [v \in Validator |-> IF v \in Bonded(asked) THEN cursor ELSE lastSeen[v]]
  /\ phase' = "idle" /\ asked' = None
  /\ UNCHANGED <<tip, cursor, held>>

\* The database fails, or the process stops.
UpdateFails ==
  /\ phase = "bonds"
  /\ phase' = "idle" /\ asked' = None
  /\ UNCHANGED <<tip, cursor, held, table>>

\* A cycle that goes through.
SyncWhole ==
  /\ SyncValidators(Batch \ held)
  /\ cursor' = CursorAfter(held')

ValidatorsNext ==
  \/ Finalize /\ UNCHANGED validators
  \/ \E new \in SUBSET (Batch \ held) : SyncValidators(new)
  \/ AskBonds \/ UpdateValidators \/ UpdateFails
-----------------------------------------------------------------------------
ValidatorTypes ==
  /\ held \subseteq Height /\ asked \in Height \cup {None}
  /\ stake \in [Validator -> Nat]
  /\ status \in [Validator -> {"absent", "active", "bonded"}]
  /\ \A v \in Validator :
        /\ status[v] = "absent" <=> firstSeen[v] = None
        /\ firstSeen[v] \in Height \cup {-1, None} /\ lastSeen[v] \in Height \cup {-1, None}

\* The table agrees with the node.
Settled == \A v \in Bonded(tip) : stake[v] = StakeAt[tip][v]
=============================================================================
