--------------------------- MODULE IndexedChain ----------------------------
(***************************************************************************)
(* What the block indexer promises to the readers of its database: a       *)
(* cursor that only grows, and below it an indexed chain without holes.    *)
(*                                                                         *)
(*   known    the blocks the node has answered for heights still open      *)
(*   indexed  the blocks in the table "blocks"                             *)
(*   cursor   the value of indexer_state.last_indexed_block                *)
(*                                                                         *)
(* Once the cursor has passed a height the set of known blocks of that     *)
(* height is closed, and all of them are indexed.                          *)
(***************************************************************************)
EXTENDS Integers

CONSTANTS Block,      \* all blocks the node may ever have
          HeightOf,   \* the height of each
          StartFrom   \* settings.start_from_block

VARIABLES known, indexed, cursor

vars == <<known, indexed, cursor>>

AtHeight(B, h) == {b \in B : HeightOf[b] = h}

\* Every height up to h has a block, and no known block of it is missing.
CompleteUpTo(h) ==
  \A g \in StartFrom .. h : /\ AtHeight(indexed, g) # {}
                            /\ AtHeight(known, g) \subseteq indexed

Init ==
  /\ known = {}
  /\ indexed = {}
  /\ cursor = -1

Learn(B) ==
  /\ \A b \in B : HeightOf[b] > cursor
  /\ known' = known \cup B
  /\ UNCHANGED <<indexed, cursor>>

Index(b) ==
  /\ indexed' = indexed \cup {b}
  /\ UNCHANGED <<known, cursor>>

Advance ==
  /\ cursor' \in Nat /\ cursor' > cursor
  /\ CompleteUpTo(cursor')
  /\ UNCHANGED <<known, indexed>>

Next ==
  \/ \E B \in SUBSET Block : Learn(B)
  \/ \E b \in Block : Index(b)
  \/ Advance

Spec == Init /\ [][Next]_vars
=============================================================================
