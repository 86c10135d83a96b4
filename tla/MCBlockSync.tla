---------------------------- MODULE MCBlockSync ----------------------------
(***************************************************************************)
(* Seven blocks on five heights: two siblings at heights 2 and 3, one      *)
(* block at every other.  With a start at 1 and batches of two heights     *)
(* there is a sibling in both batches that may fail or appear late, one    *)
(* that may be reported out of range, and a second batch that has to get   *)
(* to the height below a block the database never accepts.                 *)
(***************************************************************************)
EXTENDS BlockSyncClaims

CONSTANTS g, a1, b1, b2, c1, c2, d1

MCBlock == {g, a1, b1, b2, c1, c2, d1}
MCHeightOf ==
  [b \in MCBlock |-> CASE b = g -> 0 [] b = a1 -> 1 [] b \in {b1, b2} -> 2
                       [] b \in {c1, c2} -> 3 [] b = d1 -> 4]
=============================================================================
