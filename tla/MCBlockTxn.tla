----------------------------- MODULE MCBlockTxn -----------------------------
(***************************************************************************)
(* A genesis, two siblings at height 1 and a block at height 2.  The       *)
(* siblings share deploy d1, which comes back at height 2; d2 has no       *)
(* transfers and may be refused, as last deploy of a justified block; d1   *)
(* may be refused too, and is followed by statements that then fail.  The  *)
(* genesis has no bonds, or one whose stake is 0 beside one that counts.   *)
(***************************************************************************)
EXTENDS BlockTxn

CONSTANTS g, x, y, z, d0, d1, d2, v, w,
          a1, a2, short, n, deployer

MCBlock == {g, x, y, z}
MCHeightOf == [b \in MCBlock |-> CASE b = g -> 0 [] b \in {x, y} -> 1 [] b = z -> 2]
MCDeploy == {d0, d1, d2}
MCDeploysOf ==
  [b \in MCBlock |-> CASE b = g -> <<d0>> [] b = x -> <<d1, d2>> [] b = y -> <<d1>>
                       [] b = z -> <<d2, d1>>]

Send(to, amount) == [op |-> "send", to |-> to, amount |-> amount]
Assign(var, to) == [op |-> "assign", var |-> var, to |-> to]
MCTermOf == [d \in MCDeploy |-> IF d = d1 THEN <<Assign(n, a1), Send(n, 1), Send(a2, 1)>> ELSE <<>>]
MCDeployerOf == [d \in MCDeploy |-> deployer]

MCGenesisBonds == {{}, {<<v, 2>>, <<w, 0>>}}
MCNodeBonds == {{}, {<<v, 1>>, <<w, 1>>}}
----------------------------------------------------------------------------
(* Terms of up to three statements.                                        *)
MCStatement ==
  [op : {"match"}, from : {a1, short}, to : {a2}, amount : 0 .. 1, exact : BOOLEAN,
   fromVar : {Unknown}, toVar : {n, Unknown}]
  \cup [op : {"bind", "assign"}, var : {n}, to : {a1}]
  \cup [op : {"send"}, to : {a1, a2, n}, amount : 0 .. 1]
  \cup [op : {"create"}, to : {a2}, amount : {1}]
  \cup [op : {"other"}]
MCTerms == UNION {[1 .. k -> MCStatement] : k \in 0 .. 3}
=============================================================================
