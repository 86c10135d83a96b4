------------------------- MODULE TransferExtraction -------------------------
(***************************************************************************)
(* BlockIndexer._extract_transfers (src/src/block_indexer.py): the         *)
(* transfers a deploy's Rholang term is taken to make.  A term is the      *)
(* sequence of the statements the patterns look for, each a record whose   *)
(* op names the pattern; a string constant of the term is told apart by    *)
(* what the patterns and the checks after them ask of it.                  *)
(*                                                                         *)
(*   match   match ("from", "to", amount) { (var, var, _) =>               *)
(*   bind    match "to" { var =>                                           *)
(*   assign  var = "to"                                                    *)
(*   send    @vault!("transfer", to or var, amount, ...)                   *)
(*   create  ASIVault!("findOrCreate", "to", amount)                       *)
(*   other   a use of a vault no pattern takes, as with a named amount     *)
(*                                                                         *)
(* A match is "exact" when it is spaced as DIRECT_TRANSFER_PATTERN wants.  *)
(* Strings of 1111... beyond 57 characters are left out.                   *)
(***************************************************************************)
EXTENDS Integers, Sequences

CONSTANTS Address,   \* 1111..., 52 to 56 characters
          Long,      \* 1111..., 57 characters
          Short,     \* 1111..., fewer than 52
          Foreign,   \* 52 to 56 characters, another prefix
          Name,      \* identifiers of the term
          Unknown    \* an identifier that is bound to nothing

String == Address \cup Long \cup Short \cup Foreign
Variable == Name \cup {Unknown}

ASSUME StringAssumption ==
  /\ Unknown \notin String \cup Name /\ Name \cap String = {}
  /\ Short \cap (Address \cup Long \cup Foreign) = {}

Statement ==
  [op : {"match"}, from : String, to : String, amount : Nat, exact : BOOLEAN,
   fromVar : Variable, toVar : Variable]
  \cup [op : {"bind", "assign"}, var : Name, to : String]
  \cup [op : {"send"}, to : String \cup Name, amount : Nat]
  \cup [op : {"create"}, to : String, amount : Nat]
  \cup [op : {"other"}]

InTerm(term, op) == {s \in {term[i] : i \in DOMAIN term} : s.op = op}

\* A first pass takes the amounts between two addresses that are spelled out.  A sender
\* that is too short is taken for a public key, whose conversion raises ValueError.
Direct(term) ==
  {<<s.from, s.to, s.amount>> :
     s \in {m \in InTerm(term, "match") :
              /\ m.exact /\ m.amount > 0
              /\ m.from \in Address \cup Long
              /\ m.to \in Address \cup Long \cup Short}}
----------------------------------------------------------------------------
(* Otherwise identifiers are resolved, wherever in the term they are used: *)
(* the patterns are tried in turn and a later binding replaces an earlier. *)

BoundBy(s, name) ==
  CASE s.op \in {"bind", "assign"} -> IF s.var = name /\ s.to \in Address THEN s.to ELSE Unknown
    [] s.op = "match" /\ s.from \in Address /\ s.to \in Address \cup Long ->
         IF s.toVar = name THEN s.to ELSE IF s.fromVar = name THEN s.from ELSE Unknown
    [] OTHER -> Unknown

\* Positions of the statements that bind the name, and the last of them by pattern.
Binders(term, op, name) == {i \in DOMAIN term : term[i].op = op /\ BoundBy(term[i], name) # Unknown}

LastBinding(term, op, name) ==
  BoundBy(term[CHOOSE i \in Binders(term, op, name) :
                 \A j \in Binders(term, op, name) : j <= i], name)

Binding(term, name) ==
  IF Binders(term, "match", name) # {} THEN LastBinding(term, "match", name)
  ELSE IF Binders(term, "assign", name) # {} THEN LastBinding(term, "assign", name)
  ELSE IF Binders(term, "bind", name) # {} THEN LastBinding(term, "bind", name)
  ELSE Unknown

Resolve(term, to) ==
  CASE to \in Address -> to
    [] to \in Name    -> Binding(term, to)
    [] OTHER          -> Unknown

Calls(term, deployer) ==
  LET sent == {<<deployer, Resolve(term, s.to), s.amount>> :
                 s \in InTerm(term, "send") \cup InTerm(term, "create")}
      matched == {<<IF s.from \in Address THEN s.from ELSE deployer, Resolve(term, s.to), s.amount>> :
                    s \in {m \in InTerm(term, "match") : m.from \in Address \cup Foreign}}
  IN  {t \in sent \cup matched : t[2] # Unknown /\ t[3] > 0}

\* "ASIVault", "transfer" or "vault" stands in a call, whether a pattern takes it or not.
MentionsVault(term) == \E i \in DOMAIN term : term[i].op \in {"send", "create", "other"}

\* Mutation of Extracted: a direct match ends the search even if it was no transfer.
ExtractedAfterAnyMatch(term, deployer) ==
  IF \E s \in InTerm(term, "match") : s.exact THEN Direct(term)
  ELSE IF MentionsVault(term) THEN Calls(term, deployer) ELSE {}

Extracted(term, deployer) ==
  IF Direct(term) # {} THEN Direct(term)
  ELSE IF MentionsVault(term) THEN Calls(term, deployer) ELSE {}
----------------------------------------------------------------------------
(* What a term says to a reader who goes through it in order.              *)

Binds(s, name) == BoundBy(s, name) # Unknown
IsCall(s) == s.op \in {"send", "create"}
IsHeader(s) == s.op = "match" /\ s.from \in Address /\ s.amount > 0

\* Transfers go to addresses or identifiers, an identifier is bound once, before it is
\* used, and a term whose transfers stand in match headers that are spelled as the first
\* pass expects makes no others.
Plain(term) ==
  /\ \A i \in DOMAIN term :
        /\ term[i].op # "other" => term[i].to \in Address \cup Name
        /\ term[i].op = "match" => term[i].from \in Address \cup Short
        /\ IsCall(term[i]) /\ term[i].to \in Name =>
              \E j \in 1 .. i - 1 : Binds(term[j], term[i].to)
  /\ \A name \in Name : \A i, j \in DOMAIN term :
        Binds(term[i], name) /\ Binds(term[j], name) => i = j
  /\ (\E i \in DOMAIN term : IsHeader(term[i]) /\ term[i].exact) =>
        \A i \in DOMAIN term : ~ IsCall(term[i]) /\ (IsHeader(term[i]) => term[i].exact)

\* What the name stands for when statement i is reached.
Meant(term, i, name) ==
  IF name \in Name THEN BoundBy(term[CHOOSE j \in 1 .. i - 1 : Binds(term[j], name)], name)
                   ELSE name

Said(term, deployer, i) ==
  LET s == term[i]
  IN  CASE IsCall(s) /\ s.amount > 0 -> {<<deployer, Meant(term, i, s.to), s.amount>>}
        [] IsHeader(s) /\ (s.exact \/ MentionsVault(term)) -> {<<s.from, s.to, s.amount>>}
        [] OTHER -> {}

ReadAsSaid(term, deployer) ==
  Extracted(term, deployer) = UNION {Said(term, deployer, i) : i \in DOMAIN term}
=============================================================================
