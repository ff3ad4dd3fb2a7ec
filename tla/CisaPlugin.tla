----------------------------- MODULE CisaPlugin -----------------------------
(***************************************************************************)
(* The advisory plugin (plugins/marlinspike_cisa): the vendors of a report *)
(* are searched for in a local catalogue of advisories.  Relevance orders  *)
(* the results and is left out; what is found is not.                      *)
(***************************************************************************)
EXTENDS Plugins

CONSTANTS
  Advisories,   \* the catalogue: [id, words], the words of all fields searched
  AliasGroups   \* the groups of the rule pack: sets of equivalent words

ASSUME CatalogueIsWellFormed ==
  Advisories \subseteq [id : STRING, words : SUBSET STRING]

(* Of the groups that hold a word the last one counts. *)
Expand(word) ==
  LET holding == SelectSeq(AliasGroups, LAMBDA g : word \in g)
  IN IF holding = <<>> THEN {word} ELSE Last(holding)

(* Every word of a term must occur, by itself or by an alias. *)
Search(words) ==
  IF words = {} THEN {}
  ELSE {a \in Advisories : \A w \in words : Expand(w) \cap a.words # {}}

(* Each vendor is searched once, under the first node that has it.  Nodes  *)
(* of the engine carry no product, and its findings no CVE.                *)
SearchTerms == {nodes[k].vendor : k \in DOMAIN nodes}

CisaReport ==
  [byAsset |-> [v \in SearchTerms |-> {a.id : a \in Search({v})}],
   all |-> {a.id : a \in UNION {Search({v}) : v \in SearchTerms}}]
=============================================================================
