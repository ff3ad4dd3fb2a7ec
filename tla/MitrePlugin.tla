---------------------------- MODULE MitrePlugin ----------------------------
(***************************************************************************)
(* The ATT&CK plugin (plugins/marlinspike_mitre): rules over the findings  *)
(* and the size of a report become classifications and coverage.  Titles,  *)
(* guidance and the catalogue of techniques are left out.                  *)
(***************************************************************************)
EXTENDS Plugins

CONSTANT MitreRules  \* the enabled rules of the packs, in order, see MitreRule

(* A rule's condition is a list of clauses of which one must hold: at      *)
(* least so many nodes and edges, and one of the categories, if any.       *)
Clause == [categories : SUBSET STRING, nodes : Nat, edges : Nat]
MitreRule ==
  [technique : STRING, kind : {"classification", "coverage"}, when : SUBSET Clause,
   basis : {"observed", "inferred", "platform"}, confidence : Nat]

ASSUME MitreRulesAreWellFormed == MitreRules \in Seq(MitreRule)

BasisRank == [b \in {"observed", "inferred", "platform"} |->
                CASE b = "observed" -> 0 [] b = "inferred" -> 1 [] OTHER -> 2]

Matches(clause, fs) ==
  /\ clause.nodes <= Cardinality(DOMAIN nodes) /\ clause.edges <= Len(edges)
  /\ clause.categories = {} \/ \E f \in fs : f.category \in clause.categories
RuleMatches(rule, fs) == rule.when = {} \/ \E clause \in rule.when : Matches(clause, fs)

(* The evidence of a rule: the findings of all categories it mentions. *)
Evidence(rule, fs) ==
  {f \in fs : f.category \in UNION {clause.categories : clause \in rule.when}}

ItemOf(rule, fs) ==
  [technique |-> rule.technique, basis |-> rule.basis, confidence |-> rule.confidence,
   mapped |-> {f.category : f \in Evidence(rule, fs)},
   nodes |-> UNION {f.nodes : f \in Evidence(rule, fs)}]

(* Rules for one technique make one item: the best basis and confidence,   *)
(* all the evidence.                                                       *)
MergeItem(old, new) ==
  [old EXCEPT !.basis = IF BasisRank[new.basis] < BasisRank[@] THEN new.basis ELSE @,
              !.confidence = Max({@, new.confidence}),
              !.mapped = @ \cup new.mapped, !.nodes = @ \cup new.nodes]

AddItem(items, item) ==
  LET i == SelectInSeq(items, LAMBDA o : o.technique = item.technique)
  IN IF i = 0 THEN Append(items, item) ELSE [items EXCEPT ![i] = MergeItem(@, item)]

Items(kind, fs) ==
  FoldLeft(LAMBDA items, rule : AddItem(items, ItemOf(rule, fs)), <<>>,
           SelectSeq(MitreRules, LAMBDA r : r.kind = kind /\ RuleMatches(r, fs)))

Classify(fs) ==
  LET classified == Items("classification", fs)
      mapped == UNION {item.mapped : item \in ToSet(classified)}
  IN [classifications |-> ToSet(classified), coverage |-> ToSet(Items("coverage", fs)),
      unmapped |-> {f.category : f \in fs} \ mapped]
=============================================================================
