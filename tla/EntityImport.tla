---------------------------- MODULE EntityImport ----------------------------
(***************************************************************************)
(* Import of global-variable initializers (__extract_types and            *)
(* __import_entities in src/core/core/avtg/emg/interfacespec/analysis.py). *)
(*                                                                         *)
(* An initializer is a tree of nodes: the kind of the node's declaration  *)
(* ("struct", "union", "array" or "scalar"), the shape of its             *)
(* description's "value" ("str", "list" or "none" when absent), whether  *)
(* a "str" value is a null pointer for the declaration (check_null), and  *)
(* for a list the entries in the order the analysis gives them, each a   *)
(* key (an array index or a field name, "" for a field without a name)   *)
(* and the entry's node.  An implementation is recorded as the variable, *)
(* the root sequence, the root type and whether its value is the         *)
(* variable's own name; a root type is the sequence of the container     *)
(* node it names, or NoRoot.  Declarations themselves                    *)
(* (add_parent, bt.fields[field] = e_bt) are left out.                    *)
(***************************************************************************)
EXTENDS Naturals, Sequences, SequencesExt, FiniteSets

CONSTANTS
  NoRoot,        \* the root type of an entity outside any array
  StrLess(_, _)  \* the order `sorted` puts names and field declarations in

Container == {"struct", "union", "array"}

(* An entity of the worklist: the node, the variable it belongs to (its  *)
(* "root value"), its "root type" and its "root sequence".               *)
Entity(n, var, rt, rs) == [node |-> n, var |-> var, rt |-> rt, rs |-> rs]

(* Mutant: a field without a name is pushed as well. *)
Children_Unnamed(e) ==
  LET n == e.node
      kids == IF n.kind = "array" THEN n.entries
              ELSE SortSeq(n.entries, LAMBDA x, y : StrLess(x.key, y.key))
      rt == IF n.kind = "array" /\ e.rt = NoRoot THEN e.rs ELSE e.rt
  IN [i \in DOMAIN kids |-> Entity(kids[i].node, e.var, rt, Append(e.rs, kids[i].key))]

(* The entities one list-valued entity pushes, in push order.  An array  *)
(* entry takes the array as root type when there is none yet; a field of *)
(* a struct or union keeps the root type (its root value is always the  *)
(* variable's name, so `not root type and not root value` never holds);  *)
(* a field without a name is skipped.                                    *)
Children(e) ==
  LET n == e.node
      kids == IF n.kind = "array" THEN n.entries
              ELSE SelectSeq(SortSeq(n.entries, LAMBDA x, y : StrLess(x.key, y.key)), LAMBDA x : x.key # "")
      rt == IF n.kind = "array" /\ e.rt = NoRoot THEN e.rs ELSE e.rt
  IN [i \in DOMAIN kids |-> Entity(kids[i].node, e.var, rt, Append(e.rs, kids[i].key))]

(* The outcome of one popped entity: a string value adds an               *)
(* implementation unless it is a null pointer; a list value on a         *)
(* container pushes its entries; a list on a scalar raises                *)
(* NotImplementedError, a missing value TypeError.                        *)
Outcome(e) ==
  CASE e.node.val = "str"  -> "leaf"
    [] e.node.val = "list" /\ e.node.kind \in Container -> "push"
    [] e.node.val = "list" -> "NotImplementedError"
    [] OTHER -> "TypeError"

(* `while len(entities) > 0: entity = entities.pop() ...`: the result is  *)
(* the implementations added, in order, and the exception raised, if any. *)
RECURSIVE ImportEntities(_, _)
ImportEntities(stack, impls) ==
  IF stack = <<>> THEN [impls |-> impls, err |-> "none"]
  ELSE LET e == Last(stack)
           rest == Front(stack)
           o == Outcome(e)
       IN CASE o = "leaf" ->
                 ImportEntities(rest, IF e.node.null THEN impls
                                      ELSE Append(impls, [var |-> e.var, rs |-> e.rs, rt |-> e.rt, own |-> FALSE]))
            [] o = "push" -> ImportEntities(rest \o Children(e), impls)
            [] OTHER -> [impls |-> impls, err |-> o]

(* __extract_types, global variable part: the variables in sorted order;  *)
(* one without a name raises ValueError; a struct, array or union        *)
(* variable gets its own name as an implementation and becomes an entity *)
(* with no root type and an empty root sequence; then all entities are   *)
(* imported.  A variable is [name, node], its name "" when it has none.  *)
ExtractTypes(vars) ==
  LET sorted == SortSeq(vars, LAMBDA x, y : StrLess(x.name, y.name))
      named == SelectSeq(sorted, LAMBDA v : v.name # "")
      ents == SelectSeq(sorted, LAMBDA v : v.node.kind \in Container)
      roots == [i \in DOMAIN ents |-> [var |-> ents[i].name, rs |-> <<>>, rt |-> NoRoot, own |-> TRUE]]
  IN IF Len(named) < Len(sorted)
     THEN [impls |-> <<>>, err |-> "ValueError"]
     ELSE LET r == ImportEntities([i \in DOMAIN ents |-> Entity(ents[i].node, ents[i].name, NoRoot, <<>>)], <<>>)
          IN [r EXCEPT !.impls = roots \o @]

-----------------------------------------------------------------------------
(* Spec 4.3, contract (2), as a recursive definition over the tree: the  *)
(* paths of the leaves with a non-null value, each named by the keys from *)
(* the variable down, fields without a name excluded, and whether a node *)
(* on those paths has no value or a list on a scalar.                     *)
Named(n) == {i \in DOMAIN n.entries : n.kind = "array" \/ n.entries[i].key # ""}

RECURSIVE TreeLeaves(_, _, _)
TreeLeaves(n, var, path) ==
  CASE n.val = "str" -> (IF n.null THEN {} ELSE {<<var, path, FALSE>>})
    [] n.val = "list" /\ n.kind \in Container ->
         UNION {TreeLeaves(n.entries[i].node, var, Append(path, n.entries[i].key)) : i \in Named(n)}
    [] OTHER -> {}

RECURSIVE Malformed(_)
Malformed(n) ==
  CASE n.val = "str" -> FALSE
    [] n.val = "list" /\ n.kind \in Container -> \E i \in Named(n) : Malformed(n.entries[i].node)
    [] OTHER -> TRUE

(* For variables with distinct names: a variable without a name makes the *)
(* import fail; otherwise it fails exactly when an initializer has a     *)
(* malformed node, and when it does not, it records every container      *)
(* variable and every non-null leaf exactly once, with its path from the *)
(* variable as root sequence.                                             *)
ImportMatchesTrees(vars) ==
  LET r == ExtractTypes(vars)
      ents == {i \in DOMAIN vars : vars[i].node.kind \in Container}
      want == {<<vars[i].name, <<>>, TRUE>> : i \in ents}
                \cup UNION {TreeLeaves(vars[i].node, vars[i].name, <<>>) : i \in ents}
      got == {<<x.var, x.rs, x.own>> : x \in Range(r.impls)}
  IN IF \E i \in DOMAIN vars : vars[i].name = "" THEN r.err = "ValueError"
     ELSE /\ (r.err = "none") = (\A i \in ents : ~Malformed(vars[i].node))
          /\ r.err = "none" => got = want /\ Len(r.impls) = Cardinality(want)

=============================================================================
