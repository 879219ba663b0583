----------------------------- MODULE LabelMatch -----------------------------
(***************************************************************************)
(* The estimation of an event process template for an interface category *)
(* (ProcessModel.__match_labels in                                        *)
(* src/core/core/avtg/emg/intermediate_model.py): the label map that      *)
(* __choose_processes compares.                                            *)
(*                                                                         *)
(* Interfaces are pairs <<category, number>>; the analysis gives their    *)
(* kinds, the fields of containers and the parameter interfaces of        *)
(* callbacks, and which callbacks are called already.  A template is a    *)
(* record of labels (kind, declared interfaces, prior signature) and of   *)
(* the calls of the process, each an access <<label, tail>> to the        *)
(* callback and a list of parameter accesses; a tail is a field name or  *)
(* "" for none.  __resolve_interface is reduced to one field of a         *)
(* container: the role map and the declaration filters are left out.     *)
(***************************************************************************)
EXTENDS Naturals, Sequences, SequencesExt, FiniteSets, FiniteSetsExt, Functions

CONSTANTS
  Category,  \* the category being matched
  Known,     \* analysis.interfaces: the interfaces known to the analysis
  KindOf,    \* interface -> "container", "callback" or "resource"
  FieldsOf,  \* container -> [field name -> interface]
  ParamsOf,  \* callback -> its param_interfaces (the non-None ones)
  Passes     \* bound on the passes of the matching loop

IdLess(a, b) == a[1] < b[1] \/ (a[1] = b[1] /\ a[2] < b[2])
Sorted(S) == SetToSortSeq(S, IdLess)

(* analysis.containers(category) and analysis.callbacks(category). *)
OfCategory(k) == {i \in Known : i[1] = Category /\ KindOf[i] = k}

(* __resolve_interface(interface, tail) for one field: the interface the *)
(* field of a container names, or <<>> for None.                         *)
Resolve(i, f) ==
  IF KindOf[i] = "container" /\ f \in DOMAIN FieldsOf[i] THEN <<FieldsOf[i][f]>> ELSE <<>>

(* __add_label_match, for every interface of S. *)
AddMatch(M, l, S) ==
  IF S = {} THEN M ELSE [M EXCEPT !.keys = @ \cup {l}, !.ml[l] = @ \cup S]

(* "Try to match container": a label with declared interfaces takes those *)
(* of the category; one without, used with a tail, every container of    *)
(* the category the tail resolves in.                                    *)
ContainerMatch(T, M, a) ==
  LET l == a.cb[1]
      L == T.lab[l]
  IN IF L.intfs # {} /\ l \notin M.keys
     THEN AddMatch(M, l, {i \in L.intfs : i \in Known /\ i[1] = Category})
     ELSE IF /\ L.intfs = {} /\ ~L.prior /\ a.cb[2] # ""
             /\ L.kind = "container" /\ l \notin M.keys
     THEN AddMatch(M, l, {c \in OfCategory("container") : Resolve(c, a.cb[2]) # <<>>})
     ELSE M

(* "Try to match callback itself": the callbacks the call may invoke, in *)
(* the sorted order of the label's interfaces.                           *)
Callees(T, M, a) ==
  LET l == a.cb[1]
      r(i) == Resolve(i, a.cb[2])
      viaField == SelectSeq(Sorted(M.ml[l]), LAMBDA i : r(i) # <<>> /\ KindOf[r(i)[1]] = "callback")
  IN IF l \in M.keys /\ T.lab[l].kind = "container"
     THEN [n \in DOMAIN viaField |-> r(viaField[n])[1]]
     ELSE IF l \in M.keys /\ T.lab[l].kind = "callback"
     THEN Sorted({i \in M.ml[l] : i \in Known})
     ELSE <<>>

(* "Match parameters" of call a against the parameter interfaces of f.  *)
(* A parameter with a tail first matches the containers it resolves in.  *)
(* Then each parameter interface no parameter label holds yet goes to    *)
(* the parameter at its position when the counts agree, else to the      *)
(* first unmatched label without a tail, else to the last resource.      *)
MatchParameters(T, M, a, f) ==
  LET ps == a.params
      tailed == {j \in DOMAIN ps : ps[j][2] # ""}
      hits(j) == {c \in OfCategory("container") : Resolve(c, ps[j][2]) # <<>>}
      M1 == FoldSet(LAMBDA j, m : AddMatch(m, ps[j][1], hits(j)), M, tailed)
      pre == UNION {{Resolve(c, ps[j][2])[1] : c \in hits(j)} : j \in tailed}
      fi == ParamsOf[f]
      Step(m, pr) ==
        LET held == {j \in DOMAIN ps : ps[j][1] \in m.keys /\ fi[pr] \in m.ml[ps[j][1]]}
            free == SelectSeq(ps, LAMBDA p : p[1] \notin m.keys /\ p[2] = "")
            rsrs == SelectSeq(ps, LAMBDA p : T.lab[p[1]].kind = "resource")
        IN IF held # {} \/ fi[pr] \in pre THEN m
           ELSE IF Len(ps) = Len(fi) THEN AddMatch(m, ps[pr][1], {fi[pr]})
           ELSE IF free # <<>> THEN AddMatch(m, free[1][1], {fi[pr]})
           ELSE IF rsrs # <<>> THEN AddMatch(m, Last(rsrs)[1], {fi[pr]})
           ELSE m
  IN FoldLeft(Step, M1, [pr \in 1..Len(fi) |-> pr])

(* One call of the first loop of a pass. *)
CallStep(T, M, a) ==
  LET M1 == ContainerMatch(T, M, a)
  IN FoldLeft(LAMBDA m, f : MatchParameters(T, m, a, f), M1, Callees(T, M1, a))

(* "After containers are matched try to match rest callbacks": a callback *)
(* label still unmatched takes the uncalled callbacks in the fields of   *)
(* the interfaces of matched container labels, then every uncalled       *)
(* callback of the category, leaving out those the last pass counted as  *)
(* matched.                                                               *)
RestCallbacks(T, M, called) ==
  LET open(i) == KindOf[i] = "callback" /\ ~called[i] /\ i \notin Range(M.mcb)
      mc == {l \in M.keys : T.lab[l].kind = "container"}
      uc == {l \in DOMAIN T.lab : T.lab[l].kind = "callback" /\ l \notin M.keys}
      inFields == {f \in UNION {Range(FieldsOf[i]) : i \in UNION {M.ml[c] : c \in mc}} : open(f)}
      ofCategory == {i \in OfCategory("callback") : open(i)}
  IN FoldSet(LAMBDA l, m : AddMatch(m, l, (IF mc # {} THEN inFields ELSE {}) \cup ofCategory), M, uc)

(* "Check which callbacks are matched totally", one call: a call of an    *)
(* unmatched label counts as an unmatched callback; a call of a matched   *)
(* callback label counts its interfaces once; a call through a matched    *)
(* container counts the field each interface resolves to.  The code tests *)
(* the access string of the call against the list of interface           *)
(* identifiers there, which never holds, so that field is counted again  *)
(* for every such call.                                                   *)
CountCall(T, M, a) ==
  LET l == a.cb[1]
      L == T.lab[l]
      Unm(m) == IF a.cb \in Range(m.ucb) THEN m ELSE [m EXCEPT !.ucb = Append(@, a.cb)]
  IN IF L.kind = "callback" /\ l \notin M.keys THEN Unm(M)
     ELSE IF L.kind = "callback"
     THEN FoldLeft(LAMBDA m, cb : [m EXCEPT !.mcb = IF cb \in Range(@) THEN @ ELSE Append(@, cb),
                                            !.mcalls = @ \cup {a.cb}],
                   M, Sorted(M.ml[l]))
     ELSE IF L.kind = "container" /\ a.cb[2] # "" /\ l \notin M.keys THEN Unm(M)
     ELSE IF L.kind = "container" /\ a.cb[2] # ""
     THEN FoldLeft(LAMBDA m, i : IF Resolve(i, a.cb[2]) = <<>> THEN Unm(m)
                                 ELSE [m EXCEPT !.mcb = Append(@, Resolve(i, a.cb[2])[1]),
                                                !.mcalls = @ \cup {a.cb}],
                   M, Sorted(M.ml[l]))
     ELSE M

(* Mutant: a pass keeps the matched callbacks of the previous one. *)
Pass_NoReset(T, M, called) ==
  LET M1 == FoldLeft(LAMBDA m, a : CallStep(T, m, a), M, T.calls)
      M2 == RestCallbacks(T, M1, called)
      M3 == [M2 EXCEPT !.ulabels = {l \in DOMAIN T.lab : l \notin M2.keys /\ T.lab[l].intfs = {}
                                                           /\ ~T.lab[l].prior},
                       !.ucb = <<>>]
  IN FoldLeft(LAMBDA m, a : CountCall(T, m, a), M3, T.calls)

(* One pass of `while success_on_iteration`. *)
Pass(T, M, called) ==
  LET M1 == FoldLeft(LAMBDA m, a : CallStep(T, m, a), M, T.calls)
      M2 == RestCallbacks(T, M1, called)
      M3 == [M2 EXCEPT !.ulabels = {l \in DOMAIN T.lab : l \notin M2.keys /\ T.lab[l].intfs = {}
                                                           /\ ~T.lab[l].prior},
                       !.ucb = <<>>, !.mcb = <<>>]
  IN FoldLeft(LAMBDA m, a : CountCall(T, m, a), M3, T.calls)

Size(M) == Len(M.mcb) + Cardinality(M.keys)

(* The loop runs another pass while the last one grew the number of      *)
(* matched callbacks plus matched labels; over records that it ran more  *)
(* than Passes passes.                                                    *)
RECURSIVE Iterate(_, _, _, _)
Iterate(tpl, lm, called, n) ==
  IF n = 0 THEN [lm EXCEPT !.over = TRUE]
  ELSE LET next == Pass(tpl, lm, called)
       IN IF Size(next) - Size(lm) > 0 THEN Iterate(tpl, next, called, n - 1) ELSE next

(* "Discard unmatched callbacks": a callback a container call resolves to *)
(* is removed from every matched callback label.                          *)
Discard(T, M) ==
  LET through == {a \in Range(T.calls) : T.lab[a.cb[1]].kind = "container" /\ a.cb[2] # ""
                                          /\ a.cb[1] \in M.keys}
      reached == UNION {{Resolve(i, a.cb[2])[1] : i \in {i \in M.ml[a.cb[1]] : Resolve(i, a.cb[2]) # <<>>}}
                         : a \in through}
  IN [M EXCEPT !.ml = [l \in DOMAIN @ |-> IF T.lab[l].kind = "callback" THEN @[l] \ reached ELSE @[l]]]

(* The native interfaces: the known interfaces of the category the labels *)
(* declare, each label matched with its own. *)
Natives(T) == {i \in UNION {T.lab[l].intfs : l \in DOMAIN T.lab} : i \in Known /\ i[1] = Category}

(* The label map before the loop: each label matched with its native    *)
(* interfaces; native interfaces counts them.                            *)
Start(T) ==
  LET ni == Natives(T)
  IN [ml |-> [l \in DOMAIN T.lab |-> T.lab[l].intfs \cap ni],
      keys |-> {l \in DOMAIN T.lab : T.lab[l].intfs \cap ni # {}},
      ulabels |-> {}, mcb |-> <<>>, ucb |-> <<>>, mcalls |-> {},
      native |-> Cardinality(ni), over |-> FALSE]

(* __match_labels: None (the empty record) when the labels declare        *)
(* interfaces but none of them is a native one ("the process is intended *)
(* to be matched with another category").                                 *)
MatchLabels(T, called) ==
  LET nc == {i[1] : i \in UNION {T.lab[l].intfs : l \in DOMAIN T.lab}}
  IN IF nc # {} /\ Natives(T) = {} THEN [none |-> TRUE]
     ELSE Discard(T, Iterate(T, Start(T), called, Passes))

=============================================================================
